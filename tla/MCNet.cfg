SPECIFICATION Spec
CONSTANTS
  Senders = {s1, s2}
  Receivers = {r1, r2}
  TXDESCS = 2
  RXDESCS = 4
  RECV_BUFFER_NUM = 1
  NrIrqs = 53
  MaxNum = 2
  Ids = 8
INVARIANTS SendsInOrder ReceivesInOrder  NoDeafReceiver
PROPERTIES ReceiversServed
