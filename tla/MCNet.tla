------------------------------- MODULE MCNet -------------------------------
(***************************************************************************)
(* Bounds for TLC: see the cfg.                                            *)
(***************************************************************************)
EXTENDS NetProps
=============================================================================
