----------------------------- MODULE MCIkeRekey -----------------------------
(***************************************************************************)
(* An instance of IkeRekey for TLC: one peer rekeys twice, the other once.  *)
(***************************************************************************)
EXTENDS IkeRekey
CONSTANTS a, b

TwiceAndOnce == [p \in {a, b} |-> IF p = a THEN 2 ELSE 1]
=============================================================================
