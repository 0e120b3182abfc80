--------------------------- MODULE MCTrapManager ----------------------------
(* Two configured CHILD_SAs with the same traffic selectors, one of them    *)
(* for any peer.                                                            *)
EXTENDS TrapManager

CONSTANTS n1, n2, wide, narrow

SameTS == [n \in {n1, n2} |-> wide]
=============================================================================
