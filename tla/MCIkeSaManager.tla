--------------------------- MODULE MCIkeSaManager ---------------------------
(* The manager with the symmetry of its threads and of the peer's addresses:  *)
(* the specification tells none of them from another.                         *)
EXTENDS IkeSaManager, TLC

Symmetric == Permutations(Threads) \cup Permutations(Hosts)
=============================================================================
