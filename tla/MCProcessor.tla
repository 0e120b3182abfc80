---------------------------- MODULE MCProcessor -----------------------------
(* Instances of Processor with three priorities: the job s of the scheduler *)
(* and a second critical job that blocks (bl), one of high (hi) and one of  *)
(* low priority (lo).                                                       *)
EXTENDS Processor

CONSTANTS s, bl, hi, lo

MCPrio == [j \in {s, bl, hi, lo} |-> CASE j = hi -> 1 [] j = lo -> 2
                                       [] OTHER -> 0]
MCCancel == [j \in {s, bl, hi, lo} |-> CASE j = s -> "thread"
                                         [] j = bl -> "returns"
                                         [] OTHER -> "none"]
TwoCritical == [i \in 0..2 |-> IF i = 0 THEN 2 ELSE 0]
=============================================================================
