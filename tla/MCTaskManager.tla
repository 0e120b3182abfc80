---------------------------- MODULE MCTaskManager ---------------------------
(***************************************************************************)
(* Instances of TaskManager for TLC.                                        *)
(***************************************************************************)
EXTENDS TaskManager
CONSTANTS ini, rsp

WorkBoth == {[owner |-> ini, kind |-> "CHILD_CREATE", n |-> 1],
             [owner |-> ini, kind |-> "IKE_MOBIKE", n |-> 1],
             [owner |-> rsp, kind |-> "CHILD_CREATE", n |-> 1],
             [owner |-> rsp, kind |-> "IKE_DELETE", n |-> 1]}

WorkSetup == {[owner |-> ini, kind |-> "IKE_MOBIKE", n |-> 1],
              [owner |-> ini, kind |-> "IKE_DPD", n |-> 1]}
GarbledSetup == {[owner |-> ini, kind |-> "IKE_DPD", n |-> 1]}
=============================================================================
