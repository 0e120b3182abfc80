----------------------------- MODULE SaCheckout -----------------------------
(***************************************************************************)
(* What the IKE_SA manager promises its callers (ike_sa_manager.h): an     *)
(* IKE_SA is worked on by at most one thread at a time, is ended only by   *)
(* the thread that works on it or by a shutdown that finds nobody working  *)
(* on it, and is never revived.                                            *)
(***************************************************************************)
CONSTANTS SAs, Threads

VARIABLES
  alive,   \* the SAs that exist
  dead,    \* the SAs (and SPIs drawn for none) that have been freed
  users    \* the threads that work on an SA

vars == <<alive, dead, users>>

Init == /\ alive \subseteq SAs
        /\ dead = {}
        /\ users = [s \in SAs |-> {}]

\* Thread t creates SA s and works on it.
Create(t, s) == /\ s \notin alive \cup dead
                /\ alive' = alive \cup {s}
                /\ users' = [users EXCEPT ![s] = {t}]
                /\ UNCHANGED dead

\* An SPI was drawn, but no SA is created for it.
Discard(s) == /\ s \notin alive \cup dead
              /\ dead' = dead \cup {s}
              /\ UNCHANGED <<alive, users>>

CheckOut(t, s) == /\ s \in alive
                  /\ users[s] = {}
                  /\ users' = [users EXCEPT ![s] = {t}]
                  /\ UNCHANGED <<alive, dead>>

CheckIn(t, s) == /\ s \in alive
                 /\ users[s] = {t}
                 /\ users' = [users EXCEPT ![s] = {}]
                 /\ UNCHANGED <<alive, dead>>

CheckInAndDestroy(t, s) == /\ s \in alive
                           /\ users[s] = {t}
                           /\ users' = [users EXCEPT ![s] = {}]
                           /\ alive' = alive \ {s}
                           /\ dead' = dead \cup {s}

\* A shutdown ends SAs nobody works on.
Shutdown == \E S \in SUBSET alive :
              /\ \A s \in S : users[s] = {}
              /\ alive' = alive \ S
              /\ dead' = dead \cup S
              /\ UNCHANGED users

Next == \/ \E t \in Threads, s \in SAs :
             \/ Create(t, s)
             \/ CheckOut(t, s)
             \/ CheckIn(t, s)
             \/ CheckInAndDestroy(t, s)
        \/ \E s \in SAs : Discard(s)
        \/ Shutdown

Spec == Init /\ [][Next]_vars
=============================================================================
