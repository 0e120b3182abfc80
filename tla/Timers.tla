------------------------------- MODULE Timers -------------------------------
(***************************************************************************)
(* What the scheduler promises: a job handed to it with a time is passed on *)
(* once, not before that time and not before a job that is due earlier, or  *)
(* it is destroyed with all others that are still pending.                  *)
(***************************************************************************)
EXTENDS Naturals

CONSTANTS Jobs, MaxTime

VARIABLES
  pending,  \* the events: a job and the time it is due
  fired,    \* the jobs passed on
  dropped,  \* the jobs destroyed
  now       \* the time

Start == pending = {} /\ fired = {} /\ dropped = {} /\ now = 0

\* A job is handed over once.
Add(j, t) ==
  /\ j \notin fired \cup dropped /\ \A e \in pending : e.job # j
  /\ pending' = pending \cup {[time |-> t, job |-> j]}
  /\ UNCHANGED <<fired, dropped, now>>

Fire(e) ==
  /\ e \in pending /\ e.time <= now
  /\ \A f \in pending : e.time <= f.time
  /\ pending' = pending \ {e}
  /\ fired' = fired \cup {e.job}
  /\ UNCHANGED <<dropped, now>>

Drop ==
  /\ dropped' = dropped \cup {e.job : e \in pending}
  /\ pending' = {}
  /\ UNCHANGED <<fired, now>>

Pass == now < MaxTime /\ now' = now + 1 /\ UNCHANGED <<pending, fired, dropped>>

Step ==
  \/ \E j \in Jobs, t \in 0..MaxTime : Add(j, t)
  \/ \E e \in pending : Fire(e)
  \/ Drop
  \/ Pass

Spec == Start /\ [][Step]_<<pending, fired, dropped, now>>
=============================================================================
