----------------------------- MODULE Scheduler ------------------------------
(***************************************************************************)
(* The scheduler (libstrongswan/processing/scheduler.c): a heap of timed    *)
(* events, and the job that sleeps until the first one is due and passes    *)
(* its job to the processor.  The job runs in one thread of the processor   *)
(* and is cancelled while it sleeps.                                        *)
(*                                                                          *)
(* Everything done under the mutex is one action.  The heap is the array of *)
(* the code, a sequence that starts at 1.                                   *)
(***************************************************************************)
EXTENDS Naturals, Sequences, FiniteSets

CONSTANTS
  MaxJobs,   \* bound: how many jobs are scheduled
  MaxTime    \* bound: the last instant

ASSUME SchedulerAssumption == {MaxJobs, MaxTime} \subseteq Nat

Jobs == 1..MaxJobs  \* numbered in the order they are scheduled
Never == MaxTime + 1
Events == [time : 0..MaxTime, job : Jobs]

VARIABLES
  heap,      \* heap[1..event_count]
  pc,        \* what the job of the scheduler does: look, pass, sleep or off
  until,     \* until when it sleeps
  hand,      \* the jobs of events removed from the heap but not queued yet
  queued,    \* the jobs passed to the processor
  dropped,   \* the jobs destroyed by flush()
  now        \* time_monotonic()

vars == <<heap, pc, until, hand, queued, dropped, now>>

Init ==
  /\ heap = <<>> /\ pc = "look" /\ until = Never
  /\ hand = {} /\ queued = {} /\ dropped = {} /\ now = 0

(***************************************************************************)
(* The heap.  A parent i has the children 2i and 2i+1.                      *)
(***************************************************************************)
Earlier(h, i, j) == h[i].time < h[j].time

Exchanged(h, i, j) == [h EXCEPT ![i] = h[j], ![j] = h[i]]

Heaps(n) == [1..n -> Events]

\* The event at i of g moves up as long as its parent fires later.
BubbleUp(n) ==
  LET up[i \in 1..n] ==
        [g \in Heaps(n) |->
           IF i = 1 \/ ~Earlier(g, i, i \div 2) THEN g
           ELSE up[i \div 2][Exchanged(g, i, i \div 2)]]
  IN up

\* The event at the bottom finds its place.
Bubbled(h) == BubbleUp(Len(h))[Len(h)][h]

\* Mutant: only the left child is looked at.
LeftChild(h, i) == 2 * i

\* The child that fires first.
SmallerChild(h, i) ==
  IF 2 * i + 1 <= Len(h) /\ Earlier(h, 2 * i + 1, 2 * i) THEN 2 * i + 1
  ELSE 2 * i

\* The event at i of g moves down as long as a child fires earlier.
SeepDown(n) ==
  LET down[i \in 1..n] ==
        [g \in Heaps(n) |->
           IF 2 * i > n \/ ~Earlier(g, SmallerChild(g, i), i) THEN g
           ELSE down[SmallerChild(g, i)][Exchanged(g, i, SmallerChild(g, i))]]
  IN down

\* The event at the top finds its place.
Seeped(h) == SeepDown(Len(h))[1][h]

\* remove_event() without the event it returns: the bottom replaces the top.
Removed(h) ==
  LET n == Len(h) - 1
      g == [i \in 1..n |-> IF i = 1 THEN h[n + 1] ELSE h[i]]
  IN IF n > 1 THEN Seeped(g) ELSE g

\* peek_event(): when the first event is due.
FirstDue == IF heap = <<>> THEN Never ELSE heap[1].time

(***************************************************************************)
(* The operations.                                                          *)
(***************************************************************************)
\* Mutant: a job that is scheduled does not wake the scheduler if others wait.
SignalIfEmpty ==
  pc' = IF pc = "sleep" /\ heap = <<>> THEN "look" ELSE pc

\* Mutant: nobody is woken.
NoSignal == pc' = pc

\* condvar->signal(): the scheduler wakes up if it sleeps.
Signal == pc' = IF pc = "sleep" THEN "look" ELSE pc

Known == hand \cup queued \cup dropped \cup {heap[i].job : i \in 1..Len(heap)}

\* schedule_job(), schedule_job_ms() and schedule_job_tv(), whose time may
\* have passed already.
ScheduleJob(j, t) ==
  /\ j = Cardinality(Known) + 1
  /\ heap' = Bubbled(Append(heap, [time |-> t, job |-> j]))
  /\ Signal
  /\ UNCHANGED <<until, hand, queued, dropped, now>>

\* schedule() with an event that is due: it leaves the heap under the mutex...
TakeEvent ==
  /\ pc = "look" /\ FirstDue <= now
  /\ heap' = Removed(heap)
  /\ hand' = {heap[1].job}
  /\ pc' = "pass"
  /\ UNCHANGED <<until, queued, dropped, now>>

\* ...and is queued without it; the job is executed again directly.
QueueJob ==
  /\ pc = "pass"
  /\ queued' = queued \cup hand
  /\ hand' = {}
  /\ pc' = "look"
  /\ UNCHANGED <<heap, until, dropped, now>>

\* schedule() without one: it sleeps until the first event is due.
Sleep ==
  /\ pc = "look" /\ FirstDue > now
  /\ until' = FirstDue
  /\ pc' = "sleep"
  /\ UNCHANGED <<heap, hand, queued, dropped, now>>

\* timed_wait_abs() times out.
Timeout ==
  /\ pc = "sleep" /\ until <= now
  /\ pc' = "look"
  /\ UNCHANGED <<heap, until, hand, queued, dropped, now>>

\* The processor cancels the thread, which can only happen in its sleep.
CancelThread ==
  /\ pc = "sleep"
  /\ pc' = "off"
  /\ UNCHANGED <<heap, until, hand, queued, dropped, now>>

Flush ==
  /\ dropped' = dropped \cup {heap[i].job : i \in 1..Len(heap)}
  /\ heap' = <<>>
  /\ Signal
  /\ UNCHANGED <<until, hand, queued, now>>

Tick ==
  /\ now < MaxTime
  /\ now' = now + 1
  /\ UNCHANGED <<heap, pc, until, hand, queued, dropped>>

Next ==
  \/ \E j \in Jobs, t \in 0..MaxTime : ScheduleJob(j, t)
  \/ TakeEvent \/ QueueJob \/ Sleep \/ Timeout \/ CancelThread \/ Flush \/ Tick

\* The thread of the scheduler runs on and time passes.
Fairness == WF_vars(TakeEvent) /\ WF_vars(QueueJob) /\ WF_vars(Sleep)
            /\ WF_vars(Timeout) /\ WF_vars(Tick)

Spec == Init /\ [][Next]_vars /\ Fairness

-----------------------------------------------------------------------------
TypeOK ==
  /\ heap \in Seq(Events)
  /\ pc \in {"look", "pass", "sleep", "off"} /\ until \in 0..Never
  /\ hand \subseteq Jobs /\ queued \subseteq Jobs /\ dropped \subseteq Jobs
  /\ now \in 0..MaxTime

\* The scheduler never sleeps past the event that fires first, whatever was
\* scheduled or flushed while it slept.
NeverOversleeps ==
  pc = "sleep" => \A i \in 1..Len(heap) : until <= heap[i].time

Abstract == INSTANCE Timers WITH
  pending <- {heap[i] : i \in 1..Len(heap)}, fired <- hand \cup queued

\* Every job is passed on once, not before its time and in the order of time,
\* or destroyed with all others by flush(): the heap behaves like a sorted set.
ImplementsTimers == Abstract!Spec

\* A scheduled job is passed to the processor or destroyed in the end, unless
\* the thread of the scheduler is cancelled.
EventsFire ==
  \A j \in Jobs : j \in Known ~> j \in queued \cup dropped \/ pc = "off"
=============================================================================
