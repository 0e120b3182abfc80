----------------------------- MODULE Processor ------------------------------
(***************************************************************************)
(* The processor (libstrongswan/processing/processor.c): the pool of worker *)
(* threads that executes the jobs of the daemon by priority, with threads   *)
(* reserved for each priority, and its shutdown.                            *)
(*                                                                          *)
(* Everything done under the mutex is one action.  A job is executed and    *)
(* destroyed outside the mutex, each in an action of its own.  The          *)
(* scheduler is what module Timers promises, without the time, and runs     *)
(* itself as a job of the processor: timed jobs fire only while a worker    *)
(* executes it.                                                             *)
(***************************************************************************)
EXTENDS Integers, Sequences, FiniteSets, FiniteSetsExt

CONSTANTS
  Workers,     \* the worker threads that may be created
  Jobs,        \* the jobs besides the one of the scheduler
  Scheduler,   \* the job of the scheduler
  Nothing,     \* no job
  Prio,        \* Prio[j]: the priority of j, 0 the highest
  Cancel,      \* Cancel[j]: what cancel() of j does: nothing ("none"), makes
               \* execute() return ("returns") or leaves it to the processor to
               \* cancel the thread ("thread")
  Reserved,    \* prio_threads
  Counts,      \* the numbers set_threads() is called with
  MaxRuns      \* bound: how often a job is executed

AllJobs == Jobs \cup {Scheduler}
Prios == DOMAIN Reserved

ASSUME ProcessorAssumption ==
  /\ Scheduler \notin Jobs /\ Nothing \notin AllJobs
  /\ Prios = 0..(Cardinality(Prios) - 1)
  /\ Reserved \in [Prios -> Nat] /\ Prio \in [AllJobs -> Prios]
  /\ Cancel \in [AllJobs -> {"none", "returns", "thread"}]
  /\ Cancel[Scheduler] = "thread" /\ Prio[Scheduler] = 0
  /\ IsFiniteSet(Workers) /\ Counts \subseteq 1..Cardinality(Workers)
  /\ IsFiniteSet(Prios) /\ MaxRuns \in Nat \ {0}

VARIABLES
  worker,    \* worker[w]: what w does, its job and whether it was cancelled
  total,     \* total_threads
  desired,   \* desired_threads
  working,   \* working_threads
  jobs,      \* the queues
  fresh,     \* the jobs nobody has handed over yet
  timed,     \* the jobs in the scheduler
  inline,    \* the jobs execute_job() executes in its caller
  canceled,  \* the jobs with JOB_STATUS_CANCELED
  destroyed, \* how often a job was destroyed
  runs,      \* how often a job was executed
  shutdown   \* how far the shutdown is

vars == <<worker, total, desired, working, jobs, fresh, timed, inline, canceled,
          destroyed, runs, shutdown>>

Init ==
  /\ worker = [w \in Workers |->
                [pc |-> "none", job |-> Nothing, cancelled |-> FALSE]]
  /\ total = 0 /\ desired = 0
  /\ working = [i \in Prios |-> 0]
  /\ jobs = [i \in Prios |-> IF i = 0 THEN <<Scheduler>> ELSE <<>>]
  /\ fresh = Jobs /\ timed = {} /\ inline = {} /\ canceled = {}
  /\ destroyed = [j \in AllJobs |-> 0]
  /\ runs = [j \in AllJobs |-> 0]
  /\ shutdown = "no"

In(pc) == {w \in Workers : worker[w].pc = pc}

\* Mutant: nobody is woken.
WokenNobody(v) == {v}

\* job_added->signal(): one of the workers that wait, if any, goes on.
Woken(v) ==
  LET ws == {w \in Workers : v[w].pc = "wait"} IN
  IF ws = {} THEN {v} ELSE {[v EXCEPT ![w].pc = "ready"] : w \in ws}

\* job_added->broadcast()
AllWoken(v) ==
  [w \in Workers |-> IF v[w].pc = "wait" THEN [v[w] EXCEPT !.pc = "ready"]
                     ELSE v[w]]

\* The sum of the numbers n[i] of the priorities i in ps.
SumOver(n, ps) == Cardinality(UNION {{i} \X (1..n[i]) : i \in ps})

\* get_idle_threads_nolock(): those that still destroy a job count as idle.
Idle == total - SumOver(working, Prios)

\* The threads reserved for the priorities of ps that are not at work there.
Spare(ps) ==
  SumOver([i \in ps |-> IF working[i] < Reserved[i]
                        THEN Reserved[i] - working[i] ELSE 0], ps)

(***************************************************************************)
(* Worker threads: process_jobs().                                          *)
(***************************************************************************)
\* Mutant: the last reserved thread is given away.
DelayedLess(i) == LET r == Spare(0..(i - 1)) IN r # 0 /\ r > Idle

\* get_job() leaves the remaining threads to higher priorities.
Delayed(i) == LET r == Spare(0..(i - 1)) IN r # 0 /\ r >= Idle

\* get_job() takes the first job of priority i.
Eligible(i) ==
  /\ jobs[i] # <<>> /\ \A h \in 0..(i - 1) : jobs[h] = <<>>
  /\ ~Delayed(i)

\* Mutant: the thread is counted twice, in restart() and in process_jobs().
TerminatedTwice ==
  /\ total' = total - 2
  /\ shutdown' = IF shutdown = "wait" THEN "woken" ELSE shutdown

\* The worker is one too many: it ends, and cancel() is told.
Terminated ==
  /\ total' = total - 1
  /\ shutdown' = IF shutdown = "wait" THEN "woken" ELSE shutdown

Leave(w) ==
  /\ worker[w].pc = "ready" /\ desired < total
  /\ worker' = [worker EXCEPT ![w].pc = "none", ![w].cancelled = FALSE]
  /\ Terminated
  /\ UNCHANGED <<desired, working, jobs, fresh, timed, inline, canceled,
                 destroyed, runs>>

Begin(w) ==
  /\ worker[w].pc = "ready" /\ desired >= total
  /\ \E i \in Prios :
       /\ Eligible(i)
       /\ LET j == Head(jobs[i]) IN
          /\ worker' = [worker EXCEPT ![w].pc = "exec", ![w].job = j]
          /\ runs' = [runs EXCEPT ![j] = @ + 1]
       /\ jobs' = [jobs EXCEPT ![i] = Tail(@)]
       /\ working' = [working EXCEPT ![i] = @ + 1]
  /\ UNCHANGED <<total, desired, fresh, timed, inline, canceled, destroyed,
                 shutdown>>

Rest(w) ==
  /\ worker[w].pc = "ready" /\ desired >= total
  /\ \A i \in Prios : ~Eligible(i)
  /\ worker' = [worker EXCEPT ![w].pc = "wait"]
  /\ UNCHANGED <<total, desired, working, jobs, fresh, timed, inline, canceled,
                 destroyed, runs, shutdown>>

\* The job is destroyed: it is done, or was canceled while it was executed.
Ends(j, r) == j \in canceled \/ r = "none"

\* execute() returns: the job is over, or is queued again, or wants to be
\* scheduled.  Executing it again directly is left out.
Return(w, r) ==
  LET j == worker[w].job
      i == Prio[j]
      back == [worker EXCEPT ![w].pc = "ready", ![w].job = Nothing]
  IN
  /\ worker[w].pc = "exec" /\ j # Scheduler
  /\ r # "none" => runs[j] < MaxRuns
  /\ working' = [working EXCEPT ![i] = @ - 1]
  /\ \/ /\ Ends(j, r)
        /\ worker' = [worker EXCEPT ![w].pc = "clean"]
        /\ UNCHANGED <<jobs, timed>>
     \/ /\ ~Ends(j, r) /\ r = "fair"
        /\ jobs' = [jobs EXCEPT ![i] = Append(@, j)]
        /\ worker' \in Woken(back)
        /\ UNCHANGED timed
     \/ /\ ~Ends(j, r) /\ r = "schedule"
        /\ timed' = timed \cup {j}
        /\ worker' = back
        /\ UNCHANGED jobs
  /\ UNCHANGED <<total, desired, fresh, inline, canceled, destroyed, runs,
                 shutdown>>

\* The job is destroyed without the mutex.
Clean(w) ==
  /\ worker[w].pc = "clean"
  /\ destroyed' = [destroyed EXCEPT ![worker[w].job] = @ + 1]
  /\ worker' = [worker EXCEPT ![w].pc = "ready", ![w].job = Nothing]
  /\ UNCHANGED <<total, desired, working, jobs, fresh, timed, inline, canceled,
                 runs, shutdown>>

\* A cancelled thread reaches a cancellation point in its job: restart().
Unwind(w) ==
  /\ worker[w].pc = "exec" /\ worker[w].cancelled
  /\ working' = [working EXCEPT ![Prio[worker[w].job]] = @ - 1]
  /\ canceled' = canceled \cup {worker[w].job}
  /\ worker' = [worker EXCEPT ![w].pc = "unwind"]
  /\ UNCHANGED <<total, desired, jobs, fresh, timed, inline, destroyed, runs,
                 shutdown>>

\* It destroys the job and is replaced by a new one if there are not enough.
Restart(w) ==
  LET again == desired >= total IN
  /\ worker[w].pc = "unwind"
  /\ destroyed' = [destroyed EXCEPT ![worker[w].job] = @ + 1]
  /\ worker' = [worker EXCEPT ![w] = [pc |-> IF again THEN "ready" ELSE "none",
                                      job |-> Nothing, cancelled |-> FALSE]]
  /\ IF again THEN UNCHANGED <<total, shutdown>> ELSE Terminated
  /\ UNCHANGED <<desired, working, jobs, fresh, timed, inline, canceled, runs>>

(***************************************************************************)
(* Threads that use the processor.                                          *)
(***************************************************************************)
QueueJob(j) ==
  /\ j \in fresh /\ shutdown # "end"
  /\ fresh' = fresh \ {j}
  /\ jobs' = [jobs EXCEPT ![Prio[j]] = Append(@, j)]
  /\ worker' \in Woken(worker)
  /\ UNCHANGED <<total, desired, working, timed, inline, canceled, destroyed,
                 runs, shutdown>>

\* The job is queued in front if a worker is idle.  If not, the caller executes
\* it, whatever it asks for then.
ExecuteJob(j) ==
  /\ j \in fresh /\ shutdown # "end"
  /\ fresh' = fresh \ {j}
  /\ \/ /\ desired > 0 /\ Idle > 0
        /\ jobs' = [jobs EXCEPT ![Prio[j]] = <<j>> \o @]
        /\ UNCHANGED <<inline, runs>>
     \/ /\ ~(desired > 0 /\ Idle > 0)
        /\ inline' = inline \cup {j}
        /\ runs' = [runs EXCEPT ![j] = @ + 1]
        /\ UNCHANGED jobs
  /\ worker' \in Woken(worker)
  /\ UNCHANGED <<total, desired, working, timed, canceled, destroyed, shutdown>>

ReturnInline(j) ==
  /\ j \in inline
  /\ inline' = inline \ {j}
  /\ destroyed' = [destroyed EXCEPT ![j] = @ + 1]
  /\ UNCHANGED <<worker, total, desired, working, jobs, fresh, timed, canceled,
                 runs, shutdown>>

\* The job of the scheduler finds an event that is due and queues its job.
Expire(j) ==
  /\ j \in timed /\ \E w \in In("exec") : worker[w].job = Scheduler
  /\ timed' = timed \ {j}
  /\ jobs' = [jobs EXCEPT ![Prio[j]] = Append(@, j)]
  /\ worker' \in Woken(worker)
  /\ UNCHANGED <<total, desired, working, fresh, inline, canceled, destroyed,
                 runs, shutdown>>

\* set_threads(): the same number as there are threads leaves the desired
\* number alone.
Resize(n) ==
  /\ desired' = IF n = total THEN desired ELSE n
  /\ total' = IF n > total THEN n ELSE total
  /\ \E new \in kSubset(total' - total, In("none")) :
       worker' = AllWoken([w \in Workers |->
                   IF w \in new THEN [worker[w] EXCEPT !.pc = "ready"]
                   ELSE worker[w]])
  /\ UNCHANGED <<working, jobs, fresh, timed, inline, canceled, destroyed, runs>>

SetThreads(n) ==
  /\ shutdown = "no"
  /\ Resize(n)
  /\ UNCHANGED shutdown

\* The daemon shuts down: set_threads(0), and cancel() some time later.
Disable ==
  /\ shutdown = "no"
  /\ Resize(0)
  /\ shutdown' = "begun"

\* Mutant: jobs with a cancel() of their own are left alone.
BlockingThread == {w \in In("exec") : Cancel[worker[w].job] = "thread"}

Blocking == {w \in In("exec") : Cancel[worker[w].job] # "none"}

\* cancel(): blocking jobs are cancelled, the others are left to end.
CancelAll ==
  /\ shutdown \in {"no", "begun"}
  /\ desired' = 0
  /\ canceled' = canceled \cup {worker[w].job : w \in Blocking}
  /\ worker' = AllWoken([w \in Workers |->
                 IF w \in Blocking /\ Cancel[worker[w].job] = "thread"
                 THEN [worker[w] EXCEPT !.cancelled = TRUE] ELSE worker[w]])
  /\ shutdown' = IF total > 0 THEN "wait" ELSE "woken"
  /\ UNCHANGED <<total, working, jobs, fresh, timed, inline, destroyed, runs>>

CancelAgain ==
  /\ shutdown = "woken" /\ total > 0
  /\ worker' = AllWoken(worker)
  /\ shutdown' = "wait"
  /\ UNCHANGED <<total, desired, working, jobs, fresh, timed, inline, canceled,
                 destroyed, runs>>

\* How often a job is queued.
Queued(j) ==
  SumOver([i \in Prios |-> Quantify(1..Len(jobs[i]), LAMBDA k : jobs[i][k] = j)],
          Prios)

\* Mutant: the destroyed jobs stay queued.
DrainKept(dropped) ==
  /\ jobs' = jobs
  /\ destroyed' = [j \in AllJobs |->
       destroyed[j] + Queued(j) + IF j \in dropped THEN 1 ELSE 0]

\* Queued jobs are destroyed; dropped are other jobs destroyed with them.
Drain(dropped) ==
  /\ jobs' = [i \in Prios |-> <<>>]
  /\ destroyed' = [j \in AllJobs |->
       destroyed[j] + Queued(j) + IF j \in dropped THEN 1 ELSE 0]

CancelDone ==
  /\ shutdown = "woken" /\ total = 0
  /\ Drain({})
  /\ shutdown' = "done"
  /\ UNCHANGED <<worker, total, desired, working, fresh, timed, inline,
                 canceled, runs>>

\* The scheduler is flushed and destroyed, then the processor, which cancels
\* again.  No other thread is left by then.
Deinit ==
  /\ shutdown = "done" /\ inline = {}
  /\ Drain(timed)
  /\ timed' = {}
  /\ shutdown' = "end"
  /\ UNCHANGED <<worker, total, desired, working, fresh, inline, canceled, runs>>

Ended == shutdown = "end" /\ UNCHANGED vars

Next ==
  \/ \E w \in Workers :
       \/ Leave(w) \/ Begin(w) \/ Rest(w) \/ Clean(w) \/ Unwind(w) \/ Restart(w)
       \/ \E r \in {"none", "fair", "schedule"} : Return(w, r)
  \/ \E j \in Jobs :
       QueueJob(j) \/ ExecuteJob(j) \/ ReturnInline(j) \/ Expire(j)
  \/ \E n \in Counts : SetThreads(n)
  \/ Disable \/ CancelAll \/ CancelAgain \/ CancelDone \/ Deinit \/ Ended

\* Threads run on; a job that does not block returns, as does one that was
\* cancelled; the scheduler passes on its events; the daemon shuts down once
\* it has begun to.
Fairness ==
  /\ \A w \in Workers :
       /\ WF_vars(Leave(w)) /\ WF_vars(Begin(w)) /\ WF_vars(Rest(w))
       /\ WF_vars(Clean(w)) /\ WF_vars(Unwind(w)) /\ WF_vars(Restart(w))
       /\ WF_vars(/\ worker[w].job \in {j \in AllJobs : Cancel[j] = "none"}
                                        \cup canceled
                  /\ \E r \in {"none", "fair", "schedule"} : Return(w, r))
  /\ \A j \in Jobs : WF_vars(ReturnInline(j)) /\ WF_vars(Expire(j))
  /\ WF_vars(CancelAgain) /\ WF_vars(CancelDone) /\ WF_vars(Deinit)

Spec == Init /\ [][Next]_vars /\ Fairness

-----------------------------------------------------------------------------
TypeOK ==
  /\ worker \in [Workers ->
       [pc : {"none", "ready", "wait", "exec", "clean", "unwind"},
        job : AllJobs \cup {Nothing}, cancelled : BOOLEAN]]
  /\ total \in 0..Cardinality(Workers) /\ desired \in 0..Cardinality(Workers)
  /\ working \in [Prios -> 0..Cardinality(Workers)]
  /\ jobs \in [Prios -> Seq(AllJobs)]
  /\ fresh \subseteq Jobs /\ timed \subseteq Jobs /\ inline \subseteq Jobs
  /\ canceled \subseteq AllJobs
  /\ destroyed \in [AllJobs -> 0..1] /\ runs \in [AllJobs -> 0..MaxRuns]
  /\ shutdown \in {"no", "begun", "wait", "woken", "done", "end"}

\* How many owners a job has: its maker, a queue, a worker, the scheduler, the
\* caller of execute_job(), or nobody any more because it was destroyed.
Owners(j) ==
  LET holds(b) == IF b THEN 1 ELSE 0
  IN Quantify(Workers, LAMBDA w : worker[w].job = j) + Queued(j)
       + holds(j \in fresh) + holds(j \in timed) + holds(j \in inline)
       + destroyed[j]

\* A job is never executed by two threads, never used after it was destroyed,
\* never destroyed twice and never lost, cancellation included.
OneOwner == \A j \in AllJobs : Owners(j) = 1

\* Threads reserved for critical jobs are never taken by others, as long as the
\* pool is not made smaller.
CriticalReserved ==
  desired >= total /\ total >= Reserved[0] => Idle >= Spare({0})

\* Once cancel() is called it returns, all threads having ended: none of them
\* sleeps on, and no canceled job stays queued.
CancelReturns == shutdown = "wait" ~> shutdown = "end" /\ In("none") = Workers

\* A job handed over is executed once the pool has threads, unless it is shut
\* down: no wake-up is lost, and no thread is held back for ever.
JobsRun ==
  \A j \in Jobs : j \notin fresh /\ desired > 0 ~> runs[j] > 0 \/ shutdown # "no"
=============================================================================
