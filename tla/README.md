# A TLA+ verification project for charon

The repository is a fork of strongSwan: the IKE daemon `charon` and its
libraries in C, an Android VPN application that embeds the daemon, and a small
Java package of connection diagnostics added by the fork. This directory holds
TLA+ models of the daemon's core, the TLC configurations that check them and
the proofs TLAPS checks. Paths below are relative to the repository's root;
`M.c:n` without a path is `src/libcharon/sa/ike_sa_manager.c:n`.

    tlc -workers 2 -config manager_messages.cfg MCIkeSaManager
    tlc -workers 2 -config task_exchanges.cfg MCTaskManager
    for m in IkeSaManagerProofs IkeSaManagerTables TaskManagerProofs \
             IkeRekeyProofs IkeRekeyAgreement SchedulerProofs \
             ProcessorProofs TrapManagerProofs; do tlapm $m.tla; done

Section 3 lists all runs with their module, section 4 the theorems.

## 1. Inventory

| Component | State | Operations | Interacts with |
|---|---|---|---|
| IKE_SA manager (`libcharon/sa/ike_sa_manager.c`) | hash table of entries (SA, holder, waiting threads, driveout flags, message in processing), tables of half-open SAs, connected peers and initial messages | checkout (by SPI, message, config, ID, name), check in, destroy, enumerate, check uniqueness, flush, destroy | every job, the receiver (half-open counters), the daemon's shutdown |
| IKEv2 task manager (`sa/ikev2/task_manager_v2.c`) | one window each way: message ID, packets kept for retransmission, queued/active/passive tasks | initiate, process request/response, retransmit, resolve collisions | IKE_SA, tasks, scheduler (retransmission jobs) |
| IKE_SA, CHILD_SA (`sa/ike_sa.c`, `child_sa.c`) | state machine, keys, hosts, child SAs, statistics | initiate, process message, rekey, reauth, delete, roam | task manager, kernel interface, bus |
| IKEv2 tasks (`sa/ikev2/tasks/`) | per-exchange data, the colliding task | build/process of each side, collide | task manager of both peers |
| IKEv1 task manager and tasks (`sa/ikev1/`) | phase 1/2 tasks, packet hashes | as above | as above |
| Processor, scheduler, watcher (`libstrongswan/processing/`) | job queues by priority, worker threads, heap of timed events, watched descriptors | queue, execute, requeue, cancel, set threads | all of the above |
| Threading (`libstrongswan/threading/`, `collections/blocking_queue.c`) | read-write lock, semaphore, recursive mutex, condvar | lock, wait, signal, cancel | all of the above |
| Trap and shunt managers (`sa/trap_manager.c`, `shunt_manager.c`) | installed traps, pending acquires | install, acquire, complete, uninstall, flush | kernel interface, controller, bus |
| Receiver, sender (`libcharon/network/`) | cookie secrets, drop thresholds, packet queue | receive, check cookie, send, flush | manager's counters, processor |
| Virtual IP pools (`attributes/mem_pool.c`) | leases: online, offline, unused | acquire, release | IKE_SA |
| Kernel interface (`kernel/kernel_interface.c`) | reference counted reqids, listeners | allocate/release reqid, add/remove SAs and policies | CHILD_SA, traps |
| Bus, controller, daemon (`bus/`, `control/`, `daemon.c`) | listeners, start-up and shutdown order | events, initiate/terminate with a listener | all |
| User-land ESP (`src/libipsec/`) | replay windows, SA table, packet queues | process in/out, rekey, expire | Android, kernel-libipsec |
| Android VPN service (`src/frontends/android/`) | VPN state, retry timer, service thread | connect, disconnect, update, retry | libandroidbridge, daemon |
| Android connector package (`.../android/connector/`) | traceroute and port test results | trace, test, look up | user interface only |
| TLS, EAP, TNC, plugins, tools, crypto, encodings | various | various | not part of the core logic |

What is hard in this system:

* **Concurrency.** All protocol work is done by a pool of worker threads. An
  IKE_SA is not locked by a mutex but *checked out*: the manager's table keeps
  the holder, lets other threads sleep on the entry's condvar and drives them
  out before the entry is freed. One condvar per entry serves checkouts,
  enumerations, destruction and shutdown, and most wake-ups are `signal()`,
  which wakes only one of them.
* **Shutdown.** `daemon.c` asks the worker threads to end, but calls `flush()`
  of the manager while they still finish what they have begun.
* **Unreliable delivery.** Every request may be retransmitted, arrive in several
  threads at once, or arrive while the SA it belongs to is created or destroyed.
* **Derived state.** Half-open counters, the list of connected peers and the
  hashes of initial messages are maintained by differences at check-in and at
  destruction; nothing recomputes them.
* **Two-party protocols.** Rekeying and deletion can be started by both peers at
  once; the resolution depends on nonces, on state both have and on the order of
  messages.
* **Time.** Retransmission, rekeying, DPD and the Android retry timer race
  with the answers they wait for.

The properties that make each part correct, in a sentence: the manager grants
exclusive use and frees nothing that is in use; a task manager executes each
request once, answers retransmits with the same response and never has two
requests outstanding; after colliding rekeyings the peers agree on one SA; the
processor never loses or runs a job twice and never starves a reserved priority;
a pool never leases one address to two identities; a reqid stands for one set of
policies as long as it is referenced; the replay window accepts a sequence
number at most once.

## 2. Modules

| Module | Content |
|---|---|
| `IkeSaManager` | the IKE_SA manager: one action per critical section, properties, refinement mapping |
| `SaCheckout` | abstract: SAs exist, are used by at most one thread, end |
| `TaskManager` | the IKEv2 task managers of both ends of an IKE_SA and the network between them |
| `Exchange` | abstract: requests are served once, in order, and answered by their own answer |
| `IkeRekey` | rekeying and deletion of IKE_SAs by two peers, on top of `Exchange` |
| `Scheduler` | the heap of timed events and the thread that sleeps on it |
| `Timers` | abstract: jobs are passed on once, not early, in the order of time |
| `Processor` | worker threads, job queues, reserved threads, cancellation, on top of `Timers` |
| `TrapManager` | traps, acquires, flush, and the reference counted reqids they share with CHILD_SAs |
| `MCIkeSaManager`, `MCTaskManager`, `MCIkeRekey`, `MCProcessor`, `MCTrapManager` | instances for TLC |
| `IkeSaManagerProofs`, `IkeSaManagerTables` | theorems about the manager: exclusion; its tables, counters and condvars and the refinement |
| `IkeRekeyProofs`, `IkeRekeyAgreement` | theorems about rekeying: what one peer keeps; what two peers agree on |
| `TaskManagerProofs`, `SchedulerProofs`, `ProcessorProofs`, `TrapManagerProofs` | theorems about the others |

The modules build on each other through what they promise. `TaskManager` and
`IkeRekey` execute a handler in one action because the manager hands an SA to
one thread at a time (`ExclusiveCheckout`, `CheckoutImplemented`). `IkeRekey`
delivers every request once and every answer to its own exchange, which is
`Exchange`, and `TaskManager` implements that over a network that promises
nothing. `Processor` takes the scheduler to be what `Timers` promises, without
the time. The fairness of `TrapManager` (an attempt to establish a CHILD_SA
ends) is what `TasksEnd` of `TaskManager` shows. The shutdown that
`IkeSaManager` assumes (no worker begins another job after `set_threads(0)`) is
`Leave` of `Processor`.

Sections 2.1 to 2.3 are about `IkeSaManager`.

### 2.1 State

SAs are `1..MaxSA`, identified by the local SPI: drawn once, never reused (a
64-bit random number in the code). `life` tells where an SA is: `unused`, `spi`
(SPI drawn and hash stored, no entry yet), `new` (returned by `checkout_new()`,
known only to its thread), `table`, `removed` (out of the table, still in the
other tables), `gone`. The variables `holder`, `waiting`, `driveNew`,
`driveWait`, `processing`, `halfOpen`, `other`, `hasIds` and `initHash` are the
fields of `entry_t` (M.c:49-117); `waiting` is the set of the threads that
`waiting_threads` counts. `halfOpenTable`, `connectedPeers` and `initHashes` are
the manager's other tables, `hashOwner` the owner of the mutex of the last one,
`rng` whether the random generator exists.

A thread's place in the code is `pc`; `own` is the SA its job works on, `tgt`
the entry it waits for, enumerates past, destroys, or uses as a second SA;
`todo` is the copied list of `check_uniqueness()`. `asleep` is the set of actors
in a condvar wait that nobody has woken: `signal()` removes an arbitrary sleeper
of that entry, `broadcast()` all of them.

### 2.2 Actions

Each critical section of the code, from taking a segment's mutex to releasing it
or to the condvar wait that releases it, is one action. Segment mutexes are kept
across actions only by `flush()`, in `locked`: a condvar wait releases the mutex
of its own segment, not the others that `lock_all_segments()` took.

| Code | Actions and operators |
|---|---|
| `wait_for_entry()` | `WaitForEntry` (entry just looked up: `Refuse`, `Enqueue` or `Acquire`) and `Resume` (woken: `SleepAgain`, `LeaveEntry` or `Acquire`) |
| `checkout()` | `Checkout` |
| `checkout_by_message()` | `Message`, `InitMessage`, `LookupInit`, `CheckLimit`, `PutNewEntry`, `CreateFails`, `DropInitHash` |
| `checkout_new()` | `CheckoutNew`, and `Spawn` for a thread that already works on an SA |
| `checkout_by_config()`, `checkout_by_id()`, `checkout_by_name()`, `create_enumerator(TRUE)` | `StartScan`, `Visit`, `EndScan` |
| `create_enumerator(FALSE)` | `List` |
| `checkin()` | `Checkin`; with a uniqueness check in its middle `Checkin`, `CheckUniquenessLate`, ..., `FinishCheckin` |
| `checkin_and_destroy()` | `Destroy` or `DestroySecond` (`DestroyUnknown`, `IgnoreDestroy`, `CloseEntry`), `DriveOutMore`, `UntrackHalfOpen`, `UntrackPeer`, `FreeEntry` |
| `check_uniqueness()` | `CheckUniqueness`, `CheckoutDuplicate`, `CheckinSecond`, `DestroySecond`, `EndUnique` |
| `flush()` | `FlushMark`, `FlushVisit`, `FlushResume`, `FlushDestroy`, `FlushRng` |
| `destroy()` | `DestroyManager` |

What happens to an SA while it is checked out is not the manager's business: at
check-in it may be in any state that `NextStates` allows and have any peer
address.

### 2.3 Abstractions

* All SAs are between the same two identities and address family, the case in
  which `check_uniqueness()` has something to do. Lists of other pairs are
  separate lists.
* Each SA has a hash row of its own. Rows with several entries make an
  enumeration hold the mutex from one entry to the next, so the model
  interleaves more.
* `replace_values()` and the responder SPI that `checkout_by_message()` adds do
  not change which entry a local SPI leads to.
* The tables of half-open SAs and connected peers are changed under their own
  locks inside one action; nothing waits while holding them.
* `init_hashes_table` has one mutex, as with one segment (the default).
* The states PASSIVE and REKEYED count as ESTABLISHED and DELETING; DESTROYING
  is seen only by the destructor.
* `flush()` takes all mutexes in one step: no thread waits while it holds one, so
  the steps between them commute with those of the threads.
* After `set_threads(0)` (`daemon.c:648`) no worker takes up another job, so
  messages are not handled once `flush()` has begun; jobs that have begun, and
  callbacks that the watcher executes itself (`execute_job()`,
  `libstrongswan/processing/processor.c:404`), still check out SAs.
* Getters (`has_contact()`, `get_half_open_count()`) and `set_spi_cb()`, a hook
  that replaces the random generator and the one operation that changes state
  and is no action, are left out.

### 2.4 `TaskManager` and `Exchange`

`tm[p]` is the task manager of peer `p` with the state of its IKE_SA: the queues
`queued` and `active`, the exchange in progress (`type`, `mid`, `packet`,
`retransmitted`, `deferred`), the exchange it last answered (`rmid`, `rpacket`),
the retransmit jobs scheduled per message ID (`jobs`), the retries of `ike_init`
and the job that closes a half-open SA. `net` keeps every packet ever sent: a
packet may arrive at any time, any number of times, or never.

| Code | Actions and operators |
|---|---|
| `initiate()`, `activate_task()` | `initiate`, `activate_task`, `Activated`, `ExchangeOf`, `Resumes` |
| `retransmit()` | `retransmit`, run first by `initiate` and then by `RetransmitJob` |
| `queue_task()`, `ike_sa_t.initiate()`, `initiate_tasks_job`, roam events | `QueueTask`, `QueueIke`, `Reinitiate` |
| `process_message()`, `process_request()`, `build_response()` | `ProcessRequest`, `RepeatResponse`, `Responded` |
| `parse_message()`, `incr_mid()` | `RefuseRequest` |
| `process_response()` | `ProcessResponse`, `Mismatch` |
| `reset()` for a cookie | `ProcessCookie`; the demand of the receiver is `DemandCookie` |
| `delete_ike_sa_job` of a half-open SA | `HalfOpenJob` |

A message is its ID, exchange type, the task it is about and what the tasks make
of it (`ok`, `more` for another round, `refused`, `cookie`, `failed`). With
`Failures`, tasks may fail wherever the code calls them: while a request is
built (`initiate` closes the SA), while a request is processed (`ProcessRequest`
closes it silently), while the response to an initial exchange is built (an
answer `failed` is sent and the SA closed, on which the initiator closes it
too), and while a response is processed. `Rejected` is the CREATE_CHILD_SA of an
SA that is not established yet. Left out: fragments, addresses, the delay of delayed tasks, path probing, a
second keying try (as with `keyingtries = 1`) or one with another DH group, a
task that withdraws its request while it builds it, whereupon `initiate()` looks
for another (`task_manager_v2.c:645`), adoption of tasks by another SA. A
responder under load asks for cookies from the beginning to the end. An SA that
is being set up by its peer is not handed tasks. `asked`, `served` and `done` are history variables
for the refinement.

`RepeatResponse` sends a packet that `net` still has, so it leaves the state as
it is: what it is for shows in `AnswerKept` (the stored packet is the right one).

### 2.5 `IkeRekey`

`sa[p][s]` is what peer `p` knows of IKE_SA `s`: its state, the active task
(`rekey`, `delete`, or `rekdel`, the `ike_delete` that `ike_rekey` runs on the
SA it has replaced), the new SA of that task (`new`), that of the task that
collided with it (`coll`), the queued tasks and the scheduled delete job.
`kids[p]` is the SA that has the CHILD_SAs, `nonce` the rank of the lower nonce
of each exchange, fixed from the start and arbitrary.

| Code | Actions |
|---|---|
| `ike_rekey` `build_i`, `process_r`/`build_r`, `process_i`, `collide`, `conclude_undetected_collision`, `establish_new` | `SendRekey`, `ProcessRekey`, `RekeyFailed`/`RekeyLost`/`RekeyWon`, `Collide`, `ConcludeUndetected`, `Establish` |
| `ike_delete` `build_i`, `process_r`/`build_r`, `process_i` | `SendDelete`, `ProcessDelete`, `DeleteDone` |
| `rekey_ike_sa_job`, `delete_ike_sa_job`, `initiate_tasks_job`, `ike_sa_t.delete` | `Rekey`, `DeleteJob`, `InitiateTasks`, `Delete` |
| end of retransmission | `GiveUp` |

A peer gives up an exchange when the other has lost the SA and no answer is on
its way, or at any time at the cost of one of `MaxEvents`. The second case
includes an answer that stays lost until its exchange is given up, for instance
the response to a rekeying whose sender deletes the replaced SA after 90 s
(`ike_rekey.c:280`): messages arrive as late as they like, also after that job,
but if one never arrives, `ChildrenSurvive` and `OneSAInCommon` no longer say
anything; `NoSilentLoss` and `Settles` do. A repetition with another DH group is
part of one exchange. Left out: the reauthentication `ike_rekey` starts if the
peer answers NO_ADDITIONAL_SAS (`ike_rekey.c:311`), and `reestablish()`, by which
`ike_delete` sets up a new SA in place of one the peer deletes
(`ike_delete.c:159`).

### 2.6 `Scheduler` and `Timers`

The heap is the array of the code, with `Bubbled` and `Seeped` for the two
loops: the recursive functions `BubbleUp(n)` and `SeepDown(n)` of an index and a
heap of `n` events, where one round of a loop exchanges two events and goes on at
the other index. `TakeEvent`, `QueueJob`, `Sleep` and `Timeout`
are the parts of `schedule()` between its locks, `ScheduleJob`, `Flush` and
`CancelThread` come from other threads at any time. A scheduled time may lie in
the past.

### 2.7 `Processor`

A worker is `ready` (about to look for a job), in `wait`, in `exec`, in `clean`
(destroying its job without the mutex) or in `unwind` (cancelled, in
`restart()`); `total`, `desired`, `working` and `jobs` are the fields of the
code. `Leave`, `Begin` and `Rest` are the loop of `process_jobs()` with
`get_job()`; `Return`, `Clean`, `Unwind` and `Restart` the ways out of a job;
`QueueJob`, `ExecuteJob`, `SetThreads`, `CancelAll`, `CancelAgain`, `CancelDone`
the interface. `Disable` and `Deinit` follow `daemon.c` and the order in which
the library is torn down. Failures to create a thread (in `set_threads()` and
`restart()`) and jobs that are executed again directly (JOB_REQUEUE_DIRECT) are
left out.

### 2.8 `TrapManager`

`traps` is the list of entries, `acquires` the pending acquires, each with the
IKE_SA object it was tied to; objects are used again after they are destroyed,
so that a stale pointer meets a new object. `table` is the kernel interface's
table of reqids with their references. `install()` is `InstallBegin` (under the
lock), `InstallAdd` (policies, without it; `AddPolicies` gets the reqid as
`add_policies()` of the trap's CHILD_SA does), `InstallSet` or `InstallFail`,
`DestroyFailed` (the trap that could not be installed), `DestroyFound` (the trap
that was replaced), `InstallEnd`. `acquire()` is
`AcquireBegin` and `AcquireInitiate` or `AcquireFail`. The listener's events
come with the life of CHILD_SAs and IKE_SAs: `ChildInstalled`,
`ChildDestroyed`, `SaDestroyed`. Left out: addresses, marks, statically
configured reqids, IKE_SAs that hand their tasks to another one, and
`destroy()`, which nothing can follow.

## 3. Runs

| Run (module) | Instance | Distinct states | Shows |
|---|---|---|---|
| `manager_messages` (`MCIkeSaManager`) | 3 threads, 2 SAs, 1 initial message, 1 later message ID, 2 hosts, failing random generator | 662,000 (up to symmetry) | `TypeOK`, `NoUseAfterFree`, `OneSAPerInit`, `NoStaleProcessing`, `NoLostWakeup`, `HalfOpenExact`, no deadlock |
| `manager_uniqueness` (`MCIkeSaManager`) | 2 threads, 3 SAs in 2 segments, policy KEEP, fair | 156,000 | `NoCircularWait`, `PeersTracked`, `DestroyTerminates`, no deadlock |
| `manager_enumeration` (`MCIkeSaManager`) | 3 threads, 2 SAs in 2 segments, enumerations, rekeying, destruction | 199,000 (up to symmetry) | `ImplementsCheckout`, no deadlock |
| `manager_flush` (`MCIkeSaManager`) | 3 threads, 2 SAs, 1 segment, shutdown, fair | 2,300 | `Exclusive`, `NoUseAfterFree`, `FlushTerminates` |
| `task_exchanges` (`MCTaskManager`) | established SA, 2 tasks of each peer, one of them a deletion, failing tasks, 1 outage | 331,000 | `TypeOK`, `AnswerKept`, `MidsInStep`, `NoMismatch`, `NoEarlyGiveUp`, `ImplementsExchange` |
| `task_setup` (`MCTaskManager`) | SA set up through a cookie, MOBIKE update with an outage, one unparsable request | 21,400 | `ImplementsExchange`, `TasksEnd` |
| `ike_rekey` (`MCIkeRekey`) | one peer rekeys twice, the other once, one refusal, deletion or premature give-up | 338,000 | `ChildrenSurvive`, `OneSAInCommon`, `NoSilentLoss`, `Settles` |
| `scheduler` (`Scheduler`) | 5 jobs, times 0 to 2 | 42,500 | `NeverOversleeps`, `ImplementsTimers`, `EventsFire`, no deadlock |
| `processor` (`MCProcessor`) | 3 workers, 3 priorities, the scheduler's job and 3 others, 2 of the 4 blocking, 2 threads reserved | 106,000 | `TypeOK`, `OneOwner`, `CriticalReserved`, `CancelReturns`, `JobsRun`, no deadlock |
| `traps` (`MCTrapManager`) | 2 threads, 2 traps with equal selectors, one for any peer, 2 IKE_SAs, 2 CHILD_SAs, 3 operations, flush | 191,000 | `TypeOK`, `ReqidsCounted`, `UpdateKeepsReqid`, `NoStaleAcquire`, `FlushFinal`, `TrapsUsable`, `FlushReturns` |
| `hash_lock_leak` (`MCIkeSaManager`) | 2 threads, 1 SA, failing random generator, fair | | violates `DestroyTerminates` |
| `mid_drift` (`MCTaskManager`) | established SA, an unparsable request | | violates `MidsInStep` |

Deadlock is not checked where the system really stops: after shutdown, after an
IKE_SA has ended at both ends, when the bounded operations are used up.

### 3.1 Properties

The manager:

* `Exclusive`: "a checked out SA is exclusively accessible by the owning thread"
  (`ike_sa_manager.h:47`), read off the threads' control state (`Uses`) and not
  off `holder`, so that a wrong `holder` shows.
* `NoUseAfterFree`: nobody waits for or sleeps at a freed entry, be it freed by
  `checkin_and_destroy()` (run `manager_messages`) or by `flush()` (run
  `manager_flush`).
* `NoLostWakeup`: whoever sleeps can count on somebody who will signal.
* `NoStaleProcessing`: no message is marked as being processed when nobody works
  on it; the peer's retransmits would be ignored for good.
* `OneSAPerInit`: one SA per initial message however it is retransmitted, and no
  hash outlives its SA.
* `HalfOpenExact`, `PeersTracked`: the derived tables agree with the entries.
* `NoCircularWait`: "must be called before the IKE_SA is complete, deadlocks
  occur otherwise" (`ike_sa_manager.h`) is respected by the callers.
* `DestroyTerminates`, `FlushTerminates`: whoever destroys an SA, and
  `flush()`, get done.
* `ImplementsCheckout`: the whole is an implementation of `SaCheckout`.

The task manager:

* `ImplementsExchange`: whatever the network does, a request is served at most
  once and in order, and a peer takes only the answer to its own request.
* `AnswerKept`: a peer that has served the outstanding request of the other
  still has its very response stored under the ID the retransmission will carry.
* `MidsInStep`: the message IDs of the two ends never drift apart.
* `NoMismatch`: no SA is closed because of a late response of another exchange.
* `NoEarlyGiveUp`: a peer gives up only when the last retransmission timed out.
* `TasksEnd`: every queued task completes or ends with its SA, even if no packet
  ever arrives.

Rekeying: `ChildrenSurvive` (rekeying alone never costs a peer its CHILD_SAs),
`OneSAInCommon` (when it has settled, both peers have one and the same SA and
nothing else), `NoSilentLoss` (CHILD_SAs that go with their SA are reported),
`Settles` (it does settle).

The scheduler: `ImplementsTimers` (the heap behaves like a sorted set),
`NeverOversleeps` (nothing scheduled during its sleep fires late), `EventsFire`.
Its types are proved (`SchedulerTyped`) and not checked again.

The processor: `OneOwner` (a job is executed by one thread, destroyed once and
never lost), `CriticalReserved` (the threads reserved for critical jobs are there
whenever there are enough threads), `CancelReturns`, `JobsRun`.

Traps: `ReqidsCounted` (a reqid lives exactly as long as something uses it),
`UpdateKeepsReqid`, `NoStaleAcquire` (no acquire outlives its IKE_SA),
`FlushFinal`, `FlushReturns`, `TrapsUsable` (no trap is blocked by an acquire
that never completes).

### 3.2 Bounds

*Manager.* `MaxSA` bounds the SPIs ever drawn; a run ends in states where no
more can be drawn, which is why only runs in which threads can still do
something else check for deadlock. Two SAs suffice for a thread that has one and
wants another; the uniqueness run has three, so that a check meets a stored SA
and one that another thread is just establishing, and the policy KEEP both
cancels and replaces. Three threads are a holder, one that waits and a third
that comes between the wake-up and the woken thread, or destroys: `signal()`
then has a real choice. Two segments make the difference between the segment an
actor releases while it sleeps and those it keeps. Two hosts let the address of
a half-open SA change. One initial message is enough to be retransmitted; the ID
of the message that created the SA and one later ID tell retransmits from new
requests. `Stored` puts established SAs into the table from the start, as after
a run of earlier connections. `Jobs` selects the work each run is about.

*Task manager.* `Tries = 1` gives a transmission, a retransmission and a give-up.
`MaxMid` is large enough never to stop an exchange (`BoundsAssumption`);
`MaxMore` bounds how often a task asks for another round. Two tasks per peer make
one queue up behind the other, with requests in both directions at once.

*Rekeying.* A second rekeying of one peer meets the leftovers of the first
collision; the other peer's one can collide with either. One event is one
refusal, deletion or premature give-up at any point.

*Scheduler.* Five events fill a heap of three levels with a parent of one child;
three instants give earlier, equal and later times.

*Processor.* Three workers with two reserved leave one for the lower classes;
two blocking jobs can occupy the reserved ones. A job is executed at most twice,
so it is queued or scheduled again once.

*Traps.* Two names with the same selectors share a reqid; one is for any peer, so
both kinds of acquire occur. Three operations are, for instance, an install, an
acquire and an update.

### 3.3 Fairness

* `IkeSaManager`: `FairSpec` adds weak fairness of `Continue(t)` for each
  thread. Worker threads are preemptive, so a thread that is inside the manager
  and not blocked goes on, and a job that has an SA checked out ends by
  returning or destroying it. Once called, `flush()` runs on. Nothing is assumed
  about new work, about who gets a mutex first or whom `signal()` wakes.
* `TaskManager`: the scheduler runs every due job (`EventsFire`), and a peer
  that had no route is told when there is one again (a roam event calls
  `initiate()`). Nothing at all is assumed of the network.
* `IkeRekey`: what is on its way is received, jobs run. That the network
  eventually delivers is the retransmission of `TaskManager`; where it does not,
  the peer gives up, which is an action.
* `Scheduler`: its thread runs on and time passes.
* `Processor`: threads run on, jobs that do not block return, and so do jobs that
  were cancelled; a blocking job that is not cancelled need never return. The
  scheduler passes on its events while a worker executes it.
* `TrapManager`: threads run on, and an attempt to establish a CHILD_SA ends.

### 3.4 Findings

1. **A failed SPI allocation leaves a mutex locked** (M.c:1082, run
   `hash_lock_leak`). `check_and_put_init_hash()` returns `FAILED` without
   unlocking. Only the thread that failed can use that segment of the table of
   initial messages afterwards; any other thread that destroys an SA a peer
   initiated blocks in `remove_init_hash()`.
2. **Unparsable requests make message IDs drift** (`task_manager_v2.c:1331`, run
   `mid_drift`). `parse_message()` calls `incr_mid()` for every copy of a request
   it cannot parse, before IDs are compared. If the notify it sends back is late
   or lost, the retransmit counts again, and from then on every request of the
   peer is ignored until it gives up the IKE_SA.

Limits of the code met while modelling, which the runs exclude by their
instance:

* The limit of IKE_SAs is compared outside the lock under which the entry is
  added (M.c:1294): two messages handled at once exceed it.
* `flush()` deletes an SA in use (M.c:2159): an initial message handled when
  shutdown begins has its entry inserted in a row `flush()` has passed, while it
  sleeps at a later one and after the driveout flags were set. The instance of
  `manager_flush` with `init` among its `Jobs` and `Stored = {2}` violates
  `Exclusive`.
* `flush()` sleeps on an entry that is freed (M.c:2159): a thread in the loop of
  `checkin_and_destroy()` had set the driveout flags before and does not look at
  them again. Adding `destroy` to `Jobs` violates `NoUseAfterFree`.
* With more than one segment `flush()` can fail to end: it sleeps on an entry
  with the mutexes of the other segments held, while the thread it waits for is
  in `check_uniqueness()` and needs one of those. The default is one segment
  (`conf/options/charon.opt:157`).
* After a demand for a cookie the retransmit job of the first attempt stays
  scheduled. Message IDs start over, so it counts for the second attempt, which
  is given up earlier than the table in `sa/task_manager.h` says:
  `NoEarlyGiveUp` fails in the instance of `task_setup`.
* A class "having reserved n threads will always have n threads available"
  (`conf/strongswan.conf.5.tail.in:169`) holds for the highest class only:
  `get_job()` keeps threads back from lower classes but never from higher ones.
* `set_threads(n)` with `n` equal to the threads that still run leaves
  `desired_threads` as it was: right after a reduction it does not undo it.
* An SA that lost a collision is reported down (`ike_updown(FALSE)`) if its
  delete job becomes due before the peer's delete arrives, although
  `ike_delete.c:86` says "invoke ike_down() hook if SA has not been rekeyed".
* Two traps with equal traffic selectors share a reqid, and `uninstall()` removes
  the first entry with it (`trap_manager.c:318`), which may be the other one.

## 4. Proofs

Every theorem holds for all values of the constants that satisfy the named
assumptions of the modules (`ConstantAssumption`, `LimitAssumption`,
`BoundsAssumption`, `TrapAssumption`, `ProcessorAssumption` and so on), which
TLC evaluates in every run. Some theorems have a further hypothesis; the text
says for which properties it is known to be necessary and for which only the
proof needs it. TLC finds no violation of the inductive invariants below in the
instances of the passing runs to which they apply.

| Theorem (module) | States | For |
|---|---|---|
| `TypeCorrect` (`IkeSaManagerProofs`) | `TypeOK` | all |
| `ExclusiveCheckout`, `NoUseAfterFreeCheckout` (`IkeSaManagerProofs`) | `Exclusive`, `NoUseAfterFree` | `"flush" \notin Jobs` |
| `PeersAlwaysTracked`, `MarksNeverStale`, `InitialMessagesOnce`, `UniquenessNeverDeadlocks`, `CheckoutImplemented` (`IkeSaManagerTables`) | `PeersTracked`, `NoStaleProcessing`, `OneSAPerInit`, `NoCircularWait`, `ImplementsCheckout` | `"flush" \notin Jobs` |
| `HalfOpenAlwaysExact`, `WakeupsNeverLost` (`IkeSaManagerTables`) | `HalfOpenExact`, `NoLostWakeup` | `"flush" \notin Jobs` |
| `TaskManagersTyped` (`TaskManagerProofs`) | `TypeOK` | all |
| `NeverEarly` (`TaskManagerProofs`) | `NoEarlyGiveUp` | no cookies asked for |
| `NeverMismatched`, `MidsStayInStep`, `AnswersStayKept`, `ExchangesImplemented` (`TaskManagerProofs`) | `NoMismatch`, `MidsInStep`, `AnswerKept`, `ImplementsExchange` | no request refused as unparsable |
| `LossReported` (`IkeRekeyProofs`) | `NoSilentLoss` | all |
| `ChildrenAlwaysSurvive`, `PeersAgree` (`IkeRekeyAgreement`) | `ChildrenSurvive`, `OneSAInCommon` | all |
| `SchedulerTyped`, `NeverSleepsTooLong`, `TimersImplemented` (`SchedulerProofs`) | `TypeOK`, `NeverOversleeps`, `ImplementsTimers` | all |
| `ProcessorTyped`, `JobsHaveOneOwner` (`ProcessorProofs`) | `TypeOK`, `OneOwner` | all |
| `CriticalAlwaysReserved` (`ProcessorProofs`) | `CriticalReserved` | the pool is not made smaller |
| `TrapsTyped`, `AcquiresNeverStale`, `FlushIsFinal`, `ReqidsAlwaysCounted`, `UpdatesKeepReqids` (`TrapManagerProofs`) | `TypeOK`, `NoStaleAcquire`, `FlushFinal`, `ReqidsCounted`, `UpdateKeepsReqid` | all |

### 4.1 The IKE_SA manager

The theorems hold for any number of threads, SAs, segments, messages and hosts
and any policy; with a limit of IKE_SAs for one segment only, as the model
counts the entries at once while the code adds up its segments one after the
other (`LimitAssumption`). All but `TypeCorrect` leave out shutdown. For `Exclusive` and
`NoUseAfterFree` this is necessary: with `flush()` and SAs that are created or
were being destroyed when it is called both fail (section 3.4); run
`manager_flush` shows a case in which they hold. The other properties are proved
from an invariant that contains them and share the hypothesis for that reason
only: with `flush()`, an initial message and a stored SA TLC does not violate
`PeersTracked`, `NoStaleProcessing`, `OneSAPerInit`, `NoCircularWait`,
`HalfOpenExact` or `NoLostWakeup`.

`TypeOK` is not inductive: several actions update a function at `own[t]` or
`tgt[t]`, which must be SAs. `Pointers` says in which control states they are;
`TypeStep` and `PointersStep` show that a step preserves the conjunction.

`Exclusive` needs `Safety`, the conjunction over all threads of `Safe(t)` and
`Apart`:

* an SA a thread uses is alive, and if it is in the table the thread is its
  `holder`, which is what keeps other threads from acquiring it;
* a thread whose SPI has been drawn for an initial message has an SA no one
  else knows (`life` is `spi`);
* a thread that drives others out does so at an entry in the table, and one that
  removes an entry has taken it out of the table;
* a thread that waits is counted in `waiting` of an entry in the table. This is
  the fact `checkin_and_destroy()` relies on: it frees only when the count is
  zero;
* no SA is used, or being created, by two threads (`Apart`).

Most actions change one thread and one SA. The lemma `StepOnSA` says what they
owe to the other threads: the SA must be one that they neither use nor wait for,
or its relevant fields stay. `QuietStep` covers those that touch no SA;
`SafeTake`, `SafeAcquire`, `SafeWaitForEntry`, `SafeCheckinEntry`, `SafeDriveOut`
and `SafeCheckinAndDestroy` follow the operators of the model, and `SafetyStep`
has one step per action.

`IkeSaManagerTables` adds `Order`, which says what the tables have to do with
the entries and the threads:

* `Tidy(t)`, per thread: outside of its jobs it has no SA; the SA whose
  uniqueness it checks is not listed yet, while the ones it looks at have been
  (this is what makes a circle of waiting threads impossible); an entry it
  removes has left the tables it has been removed from.
* `Entry(s)`, per SA: it is listed among the connected peers exactly if it says
  so and then was authenticated (`Listed`); a free one has no message in
  processing and is listed if established (`Idle`); a held one is used by its
  holder (`Held`); the driveout flags go together and only a thread that drives
  out sets them (`Closed`); only a connecting SA is half open (`Open`); its
  hash leads to it (`Hashed`).
* `Hash(m)`: a stored hash leads to an SA that exists or is being created.

Each action is reduced to `Calm(t)`, no SA is touched, or `Touches(t, s)`, one
is, and what it owes to the others follows once for both. The refinement reads
the users of an SA off the same control states (`UsersOf`), so a step of the
manager is a creation, a checkout, a check-in, an end or a stutter of
`SaCheckout`.

For `HalfOpenAlwaysExact`, the table of half-open SAs holds, per host, the
cardinality of the set of entries marked half open; `PutCounts` and
`RemoveCounts` are the two updates, and a check-in that moves an SA from one host
to another is one after the other.

`WakeupsNeverLost` needs for each entry `Wakes(s)`: nobody sleeps on it, or
a thread that waits for it is awake and will hand the signal on, or the holder is
awake and will signal. It needs that `waiting` is exactly the threads at that
entry (`Queue`) and that only waiting or driving-out threads sleep (`Asleep`).

### 4.2 The task manager

The theorems hold for any tasks of either peer, any number of retransmissions,
retries and outages, with the IKE_SA set up or being set up, and a network that
loses, repeats and reorders packets at will. The invariant has three layers:

* `Sane`, about one peer at a time and the packets: types, and `Sound(p, t)`,
  which says when tasks are active, that the stored packet is the request of the
  exchange in progress, and what an IKE_SA being set up has queued. It gives
  `TypeOK`.
* `Timed`, about the scheduler: an exchange in progress that is not deferred has
  exactly one retransmit job, and no later message ID has one. A give-up is then
  the work of the job of the last transmission.
* `Flows`, about both peers and one direction of requests at a time
  (`Flow`): the requests asked are numbered without a gap (`Numbered`); the
  served and the concluded ones are prefixes of them, the three lengths within
  one of each other (`InOrderOf`); the message ID of the asking peer is the
  number of concluded requests (`Asker`) and the one the other expects the
  number of served ones, whose last answer it has stored (`Server`); every
  packet on the network is a request that was asked or an answer to one that was
  served (`Wire`). `Late` says that a responder asks nothing before it has served
  both initial exchanges, which is what keeps the reset for a cookie from
  meeting requests of the other direction.

A lemma `...Gives` per operation of the model says what it returns
(`RetransmitGives`, `ActivatedPlain`, `InitiateGives`, `RespondedGives`, ...), so
that the actions need not be expanded again. `Goes` is what a handler may do to
the other direction (send nothing but its own request or repetitions), and a
lemma `Flow...` per kind of move (`FlowAsk`, `FlowServe`, `FlowConclude`,
`FlowRestart`, ...) shows that it preserves `Flow`. The refinement has a lemma
per action that maps it to `Ask`, `Serve`, `Conclude`, `Restart`, `Close` or a
stutter of `Exchange`.

The two hypotheses are needed. With cookies the retransmit job of the first
attempt survives the reset, and `NoEarlyGiveUp` fails (section 3.4). With two
tasks whose requests cannot be parsed, TLC violates `AnswerKept`, `MidsInStep` and
`ImplementsExchange`: a request that is refused though its message ID is not the
expected one is concluded by its sender without having been counted as served.
`NoMismatch` held there too on the instances tried; it is proved only without
such requests.

### 4.3 Rekeying

`LossReported` holds for any sets of IKE_SAs the peers may create, any order of
nonces and any number of events. `NoSilentLoss` says that the IKE_SA that has the
CHILD_SAs ends only with a report; `ike_delete` reports nothing for an SA marked
as replaced, so the core of the invariant is `Parent`: the SA with the CHILD_SAs
is alive and not marked. To keep it, a handler that moves the CHILD_SAs must
move them to an SA that is nobody else's: `Fine` (only an SA being rekeyed has a
rekey task, whose new SAs are held back), `Distinct` (no two tasks have the same
new SA) and `Fresh` (a request to rekey is the first the other peer hears of the
new SA). A handler changes the SAs in several steps, between which an SA is not
in order; `Almost(p, x, S)` is the invariant but for those in `S`, and the lemmas
about `Establish`, `Collide` and `ConcludeUndetected` go from one to the next.

`IkeRekeyAgreement` proves what two peers have in common. `ChildrenSurvive` and
`OneSAInCommon` speak of behaviours in which nobody deletes an IKE_SA or gives up
on a living peer (`Undisturbed`), and the invariant is
`Agreed == Nonces /\ (Undisturbed => Calmed)`: nonces are distinct numbers, and
`Calmed` has four parts.

* `Local(p)`: one IKE_SA of a peer is in use, the one with the CHILD_SAs; new ones
  are held back by its task only, and all others wait for a delete or are gone.
* `Wired(m)`: what a message tells of its sender. A peer that sent a delete is
  done with the IKE_SA; one whose request to rekey can still be accepted is
  waiting for the answer to it.
* `Left(p)`: a replaced IKE_SA that no job will delete is being rekeyed or deleted
  by the other peer, whose delete will end it.
* `Phase`: both peers use the same IKE_SA (`Together`), or one is `Behind`. The
  peer ahead has replaced it either by the one that the other proposed, whose
  answer is on its way (`Granted`), or by its own, whose delete is on its way
  (`Taken`). In each case the nonces, compared where a collision was noticed,
  lead the peer behind to the same IKE_SA.

The last is the heart of the argument. A collision that both notice is decided
twice, by each peer when its own answer arrives, and both compare the same
nonces; one that only one peer notices ends, for that peer, with the other's
delete (`conclude_undetected_collision()`) or with its refusal, whichever arrives
first, and the other's IKE_SA is taken. `Granted` and `Taken` say which of the two
answers the peer behind will still see, and what follows for it from either.

The steps fall into five kinds, each with lemmas of its own: nothing but a queue
changes (`Resting`), a replaced IKE_SA goes (`Buried`), a rekeying starts
(`Started`), a collision is noticed (`Collided`), or a new IKE_SA replaces the one
in use (`Yielded`, `Adopted`, `Refused`, `Beaten`, `Victorious`, `Overtaken`). Each
handler is then reduced to one of them (the lemmas `...Calm`). A step cannot undo
a disturbance, so only undisturbed steps have to be looked at (`Lasting`).

### 4.4 The scheduler

The theorems hold for any number of jobs and any times. The provers know of a
recursive function only that it solves its equation if anything does, and they
cannot be given an induction. Both gaps are closed by the well-foundedness of
the natural numbers: a set of numbers has a least element (`LeastOf`), so the
least index at which a claim fails leads to a contradiction.

* `UpExists` and `DownExists`: the equations of `BubbleUp(n)` and `SeepDown(n)`
  have a solution, as one up to an index extends to the next (`UpExtends`,
  `DownExtends`). `BubbleUpIs` and `SeepDownIs` are then the loops, unrolled once.
* `BubbleUpSorts` and `SeepDownSorts`: the result is in order and has the same
  events. `UpOrdered(g, n, i)` and `DownOrdered(g, n, i)` are the invariants of
  the loops: all is in order but for index `i` and its parent, or its children,
  and the parent of `i` is not later than the children of `i`. `UpMoves`,
  `DownMoves`, `UpStops` and `DownStops` are one round of a loop and its end;
  `TopIsFirst` says that the top of an ordered heap fires first.
* `IInv` is the inductive invariant of the scheduler: types, the heap in order
  without a job in it twice, `NeverOversleeps`, an event in hand only between
  `TakeEvent` and `QueueJob`, jobs numbered without a gap.
* `StepImplements` maps each action to one of `Timers`: the timers are the set of
  events in the heap, of which `TakeEvent` takes one that is due first.

### 4.5 The processor

The invariant relates the counters to the workers: `total` is the number of
threads alive, `working[i]` that of workers executing a job of priority `i`
(`Counted`); jobs are in the queue of their priority (`Sorted`) and a worker has a
job exactly while it executes or destroys it (`Holding`). `SumOver(n, S)` adds up
the numbers as the cardinality of a set of pairs, which the prover can reason
about without recursion. `OneOwner` is then inductive: it counts the places in
which a job is, and every action moves it from one to another.

`CriticalAlwaysReserved` is about behaviours in which the pool is not made
smaller, other than by shutting it down (`[][Growing]_vars`):
after `set_threads()` with a smaller number it is the idle threads that leave,
the reserved ones among them. With `Counts = {2, 3}` in the instance of `processor`
TLC violates `CriticalReserved`: of three threads one executes a job of low
priority, an idle one leaves, and one is left for the two critical jobs. The
invariant `Critical`: either only critical jobs are being executed, or enough
threads are idle.

### 4.6 The trap manager

`TrapManagerProofs` proves, for any finite set of threads and any number of
traps, IKE_SAs, CHILD_SAs and operations (`TrapAssumption`):

* `AcquiresNeverStale`: `Spec => []NoStaleAcquire`. The property is inductive
  once it is known that a thread is a record with a control state (`Shapes`).
  `StaleStep` says what a step owes: an acquire that stays keeps its IKE_SA, or
  the thread that is about to tie it to one. The step that matters is
  `SaDestroyed`, which drops the acquires of an IKE_SA with it.
* `FlushIsFinal`: `Spec => []FlushFinal`. The invariant is `FlushSafe`: the
  counter `installing` equals the number of threads inside `install()`
  (`Installers`), which is what makes the test in `flush()` mean something, and
  once `flush()` is done installation is disabled and there are no such
  threads. `InstallersGo` relates a step of one thread to that number.

* `ReqidsAlwaysCounted`: `Spec => []ReqidsCounted`. The references are the
  cardinalities of four sets: traps in the list (`Listed`), threads that still
  have to release the old reqid (`Owers`), threads that have allocated a new one
  (`Makers`) and CHILD_SAs (`Users`). The invariant adds `Placed`: a thread that
  installs a trap finds its entry again, as nobody else removes an entry without
  a reqid.
* `UpdatesKeepReqids`: `Spec => []UpdateKeepsReqid`, from the same invariant: as
  long as the old reqid is referenced, the kernel interface answers an
  allocation for the same selectors with it.
* `TrapsTyped`: `Spec => []TypeOK`.

`InstallGoes` and `AcquireGoes` reduce every action of a thread to the move it
makes (`Goes`).

### 4.7 What is only model-checked

* Liveness, which is out of the prover's reach: `DestroyTerminates`,
  `FlushTerminates`, `TasksEnd`, `Settles`, `EventsFire`, `CancelReturns`,
  `JobsRun`, `TrapsUsable`, `FlushReturns`.
* The manager's properties with `flush()` (for `Exclusive` and
  `NoUseAfterFree`: run `manager_flush`), and `ImplementsExchange` with one
  unparsable request (run `task_setup`).

## 5. Not modelled

* IKEv1: a second protocol with its own tasks and windowing.
* The rekeying and deletion of CHILD_SAs, reauthentication, roaming and the
  statistics of an IKE_SA, and what authentication and negotiation decide.
* The watcher, the sender, the shunt manager, the bus and the controller: loops
  around a poll, a queue or a list.
* Threading primitives other than by their semantics; the kernel interface
  beyond reqids; virtual IP pools; user-land ESP; the Android service.
* Plugins, TLS, EAP, TNC, tools, cryptography, ASN.1 and message encodings: most
  of the repository's lines, and either I/O or pure data transformation whose
  size is out of reach of model checking.
* The connector package of the fork: diagnostics and user interface without
  protocol state.

## 6. Plan

What comes next, in this order:

1. Theorems: `NoMismatch` of `TaskManager` with refused requests; `Exclusive` of
   the manager with shutdown, under the conditions of `manager_flush`, and the
   properties of its tables with any shutdown.
2. `ChildRekey`: colliding rekeyings and deletions of CHILD_SAs, in the style of
   `IkeRekey`.
3. `MemPool`: online, offline and unused leases over sequences of calls.
4. `RwLock` (the hand-written variant of `threading/rwlock.c`): exclusion proved,
   writers not starved.
5. `ReplayWindow` of libipsec as a pure algorithm against a reference
   definition, with the width of sequence numbers.
6. `VpnState` of the Android service: retries and disconnects.
