---------------------------- MODULE IkeSaManager ----------------------------
(***************************************************************************)
(* The IKE_SA manager of charon (src/libcharon/sa/ike_sa_manager.c): the   *)
(* table of all IKE_SAs, from which worker threads check SAs out for       *)
(* exclusive use and to which they return or in which they destroy them.   *)
(*                                                                         *)
(* Every critical section of the code -- from taking a segment's mutex to  *)
(* releasing it, or to the condvar wait that releases it -- is one action. *)
(* Only flush() keeps mutexes from one action to the next; `locked' is the *)
(* set of segments it holds.  An SA is identified by its local SPI, which  *)
(* is drawn once and never reused; each SA has a hash row of its own, the  *)
(* finest interleaving of enumerations the table size allows.              *)
(*                                                                         *)
(* All SAs are between the same two identities: entries of                 *)
(* connected_peers_table for other identities do not interact with them.   *)
(***************************************************************************)
EXTENDS Integers, FiniteSets

CONSTANTS
  Threads,     \* the worker threads of the processor
  Flusher,     \* the main thread, which shuts the daemon down
  NoThread,    \* entry->checked_out == NULL
  MaxSA,       \* bound on the number of SPIs ever drawn
  SegCount,    \* charon.ikesa_table_segments
  Messages,    \* initial IKE messages, told apart by their hash
  NoMessage,   \* entry->init_hash.ptr == NULL
  Mids,        \* message IDs of the requests that follow the initial one
  Hosts,       \* addresses of the peer
  NoHost,      \* entry->other == NULL
  Stored,      \* established SAs that are in the table from the start
  Limit,       \* charon.ikesa_limit, 0 for no limit
  Policy,      \* uniqueness policy of the peer config
  RngFails,    \* may the random generator fail while the daemon runs?
  Jobs         \* the kinds of work that threads take up

SAs == 1..MaxSA
NoSA == 0
Segments == 0..(SegCount - 1)
NoMid == -1
InitMid == 0
Actors == Threads \cup {Flusher}

JobKinds == {"init", "message", "checkout", "new", "scan", "list", "spawn",
             "unique", "destroy", "quit", "flush"}
Policies == {"NEVER", "NO", "KEEP", "REPLACE"}

ASSUME ConstantAssumption ==
  /\ MaxSA \in Nat \ {0}
  /\ SegCount \in Nat \ {0}
  /\ Flusher \notin Threads
  /\ NoThread \notin Threads
  /\ NoMessage \notin Messages
  /\ Mids \subseteq Nat
  /\ Hosts # {} /\ NoHost \notin Hosts
  /\ Stored \subseteq SAs
  /\ Limit \in Nat
  /\ Policy \in Policies
  /\ RngFails \in BOOLEAN
  /\ Jobs \subseteq JobKinds

\* get_count() adds the segments up one after the other; the model reads them
\* at once, which is exact for a single segment.
ASSUME LimitAssumption == Limit > 0 => SegCount = 1

\* The states of an IKE_SA the manager tells apart.  PASSIVE counts as
\* ESTABLISHED, REKEYED as DELETING; a REKEYING SA keeps what it had when it
\* was ESTABLISHED.
IkeStates == {"CREATED", "CONNECTING", "ESTABLISHED", "DELETING"}

\* mutant: an SA is checked in although it is being destroyed
NextStatesDestroying(st) == IkeStates \cup {"DESTROYING"}

\* What handling messages, events and timeouts turns an SA's state into.
NextStates(st) == {next \in IkeStates :
                     /\ st = "ESTABLISHED" => next \in {"ESTABLISHED", "DELETING"}
                     /\ st = "DELETING" => next = "DELETING"}

VARIABLES
  \* the IKE_SAs and the table's entries (entry_t), by SPI
  life,        \* unused, spi (drawn), new (not in the table), table, removed, gone
  state,       \* ike_sa->get_state()
  responder,   \* not ike_sa_id->is_initiator()
  holder,      \* entry->checked_out
  waiting,     \* the threads entry->waiting_threads counts
  driveNew,    \* entry->driveout_new_threads
  driveWait,   \* entry->driveout_waiting_threads
  processing,  \* entry->processing
  halfOpen,    \* entry->half_open
  other,       \* entry->other
  hasIds,      \* entry->my_id and entry->other_id are set
  initHash,    \* entry->init_hash
  \* the manager's other tables
  halfOpenTable,   \* half_open_table: counters of half-open SAs by host
  connectedPeers,  \* connected_peers_table: the SAs listed for the two peers
  initHashes,      \* init_hashes_table: the SPI drawn for an initial message
  hashOwner,       \* the thread that holds the mutex of init_hashes_table
  rng,             \* this->rng is set
  \* the threads
  locked,      \* segments whose mutex flush() holds
  asleep,      \* threads in a condvar wait that nobody has woken
  pc,          \* where an actor is
  own,         \* the SA a thread works on
  tgt,         \* the entry (of another SA) an actor is dealing with
  todo,        \* SAs that check_uniqueness() has yet to look at
  mid,         \* message ID a thread waits to process
  mode,        \* what a scan looks for, or how check_uniqueness() treats duplicates
  late         \* check_uniqueness() was called by checkin()

saVars     == <<life, state, responder>>
flagVars   == <<driveNew, driveWait>>
trackVars  == <<halfOpen, other, hasIds, halfOpenTable, connectedPeers>>
hashVars   == <<initHash, initHashes, hashOwner, rng>>
threadVars == <<own, todo, mid, mode, late>>
vars == <<saVars, holder, waiting, flagVars, processing, trackVars, hashVars,
          locked, asleep, pc, tgt, threadVars>>

WaitPcs == {"wait", "scanwait", "dupwait"}
RemovePcs == {"unhalf", "unpeer", "uninit"}
ThreadPcs == {"idle", "limit", "create", "unhash", "lookup", "scan",
              "use", "cancel", "check", "unique", "second", "drive"}
             \cup WaitPcs \cup RemovePcs
Modes == {"none", "config", "name", "all", "FORCE", "KEEP", "REPLACE", "CANCEL"}
FlushPcs == {"off", "walk", "sleep", "delete", "rng", "done", "destroyed"}

Table == {s \in SAs : life[s] = "table"}
Seg(s) == s % SegCount
Unlocked(s) == Seg(s) \notin locked

Init ==
  /\ life = [s \in SAs |-> IF s \in Stored THEN "table" ELSE "unused"]
  /\ state = [s \in SAs |-> IF s \in Stored THEN "ESTABLISHED" ELSE "CREATED"]
  /\ responder = [s \in SAs |-> FALSE]
  /\ holder = [s \in SAs |-> NoThread]
  /\ waiting = [s \in SAs |-> {}]
  /\ driveNew = [s \in SAs |-> FALSE]
  /\ driveWait = [s \in SAs |-> FALSE]
  /\ processing = [s \in SAs |-> NoMid]
  /\ halfOpen = [s \in SAs |-> FALSE]
  /\ other \in [SAs -> Hosts \cup {NoHost}]
  /\ \A s \in SAs : other[s] = NoHost <=> s \notin Stored
  /\ hasIds = [s \in SAs |-> s \in Stored]
  /\ initHash = [s \in SAs |-> NoMessage]
  /\ halfOpenTable = [h \in Hosts |-> [count |-> 0, responder |-> 0]]
  /\ connectedPeers = Stored
  /\ initHashes = [m \in Messages |-> NoSA]
  /\ hashOwner = NoThread
  /\ rng = TRUE
  /\ locked = {}
  /\ asleep = {}
  /\ pc = [a \in Actors |-> IF a = Flusher THEN "off" ELSE "idle"]
  /\ own = [t \in Threads |-> NoSA]
  /\ tgt = [a \in Actors |-> NoSA]
  /\ todo = [t \in Threads |-> {}]
  /\ mid = [t \in Threads |-> NoMid]
  /\ mode = [t \in Threads |-> "none"]
  /\ late = [t \in Threads |-> FALSE]

-----------------------------------------------------------------------------
(* The condvar of an entry: checkout, checkin_and_destroy() and flush() all  *)
(* sleep on the same one.                                                    *)

Sleepers(s) == {a \in asleep : tgt[a] = s}

\* The sets of sleepers that signal() may leave: it wakes an arbitrary one.
Signal(sleeping, s) ==
  LET candidates == {a \in sleeping : tgt[a] = s}
  IN  IF candidates = {} THEN {sleeping}
                         ELSE {sleeping \ {a} : a \in candidates}
NoSignal(s) == {asleep}  \* mutant: nobody is signalled
Signalled(s) == Signal(asleep, s)
SignalledTwice(s) == UNION {Signal(sleeping, s) : sleeping \in Signalled(s)}

NoBroadcast(s) == asleep  \* mutant: the waiting threads are not woken

\* broadcast() wakes all.
Broadcast(s) == asleep \ Sleepers(s)

\* A thread takes up work.  Before flush() is called no worker takes another
\* job, so no message is handled any more; jobs that have begun, and callbacks
\* the watcher executes itself, go on to check out SAs until the threads end.
Runs(t, job) == /\ pc[t] = "idle"
                /\ job \in Jobs
                /\ pc[Flusher] # "destroyed"
                /\ job \in {"init", "message"} => pc[Flusher] = "off"

-----------------------------------------------------------------------------
(* Checking out.                                                             *)

\* mutant: an SA without a request in processing counts as free
CheckedOutByRequest(s) == holder[s] # NoThread /\ processing[s] # NoMid

\* Some thread has the SA.
CheckedOut(s) == holder[s] # NoThread

\* What a thread does next that could not get the entry it asked for: a
\* checkout returns NULL, an enumeration and check_uniqueness() go on.
Resigned(p) == CASE p = "wait" -> "idle"
                 [] p = "scanwait" -> "scan"
                 [] p = "dupwait" -> "unique"

\* The cursor of an enumeration stays at the entry it leaves.
Forget(t, p, s) == tgt' = [tgt EXCEPT ![t] = IF p = "scanwait" THEN s ELSE NoSA]

\* Thread t gets SA s: it becomes the SA t works on, or, for
\* check_uniqueness(), a second one.
Take(t, p, s, m) ==
  /\ holder' = [holder EXCEPT ![s] = t]
  /\ processing' = [processing EXCEPT ![s] = IF m = NoMid THEN @ ELSE m]
  /\ IF p = "dupwait"
     THEN /\ pc' = [pc EXCEPT ![t] = "second"]
          /\ tgt' = [tgt EXCEPT ![t] = s]
          /\ UNCHANGED <<own, mode>>
     ELSE /\ pc' = [pc EXCEPT ![t] = "use"]
          /\ tgt' = [tgt EXCEPT ![t] = NoSA]
          /\ own' = [own EXCEPT ![t] = s]
          /\ mode' = [mode EXCEPT ![t] = "none"]
  /\ mid' = [mid EXCEPT ![t] = NoMid]

\* An enumeration takes the entry it finds free only if it is the one it looks
\* for: checkout_by_config() passes over SAs that are being deleted, any other
\* criterion (config, unique ID, name) may hold or not.  An enumeration of all
\* SAs looks at each under the segment's mutex and takes none.
Matches(t, s) == \/ mode[t] = "config" /\ state[s] # "DELETING"
                 \/ mode[t] = "name"

\* The enumerator signals the condvar of the entry it leaves; an enumeration
\* that looks for another SA signals it before.
PassOver(t, s) ==
  /\ pc' = [pc EXCEPT ![t] = "scan"]
  /\ tgt' = [tgt EXCEPT ![t] = s]
  /\ asleep' \in IF mode[t] = "all" THEN Signalled(s) ELSE SignalledTwice(s)
  /\ UNCHANGED <<holder, processing, own, mid, mode>>

\* Thread t finds entry s free.
Acquire(t, p, s, m) ==
  \/ p # "scanwait" /\ Take(t, p, s, m) /\ UNCHANGED asleep
  \/ p = "scanwait" /\ Matches(t, s) /\ Take(t, p, s, m) /\ asleep' \in Signalled(s)
  \/ p = "scanwait" /\ PassOver(t, s)

\* The entry is being deleted.
Refuse(t, p, s) ==
  /\ driveNew[s]
  /\ pc' = [pc EXCEPT ![t] = Resigned(p)]
  /\ Forget(t, p, s)
  /\ IF p = "scanwait" THEN asleep' \in Signalled(s) ELSE UNCHANGED asleep
  /\ UNCHANGED <<holder, waiting, processing, own, mid, mode>>

\* The thread registers with the entry and sleeps.
Enqueue(t, p, s, m) ==
  /\ ~driveNew[s]
  /\ CheckedOut(s)
  /\ waiting' = [waiting EXCEPT ![s] = @ \cup {t}]
  /\ asleep' = asleep \cup {t}
  /\ pc' = [pc EXCEPT ![t] = p]
  /\ tgt' = [tgt EXCEPT ![t] = s]
  /\ mid' = [mid EXCEPT ![t] = m]
  /\ UNCHANGED <<holder, processing, own, mode>>

\* wait_for_entry() for a thread that has just looked the entry up.  (The two
\* driveout flags are only ever set together.)
WaitForEntry(t, p, s, m) ==
  \/ Refuse(t, p, s)
  \/ Enqueue(t, p, s, m)
  \/ ~driveNew[s] /\ ~CheckedOut(s) /\ Acquire(t, p, s, m) /\ UNCHANGED waiting

\* A thread that has been woken finds that another one was faster.
SleepAgain(t, s) ==
  /\ CheckedOut(s) /\ ~driveWait[s]
  /\ asleep' = asleep \cup {t}
  /\ UNCHANGED <<holder, waiting, processing, pc, tgt, own, mid, mode>>

\* It is driven out, and signals whoever else sleeps on the entry.
LeaveEntry(t, p, s) ==
  /\ driveWait[s]
  /\ waiting' = [waiting EXCEPT ![s] = @ \ {t}]
  /\ asleep' \in IF p = "scanwait" THEN SignalledTwice(s) ELSE Signalled(s)
  /\ pc' = [pc EXCEPT ![t] = Resigned(p)]
  /\ Forget(t, p, s)
  /\ mid' = [mid EXCEPT ![t] = NoMid]
  /\ UNCHANGED <<holder, processing, own, mode>>

\* The rest of wait_for_entry().
Resume(t) ==
  LET s == tgt[t] IN
  /\ pc[t] \in WaitPcs
  /\ t \notin asleep
  /\ Unlocked(s)
  /\ \/ SleepAgain(t, s)
     \/ LeaveEntry(t, pc[t], s)
     \/ /\ ~CheckedOut(s) /\ ~driveWait[s]
        /\ waiting' = [waiting EXCEPT ![s] = @ \ {t}]
        /\ Acquire(t, pc[t], s, mid[t])
  /\ UNCHANGED <<saVars, flagVars, trackVars, hashVars, locked, todo, late>>

\* checkout() of an SA by its SPI (a job for a known SA: rekeying, DPD,
\* retransmission, ...), which may be gone by now.
Checkout(t, s) ==
  /\ Runs(t, "checkout")
  /\ Unlocked(s)
  /\ \/ /\ s \notin Table
        /\ UNCHANGED <<holder, waiting, processing, asleep, pc, tgt, own, mid, mode>>
     \/ /\ s \in Table
        /\ WaitForEntry(t, "wait", s, NoMid)
  /\ UNCHANGED <<saVars, flagVars, trackVars, hashVars, locked, todo, late>>

\* checkout_by_message() from the lookup by SPI on: a message whose ID is
\* being processed already is ignored.  Fragments are compared, but do not
\* mark the SA.
LookupMessage(t, s, m, fragment) ==
  /\ Unlocked(s)
  /\ \/ /\ processing[s] = m
        /\ pc' = [pc EXCEPT ![t] = "idle"]
        /\ tgt' = [tgt EXCEPT ![t] = NoSA]
        /\ UNCHANGED <<holder, waiting, processing, asleep, own, mid, mode>>
     \/ /\ processing[s] # m
        /\ WaitForEntry(t, "wait", s, IF fragment THEN NoMid ELSE m)
  /\ UNCHANGED <<saVars, flagVars, trackVars, hashVars, locked, todo, late>>

\* A message with both SPIs set arrives; unknown SPIs raise an alert.
Message(t, s) ==
  /\ Runs(t, "message")
  /\ \/ /\ s \notin Table
        /\ Unlocked(s)
        /\ UNCHANGED vars
     \/ /\ s \in Table
        /\ \E m \in Mids, fragment \in BOOLEAN : LookupMessage(t, s, m, fragment)

\* A retransmit of an initial message leads to the SA created for it, if that
\* is in the table: it is not yet, or no more, when its SPI is found first.
LookupInit(t) ==
  /\ pc[t] = "lookup"
  /\ \/ /\ tgt[t] \in Table
        /\ LookupMessage(t, tgt[t], InitMid, FALSE)
     \/ /\ tgt[t] \notin Table
        /\ Unlocked(tgt[t])
        /\ pc' = [pc EXCEPT ![t] = "idle"]
        /\ tgt' = [tgt EXCEPT ![t] = NoSA]
        /\ UNCHANGED <<saVars, holder, waiting, flagVars, processing, trackVars,
                       hashVars, locked, asleep, threadVars>>

\* get_spi() fails without a random generator, or if that fails.
SpiFails == ~rng \/ RngFails

\* The mutex of init_hashes_table is recursive.
HashUnlocked(a) == hashOwner \in {NoThread, a}

\* checkout_by_message() for an initial message, check_and_put_init_hash():
\* a known hash yields the SPI drawn for it, an unknown one is stored with a
\* new SPI.  When drawing the SPI fails the function returns without
\* unlocking the mutex.
InitMessage(t, m) ==
  /\ Runs(t, "init")
  /\ HashUnlocked(t)
  /\ \/ /\ initHashes[m] # NoSA
        /\ pc' = [pc EXCEPT ![t] = "lookup"]
        /\ tgt' = [tgt EXCEPT ![t] = initHashes[m]]
        /\ UNCHANGED <<life, initHash, initHashes, hashOwner>>
     \/ /\ initHashes[m] = NoSA
        /\ SpiFails
        /\ hashOwner' = t
        /\ UNCHANGED <<life, initHash, initHashes, pc, tgt>>
     \/ /\ initHashes[m] = NoSA
        /\ rng
        /\ \E s \in SAs :
             /\ life[s] = "unused"
             /\ life' = [life EXCEPT ![s] = "spi"]
             /\ initHash' = [initHash EXCEPT ![s] = m]
             /\ initHashes' = [initHashes EXCEPT ![m] = s]
             /\ pc' = [pc EXCEPT ![t] = "limit"]
             /\ tgt' = [tgt EXCEPT ![t] = s]
        /\ UNCHANGED hashOwner
  /\ UNCHANGED <<state, responder, holder, waiting, flagVars, processing,
                 trackVars, rng, locked, asleep, threadVars>>

\* The number of SAs is compared with charon.ikesa_limit; get_count() takes
\* and releases the mutexes of all segments.
CheckLimit(t) ==
  /\ pc[t] = "limit"
  /\ locked = {}
  /\ pc' = [pc EXCEPT ![t] = IF Limit = 0 \/ Cardinality(Table) < Limit
                             THEN "create" ELSE "unhash"]
  /\ UNCHANGED <<saVars, holder, waiting, flagVars, processing, trackVars,
                 hashVars, locked, asleep, tgt, threadVars>>

\* ike_sa_create() and put_entry() of a checked out entry.
PutNewEntry(t) ==
  LET s == tgt[t] IN
  /\ pc[t] = "create"
  /\ Unlocked(s)
  /\ life' = [life EXCEPT ![s] = "table"]
  /\ responder' = [responder EXCEPT ![s] = TRUE]
  /\ holder' = [holder EXCEPT ![s] = t]
  /\ processing' = [processing EXCEPT ![s] = InitMid]
  /\ pc' = [pc EXCEPT ![t] = "use"]
  /\ own' = [own EXCEPT ![t] = s]
  /\ tgt' = [tgt EXCEPT ![t] = NoSA]
  /\ UNCHANGED <<state, waiting, flagVars, trackVars, hashVars, locked, asleep,
                 todo, mid, mode, late>>

\* ike_sa_create() fails if the SA's key material cannot be set up.
CreateFails(t) ==
  /\ pc[t] = "create"
  /\ pc' = [pc EXCEPT ![t] = "unhash"]
  /\ UNCHANGED <<saVars, holder, waiting, flagVars, processing, trackVars,
                 hashVars, locked, asleep, tgt, threadVars>>

KeepInitHash(s) == initHashes  \* mutant: the hash outlives the SA

\* remove_init_hash()
RemoveInitHash(s) == [initHashes EXCEPT ![initHash[s]] = NoSA]

\* The message got no SA.
DropInitHash(t) ==
  LET s == tgt[t] IN
  /\ pc[t] = "unhash"
  /\ HashUnlocked(t)
  /\ initHashes' = RemoveInitHash(s)
  /\ life' = [life EXCEPT ![s] = "gone"]
  /\ pc' = [pc EXCEPT ![t] = "idle"]
  /\ tgt' = [tgt EXCEPT ![t] = NoSA]
  /\ UNCHANGED <<state, responder, holder, waiting, flagVars, processing,
                 trackVars, initHash, hashOwner, rng, locked, asleep, threadVars>>

\* checkout_new() of an SA that is not put into the table; without an SPI it
\* returns NULL.
New(s) ==
  /\ rng
  /\ life[s] = "unused"
  /\ life' = [life EXCEPT ![s] = "new"]
  /\ UNCHANGED <<state, holder, waiting, flagVars, processing, trackVars,
                 hashVars, locked, asleep, todo, mid, late>>

\* A thread without an SA works on the new one (e.g. to initiate it, or for a
\* reauthentication).
CheckoutNew(t) ==
  /\ Runs(t, "new")
  /\ \E s \in SAs, initiator \in BOOLEAN :
       /\ New(s)
       /\ responder' = [responder EXCEPT ![s] = ~initiator]
       /\ own' = [own EXCEPT ![t] = s]
  /\ pc' = [pc EXCEPT ![t] = "use"]
  /\ UNCHANGED <<tgt, mode>>

\* A thread that works on an SA creates a second one to replace it (rekeying,
\* reestablishing, redirecting).
Spawn(t) ==
  /\ pc[t] = "use"
  /\ "spawn" \in Jobs
  /\ \E s \in SAs, initiator \in BOOLEAN :
       /\ New(s)
       /\ responder' = [responder EXCEPT ![s] = ~initiator]
       /\ tgt' = [tgt EXCEPT ![t] = s]
  /\ pc' = [pc EXCEPT ![t] = "second"]
  /\ UNCHANGED <<own, mode>>

\* Enumerations of the table (checkout_by_config(), checkout_by_id(),
\* checkout_by_name(), create_enumerator(TRUE)) visit the entries by segment
\* and row, waiting for each.
After(s, u) == \/ s = NoSA
               \/ Seg(s) < Seg(u)
               \/ Seg(s) = Seg(u) /\ s < u
Following(s) == {u \in Table : After(s, u)}

StartScan(t) ==
  /\ Runs(t, "scan")
  /\ pc' = [pc EXCEPT ![t] = "scan"]
  /\ \E what \in {"config", "name", "all"} : mode' = [mode EXCEPT ![t] = what]
  /\ UNCHANGED <<saVars, holder, waiting, flagVars, processing, trackVars,
                 hashVars, locked, asleep, tgt, own, todo, mid, late>>

\* The segments an enumeration that stands at s has yet to lock.
Ahead(s) == {g \in Segments : s = NoSA \/ Seg(s) <= g}

Visit(t) ==
  /\ pc[t] = "scan"
  /\ \E s \in Following(tgt[t]) :
       /\ \A u \in Following(tgt[t]) : u = s \/ After(s, u)
       /\ \A g \in Ahead(tgt[t]) \cap locked : g > Seg(s)
       /\ WaitForEntry(t, "scanwait", s, NoMid)
  /\ UNCHANGED <<saVars, flagVars, trackVars, hashVars, locked, todo, late>>

\* Nothing found: checkout_by_config() hands out a new SA.
EndScan(t) ==
  /\ pc[t] = "scan"
  /\ Ahead(tgt[t]) \cap locked = {}
  /\ Following(tgt[t]) = {}
  /\ \/ /\ mode[t] = "config"
        /\ \E s \in SAs : /\ New(s)
                          /\ own' = [own EXCEPT ![t] = s]
        /\ pc' = [pc EXCEPT ![t] = "use"]
     \/ /\ mode[t] # "config" \/ SpiFails \/ \A s \in SAs : life[s] # "unused"
        /\ pc' = [pc EXCEPT ![t] = "idle"]
        /\ UNCHANGED <<life, state, holder, waiting, flagVars, processing,
                       trackVars, hashVars, locked, asleep, own, todo, mid, late>>
  /\ tgt' = [tgt EXCEPT ![t] = NoSA]
  /\ mode' = [mode EXCEPT ![t] = "none"]
  /\ UNCHANGED responder

\* create_enumerator(FALSE) never waits, but signals the entries it passes.
List(t, s) ==
  /\ Runs(t, "list")
  /\ s \in Table
  /\ Unlocked(s)
  /\ asleep' \in Signalled(s)
  /\ UNCHANGED <<saVars, holder, waiting, flagVars, processing, trackVars,
                 hashVars, locked, pc, tgt, threadVars>>

-----------------------------------------------------------------------------
(* Checking in.                                                              *)

PutHalfOpen(table, h, r) ==
  [table EXCEPT ![h] = [count |-> @.count + 1,
                        responder |-> @.responder + (IF r THEN 1 ELSE 0)]]

\* Nothing is removed for a host that has no item in the table.
RemoveHalfOpen(table, h, r) ==
  IF table[h].count = 0 THEN table
  ELSE [table EXCEPT ![h] = [count |-> @.count - 1,
                             responder |-> @.responder - (IF r THEN 1 ELSE 0)]]

\* mutant: a change of the peer's address goes unnoticed
HalfOpenTableSameHost(s, st, h) ==
  CASE halfOpen[s] /\ st # "CONNECTING" ->
         RemoveHalfOpen(halfOpenTable, other[s], responder[s])
    [] ~halfOpen[s] /\ st = "CONNECTING" ->
         PutHalfOpen(halfOpenTable, h, responder[s])
    [] OTHER -> halfOpenTable

\* The half-open table after the check-in of SA s in state st with peer h.
HalfOpenTableAfter(s, st, h) ==
  LET r == responder[s]
      connecting == st = "CONNECTING"
  IN CASE halfOpen[s] /\ ~connecting ->
            RemoveHalfOpen(halfOpenTable, other[s], r)
       [] halfOpen[s] /\ connecting /\ h # other[s] ->
            PutHalfOpen(RemoveHalfOpen(halfOpenTable, other[s], r), h, r)
       [] ~halfOpen[s] /\ connecting ->
            PutHalfOpen(halfOpenTable, h, r)
       [] OTHER -> halfOpenTable

\* mutant: an SA that was half-open is not listed
IdentifiesFresh(s, st) == st = "ESTABLISHED" /\ ~hasIds[s] /\ ~halfOpen[s]

\* The identities are applied when an established SA is checked in first.
Identifies(s, st) == st = "ESTABLISHED" /\ ~hasIds[s]

\* put_connected_peers() and remove_connected_peers(): each SA is listed once.
PutConnectedPeers(s) == connectedPeers \cup {s}
RemoveConnectedPeers(s) == connectedPeers \ {s}

\* Is check_uniqueness() called while the SA is checked in?  Only for IKEv1
\* SAs that have seen INITIAL_CONTACT.
ChecksLate(s, st, contact) == contact /\ Identifies(s, st)

\* mutant: the mark of the processed request stays
ReleaseMarked(s, h) ==
  /\ holder' = [holder EXCEPT ![s] = h]
  /\ UNCHANGED processing

\* The entry has a new holder and no request is being processed any more.
Release(s, h) ==
  /\ holder' = [holder EXCEPT ![s] = h]
  /\ processing' = [processing EXCEPT ![s] = NoMid]

\* checkin() of SA s, which is now in state st with peer h.  An SA from
\* checkout_new() gets an entry.  The SA stays checked out while its
\* uniqueness is checked; waiting threads are signalled all the same.
CheckinEntry(t, s, st, h, contact) ==
  LET keep == ChecksLate(s, st, contact)
      identify == Identifies(s, st) /\ ~keep
  IN
  /\ Unlocked(s)
  /\ life' = [life EXCEPT ![s] = "table"]
  /\ state' = [state EXCEPT ![s] = st]
  /\ Release(s, IF keep THEN t ELSE NoThread)
  /\ halfOpen' = [halfOpen EXCEPT ![s] = (st = "CONNECTING")]
  /\ halfOpenTable' = HalfOpenTableAfter(s, st, h)
  /\ other' = [other EXCEPT ![s] =
                 IF st = "CONNECTING" \/ (identify /\ @ = NoHost) THEN h ELSE @]
  /\ hasIds' = [hasIds EXCEPT ![s] = @ \/ identify]
  /\ connectedPeers' = IF identify THEN PutConnectedPeers(s) ELSE connectedPeers
  /\ asleep' \in Signalled(s)
  /\ UNCHANGED <<responder, waiting, flagVars, hashVars, locked, mid>>

\* A thread has done its work on its SA and checks it in.
Checkin(t) ==
  LET s == own[t] IN
  /\ pc[t] = "use"
  /\ \E st \in NextStates(state[s]), h \in Hosts, contact \in BOOLEAN :
       /\ contact => "unique" \in Jobs /\ state[s] = "CONNECTING"
       /\ CheckinEntry(t, s, st, h, contact)
       /\ IF ChecksLate(s, st, contact)
          THEN /\ pc' = [pc EXCEPT ![t] = "check"]
               /\ mode' = [mode EXCEPT ![t] = "FORCE"]
               /\ late' = [late EXCEPT ![t] = TRUE]
               /\ UNCHANGED own
          ELSE /\ pc' = [pc EXCEPT ![t] = "idle"]
               /\ mode' = [mode EXCEPT ![t] = "none"]
               /\ own' = [own EXCEPT ![t] = NoSA]
               /\ UNCHANGED late
  /\ UNCHANGED <<tgt, todo>>

\* The rest of checkin() after check_uniqueness().
FinishCheckin(t) ==
  LET s == own[t] IN
  /\ pc[t] = "unique"
  /\ late[t]
  /\ todo[t] = {}
  /\ Unlocked(s)
  /\ holder' = [holder EXCEPT ![s] = NoThread]
  /\ asleep' \in Signalled(s)
  /\ hasIds' = [hasIds EXCEPT ![s] = TRUE]
  /\ \E h \in Hosts : other' = [other EXCEPT ![s] = IF @ = NoHost THEN h ELSE @]
  /\ connectedPeers' = PutConnectedPeers(s)
  /\ pc' = [pc EXCEPT ![t] = "idle"]
  /\ own' = [own EXCEPT ![t] = NoSA]
  /\ mode' = [mode EXCEPT ![t] = "none"]
  /\ late' = [late EXCEPT ![t] = FALSE]
  /\ UNCHANGED <<saVars, waiting, flagVars, processing, halfOpen, halfOpenTable,
                 hashVars, locked, tgt, todo, mid>>

-----------------------------------------------------------------------------
(* Destroying.                                                               *)

\* Where a thread goes on that is done with a second entry or with its SA.
Return(t) == pc' = [pc EXCEPT ![t] = IF own'[t] = NoSA THEN "idle" ELSE "unique"]

\* Mutant: the last waiting thread is forgotten.
DrivenOutButOne(s) == Cardinality(waiting[s]) <= 1

\* Nobody is counted in entry->waiting_threads.
AllDrivenOut(s) == waiting[s] = {}

\* The loop of checkin_and_destroy() on entry s: wake the waiting threads and
\* sleep until there are none, then take the entry from the table.
DriveOut(t, s) ==
  /\ IF AllDrivenOut(s)
     THEN /\ life' = [life EXCEPT ![s] = "removed"]
          /\ pc' = [pc EXCEPT ![t] = "unhalf"]
          /\ UNCHANGED asleep
     ELSE /\ asleep' = Broadcast(s) \cup {t}
          /\ pc' = [pc EXCEPT ![t] = "drive"]
          /\ UNCHANGED life
  /\ UNCHANGED <<state, responder, waiting, processing, trackVars, hashVars, locked>>

\* checkin_and_destroy() of SA s, if that is not in the table.
DestroyUnknown(t, s) ==
  /\ life[s] = "new"
  /\ life' = [life EXCEPT ![s] = "gone"]
  /\ tgt' = [tgt EXCEPT ![t] = NoSA]
  /\ Return(t)
  /\ UNCHANGED <<state, responder, holder, waiting, flagVars, processing,
                 trackVars, hashVars, locked, asleep>>

\* flush() has marked the SA and is going to destroy it: it is just checked in.
IgnoreDestroy(t, s) ==
  /\ life[s] = "table"
  /\ Unlocked(s)
  /\ driveWait[s] /\ driveNew[s]
  /\ holder' = [holder EXCEPT ![s] = NoThread]
  /\ asleep' = Broadcast(s)
  /\ tgt' = [tgt EXCEPT ![t] = NoSA]
  /\ Return(t)
  /\ UNCHANGED <<saVars, waiting, flagVars, processing, trackVars, hashVars, locked>>

\* The entry is closed for new and waiting threads.
CloseEntry(t, s) ==
  /\ life[s] = "table"
  /\ Unlocked(s)
  /\ ~(driveWait[s] /\ driveNew[s])
  /\ driveWait' = [driveWait EXCEPT ![s] = TRUE]
  /\ driveNew' = [driveNew EXCEPT ![s] = TRUE]
  /\ tgt' = [tgt EXCEPT ![t] = s]
  /\ DriveOut(t, s)
  /\ UNCHANGED holder

CheckinAndDestroy(t, s) ==
  DestroyUnknown(t, s) \/ IgnoreDestroy(t, s) \/ CloseEntry(t, s)

\* A thread destroys the SA it works on; a job of kind "quit" only does so once
\* flush() is under way.
Destroy(t) ==
  /\ \/ pc[t] = "use" /\ "destroy" \in Jobs
     \/ pc[t] = "use" /\ "quit" \in Jobs /\ pc[Flusher] # "off"
     \/ pc[t] = "cancel"
  /\ own' = [own EXCEPT ![t] = NoSA]
  /\ mode' = [mode EXCEPT ![t] = "none"]
  /\ CheckinAndDestroy(t, own[t])
  /\ UNCHANGED <<todo, mid, late>>

\* The destroying thread has been woken.
DriveOutMore(t) ==
  /\ pc[t] = "drive"
  /\ t \notin asleep
  /\ Unlocked(tgt[t])
  /\ DriveOut(t, tgt[t])
  /\ UNCHANGED <<holder, flagVars, tgt, threadVars>>

\* The entry is taken from the other tables, one after the other, and freed.
UntrackHalfOpen(t) ==
  LET s == tgt[t] IN
  /\ pc[t] = "unhalf"
  /\ halfOpenTable' = IF halfOpen[s]
                      THEN RemoveHalfOpen(halfOpenTable, other[s], responder[s])
                      ELSE halfOpenTable
  /\ halfOpen' = [halfOpen EXCEPT ![s] = FALSE]
  /\ pc' = [pc EXCEPT ![t] = "unpeer"]
  /\ UNCHANGED <<saVars, holder, waiting, flagVars, processing, other, hasIds,
                 connectedPeers, hashVars, locked, asleep, tgt, threadVars>>

UntrackPeer(t) ==
  LET s == tgt[t] IN
  /\ pc[t] = "unpeer"
  /\ connectedPeers' = IF hasIds[s] THEN RemoveConnectedPeers(s) ELSE connectedPeers
  /\ hasIds' = [hasIds EXCEPT ![s] = FALSE]
  /\ pc' = [pc EXCEPT ![t] = "uninit"]
  /\ UNCHANGED <<saVars, holder, waiting, flagVars, processing, halfOpen, other,
                 halfOpenTable, hashVars, locked, asleep, tgt, threadVars>>

FreeEntry(t) ==
  LET s == tgt[t] IN
  /\ pc[t] = "uninit"
  /\ IF initHash[s] = NoMessage
     THEN UNCHANGED initHashes
     ELSE /\ HashUnlocked(t)
          /\ initHashes' = RemoveInitHash(s)
  /\ life' = [life EXCEPT ![s] = "gone"]
  /\ tgt' = [tgt EXCEPT ![t] = NoSA]
  /\ UNCHANGED own
  /\ Return(t)
  /\ UNCHANGED <<state, responder, holder, waiting, flagVars, processing, trackVars,
                 initHash, hashOwner, rng, locked, asleep, todo, mid, mode, late>>

-----------------------------------------------------------------------------
(* Uniqueness of the SAs between two peers.                                  *)

\* The SAs check_uniqueness() looks at: a copy of the list of connected peers,
\* nothing if the policy does not ask for uniqueness.
Duplicates(force) ==
  IF Policy = "NEVER" \/ (Policy = "NO" /\ ~force) THEN {} ELSE connectedPeers

\* mutant: the check is made for established SAs, too
NotDeleting(s) == state[s] # "DELETING"

\* The SA has no identities yet: it is established after the check.
NotComplete(s) == state[s] = "CONNECTING"

\* check_uniqueness() as the last step of the authentication.
CheckUniqueness(t) ==
  /\ pc[t] = "use"
  /\ "unique" \in Jobs
  /\ mode[t] = "none"
  /\ NotComplete(own[t])
  /\ \E force \in BOOLEAN :
       /\ mode' = [mode EXCEPT ![t] = IF force THEN "FORCE"
                     ELSE IF Policy = "KEEP" THEN "KEEP" ELSE "REPLACE"]
       /\ todo' = [todo EXCEPT ![t] = Duplicates(force)]
  /\ pc' = [pc EXCEPT ![t] = "unique"]
  /\ UNCHANGED <<saVars, holder, waiting, flagVars, processing, trackVars,
                 hashVars, locked, asleep, tgt, own, mid, late>>

\* The same, called by checkin().
CheckUniquenessLate(t) ==
  /\ pc[t] = "check"
  /\ todo' = [todo EXCEPT ![t] = Duplicates(TRUE)]
  /\ pc' = [pc EXCEPT ![t] = "unique"]
  /\ UNCHANGED <<saVars, holder, waiting, flagVars, processing, trackVars,
                 hashVars, locked, asleep, tgt, own, mid, mode, late>>

CheckoutDuplicate(t, s) ==
  /\ pc[t] = "unique"
  /\ s \in todo[t]
  /\ Unlocked(s)
  /\ todo' = [todo EXCEPT ![t] = @ \ {s}]
  /\ \/ /\ s \notin Table
        /\ UNCHANGED <<holder, waiting, processing, asleep, pc, tgt, own, mid, mode>>
     \/ /\ s \in Table
        /\ WaitForEntry(t, "dupwait", s, NoMid)
  /\ UNCHANGED <<saVars, flagVars, trackVars, hashVars, locked, late>>

\* What check_uniqueness() makes of a duplicate it checks in again, and of its
\* policy: a replaced SA is deleted, now or by a job; the first SA from
\* another host that is kept cancels the new one and turns the policy to
\* replacing further duplicates.
Treatments(t, s) ==
  {<<state[s], mode[t]>>} \cup
  (IF state[s] # "ESTABLISHED" THEN {}
   ELSE IF mode[t] = "KEEP" THEN {<<"ESTABLISHED", "CANCEL">>}
   ELSE {<<"DELETING", mode[t]>>})

\* The second SA is checked in.
CheckinSecond(t) ==
  LET s == tgt[t] IN
  /\ pc[t] = "second"
  /\ \E h \in Hosts :
       \/ /\ life[s] = "new"
          /\ \E st \in NextStates(state[s]) : CheckinEntry(t, s, st, h, FALSE)
          /\ UNCHANGED mode
       \/ /\ s \in Table
          /\ mode[t] # "FORCE"
          /\ \E tr \in Treatments(t, s) :
               /\ CheckinEntry(t, s, tr[1], h, FALSE)
               /\ mode' = [mode EXCEPT ![t] = tr[2]]
  /\ pc' = [pc EXCEPT ![t] = "unique"]
  /\ tgt' = [tgt EXCEPT ![t] = NoSA]
  /\ UNCHANGED <<own, todo, late>>

\* The second SA is destroyed: the peer sent INITIAL_CONTACT, its deletion
\* returned DESTROY_ME, or a new SA is of no use.
DestroySecond(t) ==
  LET s == tgt[t] IN
  /\ pc[t] = "second"
  /\ \/ life[s] = "new"
     \/ mode[t] = "FORCE"
     \/ mode[t] \in {"REPLACE", "CANCEL"} /\ state[s] = "ESTABLISHED"
  /\ UNCHANGED own
  /\ CheckinAndDestroy(t, s)
  /\ UNCHANGED <<todo, mid, mode, late>>

\* No more duplicates: the thread goes on with its own SA, or gives it up.
EndUnique(t) ==
  /\ pc[t] = "unique"
  /\ ~late[t]
  /\ todo[t] = {}
  /\ pc' = [pc EXCEPT ![t] = IF mode[t] = "CANCEL" THEN "cancel" ELSE "use"]
  /\ UNCHANGED <<saVars, holder, waiting, flagVars, processing, trackVars,
                 hashVars, locked, asleep, tgt, threadVars>>

-----------------------------------------------------------------------------
(* Shutting down.                                                            *)

BusyHolder(s) == CheckedOut(s)     \* mutant: waiting threads are ignored
BusyWaiting(s) == waiting[s] # {}  \* mutant: the holder is ignored
Busy(s) == waiting[s] # {} \/ CheckedOut(s)

\* flush() locks all segments and closes all entries (step 1).
FlushMark ==
  /\ pc[Flusher] = "off"
  /\ "flush" \in Jobs
  /\ locked' = Segments
  /\ driveNew' = [s \in SAs |-> driveNew[s] \/ s \in Table]
  /\ driveWait' = [s \in SAs |-> driveWait[s] \/ s \in Table]
  /\ pc' = [pc EXCEPT ![Flusher] = "walk"]
  /\ UNCHANGED <<saVars, holder, waiting, processing, trackVars, hashVars,
                 asleep, tgt, threadVars>>

\* Broadcast and sleep on entry s; only the mutex of its segment is released.
FlushSleep(s) ==
  /\ asleep' = Broadcast(s) \cup {Flusher}
  /\ locked' = Segments \ {Seg(s)}
  /\ pc' = [pc EXCEPT ![Flusher] = "sleep"]

\* Step 2: wait at each entry until no thread has it or waits for it.
FlushVisit ==
  /\ pc[Flusher] = "walk"
  /\ \/ \E s \in Following(tgt[Flusher]) :
          /\ \A u \in Following(tgt[Flusher]) : u = s \/ After(s, u)
          /\ tgt' = [tgt EXCEPT ![Flusher] = s]
          /\ IF Busy(s) THEN FlushSleep(s)
             ELSE /\ asleep' \in Signalled(s)
                  /\ UNCHANGED <<locked, pc>>
     \/ /\ Following(tgt[Flusher]) = {}
        /\ pc' = [pc EXCEPT ![Flusher] = "delete"]
        /\ tgt' = [tgt EXCEPT ![Flusher] = NoSA]
        /\ UNCHANGED <<locked, asleep>>
  /\ UNCHANGED <<saVars, holder, waiting, flagVars, processing, trackVars,
                 hashVars, threadVars>>

FlushResume ==
  LET s == tgt[Flusher] IN
  /\ pc[Flusher] = "sleep"
  /\ Flusher \notin asleep
  /\ IF Busy(s) THEN FlushSleep(s)
     ELSE /\ locked' = Segments
          /\ asleep' \in Signalled(s)
          /\ pc' = [pc EXCEPT ![Flusher] = "walk"]
  /\ UNCHANGED <<saVars, holder, waiting, flagVars, processing, trackVars,
                 hashVars, tgt, threadVars>>

\* destroy_all_entries()
DestroyAllEntries ==
  /\ (\E s \in Table : initHash[s] # NoMessage) => HashUnlocked(Flusher)
  /\ life' = [s \in SAs |-> IF s \in Table THEN "gone" ELSE life[s]]
  /\ halfOpenTable' =
       [h \in Hosts |->
          LET open == {s \in Table : halfOpen[s] /\ other[s] = h}
          IN [count |-> halfOpenTable[h].count - Cardinality(open),
              responder |-> halfOpenTable[h].responder
                              - Cardinality({s \in open : responder[s]})]]
  /\ halfOpen' = [s \in SAs |-> halfOpen[s] /\ s \notin Table]
  /\ connectedPeers' = connectedPeers \ {s \in Table : hasIds[s]}
  /\ hasIds' = [s \in SAs |-> hasIds[s] /\ s \notin Table]
  /\ initHashes' = [m \in Messages |->
                      IF \E s \in Table : initHash[s] = m THEN NoSA ELSE initHashes[m]]
  /\ UNCHANGED <<state, responder, holder, waiting, flagVars, processing, other,
                 initHash, hashOwner, asleep, tgt, threadVars>>

\* Steps 3 and 4: all SAs are deleted and destroyed.
FlushDestroy ==
  /\ pc[Flusher] = "delete"
  /\ DestroyAllEntries
  /\ locked' = {}
  /\ pc' = [pc EXCEPT ![Flusher] = "rng"]
  /\ UNCHANGED rng

\* Without the random generator no SPI can be drawn.
FlushRng ==
  /\ pc[Flusher] = "rng"
  /\ rng' = FALSE
  /\ pc' = [pc EXCEPT ![Flusher] = "done"]
  /\ UNCHANGED <<saVars, holder, waiting, flagVars, processing, trackVars,
                 initHash, initHashes, hashOwner, locked, asleep, tgt, threadVars>>

\* destroy() of the manager, called once the worker threads have ended.
DestroyManager ==
  /\ pc[Flusher] = "done"
  /\ \A t \in Threads : pc[t] = "idle"
  /\ DestroyAllEntries
  /\ pc' = [pc EXCEPT ![Flusher] = "destroyed"]
  /\ UNCHANGED <<locked, rng>>

-----------------------------------------------------------------------------

\* A thread takes up work.
Start(t) ==
  \/ \E s \in SAs : Checkout(t, s) \/ Message(t, s) \/ List(t, s)
  \/ \E m \in Messages : InitMessage(t, m)
  \/ CheckoutNew(t)
  \/ StartScan(t)

\* A thread goes on with what it has begun.
Continue(t) ==
  \/ Resume(t)
  \/ LookupInit(t) \/ CheckLimit(t) \/ PutNewEntry(t) \/ CreateFails(t)
  \/ DropInitHash(t)
  \/ Visit(t) \/ EndScan(t)
  \/ Spawn(t)
  \/ Checkin(t) \/ FinishCheckin(t)
  \/ Destroy(t) \/ DriveOutMore(t)
  \/ UntrackHalfOpen(t) \/ UntrackPeer(t) \/ FreeEntry(t)
  \/ CheckUniqueness(t) \/ CheckUniquenessLate(t)
  \/ \E s \in SAs : CheckoutDuplicate(t, s)
  \/ CheckinSecond(t) \/ DestroySecond(t) \/ EndUnique(t)

Flush == \/ FlushMark \/ FlushVisit \/ FlushResume \/ FlushDestroy \/ FlushRng
         \/ DestroyManager

Next == \/ \E t \in Threads : Start(t) \/ Continue(t)
        \/ Flush

Spec == Init /\ [][Next]_vars

\* A thread that has a job finishes it: worker threads are preemptive and no
\* job runs forever.  flush() runs to its end, once called.  Nothing is assumed
\* about when new work comes in, or about who gets a mutex first.
Fairness == /\ \A t \in Threads : WF_vars(Continue(t))
            /\ WF_vars(FlushVisit \/ FlushResume \/ FlushDestroy \/ FlushRng)

FairSpec == Spec /\ Fairness

-----------------------------------------------------------------------------
(* Properties.                                                               *)

SaType ==
  /\ life \in [SAs -> {"unused", "spi", "new", "table", "removed", "gone"}]
  /\ state \in [SAs -> IkeStates]
  /\ responder \in [SAs -> BOOLEAN]
EntryType ==
  /\ holder \in [SAs -> Threads \cup {NoThread}]
  /\ waiting \in [SAs -> SUBSET Threads]
  /\ processing \in [SAs -> Mids \cup {InitMid, NoMid}]
FlagType ==
  /\ driveNew \in [SAs -> BOOLEAN]
  /\ driveWait \in [SAs -> BOOLEAN]
TrackType ==
  /\ halfOpen \in [SAs -> BOOLEAN]
  /\ other \in [SAs -> Hosts \cup {NoHost}]
  /\ hasIds \in [SAs -> BOOLEAN]
  /\ halfOpenTable \in [Hosts -> [count : Int, responder : Int]]
  /\ connectedPeers \subseteq SAs
HashType ==
  /\ initHash \in [SAs -> Messages \cup {NoMessage}]
  /\ initHashes \in [Messages -> SAs \cup {NoSA}]
  /\ hashOwner \in Threads \cup {NoThread}
  /\ rng \in BOOLEAN
ActorType ==
  /\ locked \subseteq Segments
  /\ asleep \subseteq Actors
  /\ pc \in [Actors -> ThreadPcs \cup FlushPcs]
  /\ tgt \in [Actors -> SAs \cup {NoSA}]
ThreadType ==
  /\ own \in [Threads -> SAs \cup {NoSA}]
  /\ todo \in [Threads -> SUBSET SAs]
  /\ mid \in [Threads -> Mids \cup {InitMid, NoMid}]
  /\ mode \in [Threads -> Modes]
  /\ late \in [Threads -> BOOLEAN]

\* Every variable has its type.
TypeOK == /\ SaType /\ EntryType /\ FlagType /\ TrackType /\ HashType
          /\ ActorType /\ ThreadType

\* A thread's control state, not the entry, says which SAs it is working on.
Uses(t, s) == \/ own[t] = s
              \/ tgt[t] = s /\ pc[t] \in {"second", "drive"} \cup RemovePcs

\* "A checked out SA is exclusively accessible by the owning thread"
\* (ike_sa_manager.h): no two threads work on the same SA, no thread works on
\* one that has been freed, and flush() deletes SAs nobody works on.
Exclusive ==
  \A s \in SAs, t \in Threads : Uses(t, s) =>
     /\ life[s] \in {"new", "table", "removed"}
     /\ \A u \in Threads : Uses(u, s) => u = t
     /\ pc[Flusher] = "delete" => s \notin Table

\* No actor waits for, or sleeps on the condvar of, an entry that is no longer
\* in the table: checkin_and_destroy() and flush() free entries only when
\* nobody is left.
NoUseAfterFree ==
  \A a \in Actors :
    pc[a] \in WaitPcs \cup {"drive", "sleep"} => tgt[a] \in Table

\* No wake-up is lost although checkout, checkin_and_destroy() and flush()
\* share one condvar and signal() wakes only one of them: whoever sleeps on an
\* entry can count on a thread that waits for it and is awake, or on a holder
\* that will signal when it is done.
NoLostWakeup ==
  \A a \in asleep :
    LET s == tgt[a]
        h == holder[s]
    IN \/ \E u \in waiting[s] : u \notin asleep
       \/ h \notin {NoThread, a} /\ ~(h \in asleep /\ pc[h] = "drive" /\ tgt[h] = s)

\* A request marked as being processed belongs to a thread that works on it:
\* a mark left behind would make the manager ignore the peer's retransmits.
NoStaleProcessing ==
  \A s \in Table : processing[s] # NoMid => holder[s] # NoThread \/ driveNew[s]

\* The counters of half-open SAs, by which the receiver decides to demand
\* cookies and to drop initial messages, agree with the entries that exist and
\* are being connected.
HalfOpenExact ==
  /\ \A h \in Hosts :
       LET open == {s \in SAs : halfOpen[s] /\ other[s] = h}
       IN /\ halfOpenTable[h].count = Cardinality(open)
          /\ halfOpenTable[h].responder = Cardinality({s \in open : responder[s]})
  /\ \A s \in SAs : halfOpen[s] => /\ life[s] \in {"table", "removed"}
                                   /\ state[s] = "CONNECTING"

\* check_uniqueness() finds every established SA that is not in use, and no SA
\* stays in the list of connected peers when it is freed.
PeersTracked ==
  /\ \A s \in Table : state[s] = "ESTABLISHED" /\ holder[s] = NoThread
                        => s \in connectedPeers
  /\ \A s \in connectedPeers : life[s] \in {"table", "removed"}

\* A retransmitted initial message never leads to a second IKE_SA, and its
\* hash is forgotten with the SA.
OneSAPerInit ==
  /\ \A s, u \in Table : initHash[s] = initHash[u] /\ initHash[s] # NoMessage => s = u
  /\ \A m \in Messages : initHashes[m] # NoSA =>
       life[initHashes[m]] \in {"spi", "table", "removed"}

\* check_uniqueness() waits for SAs while its caller keeps one: "must be called
\* before the IKE_SA is complete, deadlocks occur otherwise"
\* (ike_sa_manager.h).  Whoever keeps the SA waited for is not waiting itself.
NoCircularWait ==
  \A t \in Threads : pc[t] = "dupwait" =>
    \A u \in Threads : pc[u] = "dupwait" => own[u] # tgt[t]

\* Whoever destroys an SA gets done: the threads that wait for it leave, and
\* nothing keeps it from the other tables' locks.
DestroyTerminates ==
  \A t \in Threads :
    pc[t] \in {"drive"} \cup RemovePcs ~> pc[t] \notin {"drive"} \cup RemovePcs

\* "Threads will be driven out, so all SAs can be deleted cleanly"
\* (ike_sa_manager.h on flush()).
FlushTerminates == pc[Flusher] = "walk" ~> pc[Flusher] = "done"

-----------------------------------------------------------------------------
(* What the manager promises: the SAs that exist and who works on them.      *)

Existing == {s \in SAs : life[s] \in {"new", "table", "removed"}}
Freed == {s \in SAs : life[s] = "gone"}
Users == [s \in SAs |-> {t \in Threads : Uses(t, s)}]

Checkouts == INSTANCE SaCheckout
               WITH alive <- Existing, dead <- Freed, users <- Users

\* The table, its condvars and its driveout flags implement exclusive
\* checkout: an SA passes from no user to one and back, and only its one user,
\* or the shutdown when it has none, ends it.
ImplementsCheckout == Checkouts!Spec
=============================================================================
