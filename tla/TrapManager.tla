---------------------------- MODULE TrapManager -----------------------------
(***************************************************************************)
(* The trap manager (libcharon/sa/trap_manager.c) with the reqids that the  *)
(* kernel interface allocates (libcharon/kernel/kernel_interface.c).        *)
(*                                                                          *)
(* A trap is a policy in the kernel whose traffic triggers an acquire; the  *)
(* daemon then initiates a CHILD_SA, once per trap until that attempt ends. *)
(* Traps, their updates and the CHILD_SAs share reqids, which are counted   *)
(* references.  Several threads install, uninstall and acquire at once, the *)
(* bus reports the end of an attempt, and flush() ends it all.              *)
(*                                                                          *)
(* Each section under the locks is an action, and so is what is done        *)
(* between them.  A trap or CHILD_SA is represented by its reqid, 0 while   *)
(* it has none.  Left out: addresses and marks, statically configured       *)
(* reqids, IKE_SAs that hand their tasks to another one.                    *)
(***************************************************************************)
EXTENDS Naturals, Sequences, FiniteSets, FiniteSetsExt, SequencesExt

CONSTANTS
  Threads,     \* threads that use the trap manager
  Names,       \* the names of the configured CHILD_SAs
  TS,          \* TS[n]: the traffic selectors of n
  Narrowed,    \* those a negotiation, or a new configuration, may change them to
  Wildcard,    \* the names of transport mode SAs with any peer
  Dsts,        \* the destinations of acquires
  AnyDst,      \* no destination
  SAs,         \* the IKE_SA objects, used again after they are destroyed
  NoSA,        \* no IKE_SA
  Children,    \* the CHILD_SA objects, used again after they are destroyed
  MaxOps       \* bound: calls of install(), acquire() and initiations

Reqids == 1..MaxOps  \* as each of them allocates at most one
Selectors == {TS[n] : n \in Names} \cup {Narrowed}

ASSUME TrapAssumption ==
  /\ TS \in [Names -> Selectors] /\ Wildcard \subseteq Names
  /\ NoSA \notin SAs /\ AnyDst \notin Dsts
  /\ MaxOps \in Nat /\ IsFiniteSet(Threads) /\ IsFiniteSet(Children)

VARIABLES
  traps,      \* the list of entries: a name and the reqid of its CHILD_SA
  acquires,   \* the acquires that are handled
  installing, \* the threads that install traps
  disabled,   \* INSTALL_DISABLED
  flushing,   \* flush(): off, wait, woken or done
  thread,     \* what each thread does
  table,      \* table[r]: the traffic selectors and references of reqid r
  counter,    \* the last reqid allocated
  sas,        \* the IKE_SAs that exist
  child,      \* the CHILD_SAs
  ops         \* counts the operations

vars == <<traps, acquires, installing, disabled, flushing, thread, table,
          counter, sas, child, ops>>

Idle == [pc |-> "idle"]
NoChild == [state |-> "none"]
Blank == [ts |-> Narrowed, refs |-> 0]

Init ==
  /\ traps = <<>> /\ acquires = {} /\ installing = 0 /\ disabled = FALSE
  /\ flushing = "off"
  /\ thread = [t \in Threads |-> Idle]
  /\ table = [r \in Reqids |-> Blank] /\ counter = 0
  /\ sas = {} /\ child = [c \in Children |-> NoChild]
  /\ ops = 0

(***************************************************************************)
(* Reqids of the kernel interface.                                          *)
(***************************************************************************)
Allocated(r) == r \in Reqids /\ table[r].refs > 0

\* Mutant: a given reqid is looked up by the traffic selectors only.
ReqidForTs(reqid, ts) ==
  IF \E r \in Reqids : Allocated(r) /\ table[r].ts = ts
  THEN CHOOSE r \in Reqids : Allocated(r) /\ table[r].ts = ts
  ELSE counter + 1

\* alloc_reqid(): the given one if it is known, or that of the same traffic
\* selectors, or a new one.
ReqidFor(reqid, ts) ==
  IF Allocated(reqid) THEN reqid
  ELSE IF \E r \in Reqids : Allocated(r) /\ table[r].ts = ts
  THEN CHOOSE r \in Reqids : Allocated(r) /\ table[r].ts = ts
  ELSE counter + 1

Alloc(r, ts) ==
  /\ r \in Reqids
  /\ table' = [table EXCEPT ![r] = [ts |-> IF @.refs > 0 THEN @.ts ELSE ts,
                                    refs |-> @.refs + 1]]
  /\ counter' = IF r > counter THEN r ELSE counter

\* release_reqid() is called n[r] times for each reqid r.
Released(n) ==
  [r \in Reqids |->
     IF n[r] = 0 THEN table[r]
     ELSE IF table[r].refs = n[r] THEN Blank
     ELSE [table[r] EXCEPT !.refs = @ - n[r]]]

\* One reference to reqid q, none if there is no reqid.
One(q) == [r \in Reqids |-> IF r = q THEN 1 ELSE 0]

(***************************************************************************)
(* install() and uninstall().                                               *)
(***************************************************************************)
WithReqid(r) == {i \in 1..Len(traps) : traps[i].reqid = r}
Named(n) == {i \in 1..Len(traps) : traps[i].name = n}

\* The list without the first of the entries in S.
WithoutFirst(S) == IF S = {} THEN traps ELSE RemoveAt(traps, Min(S))

\* find_reqid(): that of the first entry with the name.
FindReqid(n) == IF Named(n) = {} THEN 0 ELSE traps[Min(Named(n))].reqid

\* The entry of that name, if any, is replaced; nothing happens if it is being
\* installed.  A reqid may be asked for: that of an existing CHILD_SA.
InstallBegin(t, n, reqid) ==
  LET old == FindReqid(n) IN
  /\ thread[t] = Idle /\ ~disabled /\ ops < MaxOps
  /\ Named(n) # {} => old # 0
  /\ reqid \in {0} \cup {child[c].reqid : c \in
                  {x \in Children : child[x].state = "installed"
                                    /\ child[x].name = n}}
  /\ traps' = <<[name |-> n, reqid |-> 0]>> \o WithoutFirst(Named(n))
  /\ installing' = installing + 1
  /\ ops' = ops + 1
  /\ thread' = [thread EXCEPT ![t] =
                 [pc |-> "add", name |-> n, new |-> 0, old |-> old,
                  reqid |-> IF old = 0 THEN reqid ELSE old]]
  /\ UNCHANGED <<acquires, disabled, flushing, table, counter, sas, child>>

\* add_policies() of the CHILD_SA of a trap gets or confirms its reqid.
AddPolicies(reqid, ts) == Alloc(ReqidFor(reqid, ts), ts)

\* The trap is created and its policies are added, which may fail.  Its traffic
\* selectors may have been configured anew.
InstallAdd(t, ts) ==
  LET me == thread[t] IN
  /\ me.pc = "add" /\ ts \in {TS[me.name], Narrowed}
  /\ AddPolicies(me.reqid, ts)
  /\ \E pc \in {"set", "fail"} :
       thread' = [thread EXCEPT ![t].pc = pc,
                                ![t].new = ReqidFor(me.reqid, ts)]
  /\ UNCHANGED <<traps, acquires, installing, disabled, flushing, sas, child,
                 ops>>

InstallSet(t) ==
  LET me == thread[t] IN
  /\ me.pc = "set"
  /\ traps' = [i \in 1..Len(traps) |->
                IF traps[i].name = me.name
                THEN [traps[i] EXCEPT !.reqid = me.new] ELSE traps[i]]
  /\ thread' = [thread EXCEPT ![t].pc = "drop", ![t].new = 0]
  /\ UNCHANGED <<acquires, installing, disabled, flushing, table, counter, sas,
                 child, ops>>

InstallFail(t) ==
  /\ thread[t].pc = "fail"
  /\ traps' = WithoutFirst(Named(thread[t].name))
  /\ thread' = [thread EXCEPT ![t].pc = "drop"]
  /\ UNCHANGED <<acquires, installing, disabled, flushing, table, counter, sas,
                 child, ops>>

\* Mutant: the failed trap is destroyed twice.
FailedTwice(me) == [r \in Reqids |-> IF r = me.new THEN 2 ELSE 0]

\* The trap whose installation failed, if it did, is destroyed first.
Failed(me) == One(me.new)

DestroyFailed(t) ==
  /\ thread[t].pc = "drop" /\ thread[t].new # 0
  /\ table' = Released(Failed(thread[t]))
  /\ thread' = [thread EXCEPT ![t].new = 0]
  /\ UNCHANGED <<traps, acquires, installing, disabled, flushing, counter, sas,
                 child, ops>>

\* Mutant: the replaced trap is not destroyed.
ReplacedKept(me) == One(0)

\* The trap that was found and replaced, if any, is destroyed then.
Replaced(me) == One(me.old)

DestroyFound(t) ==
  /\ thread[t].pc = "drop" /\ thread[t].new = 0
  /\ table' = Released(Replaced(thread[t]))
  /\ thread' = [thread EXCEPT ![t] = [pc |-> "end"]]
  /\ UNCHANGED <<traps, acquires, installing, disabled, flushing, counter, sas,
                 child, ops>>

\* Mutant: flush() is not told.
NoSignal == UNCHANGED flushing

Signal == flushing' = IF flushing = "wait" THEN "woken" ELSE flushing

InstallEnd(t) ==
  /\ thread[t].pc = "end"
  /\ installing' = installing - 1
  /\ Signal
  /\ thread' = [thread EXCEPT ![t] = Idle]
  /\ UNCHANGED <<traps, acquires, disabled, table, counter, sas, child, ops>>

\* The first trap with that reqid, as acquire() and uninstall() find it.
First(r) == Min(WithReqid(r))

UninstallBegin(t, r) ==
  /\ thread[t] = Idle /\ WithReqid(r) # {}
  /\ traps' = WithoutFirst(WithReqid(r))
  /\ thread' = [thread EXCEPT ![t] = [pc |-> "free", old |-> r]]
  /\ UNCHANGED <<acquires, installing, disabled, flushing, table, counter, sas,
                 child, ops>>

UninstallEnd(t) ==
  /\ thread[t].pc = "free"
  /\ table' = Released(One(thread[t].old))
  /\ thread' = [thread EXCEPT ![t] = Idle]
  /\ UNCHANGED <<traps, acquires, installing, disabled, flushing, counter, sas,
                 child, ops>>

\* flush() waits for threads that install traps and then destroys all.
FlushWait ==
  /\ flushing \in {"off", "woken"} /\ installing > 0
  /\ flushing' = "wait"
  /\ UNCHANGED <<traps, acquires, installing, disabled, thread, table, counter,
                 sas, child, ops>>

\* Mutant: flush() does not wait.
QuietAlways == TRUE

Quiet == installing = 0

FlushAll ==
  /\ flushing \in {"off", "woken"} /\ Quiet
  /\ table' = Released([r \in Reqids |-> Cardinality(WithReqid(r))])
  /\ traps' = <<>>
  /\ disabled' = TRUE
  /\ flushing' = "done"
  /\ UNCHANGED <<acquires, installing, thread, counter, sas, child, ops>>

(***************************************************************************)
(* acquire() and the events of the bus.                                     *)
(***************************************************************************)
\* An acquire is ignored while another one for the same destination, or the
\* same reqid, is handled.
AcquireBegin(t, r, dst) ==
  /\ ops < MaxOps /\ ops' = ops + 1
  /\ thread[t] = Idle /\ WithReqid(r) # {}
  /\ LET n == traps[First(r)].name
         d == IF n \in Wildcard THEN dst ELSE AnyDst
     IN /\ IF n \in Wildcard THEN \A a \in acquires : a.dst # d
           ELSE \A a \in acquires : a.reqid # r
        /\ acquires' = acquires \cup {[reqid |-> r, dst |-> d, sa |-> NoSA]}
        /\ thread' = [thread EXCEPT ![t] =
                       [pc |-> "checkout", name |-> n, reqid |-> r, dst |-> d]]
  /\ UNCHANGED <<traps, installing, disabled, flushing, table, counter, sas,
                 child>>

Mine(me) == [reqid |-> me.reqid, dst |-> me.dst, sa |-> NoSA]

\* The manager has no IKE_SA for it.
AcquireFail(t) ==
  /\ thread[t].pc = "checkout"
  /\ acquires' = acquires \ {Mine(thread[t])}
  /\ thread' = [thread EXCEPT ![t] = Idle]
  /\ UNCHANGED <<traps, installing, disabled, flushing, table, counter, sas,
                 child, ops>>

\* The next object that is created: which one makes no difference.
NewChild == IF \E c \in Children : child[c] = NoChild
            THEN {CHOOSE c \in Children : child[c] = NoChild} ELSE {}
NewSA == IF SAs = sas THEN {} ELSE {CHOOSE sa \in SAs : sa \notin sas}

Trying(n, sa, reqid) ==
  [state |-> "trying", name |-> n, sa |-> sa, reqid |-> reqid]

\* The acquire is tied to a new IKE_SA, or to an existing one if the peer is
\* known, on which the CHILD_SA is initiated.
AcquireInitiate(t, sa, c) ==
  LET me == thread[t] IN
  /\ me.pc = "checkout" /\ c \in NewChild
  /\ sa \in IF me.name \in Wildcard THEN NewSA ELSE NewSA \cup sas
  /\ sas' = sas \cup {sa}
  /\ acquires' = (acquires \ {Mine(me)}) \cup {[Mine(me) EXCEPT !.sa = sa]}
  /\ child' = [child EXCEPT ![c] = Trying(me.name, sa, me.reqid)]
  /\ thread' = [thread EXCEPT ![t] = Idle]
  /\ UNCHANGED <<traps, installing, disabled, flushing, table, counter,
                 ops>>

\* A CHILD_SA that is initiated without an acquire: child_sa_create() asks
\* find_reqid().
Initiate(n, sa, c) ==
  /\ ops < MaxOps /\ ops' = ops + 1
  /\ c \in NewChild /\ sa \in NewSA \cup sas
  /\ sas' = sas \cup {sa}
  /\ child' = [child EXCEPT ![c] =
                Trying(n, sa, FindReqid(n))]
  /\ UNCHANGED <<traps, acquires, installing, disabled, flushing, thread, table,
                 counter>>

\* Mutant: acquires for any peer are left to the end of the IKE_SA.
CompletedByReqid(sa, r) ==
  {a \in acquires : a.sa = sa /\ a.dst = AnyDst /\ a.reqid = r}

\* complete() for a CHILD_SA of sa with reqid r.
Completed(sa, r) ==
  {a \in acquires : a.sa = sa /\ (a.dst # AnyDst \/ a.reqid = r)}

\* Mutant: the attempts of a destroyed IKE_SA are forgotten.
NothingDropped(sa) == {}

\* complete() for IKE_SA sa.
Dropped(sa) == {a \in acquires : a.sa = sa}

\* CHILD_INSTALLED: the reqid is confirmed, or another one is used.
ChildInstalled(c, ts) ==
  LET r == ReqidFor(child[c].reqid, ts) IN
  /\ child[c].state = "trying" /\ ts \in {TS[child[c].name], Narrowed}
  /\ Alloc(r, ts)
  /\ child' = [child EXCEPT ![c].state = "installed", ![c].reqid = r]
  /\ acquires' = acquires \ Completed(child[c].sa, r)
  /\ UNCHANGED <<traps, installing, disabled, flushing, thread, sas, ops>>

\* How many of the CHILD_SAs cs have a reference to each reqid.
Using(cs) ==
  [r \in Reqids |->
     Quantify(cs, LAMBDA c : child[c].state = "installed" /\ child[c].reqid = r)]

\* CHILD_DESTROYING of an attempt or of an established CHILD_SA.
ChildDestroyed(c) ==
  /\ child[c] # NoChild
  /\ acquires' = acquires \ Completed(child[c].sa, child[c].reqid)
  /\ table' = Released(Using({c}))
  /\ child' = [child EXCEPT ![c] = NoChild]
  /\ UNCHANGED <<traps, installing, disabled, flushing, thread, counter, sas,
                 ops>>

\* IKE_DESTROYING, and then CHILD_DESTROYING of each CHILD_SA.
SaDestroyed(sa) ==
  LET mine == {c \in Children : child[c] # NoChild /\ child[c].sa = sa} IN
  /\ sa \in sas
  /\ acquires' = acquires \ (Dropped(sa) \cup
                   UNION {Completed(sa, child[c].reqid) : c \in mine})
  /\ table' = Released(Using(mine))
  /\ child' = [c \in Children |-> IF c \in mine THEN NoChild ELSE child[c]]
  /\ sas' = sas \ {sa}
  /\ UNCHANGED <<traps, installing, disabled, flushing, thread, counter,
                 ops>>

Next ==
  \/ \E t \in Threads :
       \/ \E n \in Names, r \in 0..MaxOps : InstallBegin(t, n, r)
       \/ \E ts \in Selectors : InstallAdd(t, ts)
       \/ InstallSet(t) \/ InstallFail(t)
       \/ DestroyFailed(t) \/ DestroyFound(t) \/ InstallEnd(t)
       \/ \E r \in Reqids : UninstallBegin(t, r)
       \/ UninstallEnd(t)
       \/ \E r \in Reqids, d \in Dsts : AcquireBegin(t, r, d)
       \/ AcquireFail(t)
       \/ \E sa \in SAs, c \in Children : AcquireInitiate(t, sa, c)
  \/ FlushWait \/ FlushAll
  \/ \E n \in Names, sa \in SAs, c \in Children : Initiate(n, sa, c)
  \/ \E c \in Children, ts \in Selectors : ChildInstalled(c, ts)
  \/ \E c \in Children : ChildDestroyed(c)
  \/ \E sa \in SAs : SaDestroyed(sa)

\* Threads go on, and an attempt to establish a CHILD_SA ends (TasksEnd of
\* TaskManager).
Fairness ==
  /\ \A t \in Threads :
       WF_vars(\/ \E ts \in Selectors : InstallAdd(t, ts)
               \/ InstallSet(t) \/ InstallFail(t)
               \/ DestroyFailed(t) \/ DestroyFound(t) \/ InstallEnd(t)
               \/ UninstallEnd(t) \/ AcquireFail(t)
               \/ \E sa \in SAs, c \in Children : AcquireInitiate(t, sa, c))
  /\ WF_vars(flushing # "off" /\ (FlushWait \/ FlushAll))
  /\ \A c \in Children :
       WF_vars(/\ child[c].state = "trying"
               /\ ChildDestroyed(c) \/ \E ts \in Selectors : ChildInstalled(c, ts))

Spec == Init /\ [][Next]_vars /\ Fairness

-----------------------------------------------------------------------------
TypeOK ==
  /\ \A i \in 1..Len(traps) : traps[i] \in [name : Names, reqid : 0..MaxOps]
  /\ acquires \subseteq [reqid : Reqids, dst : Dsts \cup {AnyDst},
                         sa : SAs \cup {NoSA}]
  /\ installing \in 0..Cardinality(Threads) /\ disabled \in BOOLEAN
  /\ flushing \in {"off", "wait", "woken", "done"}
  /\ \A t \in Threads : thread[t].pc \in
       {"idle", "add", "set", "fail", "drop", "end", "free", "checkout"}
  /\ table \in [Reqids -> [ts : Selectors, refs : Nat]]
  /\ counter \in 0..MaxOps /\ sas \subseteq SAs
  /\ \A c \in Children : child[c].state \in {"none", "trying", "installed"}
  /\ ops \in 0..MaxOps

\* The traps and CHILD_SAs that have a reference to reqid r.
Holders(r) ==
  Cardinality(WithReqid(r))
    + Quantify(Threads, LAMBDA t :
        thread[t].pc \in {"add", "set", "fail", "drop", "free"}
        /\ thread[t].old = r)
    + Quantify(Threads, LAMBDA t :
        thread[t].pc \in {"set", "fail", "drop"} /\ thread[t].new = r)
    + Quantify(Children, LAMBDA c :
        child[c].state = "installed" /\ child[c].reqid = r)

\* A reqid is known to the kernel interface exactly as long as a trap or a
\* CHILD_SA uses it, updates and failures included.
ReqidsCounted == \A r \in Reqids : table[r].refs = Holders(r)

\* An updated trap keeps its reqid, on which the CHILD_SAs it triggered depend.
UpdateKeepsReqid ==
  \A t \in Threads :
    thread[t].pc = "set" /\ thread[t].old # 0 => thread[t].new = thread[t].old

\* An acquire is tied to an IKE_SA that exists, or a thread is about to tie it
\* to one: no object that is created later can be mistaken for it.
NoStaleAcquire ==
  \A a \in acquires :
    \/ a.sa \in sas
    \/ a.sa = NoSA /\ \E t \in Threads : thread[t].pc = "checkout"
                                         /\ Mine(thread[t]) = a

\* After flush() no trap is installed and none is being installed.
FlushFinal ==
  flushing = "done" =>
    /\ traps = <<>>
    /\ \A t \in Threads : thread[t].pc \notin {"add", "set", "fail", "drop"}

\* The trap with reqid r waits for an acquire to end.
Held(r) ==
  /\ WithReqid(r) # {}
  /\ \E a \in acquires : a.reqid = r

\* No trap is blocked for good by an acquire that is never completed.
TrapsUsable == \A r \in Reqids : Held(r) ~> ~Held(r)

\* flush() returns although threads install traps while it waits.
FlushReturns == flushing = "wait" ~> flushing = "done"
=============================================================================
