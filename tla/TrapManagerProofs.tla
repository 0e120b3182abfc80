-------------------------- MODULE TrapManagerProofs -------------------------
(***************************************************************************)
(* Proofs about the trap manager for any number of threads, traps, IKE_SAs  *)
(* and operations.                                                          *)
(***************************************************************************)
EXTENDS TrapManager, TLAPS, FiniteSetTheorems, SequenceTheorems,
        WellFoundedInduction

\* A thread is a record with a pc.
Shapes ==
  /\ thread = [t \in Threads |-> thread[t]]
  /\ \A t \in Threads : "pc" \in DOMAIN thread[t]

\* Thread t goes on from a place in from to a place in to, by itself.
Goes(t, from, to) ==
  /\ t \in Threads /\ thread[t].pc \in from
  /\ thread'[t].pc \in to /\ "pc" \in DOMAIN thread'[t]
  /\ \A u \in Threads \ {t} : thread'[u] = thread[u]
  /\ thread' = [u \in Threads |-> thread'[u]]

Busy == {"add", "set", "fail", "drop", "end"}

\* Where the actions of install() and uninstall() take their thread.
LEMMA InstallGoes ==
  ASSUME Shapes, NEW t \in Threads
  PROVE  /\ \A n, r : InstallBegin(t, n, r) => Goes(t, {"idle"}, {"add"})
         /\ \A ts : InstallAdd(t, ts) => Goes(t, {"add"}, {"set", "fail"})
         /\ InstallSet(t) => Goes(t, {"set"}, {"drop"})
         /\ InstallFail(t) => Goes(t, {"fail"}, {"drop"})
         /\ DestroyFailed(t) => Goes(t, {"drop"}, {"drop"})
         /\ DestroyFound(t) => Goes(t, {"drop"}, {"end"})
         /\ InstallEnd(t) => Goes(t, {"end"}, {"idle"})
         /\ \A r : UninstallBegin(t, r) => Goes(t, {"idle"}, {"free"})
         /\ UninstallEnd(t) => Goes(t, {"free"}, {"idle"})
<1> USE DEF Shapes, Goes, Idle
<1>1. \A n, r : InstallBegin(t, n, r) => Goes(t, {"idle"}, {"add"})
  <2> SUFFICES ASSUME NEW n, NEW r, InstallBegin(t, n, r)
               PROVE  Goes(t, {"idle"}, {"add"})
    OBVIOUS
  <2>1. PICK old, q : thread' = [thread EXCEPT ![t] =
                        [pc |-> "add", name |-> n, new |-> 0, old |-> old,
                         reqid |-> q]]
    BY DEF InstallBegin
  <2>2. thread[t] = Idle
    BY DEF InstallBegin
  <2> QED
    BY <2>1, <2>2
<1>2. \A ts : InstallAdd(t, ts) => Goes(t, {"add"}, {"set", "fail"})
  BY DEF InstallAdd
<1>3. InstallSet(t) => Goes(t, {"set"}, {"drop"})
  BY DEF InstallSet
<1>4. InstallFail(t) => Goes(t, {"fail"}, {"drop"})
  BY DEF InstallFail
<1>5. DestroyFailed(t) => Goes(t, {"drop"}, {"drop"})
  BY DEF DestroyFailed
<1>6. DestroyFound(t) => Goes(t, {"drop"}, {"end"})
  BY DEF DestroyFound
<1>7. InstallEnd(t) => Goes(t, {"end"}, {"idle"})
  BY DEF InstallEnd
<1>8. \A r : UninstallBegin(t, r) => Goes(t, {"idle"}, {"free"})
  BY DEF UninstallBegin
<1>9. UninstallEnd(t) => Goes(t, {"free"}, {"idle"})
  BY DEF UninstallEnd
<1> QED
  BY <1>1, <1>2, <1>3, <1>4, <1>5, <1>6, <1>7, <1>8, <1>9

\* Where the actions of acquire() do.
LEMMA AcquireGoes ==
  ASSUME Shapes, NEW t \in Threads
  PROVE  /\ \A r, d : AcquireBegin(t, r, d) => Goes(t, {"idle"}, {"checkout"})
         /\ AcquireFail(t) => Goes(t, {"checkout"}, {"idle"})
         /\ \A sa, c : AcquireInitiate(t, sa, c) => Goes(t, {"checkout"}, {"idle"})
<1> USE DEF Shapes, Goes, Idle
<1>1. \A r, d : AcquireBegin(t, r, d) => Goes(t, {"idle"}, {"checkout"})
  BY DEF AcquireBegin
<1>2. AcquireFail(t) => Goes(t, {"checkout"}, {"idle"})
  BY DEF AcquireFail
<1>3. \A sa, c : AcquireInitiate(t, sa, c) => Goes(t, {"checkout"}, {"idle"})
  BY DEF AcquireInitiate
<1> QED
  BY <1>1, <1>2, <1>3

LEMMA GoesShapes ==
  ASSUME Shapes, NEW t, NEW from, NEW to, Goes(t, from, to)
  PROVE  Shapes'
  BY DEF Shapes, Goes

\* Every step moves one thread or none.
LEMMA StepShapes ==
  ASSUME Shapes, [Next]_vars
  PROVE  Shapes'
<1>1. CASE UNCHANGED thread
  BY <1>1 DEF Shapes
<1>2. ASSUME NEW t \in Threads, NEW from, NEW to, Goes(t, from, to)
      PROVE  Shapes'
  BY <1>2, GoesShapes
<1>3. ASSUME NEW t \in Threads,
             \/ \E n \in Names, r \in 0..MaxOps : InstallBegin(t, n, r)
             \/ \E ts \in Selectors : InstallAdd(t, ts)
             \/ InstallSet(t) \/ InstallFail(t)
             \/ DestroyFailed(t) \/ DestroyFound(t)
             \/ InstallEnd(t)
             \/ \E r \in Reqids : UninstallBegin(t, r)
             \/ UninstallEnd(t)
      PROVE  Shapes'
  BY <1>2, <1>3, InstallGoes
<1>4. ASSUME NEW t \in Threads,
             \/ \E r \in Reqids, d \in Dsts : AcquireBegin(t, r, d)
             \/ AcquireFail(t)
             \/ \E sa \in SAs, c \in Children : AcquireInitiate(t, sa, c)
      PROVE  Shapes'
  BY <1>2, <1>4, AcquireGoes
<1>5. CASE FlushWait \/ FlushAll
  BY <1>1, <1>5 DEF FlushWait, FlushAll
<1>6. ASSUME NEW n, NEW sa, NEW c, Initiate(n, sa, c)
      PROVE  Shapes'
  BY <1>1, <1>6 DEF Initiate
<1>7. ASSUME NEW c, NEW ts, ChildInstalled(c, ts)
      PROVE  Shapes'
  BY <1>1, <1>7 DEF ChildInstalled
<1>8. ASSUME NEW c, ChildDestroyed(c)
      PROVE  Shapes'
  BY <1>1, <1>8 DEF ChildDestroyed
<1>9. ASSUME NEW sa, SaDestroyed(sa)
      PROVE  Shapes'
  BY <1>1, <1>9 DEF SaDestroyed
<1>10. CASE UNCHANGED vars
  BY <1>1, <1>10 DEF vars
<1> QED
  BY <1>3, <1>4, <1>5, <1>6, <1>7, <1>8, <1>9, <1>10 DEF Next

-----------------------------------------------------------------------------
(* Acquires and the IKE_SAs they are tied to.                                *)

\* An acquire that thread t has not tied to an IKE_SA yet.
Untied(a, t) == a.sa = NoSA /\ thread[t].pc = "checkout" /\ Mine(thread[t]) = a

\* What a step owes: the acquires that stay keep their IKE_SA or their thread.
LEMMA StaleStep ==
  ASSUME NoStaleAcquire,
         \A a \in acquires' \ acquires :
           a.sa \in sas' \/ \E t \in Threads : Untied(a, t)',
         \A a \in acquires' \cap acquires : a.sa \in sas => a.sa \in sas',
         \A a \in acquires' \cap acquires : \A t \in Threads :
           Untied(a, t) => Untied(a, t)'
  PROVE  NoStaleAcquire'
  BY DEF NoStaleAcquire, Untied

\* A thread that is not in acquire() leaves all acquires alone.
LEMMA StaleGoes ==
  ASSUME NoStaleAcquire, UNCHANGED <<acquires, sas>>,
         NEW t, NEW from, NEW to, Goes(t, from, to), "checkout" \notin from
  PROVE  NoStaleAcquire'
<1>1. \A a \in acquires, u \in Threads : Untied(a, u) => Untied(a, u)'
  BY DEF Untied, Goes, Mine
<1> QED
  BY <1>1, StaleStep

LEMMA StaleUnmoved ==
  ASSUME NoStaleAcquire, UNCHANGED thread, acquires' \subseteq acquires,
         \A a \in acquires' : a.sa \in sas => a.sa \in sas'
  PROVE  NoStaleAcquire'
<1>1. \A a \in acquires, u \in Threads : Untied(a, u) => Untied(a, u)'
  BY DEF Untied, Mine
<1> QED
  BY <1>1, StaleStep

LEMMA StaleInstall ==
  ASSUME Shapes, NoStaleAcquire, NEW t \in Threads,
         \/ \E n \in Names, r \in 0..MaxOps : InstallBegin(t, n, r)
         \/ \E ts \in Selectors : InstallAdd(t, ts)
         \/ InstallSet(t) \/ InstallFail(t)
         \/ DestroyFailed(t) \/ DestroyFound(t)
         \/ InstallEnd(t)
         \/ \E r \in Reqids : UninstallBegin(t, r)
         \/ UninstallEnd(t)
  PROVE  NoStaleAcquire'
<1>1. UNCHANGED <<acquires, sas>>
  BY DEF InstallBegin, InstallAdd, InstallSet, InstallFail, DestroyFailed,
         DestroyFound, InstallEnd, UninstallBegin, UninstallEnd
<1>2. \E from, to : Goes(t, from, to) /\ "checkout" \notin from
  BY InstallGoes
<1> QED
  BY <1>1, <1>2, StaleGoes

LEMMA StaleAcquire ==
  ASSUME Shapes, NoStaleAcquire, NEW t \in Threads,
         \/ \E r \in Reqids, d \in Dsts : AcquireBegin(t, r, d)
         \/ AcquireFail(t)
         \/ \E sa \in SAs, c \in Children : AcquireInitiate(t, sa, c)
  PROVE  NoStaleAcquire'
<1>1. ASSUME NEW r, NEW d, AcquireBegin(t, r, d)
      PROVE  NoStaleAcquire'
  <2>1. PICK n, e : /\ acquires' = acquires \cup
                         {[reqid |-> r, dst |-> e, sa |-> NoSA]}
                    /\ thread' = [thread EXCEPT ![t] =
                         [pc |-> "checkout", name |-> n, reqid |-> r, dst |-> e]]
    BY <1>1 DEF AcquireBegin
  <2>2. Goes(t, {"idle"}, {"checkout"}) /\ sas' = sas
    BY <1>1, AcquireGoes DEF AcquireBegin
  <2>3. Untied([reqid |-> r, dst |-> e, sa |-> NoSA], t)'
    BY <2>1 DEF Untied, Mine, Shapes
  <2>4. \A a \in acquires, u \in Threads : Untied(a, u) => Untied(a, u)'
    BY <2>2 DEF Untied, Goes, Mine
  <2> QED
    BY <2>1, <2>2, <2>3, <2>4, StaleStep
<1>2. ASSUME AcquireFail(t)
      PROVE  NoStaleAcquire'
  <2>1. acquires' = acquires \ {Mine(thread[t])} /\ sas' = sas
    BY <1>2 DEF AcquireFail
  <2>2. Goes(t, {"checkout"}, {"idle"})
    BY <1>2, AcquireGoes
  <2>3. \A a \in acquires', u \in Threads : Untied(a, u) => Untied(a, u)'
    BY <2>1, <2>2 DEF Untied, Goes, Mine
  <2> QED
    BY <2>1, <2>3, StaleStep
<1>3. ASSUME NEW sa, NEW c, AcquireInitiate(t, sa, c)
      PROVE  NoStaleAcquire'
  <2> DEFINE new == [Mine(thread[t]) EXCEPT !.sa = sa]
  <2>1. /\ acquires' = (acquires \ {Mine(thread[t])}) \cup {new}
        /\ sas' = sas \cup {sa}
    BY <1>3 DEF AcquireInitiate
  <2>2. Goes(t, {"checkout"}, {"idle"})
    BY <1>3, AcquireGoes
  <2>3. new.sa \in sas'
    BY <2>1 DEF Mine
  <2> HIDE DEF new
  <2>4. \A a \in acquires' \cap acquires : a = new \/ a # Mine(thread[t])
    BY <2>1
  <2>5. \A a \in acquires' \cap acquires, u \in Threads :
          a # Mine(thread[t]) /\ Untied(a, u) => Untied(a, u)'
    BY <2>2 DEF Untied, Goes, Mine
  <2> QED
    BY <2>1, <2>3, <2>4, <2>5 DEF NoStaleAcquire, Untied
<1> QED
  BY <1>1, <1>2, <1>3

LEMMA StaleNext ==
  ASSUME Shapes, NoStaleAcquire, [Next]_vars
  PROVE  NoStaleAcquire'
<1>1. CASE FlushWait \/ FlushAll
  BY <1>1, StaleUnmoved DEF FlushWait, FlushAll
<1>2. ASSUME NEW n, NEW sa, NEW c, Initiate(n, sa, c)
      PROVE  NoStaleAcquire'
  BY <1>2, StaleUnmoved DEF Initiate
<1>3. ASSUME NEW c, NEW ts, ChildInstalled(c, ts)
      PROVE  NoStaleAcquire'
  BY <1>3, StaleUnmoved DEF ChildInstalled
<1>4. ASSUME NEW c, ChildDestroyed(c)
      PROVE  NoStaleAcquire'
  BY <1>4, StaleUnmoved DEF ChildDestroyed
<1>5. ASSUME NEW sa, SaDestroyed(sa)
      PROVE  NoStaleAcquire'
  <2>1. /\ UNCHANGED thread /\ acquires' \subseteq acquires \ Dropped(sa)
        /\ sas' = sas \ {sa}
    BY <1>5 DEF SaDestroyed
  <2> QED
    BY <2>1, StaleUnmoved DEF Dropped
<1>6. CASE UNCHANGED vars
  BY <1>6, StaleUnmoved DEF vars
<1> QED
  BY <1>1, <1>2, <1>3, <1>4, <1>5, <1>6, StaleInstall, StaleAcquire DEF Next

\* complete() drops an acquire before its IKE_SA object is freed: no acquire is
\* ever taken for that of another object, for any number of threads and SAs.
THEOREM AcquiresNeverStale == Spec => []NoStaleAcquire
<1>1. Init => Shapes /\ NoStaleAcquire
  BY DEF Init, Shapes, Idle, NoStaleAcquire
<1>2. Shapes /\ NoStaleAcquire /\ [Next]_vars => (Shapes /\ NoStaleAcquire)'
  BY StepShapes, StaleNext
<1> QED
  BY <1>1, <1>2, PTL DEF Spec

-----------------------------------------------------------------------------
(* flush() and the threads that install traps.                               *)

Installers == {t \in Threads : thread[t].pc \in Busy}

\* installing counts them, which is what flush() relies on; once it is done
\* there are none and there will be none.
FlushSafe ==
  /\ installing = Cardinality(Installers)
  /\ flushing = "done" => disabled /\ traps = <<>> /\ Installers = {}

LEMMA InstallersFinite == IsFiniteSet(Installers) /\ Cardinality(Installers) \in Nat
  BY TrapAssumption, FS_Subset, FS_CardinalityType DEF Installers

\* A thread begins, goes on with or ends an installation.
LEMMA InstallersGo ==
  ASSUME NEW t, NEW from, NEW to, Goes(t, from, to)
  PROVE  /\ from \cap Busy = {} /\ to \subseteq Busy
              => /\ Installers' = Installers \cup {t}
                 /\ Cardinality(Installers') = Cardinality(Installers) + 1
         /\ from \subseteq Busy /\ to \cap Busy = {}
              => /\ Installers' = Installers \ {t} /\ t \in Installers
                 /\ Cardinality(Installers') = Cardinality(Installers) - 1
         /\ (from \subseteq Busy /\ to \subseteq Busy)
             \/ (from \cap Busy = {} /\ to \cap Busy = {})
              => Installers' = Installers
<1>1. from \cap Busy = {} /\ to \subseteq Busy
        => Installers' = Installers \cup {t} /\ t \notin Installers
  BY DEF Goes, Installers
<1>2. from \subseteq Busy /\ to \cap Busy = {}
        => Installers' = Installers \ {t} /\ t \in Installers
  BY DEF Goes, Installers
<1>3. (from \subseteq Busy /\ to \subseteq Busy)
      \/ (from \cap Busy = {} /\ to \cap Busy = {})
        => Installers' = Installers
  BY DEF Goes, Installers
<1> QED
  BY <1>1, <1>2, <1>3, InstallersFinite, FS_AddElement, FS_RemoveElement

\* A step that changes none of the variables of FlushSafe.
LEMMA FlushUnmoved ==
  ASSUME FlushSafe, UNCHANGED <<traps, installing, disabled, flushing, thread>>
  PROVE  FlushSafe'
  BY DEF FlushSafe, Installers

LEMMA FlushInstall ==
  ASSUME Shapes, FlushSafe, NEW t \in Threads,
         \/ \E n \in Names, r \in 0..MaxOps : InstallBegin(t, n, r)
         \/ \E ts \in Selectors : InstallAdd(t, ts)
         \/ InstallSet(t) \/ InstallFail(t)
         \/ DestroyFailed(t) \/ DestroyFound(t)
         \/ InstallEnd(t)
  PROVE  FlushSafe'
<1>1. ASSUME NEW n, NEW r, InstallBegin(t, n, r)
      PROVE  FlushSafe'
  <2>1. ~disabled /\ installing' = installing + 1 /\ UNCHANGED flushing
    BY <1>1 DEF InstallBegin
  <2>2. Goes(t, {"idle"}, {"add"})
    BY <1>1, InstallGoes
  <2>3. Cardinality(Installers') = Cardinality(Installers) + 1
    BY <2>2, InstallersGo DEF Busy
  <2> QED
    BY <2>1, <2>3 DEF FlushSafe
<1>2. ASSUME \/ \E ts \in Selectors : InstallAdd(t, ts)
             \/ InstallSet(t) \/ InstallFail(t)
             \/ DestroyFailed(t) \/ DestroyFound(t)
      PROVE  FlushSafe'
  <2>1. UNCHANGED <<installing, flushing, disabled>>
    BY <1>2 DEF InstallAdd, InstallSet, InstallFail, DestroyFailed, DestroyFound
  <2>2. \E from, to : Goes(t, from, to) /\ from \subseteq Busy /\ to \subseteq Busy
    BY <1>2, InstallGoes DEF Busy
  <2>3. Installers' = Installers /\ t \in Installers
    BY <2>2, InstallersGo DEF Goes, Installers
  <2> QED
    BY <2>1, <2>3 DEF FlushSafe
<1>3. ASSUME InstallEnd(t)
      PROVE  FlushSafe'
  <2>1. /\ installing' = installing - 1 /\ UNCHANGED <<traps, disabled>>
        /\ flushing' = "done" => flushing = "done"
    BY <1>3 DEF InstallEnd, Signal
  <2>2. Goes(t, {"end"}, {"idle"})
    BY <1>3, InstallGoes
  <2>3. /\ t \in Installers
        /\ Cardinality(Installers') = Cardinality(Installers) - 1
    BY <2>2, InstallersGo DEF Busy
  <2> QED
    BY <2>1, <2>3 DEF FlushSafe
<1> QED
  BY <1>1, <1>2, <1>3

LEMMA FlushOther ==
  ASSUME Shapes, FlushSafe, NEW t \in Threads,
         \/ \E r \in Reqids : UninstallBegin(t, r)
         \/ UninstallEnd(t)
         \/ \E r \in Reqids, d \in Dsts : AcquireBegin(t, r, d)
         \/ AcquireFail(t)
         \/ \E sa \in SAs, c \in Children : AcquireInitiate(t, sa, c)
  PROVE  FlushSafe'
<1>1. UNCHANGED <<installing, flushing, disabled>>
  BY DEF UninstallBegin, UninstallEnd, AcquireBegin, AcquireFail,
         AcquireInitiate
<1>2. traps = <<>> => traps' = traps
  <2>1. ASSUME NEW r, UninstallBegin(t, r)
        PROVE  traps # <<>>
    BY <2>1 DEF UninstallBegin, WithReqid
  <2>2. (\E r \in Reqids : UninstallBegin(t, r)) \/ traps' = traps
    BY DEF UninstallEnd, AcquireBegin, AcquireFail, AcquireInitiate
  <2> QED
    BY <2>1, <2>2
<1>3. \E from, to : Goes(t, from, to) /\ from \cap Busy = {} /\ to \cap Busy = {}
  BY InstallGoes, AcquireGoes DEF Busy
<1>4. Installers' = Installers
  BY <1>3, InstallersGo
<1> QED
  BY <1>1, <1>2, <1>4 DEF FlushSafe

LEMMA FlushNext ==
  ASSUME Shapes, FlushSafe, [Next]_vars
  PROVE  FlushSafe'
<1>1. CASE FlushWait
  BY <1>1 DEF FlushWait, FlushSafe, Installers
<1>2. CASE FlushAll
  <2>1. /\ installing = 0 /\ UNCHANGED <<installing, thread>>
        /\ traps' = <<>> /\ disabled'
    BY <1>2 DEF FlushAll, Quiet
  <2>2. Installers' = Installers
    BY <2>1 DEF Installers
  <2>3. Installers = {}
    BY <2>1, InstallersFinite, FS_EmptySet DEF FlushSafe
  <2> QED
    BY <2>1, <2>2, <2>3 DEF FlushSafe
<1>3. ASSUME \/ \E n \in Names, sa \in SAs, c \in Children : Initiate(n, sa, c)
             \/ \E c \in Children, ts \in Selectors : ChildInstalled(c, ts)
             \/ \E c \in Children : ChildDestroyed(c)
             \/ \E sa \in SAs : SaDestroyed(sa)
             \/ UNCHANGED vars
      PROVE  FlushSafe'
  BY <1>3, FlushUnmoved
  DEF Initiate, ChildInstalled, ChildDestroyed, SaDestroyed, vars
<1> QED
  BY <1>1, <1>2, <1>3, FlushInstall, FlushOther DEF Next

LEMMA FlushInit == Init => Shapes /\ FlushSafe
<1> SUFFICES ASSUME Init PROVE Shapes /\ FlushSafe
  OBVIOUS
<1>1. Shapes
  BY DEF Init, Shapes, Idle
<1>2. Installers = {}
  BY DEF Init, Installers, Idle, Busy
<1> QED
  BY <1>1, <1>2, FS_EmptySet DEF Init, FlushSafe

\* After flush() has returned no thread has a trap in the kernel or is about to
\* install one, however many install() calls it raced with.
THEOREM FlushIsFinal == Spec => []FlushFinal
<1>1. Init => Shapes /\ FlushSafe
  BY FlushInit
<1>2. Shapes /\ FlushSafe /\ [Next]_vars => (Shapes /\ FlushSafe)'
  BY StepShapes, FlushNext
<1>3. FlushSafe => FlushFinal
  BY DEF FlushSafe, FlushFinal, Installers, Busy
<1> QED
  BY <1>1, <1>2, <1>3, PTL DEF Spec

-----------------------------------------------------------------------------
(* Lists of traps with unique names.                                         *)

Trap == [name : Names, reqid : 0..MaxOps]
IsList(q) == /\ q \in Seq(Trap)
             /\ \A i, j \in 1..Len(q) : q[i].name = q[j].name => i = j
Elements(q) == {q[i] : i \in 1..Len(q)}

LEMMA Less ==
  ASSUME NEW x \in Nat, NEW y \in Nat, y < x
  PROVE  <<y, x>> \in OpToRel(<, Nat)
  BY SMT DEF OpToRel

\* A set of numbers has a least one.
LEMMA Least ==
  ASSUME NEW S, S \subseteq Nat, S # {}
  PROVE  Min(S) \in S
<1>1. PICK x \in S : \A y \in S : ~(<<y, x>> \in OpToRel(<, Nat))
  BY NatLessThanWellFounded, WFMin
<1>2. ASSUME NEW y \in S PROVE ~(y < x)
  BY <1>1, Less
<1>3. \A y \in S : x =< y
  BY <1>2
<1> QED
  BY <1>3 DEF Min

LEMMA Prepend ==
  ASSUME NEW q, IsList(q), NEW e \in Trap, \A x \in Elements(q) : x.name # e.name
  PROVE  IsList(<<e>> \o q) /\ Elements(<<e>> \o q) = Elements(q) \cup {e}
<1> DEFINE p == <<e>> \o q
<1>1. /\ p \in Seq(Trap) /\ Len(p) = Len(q) + 1 /\ Len(q) \in Nat
      /\ p[1] = e /\ \A i \in 1..Len(q) : p[i + 1] = q[i]
  BY DEF IsList
<1> HIDE DEF p
<1>2. \A i \in 1..Len(p) : i = 1 \/ (i - 1 \in 1..Len(q) /\ p[i] = q[i - 1])
  BY <1>1
<1>3. \A i \in 1..Len(q) : q[i] \in Elements(q)
  BY DEF Elements
<1>4. IsList(p)
  <2> SUFFICES ASSUME NEW i \in 1..Len(p), NEW j \in 1..Len(p), p[i].name = p[j].name
               PROVE  i = j
    BY <1>1 DEF IsList
  <2>1. CASE i = 1 \/ j = 1
    BY <1>1, <1>2, <1>3, <2>1
  <2>2. CASE i # 1 /\ j # 1
    <3>1. i - 1 \in 1..Len(q) /\ p[i] = q[i - 1] /\ j - 1 \in 1..Len(q) /\ p[j] = q[j - 1]
      BY <1>2, <2>2
    <3>2. i - 1 = j - 1
      BY <3>1 DEF IsList
    <3> QED
      BY <3>2
  <2> QED
    BY <2>1, <2>2
<1>5. Elements(p) \subseteq Elements(q) \cup {e}
  BY <1>1, <1>2, <1>3 DEF Elements
<1>6. e \in Elements(p) /\ Elements(q) \subseteq Elements(p)
  BY <1>1 DEF Elements
<1> QED
  BY <1>4, <1>5, <1>6 DEF p

LEMMA Removing ==
  ASSUME NEW q, IsList(q), NEW k \in 1..Len(q)
  PROVE  IsList(RemoveAt(q, k)) /\ Elements(RemoveAt(q, k)) = Elements(q) \ {q[k]}
<1> DEFINE p == RemoveAt(q, k)
           b == SubSeq(q, 1, k - 1)
           a == SubSeq(q, k + 1, Len(q))
<1>1. q \in Seq(Trap) /\ Len(q) \in Nat
  BY DEF IsList
<1>2. b \in Seq(Trap) /\ Len(b) = k - 1 /\ \A i \in 1..(k - 1) : b[i] = q[i]
  BY <1>1, SubSeqProperties
<1>3. /\ a \in Seq(Trap) /\ Len(a) = Len(q) - k
      /\ \A i \in 1..(Len(q) - k) : a[i] = q[k + i]
  BY <1>1, SubSeqProperties
<1> HIDE DEF a, b
<1>4. /\ p \in Seq(Trap) /\ Len(p) = Len(q) - 1
      /\ \A i \in 1..(Len(q) - 1) : p[i] = q[IF i < k THEN i ELSE i + 1]
  <2>1. p = b \o a
    BY DEF RemoveAt, a, b
  <2> HIDE DEF p
  <2>2. /\ p \in Seq(Trap) /\ Len(p) = Len(b) + Len(a)
        /\ \A i \in 1..(Len(b) + Len(a)) : p[i] = IF i <= Len(b) THEN b[i] ELSE a[i - Len(b)]
    BY <1>2, <1>3, <2>1, ConcatProperties
  <2>3. ASSUME NEW i \in 1..(Len(q) - 1) PROVE p[i] = q[IF i < k THEN i ELSE i + 1]
    <3>0. i \in 1..(Len(b) + Len(a)) /\ Len(b) = k - 1 /\ i \in Int /\ k \in Int
      BY <1>1, <1>2, <1>3
    <3>1. CASE i < k
      <4>1. i \in 1..(k - 1) /\ i <= Len(b)
        BY <3>0, <3>1
      <4>2. p[i] = b[i]
        BY <2>2, <3>0, <4>1
      <4> QED
        BY <1>2, <3>1, <4>1, <4>2
    <3>2. CASE ~(i < k)
      <4>0. ~(i <= Len(b)) /\ i - Len(b) = i - (k - 1)
        BY <3>0, <3>2
      <4>1. i - (k - 1) \in 1..(Len(q) - k) /\ k + (i - (k - 1)) = i + 1
        BY <1>1, <3>2
      <4>2. p[i] = a[i - (k - 1)]
        BY <2>2, <3>0, <4>0
      <4>3. a[i - (k - 1)] = q[k + (i - (k - 1))]
        BY <1>3, <4>1
      <4> QED
        BY <3>2, <4>1, <4>2, <4>3
    <3> QED
      BY <3>1, <3>2
  <2>4. Len(p) = Len(q) - 1
    BY <1>1, <1>2, <1>3, <2>2
  <2> QED
    BY <2>2, <2>3, <2>4
<1> HIDE DEF p
<1>5. IsList(p)
  BY <1>1, <1>4, SMTT(30) DEF IsList
<1>6. Elements(p) \subseteq Elements(q) \ {q[k]}
  <2> SUFFICES ASSUME NEW i \in 1..Len(p) PROVE p[i] \in Elements(q) \ {q[k]}
    BY DEF Elements
  <2> DEFINE m == IF i < k THEN i ELSE i + 1
  <2>0. m \in 1..Len(q) /\ m # k /\ p[i] = q[m]
    BY <1>1, <1>4
  <2> HIDE DEF m
  <2>1. \E j \in 1..Len(q) : j # k /\ p[i] = q[j]
    BY <2>0
  <2> QED
    BY <1>1, <2>1 DEF Elements, IsList
<1>7. Elements(q) \ {q[k]} \subseteq Elements(p)
  <2> SUFFICES ASSUME NEW j \in 1..Len(q), j # k PROVE q[j] \in Elements(p)
    BY DEF Elements
  <2>1. \E i \in 1..Len(p) : p[i] = q[j]
    <3>1. CASE j < k
      BY <1>1, <1>4, <3>1
    <3>2. CASE j > k
      <4>1. j - 1 \in 1..Len(p) /\ p[j - 1] = q[j]
        BY <1>1, <1>4, <3>2
      <4> QED
        BY <4>1
    <3> QED
      BY <3>1, <3>2
  <2> QED
    BY <2>1 DEF Elements
<1> QED
  BY <1>5, <1>6, <1>7 DEF p

\* The number of entries with a property is that of the positions.
LEMMA Positions ==
  ASSUME NEW q, IsList(q), NEW r
  PROVE  /\ IsFiniteSet({e \in Elements(q) : e.reqid = r})
         /\ Cardinality({i \in 1..Len(q) : q[i].reqid = r})
              = Cardinality({e \in Elements(q) : e.reqid = r})
<1> DEFINE I == {i \in 1..Len(q) : q[i].reqid = r}
           E == {e \in Elements(q) : e.reqid = r}
           f == [i \in I |-> q[i]]
<1>1. IsFiniteSet(I)
  <2>1. Len(q) \in Nat
    BY DEF IsList
  <2>2. IsFiniteSet(1..Len(q))
    BY <2>1, FS_Interval
  <2>3. I \in SUBSET (1..Len(q))
    OBVIOUS
  <2> QED
    BY <2>2, <2>3, FS_Subset
<1>2. f \in Bijection(I, E)
  <2>1. f \in [I -> E]
    BY DEF Elements
  <2>2. \A i, j \in I : f[i] = f[j] => i = j
    BY DEF IsList
  <2>3. \A e \in E : \E i \in I : f[i] = e
    BY DEF Elements
  <2> QED
    BY <2>1, <2>2, <2>3 DEF Bijection, Injection, Surjection, IsInjective
<1>3. ExistsBijection(I, E)
  BY <1>2 DEF ExistsBijection
<1> QED
  BY <1>1, <1>3, FS_Bijection

LEMMA Records ==
  ASSUME NEW e \in Trap
  PROVE  /\ e = [name |-> e.name, reqid |-> e.reqid]
         /\ \A r : [e EXCEPT !.reqid = r] = [name |-> e.name, reqid |-> r]
  BY DEF Trap

LEMMA Entry ==
  ASSUME NEW q, IsList(q), NEW e \in Elements(q), NEW f \in Elements(q), e.name = f.name
  PROVE  e = f
  BY DEF IsList, Elements

\* find_reqid() finds the entry with that name, if there is one.
LEMMA Found ==
  ASSUME IsList(traps), NEW n \in Names
  PROVE  /\ Named(n) = {} => FindReqid(n) = 0 /\ \A e \in Elements(traps) : e.name # n
         /\ Named(n) # {} => [name |-> n, reqid |-> FindReqid(n)] \in Elements(traps)
         /\ FindReqid(n) \in 0..MaxOps
<1>1. Named(n) = {} => FindReqid(n) = 0 /\ \A e \in Elements(traps) : e.name # n
  BY DEF FindReqid, Named, Elements
<1>2. MaxOps \in Nat
  BY TrapAssumption
<1>3. CASE Named(n) # {}
  <2>0. Named(n) \subseteq Nat
    BY DEF Named
  <2>1. Min(Named(n)) \in Named(n)
    BY <1>3, <2>0, Least
  <2>2. PICK i \in 1..Len(traps) : traps[i].name = n /\ i = Min(Named(n))
    BY <2>1 DEF Named
  <2>3. traps[i] \in Trap /\ FindReqid(n) = traps[i].reqid
    BY <1>3, <2>2 DEF IsList, FindReqid
  <2>4. traps[i] = [name |-> n, reqid |-> FindReqid(n)]
    BY <2>2, <2>3, Records
  <2>5. traps[i] \in Elements(traps)
    BY DEF Elements
  <2> QED
    BY <1>3, <2>3, <2>4, <2>5 DEF Trap
<1> QED
  BY <1>1, <1>2, <1>3

\* The entries without the first one of those in S.
LEMMA TakenOut ==
  ASSUME IsList(traps), NEW S \in SUBSET (1..Len(traps)), S # {}
  PROVE  /\ IsList(WithoutFirst(S))
         /\ \E i \in S : Elements(WithoutFirst(S)) = Elements(traps) \ {traps[i]}
<1>1. Min(S) \in S
  <2>1. S \subseteq Nat
    OBVIOUS
  <2> QED
    BY <2>1, Least
<1>2. WithoutFirst(S) = RemoveAt(traps, Min(S))
  BY DEF WithoutFirst
<1> QED
  BY <1>1, <1>2, Removing

LEMMA NameTakenOut ==
  ASSUME IsList(traps), NEW n
  PROVE  /\ IsList(WithoutFirst(Named(n)))
         /\ Elements(WithoutFirst(Named(n))) = {e \in Elements(traps) : e.name # n}
<1>1. CASE Named(n) = {}
  <2>1. WithoutFirst(Named(n)) = traps
    BY <1>1 DEF WithoutFirst
  <2>2. \A e \in Elements(traps) : e.name # n
    BY <1>1 DEF Named, Elements
  <2> QED
    BY <2>1, <2>2
<1>2. CASE Named(n) # {}
  <2>1. Named(n) \in SUBSET (1..Len(traps))
    BY DEF Named
  <2>2. /\ IsList(WithoutFirst(Named(n)))
        /\ \E i \in Named(n) : Elements(WithoutFirst(Named(n))) = Elements(traps) \ {traps[i]}
    BY <1>2, <2>1, TakenOut
  <2>3. PICK i \in Named(n) : Elements(WithoutFirst(Named(n))) = Elements(traps) \ {traps[i]}
    BY <2>2
  <2>4. traps[i] \in Elements(traps) /\ traps[i].name = n
    BY DEF Named, Elements
  <2>5. \A e \in Elements(traps) : e # traps[i] <=> e.name # n
    BY <2>4, Entry
  <2> QED
    BY <2>2, <2>3, <2>5
<1> QED
  BY <1>1, <1>2

LEMMA ReqidTakenOut ==
  ASSUME IsList(traps), NEW r, WithReqid(r) # {}
  PROVE  /\ IsList(WithoutFirst(WithReqid(r)))
         /\ \E e \in Elements(traps) :
              e.reqid = r /\ Elements(WithoutFirst(WithReqid(r))) = Elements(traps) \ {e}
<1>1. WithReqid(r) \in SUBSET (1..Len(traps))
  BY DEF WithReqid
<1>2. /\ IsList(WithoutFirst(WithReqid(r)))
      /\ \E i \in WithReqid(r) :
           Elements(WithoutFirst(WithReqid(r))) = Elements(traps) \ {traps[i]}
  BY <1>1, TakenOut
<1>3. \A i \in WithReqid(r) : traps[i] \in Elements(traps) /\ traps[i].reqid = r
  BY DEF WithReqid, Elements
<1> QED
  BY <1>2, <1>3

\* The entry with name n gets reqid r.
LEMMA Changed ==
  ASSUME IsList(traps), NEW n \in Names, NEW r \in 0..MaxOps, NEW p,
         \E e \in Elements(traps) : e.name = n,
         p = [i \in 1..Len(traps) |->
                IF traps[i].name = n THEN [traps[i] EXCEPT !.reqid = r] ELSE traps[i]]
  PROVE  /\ IsList(p)
         /\ Elements(p) = {e \in Elements(traps) : e.name # n}
                            \cup {[name |-> n, reqid |-> r]}
<1>1. Len(traps) \in Nat /\ traps \in Seq(Trap)
  BY DEF IsList
<1>2. \A i \in 1..Len(traps) :
        /\ traps[i] \in Trap
        /\ p[i] = IF traps[i].name = n THEN [name |-> n, reqid |-> r] ELSE traps[i]
  <2> SUFFICES ASSUME NEW i \in 1..Len(traps)
               PROVE  /\ traps[i] \in Trap
                      /\ p[i] = IF traps[i].name = n THEN [name |-> n, reqid |-> r]
                                ELSE traps[i]
    OBVIOUS
  <2>1. traps[i] \in Trap
    BY <1>1
  <2>2. [traps[i] EXCEPT !.reqid = r] = [name |-> traps[i].name, reqid |-> r]
    BY <2>1, Records
  <2>3. p[i] = IF traps[i].name = n THEN [traps[i] EXCEPT !.reqid = r] ELSE traps[i]
    OBVIOUS
  <2> QED
    BY <2>1, <2>2, <2>3
<1>3. \A i \in 1..Len(traps) : p[i] \in Trap /\ p[i].name = traps[i].name
  BY <1>2 DEF Trap
<1>4. p \in Seq(Trap) /\ Len(p) = Len(traps)
  <2>1. p \in [1..Len(traps) -> Trap]
    BY <1>3
  <2> QED
    BY <1>1, <2>1
<1>5. IsList(p)
  BY <1>3, <1>4 DEF IsList
<1>6. ASSUME NEW i \in 1..Len(p)
      PROVE  p[i] \in {e \in Elements(traps) : e.name # n} \cup {[name |-> n, reqid |-> r]}
  BY <1>2, <1>4 DEF Elements
<1>7. ASSUME NEW i \in 1..Len(traps), traps[i].name # n
      PROVE  traps[i] \in Elements(p)
  BY <1>2, <1>4, <1>7 DEF Elements
<1>8. [name |-> n, reqid |-> r] \in Elements(p)
  <2>1. PICK i \in 1..Len(traps) : traps[i].name = n
    BY DEF Elements
  <2>2. p[i] = [name |-> n, reqid |-> r]
    BY <1>2, <2>1
  <2> QED
    BY <1>4, <2>2 DEF Elements
<1>9. Elements(p) \subseteq {e \in Elements(traps) : e.name # n}
                              \cup {[name |-> n, reqid |-> r]}
  BY <1>6 DEF Elements
<1>10. {e \in Elements(traps) : e.name # n} \subseteq Elements(p)
  BY <1>7 DEF Elements
<1> QED
  BY <1>5, <1>8, <1>9, <1>10

-----------------------------------------------------------------------------
(* What the threads and CHILD_SAs are.                                       *)

Placing == {"add", "set", "fail"}

Thread ==
  [pc : {"idle", "end"}]
  \cup [pc : {"free"}, old : Reqids]
  \cup [pc : {"checkout"}, name : Names, reqid : Reqids, dst : Dsts \cup {AnyDst}]
  \cup [pc : Placing \cup {"drop"}, name : Names, new : 0..MaxOps, old : 0..MaxOps,
        reqid : 0..MaxOps]

Child ==
  {NoChild} \cup [state : {"trying", "installed"}, name : Names, sa : SAs,
                  reqid : 0..MaxOps]

Types ==
  /\ thread \in [Threads -> Thread] /\ child \in [Children -> Child]
  /\ table \in [Reqids -> [ts : Selectors, refs : Nat]]

\* A thread that installs a trap has an entry without a reqid in the list, as
\* nobody removes it, and is the only one for that name.
Placed ==
  /\ IsList(traps)
  /\ \A t \in Threads : thread[t].pc \in Placing =>
       [name |-> thread[t].name, reqid |-> 0] \in Elements(traps)
  /\ \A t, u \in Threads :
       thread[t].pc \in Placing /\ thread[u].pc \in Placing
       /\ thread[t].name = thread[u].name => t = u

\* The reqid of the trap to replace is that of the new one.
Renewed ==
  \A t \in Threads :
    /\ thread[t].pc = "add" /\ thread[t].old # 0 => thread[t].reqid = thread[t].old
    /\ thread[t].pc = "set" /\ thread[t].old # 0 => thread[t].new = thread[t].old

Inv == Types /\ Placed /\ Renewed /\ ReqidsCounted

-----------------------------------------------------------------------------
(* How many hold a reqid.                                                    *)

Is(x, y) == IF x = y THEN 1 ELSE 0
Has(S, x) == IF x \in S THEN 1 ELSE 0

Owing == {"add", "set", "fail", "drop", "free"}
Making == {"set", "fail", "drop"}
Listed(r) == {e \in Elements(traps) : e.reqid = r}
Owers(r) == {t \in Threads : thread[t].pc \in Owing /\ thread[t].old = r}
Makers(r) == {t \in Threads : thread[t].pc \in Making /\ thread[t].new = r}
Users(r) == {c \in Children : child[c].state = "installed" /\ child[c].reqid = r}

\* Two sets that differ in one element at most.
LEMMA Switched ==
  ASSUME NEW A, NEW B, NEW s, IsFiniteSet(A), A \ {s} = B \ {s}
  PROVE  /\ IsFiniteSet(B) /\ Cardinality(A) \in Nat /\ Cardinality(B) \in Nat
         /\ Cardinality(B) + Has(A, s) = Cardinality(A) + Has(B, s)
<1> DEFINE C == A \ {s}
<1>0. C \in SUBSET A /\ s \notin C
  OBVIOUS
<1>1. IsFiniteSet(C) /\ Cardinality(C) \in Nat /\ s \notin C
  BY <1>0, FS_Subset, FS_CardinalityType
<1>2. A = (IF s \in A THEN C \cup {s} ELSE C) /\ B = (IF s \in B THEN C \cup {s} ELSE C)
  OBVIOUS
<1> HIDE DEF C
<1>3. IsFiniteSet(C \cup {s}) /\ Cardinality(C \cup {s}) = Cardinality(C) + 1
  BY <1>1, FS_AddElement
<1>4. ASSUME NEW D, D = (IF s \in D THEN C \cup {s} ELSE C)
      PROVE  Cardinality(D) = Cardinality(C) + Has(D, s) /\ IsFiniteSet(D)
  <2>1. CASE s \in D
    <3>1. D = C \cup {s} /\ Has(D, s) = 1
      BY <1>4, <2>1 DEF Has
    <3> QED
      BY <1>3, <3>1
  <2>2. CASE s \notin D
    <3>1. D = C /\ Has(D, s) = 0
      BY <1>4, <2>2 DEF Has
    <3> QED
      BY <1>1, <3>1
  <2> QED
    BY <2>1, <2>2
<1>5. Cardinality(A) = Cardinality(C) + Has(A, s) /\ Cardinality(B) = Cardinality(C) + Has(B, s)
      /\ IsFiniteSet(B)
  BY <1>2, <1>4
<1>6. Has(A, s) \in {0, 1} /\ Has(B, s) \in {0, 1}
  BY DEF Has
<1> QED
  BY <1>1, <1>5, <1>6

LEMMA HoldersFinite ==
  ASSUME NEW r
  PROVE  /\ IsFiniteSet(Owers(r)) /\ IsFiniteSet(Makers(r)) /\ IsFiniteSet(Users(r))
         /\ Cardinality(Owers(r)) \in Nat /\ Cardinality(Makers(r)) \in Nat
         /\ Cardinality(Users(r)) \in Nat
         /\ IsFiniteSet(Owers(r)') /\ IsFiniteSet(Makers(r)') /\ IsFiniteSet(Users(r)')
         /\ Cardinality(Owers(r)') \in Nat /\ Cardinality(Makers(r)') \in Nat
         /\ Cardinality(Users(r)') \in Nat
<1>1. /\ Owers(r) \in SUBSET Threads /\ Makers(r) \in SUBSET Threads
      /\ Users(r) \in SUBSET Children
      /\ Owers(r)' \in SUBSET Threads /\ Makers(r)' \in SUBSET Threads
      /\ Users(r)' \in SUBSET Children
  BY DEF Owers, Makers, Users
<1> QED
  BY <1>1, TrapAssumption, FS_Subset, FS_CardinalityType

LEMMA HoldersAre ==
  ASSUME IsList(traps), NEW r
  PROVE  /\ Holders(r) = Cardinality(Listed(r)) + Cardinality(Owers(r))
                           + Cardinality(Makers(r)) + Cardinality(Users(r))
         /\ IsFiniteSet(Listed(r)) /\ Cardinality(Listed(r)) \in Nat
         /\ Cardinality(WithReqid(r)) = Cardinality(Listed(r))
<1>1. /\ IsFiniteSet(Listed(r))
      /\ Cardinality(WithReqid(r)) = Cardinality(Listed(r))
  BY Positions DEF WithReqid, Listed
<1>2. Holders(r) = Cardinality(WithReqid(r)) + Cardinality(Owers(r))
                     + Cardinality(Makers(r)) + Cardinality(Users(r))
  BY DEF Holders, Owers, Makers, Users, Owing, Making, Quantify
<1> QED
  BY <1>1, <1>2, FS_CardinalityType

LEMMA HoldersAreNext ==
  ASSUME IsList(traps'), NEW r
  PROVE  /\ Holders(r)' = Cardinality(Listed(r)') + Cardinality(Owers(r)')
                            + Cardinality(Makers(r)') + Cardinality(Users(r)')
         /\ IsFiniteSet(Listed(r)') /\ Cardinality(Listed(r)') \in Nat
         /\ Cardinality(WithReqid(r)') = Cardinality(Listed(r)')
<1>1. /\ IsFiniteSet(Listed(r)')
      /\ Cardinality(WithReqid(r)') = Cardinality(Listed(r)')
  BY Positions DEF WithReqid, Listed
<1>2. Holders(r)' = Cardinality(WithReqid(r)') + Cardinality(Owers(r)')
                      + Cardinality(Makers(r)') + Cardinality(Users(r)')
  BY DEF Holders, Owers, Makers, Users, Owing, Making, Quantify
<1> QED
  BY <1>1, <1>2, FS_CardinalityType

\* What one thread or one CHILD_SA contributes.
Owes(x, r) == IF x.pc \in Owing /\ x.old = r THEN 1 ELSE 0
Makes(x, r) == IF x.pc \in Making /\ x.new = r THEN 1 ELSE 0
Uses(x, r) == IF x.state = "installed" /\ x.reqid = r THEN 1 ELSE 0

LEMMA ThreadCounts ==
  ASSUME NEW t \in Threads, NEW v, thread \in [Threads -> Thread],
         thread' = [thread EXCEPT ![t] = v], NEW r
  PROVE  /\ Cardinality(Owers(r)') + Owes(thread[t], r)
              = Cardinality(Owers(r)) + Owes(v, r)
         /\ Cardinality(Makers(r)') + Makes(thread[t], r)
              = Cardinality(Makers(r)) + Makes(v, r)
<1>1. \A u \in Threads : thread'[u] = IF u = t THEN v ELSE thread[u]
  OBVIOUS
<1>2. /\ Owers(r) \ {t} = Owers(r)' \ {t}
      /\ Has(Owers(r), t) = Owes(thread[t], r) /\ Has(Owers(r)', t) = Owes(v, r)
  BY <1>1 DEF Owers, Has, Owes
<1>3. /\ Makers(r) \ {t} = Makers(r)' \ {t}
      /\ Has(Makers(r), t) = Makes(thread[t], r) /\ Has(Makers(r)', t) = Makes(v, r)
  BY <1>1 DEF Makers, Has, Makes
<1> QED
  BY <1>2, <1>3, HoldersFinite, Switched

LEMMA ChildCounts ==
  ASSUME NEW c \in Children, NEW v, child \in [Children -> Child],
         child' = [child EXCEPT ![c] = v], NEW r
  PROVE  Cardinality(Users(r)') + Uses(child[c], r) = Cardinality(Users(r)) + Uses(v, r)
<1>1. \A d \in Children : child'[d] = IF d = c THEN v ELSE child[d]
  OBVIOUS
<1>2. /\ Users(r) \ {c} = Users(r)' \ {c}
      /\ Has(Users(r), c) = Uses(child[c], r) /\ Has(Users(r)', c) = Uses(v, r)
  BY <1>1 DEF Users, Has, Uses
<1> QED
  BY <1>2, HoldersFinite, Switched

\* release_reqid() takes n references from reqid r.
LEMMA Releases ==
  ASSUME Types, NEW n \in [Reqids -> Nat], NEW r \in Reqids, NEW k \in Nat,
         table[r].refs = k + n[r]
  PROVE  Released(n)[r] \in [ts : Selectors, refs : Nat] /\ Released(n)[r].refs = k
<1>1. table[r] \in [ts : Selectors, refs : Nat]
  BY DEF Types
<1>2. Blank \in [ts : Selectors, refs : Nat] /\ Blank.refs = 0
  BY DEF Blank, Selectors
<1>3. [table[r] EXCEPT !.refs = @ - n[r]] = [ts |-> table[r].ts, refs |-> k]
  BY <1>1
<1>4. Released(n)[r] = IF n[r] = 0 THEN table[r] ELSE IF table[r].refs = n[r] THEN Blank
                       ELSE [table[r] EXCEPT !.refs = @ - n[r]]
  BY DEF Released
<1>5. n[r] \in Nat
  OBVIOUS
<1> QED
  BY <1>1, <1>2, <1>3, <1>4, <1>5

\* alloc_reqid() adds one to reqid q.
LEMMA Allocs ==
  ASSUME Types, NEW q, NEW ts \in Selectors, Alloc(q, ts)
  PROVE  /\ q \in Reqids /\ table' \in [Reqids -> [ts : Selectors, refs : Nat]]
         /\ \A r \in Reqids : table'[r].refs = table[r].refs + Is(q, r)
<1>1. q \in Reqids /\ table[q] \in [ts : Selectors, refs : Nat]
  BY DEF Alloc, Types
<1> DEFINE v == [ts |-> IF table[q].refs > 0 THEN table[q].ts ELSE ts,
                 refs |-> table[q].refs + 1]
<1>4. v \in [ts : Selectors, refs : Nat] /\ v.refs = table[q].refs + 1
  BY <1>1
<1>5. table' = [table EXCEPT ![q] = v]
  BY DEF Alloc
<1> HIDE DEF v
<1>6. ASSUME NEW r \in Reqids PROVE table'[r].refs = table[r].refs + Is(q, r)
  BY <1>1, <1>4, <1>5 DEF Types, Is
<1> QED
  BY <1>1, <1>4, <1>5, <1>6 DEF Types

-----------------------------------------------------------------------------
(* Each step keeps the invariant.                                            *)

LEMMA Bounds ==
  MaxOps \in Nat /\ Reqids \subseteq 0..MaxOps /\ 0 \notin Reqids
  /\ \A r \in 0..MaxOps : r \in Reqids \/ r = 0
  BY TrapAssumption DEF Reqids

\* The four numbers are natural ones, and what one contributes is 0 or 1.
LEMMA NaturalNumbers ==
  ASSUME IsList(traps), IsList(traps'), NEW r
  PROVE  /\ Cardinality(Listed(r)) \in Nat /\ Cardinality(Owers(r)) \in Nat
         /\ Cardinality(Makers(r)) \in Nat /\ Cardinality(Users(r)) \in Nat
         /\ Cardinality(Listed(r)') \in Nat /\ Cardinality(Owers(r)') \in Nat
         /\ Cardinality(Makers(r)') \in Nat /\ Cardinality(Users(r)') \in Nat
         /\ \A x, y : /\ Is(x, y) \in {0, 1} /\ Has(x, y) \in {0, 1}
                      /\ Owes(x, y) \in {0, 1} /\ Makes(x, y) \in {0, 1}
                      /\ Uses(x, y) \in {0, 1}
  BY HoldersAre, HoldersAreNext, HoldersFinite DEF Is, Has, Owes, Makes, Uses

\* Thread t goes on and becomes v.
LEMMA PlacedGoes ==
  ASSUME Placed, NEW t \in Threads, NEW v \in Thread, thread \in [Threads -> Thread],
         thread' = [thread EXCEPT ![t] = v], IsList(traps'),
         \A u \in Threads \ {t} : thread[u].pc \in Placing =>
           [name |-> thread[u].name, reqid |-> 0] \in Elements(traps'),
         v.pc \in Placing =>
           /\ [name |-> v.name, reqid |-> 0] \in Elements(traps')
           /\ \A u \in Threads \ {t} : thread[u].pc \in Placing => thread[u].name # v.name
  PROVE  Placed' /\ thread' \in [Threads -> Thread]
<1>1. \A u \in Threads : thread'[u] = IF u = t THEN v ELSE thread[u]
  OBVIOUS
<1>2. ASSUME NEW u \in Threads, thread'[u].pc \in Placing
      PROVE  [name |-> thread'[u].name, reqid |-> 0] \in Elements(traps')
  BY <1>1, <1>2
<1>3. ASSUME NEW u \in Threads, NEW w \in Threads, thread'[u].pc \in Placing,
             thread'[w].pc \in Placing, thread'[u].name = thread'[w].name
      PROVE  u = w
  BY <1>1, <1>3 DEF Placed
<1> QED
  BY <1>2, <1>3 DEF Placed

LEMMA RenewedGoes ==
  ASSUME Renewed, NEW t \in Threads, NEW v, thread \in [Threads -> Thread],
         thread' = [thread EXCEPT ![t] = v],
         v.pc = "add" /\ v.old # 0 => v.reqid = v.old,
         v.pc = "set" /\ v.old # 0 => v.new = v.old
  PROVE  Renewed'
<1>1. \A u \in Threads : thread'[u] = IF u = t THEN v ELSE thread[u]
  OBVIOUS
<1> QED
  BY <1>1 DEF Renewed

\* A thread that is about to install a trap is in the list with reqid 0.
LEMMA Elsewhere ==
  ASSUME Types, Placed, NEW n \in Names, NEW u \in Threads,
         thread[u].pc \in Placing, Named(n) # {} => FindReqid(n) # 0
  PROVE  thread[u].name # n
<1> SUFFICES ASSUME thread[u].name = n PROVE FALSE
  OBVIOUS
<1>1. [name |-> n, reqid |-> 0] \in Elements(traps) /\ IsList(traps)
  BY DEF Placed
<1>2. Named(n) # {}
  BY <1>1, Found
<1>3. [name |-> n, reqid |-> FindReqid(n)] \in Elements(traps)
  BY <1>1, <1>2, Found
<1>4. [name |-> n, reqid |-> FindReqid(n)] = [name |-> n, reqid |-> 0]
  BY <1>1, <1>3, Entry
<1> QED
  BY <1>2, <1>4

\* What a step of thread t, which becomes v, owes for reqid r.
LEMMA ThreadBalance ==
  ASSUME Inv, NEW t \in Threads, NEW v, thread' = [thread EXCEPT ![t] = v],
         IsList(traps'), NEW r \in Reqids, table'[r].refs \in Nat, Users(r)' = Users(r),
         table'[r].refs + Cardinality(Listed(r)) + Owes(thread[t], r) + Makes(thread[t], r)
           = table[r].refs + Cardinality(Listed(r)') + Owes(v, r) + Makes(v, r)
  PROVE  table'[r].refs = Holders(r)'
<1>1. IsList(traps) /\ table[r].refs = Holders(r) /\ thread \in [Threads -> Thread]
  BY DEF Inv, Placed, ReqidsCounted, Types
<1>2. Holders(r) = Cardinality(Listed(r)) + Cardinality(Owers(r))
                     + Cardinality(Makers(r)) + Cardinality(Users(r))
  BY <1>1, HoldersAre
<1>3. Holders(r)' = Cardinality(Listed(r)') + Cardinality(Owers(r)')
                     + Cardinality(Makers(r)') + Cardinality(Users(r)')
  BY HoldersAreNext
<1>4. /\ Cardinality(Owers(r)') + Owes(thread[t], r) = Cardinality(Owers(r)) + Owes(v, r)
      /\ Cardinality(Makers(r)') + Makes(thread[t], r)
           = Cardinality(Makers(r)) + Makes(v, r)
  BY <1>1, ThreadCounts, ZenonT(60)
<1> QED
  BY <1>1, <1>2, <1>3, <1>4, NaturalNumbers

LEMMA BeginStep ==
  ASSUME Inv, NEW t \in Threads, NEW n \in Names, NEW reqid \in 0..MaxOps,
         InstallBegin(t, n, reqid)
  PROVE  Inv'
<1> USE DEF Inv
<1>1. PICK old : /\ old = FindReqid(n)
                 /\ thread' = [thread EXCEPT ![t] =
                     [pc |-> "add", name |-> n, new |-> 0, old |-> old,
                      reqid |-> IF old = 0 THEN reqid ELSE old]]
  BY DEF InstallBegin
<1>2. PICK v : v = [pc |-> "add", name |-> n, new |-> 0, old |-> old,
                    reqid |-> IF old = 0 THEN reqid ELSE old]
  OBVIOUS
<1>3. /\ thread[t] = Idle /\ UNCHANGED <<table, child>>
      /\ traps' = <<[name |-> n, reqid |-> 0]>> \o WithoutFirst(Named(n))
      /\ Named(n) # {} => old # 0
  BY <1>1 DEF InstallBegin
<1>4. IsList(traps) /\ old \in 0..MaxOps
  BY <1>1, Found DEF Placed
<1>5. v \in Thread
  BY <1>2, <1>4, Bounds DEF Thread, Placing
<1>6. /\ IsList(traps')
      /\ Elements(traps') = {e \in Elements(traps) : e.name # n}
                              \cup {[name |-> n, reqid |-> 0]}
  <2>1. [name |-> n, reqid |-> 0] \in Trap
    BY Bounds DEF Trap
  <2> QED
    BY <1>3, <1>4, <2>1, NameTakenOut, Prepend
<1>7. \A u \in Threads : thread[u].pc \in Placing => thread[u].name # n
  BY <1>1, <1>3, Elsewhere
<1>8. Types
  OBVIOUS
<1>9. Placed' /\ thread' \in [Threads -> Thread]
  <2>1. \A u \in Threads \ {t} : thread[u].pc \in Placing =>
          [name |-> thread[u].name, reqid |-> 0] \in Elements(traps')
    BY <1>6, <1>7 DEF Placed
  <2>2. v.name = n /\ [name |-> v.name, reqid |-> 0] \in Elements(traps')
    BY <1>2, <1>6
  <2> QED
    BY <1>1, <1>2, <1>5, <1>6, <1>7, <2>1, <2>2, PlacedGoes DEF Types
<1>10. Renewed'
  <2>1. v.pc = "add" /\ (v.old # 0 => v.reqid = v.old)
    BY <1>2
  <2> QED
    BY <1>1, <1>2, <2>1, RenewedGoes DEF Types
<1>11. ASSUME NEW r \in Reqids PROVE table'[r].refs = Holders(r)'
  <2>0. r # 0
    BY Bounds
  <2>1. Cardinality(Listed(r)') + Is(old, r) = Cardinality(Listed(r))
    <3> DEFINE s == [name |-> n, reqid |-> old]
    <3>1. Listed(r)' = {e \in Listed(r) : e.name # n}
      BY <1>6, <2>0 DEF Listed
    <3>2. \A e \in Elements(traps) : e.name = n => e = s
      BY <1>1, <1>4, Found, Entry
    <3>3. s \in Elements(traps) \/ old = 0
      BY <1>1, <1>4, Found
    <3>4. Listed(r)' = Listed(r) \ {s}
      BY <3>1, <3>2 DEF Listed
    <3>5. s \in Listed(r) <=> old = r
      BY <2>0, <3>3 DEF Listed
    <3>6. Has(Listed(r), s) = Is(old, r) /\ Has(Listed(r)', s) = 0
      BY <3>4, <3>5 DEF Has, Is
    <3> HIDE DEF s
    <3>7. Listed(r) \ {s} = Listed(r)' \ {s} /\ IsFiniteSet(Listed(r))
      BY <1>4, <3>4, HoldersAre
    <3> QED
      BY <1>4, <1>6, <3>6, <3>7, Switched, NaturalNumbers
  <2>2. /\ Owes(thread[t], r) = 0 /\ Owes(v, r) = Is(old, r)
        /\ Makes(thread[t], r) = 0 /\ Makes(v, r) = 0
    BY <1>2, <1>3 DEF Owes, Makes, Owing, Making, Is, Idle
  <2>3. Users(r)' = Users(r) /\ table'[r].refs = table[r].refs /\ table[r].refs \in Nat
    BY <1>3, <1>8 DEF Users, Types
  <2>4. thread' = [thread EXCEPT ![t] = v]
    BY <1>1, <1>2
  <2>5. table'[r].refs + Cardinality(Listed(r)) + Owes(thread[t], r) + Makes(thread[t], r)
           = table[r].refs + Cardinality(Listed(r)') + Owes(v, r) + Makes(v, r)
    BY <1>4, <1>6, <2>1, <2>2, <2>3, NaturalNumbers
  <2> QED
    BY <1>6, <2>3, <2>4, <2>5, ThreadBalance
<1>12. Types'
  BY <1>3, <1>8, <1>9 DEF Types
<1>13. ReqidsCounted'
  BY <1>11 DEF ReqidsCounted
<1> QED
  BY <1>9, <1>10, <1>12, <1>13

LEMMA AddStep ==
  ASSUME Inv, NEW t \in Threads, NEW ts \in Selectors, InstallAdd(t, ts)
  PROVE  Inv'
<1> USE DEF Inv
<1>1. PICK q, pc : /\ q = ReqidFor(thread[t].reqid, ts) /\ Alloc(q, ts)
                   /\ thread[t].pc = "add" /\ pc \in {"set", "fail"}
                   /\ thread' = [thread EXCEPT ![t].pc = pc, ![t].new = q]
                   /\ UNCHANGED <<traps, child>>
  BY DEF InstallAdd, AddPolicies
<1>2. PICK x : x = thread[t]
  OBVIOUS
<1>3. PICK v : v = [x EXCEPT !.pc = pc, !.new = q]
  OBVIOUS
<1>4. /\ q \in Reqids /\ table' \in [Reqids -> [ts : Selectors, refs : Nat]]
      /\ \A r \in Reqids : table'[r].refs = table[r].refs + Is(q, r)
  BY <1>1, Allocs
<1>5. x \in [pc : Placing \cup {"drop"}, name : Names, new : 0..MaxOps, old : 0..MaxOps,
             reqid : 0..MaxOps]
  BY <1>1, <1>2 DEF Types, Thread
<1>6. v = [pc |-> pc, name |-> x.name, new |-> q, old |-> x.old, reqid |-> x.reqid]
  BY <1>3, <1>5
<1>7. v \in Thread
  BY <1>1, <1>4, <1>5, <1>6, Bounds DEF Thread, Placing
<1>8. thread' = [thread EXCEPT ![t] = v] /\ thread \in [Threads -> Thread]
  BY <1>1, <1>2, <1>3 DEF Types
<1>9. Placed' /\ thread' \in [Threads -> Thread]
  <2>1. x.pc \in Placing /\ v.name = x.name
    BY <1>1, <1>2, <1>6 DEF Placing
  <2>2. IsList(traps') /\ Elements(traps') = Elements(traps)
    BY <1>1 DEF Placed
  <2> QED
    BY <1>2, <1>7, <1>8, <2>1, <2>2, PlacedGoes DEF Placed
<1>10. Renewed'
  <2>1. ASSUME x.old # 0 PROVE q = x.old
    <3>1. x.old \in Reqids /\ x.reqid = x.old
      BY <1>1, <1>2, <1>5, <2>1, Bounds DEF Renewed
    <3>2. t \in Owers(x.old)
      BY <1>1, <1>2 DEF Owers, Owing
    <3>3. Cardinality(Owers(x.old)) # 0
      BY <3>2, HoldersFinite, FS_EmptySet
    <3>4. IsList(traps) /\ table[x.old].refs = Holders(x.old)
      BY <3>1 DEF Placed, ReqidsCounted
    <3>5. Holders(x.old) > 0
      BY <3>3, <3>4, HoldersAre, HoldersFinite
    <3> QED
      BY <1>1, <1>2, <3>1, <3>4, <3>5 DEF ReqidFor, Allocated
  <2>2. v.pc # "add" /\ v.old = x.old /\ v.new = q
    BY <1>1, <1>6
  <2> QED
    BY <1>8, <2>1, <2>2, RenewedGoes
<1>11. ASSUME NEW r \in Reqids PROVE table'[r].refs = Holders(r)'
  <2>1. /\ Owes(x, r) = Owes(v, r) /\ Makes(x, r) = 0 /\ Makes(v, r) = Is(q, r)
    BY <1>1, <1>2, <1>6 DEF Owes, Makes, Owing, Making, Is
  <2>2. /\ Users(r)' = Users(r) /\ Listed(r)' = Listed(r) /\ table[r].refs \in Nat
        /\ table'[r].refs \in Nat
    BY <1>1, <1>4 DEF Users, Listed, Types
  <2>3. IsList(traps) /\ IsList(traps')
    BY <1>1 DEF Placed
  <2>4. table'[r].refs + Cardinality(Listed(r)) + Owes(x, r) + Makes(x, r)
           = table[r].refs + Cardinality(Listed(r)') + Owes(v, r) + Makes(v, r)
    BY <1>4, <2>1, <2>2, <2>3, NaturalNumbers
  <2> QED
    BY <1>2, <1>8, <2>2, <2>3, <2>4, ThreadBalance
<1>12. Types'
  BY <1>1, <1>4, <1>9 DEF Types
<1>13. ReqidsCounted'
  BY <1>11 DEF ReqidsCounted
<1> QED
  BY <1>9, <1>10, <1>12, <1>13

LEMMA SetStep ==
  ASSUME Inv, NEW t \in Threads, InstallSet(t)
  PROVE  Inv'
<1> USE DEF Inv
<1>1. PICK x : /\ x = thread[t] /\ x.pc = "set" /\ UNCHANGED <<table, child>>
               /\ traps' = [i \in 1..Len(traps) |->
                   IF traps[i].name = x.name
                   THEN [traps[i] EXCEPT !.reqid = x.new] ELSE traps[i]]
               /\ thread' = [thread EXCEPT ![t].pc = "drop", ![t].new = 0]
  BY DEF InstallSet
<1>2. PICK v : v = [x EXCEPT !.pc = "drop", !.new = 0]
  OBVIOUS
<1>3. x \in [pc : Placing \cup {"drop"}, name : Names, new : 0..MaxOps, old : 0..MaxOps,
             reqid : 0..MaxOps]
  BY <1>1 DEF Types, Thread
<1>4. v = [pc |-> "drop", name |-> x.name, new |-> 0, old |-> x.old, reqid |-> x.reqid]
  BY <1>2, <1>3
<1>5. v \in Thread
  BY <1>3, <1>4, Bounds DEF Thread, Placing
<1>6. thread' = [thread EXCEPT ![t] = v] /\ thread \in [Threads -> Thread]
  BY <1>1, <1>2 DEF Types
<1>7. IsList(traps) /\ [name |-> x.name, reqid |-> 0] \in Elements(traps)
  BY <1>1 DEF Placed, Placing
<1>8. /\ IsList(traps')
      /\ Elements(traps') = {e \in Elements(traps) : e.name # x.name}
                              \cup {[name |-> x.name, reqid |-> x.new]}
  <2>1. x.name \in Names /\ x.new \in 0..MaxOps /\ \E e \in Elements(traps) : e.name = x.name
    BY <1>3, <1>7
  <2>2. PICK n, m : n = x.name /\ m = x.new
    OBVIOUS
  <2>3. traps' = [i \in 1..Len(traps) |->
                   IF traps[i].name = n THEN [traps[i] EXCEPT !.reqid = m] ELSE traps[i]]
    BY <1>1, <2>2
  <2>4. /\ IsList(traps')
        /\ Elements(traps') = {e \in Elements(traps) : e.name # n}
                                \cup {[name |-> n, reqid |-> m]}
    BY <1>7, <2>1, <2>2, <2>3, Changed, SMTT(30)
  <2> QED
    BY <2>2, <2>4
<1>9. Placed' /\ thread' \in [Threads -> Thread]
  <2>1. \A u \in Threads \ {t} : thread[u].pc \in Placing => thread[u].name # x.name
    BY <1>1 DEF Placed, Placing
  <2>2. \A u \in Threads \ {t} : thread[u].pc \in Placing =>
          [name |-> thread[u].name, reqid |-> 0] \in Elements(traps')
    BY <1>8, <2>1 DEF Placed
  <2>3. v.pc \notin Placing
    BY <1>4 DEF Placing
  <2> QED
    BY <1>5, <1>6, <1>8, <2>2, <2>3, PlacedGoes
<1>10. Renewed'
  BY <1>4, <1>6, RenewedGoes
<1>11. ASSUME NEW r \in Reqids PROVE table'[r].refs = Holders(r)'
  <2>0. r # 0
    BY Bounds
  <2>1. Cardinality(Listed(r)') = Cardinality(Listed(r)) + Is(x.new, r)
    <3> DEFINE s == [name |-> x.name, reqid |-> x.new]
    <3>1. Listed(r)' = {e \in Listed(r) : e.name # x.name}
                         \cup (IF x.new = r THEN {s} ELSE {})
      BY <1>8 DEF Listed
    <3>2. \A e \in Listed(r) : e.name # x.name
      BY <1>7, <2>0, Entry DEF Listed
    <3>3. s \notin Listed(r) /\ (s \in Listed(r)' <=> x.new = r)
      BY <3>1, <3>2
    <3>4. Has(Listed(r), s) = 0 /\ Has(Listed(r)', s) = Is(x.new, r)
      BY <3>3 DEF Has, Is
    <3>5. Listed(r) \ {s} = Listed(r)' \ {s} /\ IsFiniteSet(Listed(r))
      BY <1>7, <3>1, <3>2, HoldersAre
    <3> HIDE DEF s
    <3> QED
      BY <1>7, <1>8, <3>4, <3>5, Switched, NaturalNumbers
  <2>2. /\ Owes(x, r) = Owes(v, r) /\ Makes(x, r) = Is(x.new, r) /\ Makes(v, r) = 0
    BY <1>1, <1>4, <2>0 DEF Owes, Makes, Owing, Making, Is
  <2>3. Users(r)' = Users(r) /\ table'[r].refs = table[r].refs /\ table[r].refs \in Nat
    BY <1>1 DEF Users, Types
  <2>4. table'[r].refs + Cardinality(Listed(r)) + Owes(x, r) + Makes(x, r)
           = table[r].refs + Cardinality(Listed(r)') + Owes(v, r) + Makes(v, r)
    BY <1>7, <1>8, <2>1, <2>2, <2>3, NaturalNumbers
  <2>5. thread[t] = x /\ table'[r].refs \in Nat
    BY <1>1, <2>3
  <2> QED
    BY <1>6, <1>8, <2>3, <2>4, <2>5, ThreadBalance
<1>12. Types'
  BY <1>1, <1>9 DEF Types
<1>13. ReqidsCounted'
  BY <1>11 DEF ReqidsCounted
<1> QED
  BY <1>9, <1>10, <1>12, <1>13

LEMMA FailStep ==
  ASSUME Inv, NEW t \in Threads, InstallFail(t)
  PROVE  Inv'
<1> USE DEF Inv
<1>1. PICK x : /\ x = thread[t] /\ x.pc = "fail" /\ UNCHANGED <<table, child>>
               /\ traps' = WithoutFirst(Named(x.name))
               /\ thread' = [thread EXCEPT ![t].pc = "drop"]
  BY DEF InstallFail
<1>2. PICK v : v = [x EXCEPT !.pc = "drop"]
  OBVIOUS
<1>3. x \in [pc : Placing \cup {"drop"}, name : Names, new : 0..MaxOps, old : 0..MaxOps,
             reqid : 0..MaxOps]
  BY <1>1 DEF Types, Thread
<1>4. v = [pc |-> "drop", name |-> x.name, new |-> x.new, old |-> x.old,
           reqid |-> x.reqid]
  BY <1>2, <1>3
<1>5. v \in Thread
  BY <1>3, <1>4 DEF Thread, Placing
<1>6. thread' = [thread EXCEPT ![t] = v] /\ thread \in [Threads -> Thread]
  BY <1>1, <1>2 DEF Types
<1>7. IsList(traps) /\ [name |-> x.name, reqid |-> 0] \in Elements(traps)
  BY <1>1 DEF Placed, Placing
<1>8. /\ IsList(traps')
      /\ Elements(traps') = {e \in Elements(traps) : e.name # x.name}
  BY <1>1, <1>7, NameTakenOut
<1>9. Placed' /\ thread' \in [Threads -> Thread]
  <2>1. \A u \in Threads \ {t} : thread[u].pc \in Placing => thread[u].name # x.name
    BY <1>1 DEF Placed, Placing
  <2>2. \A u \in Threads \ {t} : thread[u].pc \in Placing =>
          [name |-> thread[u].name, reqid |-> 0] \in Elements(traps')
    BY <1>8, <2>1 DEF Placed
  <2>3. v.pc \notin Placing
    BY <1>4 DEF Placing
  <2> QED
    BY <1>5, <1>6, <1>8, <2>2, <2>3, PlacedGoes
<1>10. Renewed'
  BY <1>4, <1>6, RenewedGoes
<1>11. ASSUME NEW r \in Reqids PROVE table'[r].refs = Holders(r)'
  <2>0. r # 0
    BY Bounds
  <2>1. Listed(r)' = Listed(r)
    <3>1. \A e \in Listed(r) : e.name # x.name
      BY <1>7, <2>0, Entry DEF Listed
    <3> QED
      BY <1>8, <3>1 DEF Listed
  <2>2. /\ Owes(x, r) = Owes(v, r) /\ Makes(x, r) = Makes(v, r)
    BY <1>1, <1>4 DEF Owes, Makes, Owing, Making
  <2>3. Users(r)' = Users(r) /\ table'[r].refs = table[r].refs /\ table[r].refs \in Nat
    BY <1>1 DEF Users, Types
  <2>4. table'[r].refs + Cardinality(Listed(r)) + Owes(x, r) + Makes(x, r)
           = table[r].refs + Cardinality(Listed(r)') + Owes(v, r) + Makes(v, r)
    BY <2>1, <2>2, <2>3
  <2>5. thread[t] = x /\ table'[r].refs \in Nat
    BY <1>1, <2>3
  <2> QED
    BY <1>6, <1>8, <2>3, <2>4, <2>5, ThreadBalance
<1>12. Types'
  BY <1>1, <1>9 DEF Types
<1>13. ReqidsCounted'
  BY <1>11 DEF ReqidsCounted
<1> QED
  BY <1>9, <1>10, <1>12, <1>13

\* A thread releases what it holds at most.
LEMMA AtLeast ==
  ASSUME Inv, NEW t \in Threads, NEW r \in Reqids
  PROVE  Owes(thread[t], r) + Makes(thread[t], r) =< table[r].refs
<1>1. IsList(traps) /\ table[r].refs = Holders(r)
  BY DEF Inv, Placed, ReqidsCounted
<1>2. Owes(thread[t], r) = 0 \/ (Owes(thread[t], r) = 1 /\ Cardinality(Owers(r)) # 0)
  <2>1. Owes(thread[t], r) = 0 \/ (Owes(thread[t], r) = 1 /\ t \in Owers(r))
    BY DEF Owes, Owers
  <2> QED
    BY <2>1, HoldersFinite, FS_EmptySet
<1>3. Makes(thread[t], r) = 0 \/ (Makes(thread[t], r) = 1 /\ Cardinality(Makers(r)) # 0)
  <2>1. Makes(thread[t], r) = 0 \/ (Makes(thread[t], r) = 1 /\ t \in Makers(r))
    BY DEF Makes, Makers
  <2> QED
    BY <2>1, HoldersFinite, FS_EmptySet
<1>4. Holders(r) = Cardinality(Listed(r)) + Cardinality(Owers(r))
                     + Cardinality(Makers(r)) + Cardinality(Users(r))
      /\ Cardinality(Listed(r)) \in Nat
  BY <1>1, HoldersAre
<1> QED
  BY <1>1, <1>2, <1>3, <1>4, HoldersFinite

LEMMA ReleasedTable ==
  ASSUME Types, NEW n \in [Reqids -> Nat], \A r \in Reqids : n[r] =< table[r].refs
  PROVE  /\ Released(n) \in [Reqids -> [ts : Selectors, refs : Nat]]
         /\ \A r \in Reqids : Released(n)[r].refs + n[r] = table[r].refs
<1>1. ASSUME NEW r \in Reqids
      PROVE  /\ Released(n)[r] \in [ts : Selectors, refs : Nat]
             /\ Released(n)[r].refs + n[r] = table[r].refs
  <2>1. table[r].refs \in Nat /\ n[r] \in Nat
    BY DEF Types
  <2>2. PICK k \in Nat : table[r].refs = k + n[r]
    <3>1. table[r].refs - n[r] \in Nat /\ table[r].refs = (table[r].refs - n[r]) + n[r]
      BY <2>1
    <3> QED
      BY <3>1
  <2>3. Released(n)[r] \in [ts : Selectors, refs : Nat] /\ Released(n)[r].refs = k
    BY <2>2, Releases
  <2> QED
    BY <2>1, <2>2, <2>3
<1>2. Released(n) = [r \in Reqids |-> Released(n)[r]]
  BY DEF Released
<1> QED
  BY <1>1, <1>2

\* Thread t releases n and becomes v, which holds the rest of what it held.
LEMMA ReleaseStep ==
  ASSUME Inv, NEW t \in Threads, NEW n \in [Reqids -> Nat], NEW v \in Thread,
         \A r \in Reqids :
           Owes(thread[t], r) + Makes(thread[t], r) = n[r] + (Owes(v, r) + Makes(v, r)),
         table' = Released(n), thread' = [thread EXCEPT ![t] = v],
         UNCHANGED <<traps, child>>, v.pc \in {"idle", "end", "drop"}
  PROVE  Inv'
<1>1. Types /\ thread \in [Threads -> Thread] /\ IsList(traps)
  BY DEF Inv, Types, Placed
<1>2. /\ table' \in [Reqids -> [ts : Selectors, refs : Nat]]
      /\ \A r \in Reqids : table'[r].refs + n[r] = table[r].refs
  <2>1. \A r \in Reqids : n[r] =< table[r].refs
    <3> SUFFICES ASSUME NEW r \in Reqids PROVE n[r] =< table[r].refs
      OBVIOUS
    <3>1. Owes(v, r) \in Nat /\ Makes(v, r) \in Nat
      BY DEF Owes, Makes
    <3>2. n[r] \in Nat /\ table[r].refs \in Nat
      BY <1>1 DEF Types
    <3>3. Owes(thread[t], r) + Makes(thread[t], r) =< table[r].refs
      BY AtLeast
    <3>4. Owes(thread[t], r) + Makes(thread[t], r) = n[r] + (Owes(v, r) + Makes(v, r))
      OBVIOUS
    <3> QED
      BY <3>1, <3>2, <3>3, <3>4
  <2> QED
    BY <1>1, <2>1, ReleasedTable
<1>3. v.pc \notin Placing /\ v.pc # "add" /\ v.pc # "set"
  BY DEF Placing
<1>4. IsList(traps') /\ Elements(traps') = Elements(traps)
  BY <1>1
<1>5. Placed' /\ thread' \in [Threads -> Thread]
  <2>1. \A u \in Threads \ {t} : thread[u].pc \in Placing =>
          [name |-> thread[u].name, reqid |-> 0] \in Elements(traps')
    BY <1>4 DEF Inv, Placed
  <2>2. Placed
    BY DEF Inv
  <2> QED
    BY <1>1, <1>3, <1>4, <2>1, <2>2, PlacedGoes
<1>6. Renewed'
  BY <1>1, <1>3, RenewedGoes DEF Inv
<1>7. ASSUME NEW r \in Reqids PROVE table'[r].refs = Holders(r)'
  <2>1. /\ Owes(v, r) \in Nat /\ Makes(v, r) \in Nat /\ n[r] \in Nat
        /\ Owes(thread[t], r) \in Nat /\ Makes(thread[t], r) \in Nat
    BY DEF Owes, Makes
  <2>2. Users(r)' = Users(r) /\ Listed(r)' = Listed(r)
    BY DEF Users, Listed
  <2>3. table'[r].refs \in Nat /\ table[r].refs \in Nat
    BY <1>1, <1>2 DEF Types
  <2>4. /\ table'[r].refs + n[r] = table[r].refs
        /\ Owes(thread[t], r) + Makes(thread[t], r) = n[r] + (Owes(v, r) + Makes(v, r))
    BY <1>2
  <2>5. Cardinality(Listed(r)) \in Nat
    BY <1>1, HoldersAre
  <2>6. table'[r].refs + Cardinality(Listed(r)) + Owes(thread[t], r) + Makes(thread[t], r)
           = table[r].refs + Cardinality(Listed(r)') + Owes(v, r) + Makes(v, r)
    BY <2>1, <2>2, <2>3, <2>4, <2>5
  <2> QED
    BY <1>4, <2>2, <2>3, <2>6, ThreadBalance
<1>8. Types'
  BY <1>1, <1>2, <1>5 DEF Types
<1>9. ReqidsCounted'
  BY <1>7 DEF ReqidsCounted
<1> QED
  BY <1>5, <1>6, <1>8, <1>9 DEF Inv

LEMMA OneIs ==
  ASSUME NEW q, NEW r \in Reqids
  PROVE  One(q) \in [Reqids -> Nat] /\ One(q)[r] = IF r = q THEN 1 ELSE 0
  BY DEF One

\* A thread in "drop" is a record of install().
LEMMA DropRecord ==
  ASSUME Inv, NEW t \in Threads, thread[t].pc = "drop"
  PROVE  thread[t] \in [pc : Placing \cup {"drop"}, name : Names, new : 0..MaxOps,
                        old : 0..MaxOps, reqid : 0..MaxOps]
<1>1. thread[t] \in Thread
  BY DEF Inv, Types
<1> QED
  BY <1>1 DEF Thread, Placing

LEMMA DestroyFailedStep ==
  ASSUME Inv, NEW t \in Threads, DestroyFailed(t)
  PROVE  Inv'
<1>1. PICK x, n, v :
        /\ x = thread[t] /\ n = One(x.new) /\ v = [x EXCEPT !.new = 0] /\ x.pc = "drop"
        /\ table' = Released(n) /\ thread' = [thread EXCEPT ![t] = v]
        /\ UNCHANGED <<traps, child>>
  BY DEF DestroyFailed, Failed
<1>2. x \in [pc : Placing \cup {"drop"}, name : Names, new : 0..MaxOps, old : 0..MaxOps,
             reqid : 0..MaxOps]
  BY <1>1, DropRecord
<1>3. v \in Thread /\ v.pc = "drop" /\ v.old = x.old /\ v.new = 0
  <2>1. 0 \in 0..MaxOps
    BY Bounds
  <2>2. v.pc = "drop" /\ v.old = x.old /\ v.new = 0
    BY <1>1, <1>2
  <2>3. v \in [pc : Placing \cup {"drop"}, name : Names, new : 0..MaxOps, old : 0..MaxOps,
               reqid : 0..MaxOps]
    BY <1>1, <1>2, <2>1
  <2> QED
    BY <2>2, <2>3 DEF Thread
<1>4. ASSUME NEW r \in Reqids
      PROVE  Owes(x, r) + Makes(x, r) = n[r] + (Owes(v, r) + Makes(v, r))
  <2>1. r # 0
    BY Bounds DEF Reqids
  <2>2. n[r] = IF r = x.new THEN 1 ELSE 0
    BY <1>1, OneIs
  <2> QED
    BY <1>1, <1>3, <2>1, <2>2 DEF Owes, Makes, Owing, Making
<1>5. n \in [Reqids -> Nat]
  BY <1>1 DEF One
<1>6. /\ v \in Thread /\ v.pc \in {"idle", "end", "drop"} /\ x = thread[t]
      /\ table' = Released(n) /\ thread' = [thread EXCEPT ![t] = v]
      /\ UNCHANGED <<traps, child>>
  BY <1>1, <1>3
<1> QED
  BY <1>4, <1>5, <1>6, ReleaseStep

LEMMA DestroyFoundStep ==
  ASSUME Inv, NEW t \in Threads, DestroyFound(t)
  PROVE  Inv'
<1>1. PICK x, n, v :
        /\ x = thread[t] /\ n = One(x.old) /\ v = [pc |-> "end"]
        /\ x.pc = "drop" /\ x.new = 0
        /\ table' = Released(n) /\ thread' = [thread EXCEPT ![t] = v]
        /\ UNCHANGED <<traps, child>>
  BY DEF DestroyFound, Replaced
<1>2. ASSUME NEW r \in Reqids
      PROVE  Owes(x, r) + Makes(x, r) = n[r] + (Owes(v, r) + Makes(v, r))
  <2>1. r # 0
    BY Bounds DEF Reqids
  <2>2. n[r] = IF r = x.old THEN 1 ELSE 0
    BY <1>1, OneIs
  <2> QED
    BY <1>1, <2>1, <2>2 DEF Owes, Makes, Owing, Making
<1>3. n \in [Reqids -> Nat]
  BY <1>1 DEF One
<1>4. v \in Thread /\ v.pc \in {"idle", "end", "drop"}
  BY <1>1 DEF Thread
<1> QED
  BY <1>1, <1>2, <1>3, <1>4, ReleaseStep

LEMMA FreeStep ==
  ASSUME Inv, NEW t \in Threads, UninstallEnd(t)
  PROVE  Inv'
<1>1. PICK x, n, v :
        /\ x = thread[t] /\ n = One(x.old)
        /\ v = Idle /\ x.pc = "free"
        /\ table' = Released(n) /\ thread' = [thread EXCEPT ![t] = v]
        /\ UNCHANGED <<traps, child>>
  BY DEF UninstallEnd
<1>2. ASSUME NEW r \in Reqids
      PROVE  Owes(x, r) + Makes(x, r) = n[r] + (Owes(v, r) + Makes(v, r))
  BY <1>1, OneIs DEF Idle, Owes, Makes, Owing, Making
<1>3. n \in [Reqids -> Nat]
  BY <1>1 DEF One
<1>4. v \in Thread /\ v.pc \in {"idle", "end", "drop"}
  BY <1>1 DEF Thread, Idle
<1> QED
  BY <1>1, <1>2, <1>3, <1>4, ReleaseStep

\* A step of a thread that holds nothing, before and after.
LEMMA RestStep ==
  ASSUME Inv, NEW t \in Threads, NEW v \in Thread, thread' = [thread EXCEPT ![t] = v],
         UNCHANGED <<traps, table>>, child' \in [Children -> Child],
         \A r \in Reqids : Users(r)' = Users(r),
         thread[t].pc \in {"idle", "end", "checkout"}, v.pc \in {"idle", "end", "checkout"}
  PROVE  Inv'
<1>1. Types /\ thread \in [Threads -> Thread] /\ IsList(traps) /\ Placed
  BY DEF Inv, Types, Placed
<1>2. v.pc \notin Placing /\ v.pc # "add" /\ v.pc # "set"
  BY DEF Placing
<1>3. IsList(traps') /\ Elements(traps') = Elements(traps)
  BY <1>1
<1>4. Placed' /\ thread' \in [Threads -> Thread]
  <2>1. \A u \in Threads \ {t} : thread[u].pc \in Placing =>
          [name |-> thread[u].name, reqid |-> 0] \in Elements(traps')
    BY <1>3 DEF Inv, Placed
  <2> QED
    BY <1>1, <1>2, <1>3, <2>1, PlacedGoes
<1>5. Renewed'
  BY <1>1, <1>2, RenewedGoes DEF Inv
<1>6. ASSUME NEW r \in Reqids PROVE table'[r].refs = Holders(r)'
  <2>1. /\ Owes(v, r) = 0 /\ Makes(v, r) = 0
        /\ Owes(thread[t], r) = 0 /\ Makes(thread[t], r) = 0
    BY DEF Owes, Makes, Owing, Making
  <2>2. Users(r)' = Users(r) /\ Listed(r)' = Listed(r)
    BY DEF Listed
  <2>3. table'[r].refs \in Nat /\ table'[r].refs = table[r].refs
    BY <1>1 DEF Types
  <2>4. table'[r].refs + Cardinality(Listed(r)) + Owes(thread[t], r) + Makes(thread[t], r)
           = table[r].refs + Cardinality(Listed(r)') + Owes(v, r) + Makes(v, r)
    BY <2>1, <2>2, <2>3
  <2> QED
    BY <1>3, <2>2, <2>3, <2>4, ThreadBalance
<1>7. Types'
  BY <1>1, <1>4 DEF Types
<1>8. ReqidsCounted'
  BY <1>6 DEF ReqidsCounted
<1> QED
  BY <1>4, <1>5, <1>7, <1>8 DEF Inv

LEMMA TypedChild ==
  ASSUME Inv, child' = child
  PROVE  child' \in [Children -> Child] /\ \A r \in Reqids : Users(r)' = Users(r)
  BY DEF Inv, Types, Users

LEMMA EndStep ==
  ASSUME Inv, NEW t \in Threads, InstallEnd(t)
  PROVE  Inv'
<1>1. PICK v : /\ v = Idle /\ thread' = [thread EXCEPT ![t] = v] /\ thread[t].pc = "end"
               /\ UNCHANGED <<traps, table, child>>
  BY DEF InstallEnd
<1>2. v \in Thread /\ v.pc = "idle"
  BY <1>1 DEF Thread, Idle
<1> QED
  BY <1>1, <1>2, TypedChild, RestStep

LEMMA AcquireBeginStep ==
  ASSUME Inv, NEW t \in Threads, NEW r \in Reqids, NEW dst \in Dsts,
         AcquireBegin(t, r, dst)
  PROVE  Inv'
<1>1. PICK n, d, v : /\ v = [pc |-> "checkout", name |-> n, reqid |-> r, dst |-> d]
                     /\ thread' = [thread EXCEPT ![t] = v] /\ thread[t] = Idle
                     /\ UNCHANGED <<traps, table, child>>
                     /\ WithReqid(r) # {} /\ n = traps[First(r)].name
                     /\ d = IF n \in Wildcard THEN dst ELSE AnyDst
  BY DEF AcquireBegin
<1>2. n \in Names
  <2>1. WithReqid(r) \subseteq Nat /\ traps \in Seq(Trap)
    BY DEF WithReqid, Inv, Placed, IsList
  <2>2. First(r) \in WithReqid(r)
    BY <1>1, <2>1, Least DEF First
  <2>3. traps[First(r)] \in Trap
    BY <2>1, <2>2 DEF WithReqid
  <2> QED
    BY <1>1, <2>3 DEF Trap
<1>3. v \in Thread /\ v.pc = "checkout" /\ thread[t].pc = "idle"
  BY <1>1, <1>2 DEF Thread, Idle
<1> QED
  BY <1>1, <1>3, TypedChild, RestStep

LEMMA AcquireFailStep ==
  ASSUME Inv, NEW t \in Threads, AcquireFail(t)
  PROVE  Inv'
<1>1. PICK v : /\ v = Idle /\ thread' = [thread EXCEPT ![t] = v]
               /\ thread[t].pc = "checkout" /\ UNCHANGED <<traps, table, child>>
  BY DEF AcquireFail
<1>2. v \in Thread /\ v.pc = "idle"
  BY <1>1 DEF Thread, Idle
<1> QED
  BY <1>1, <1>2, TypedChild, RestStep

\* A CHILD_SA that is created has no reference yet.
LEMMA TryingChild ==
  ASSUME Inv, NEW c \in NewChild, NEW n \in Names, NEW sa \in SAs, NEW q \in 0..MaxOps,
         child' = [child EXCEPT ![c] = Trying(n, sa, q)]
  PROVE  child' \in [Children -> Child] /\ \A r \in Reqids : Users(r)' = Users(r)
<1>1. c \in Children /\ child[c] = NoChild
  BY DEF NewChild
<1>2. PICK v : v = Trying(n, sa, q)
  OBVIOUS
<1>3. v \in Child /\ v.state = "trying" /\ child[c].state = "none"
  BY <1>1, <1>2 DEF Trying, Child, NoChild
<1>4. child \in [Children -> Child] /\ child' = [child EXCEPT ![c] = v]
  BY <1>2 DEF Inv, Types
<1>5. \A d \in Children : child'[d] = IF d = c THEN v ELSE child[d]
  BY <1>4
<1>6. ASSUME NEW r PROVE Users(r)' = Users(r)
  BY <1>3, <1>5 DEF Users
<1> QED
  BY <1>1, <1>3, <1>4, <1>6

LEMMA AcquireInitiateStep ==
  ASSUME Inv, NEW t \in Threads, NEW sa \in SAs, NEW c \in Children,
         AcquireInitiate(t, sa, c)
  PROVE  Inv'
<1>1. PICK x, v : /\ v = Idle /\ thread' = [thread EXCEPT ![t] = v] /\ x = thread[t]
                  /\ x.pc = "checkout" /\ UNCHANGED <<traps, table>> /\ c \in NewChild
                  /\ child' = [child EXCEPT ![c] = Trying(x.name, sa, x.reqid)]
  BY DEF AcquireInitiate
<1>2. v \in Thread /\ v.pc = "idle"
  BY <1>1 DEF Thread, Idle
<1>3. x.name \in Names /\ x.reqid \in 0..MaxOps
  <2>1. x \in Thread
    BY <1>1 DEF Inv, Types
  <2> QED
    BY <1>1, <2>1, Bounds DEF Thread, Placing
<1>4. child' \in [Children -> Child] /\ \A r \in Reqids : Users(r)' = Users(r)
  BY <1>1, <1>3, TryingChild
<1> QED
  BY <1>1, <1>2, <1>4, RestStep

LEMMA UninstallStep ==
  ASSUME Inv, NEW t \in Threads, NEW q \in Reqids, UninstallBegin(t, q)
  PROVE  Inv'
<1> USE DEF Inv
<1>1. PICK v : /\ v = [pc |-> "free", old |-> q] /\ thread' = [thread EXCEPT ![t] = v]
               /\ thread[t] = Idle /\ UNCHANGED <<table, child>>
               /\ WithReqid(q) # {} /\ traps' = WithoutFirst(WithReqid(q))
  BY DEF UninstallBegin
<1>2. Types /\ thread \in [Threads -> Thread] /\ IsList(traps) /\ Placed
  BY DEF Types, Placed
<1>3. /\ IsList(traps')
      /\ \E e \in Elements(traps) : e.reqid = q /\ Elements(traps') = Elements(traps) \ {e}
  BY <1>1, <1>2, ReqidTakenOut
<1>4. PICK e \in Elements(traps) : e.reqid = q /\ Elements(traps') = Elements(traps) \ {e}
  BY <1>3
<1>5. v \in Thread /\ v.pc = "free" /\ v.old = q /\ v.pc \notin Placing
  BY <1>1 DEF Thread, Placing
<1>6. q # 0
  BY Bounds
<1>7. Placed' /\ thread' \in [Threads -> Thread]
  <2>1. \A u \in Threads \ {t} : thread[u].pc \in Placing =>
          [name |-> thread[u].name, reqid |-> 0] \in Elements(traps')
    BY <1>4, <1>6 DEF Placed
  <2> QED
    BY <1>1, <1>2, <1>3, <1>5, <2>1, PlacedGoes
<1>8. Renewed'
  BY <1>1, <1>2, <1>5, RenewedGoes
<1>9. ASSUME NEW r \in Reqids PROVE table'[r].refs = Holders(r)'
  <2>1. Cardinality(Listed(r)') + Is(q, r) = Cardinality(Listed(r))
    <3>1. Listed(r)' = Listed(r) \ {e}
      BY <1>4 DEF Listed
    <3>2. Has(Listed(r), e) = Is(q, r) /\ Has(Listed(r)', e) = 0
      BY <1>4, <3>1 DEF Has, Is, Listed
    <3>3. Listed(r) \ {e} = Listed(r)' \ {e} /\ IsFiniteSet(Listed(r))
      BY <1>2, <3>1, HoldersAre
    <3> QED
      BY <1>2, <1>3, <3>2, <3>3, Switched, NaturalNumbers
  <2>2. /\ Owes(thread[t], r) = 0 /\ Makes(thread[t], r) = 0
        /\ Owes(v, r) = Is(q, r) /\ Makes(v, r) = 0
    BY <1>1 DEF Owes, Makes, Owing, Making, Is, Idle
  <2>3. Users(r)' = Users(r) /\ table'[r].refs = table[r].refs /\ table[r].refs \in Nat
    BY <1>1, <1>2 DEF Users, Types
  <2>4. table'[r].refs + Cardinality(Listed(r)) + Owes(thread[t], r) + Makes(thread[t], r)
           = table[r].refs + Cardinality(Listed(r)') + Owes(v, r) + Makes(v, r)
    BY <1>2, <1>3, <2>1, <2>2, <2>3, NaturalNumbers
  <2>5. thread' = [thread EXCEPT ![t] = v] /\ IsList(traps') /\ table'[r].refs \in Nat
    BY <1>1, <1>3, <2>3
  <2> HIDE DEF Inv
  <2> QED
    BY <2>3, <2>4, <2>5, ThreadBalance
<1>10. Types'
  BY <1>1, <1>2, <1>7 DEF Types
<1>11. ReqidsCounted'
  BY <1>9 DEF ReqidsCounted
<1> QED
  BY <1>7, <1>8, <1>10, <1>11

LEMMA Evened ==
  ASSUME NEW l \in Nat, NEW o \in Nat, NEW m \in Nat, NEW u \in Nat, NEW w \in Nat,
         NEW x \in Nat, NEW y \in Nat, x = l + o + m + u, y + u = x + w
  PROVE  y = l + o + m + w
  OBVIOUS

\* What a step that leaves the threads and traps alone owes.
LEMMA UnmovedStep ==
  ASSUME Inv, UNCHANGED <<thread, traps>>, child' \in [Children -> Child],
         table' \in [Reqids -> [ts : Selectors, refs : Nat]],
         \A r \in Reqids : table'[r].refs + Cardinality(Users(r))
                             = table[r].refs + Cardinality(Users(r)')
  PROVE  Inv'
<1>1. Types /\ IsList(traps) /\ IsList(traps') /\ ReqidsCounted
  BY DEF Inv, Placed
<1>2. Placed' /\ Renewed' /\ Types'
  BY <1>1 DEF Inv, Placed, Renewed, Types
<1>3. ASSUME NEW r \in Reqids PROVE table'[r].refs = Holders(r)'
  <2>1. Listed(r)' = Listed(r) /\ Owers(r)' = Owers(r) /\ Makers(r)' = Makers(r)
    BY DEF Listed, Owers, Makers
  <2>2. /\ table[r].refs = Holders(r) /\ table[r].refs \in Nat /\ table'[r].refs \in Nat
        /\ table'[r].refs + Cardinality(Users(r)) = table[r].refs + Cardinality(Users(r)')
    BY <1>1 DEF ReqidsCounted, Types
  <2>3. Holders(r) = Cardinality(Listed(r)) + Cardinality(Owers(r))
                       + Cardinality(Makers(r)) + Cardinality(Users(r))
    BY <1>1, HoldersAre
  <2>4. Holders(r)' = Cardinality(Listed(r)') + Cardinality(Owers(r)')
                       + Cardinality(Makers(r)') + Cardinality(Users(r)')
    BY <1>1, HoldersAreNext
  <2>5. /\ Cardinality(Listed(r)) \in Nat /\ Cardinality(Owers(r)) \in Nat
        /\ Cardinality(Makers(r)) \in Nat /\ Cardinality(Users(r)) \in Nat
        /\ Cardinality(Users(r)') \in Nat
    BY <1>1, NaturalNumbers
  <2>6. Holders(r)' = Cardinality(Listed(r)) + Cardinality(Owers(r))
                       + Cardinality(Makers(r)) + Cardinality(Users(r)')
    BY <2>1, <2>4
  <2>7. PICK l, o, m, u, w, x, y :
          /\ l = Cardinality(Listed(r)) /\ o = Cardinality(Owers(r))
          /\ m = Cardinality(Makers(r)) /\ u = Cardinality(Users(r))
          /\ w = Cardinality(Users(r)') /\ x = table[r].refs /\ y = table'[r].refs
    OBVIOUS
  <2>8. /\ l \in Nat /\ o \in Nat /\ m \in Nat /\ u \in Nat /\ w \in Nat
        /\ x \in Nat /\ y \in Nat
    BY <2>2, <2>5, <2>7
  <2>9. x = l + o + m + u /\ y + u = x + w
    BY <2>2, <2>3, <2>7
  <2>10. y = l + o + m + w
    BY <2>8, <2>9, Evened
  <2> QED
    BY <2>6, <2>7, <2>10
<1>4. ReqidsCounted'
  BY <1>3 DEF ReqidsCounted
<1> QED
  BY <1>2, <1>4 DEF Inv

LEMMA InitiateStep ==
  ASSUME Inv, NEW n \in Names, NEW sa \in SAs, NEW c \in Children, Initiate(n, sa, c)
  PROVE  Inv'
<1>1. /\ UNCHANGED <<thread, traps, table>> /\ c \in NewChild
      /\ child' = [child EXCEPT ![c] = Trying(n, sa, FindReqid(n))]
  BY DEF Initiate
<1>2. FindReqid(n) \in 0..MaxOps
  BY Found DEF Inv, Placed
<1>3. child' \in [Children -> Child] /\ \A r \in Reqids : Users(r)' = Users(r)
  BY <1>1, <1>2, TryingChild
<1>4. table' \in [Reqids -> [ts : Selectors, refs : Nat]]
  BY <1>1 DEF Inv, Types
<1> QED
  BY <1>1, <1>3, <1>4, UnmovedStep

LEMMA InstalledStep ==
  ASSUME Inv, NEW c \in Children, NEW ts \in Selectors, ChildInstalled(c, ts)
  PROVE  Inv'
<1>1. PICK x, q : /\ x = child[c] /\ x.state = "trying" /\ Alloc(q, ts)
                  /\ child' = [child EXCEPT ![c].state = "installed", ![c].reqid = q]
                  /\ UNCHANGED <<thread, traps>>
  BY DEF ChildInstalled
<1>2. PICK v : v = [x EXCEPT !.state = "installed", !.reqid = q]
  OBVIOUS
<1>3. Types /\ child \in [Children -> Child]
  BY DEF Inv, Types
<1>4. /\ q \in Reqids /\ table' \in [Reqids -> [ts : Selectors, refs : Nat]]
      /\ \A r \in Reqids : table'[r].refs = table[r].refs + Is(q, r)
  BY <1>1, <1>3, Allocs
<1>5. x \in [state : {"trying", "installed"}, name : Names, sa : SAs, reqid : 0..MaxOps]
  BY <1>1, <1>3 DEF Child, NoChild
<1>6. v = [state |-> "installed", name |-> x.name, sa |-> x.sa, reqid |-> q]
  BY <1>2, <1>5
<1>7. v \in Child
  BY <1>4, <1>5, <1>6, Bounds DEF Child
<1>8. child' = [child EXCEPT ![c] = v]
  BY <1>1, <1>2, <1>3
<1>9. ASSUME NEW r \in Reqids
      PROVE  table'[r].refs + Cardinality(Users(r)) = table[r].refs + Cardinality(Users(r)')
  <2>1. Uses(x, r) = 0 /\ Uses(v, r) = Is(q, r)
    BY <1>1, <1>6 DEF Uses, Is
  <2>2. Cardinality(Users(r)') + Uses(x, r) = Cardinality(Users(r)) + Uses(v, r)
    <3>1. child[c] = x
      BY <1>1
    <3> QED
      BY <1>3, <1>8, <3>1, ChildCounts
  <2>3. /\ Cardinality(Users(r)) \in Nat /\ Cardinality(Users(r)') \in Nat
        /\ Is(q, r) \in Nat /\ table[r].refs \in Nat
    BY <1>3, HoldersFinite DEF Is, Types
  <2> QED
    BY <1>4, <2>1, <2>2, <2>3
<1>10. child' \in [Children -> Child]
  BY <1>3, <1>7, <1>8
<1> QED
  BY <1>1, <1>4, <1>9, <1>10, UnmovedStep

\* The CHILD_SAs cs are destroyed.
LEMMA GoneStep ==
  ASSUME Inv, NEW cs \in SUBSET Children, UNCHANGED <<thread, traps>>,
         table' = Released(Using(cs)),
         child' = [c \in Children |-> IF c \in cs THEN NoChild ELSE child[c]]
  PROVE  Inv'
<1>1. Types /\ child \in [Children -> Child] /\ IsList(traps) /\ ReqidsCounted
  BY DEF Inv, Types, Placed
<1>2. child' \in [Children -> Child]
  BY <1>1 DEF Child
<1>3. ASSUME NEW r \in Reqids
      PROVE  /\ Using(cs)[r] \in Nat
             /\ Cardinality(Users(r)) = Cardinality(Users(r)') + Using(cs)[r]
             /\ Using(cs)[r] =< table[r].refs
  <2>1. Using(cs)[r] = Cardinality(Users(r) \cap cs)
    <3>1. Users(r) \cap cs = {c \in cs : child[c].state = "installed" /\ child[c].reqid = r}
      BY DEF Users
    <3> QED
      BY <3>1 DEF Using, Quantify
  <2>2. Users(r)' = Users(r) \ cs
    BY DEF Users, NoChild
  <2>3. Users(r) \cap cs \in SUBSET Users(r)
    OBVIOUS
  <2>4. IsFiniteSet(Users(r) \cap cs) /\ Cardinality(Users(r) \cap cs) \in Nat
    BY <2>3, HoldersFinite, FS_Subset, FS_CardinalityType
  <2>5. Cardinality(Users(r)') = Cardinality(Users(r)) - Cardinality(Users(r) \cap cs)
    BY <2>2, HoldersFinite, FS_Difference
  <2>6. Holders(r) = Cardinality(Listed(r)) + Cardinality(Owers(r))
                       + Cardinality(Makers(r)) + Cardinality(Users(r))
        /\ Cardinality(Listed(r)) \in Nat /\ table[r].refs = Holders(r)
    BY <1>1, HoldersAre DEF ReqidsCounted
  <2> QED
    BY <2>1, <2>4, <2>5, <2>6, HoldersFinite
<1>4. PICK n : n = Using(cs)
  OBVIOUS
<1>5. n \in [Reqids -> Nat]
  <2>1. n = [r \in Reqids |-> n[r]]
    BY <1>4 DEF Using
  <2> QED
    BY <1>3, <1>4, <2>1
<1>6. /\ table' \in [Reqids -> [ts : Selectors, refs : Nat]]
      /\ \A r \in Reqids : table'[r].refs + n[r] = table[r].refs
  BY <1>1, <1>3, <1>4, <1>5, ReleasedTable
<1>7. ASSUME NEW r \in Reqids
      PROVE  table'[r].refs + Cardinality(Users(r)) = table[r].refs + Cardinality(Users(r)')
  <2>1. /\ n[r] \in Nat /\ table'[r].refs \in Nat /\ table[r].refs \in Nat
        /\ table'[r].refs + n[r] = table[r].refs
        /\ Cardinality(Users(r)) = Cardinality(Users(r)') + n[r]
    BY <1>1, <1>3, <1>4, <1>6 DEF Types
  <2> QED
    BY <2>1, HoldersFinite
<1> QED
  BY <1>2, <1>6, <1>7, UnmovedStep

LEMMA DestroyedStep ==
  ASSUME Inv,
         \/ \E c \in Children : ChildDestroyed(c)
         \/ \E sa \in SAs : SaDestroyed(sa)
  PROVE  Inv'
<1>1. ASSUME NEW c \in Children, ChildDestroyed(c) PROVE Inv'
  <2>1. /\ UNCHANGED <<thread, traps>> /\ table' = Released(Using({c}))
        /\ child' = [child EXCEPT ![c] = NoChild]
    BY <1>1 DEF ChildDestroyed
  <2>2. child' = [d \in Children |-> IF d \in {c} THEN NoChild ELSE child[d]]
    BY <2>1 DEF Inv, Types
  <2> QED
    BY <2>1, <2>2, GoneStep
<1>2. ASSUME NEW sa \in SAs, SaDestroyed(sa) PROVE Inv'
  <2>1. PICK mine \in SUBSET Children :
          /\ UNCHANGED <<thread, traps>> /\ table' = Released(Using(mine))
          /\ child' = [c \in Children |-> IF c \in mine THEN NoChild ELSE child[c]]
    BY <1>2 DEF SaDestroyed
  <2> QED
    BY <2>1, GoneStep
<1> QED
  BY <1>1, <1>2

\* flush() finds nobody who installs a trap and releases all of them.
LEMMA FlushStep ==
  ASSUME Inv, FlushSafe, FlushAll
  PROVE  Inv'
<1>1. /\ UNCHANGED <<thread, child>> /\ traps' = <<>> /\ installing = 0
      /\ table' = Released([r \in Reqids |-> Cardinality(WithReqid(r))])
  BY DEF FlushAll, Quiet
<1>2. PICK n : n = [r \in Reqids |-> Cardinality(WithReqid(r))]
  OBVIOUS
<1>3. Types /\ IsList(traps) /\ ReqidsCounted
  BY DEF Inv, Placed
<1>4. \A t \in Threads : thread[t].pc \notin Placing
  <2>1. Installers = {}
    BY <1>1, InstallersFinite, FS_EmptySet DEF FlushSafe
  <2> QED
    BY <2>1 DEF Installers, Busy, Placing
<1>5. IsList(traps') /\ Elements(traps') = {}
  BY <1>1 DEF IsList, Elements
<1>6. Placed' /\ Renewed'
  BY <1>1, <1>4, <1>5 DEF Inv, Placed, Renewed
<1>7. ASSUME NEW r \in Reqids
      PROVE  n[r] = Cardinality(Listed(r)) /\ n[r] \in Nat /\ n[r] =< table[r].refs
  <2>1. n[r] = Cardinality(Listed(r)) /\ n[r] \in Nat
    BY <1>2, <1>3, HoldersAre
  <2>2. Holders(r) = Cardinality(Listed(r)) + Cardinality(Owers(r))
                       + Cardinality(Makers(r)) + Cardinality(Users(r))
        /\ table[r].refs = Holders(r)
    BY <1>3, HoldersAre DEF ReqidsCounted
  <2> QED
    BY <2>1, <2>2, HoldersFinite
<1>8. n \in [Reqids -> Nat]
  <2>1. n = [r \in Reqids |-> n[r]]
    BY <1>2
  <2> QED
    BY <1>7, <2>1
<1>9. /\ table' \in [Reqids -> [ts : Selectors, refs : Nat]]
      /\ \A r \in Reqids : table'[r].refs + n[r] = table[r].refs
  BY <1>1, <1>2, <1>3, <1>7, <1>8, ReleasedTable
<1>10. ASSUME NEW r \in Reqids PROVE table'[r].refs = Holders(r)'
  <2>1. /\ Listed(r)' = {} /\ Owers(r)' = Owers(r) /\ Makers(r)' = Makers(r)
        /\ Users(r)' = Users(r)
    BY <1>1, <1>5 DEF Listed, Owers, Makers, Users
  <2>2. Cardinality(Listed(r)') = 0
    BY <2>1, FS_EmptySet
  <2>3. Holders(r) = Cardinality(Listed(r)) + Cardinality(Owers(r))
                       + Cardinality(Makers(r)) + Cardinality(Users(r))
        /\ table[r].refs = Holders(r)
    BY <1>3, HoldersAre DEF ReqidsCounted
  <2>4. Holders(r)' = Cardinality(Listed(r)') + Cardinality(Owers(r)')
                       + Cardinality(Makers(r)') + Cardinality(Users(r)')
    BY <1>5, HoldersAreNext
  <2>5. table'[r].refs \in Nat /\ table'[r].refs + n[r] = table[r].refs
    BY <1>9
  <2> QED
    BY <1>7, <2>1, <2>2, <2>3, <2>4, <2>5, HoldersFinite
<1>11. Types'
  BY <1>1, <1>3, <1>9 DEF Types
<1>12. ReqidsCounted'
  BY <1>10 DEF ReqidsCounted
<1> QED
  BY <1>6, <1>11, <1>12 DEF Inv

LEMMA InvInit == Init => Inv
<1> SUFFICES ASSUME Init PROVE Inv
  OBVIOUS
<1>1. /\ traps = <<>> /\ thread = [t \in Threads |-> Idle]
      /\ table = [r \in Reqids |-> Blank] /\ child = [c \in Children |-> NoChild]
  BY DEF Init
<1>2. Types
  <2>1. Idle \in Thread /\ NoChild \in Child /\ Blank \in [ts : Selectors, refs : Nat]
    BY DEF Idle, Thread, Child, Blank, Selectors
  <2> QED
    BY <1>1, <2>1 DEF Types
<1>3. IsList(traps) /\ Elements(traps) = {}
  BY <1>1 DEF IsList, Elements
<1>4. \A t \in Threads : thread[t].pc = "idle"
  BY <1>1 DEF Idle
<1>5. Placed /\ Renewed
  BY <1>3, <1>4 DEF Placed, Renewed, Placing
<1>6. ASSUME NEW r \in Reqids PROVE table[r].refs = Holders(r)
  <2>1. Listed(r) = {} /\ Owers(r) = {} /\ Makers(r) = {} /\ Users(r) = {}
    BY <1>1, <1>3, <1>4 DEF Listed, Owers, Makers, Users, Owing, Making, NoChild
  <2>2. Holders(r) = Cardinality(Listed(r)) + Cardinality(Owers(r))
                       + Cardinality(Makers(r)) + Cardinality(Users(r))
    BY <1>3, HoldersAre
  <2>3. Cardinality({}) = 0 /\ table[r].refs = 0
    BY <1>1, FS_EmptySet DEF Blank
  <2> QED
    BY <2>1, <2>2, <2>3
<1> QED
  BY <1>2, <1>5, <1>6 DEF Inv, ReqidsCounted

LEMMA InvNext ==
  ASSUME Inv, FlushSafe, [Next]_vars
  PROVE  Inv'
<1>1. ASSUME NEW t \in Threads,
             \/ \E n \in Names, r \in 0..MaxOps : InstallBegin(t, n, r)
             \/ \E ts \in Selectors : InstallAdd(t, ts)
             \/ InstallSet(t) \/ InstallFail(t)
             \/ DestroyFailed(t) \/ DestroyFound(t) \/ InstallEnd(t)
      PROVE  Inv'
  BY <1>1, BeginStep, AddStep, SetStep, FailStep, DestroyFailedStep, DestroyFoundStep, EndStep
<1>2. ASSUME NEW t \in Threads,
             \/ \E r \in Reqids : UninstallBegin(t, r)
             \/ UninstallEnd(t)
             \/ \E r \in Reqids, d \in Dsts : AcquireBegin(t, r, d)
             \/ AcquireFail(t)
             \/ \E sa \in SAs, c \in Children : AcquireInitiate(t, sa, c)
      PROVE  Inv'
  BY <1>2, UninstallStep, FreeStep, AcquireBeginStep, AcquireFailStep,
     AcquireInitiateStep
<1>3. ASSUME UNCHANGED <<thread, traps, table, child>> PROVE Inv'
  <2>1. /\ child' \in [Children -> Child]
        /\ table' \in [Reqids -> [ts : Selectors, refs : Nat]]
    BY <1>3 DEF Inv, Types
  <2>2. \A r \in Reqids : Users(r)' = Users(r)
    BY <1>3 DEF Users
  <2> QED
    BY <1>3, <2>1, <2>2, UnmovedStep
<1>4. FlushWait \/ UNCHANGED vars => UNCHANGED <<thread, traps, table, child>>
  BY DEF FlushWait, vars
<1> QED
  BY <1>1, <1>2, <1>3, <1>4, FlushStep, InitiateStep, InstalledStep, DestroyedStep DEF Next

LEMMA InvCorrect == Spec => [](Shapes /\ FlushSafe /\ Inv)
<1>1. Init => Shapes /\ FlushSafe /\ Inv
  BY InvInit, FlushInit
<1>2. Shapes /\ FlushSafe /\ Inv /\ [Next]_vars => (Shapes /\ FlushSafe /\ Inv)'
  BY StepShapes, FlushNext, InvNext
<1> QED
  BY <1>1, <1>2, PTL DEF Spec

\* The kernel interface knows a reqid, with the right number of references, just
\* as long as traps, threads and CHILD_SAs use it: for any number of each, with
\* updates, failures, destruction and flush() in any order.
THEOREM ReqidsAlwaysCounted == Spec => []ReqidsCounted
<1>1. Inv => ReqidsCounted
  BY DEF Inv
<1> QED
  BY <1>1, InvCorrect, PTL

\* install() that replaces a trap gives the new one the reqid of the old one,
\* whatever is released by others while it does.
THEOREM UpdatesKeepReqids == Spec => []UpdateKeepsReqid
<1>1. Inv => UpdateKeepsReqid
  BY DEF Inv, Renewed, UpdateKeepsReqid
<1> QED
  BY <1>1, InvCorrect, PTL

-----------------------------------------------------------------------------
(* The types of the other variables.                                         *)

Acquire == [reqid : Reqids, dst : Dsts \cup {AnyDst}, sa : SAs \cup {NoSA}]

Others ==
  /\ acquires \subseteq Acquire
  /\ disabled \in BOOLEAN /\ flushing \in {"off", "wait", "woken", "done"}
  /\ counter \in 0..MaxOps /\ sas \subseteq SAs /\ ops \in 0..MaxOps

LEMMA OthersInit == Init => Others
<1> SUFFICES ASSUME Init PROVE Others
  OBVIOUS
<1>1. 0 \in 0..MaxOps
  BY Bounds
<1> QED
  BY <1>1 DEF Init, Others

LEMMA OthersKept ==
  ASSUME Others, acquires' \subseteq acquires, sas' \subseteq sas,
         UNCHANGED <<disabled, counter, ops>>, UNCHANGED flushing \/ flushing' \in {"wait", "woken"}
  PROVE  Others'
  BY DEF Others

LEMMA OthersAcquire ==
  ASSUME Inv, Others, NEW t \in Threads,
         \/ \E r \in Reqids, d \in Dsts : AcquireBegin(t, r, d)
         \/ AcquireFail(t)
         \/ \E sa \in SAs, c \in Children : AcquireInitiate(t, sa, c)
  PROVE  Others'
<1>1. ASSUME NEW r \in Reqids, NEW d \in Dsts, AcquireBegin(t, r, d) PROVE Others'
  <2>1. /\ ops' = ops + 1 /\ ops < MaxOps /\ UNCHANGED <<disabled, flushing, counter, sas>>
        /\ \E e \in Dsts \cup {AnyDst} :
             acquires' = acquires \cup {[reqid |-> r, dst |-> e, sa |-> NoSA]}
    BY <1>1 DEF AcquireBegin
  <2>2. acquires' \subseteq Acquire
    BY <2>1 DEF Others, Acquire
  <2>3. ops' \in 0..MaxOps
    BY <2>1, Bounds DEF Others
  <2> QED
    BY <2>1, <2>2, <2>3 DEF Others
<1>2. ASSUME AcquireFail(t) PROVE Others'
  BY <1>2, OthersKept DEF AcquireFail
<1>3. ASSUME NEW sa \in SAs, NEW c \in Children, AcquireInitiate(t, sa, c) PROVE Others'
  <2>1. PICK x : /\ x = thread[t] /\ x.pc = "checkout" /\ sas' = sas \cup {sa}
                 /\ acquires' = (acquires \ {Mine(x)}) \cup {[Mine(x) EXCEPT !.sa = sa]}
                 /\ UNCHANGED <<disabled, flushing, counter, ops>>
    BY <1>3 DEF AcquireInitiate
  <2>2. x \in Thread
    BY <2>1 DEF Inv, Types
  <2>3. x.reqid \in Reqids /\ x.dst \in Dsts \cup {AnyDst}
    BY <2>1, <2>2 DEF Thread, Placing
  <2>4. [Mine(x) EXCEPT !.sa = sa] = [reqid |-> x.reqid, dst |-> x.dst, sa |-> sa]
    BY DEF Mine
  <2>5. [Mine(x) EXCEPT !.sa = sa] \in Acquire
    BY <2>3, <2>4 DEF Acquire
  <2> QED
    BY <2>1, <2>5 DEF Others
<1> QED
  BY <1>1, <1>2, <1>3

LEMMA OthersNext ==
  ASSUME Inv, Others, [Next]_vars
  PROVE  Others'
<1>1. ASSUME NEW t \in Threads,
             \/ InstallSet(t) \/ InstallFail(t)
             \/ DestroyFailed(t) \/ DestroyFound(t) \/ InstallEnd(t)
             \/ \E r \in Reqids : UninstallBegin(t, r)
             \/ UninstallEnd(t)
      PROVE  Others'
  BY <1>1, OthersKept
  DEF InstallSet, InstallFail, DestroyFailed, DestroyFound, InstallEnd, Signal,
      UninstallBegin, UninstallEnd
<1>2. ASSUME NEW t \in Threads, NEW n, NEW r, InstallBegin(t, n, r) PROVE Others'
  <2>1. /\ ops' = ops + 1 /\ ops < MaxOps
        /\ UNCHANGED <<acquires, disabled, flushing, counter, sas>>
    BY <1>2 DEF InstallBegin
  <2> QED
    BY <2>1, Bounds DEF Others
<1>3. ASSUME NEW q, NEW ts, Alloc(q, ts) PROVE counter \in 0..MaxOps => counter' \in 0..MaxOps
  BY <1>3, Bounds DEF Alloc
<1>4. ASSUME NEW t \in Threads, NEW ts, InstallAdd(t, ts) PROVE Others'
  <2>1. UNCHANGED <<acquires, disabled, flushing, sas, ops>>
        /\ \E q : Alloc(q, ts)
    BY <1>4 DEF InstallAdd, AddPolicies
  <2> QED
    BY <1>3, <2>1 DEF Others
<1>5. ASSUME NEW c, NEW ts, ChildInstalled(c, ts) PROVE Others'
  <2>1. UNCHANGED <<disabled, flushing, sas, ops>> /\ acquires' \subseteq acquires
        /\ \E q : Alloc(q, ts)
    BY <1>5 DEF ChildInstalled
  <2> QED
    BY <1>3, <2>1 DEF Others
<1>6. ASSUME NEW n, NEW sa \in SAs, NEW c, Initiate(n, sa, c) PROVE Others'
  <2>1. /\ ops' = ops + 1 /\ ops < MaxOps /\ sas' = sas \cup {sa}
        /\ UNCHANGED <<acquires, disabled, flushing, counter>>
    BY <1>6 DEF Initiate
  <2> QED
    BY <2>1, Bounds DEF Others
<1>7. ASSUME \/ \E c \in Children : ChildDestroyed(c)
             \/ \E sa \in SAs : SaDestroyed(sa)
             \/ FlushWait \/ UNCHANGED vars
      PROVE  Others'
  BY <1>7, OthersKept DEF ChildDestroyed, SaDestroyed, FlushWait, vars
<1>8. CASE FlushAll
  BY <1>8 DEF FlushAll, Others
<1> QED
  BY <1>1, <1>2, <1>4, <1>5, <1>6, <1>7, <1>8, OthersAcquire DEF Next

\* Every variable keeps its type; in particular installing never exceeds the
\* number of threads and never becomes negative.
THEOREM TrapsTyped == Spec => []TypeOK
<1>1. Init => Others
  BY OthersInit
<1>2. Inv /\ Others /\ [Next]_vars => Others'
  BY OthersNext
<1>3. ASSUME FlushSafe, Inv, Others PROVE TypeOK
  <2>1. \A i \in 1..Len(traps) : traps[i] \in [name : Names, reqid : 0..MaxOps]
    <3>1. traps \in Seq(Trap)
      BY <1>3 DEF Inv, Placed, IsList
    <3>2. \A i \in 1..Len(traps) : traps[i] \in Trap
      BY <3>1
    <3> QED
      BY <3>2 DEF Trap
  <2>2. installing \in 0..Cardinality(Threads)
    <3>1. Installers \in SUBSET Threads /\ IsFiniteSet(Threads)
      BY TrapAssumption DEF Installers
    <3>2. Cardinality(Installers) =< Cardinality(Threads) /\ Cardinality(Threads) \in Nat
      BY <3>1, FS_Subset, FS_CardinalityType
    <3> QED
      BY <1>3, <3>2, InstallersFinite DEF FlushSafe
  <2>3. \A t \in Threads : thread[t].pc \in
          {"idle", "add", "set", "fail", "drop", "end", "free", "checkout"}
    BY <1>3 DEF Inv, Types, Thread, Placing
  <2>4. \A c \in Children : child[c].state \in {"none", "trying", "installed"}
    BY <1>3 DEF Inv, Types, Child, NoChild
  <2>5. table \in [Reqids -> [ts : Selectors, refs : Nat]]
    BY <1>3 DEF Inv, Types
  <2> QED
    BY <1>3, <2>1, <2>2, <2>3, <2>4, <2>5 DEF TypeOK, Others, Acquire
<1> QED
  BY <1>1, <1>2, <1>3, InvCorrect, PTL DEF Spec
=============================================================================
