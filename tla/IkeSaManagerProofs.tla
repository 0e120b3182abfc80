------------------------- MODULE IkeSaManagerProofs -------------------------
(***************************************************************************)
(* Proofs about the IKE_SA manager for any number of threads, SAs,         *)
(* segments, messages and hosts.                                           *)
(***************************************************************************)
EXTENDS IkeSaManager, TLAPS, FiniteSetTheorems

-----------------------------------------------------------------------------
(* Type correctness.                                                         *)

\* Where a thread works on an SA, or deals with the entry of another one, it
\* has a pointer to it.
OwnPcs == {"use", "cancel", "check", "unique", "dupwait", "second"}
TgtPcs == {"limit", "create", "unhash", "lookup", "second", "drive"}
          \cup WaitPcs \cup RemovePcs
Pointers == \A t \in Threads : /\ pc[t] \in OwnPcs => own[t] \in SAs
                               /\ pc[t] \in TgtPcs => tgt[t] \in SAs

LEMMA SignalType ==
  ASSUME NEW s, NEW S, S \subseteq Actors, NEW X \in Signal(S, s)
  PROVE  X \subseteq Actors
  BY DEF Signal

LEMMA SignalledType ==
  ASSUME NEW s, ActorType
  PROVE  /\ \A X \in Signalled(s) : X \subseteq Actors
         /\ \A X \in SignalledTwice(s) : X \subseteq Actors
  BY SignalType DEF Signalled, SignalledTwice, ActorType

\* A group of variables that does not change keeps its types.
LEMMA Frame ==
  ASSUME TypeOK
  PROVE  /\ UNCHANGED saVars => SaType'
         /\ UNCHANGED <<holder, waiting, processing>> => EntryType'
         /\ UNCHANGED flagVars => FlagType'
         /\ UNCHANGED trackVars => TrackType'
         /\ UNCHANGED hashVars => HashType'
         /\ UNCHANGED <<locked, asleep, pc, tgt>> => ActorType'
         /\ UNCHANGED threadVars => ThreadType'
<1> USE DEF TypeOK
<1>1. UNCHANGED saVars => SaType'
  BY DEF saVars, SaType
<1>2. UNCHANGED <<holder, waiting, processing>> => EntryType'
  BY DEF EntryType
<1>3. UNCHANGED flagVars => FlagType'
  BY DEF flagVars, FlagType
<1>4. UNCHANGED trackVars => TrackType'
  BY DEF trackVars, TrackType
<1>5. UNCHANGED hashVars => HashType'
  BY DEF hashVars, HashType
<1>6. UNCHANGED <<locked, asleep, pc, tgt>> => ActorType'
  BY DEF ActorType
<1>7. UNCHANGED threadVars => ThreadType'
  BY DEF threadVars, ThreadType
<1> QED
  BY <1>1, <1>2, <1>3, <1>4, <1>5, <1>6, <1>7

\* The values of pc and mode that threads take.
LEMMA PcValues ==
  /\ {"idle", "limit", "create", "unhash", "lookup", "scan", "use", "cancel", "check",
      "unique", "second", "drive", "unhalf", "unpeer", "uninit"}
       \subseteq ThreadPcs \cup FlushPcs
  /\ {"walk", "sleep", "delete", "rng", "done", "destroyed"} \subseteq ThreadPcs \cup FlushPcs
  /\ WaitPcs \subseteq ThreadPcs \cup FlushPcs
  /\ \A p \in WaitPcs : Resigned(p) \in ThreadPcs \cup FlushPcs
  /\ {"none", "config", "name", "all", "FORCE", "KEEP", "REPLACE", "CANCEL"} \subseteq Modes
  /\ \A t \in Threads : t \in Actors
  /\ Flusher \in Actors
  BY DEF ThreadPcs, FlushPcs, WaitPcs, RemovePcs, Resigned, Modes, Actors

LEMMA TakeType ==
  ASSUME TypeOK, NEW t \in Threads, NEW p, NEW s \in SAs,
         NEW m \in Mids \cup {InitMid, NoMid}, Take(t, p, s, m),
         asleep' \subseteq Actors, waiting' \in [SAs -> SUBSET Threads],
         todo' \in [Threads -> SUBSET SAs], UNCHANGED <<locked, late>>
  PROVE  EntryType' /\ ActorType' /\ ThreadType'
<1>1. EntryType'
  BY DEF Take, TypeOK, EntryType
<1>2. ActorType'
  BY PcValues DEF Take, TypeOK, ActorType
<1>3. ThreadType'
  BY PcValues DEF Take, TypeOK, ThreadType
<1> QED
  BY <1>1, <1>2, <1>3

LEMMA AcquireType ==
  ASSUME TypeOK, NEW t \in Threads, NEW p, NEW s \in SAs,
         NEW m \in Mids \cup {InitMid, NoMid}, Acquire(t, p, s, m),
         waiting' \in [SAs -> SUBSET Threads],
         todo' \in [Threads -> SUBSET SAs], UNCHANGED <<locked, late>>
  PROVE  EntryType' /\ ActorType' /\ ThreadType'
<1>1. CASE Take(t, p, s, m) /\ UNCHANGED asleep
  BY <1>1, TakeType DEF TypeOK, ActorType
<1>2. CASE Take(t, p, s, m) /\ asleep' \in Signalled(s)
  BY <1>2, TakeType, SignalledType DEF TypeOK
<1>3. CASE PassOver(t, s)
  BY <1>3, SignalledType, PcValues
     DEF PassOver, TypeOK, EntryType, ActorType, ThreadType
<1> QED
  BY <1>1, <1>2, <1>3 DEF Acquire

LEMMA WaitForEntryType ==
  ASSUME TypeOK, NEW t \in Threads, NEW p \in WaitPcs, NEW s \in SAs,
         NEW m \in Mids \cup {InitMid, NoMid}, WaitForEntry(t, p, s, m),
         todo' \in [Threads -> SUBSET SAs], UNCHANGED <<locked, late>>
  PROVE  EntryType' /\ ActorType' /\ ThreadType'
<1>1. CASE Refuse(t, p, s)
  BY <1>1, SignalledType, PcValues
     DEF Refuse, TypeOK, EntryType, ActorType, ThreadType, Forget
<1>2. CASE Enqueue(t, p, s, m)
  BY <1>2, PcValues DEF Enqueue, TypeOK, EntryType, ActorType, ThreadType
<1>3. CASE Acquire(t, p, s, m) /\ UNCHANGED waiting
  BY <1>3, AcquireType DEF TypeOK, EntryType
<1> QED
  BY <1>1, <1>2, <1>3 DEF WaitForEntry

\* The tables that count SAs.
LEMMA HalfOpenType ==
  ASSUME NEW table \in [Hosts -> [count : Int, responder : Int]], NEW h, NEW r
  PROVE  /\ PutHalfOpen(table, h, r) \in [Hosts -> [count : Int, responder : Int]]
         /\ RemoveHalfOpen(table, h, r) \in [Hosts -> [count : Int, responder : Int]]
<1>1. CASE h \in Hosts
  BY <1>1 DEF PutHalfOpen, RemoveHalfOpen
<1>2. CASE h \notin Hosts
  BY <1>2 DEF PutHalfOpen, RemoveHalfOpen
<1> QED
  BY <1>1, <1>2

LEMMA CheckinEntryType ==
  ASSUME TypeOK, NEW t \in Threads, NEW s \in SAs, NEW st \in IkeStates,
         NEW h \in Hosts, NEW contact \in BOOLEAN, CheckinEntry(t, s, st, h, contact)
  PROVE  /\ SaType' /\ EntryType' /\ FlagType' /\ TrackType' /\ HashType'
         /\ asleep' \subseteq Actors
         /\ UNCHANGED <<locked, mid>>
<1>1. halfOpenTable' \in [Hosts -> [count : Int, responder : Int]]
  BY HalfOpenType DEF TypeOK, TrackType, CheckinEntry, HalfOpenTableAfter
<1>2. /\ halfOpen' \in [SAs -> BOOLEAN]
      /\ hasIds' \in [SAs -> BOOLEAN]
  BY DEF TypeOK, TrackType, CheckinEntry, Identifies, ChecksLate
<1>3. TrackType'
  BY <1>1, <1>2 DEF TypeOK, TrackType, CheckinEntry, PutConnectedPeers
<1>4. SaType' /\ EntryType'
  BY DEF TypeOK, SaType, EntryType, CheckinEntry, Release
<1> QED
  BY <1>3, <1>4, Frame, SignalledType DEF TypeOK, CheckinEntry

LEMMA CheckinAndDestroyType ==
  ASSUME TypeOK, NEW t \in Threads, NEW s \in SAs, CheckinAndDestroy(t, s),
         ThreadType'
  PROVE  TypeOK'
<1> USE Frame, PcValues DEF TypeOK
<1>1. CASE DestroyUnknown(t, s)
  BY <1>1 DEF DestroyUnknown, Return, SaType, ActorType
<1>2. CASE IgnoreDestroy(t, s)
  BY <1>2 DEF IgnoreDestroy, Return, Broadcast, EntryType, ActorType
<1>3. CASE CloseEntry(t, s)
  <2>1. FlagType'
    BY <1>3 DEF CloseEntry, FlagType
  <2> QED
    BY <1>3, <2>1 DEF CloseEntry, DriveOut, Broadcast, SaType, EntryType, ActorType
<1> QED
  BY <1>1, <1>2, <1>3 DEF CheckinAndDestroy

LEMMA DestroyAllType ==
  ASSUME TypeOK, DestroyAllEntries, UNCHANGED locked \/ locked' = {},
         UNCHANGED rng, pc' \in [Actors -> ThreadPcs \cup FlushPcs]
  PROVE  TypeOK'
<1>1. \A S \in SUBSET SAs : Cardinality(S) \in Int
  <2>1. IsFiniteSet(SAs)
    BY ConstantAssumption, FS_Interval DEF SAs
  <2> QED
    BY <2>1, FS_Subset, FS_CardinalityType
<1>2. halfOpenTable' \in [Hosts -> [count : Int, responder : Int]]
  <2> DEFINE open(h) == {s \in Table : halfOpen[s] /\ other[s] = h}
             both(h) == {s \in open(h) : responder[s]}
  <2>1. ASSUME NEW h \in Hosts
        PROVE  Cardinality(open(h)) \in Int /\ Cardinality(both(h)) \in Int
    BY <1>1 DEF Table
  <2>2. \A h \in Hosts : halfOpenTable[h].count \in Int /\ halfOpenTable[h].responder \in Int
    BY DEF TypeOK, TrackType
  <2>3. halfOpenTable' = [h \in Hosts |->
          [count |-> halfOpenTable[h].count - Cardinality(open(h)),
           responder |-> halfOpenTable[h].responder - Cardinality(both(h))]]
    BY DEF DestroyAllEntries
  <2> HIDE DEF open, both
  <2> QED
    BY <2>1, <2>2, <2>3
<1>3. halfOpen' \in [SAs -> BOOLEAN] /\ hasIds' \in [SAs -> BOOLEAN]
  BY DEF DestroyAllEntries, TypeOK, TrackType
<1>4. TrackType'
  BY <1>2, <1>3 DEF DestroyAllEntries, TypeOK, TrackType
<1>5. SaType' /\ EntryType' /\ HashType' /\ ActorType'
  BY DEF DestroyAllEntries, TypeOK, SaType, EntryType, HashType, ActorType
<1> QED
  BY <1>4, <1>5, Frame DEF DestroyAllEntries, TypeOK

\* A step of thread t disturbs the pointers of no other thread.
LEMMA PointersOfOne ==
  ASSUME TypeOK, Pointers, NEW t \in Threads, NEW p, NEW x, NEW y,
         pc' = [pc EXCEPT ![t] = p], p \in OwnPcs => x \in SAs, p \in TgtPcs => y \in SAs,
         own' = [own EXCEPT ![t] = x] \/ (own' = own /\ x = own[t]),
         tgt' = [tgt EXCEPT ![t] = y] \/ (tgt' = tgt /\ y = tgt[t])
  PROVE  Pointers'
<1>1. /\ pc'[t] = p /\ own'[t] = x /\ tgt'[t] = y
      /\ \A u \in Threads \ {t} : pc'[u] = pc[u] /\ own'[u] = own[u] /\ tgt'[u] = tgt[u]
  BY PcValues DEF TypeOK, ActorType, ThreadType
<1> QED
  BY <1>1 DEF Pointers

\* The flush only moves its own cursor.
LEMMA PointersOfFlusher ==
  ASSUME TypeOK, Pointers, NEW p, NEW y, own' = own,
         pc' = [pc EXCEPT ![Flusher] = p] \/ pc' = pc,
         tgt' = [tgt EXCEPT ![Flusher] = y] \/ tgt' = tgt
  PROVE  Pointers'
<1>1. \A u \in Threads : pc'[u] = pc[u] /\ own'[u] = own[u] /\ tgt'[u] = tgt[u]
  BY ConstantAssumption, PcValues DEF TypeOK, ActorType
<1> QED
  BY <1>1 DEF Pointers

LEMMA PcGroups ==
  /\ {"idle", "scan"} \cap (OwnPcs \cup TgtPcs) = {}
  /\ {"use", "cancel", "check", "unique"} \cap TgtPcs = {}
  /\ {"use", "cancel", "check", "unique", "dupwait", "second"} \subseteq OwnPcs
  /\ {"limit", "create", "unhash", "lookup", "wait", "scanwait", "drive", "unhalf", "unpeer",
      "uninit"} \cap OwnPcs = {}
  /\ WaitPcs \subseteq TgtPcs
  /\ {"limit", "create", "unhash", "lookup", "wait", "scanwait", "drive", "unhalf", "unpeer",
      "uninit", "dupwait", "second"} \subseteq TgtPcs
  BY DEF OwnPcs, TgtPcs, WaitPcs, RemovePcs

LEMMA PointersAcquire ==
  ASSUME TypeOK, Pointers, NEW t \in Threads, NEW p, NEW s \in SAs, NEW m,
         p = "dupwait" => own[t] \in SAs, Acquire(t, p, s, m)
  PROVE  Pointers'
<1>1. CASE PassOver(t, s)
  BY <1>1, PcGroups, PointersOfOne DEF PassOver
<1>2. CASE Take(t, p, s, m) /\ p = "dupwait"
  BY <1>2, PcGroups, PointersOfOne DEF Take
<1>3. CASE Take(t, p, s, m) /\ p # "dupwait"
  BY <1>3, PcGroups, PointersOfOne DEF Take
<1> QED
  BY <1>1, <1>2, <1>3 DEF Acquire

LEMMA PointersResigned ==
  ASSUME TypeOK, Pointers, NEW t \in Threads, NEW p \in WaitPcs, NEW s \in SAs,
         p = "dupwait" => own[t] \in SAs, pc' = [pc EXCEPT ![t] = Resigned(p)],
         Forget(t, p, s), own' = own
  PROVE  Pointers'
<1>1. Resigned(p) \notin TgtPcs /\ (Resigned(p) \in OwnPcs => p = "dupwait")
  BY DEF Resigned, WaitPcs, TgtPcs, OwnPcs, RemovePcs
<1>2. PICK y : tgt' = [tgt EXCEPT ![t] = y]
  BY DEF Forget
<1> QED
  BY <1>1, <1>2, PointersOfOne

LEMMA PointersWaitForEntry ==
  ASSUME TypeOK, Pointers, NEW t \in Threads, NEW p \in WaitPcs, NEW s \in SAs, NEW m,
         p = "dupwait" => own[t] \in SAs, WaitForEntry(t, p, s, m)
  PROVE  Pointers'
<1>1. CASE Refuse(t, p, s)
  BY <1>1, PointersResigned DEF Refuse
<1>2. CASE Enqueue(t, p, s, m)
  <2>1. p \in OwnPcs => p = "dupwait"
    BY PcGroups DEF WaitPcs
  <2> QED
    BY <1>2, <2>1, PointersOfOne DEF Enqueue
<1>3. CASE Acquire(t, p, s, m)
  BY <1>3, PointersAcquire
<1> QED
  BY <1>1, <1>2, <1>3 DEF WaitForEntry

LEMMA PointersDriveOut ==
  ASSUME TypeOK, Pointers, NEW t \in Threads, NEW s \in SAs, NEW x,
         own' = [own EXCEPT ![t] = x] \/ (own' = own /\ x = own[t]),
         tgt' = [tgt EXCEPT ![t] = s] \/ (tgt' = tgt /\ tgt[t] = s), DriveOut(t, s)
  PROVE  Pointers'
<1>1. PICK p \in {"unhalf", "drive"} : pc' = [pc EXCEPT ![t] = p]
  BY DEF DriveOut
<1> QED
  BY <1>1, PcGroups, PointersOfOne

LEMMA PointersReturn ==
  ASSUME TypeOK, Pointers, NEW t \in Threads, NEW x \in SAs \cup {NoSA},
         own' = [own EXCEPT ![t] = x] \/ (own' = own /\ x = own[t]),
         tgt' = [tgt EXCEPT ![t] = NoSA], Return(t)
  PROVE  Pointers'
<1>1. own'[t] = x
  BY DEF TypeOK, ThreadType
<1>2. PICK p \in {"idle", "unique"} : pc' = [pc EXCEPT ![t] = p] /\ (p = "unique" => x # NoSA)
  BY <1>1 DEF Return
<1> QED
  BY <1>2, PcGroups, PointersOfOne

LEMMA PointersCheckinAndDestroy ==
  ASSUME TypeOK, Pointers, NEW t \in Threads, NEW s \in SAs, NEW x \in SAs \cup {NoSA},
         own' = [own EXCEPT ![t] = x] \/ (own' = own /\ x = own[t]), CheckinAndDestroy(t, s)
  PROVE  Pointers'
<1>1. CASE DestroyUnknown(t, s)
  BY <1>1, PointersReturn DEF DestroyUnknown
<1>2. CASE IgnoreDestroy(t, s)
  BY <1>2, PointersReturn DEF IgnoreDestroy
<1>3. CASE CloseEntry(t, s)
  BY <1>3, PointersDriveOut DEF CloseEntry
<1> QED
  BY <1>1, <1>2, <1>3 DEF CheckinAndDestroy

LEMMA PointersStep ==
  ASSUME TypeOK, Pointers, [Next]_vars
  PROVE  Pointers'
<1> USE PcGroups
<1>s. CASE UNCHANGED <<pc, own, tgt>>
  BY <1>s DEF Pointers
<1>1. ASSUME NEW t \in Threads, NEW s \in SAs, Checkout(t, s) PROVE Pointers'
  BY <1>s, <1>1, PointersWaitForEntry DEF Checkout, WaitPcs
<1>2. ASSUME NEW t \in Threads, NEW s \in SAs, NEW m, NEW fragment,
             LookupMessage(t, s, m, fragment)
      PROVE Pointers'
  <2>1. CASE WaitForEntry(t, "wait", s, IF fragment THEN NoMid ELSE m)
    BY <2>1, PointersWaitForEntry DEF WaitPcs
  <2>2. CASE pc' = [pc EXCEPT ![t] = "idle"] /\ tgt' = [tgt EXCEPT ![t] = NoSA] /\ own' = own
    BY <2>2, PointersOfOne
  <2> QED
    BY <1>2, <2>1, <2>2 DEF LookupMessage
<1>3. ASSUME NEW t \in Threads, NEW s \in SAs, Message(t, s) \/ List(t, s) PROVE Pointers'
  BY <1>s, <1>2, <1>3 DEF Message, List, vars, threadVars
<1>4. ASSUME NEW t \in Threads, LookupInit(t) PROVE Pointers'
  <2>1. CASE tgt[t] \in Table /\ LookupMessage(t, tgt[t], InitMid, FALSE)
    BY <1>2, <2>1 DEF Table
  <2>2. CASE pc' = [pc EXCEPT ![t] = "idle"] /\ tgt' = [tgt EXCEPT ![t] = NoSA] /\ own' = own
    BY <2>2, PointersOfOne
  <2> QED
    BY <1>4, <2>1, <2>2 DEF LookupInit, threadVars
<1>5. ASSUME NEW t \in Threads, NEW m \in Messages, InitMessage(t, m) PROVE Pointers'
  <2>1. CASE pc' = [pc EXCEPT ![t] = "lookup"] /\ tgt' = [tgt EXCEPT ![t] = initHashes[m]]
             /\ initHashes[m] # NoSA /\ own' = own
    BY <2>1, PointersOfOne DEF TypeOK, HashType
  <2>2. ASSUME NEW s \in SAs, pc' = [pc EXCEPT ![t] = "limit"],
               tgt' = [tgt EXCEPT ![t] = s], own' = own
        PROVE Pointers'
    BY <2>2, PointersOfOne
  <2> QED
    BY <1>s, <1>5, <2>1, <2>2 DEF InitMessage, threadVars
<1>6. ASSUME NEW t \in Threads, CheckLimit(t) \/ CreateFails(t) PROVE Pointers'
  <2>1. tgt[t] \in SAs
    BY <1>6 DEF CheckLimit, CreateFails, Pointers
  <2>2. PICK p \in {"create", "unhash"} : pc' = [pc EXCEPT ![t] = p]
    BY <1>6 DEF CheckLimit, CreateFails
  <2> QED
    BY <1>6, <2>1, <2>2, PointersOfOne DEF CheckLimit, CreateFails, threadVars
<1>7. ASSUME NEW t \in Threads, PutNewEntry(t) PROVE Pointers'
  BY <1>7, PointersOfOne DEF PutNewEntry, Pointers
<1>8. ASSUME NEW t \in Threads, DropInitHash(t) PROVE Pointers'
  BY <1>8, PointersOfOne DEF DropInitHash, threadVars
<1>9. ASSUME NEW t \in Threads, CheckoutNew(t) PROVE Pointers'
  BY <1>9, PointersOfOne DEF CheckoutNew
<1>10. ASSUME NEW t \in Threads, Spawn(t) PROVE Pointers'
  BY <1>10, PointersOfOne DEF Spawn, Pointers
<1>11. ASSUME NEW t \in Threads, StartScan(t) PROVE Pointers'
  BY <1>11, PointersOfOne DEF StartScan
<1>12. ASSUME NEW t \in Threads, Visit(t) PROVE Pointers'
  BY <1>12, PointersWaitForEntry DEF Visit, Following, Table, WaitPcs
<1>13. ASSUME NEW t \in Threads, EndScan(t) PROVE Pointers'
  <2>1. ASSUME NEW s \in SAs, own' = [own EXCEPT ![t] = s], pc' = [pc EXCEPT ![t] = "use"],
               tgt' = [tgt EXCEPT ![t] = NoSA]
        PROVE Pointers'
    BY <2>1, PointersOfOne
  <2>2. CASE own' = own /\ pc' = [pc EXCEPT ![t] = "idle"] /\ tgt' = [tgt EXCEPT ![t] = NoSA]
    BY <2>2, PointersOfOne
  <2> QED
    BY <1>13, <2>1, <2>2 DEF EndScan
<1>14. ASSUME NEW t \in Threads, Resume(t) PROVE Pointers'
  <2>1. tgt[t] \in SAs /\ pc[t] \in WaitPcs /\ (pc[t] = "dupwait" => own[t] \in SAs)
    BY <1>14 DEF Resume, Pointers
  <2> QED
    BY <1>s, <1>14, <2>1, PointersAcquire, PointersResigned
       DEF Resume, SleepAgain, LeaveEntry
<1>15. ASSUME NEW t \in Threads, Checkin(t) PROVE Pointers'
  <2>1. own[t] \in SAs /\ tgt' = tgt
    BY <1>15 DEF Checkin, Pointers
  <2>2. \/ pc' = [pc EXCEPT ![t] = "check"] /\ own' = own
        \/ pc' = [pc EXCEPT ![t] = "idle"] /\ own' = [own EXCEPT ![t] = NoSA]
    BY <1>15 DEF Checkin
  <2> QED
    BY <2>1, <2>2, PointersOfOne
<1>16. ASSUME NEW t \in Threads, FinishCheckin(t) PROVE Pointers'
  BY <1>16, PointersOfOne DEF FinishCheckin
<1>17. ASSUME NEW t \in Threads, Destroy(t) PROVE Pointers'
  BY <1>17, PointersCheckinAndDestroy DEF Destroy, Pointers
<1>18. ASSUME NEW t \in Threads, DriveOutMore(t) PROVE Pointers'
  <2>1. tgt[t] \in SAs
    BY <1>18 DEF DriveOutMore, Pointers
  <2> QED
    BY <1>18, <2>1, PointersDriveOut DEF DriveOutMore, threadVars
<1>19. ASSUME NEW t \in Threads, UntrackHalfOpen(t) \/ UntrackPeer(t) PROVE Pointers'
  <2>1. tgt[t] \in SAs
    BY <1>19 DEF UntrackHalfOpen, UntrackPeer, Pointers
  <2> QED
    BY <1>19, <2>1, PointersOfOne DEF UntrackHalfOpen, UntrackPeer, threadVars
<1>20. ASSUME NEW t \in Threads, FreeEntry(t) PROVE Pointers'
  <2>1. own[t] \in SAs \cup {NoSA}
    BY DEF TypeOK, ThreadType
  <2> QED
    BY <1>20, <2>1, PointersReturn DEF FreeEntry
<1>21. ASSUME NEW t \in Threads, CheckUniqueness(t) \/ CheckUniquenessLate(t) \/ EndUnique(t)
       PROVE Pointers'
  <2>1. own[t] \in SAs /\ own' = own /\ tgt' = tgt
    BY <1>21 DEF CheckUniqueness, CheckUniquenessLate, EndUnique, Pointers, threadVars
  <2>2. PICK p \in {"unique", "cancel", "use"} : pc' = [pc EXCEPT ![t] = p]
    BY <1>21 DEF CheckUniqueness, CheckUniquenessLate, EndUnique
  <2> QED
    BY <2>1, <2>2, PointersOfOne
<1>22. ASSUME NEW t \in Threads, NEW s \in SAs, CheckoutDuplicate(t, s) PROVE Pointers'
  BY <1>s, <1>22, PointersWaitForEntry DEF CheckoutDuplicate, WaitPcs, Pointers
<1>23. ASSUME NEW t \in Threads, CheckinSecond(t) PROVE Pointers'
  <2>1. own[t] \in SAs
    BY <1>23 DEF CheckinSecond, Pointers
  <2> QED
    BY <1>23, <2>1, PointersOfOne DEF CheckinSecond
<1>24. ASSUME NEW t \in Threads, DestroySecond(t) PROVE Pointers'
  <2>1. tgt[t] \in SAs /\ own[t] \in SAs
    BY <1>24 DEF DestroySecond, Pointers
  <2> QED
    BY <1>24, <2>1, PointersCheckinAndDestroy DEF DestroySecond
<1>25. CASE Flush
  <2>1. own' = own
    BY <1>25 DEF Flush, FlushMark, FlushVisit, FlushResume, FlushDestroy, FlushRng,
                 DestroyManager, DestroyAllEntries, threadVars
  <2>2. \E p : pc' = [pc EXCEPT ![Flusher] = p] \/ pc' = pc
    BY <1>25 DEF Flush, FlushMark, FlushVisit, FlushResume, FlushSleep, FlushDestroy,
                 FlushRng, DestroyManager
  <2>3. \E y : tgt' = [tgt EXCEPT ![Flusher] = y] \/ tgt' = tgt
    BY <1>25 DEF Flush, FlushMark, FlushVisit, FlushResume, FlushDestroy, FlushRng,
                 DestroyManager, DestroyAllEntries
  <2> QED
    BY <2>1, <2>2, <2>3, PointersOfFlusher
<1>26. CASE UNCHANGED vars
  BY <1>s, <1>26 DEF vars, threadVars
<1> QED
  BY <1>1, <1>3, <1>4, <1>5, <1>6, <1>7, <1>8, <1>9, <1>10, <1>11, <1>12, <1>13, <1>14,
     <1>15, <1>16, <1>17, <1>18, <1>19, <1>20, <1>21, <1>22, <1>23, <1>24, <1>25, <1>26
     DEF Next, Start, Continue

LEMMA TypeStep ==
  ASSUME TypeOK, Pointers, [Next]_vars
  PROVE  TypeOK'
<1> USE Frame, PcValues DEF TypeOK
<1>s. CASE UNCHANGED vars
  BY <1>s DEF vars
<1>t. todo \in [Threads -> SUBSET SAs]
  BY DEF ThreadType
<1>1. ASSUME NEW t \in Threads, NEW s \in SAs, Checkout(t, s) PROVE TypeOK'
  BY <1>1, <1>t, WaitForEntryType DEF Checkout, WaitPcs, threadVars
<1>2. ASSUME NEW t \in Threads, NEW s \in SAs, NEW m \in Mids \cup {InitMid},
             NEW fragment \in BOOLEAN, LookupMessage(t, s, m, fragment)
      PROVE TypeOK'
  BY <1>2, <1>t, WaitForEntryType DEF LookupMessage, WaitPcs, ActorType, threadVars
<1>3. ASSUME NEW t \in Threads, NEW s \in SAs, Message(t, s) PROVE TypeOK'
  BY <1>2, <1>3, <1>s DEF Message
<1>4. ASSUME NEW t \in Threads, LookupInit(t) PROVE TypeOK'
  <2>1. tgt[t] \in SAs
    BY <1>4 DEF Pointers, TgtPcs, LookupInit
  <2> QED
    BY <1>2, <1>4, <2>1 DEF LookupInit, ActorType
<1>5. ASSUME NEW t \in Threads, NEW m \in Messages, InitMessage(t, m) PROVE TypeOK'
  BY <1>5 DEF InitMessage, SaType, HashType, ActorType
<1>6. ASSUME NEW t \in Threads, CheckLimit(t) \/ CreateFails(t) PROVE TypeOK'
  BY <1>6 DEF CheckLimit, CreateFails, ActorType
<1>7. ASSUME NEW t \in Threads, PutNewEntry(t) PROVE TypeOK'
  BY <1>7 DEF Pointers, TgtPcs, PutNewEntry, SaType, EntryType, ActorType, ThreadType
<1>8. ASSUME NEW t \in Threads, DropInitHash(t) PROVE TypeOK'
  BY <1>8 DEF DropInitHash, RemoveInitHash, SaType, HashType, ActorType
<1>9. ASSUME NEW t \in Threads, CheckoutNew(t) PROVE TypeOK'
  <2>1. PICK s \in SAs, i \in BOOLEAN : New(s) /\ responder' = [responder EXCEPT ![s] = ~i]
                                               /\ own' = [own EXCEPT ![t] = s]
    BY <1>9 DEF CheckoutNew
  <2>2. SaType'
    BY <2>1 DEF New, SaType
  <2>3. ActorType' /\ ThreadType'
    BY <1>9, <2>1 DEF CheckoutNew, New, ActorType, ThreadType
  <2> QED
    BY <2>1, <2>2, <2>3 DEF New
<1>99. ASSUME NEW t \in Threads, Spawn(t) PROVE TypeOK'
  <2>1. PICK s \in SAs, i \in BOOLEAN : New(s) /\ responder' = [responder EXCEPT ![s] = ~i]
                                               /\ tgt' = [tgt EXCEPT ![t] = s]
    BY <1>99 DEF Spawn
  <2>2. SaType'
    BY <2>1 DEF New, SaType
  <2>3. ActorType' /\ ThreadType'
    BY <1>99, <2>1 DEF Spawn, New, ActorType, ThreadType
  <2> QED
    BY <2>1, <2>2, <2>3 DEF New
<1>10. ASSUME NEW t \in Threads, StartScan(t) PROVE TypeOK'
  BY <1>10 DEF StartScan, ActorType, ThreadType
<1>11. ASSUME NEW t \in Threads, Visit(t) PROVE TypeOK'
  BY <1>11, <1>t, WaitForEntryType DEF Visit, Following, Table, WaitPcs
<1>12. ASSUME NEW t \in Threads, EndScan(t) PROVE TypeOK'
  BY <1>12 DEF EndScan, New, SaType, ActorType, ThreadType
<1>13. ASSUME NEW t \in Threads, NEW s \in SAs, List(t, s) PROVE TypeOK'
  BY <1>13, SignalledType DEF List, ActorType
<1>14. ASSUME NEW t \in Threads, Resume(t) PROVE TypeOK'
  <2> DEFINE s == tgt[t]
  <2>0. s \in SAs /\ mid[t] \in Mids \cup {InitMid, NoMid} /\ pc[t] \in WaitPcs
    BY <1>14 DEF Resume, ThreadType, Pointers, TgtPcs
  <2> SUFFICES EntryType' /\ ActorType' /\ ThreadType'
    BY <1>14 DEF Resume
  <2>1. CASE SleepAgain(t, s)
    BY <1>14, <2>1 DEF Resume, SleepAgain, ActorType, threadVars
  <2>2. CASE LeaveEntry(t, pc[t], s)
    BY <1>14, <2>0, <2>2, SignalledType
       DEF Resume, LeaveEntry, Forget, EntryType, ActorType, ThreadType
  <2>3. CASE waiting' = [waiting EXCEPT ![s] = @ \ {t}] /\ Acquire(t, pc[t], s, mid[t])
    <3>1. waiting' \in [SAs -> SUBSET Threads]
      BY <2>3 DEF EntryType
    <3> QED
      BY <1>14, <1>t, <2>0, <2>3, <3>1, AcquireType DEF Resume
  <2> QED
    BY <1>14, <2>1, <2>2, <2>3 DEF Resume
<1>15. ASSUME NEW t \in Threads, Checkin(t) PROVE TypeOK'
  <2> DEFINE s == own[t]
  <2>1. PICK st \in IkeStates, h \in Hosts, contact \in BOOLEAN :
          /\ CheckinEntry(t, s, st, h, contact)
          /\ IF ChecksLate(s, st, contact)
             THEN /\ pc' = [pc EXCEPT ![t] = "check"]
                  /\ mode' = [mode EXCEPT ![t] = "FORCE"]
                  /\ late' = [late EXCEPT ![t] = TRUE]
                  /\ UNCHANGED own
             ELSE /\ pc' = [pc EXCEPT ![t] = "idle"]
                  /\ mode' = [mode EXCEPT ![t] = "none"]
                  /\ own' = [own EXCEPT ![t] = NoSA]
                  /\ UNCHANGED late
    BY <1>15 DEF Checkin, NextStates
  <2>2. s \in SAs
    BY <1>15 DEF Checkin, Pointers, OwnPcs
  <2>3. /\ pc' \in [Actors -> ThreadPcs \cup FlushPcs]
        /\ own' \in [Threads -> SAs \cup {NoSA}]
        /\ mode' \in [Threads -> Modes]
        /\ late' \in [Threads -> BOOLEAN]
        /\ UNCHANGED <<tgt, todo>>
    <3>1. UNCHANGED <<tgt, todo>>
      BY <1>15 DEF Checkin
    <3>2. CASE ChecksLate(s, st, contact)
      <4>1. /\ pc' = [pc EXCEPT ![t] = "check"]
            /\ mode' = [mode EXCEPT ![t] = "FORCE"]
            /\ late' = [late EXCEPT ![t] = TRUE]
            /\ own' = own
        BY <2>1, <3>2
      <4> QED
        BY <3>1, <4>1 DEF ActorType, ThreadType
    <3>3. CASE ~ChecksLate(s, st, contact)
      BY <2>1, <3>1, <3>3 DEF ActorType, ThreadType
    <3> QED
      BY <3>2, <3>3
  <2>4. /\ SaType' /\ EntryType' /\ FlagType' /\ TrackType' /\ HashType'
        /\ asleep' \subseteq Actors
        /\ UNCHANGED <<locked, mid>>
    BY <2>1, <2>2, CheckinEntryType
  <2>5. ActorType' /\ ThreadType'
    BY <2>3, <2>4 DEF ActorType, ThreadType
  <2> QED
    BY <2>4, <2>5
<1>16. ASSUME NEW t \in Threads, FinishCheckin(t) PROVE TypeOK'
  <2>1. EntryType' /\ ActorType' /\ ThreadType'
    BY <1>16, SignalledType DEF FinishCheckin, EntryType, ActorType, ThreadType
  <2>2. hasIds' \in [SAs -> BOOLEAN]
    BY <1>16 DEF FinishCheckin, TrackType
  <2>3. own[t] \in SAs
    BY <1>16 DEF FinishCheckin, Pointers, OwnPcs
  <2>4. TrackType'
    BY <1>16, <2>2, <2>3 DEF FinishCheckin, PutConnectedPeers, TrackType
  <2> QED
    BY <1>16, <2>1, <2>4 DEF FinishCheckin
<1>17. ASSUME NEW t \in Threads, Destroy(t) PROVE TypeOK'
  <2>1. ThreadType' /\ own[t] \in SAs
    BY <1>17 DEF Destroy, ThreadType, Pointers, OwnPcs
  <2> QED
    BY <1>17, <2>1, CheckinAndDestroyType DEF Destroy
<1>18. ASSUME NEW t \in Threads, DriveOutMore(t) PROVE TypeOK'
  BY <1>18 DEF DriveOutMore, DriveOut, Broadcast, SaType, EntryType, ActorType
<1>19. ASSUME NEW t \in Threads, UntrackHalfOpen(t) PROVE TypeOK'
  <2>1. TrackType'
    BY <1>19, HalfOpenType DEF UntrackHalfOpen, TrackType
  <2> QED
    BY <1>19, <2>1 DEF UntrackHalfOpen, ActorType
<1>20. ASSUME NEW t \in Threads, UntrackPeer(t) PROVE TypeOK'
  BY <1>20 DEF UntrackPeer, RemoveConnectedPeers, TrackType, ActorType
<1>21. ASSUME NEW t \in Threads, FreeEntry(t) PROVE TypeOK'
  BY <1>21 DEF FreeEntry, RemoveInitHash, Return, SaType, HashType, ActorType, threadVars
<1>22. ASSUME NEW t \in Threads, CheckUniqueness(t) PROVE TypeOK'
  BY <1>22 DEF CheckUniqueness, Duplicates, ActorType, ThreadType, TrackType
<1>23. ASSUME NEW t \in Threads, CheckUniquenessLate(t) PROVE TypeOK'
  BY <1>23 DEF CheckUniquenessLate, Duplicates, ActorType, ThreadType, TrackType
<1>24. ASSUME NEW t \in Threads, NEW s \in SAs, CheckoutDuplicate(t, s) PROVE TypeOK'
  <2>1. todo' \in [Threads -> SUBSET SAs]
    BY <1>24 DEF CheckoutDuplicate, ThreadType
  <2>2. CASE s \in Table /\ WaitForEntry(t, "dupwait", s, NoMid)
    BY <1>24, <2>1, <2>2, WaitForEntryType DEF CheckoutDuplicate, WaitPcs
  <2>3. CASE UNCHANGED <<holder, waiting, processing, asleep, pc, tgt, own, mid, mode>>
    BY <1>24, <2>1, <2>3 DEF CheckoutDuplicate, ThreadType
  <2> QED
    BY <1>24, <2>2, <2>3 DEF CheckoutDuplicate
<1>25. ASSUME NEW t \in Threads, CheckinSecond(t) PROVE TypeOK'
  <2> DEFINE s == tgt[t]
  <2>1. s \in SAs
    BY <1>25 DEF CheckinSecond, Pointers, TgtPcs
  <2>2. \A tr \in Treatments(t, s) : tr[1] \in IkeStates /\ tr[2] \in Modes
    <3>1. state[s] \in IkeStates /\ mode[t] \in Modes
      BY <2>1 DEF SaType, ThreadType
    <3> QED
      BY <3>1 DEF Treatments, IkeStates
  <2>3. PICK st \in IkeStates, h \in Hosts, m \in Modes :
          /\ CheckinEntry(t, s, st, h, FALSE)
          /\ UNCHANGED mode \/ mode' = [mode EXCEPT ![t] = m]
    <3>1. PICK h \in Hosts :
            \/ /\ \E st \in NextStates(state[s]) : CheckinEntry(t, s, st, h, FALSE)
               /\ UNCHANGED mode
            \/ \E tr \in Treatments(t, s) :
                 /\ CheckinEntry(t, s, tr[1], h, FALSE)
                 /\ mode' = [mode EXCEPT ![t] = tr[2]]
      BY <1>25 DEF CheckinSecond
    <3> QED
      BY <2>2, <3>1 DEF NextStates
  <2>4. /\ SaType' /\ EntryType' /\ FlagType' /\ TrackType' /\ HashType'
        /\ asleep' \subseteq Actors
        /\ UNCHANGED <<locked, mid>>
    BY <2>1, <2>3, CheckinEntryType
  <2>5. ActorType' /\ ThreadType'
    BY <1>25, <2>3, <2>4 DEF CheckinSecond, ActorType, ThreadType
  <2> QED
    BY <2>4, <2>5
<1>26. ASSUME NEW t \in Threads, DestroySecond(t) PROVE TypeOK'
  <2>1. ThreadType' /\ tgt[t] \in SAs
    BY <1>26 DEF DestroySecond, ThreadType, Pointers, TgtPcs
  <2> QED
    BY <1>26, <2>1, CheckinAndDestroyType DEF DestroySecond
<1>27. ASSUME NEW t \in Threads, EndUnique(t) PROVE TypeOK'
  BY <1>27 DEF EndUnique, ActorType
<1>28. CASE FlushMark
  BY <1>28 DEF FlushMark, FlagType, ActorType
<1>29. CASE FlushVisit
  <2>1. ActorType'
    BY <1>29, SignalledType DEF FlushVisit, FlushSleep, Following, Table, Broadcast, ActorType
  <2> QED
    BY <1>29, <2>1 DEF FlushVisit
<1>30. CASE FlushResume
  <2>1. ActorType'
    BY <1>30, SignalledType DEF FlushResume, FlushSleep, Broadcast, ActorType
  <2> QED
    BY <1>30, <2>1 DEF FlushResume
<1>31. CASE FlushDestroy \/ DestroyManager
  BY <1>31, DestroyAllType DEF FlushDestroy, DestroyManager, ActorType
<1>32. CASE FlushRng
  BY <1>32 DEF FlushRng, HashType, ActorType
<1> QED
  BY <1>s, <1>1, <1>3, <1>4, <1>5, <1>6, <1>7, <1>8, <1>9, <1>99, <1>10, <1>11, <1>12, <1>13,
     <1>14, <1>15, <1>16, <1>17, <1>18, <1>19, <1>20, <1>21, <1>22, <1>23, <1>24, <1>25,
     <1>26, <1>27, <1>28, <1>29, <1>30, <1>31, <1>32 DEF Next, Start, Continue, Flush

\* Whatever the constants are, every variable of the manager keeps its type.
THEOREM TypeCorrect == Spec => []TypeOK
<1>1. Init => TypeOK /\ Pointers
  BY ConstantAssumption
     DEF Init, TypeOK, SaType, EntryType, FlagType, TrackType, HashType, ActorType,
         ThreadType, Actors, ThreadPcs, FlushPcs, Modes, IkeStates, SAs,
         Pointers, OwnPcs, TgtPcs, WaitPcs, RemovePcs
<1>2. TypeOK /\ Pointers /\ [Next]_vars => (TypeOK /\ Pointers)'
  BY TypeStep, PointersStep
<1> QED
  BY <1>1, <1>2, PTL DEF Spec

\* The pointers are part of the invariant.
LEMMA PointersCorrect == Spec => []Pointers
<1>1. Init => Pointers
  BY DEF Init, Pointers, OwnPcs, TgtPcs, WaitPcs, RemovePcs, Actors
<1>2. TypeOK /\ Pointers /\ [Next]_vars => Pointers'
  BY PointersStep
<1> QED
  BY <1>1, <1>2, TypeCorrect, PTL DEF Spec

-----------------------------------------------------------------------------
(* Exclusive use of SAs and entries, as long as nobody calls flush().        *)

Alive == {"new", "table", "removed"}
NewPcs == {"limit", "create", "unhash"}
UsePcs == {"second", "drive"} \cup RemovePcs

\* Thread t works on SA s or is about to create it.
Involved(t, s) == Uses(t, s) \/ (tgt[t] = s /\ pc[t] \in NewPcs)

\* What thread t relies on: the SAs it uses are alive and, in the table, marked
\* as checked out by it; the SPI it has drawn is not yet an SA; the entry it
\* removes is not its own one; the entry it sleeps on is in the table, and
\* counts it among its waiting threads (flush() sleeps elsewhere).
Safe(t) ==
  /\ \A s \in SAs : Uses(t, s) => /\ life[s] \in Alive
                                  /\ life[s] = "table" => holder[s] = t
  /\ pc[t] \in NewPcs => life[tgt[t]] = "spi"
  /\ pc[t] \in UsePcs => own[t] # tgt[t]
  /\ pc[t] = "drive" => life[tgt[t]] = "table"
  /\ pc[t] \in RemovePcs => life[tgt[t]] = "removed"
  /\ pc[t] \in WaitPcs => life[tgt[t]] = "table" /\ t \in waiting[tgt[t]]
  /\ pc[t] # "sleep"

\* No two threads are involved with the same SA.
Apart == \A t, u \in Threads : t # u =>
           \A s \in SAs : ~(Involved(t, s) /\ Involved(u, s))

Safety == /\ \A t \in Threads : Safe(t)
          /\ Apart
          /\ pc[Flusher] = "off"

\* Thread t goes to p, works on x and deals with y; no other thread moves.
Moved(t, p, x, y) ==
  /\ pc'[t] = p /\ own'[t] = x /\ tgt'[t] = y
  /\ \A u \in Threads \ {t} : pc'[u] = pc[u] /\ own'[u] = own[u] /\ tgt'[u] = tgt[u]
  /\ pc'[Flusher] = pc[Flusher]

\* No thread but t leaves a queue of waiting threads.
QueuesKept(t) == \A s \in SAs, u \in Threads \ {t} : u \in waiting[s] => u \in waiting'[s]

LEMMA Moves ==
  ASSUME TypeOK, NEW t \in Threads, NEW p, NEW x, NEW y,
         pc' = [pc EXCEPT ![t] = p] \/ (pc' = pc /\ p = pc[t]),
         own' = [own EXCEPT ![t] = x] \/ (own' = own /\ x = own[t]),
         tgt' = [tgt EXCEPT ![t] = y] \/ (tgt' = tgt /\ y = tgt[t])
  PROVE  Moved(t, p, x, y)
  BY ConstantAssumption, PcValues DEF TypeOK, ActorType, ThreadType, Moved

LEMMA Queues ==
  ASSUME TypeOK, NEW t \in Threads, NEW s,
         \/ waiting' = waiting
         \/ waiting' = [waiting EXCEPT ![s] = @ \cup {t}]
         \/ waiting' = [waiting EXCEPT ![s] = @ \ {t}]
  PROVE  QueuesKept(t)
  BY DEF TypeOK, EntryType, QueuesKept

\* Another thread that moves not, and whose SAs change not, stays safe.
LEMMA SafeOther ==
  ASSUME TypeOK, Pointers, NEW u \in Threads, Safe(u),
         pc'[u] = pc[u], own'[u] = own[u], tgt'[u] = tgt[u],
         \A s \in SAs : Involved(u, s) => life'[s] = life[s] /\ holder'[s] = holder[s],
         \A s \in SAs : u \in waiting[s] =>
            u \in waiting'[s] /\ (life[s] = "table" => life'[s] = "table")
  PROVE  Safe(u)'
<1>1. /\ \A s \in SAs : Uses(u, s)' <=> Uses(u, s)
      /\ \A s \in SAs : Involved(u, s)' <=> Involved(u, s)
  BY DEF Uses, Involved
<1>2. /\ pc[u] \in TgtPcs => tgt[u] \in SAs
      /\ NewPcs \cup UsePcs \cup WaitPcs \subseteq TgtPcs
  BY DEF Pointers, TgtPcs, NewPcs, UsePcs, WaitPcs, RemovePcs
<1>3. \A s \in SAs : Uses(u, s)' => /\ life'[s] \in Alive
                                    /\ life'[s] = "table" => holder'[s] = u
  BY <1>1 DEF Safe, Involved
<1>4. pc'[u] \in NewPcs => life'[tgt'[u]] = "spi"
  BY <1>2 DEF Safe, Involved
<1>5. pc'[u] \in UsePcs => own'[u] # tgt'[u]
  BY DEF Safe
<1>6. /\ pc'[u] = "drive" => life'[tgt'[u]] = "table"
      /\ pc'[u] \in RemovePcs => life'[tgt'[u]] = "removed"
  BY <1>2 DEF Safe, Involved, Uses, UsePcs
<1>7. pc'[u] \in WaitPcs => life'[tgt'[u]] = "table" /\ u \in waiting'[tgt'[u]]
  BY <1>2 DEF Safe
<1> QED
  BY <1>3, <1>4, <1>5, <1>6, <1>7 DEF Safe

\* A step of t that changes no SA.
LEMMA QuietStep ==
  ASSUME TypeOK, Pointers, Safety, NEW t \in Threads, NEW p, NEW y,
         Moved(t, p, own[t], y), life' = life, holder' = holder, QueuesKept(t),
         p \notin {"second", "drive", "sleep"},
         p \in RemovePcs => pc[t] \in RemovePcs /\ y = tgt[t],
         p \in NewPcs => pc[t] \in NewPcs /\ y = tgt[t],
         p \in WaitPcs => y \in SAs /\ life[y] = "table" /\ t \in waiting'[y]
  PROVE  Safety'
<1>1. \A u \in Threads, s \in SAs : Involved(u, s)' => Involved(u, s)
  BY DEF Moved, Involved, Uses
<1>2. Apart'
  BY <1>1 DEF Safety, Apart
<1>3. Safe(t)'
  BY DEF Safety, Safe, Moved, Uses, UsePcs, NewPcs, RemovePcs, WaitPcs
<1>4. ASSUME NEW u \in Threads \ {t} PROVE Safe(u)'
  BY <1>4, SafeOther DEF Safety, Moved, QueuesKept
<1> QED
  BY <1>2, <1>3, <1>4 DEF Safety, Moved

\* A step of t that changes or takes SA s, with which no other thread is
\* involved.
LEMMA StepOnSA ==
  ASSUME TypeOK, Pointers, Safety, NEW t \in Threads, NEW s \in SAs, NEW p, NEW x, NEW y,
         Moved(t, p, x, y), QueuesKept(t),
         \A r \in SAs \ {s} : life'[r] = life[r] /\ holder'[r] = holder[r],
         \A u \in Threads \ {t} : ~Involved(u, s),
         life[s] = "table" /\ life'[s] # "table" => waiting[s] = {},
         x \in {NoSA, s, own[t]},
         x = s \/ p \in UsePcs =>
           life'[s] \in Alive /\ (life'[s] = "table" => holder'[s] = t),
         p \in UsePcs => y = s /\ x # s,
         p = "drive" => life'[s] = "table",
         p \in RemovePcs => life'[s] = "removed",
         p \in NewPcs => y = s /\ life'[s] = "spi",
         p \notin WaitPcs, p # "sleep"
  PROVE  Safety'
<1>0. NoSA \notin SAs
  BY DEF NoSA, SAs
<1>1. \A r \in SAs \ {s} : Involved(t, r)' => Involved(t, r)
  BY <1>0 DEF Moved, Involved, Uses, UsePcs
<1>2. \A u \in Threads \ {t}, r \in SAs : Involved(u, r)' => Involved(u, r)
  BY DEF Moved, Involved, Uses
<1>3. Apart'
  BY <1>1, <1>2 DEF Safety, Apart
<1>4. Safe(t)'
  <2>1. ASSUME NEW r \in SAs, Uses(t, r)'
        PROVE  life'[r] \in Alive /\ (life'[r] = "table" => holder'[r] = t)
    <3>1. CASE r = s
      <4>1. x = s \/ p \in UsePcs
        BY <2>1, <3>1 DEF Uses, Moved, UsePcs
      <4> QED
        BY <3>1, <4>1
    <3>2. CASE r # s
      <4>1. Uses(t, r)
        BY <2>1, <3>2, <1>0 DEF Uses, Moved, UsePcs
      <4> QED
        BY <3>2, <4>1 DEF Safety, Safe
    <3> QED
      BY <3>1, <3>2
  <2> QED
    BY <2>1 DEF Moved, Safe, UsePcs
<1>5. ASSUME NEW u \in Threads \ {t} PROVE Safe(u)'
  BY <1>5, SafeOther DEF Safety, Moved, QueuesKept
<1> QED
  BY <1>3, <1>4, <1>5 DEF Safety, Moved

\* Nobody is involved with an SPI that is not drawn or an entry that is free.
LEMMA Unclaimed ==
  ASSUME TypeOK, Safety, NEW s \in SAs,
         life[s] = "unused" \/ (life[s] = "table" /\ ~CheckedOut(s))
  PROVE  \A u \in Threads : ~Involved(u, s)
<1> SUFFICES ASSUME NEW u \in Threads, Involved(u, s) PROVE FALSE
  OBVIOUS
<1>1. Safe(u)
  BY DEF Safety
<1> QED
  BY <1>1, ConstantAssumption DEF Safe, Involved, CheckedOut, Alive

\* What a thread uses, or is about to create, is its own.
LEMMA Claimed ==
  ASSUME Safety, NEW t \in Threads, NEW s \in SAs, Involved(t, s)
  PROVE  \A u \in Threads \ {t} : ~Involved(u, s)
  BY DEF Safety, Apart

\* Which groups the places belong to.
LEMMA PcKinds ==
  /\ {"idle", "use", "cancel", "check", "unique", "lookup", "scan"}
       \cap (NewPcs \cup UsePcs \cup RemovePcs \cup WaitPcs) = {}
  /\ NewPcs \cap (UsePcs \cup RemovePcs \cup WaitPcs) = {}
  /\ WaitPcs \cap (UsePcs \cup RemovePcs \cup NewPcs) = {}
  /\ UsePcs \cap (WaitPcs \cup NewPcs) = {}
  /\ {"second", "drive"} \subseteq UsePcs /\ {"second", "drive"} \cap RemovePcs = {}
  /\ RemovePcs = {"unhalf", "unpeer", "uninit"} /\ RemovePcs \subseteq UsePcs
  /\ NewPcs = {"limit", "create", "unhash"}
  /\ "second" # "drive" /\ "sleep" \notin WaitPcs
  /\ \A q \in WaitPcs : Resigned(q) \in {"idle", "scan", "unique"}
  BY DEF NewPcs, UsePcs, RemovePcs, WaitPcs, Resigned

LEMMA SafeTake ==
  ASSUME TypeOK, Pointers, Safety, NEW t \in Threads, NEW q, NEW s \in SAs, NEW m,
         Take(t, q, s, m), life[s] = "table", ~CheckedOut(s), life' = life, QueuesKept(t)
  PROVE  Safety'
<1>1. \A u \in Threads : ~Involved(u, s)
  BY Unclaimed
<1>2. /\ \A r \in SAs \ {s} : holder'[r] = holder[r]
      /\ holder'[s] = t
  BY DEF Take, TypeOK, EntryType
<1>3. own[t] # s
  BY <1>1 DEF Involved, Uses
<1>4. CASE q = "dupwait"
  <2>1. Moved(t, "second", own[t], s)
    BY <1>4, Moves DEF Take
  <2> QED
    BY <1>1, <1>2, <1>3, <2>1, PcKinds, StepOnSA DEF Alive
<1>5. CASE q # "dupwait"
  <2>1. Moved(t, "use", s, NoSA)
    BY <1>5, Moves DEF Take
  <2> QED
    BY <1>1, <1>2, <2>1, PcKinds, StepOnSA DEF Alive
<1> QED
  BY <1>4, <1>5

LEMMA SafeAcquire ==
  ASSUME TypeOK, Pointers, Safety, NEW t \in Threads, NEW q, NEW s \in SAs, NEW m,
         Acquire(t, q, s, m), life[s] = "table", ~CheckedOut(s), life' = life, QueuesKept(t)
  PROVE  Safety'
<1>1. CASE PassOver(t, s)
  <2>1. Moved(t, "scan", own[t], s)
    BY <1>1, Moves DEF PassOver
  <2> QED
    BY <1>1, <2>1, PcKinds, QuietStep DEF PassOver
<1> QED
  BY <1>1, SafeTake DEF Acquire

LEMMA SafeWaitForEntry ==
  ASSUME TypeOK, Pointers, Safety, NEW t \in Threads, NEW q \in WaitPcs, NEW s \in SAs,
         NEW m, WaitForEntry(t, q, s, m), life[s] = "table", life' = life
  PROVE  Safety'
<1>1. CASE Refuse(t, q, s)
  <2>1. PICK y : Moved(t, Resigned(q), own[t], y)
    BY <1>1, Moves DEF Refuse, Forget
  <2>2. QueuesKept(t)
    BY <1>1, Queues DEF Refuse
  <2> QED
    BY <1>1, <2>1, <2>2, PcKinds, QuietStep DEF Refuse
<1>2. CASE Enqueue(t, q, s, m)
  <2>1. Moved(t, q, own[t], s)
    BY <1>2, Moves DEF Enqueue
  <2>2. QueuesKept(t) /\ t \in waiting'[s]
    BY <1>2, Queues DEF Enqueue, TypeOK, EntryType
  <2> QED
    BY <1>2, <2>1, <2>2, PcKinds, QuietStep DEF Enqueue
<1>3. CASE ~CheckedOut(s) /\ Acquire(t, q, s, m) /\ UNCHANGED waiting
  BY <1>3, Queues, SafeAcquire
<1> QED
  BY <1>1, <1>2, <1>3 DEF WaitForEntry

\* checkin() ends the use of s, unless its uniqueness is checked first.
LEMMA SafeCheckinEntry ==
  ASSUME TypeOK, Pointers, Safety, NEW t \in Threads, NEW s \in SAs, NEW st, NEW h,
         NEW contact, NEW p \in {"idle", "check", "unique"}, NEW x, NEW y,
         CheckinEntry(t, s, st, h, contact), Moved(t, p, x, y), Involved(t, s),
         x \in {NoSA, s, own[t]}, x = s => ChecksLate(s, st, contact)
  PROVE  Safety'
<1>1. \A u \in Threads \ {t} : ~Involved(u, s)
  BY Claimed
<1>2. /\ \A r \in SAs \ {s} : life'[r] = life[r] /\ holder'[r] = holder[r]
      /\ life'[s] = "table"
      /\ x = s => holder'[s] = t
  BY DEF CheckinEntry, Release, TypeOK, SaType, EntryType
<1>3. QueuesKept(t)
  BY Queues DEF CheckinEntry
<1> QED
  BY <1>1, <1>2, <1>3, PcKinds, StepOnSA DEF Alive

\* The loop of checkin_and_destroy(): t uses entry s.
LEMMA SafeDriveOut ==
  ASSUME TypeOK, Pointers, Safety, NEW t \in Threads, NEW s \in SAs, NEW x,
         DriveOut(t, s), UNCHANGED holder, Involved(t, s), life[s] = "table",
         x \in {NoSA, own[t]}, x # s, holder[s] = t,
         own' = [own EXCEPT ![t] = x] \/ (own' = own /\ x = own[t]),
         tgt' = [tgt EXCEPT ![t] = s] \/ (tgt' = tgt /\ s = tgt[t])
  PROVE  Safety'
<1>1. \A u \in Threads \ {t} : ~Involved(u, s)
  BY Claimed
<1>2. QueuesKept(t)
  BY Queues DEF DriveOut
<1>3. CASE AllDrivenOut(s)
  <2>1. Moved(t, "unhalf", x, s)
    BY <1>3, Moves DEF DriveOut
  <2>2. /\ \A r \in SAs \ {s} : life'[r] = life[r] /\ holder'[r] = holder[r]
        /\ life'[s] = "removed"
    BY <1>3 DEF DriveOut, TypeOK, SaType
  <2> QED
    BY <1>1, <1>2, <1>3, <2>1, <2>2, PcKinds, StepOnSA DEF AllDrivenOut, Alive
<1>4. CASE ~AllDrivenOut(s)
  <2>1. Moved(t, "drive", x, s)
    BY <1>4, Moves DEF DriveOut
  <2>2. life' = life
    BY <1>4 DEF DriveOut
  <2> QED
    BY <1>1, <1>2, <2>1, <2>2, PcKinds, StepOnSA DEF Alive
<1> QED
  BY <1>3, <1>4

LEMMA SafeReturn ==
  ASSUME TypeOK, Pointers, Safety, NEW t \in Threads, NEW s \in SAs, NEW x,
         Return(t), Involved(t, s), x \in {NoSA, own[t]}, x # s, QueuesKept(t),
         own' = [own EXCEPT ![t] = x] \/ (own' = own /\ x = own[t]),
         tgt' = [tgt EXCEPT ![t] = NoSA],
         \A r \in SAs \ {s} : life'[r] = life[r] /\ holder'[r] = holder[r],
         life[s] = "table" => life'[s] = "table"
  PROVE  Safety'
<1>1. \A u \in Threads \ {t} : ~Involved(u, s)
  BY Claimed
<1>2. PICK p \in {"idle", "unique"} : pc' = [pc EXCEPT ![t] = p]
  BY DEF Return
<1>3. Moved(t, p, x, NoSA)
  BY <1>2, Moves
<1> QED
  BY <1>1, <1>3, PcKinds, StepOnSA

LEMMA SafeCheckinAndDestroy ==
  ASSUME TypeOK, Pointers, Safety, NEW t \in Threads, NEW s \in SAs, NEW x,
         CheckinAndDestroy(t, s), Uses(t, s), x \in {NoSA, own[t]}, x # s,
         own' = [own EXCEPT ![t] = x] \/ (own' = own /\ x = own[t])
  PROVE  Safety'
<1>0. Involved(t, s) /\ (life[s] = "table" => holder[s] = t)
  BY DEF Involved, Safety, Safe
<1>1. CASE DestroyUnknown(t, s)
  <2>1. /\ \A r \in SAs \ {s} : life'[r] = life[r] /\ holder'[r] = holder[r]
        /\ life[s] # "table"
        /\ QueuesKept(t)
    BY <1>1, Queues DEF DestroyUnknown, TypeOK, SaType
  <2> QED
    BY <1>0, <1>1, <2>1, SafeReturn DEF DestroyUnknown
<1>2. CASE IgnoreDestroy(t, s)
  <2>1. /\ \A r \in SAs \ {s} : life'[r] = life[r] /\ holder'[r] = holder[r]
        /\ life' = life
        /\ QueuesKept(t)
    BY <1>2, Queues DEF IgnoreDestroy, TypeOK, EntryType, saVars
  <2> QED
    BY <1>0, <1>2, <2>1, SafeReturn DEF IgnoreDestroy
<1>3. CASE CloseEntry(t, s)
  BY <1>0, <1>3, SafeDriveOut DEF CloseEntry
<1> QED
  BY <1>1, <1>2, <1>3 DEF CheckinAndDestroy

\* Every step but those of flush() keeps the invariant.
LEMMA SafetyStep ==
  ASSUME "flush" \notin Jobs, TypeOK, Pointers, Safety, [Next]_vars
  PROVE  Safety'
<1> USE PcKinds
<1>s. ASSUME UNCHANGED <<life, holder, waiting, pc, own, tgt>> PROVE Safety'
  BY <1>s DEF Safety, Safe, Apart, Involved, Uses
<1>1. ASSUME NEW t \in Threads, NEW s \in SAs, Checkout(t, s) PROVE Safety'
  <2>1. CASE s \in Table /\ WaitForEntry(t, "wait", s, NoMid)
    BY <1>1, <2>1, SafeWaitForEntry DEF Checkout, Table, WaitPcs, saVars
  <2> QED
    BY <1>s, <1>1, <2>1 DEF Checkout, saVars
<1>2. ASSUME NEW t \in Threads, NEW s \in Table, NEW m, NEW fragment,
             LookupMessage(t, s, m, fragment)
      PROVE Safety'
  <2>1. CASE WaitForEntry(t, "wait", s, IF fragment THEN NoMid ELSE m)
    BY <1>2, <2>1, SafeWaitForEntry DEF LookupMessage, Table, WaitPcs, saVars
  <2>2. CASE /\ pc' = [pc EXCEPT ![t] = "idle"] /\ tgt' = [tgt EXCEPT ![t] = NoSA]
             /\ UNCHANGED <<holder, waiting, own>>
    <3>1. Moved(t, "idle", own[t], NoSA) /\ QueuesKept(t)
      BY <2>2, Moves, Queues
    <3> QED
      BY <1>2, <2>2, <3>1, QuietStep DEF LookupMessage, saVars
  <2> QED
    BY <1>2, <2>1, <2>2 DEF LookupMessage
<1>3. ASSUME NEW t \in Threads, NEW s \in SAs, Message(t, s) \/ List(t, s) PROVE Safety'
  BY <1>s, <1>2, <1>3 DEF Message, List, vars, saVars, threadVars
<1>4. ASSUME NEW t \in Threads, LookupInit(t) PROVE Safety'
  <2>1. CASE tgt[t] \in Table /\ LookupMessage(t, tgt[t], InitMid, FALSE)
    BY <1>2, <2>1
  <2>2. CASE /\ pc' = [pc EXCEPT ![t] = "idle"] /\ tgt' = [tgt EXCEPT ![t] = NoSA]
             /\ UNCHANGED <<life, holder, waiting, own>>
    <3>1. Moved(t, "idle", own[t], NoSA) /\ QueuesKept(t)
      BY <2>2, Moves, Queues
    <3> QED
      BY <2>2, <3>1, QuietStep
  <2> QED
    BY <1>4, <2>1, <2>2 DEF LookupInit, saVars, threadVars
<1>5. ASSUME NEW t \in Threads, NEW m \in Messages, InitMessage(t, m) PROVE Safety'
  <2>0. holder' = holder /\ own' = own /\ QueuesKept(t)
    BY <1>5, Queues DEF InitMessage, threadVars
  <2>1. CASE /\ pc' = [pc EXCEPT ![t] = "lookup"] /\ tgt' = [tgt EXCEPT ![t] = initHashes[m]]
             /\ life' = life
    <3>1. Moved(t, "lookup", own[t], initHashes[m])
      BY <2>0, <2>1, Moves
    <3> QED
      BY <2>0, <2>1, <3>1, QuietStep
  <2>2. ASSUME NEW s \in SAs, life[s] = "unused", life' = [life EXCEPT ![s] = "spi"],
               pc' = [pc EXCEPT ![t] = "limit"], tgt' = [tgt EXCEPT ![t] = s]
        PROVE Safety'
    <3>1. Moved(t, "limit", own[t], s)
      BY <2>0, <2>2, Moves
    <3>2. \A u \in Threads : ~Involved(u, s)
      BY <2>2, Unclaimed
    <3>3. own[t] # s
      BY <3>2 DEF Involved, Uses
    <3>4. life'[s] = "spi" /\ \A r \in SAs \ {s} : life'[r] = life[r]
      BY <2>2 DEF TypeOK, SaType
    <3> QED
      BY <2>0, <2>2, <3>1, <3>2, <3>3, <3>4, StepOnSA
  <2> QED
    BY <1>s, <1>5, <2>1, <2>2 DEF InitMessage, threadVars
<1>6. ASSUME NEW t \in Threads, CheckLimit(t) \/ CreateFails(t) PROVE Safety'
  <2>1. PICK p \in {"create", "unhash"} : Moved(t, p, own[t], tgt[t])
    BY <1>6, Moves DEF CheckLimit, CreateFails, threadVars
  <2>2. pc[t] \in NewPcs /\ life' = life /\ holder' = holder /\ QueuesKept(t)
    BY <1>6, Queues DEF CheckLimit, CreateFails, saVars
  <2> QED
    BY <2>1, <2>2, QuietStep
<1>7. ASSUME NEW t \in Threads, PutNewEntry(t) PROVE Safety'
  <2> DEFINE s == tgt[t]
  <2>1. s \in SAs /\ Involved(t, s)
    BY <1>7, PcGroups DEF PutNewEntry, Pointers, Involved
  <2>2. \A u \in Threads \ {t} : ~Involved(u, s)
    BY <2>1, Claimed
  <2>3. Moved(t, "use", s, NoSA) /\ QueuesKept(t)
    BY <1>7, Moves, Queues DEF PutNewEntry
  <2>4. /\ \A r \in SAs \ {s} : life'[r] = life[r] /\ holder'[r] = holder[r]
        /\ life'[s] = "table" /\ holder'[s] = t
    BY <1>7, <2>1 DEF PutNewEntry, TypeOK, SaType, EntryType
  <2> QED
    BY <2>1, <2>2, <2>3, <2>4, StepOnSA DEF Alive
<1>8. ASSUME NEW t \in Threads, DropInitHash(t) PROVE Safety'
  <2> DEFINE s == tgt[t]
  <2>1. s \in SAs /\ Involved(t, s) /\ life[s] = "spi"
    BY <1>8, PcGroups DEF DropInitHash, Pointers, Involved, Safety, Safe
  <2>2. \A u \in Threads \ {t} : ~Involved(u, s)
    BY <2>1, Claimed
  <2>3. own[t] # s
    BY <2>1 DEF Safety, Safe, Uses, Alive
  <2>4. Moved(t, "idle", own[t], NoSA) /\ QueuesKept(t)
    BY <1>8, Moves, Queues DEF DropInitHash, threadVars
  <2>5. \A r \in SAs \ {s} : life'[r] = life[r] /\ holder'[r] = holder[r]
    BY <1>8 DEF DropInitHash, TypeOK, SaType
  <2> QED
    BY <2>1, <2>2, <2>3, <2>4, <2>5, StepOnSA
<1>9. ASSUME NEW t \in Threads, NEW s \in SAs, New(s), NEW p \in {"use", "second"}, NEW x, NEW y,
             Moved(t, p, x, y), p = "use" => x = s, p = "second" => x = own[t] /\ y = s
      PROVE Safety'
  <2>1. \A u \in Threads : ~Involved(u, s)
    BY <1>9, Unclaimed DEF New
  <2>2. own[t] # s
    BY <2>1 DEF Involved, Uses
  <2>3. /\ \A r \in SAs \ {s} : life'[r] = life[r] /\ holder'[r] = holder[r]
        /\ life'[s] = "new" /\ life[s] # "table" /\ QueuesKept(t)
    BY <1>9, Queues DEF New, TypeOK, SaType
  <2> QED
    BY <1>9, <2>1, <2>2, <2>3, StepOnSA DEF Alive
<1>10. ASSUME NEW t \in Threads, CheckoutNew(t) \/ Spawn(t) PROVE Safety'
  <2>1. CASE CheckoutNew(t)
    <3>1. PICK s \in SAs : New(s) /\ own' = [own EXCEPT ![t] = s]
      BY <2>1 DEF CheckoutNew
    <3>2. Moved(t, "use", s, tgt[t])
      BY <2>1, <3>1, Moves DEF CheckoutNew
    <3> QED
      BY <1>9, <3>1, <3>2
  <2>2. CASE Spawn(t)
    <3>1. PICK s \in SAs : New(s) /\ tgt' = [tgt EXCEPT ![t] = s]
      BY <2>2 DEF Spawn
    <3>2. Moved(t, "second", own[t], s)
      BY <2>2, <3>1, Moves DEF Spawn
    <3> QED
      BY <1>9, <3>1, <3>2
  <2> QED
    BY <1>10, <2>1, <2>2
<1>11. ASSUME NEW t \in Threads, StartScan(t) PROVE Safety'
  <2>1. Moved(t, "scan", own[t], tgt[t]) /\ QueuesKept(t)
    BY <1>11, Moves, Queues DEF StartScan
  <2>2. life' = life /\ holder' = holder
    BY <1>11 DEF StartScan, saVars
  <2> QED
    BY <2>1, <2>2, QuietStep
<1>12. ASSUME NEW t \in Threads, Visit(t) PROVE Safety'
  <2>1. PICK s \in Table : WaitForEntry(t, "scanwait", s, NoMid)
    BY <1>12 DEF Visit, Following
  <2> QED
    BY <1>12, <2>1, SafeWaitForEntry DEF Visit, Table, WaitPcs, saVars
<1>13. ASSUME NEW t \in Threads, EndScan(t) PROVE Safety'
  <2>1. ASSUME NEW s \in SAs, New(s), own' = [own EXCEPT ![t] = s],
               pc' = [pc EXCEPT ![t] = "use"]
        PROVE Safety'
    <3>1. Moved(t, "use", s, NoSA)
      BY <1>13, <2>1, Moves DEF EndScan
    <3> QED
      BY <1>9, <2>1, <3>1
  <2>2. CASE UNCHANGED <<life, holder, waiting, own>> /\ pc' = [pc EXCEPT ![t] = "idle"]
    <3>1. Moved(t, "idle", own[t], NoSA) /\ QueuesKept(t)
      BY <1>13, <2>2, Moves, Queues DEF EndScan
    <3> QED
      BY <2>2, <3>1, QuietStep
  <2> QED
    BY <1>13, <2>1, <2>2 DEF EndScan
<1>14. ASSUME NEW t \in Threads, Resume(t) PROVE Safety'
  <2> DEFINE s == tgt[t]
  <2>1. s \in SAs /\ pc[t] \in WaitPcs /\ life[s] = "table" /\ life' = life
    BY <1>14, PcGroups DEF Resume, Pointers, Safety, Safe, saVars
  <2>2. CASE LeaveEntry(t, pc[t], s)
    <3>1. PICK y : Moved(t, Resigned(pc[t]), own[t], y)
      BY <2>2, Moves DEF LeaveEntry, Forget
    <3>2. QueuesKept(t)
      BY <2>2, Queues DEF LeaveEntry
    <3>3. Resigned(pc[t]) \in {"idle", "scan", "unique"} /\ holder' = holder
      BY <2>1, <2>2 DEF LeaveEntry
    <3> QED
      BY <2>1, <3>1, <3>2, <3>3, QuietStep
  <2>3. CASE /\ ~CheckedOut(s)
             /\ waiting' = [waiting EXCEPT ![s] = @ \ {t}]
             /\ Acquire(t, pc[t], s, mid[t])
    <3>1. QueuesKept(t)
      BY <2>3, Queues
    <3> QED
      BY <2>1, <2>3, <3>1, SafeAcquire
  <2> QED
    BY <1>s, <1>14, <2>1, <2>2, <2>3 DEF Resume, SleepAgain
<1>15. ASSUME NEW t \in Threads, Checkin(t) PROVE Safety'
  <2> DEFINE s == own[t]
  <2>1. s \in SAs /\ Involved(t, s) /\ tgt' = tgt
    BY <1>15, PcGroups DEF Checkin, Pointers, Involved, Uses
  <2>2. PICK st, h, contact :
          /\ CheckinEntry(t, s, st, h, contact)
          /\ \/ /\ ChecksLate(s, st, contact)
                /\ pc' = [pc EXCEPT ![t] = "check"]
                /\ own' = own
             \/ /\ pc' = [pc EXCEPT ![t] = "idle"]
                /\ own' = [own EXCEPT ![t] = NoSA]
    BY <1>15 DEF Checkin
  <2>3. CASE ChecksLate(s, st, contact) /\ pc' = [pc EXCEPT ![t] = "check"] /\ own' = own
    <3>1. Moved(t, "check", s, tgt[t])
      BY <2>1, <2>3, Moves
    <3> QED
      BY <2>1, <2>2, <2>3, <3>1, SafeCheckinEntry
  <2>4. CASE pc' = [pc EXCEPT ![t] = "idle"] /\ own' = [own EXCEPT ![t] = NoSA]
    <3>1. Moved(t, "idle", NoSA, tgt[t])
      BY <2>1, <2>4, Moves
    <3>2. s # NoSA
      BY <2>1 DEF NoSA, SAs
    <3> QED
      BY <2>1, <2>2, <3>1, <3>2, SafeCheckinEntry
  <2> QED
    BY <2>2, <2>3, <2>4
<1>16. ASSUME NEW t \in Threads, FinishCheckin(t) PROVE Safety'
  <2> DEFINE s == own[t]
  <2>1. s \in SAs /\ Involved(t, s) /\ s # NoSA
    BY <1>16, PcGroups DEF FinishCheckin, Pointers, Involved, Uses, NoSA, SAs
  <2>2. \A u \in Threads \ {t} : ~Involved(u, s)
    BY <2>1, Claimed
  <2>3. Moved(t, "idle", NoSA, tgt[t]) /\ QueuesKept(t) /\ life' = life
    BY <1>16, Moves, Queues DEF FinishCheckin, saVars
  <2>4. \A r \in SAs \ {s} : holder'[r] = holder[r]
    BY <1>16 DEF FinishCheckin, TypeOK, EntryType
  <2> QED
    BY <2>1, <2>2, <2>3, <2>4, StepOnSA
<1>17. ASSUME NEW t \in Threads, Destroy(t) PROVE Safety'
  <2>1. own[t] \in SAs /\ own[t] # NoSA /\ Uses(t, own[t])
    BY <1>17, PcGroups DEF Destroy, Pointers, Uses, NoSA, SAs
  <2> QED
    BY <1>17, <2>1, SafeCheckinAndDestroy DEF Destroy
<1>18. ASSUME NEW t \in Threads, DriveOutMore(t) PROVE Safety'
  <2> DEFINE s == tgt[t]
  <2>1. /\ s \in SAs /\ Uses(t, s) /\ life[s] = "table" /\ own[t] # s
    BY <1>18, PcGroups DEF DriveOutMore, Pointers, Uses, Safety, Safe
  <2>2. Involved(t, s) /\ holder[s] = t
    BY <2>1 DEF Involved, Safety, Safe
  <2> QED
    BY <1>18, <2>1, <2>2, SafeDriveOut DEF DriveOutMore, threadVars
<1>19. ASSUME NEW t \in Threads, UntrackHalfOpen(t) \/ UntrackPeer(t) PROVE Safety'
  <2>1. PICK p \in RemovePcs : Moved(t, p, own[t], tgt[t])
    BY <1>19, Moves DEF UntrackHalfOpen, UntrackPeer, threadVars
  <2>2. pc[t] \in RemovePcs /\ life' = life /\ holder' = holder /\ QueuesKept(t)
    BY <1>19, Queues DEF UntrackHalfOpen, UntrackPeer, saVars
  <2> QED
    BY <2>1, <2>2, QuietStep
<1>20. ASSUME NEW t \in Threads, FreeEntry(t) PROVE Safety'
  <2> DEFINE s == tgt[t]
  <2>1. s \in SAs /\ Involved(t, s) /\ own[t] # s /\ life[s] = "removed"
    BY <1>20, PcGroups DEF FreeEntry, Pointers, Involved, Uses, Safety, Safe
  <2>2. /\ QueuesKept(t)
        /\ \A r \in SAs \ {s} : life'[r] = life[r] /\ holder'[r] = holder[r]
    BY <1>20, Queues DEF FreeEntry, TypeOK, SaType
  <2> QED
    BY <1>20, <2>1, <2>2, SafeReturn DEF FreeEntry
<1>21. ASSUME NEW t \in Threads, CheckUniqueness(t) \/ CheckUniquenessLate(t) \/ EndUnique(t)
       PROVE Safety'
  <2>1. PICK p \in {"unique", "cancel", "use"} : Moved(t, p, own[t], tgt[t])
    BY <1>21, Moves DEF CheckUniqueness, CheckUniquenessLate, EndUnique, threadVars
  <2>2. life' = life /\ holder' = holder /\ QueuesKept(t)
    BY <1>21, Queues DEF CheckUniqueness, CheckUniquenessLate, EndUnique, saVars
  <2> QED
    BY <2>1, <2>2, QuietStep
<1>22. ASSUME NEW t \in Threads, NEW s \in SAs, CheckoutDuplicate(t, s) PROVE Safety'
  <2>1. CASE s \in Table /\ WaitForEntry(t, "dupwait", s, NoMid)
    BY <1>22, <2>1, SafeWaitForEntry DEF CheckoutDuplicate, Table, WaitPcs, saVars
  <2> QED
    BY <1>s, <1>22, <2>1 DEF CheckoutDuplicate, saVars
<1>23. ASSUME NEW t \in Threads, CheckinSecond(t) PROVE Safety'
  <2> DEFINE s == tgt[t]
  <2>1. s \in SAs /\ Involved(t, s) /\ own[t] # s
    BY <1>23, PcGroups DEF CheckinSecond, Pointers, Involved, Uses, Safety, Safe
  <2>2. PICK st, h : CheckinEntry(t, s, st, h, FALSE)
    BY <1>23 DEF CheckinSecond
  <2>3. Moved(t, "unique", own[t], NoSA)
    BY <1>23, Moves DEF CheckinSecond
  <2> QED
    BY <2>1, <2>2, <2>3, SafeCheckinEntry
<1>24. ASSUME NEW t \in Threads, DestroySecond(t) PROVE Safety'
  <2> DEFINE s == tgt[t]
  <2>1. s \in SAs /\ Uses(t, s) /\ own[t] # s
    BY <1>24, PcGroups DEF DestroySecond, Pointers, Uses, Safety, Safe
  <2> QED
    BY <1>24, <2>1, SafeCheckinAndDestroy DEF DestroySecond
<1>25. ~Flush
  BY DEF Flush, FlushMark, FlushVisit, FlushResume, FlushDestroy, FlushRng,
         DestroyManager, Safety
<1>26. CASE UNCHANGED vars
  BY <1>s, <1>26 DEF vars, saVars, threadVars
<1> QED
  BY <1>1, <1>3, <1>4, <1>5, <1>6, <1>7, <1>8, <1>10, <1>11, <1>12, <1>13, <1>14,
     <1>15, <1>16, <1>17, <1>18, <1>19, <1>20, <1>21, <1>22, <1>23, <1>24, <1>25, <1>26
     DEF Next, Start, Continue

LEMMA SafetyCorrect ==
  ASSUME "flush" \notin Jobs
  PROVE  Spec => []Safety
<1>1. Init => Safety
  <2> SUFFICES ASSUME Init PROVE Safety
    OBVIOUS
  <2>1. /\ \A t \in Threads : pc[t] = "idle" /\ own[t] = NoSA
        /\ pc[Flusher] = "off"
    BY ConstantAssumption DEF Init, Actors
  <2>2. \A t \in Threads, s \in SAs : ~Involved(t, s)
    BY <2>1 DEF Involved, Uses, NewPcs, RemovePcs, NoSA, SAs
  <2> QED
    BY <2>1, <2>2, PcKinds DEF Safety, Safe, Apart, Involved
<1>2. TypeOK /\ Pointers /\ Safety /\ [Next]_vars => Safety'
  BY SafetyStep
<1> QED
  BY <1>1, <1>2, TypeCorrect, PointersCorrect, PTL DEF Spec

\* "A checked out SA is exclusively accessible by the owning thread"
\* (ike_sa_manager.h) is true for any number of threads, SAs and segments and
\* whatever the threads do, as long as the manager is not being flushed.
THEOREM ExclusiveCheckout ==
  ASSUME "flush" \notin Jobs
  PROVE  Spec => []Exclusive
<1>1. Safety => Exclusive
  BY DEF Safety, Safe, Apart, Involved, Exclusive, Alive
<1> QED
  BY <1>1, SafetyCorrect, PTL

\* Nor does any thread sleep on the condvar of an entry, or wait for one, that
\* checkin_and_destroy() has removed: the entry is freed only after all
\* waiting threads were driven out.
THEOREM NoUseAfterFreeCheckout ==
  ASSUME "flush" \notin Jobs
  PROVE  Spec => []NoUseAfterFree
<1>1. Pointers /\ Safety => NoUseAfterFree
  <2> SUFFICES ASSUME Pointers, Safety, NEW a \in Actors,
                      pc[a] \in WaitPcs \cup {"drive", "sleep"}
               PROVE  tgt[a] \in Table
    BY DEF NoUseAfterFree
  <2>1. a \in Threads
    BY DEF Actors, Safety, WaitPcs
  <2>2. CASE pc[a] = "sleep"
    BY <2>1, <2>2 DEF Safety, Safe
  <2>3. CASE pc[a] \in WaitPcs \cup {"drive"}
    BY <2>1, <2>3, PcGroups DEF Safety, Safe, Pointers, Table
  <2> QED
    BY <2>2, <2>3
<1> QED
  BY <1>1, SafetyCorrect, PointersCorrect, PTL
=============================================================================
