------------------------- MODULE IkeSaManagerTables -------------------------
(***************************************************************************)
(* Proofs about what the IKE_SA manager keeps besides the holders of SAs:  *)
(* driveout flags, message IDs in processing, hashes of initial messages,  *)
(* lists of connected peers, counters of half-open SAs and the threads     *)
(* that sleep on condvars; and that the manager implements SaCheckout.     *)
(* All of it as long as nobody calls flush().                              *)
(***************************************************************************)
EXTENDS IkeSaManagerProofs

FreePcs == {"idle", "limit", "create", "unhash", "lookup", "scan", "wait", "scanwait"}
CheckPcs == {"unique", "dupwait"} \cup UsePcs

\* SA s is, or was until it was removed, in the list of connected peers.
Known(s) == hasIds[s] \/ life[s] \in {"removed", "gone"}

\* What thread t keeps besides Safe(t): outside of its jobs it has no SA, and
\* the ones it works on are not being removed; while it checks the uniqueness
\* of an SA, or has that before it, that SA is not listed and has no message in
\* processing, but the ones it looks at have been listed; the message it has
\* drawn an SPI for is stored; the entry it removes has left the tables it has
\* been removed from.
Tidy(t) ==
  /\ pc[t] \in FreePcs => own[t] = NoSA
  /\ own[t] \in SAs => life[own[t]] \in {"new", "table"}
  /\ pc[t] = "second" => life[tgt[t]] \in {"new", "table"}
  /\ todo[t] # {} => pc[t] \in CheckPcs
  /\ late[t] => pc[t] \in CheckPcs \cup {"check"}
  /\ todo[t] # {} \/ late[t] \/ pc[t] \in {"check", "dupwait"} =>
       own[t] \in SAs /\ ~hasIds[own[t]]
  /\ late[t] => /\ processing[own[t]] = NoMid
                /\ life[own[t]] = "table" /\ state[own[t]] = "ESTABLISHED"
  /\ \A s \in todo[t] : Known(s)
  /\ pc[t] = "dupwait" => Known(tgt[t])
  /\ pc[t] \in NewPcs => initHash[tgt[t]] # NoMessage
  /\ pc[t] = "drive" => driveNew[tgt[t]]
  /\ pc[t] \in {"unpeer", "uninit"} => ~halfOpen[tgt[t]]
  /\ pc[t] = "uninit" => ~hasIds[tgt[t]]

\* What entry s keeps, by the table it concerns.
Listed(s) ==
  /\ hasIds[s] <=> s \in connectedPeers
  /\ hasIds[s] => /\ life[s] \in {"table", "removed"}
                  /\ state[s] \in {"ESTABLISHED", "DELETING"}
Idle(s) ==
  life[s] = "table" /\ holder[s] = NoThread =>
    /\ state[s] = "ESTABLISHED" => hasIds[s]
    /\ processing[s] = NoMid
Held(s) ==
  life[s] = "table" /\ holder[s] # NoThread => Uses(holder[s], s)
Closed(s) ==
  /\ driveNew[s] = driveWait[s]
  /\ driveNew[s] => life[s] \in {"table", "removed", "gone"}
  /\ life[s] = "table" /\ driveNew[s] => \E t \in Threads : pc[t] = "drive" /\ tgt[t] = s
Open(s) ==
  halfOpen[s] => /\ life[s] \in {"table", "removed"}
                 /\ state[s] = "CONNECTING"
                 /\ other[s] \in Hosts
Hashed(s) ==
  /\ life[s] \in {"unused", "new"} => initHash[s] = NoMessage
  /\ life[s] \in {"spi", "table", "removed"} /\ initHash[s] # NoMessage =>
       initHashes[initHash[s]] = s
Entry(s) == Listed(s) /\ Idle(s) /\ Held(s) /\ Closed(s) /\ Open(s) /\ Hashed(s)

\* A stored hash leads to the SA that was created, or is going to be, for it.
Hash(m) ==
  initHashes[m] # NoSA => /\ initHash[initHashes[m]] = m
                          /\ life[initHashes[m]] \in {"spi", "table", "removed"}

Order == /\ \A t \in Threads : Tidy(t)
         /\ \A s \in SAs : Entry(s)
         /\ \A m \in Messages : Hash(m)

Inv == TypeOK /\ Pointers /\ Safety /\ Order

-----------------------------------------------------------------------------
(* The two kinds of steps.                                                   *)

\* Nothing about SA r changes.
Same(r) ==
  /\ life'[r] = life[r] /\ state'[r] = state[r] /\ responder'[r] = responder[r]
  /\ holder'[r] = holder[r] /\ processing'[r] = processing[r]
  /\ driveNew'[r] = driveNew[r] /\ driveWait'[r] = driveWait[r]
  /\ halfOpen'[r] = halfOpen[r] /\ other'[r] = other[r]
  /\ hasIds'[r] = hasIds[r] /\ (r \in connectedPeers' <=> r \in connectedPeers)
  /\ initHash'[r] = initHash[r]

\* Only thread t moves.
Alone(t) ==
  \A u \in Threads \ {t} :
    /\ pc'[u] = pc[u] /\ own'[u] = own[u] /\ tgt'[u] = tgt[u]
    /\ todo'[u] = todo[u] /\ late'[u] = late[u]

\* Thread t changes no SA.
Calm(t) ==
  /\ Alone(t)
  /\ \A r \in SAs : Same(r) /\ (Uses(t, r)' <=> Uses(t, r))
  /\ pc[t] = "drive" => pc'[t] = "drive" /\ tgt'[t] = tgt[t]
  /\ initHashes' = initHashes
  /\ halfOpenTable' = halfOpenTable

\* Thread t changes SA s only, with which no other thread is involved.
Touches(t, s) ==
  /\ Alone(t)
  /\ \A u \in Threads \ {t} : ~Involved(u, s)
  /\ \A r \in SAs \ {s} : Same(r) /\ (Uses(t, r)' <=> Uses(t, r))
  /\ pc[t] = "drive" => tgt[t] = s

LEMMA NoSAs == NoSA \notin SAs
  BY DEF NoSA, SAs

\* Another thread is as tidy as before.
LEMMA TidyOther ==
  ASSUME TypeOK, Pointers, NEW u \in Threads, Tidy(u),
         pc'[u] = pc[u], own'[u] = own[u], tgt'[u] = tgt[u], todo'[u] = todo[u],
         late'[u] = late[u],
         \A r \in SAs : Involved(u, r) => Same(r),
         \A r \in SAs : Known(r) => Known(r)'
  PROVE  Tidy(u)'
<1>1. /\ pc[u] \in TgtPcs => tgt[u] \in SAs
      /\ todo[u] \subseteq SAs
      /\ NewPcs \cup UsePcs \cup WaitPcs \subseteq TgtPcs
  BY DEF Pointers, TypeOK, ThreadType, TgtPcs, NewPcs, UsePcs, WaitPcs, RemovePcs
<1>2. own[u] \in SAs => Same(own[u])
  BY DEF Involved, Uses
<1>3. pc[u] \in NewPcs \cup UsePcs => Same(tgt[u])
  BY <1>1 DEF Involved, Uses, UsePcs
<1>4. {"unpeer", "uninit"} \subseteq UsePcs /\ "dupwait" \in WaitPcs
  BY DEF UsePcs, RemovePcs, WaitPcs
<1>5. /\ \A s \in todo'[u] : Known(s)'
      /\ pc'[u] = "dupwait" => Known(tgt[u])'
  BY <1>1, <1>4 DEF Tidy, Known
<1>6. /\ pc'[u] \in FreePcs => own'[u] = NoSA
      /\ todo'[u] # {} => pc'[u] \in CheckPcs
      /\ late'[u] => pc'[u] \in CheckPcs \cup {"check"}
  BY DEF Tidy
<1>7. /\ todo'[u] # {} \/ late'[u] \/ pc'[u] \in {"check", "dupwait"} =>
           own'[u] \in SAs /\ ~hasIds'[own'[u]]
      /\ late'[u] => /\ processing'[own'[u]] = NoMid
                     /\ life'[own'[u]] = "table" /\ state'[own'[u]] = "ESTABLISHED"
  BY <1>2 DEF Tidy, Same
<1>9. own'[u] \in SAs => life'[own'[u]] \in {"new", "table"}
  BY <1>2 DEF Tidy, Same
<1>10. pc'[u] = "second" => life'[tgt'[u]] \in {"new", "table"}
  BY <1>3 DEF Tidy, Same, UsePcs
<1>11. pc'[u] = "drive" => driveNew'[tgt'[u]]
  BY <1>3 DEF Tidy, Same, UsePcs
<1>8. /\ pc'[u] \in NewPcs => initHash'[tgt'[u]] # NoMessage
      /\ pc'[u] \in {"unpeer", "uninit"} => ~halfOpen'[tgt'[u]]
      /\ pc'[u] = "uninit" => ~hasIds'[tgt'[u]]
  BY <1>3, <1>4 DEF Tidy, Same
<1> QED
  BY <1>5, <1>6, <1>7, <1>8, <1>9, <1>10, <1>11 DEF Tidy, Known

\* Another entry is as before.
LEMMA EntryOther ==
  ASSUME TypeOK, NEW t \in Threads, Alone(t), NEW r \in SAs, Entry(r), Same(r),
         Uses(t, r) => Uses(t, r)',
         pc[t] = "drive" /\ tgt[t] = r => pc'[t] = "drive" /\ tgt'[t] = r,
         initHash[r] # NoMessage /\ initHashes[initHash[r]] = r =>
           initHashes'[initHash[r]] = r
  PROVE  Entry(r)'
<1>1. Listed(r)' /\ Idle(r)' /\ Open(r)'
  BY DEF Entry, Same, Listed, Idle, Open
<1>2. Held(r)'
  <2> SUFFICES ASSUME life[r] = "table", holder[r] # NoThread
               PROVE  \E u \in Threads : u = holder[r] /\ Uses(u, r)'
    BY DEF Held, Same, Uses
  <2>1. PICK u \in Threads : u = holder[r] /\ Uses(u, r)
    BY DEF TypeOK, EntryType, Entry, Held
  <2>2. CASE u = t
    BY <2>1, <2>2
  <2>3. CASE u # t
    BY <2>1, <2>3 DEF Alone, Uses
  <2> QED
    BY <2>1, <2>2, <2>3
<1>3. Closed(r)'
  <2> SUFFICES ASSUME life[r] = "table", driveNew[r]
               PROVE  \E u \in Threads : pc'[u] = "drive" /\ tgt'[u] = r
    BY DEF Closed, Entry, Same
  <2>1. PICK u \in Threads : pc[u] = "drive" /\ tgt[u] = r
    BY DEF Entry, Closed
  <2> QED
    BY <2>1 DEF Alone
<1>4. Hashed(r)'
  BY DEF Hashed, Entry, Same
<1> QED
  BY <1>1, <1>2, <1>3, <1>4 DEF Entry

LEMMA CalmStep ==
  ASSUME Inv, NEW t \in Threads, Calm(t), Tidy(t)'
  PROVE  Order'
<1> USE DEF Inv
<1>1. \A r \in SAs : Known(r) => Known(r)'
  BY DEF Calm, Known, Same
<1>2. ASSUME NEW u \in Threads \ {t} PROVE Tidy(u)'
  BY <1>1, <1>2, TidyOther DEF Calm, Alone, Order
<1>3. ASSUME NEW r \in SAs PROVE Entry(r)'
  BY <1>3, EntryOther DEF Calm, Order
<1>4. ASSUME NEW m \in Messages PROVE Hash(m)'
  <2>1. initHashes[m] # NoSA => initHashes[m] \in SAs
    BY DEF TypeOK, HashType
  <2> QED
    BY <2>1, <1>4 DEF Calm, Same, Order, Hash
<1> QED
  BY <1>2, <1>3, <1>4 DEF Order

LEMMA TouchStep ==
  ASSUME Inv, NEW t \in Threads, NEW s \in SAs, Touches(t, s), Tidy(t)', Entry(s)',
         Known(s) => Known(s)',
         \A m \in Messages : initHashes'[m] # initHashes[m] => initHashes[m] \in {NoSA, s},
         \A m \in Messages : \/ initHashes'[m] # initHashes[m]
                             \/ initHashes[m] = s
                             => Hash(m)'
  PROVE  Order'
<1> USE DEF Inv
<1>1. \A r \in SAs : Known(r) => Known(r)'
  BY DEF Touches, Known, Same
<1>2. ASSUME NEW u \in Threads \ {t} PROVE Tidy(u)'
  BY <1>1, <1>2, TidyOther DEF Touches, Alone, Order
<1>3. ASSUME NEW r \in SAs \ {s} PROVE Entry(r)'
  <2>1. initHash[r] # NoMessage => initHash[r] \in Messages
    BY DEF TypeOK, HashType
  <2>2. NoSA \notin SAs
    BY DEF NoSA, SAs
  <2>3. /\ Uses(t, r) => Uses(t, r)'
        /\ ~(pc[t] = "drive" /\ tgt[t] = r)
        /\ Same(r) /\ Alone(t)
    BY <1>3 DEF Touches
  <2> QED
    BY <2>1, <2>2, <2>3, EntryOther DEF Order
<1>4. ASSUME NEW m \in Messages PROVE Hash(m)'
  <2>1. initHashes[m] # NoSA => initHashes[m] \in SAs
    BY DEF TypeOK, HashType
  <2> QED
    BY <2>1, <1>4 DEF Touches, Same, Order, Hash
<1> QED
  BY <1>2, <1>3, <1>4 DEF Order

\* What becomes of the SA that a step touches.
Fate(t, s) ==
  /\ life[s] \notin Alive /\ life'[s] \in Alive => Uses(t, s)'
  /\ life[s] \in Alive /\ life'[s] \notin Alive =>
       life'[s] = "gone" /\ Uses(t, s) /\ ~Uses(t, s)'
  /\ life[s] = "gone" => life'[s] = "gone"

\* The invariant is kept, by a step of one of the two kinds.
Outcome(t) == /\ Order'
              /\ \/ Calm(t)
                 \/ \E s \in SAs : Touches(t, s) /\ Fate(t, s)

\* Thread t goes to p, works on x, deals with y and has z to look at.
Went(t, p, x, y, z, l) ==
  /\ Alone(t)
  /\ pc'[t] = p /\ own'[t] = x /\ tgt'[t] = y /\ todo'[t] = z /\ late'[t] = l

LEMMA Wents ==
  ASSUME TypeOK, NEW t \in Threads, NEW p, NEW x, NEW y, NEW z, NEW l,
         pc' = [pc EXCEPT ![t] = p] \/ (pc' = pc /\ p = pc[t]),
         own' = [own EXCEPT ![t] = x] \/ (own' = own /\ x = own[t]),
         tgt' = [tgt EXCEPT ![t] = y] \/ (tgt' = tgt /\ y = tgt[t]),
         todo' = [todo EXCEPT ![t] = z] \/ (todo' = todo /\ z = todo[t]),
         late' = [late EXCEPT ![t] = l] \/ (late' = late /\ l = late[t])
  PROVE  Went(t, p, x, y, z, l)
  BY PcValues DEF TypeOK, ActorType, ThreadType, Went, Alone

\* Nothing about SAs changes.
Still == UNCHANGED <<saVars, holder, processing, flagVars, trackVars, initHash, initHashes>>

LEMMA Places ==
  /\ FreePcs \cap (CheckPcs \cup {"check", "use", "cancel"}) = {}
  /\ NewPcs \subseteq FreePcs /\ FreePcs \cap UsePcs = {}
  /\ {"idle", "lookup", "scan", "wait", "scanwait"} \subseteq FreePcs
  /\ {"idle", "lookup", "scan", "wait", "scanwait"} \cap NewPcs = {}
  /\ {"unique", "dupwait"} \subseteq CheckPcs /\ UsePcs \subseteq CheckPcs
  /\ {"unique", "dupwait", "use", "cancel", "check"}
       \cap (NewPcs \cup UsePcs \cup FreePcs) = {}
  /\ {"use", "cancel", "check"} \cap CheckPcs = {}
  /\ UsePcs \cap (NewPcs \cup FreePcs \cup {"unique", "dupwait", "check"}) = {}
  /\ UsePcs = {"second", "drive", "unhalf", "unpeer", "uninit"}
  BY DEF FreePcs, CheckPcs, UsePcs, RemovePcs, NewPcs

LEMMA CalmWent ==
  ASSUME Inv, NEW t \in Threads, NEW p, NEW y, NEW z, Went(t, p, own[t], y, z, late[t]), Still,
         (p = pc[t] /\ y = tgt[t]) \/ (p \notin UsePcs /\ pc[t] \notin UsePcs)
  PROVE  Calm(t)
<1>1. \A r \in SAs : Uses(t, r)' <=> Uses(t, r)
  BY DEF Went, Uses, UsePcs
<1>2. \A r \in SAs : Same(r)
  BY DEF Still, Same, saVars, flagVars, trackVars
<1>3. pc[t] = "drive" => pc'[t] = "drive" /\ tgt'[t] = tgt[t]
  BY DEF Went, UsePcs
<1> QED
  BY <1>1, <1>2, <1>3 DEF Calm, Went, Still, trackVars

\* A thread that stays where it is.
LEMMA Stay ==
  ASSUME Inv, NEW t \in Threads, NEW z, z \subseteq todo[t],
         Went(t, pc[t], own[t], tgt[t], z, late[t]), Still
  PROVE  Outcome(t)
<1>1. Calm(t)
  BY CalmWent
<1>2. Tidy(t)'
  <2>1. Tidy(t)
    BY DEF Inv, Order
  <2> QED
    BY <2>1 DEF Went, Still, Tidy, Known, saVars, flagVars, trackVars
<1> QED
  BY <1>1, <1>2, CalmStep DEF Outcome

\* A thread that has no SA before nor after the step.
LEMMA FreeMove ==
  ASSUME Inv, NEW t \in Threads, NEW p \in FreePcs, NEW y, pc[t] \in FreePcs,
         Went(t, p, own[t], y, todo[t], late[t]), Still,
         p \in NewPcs => pc[t] \in NewPcs /\ y = tgt[t]
  PROVE  Outcome(t)
<1>1. Calm(t)
  BY CalmWent, Places
<1>2. Tidy(t)'
  <2>1. Tidy(t)
    BY DEF Inv, Order
  <2>2. own'[t] = NoSA /\ todo'[t] = {} /\ ~late'[t]
    BY <2>1, Places DEF Tidy, Went
  <2>3. p \in NewPcs => initHash'[y] # NoMessage
    BY <2>1 DEF Tidy, Still
  <2> QED
    BY <2>2, <2>3, Places, NoSAs DEF Went, Tidy, CheckPcs
<1> QED
  BY <1>1, <1>2, CalmStep DEF Outcome

\* A thread that takes an entry that is free.
LEMMA TakeMove ==
  ASSUME Inv, NEW t \in Threads, NEW s \in SAs, NEW p, NEW x, NEW y, NEW z,
         Went(t, p, x, y, z, late[t]), life[s] = "table", ~CheckedOut(s), ~driveNew[s],
         holder' = [holder EXCEPT ![s] = t], NEW n, processing' = [processing EXCEPT ![s] = n],
         UNCHANGED <<saVars, flagVars, trackVars, initHash, initHashes>>,
         z \subseteq todo[t],
         \/ p = "second" /\ x = own[t] /\ y = s /\ pc[t] \in {"unique", "dupwait"}
         \/ p = "use" /\ x = s /\ y = NoSA /\ pc[t] \in FreePcs
  PROVE  Outcome(t)
<1> USE Places DEF Inv
<1>0. NoSA \notin SAs /\ Tidy(t) /\ Entry(s)
  BY DEF NoSA, SAs, Order
<1>1. \A u \in Threads : ~Involved(u, s)
  BY Unclaimed
<1>2. own[t] # s
  BY <1>1 DEF Involved, Uses
<1>3. \A r \in SAs \ {s} : Same(r)
  BY DEF Same, saVars, flagVars, trackVars, TypeOK, EntryType
<1>4. \A r \in SAs \ {s} : Uses(t, r)' <=> Uses(t, r)
  BY <1>0 DEF Went, Uses, Tidy, UsePcs
<1>5. Touches(t, s)
  BY <1>1, <1>3, <1>4 DEF Touches, Went
<1>6. Tidy(t)'
  <2>1. own[t] \in SAs => processing'[own[t]] = processing[own[t]]
    BY <1>2 DEF TypeOK, EntryType
  <2>2. life' = life /\ state' = state /\ hasIds' = hasIds /\ \A r : Known(r) => Known(r)'
    BY DEF saVars, trackVars, Known
  <2>3. z # {} => todo[t] # {}
    OBVIOUS
  <2>4. CASE p = "second" /\ x = own[t] /\ pc[t] \in {"unique", "dupwait"}
    BY <1>0, <2>1, <2>2, <2>3, <2>4 DEF Went, Tidy
  <2>5. CASE p = "use" /\ pc[t] \in FreePcs
    <3>1. z = {} /\ ~late[t]
      BY <1>0, <2>5 DEF Tidy
    <3> QED
      BY <2>2, <2>5, <3>1 DEF Went, Tidy
  <2> QED
    BY <2>4, <2>5
<1>7. Entry(s)'
  <2>1. holder'[s] = t /\ Uses(t, s)'
    BY DEF TypeOK, EntryType, Went, Uses
  <2>2. Held(s)'
    BY <2>1 DEF Held, Uses
  <2>3. Listed(s)' /\ Open(s)' /\ Hashed(s)' /\ Closed(s)'
    BY <1>0 DEF Entry, Listed, Open, Hashed, Closed, saVars, flagVars, trackVars
  <2>4. Idle(s)'
    BY <2>1, ConstantAssumption DEF Idle
  <2> QED
    BY <2>2, <2>3, <2>4 DEF Entry
<1>8. Fate(t, s) /\ (Known(s) => Known(s)')
  BY DEF Fate, Alive, Known, saVars, trackVars
<1>9. \A m \in Messages : initHashes[m] = s => Hash(m)'
  BY DEF Order, Hash, saVars
<1> QED
  BY <1>5, <1>6, <1>7, <1>8, <1>9, TouchStep DEF Outcome

\* A thread goes on with its list of SAs to look at.
LEMMA TidyCheck ==
  ASSUME Inv, NEW t \in Threads, NEW p \in {"unique", "dupwait"}, NEW y, NEW z,
         pc[t] \in {"unique", "dupwait"}, z \subseteq todo[t],
         Went(t, p, own[t], y, z, late[t]), Still
  PROVE  (p = "dupwait" => y \in todo[t]) => Outcome(t)
<1> SUFFICES ASSUME p = "dupwait" => y \in todo[t] PROVE Outcome(t)
  OBVIOUS
<1>1. Calm(t)
  BY CalmWent, Places
<1>2. Tidy(t)'
  <2>1. Tidy(t)
    BY DEF Inv, Order
  <2>2. \A r : Known(r) => Known(r)'
    BY DEF Known, Still, saVars, trackVars
  <2>3. hasIds' = hasIds /\ processing' = processing /\ life' = life /\ state' = state
    BY DEF Still, saVars, trackVars
  <2>4. z # {} => todo[t] # {}
    OBVIOUS
  <2>5. p \in CheckPcs /\ p \notin FreePcs \cup NewPcs \cup {"check", "unpeer", "uninit"}
    BY Places
  <2>6. y = tgt'[t]
    BY DEF Went
  <2>7. p = "dupwait" => Known(tgt[t])'
    BY <2>1, <2>2, <2>6 DEF Tidy, Known
  <2> QED
    BY <2>1, <2>2, <2>3, <2>4, <2>5, <2>7 DEF Went, Tidy
<1> QED
  BY <1>1, <1>2, CalmStep DEF Outcome

LEMMA DupReturn ==
  ASSUME Inv, NEW t \in Threads, NEW y, NEW z, pc[t] \in {"unique", "dupwait"},
         z \subseteq todo[t], Went(t, "unique", own[t], y, z, late[t]), Still
  PROVE  Outcome(t)
  BY TidyCheck

LEMMA DupWait ==
  ASSUME Inv, NEW t \in Threads, NEW y \in todo[t], NEW z, pc[t] = "unique",
         z \subseteq todo[t], Went(t, "dupwait", own[t], y, z, late[t]), Still
  PROVE  Outcome(t)
  BY TidyCheck

LEMMA AcquireMove ==
  ASSUME Inv, NEW t \in Threads, NEW q \in WaitPcs, NEW s \in SAs, NEW m, NEW z,
         Acquire(t, q, s, m), life[s] = "table", ~CheckedOut(s), ~driveNew[s],
         UNCHANGED <<saVars, flagVars, trackVars, initHash, initHashes, late>>,
         z \subseteq todo[t],
         todo' = [todo EXCEPT ![t] = z] \/ (todo' = todo /\ z = todo[t]),
         \/ q # "dupwait" /\ pc[t] \in FreePcs /\ z = todo[t]
         \/ q = "dupwait" /\ pc[t] \in {"unique", "dupwait"}
  PROVE  Outcome(t)
<1> USE Places
<1>1. CASE q = "scanwait" /\ PassOver(t, s)
  <2>1. Went(t, "scan", own[t], s, todo[t], late[t])
    BY <1>1, Wents DEF PassOver, Inv
  <2>2. Still
    BY <1>1 DEF PassOver, Still
  <2> QED
    BY <1>1, <2>1, <2>2, FreeMove
<1>2. CASE Take(t, q, s, m) /\ q = "dupwait"
  <2>1. Went(t, "second", own[t], s, z, late[t])
    BY <1>2, Wents DEF Take, Inv
  <2>2. PICK n : /\ holder' = [holder EXCEPT ![s] = t]
                 /\ processing' = [processing EXCEPT ![s] = n]
    BY <1>2 DEF Take
  <2> QED
    BY <1>2, <2>1, <2>2, TakeMove
<1>3. CASE Take(t, q, s, m) /\ q # "dupwait"
  <2>1. Went(t, "use", s, NoSA, z, late[t])
    BY <1>3, Wents DEF Take, Inv
  <2>2. PICK n : /\ holder' = [holder EXCEPT ![s] = t]
                 /\ processing' = [processing EXCEPT ![s] = n]
    BY <1>3 DEF Take
  <2> QED
    BY <1>3, <2>1, <2>2, TakeMove
<1> QED
  BY <1>1, <1>2, <1>3 DEF Acquire

LEMMA WaitForEntryMove ==
  ASSUME Inv, NEW t \in Threads, NEW q \in WaitPcs, NEW s \in SAs, NEW m, NEW z,
         WaitForEntry(t, q, s, m), life[s] = "table",
         UNCHANGED <<saVars, flagVars, trackVars, initHash, initHashes, late>>,
         z \subseteq todo[t],
         todo' = [todo EXCEPT ![t] = z] \/ (todo' = todo /\ z = todo[t]),
         \/ q # "dupwait" /\ pc[t] \in FreePcs /\ z = todo[t]
         \/ q = "dupwait" /\ pc[t] = "unique" /\ s \in todo[t]
  PROVE  Outcome(t)
<1>0. /\ q \in {"wait", "scanwait", "dupwait"}
      /\ q = "dupwait" => Known(s)
  BY DEF WaitPcs, Inv, Order, Tidy
<1>1. CASE Refuse(t, q, s)
  <2>1. PICK y : Went(t, Resigned(q), own[t], y, z, late[t])
    BY <1>1, Wents DEF Refuse, Forget, Inv
  <2>2. Still
    BY <1>1 DEF Refuse, Still
  <2>3. CASE q # "dupwait"
    <3>1. Resigned(q) \in {"idle", "scan"}
      BY <1>0, <2>3 DEF Resigned
    <3> QED
      BY <2>1, <2>2, <2>3, <3>1, FreeMove, Places
  <2>4. CASE q = "dupwait"
    <3>1. Resigned(q) = "unique" /\ pc[t] = "unique"
      BY <2>4 DEF Resigned
    <3> QED
      BY <2>1, <2>2, <3>1, DupReturn
  <2> QED
    BY <2>3, <2>4
<1>2. CASE Enqueue(t, q, s, m)
  <2>1. Went(t, q, own[t], s, z, late[t])
    BY <1>2, Wents DEF Enqueue, Inv
  <2>2. Still
    BY <1>2 DEF Enqueue, Still
  <2>3. CASE q # "dupwait"
    BY <1>0, <2>1, <2>2, <2>3, FreeMove, Places
  <2>4. CASE q = "dupwait"
    <3>1. s \in todo[t] /\ pc[t] = "unique" /\ Went(t, "dupwait", own[t], s, z, late[t])
      BY <2>1, <2>4
    <3> QED
      BY <2>2, <3>1, DupWait
  <2> QED
    BY <2>3, <2>4
<1>3. CASE ~driveNew[s] /\ ~CheckedOut(s) /\ Acquire(t, q, s, m) /\ UNCHANGED waiting
  BY <1>3, Places, AcquireMove
<1> QED
  BY <1>1, <1>2, <1>3 DEF WaitForEntry

\* A new SA, known to its thread only.
LEMMA NewMove ==
  ASSUME Inv, NEW t \in Threads, NEW s \in SAs, NEW p \in {"use", "second"}, NEW x, NEW y,
         New(s), Went(t, p, x, y, todo[t], late[t]),
         responder' = responder \/ \E b : responder' = [responder EXCEPT ![s] = b],
         \/ p = "use" /\ x = s /\ pc[t] \in FreePcs
         \/ p = "second" /\ x = own[t] /\ y = s /\ pc[t] = "use"
  PROVE  Outcome(t)
<1> USE Places DEF Inv
<1>0. NoSA \notin SAs /\ Tidy(t) /\ Entry(s)
  BY DEF NoSA, SAs, Order
<1>1. \A u \in Threads : ~Involved(u, s)
  BY Unclaimed DEF New
<1>2. own[t] # s
  BY <1>1 DEF Involved, Uses
<1>3. \A r \in SAs \ {s} : Same(r)
  BY DEF New, Same, flagVars, trackVars, hashVars, TypeOK, SaType
<1>4. \A r \in SAs \ {s} : Uses(t, r)' <=> Uses(t, r)
  BY <1>0 DEF Went, Uses, Tidy, UsePcs
<1>5. Touches(t, s)
  BY <1>1, <1>3, <1>4 DEF Touches, Went
<1>s. life[s] = "unused" /\ life'[s] = "new"
  BY DEF New, TypeOK, SaType
<1>6. Tidy(t)'
  <2>1. todo[t] = {} /\ ~late[t]
    BY <1>0 DEF Tidy
  <2> QED
    BY <1>0, <1>2, <1>3, <1>s, <2>1 DEF Tidy, Went, Same
<1>7. Entry(s)'
  BY <1>0, <1>s DEF New, Entry, Listed, Idle, Held, Closed, Open, Hashed, flagVars, trackVars,
                   hashVars
<1>8. Fate(t, s) /\ (Known(s) => Known(s)')
  BY <1>0, <1>s DEF Fate, Alive, Known, Uses, Went, Entry, Listed
<1>9. initHashes' = initHashes /\ \A m \in Messages : initHashes[m] # s
  BY <1>s, <1>0 DEF New, hashVars, Order, Hash
<1> QED
  BY <1>5, <1>6, <1>7, <1>8, <1>9, TouchStep DEF Outcome

\* An SPI drawn for an initial message that is new.
LEMMA DrawMove ==
  ASSUME Inv, NEW t \in Threads, NEW s \in SAs, NEW m \in Messages,
         pc[t] = "idle", initHashes[m] = NoSA, life[s] = "unused",
         life' = [life EXCEPT ![s] = "spi"], initHash' = [initHash EXCEPT ![s] = m],
         initHashes' = [initHashes EXCEPT ![m] = s],
         UNCHANGED <<state, responder, holder, processing, flagVars, trackVars>>,
         Went(t, "limit", own[t], s, todo[t], late[t])
  PROVE  Outcome(t)
<1> USE Places DEF Inv
<1>0. NoSA \notin SAs /\ Tidy(t) /\ Entry(s)
  BY DEF NoSA, SAs, Order
<1>1. \A u \in Threads : ~Involved(u, s)
  BY Unclaimed
<1>2. own[t] # s
  BY <1>1 DEF Involved, Uses
<1>3. \A r \in SAs \ {s} : Same(r)
  BY DEF Same, flagVars, trackVars, TypeOK, SaType, HashType
<1>4. \A r \in SAs : Uses(t, r)' <=> Uses(t, r)
  BY DEF Went, Uses, RemovePcs
<1>5. Touches(t, s)
  BY <1>1, <1>3, <1>4 DEF Touches, Went
<1>s. /\ life'[s] = "spi" /\ initHash'[s] = m /\ m # NoMessage
      /\ initHashes'[m] = s /\ \A n \in Messages \ {m} : initHashes'[n] = initHashes[n]
  BY ConstantAssumption DEF TypeOK, SaType, HashType
<1>6. Tidy(t)'
  <2>1. todo[t] = {} /\ ~late[t] /\ own[t] = NoSA
    BY <1>0 DEF Tidy
  <2>2. "limit" \in FreePcs \cap NewPcs
    BY DEF FreePcs, NewPcs
  <2> QED
    BY <1>0, <1>s, <2>1, <2>2 DEF Tidy, Went
<1>7. Entry(s)'
  BY <1>0, <1>s DEF Entry, Listed, Idle, Held, Closed, Open, Hashed, flagVars, trackVars
<1>8. Fate(t, s) /\ (Known(s) => Known(s)')
  BY <1>0, <1>s DEF Fate, Alive, Known, Entry, Listed
<1>9. /\ \A n \in Messages : initHashes[n] # s
      /\ Hash(m)'
  BY <1>s, <1>0 DEF Order, Hash
<1>10. \A n \in Messages : \/ initHashes'[n] # initHashes[n]
                           \/ initHashes[n] = s => n = m
  BY <1>s, <1>9
<1> QED
  BY <1>5, <1>6, <1>7, <1>8, <1>9, <1>10, TouchStep DEF Outcome

\* The entry of an SA that a peer initiated.
LEMMA PutMove ==
  ASSUME Inv, NEW t \in Threads, PutNewEntry(t)
  PROVE  Outcome(t)
<1> USE Places DEF Inv
<1>0. PICK s \in SAs : /\ s = tgt[t] /\ NoSA \notin SAs /\ life[s] = "spi"
                       /\ Tidy(t) /\ Entry(s) /\ Involved(t, s)
  <2>1. tgt[t] \in SAs /\ Tidy(t)
    BY PcGroups DEF Order, PutNewEntry, Pointers
  <2> QED
    BY <2>1 DEF NoSA, SAs, Order, PutNewEntry, Involved, NewPcs, Safety, Safe
<1>1. \A u \in Threads \ {t} : ~Involved(u, s)
  BY <1>0, Claimed
<1>p. pc[t] = "create" /\ Went(t, "use", s, NoSA, todo[t], late[t])
  BY <1>0, Wents DEF PutNewEntry
<1>c. "create" \in FreePcs
  BY DEF FreePcs
<1>3. \A r \in SAs \ {s} : Same(r)
  BY <1>0 DEF PutNewEntry, Same, flagVars, trackVars, hashVars, TypeOK, SaType, EntryType
<1>s. life'[s] = "table" /\ holder'[s] = t
  BY <1>0 DEF PutNewEntry, TypeOK, SaType, EntryType
<1>4. \A r \in SAs \ {s} : Uses(t, r)' <=> Uses(t, r)
  BY <1>0, <1>p, <1>c DEF Went, Uses, Tidy, UsePcs
<1>5. Touches(t, s)
  BY <1>1, <1>3, <1>4, <1>p DEF Touches, Went
<1>6. Tidy(t)'
  <2>1. todo[t] = {} /\ ~late[t]
    BY <1>0, <1>p, <1>c DEF Tidy
  <2> QED
    BY <1>0, <1>p, <1>s, <2>1 DEF Tidy, Went
<1>7. Entry(s)'
  <2>1. Uses(t, s)'
    BY <1>p DEF Uses, Went
  <2>2. Held(s)'
    BY <1>s, <2>1 DEF Held, Uses
  <2> QED
    BY <1>0, <1>s, <2>2, ConstantAssumption
       DEF PutNewEntry, Entry, Listed, Idle, Closed, Open, Hashed, flagVars, trackVars, hashVars
<1>8. Fate(t, s) /\ (Known(s) => Known(s)')
  BY <1>0, <1>s, <1>p DEF Fate, Alive, Known, Uses, Went, Entry, Listed
<1>9. initHashes' = initHashes /\ \A m \in Messages : initHashes[m] = s => Hash(m)'
  BY <1>s, <1>0 DEF PutNewEntry, hashVars, Order, Hash
<1> QED
  BY <1>0, <1>5, <1>6, <1>7, <1>8, <1>9, TouchStep DEF Outcome

\* A hash is taken from the table.
LEMMA Unhashed ==
  ASSUME Inv, NEW s \in SAs, initHash[s] # NoMessage, initHashes' = RemoveInitHash(s),
         initHashes[initHash[s]] = s
  PROVE  /\ \A m \in Messages : initHashes'[m] # initHashes[m] => initHashes[m] = s
         /\ \A m \in Messages : initHashes[m] = s => initHashes'[m] = NoSA
<1>1. initHash[s] \in Messages
  BY DEF Inv, TypeOK, HashType
<1>2. \A m \in Messages : initHashes'[m] = IF m = initHash[s] THEN NoSA ELSE initHashes[m]
  BY <1>1 DEF RemoveInitHash, Inv, TypeOK, HashType
<1>3. NoSA \notin SAs
  BY DEF NoSA, SAs
<1> QED
  BY <1>1, <1>2, <1>3 DEF Inv, Order, Hash

LEMMA DropMove ==
  ASSUME Inv, NEW t \in Threads, DropInitHash(t)
  PROVE  Outcome(t)
<1> USE Places DEF Inv
<1>0. PICK s \in SAs : /\ s = tgt[t] /\ NoSA \notin SAs /\ life[s] = "spi"
                       /\ Tidy(t) /\ Entry(s) /\ Involved(t, s)
  <2>1. tgt[t] \in SAs /\ Tidy(t)
    BY PcGroups DEF Order, DropInitHash, Pointers
  <2> QED
    BY <2>1 DEF NoSA, SAs, Order, DropInitHash, Involved, NewPcs, Safety, Safe
<1>1. \A u \in Threads \ {t} : ~Involved(u, s)
  BY <1>0, Claimed
<1>p. pc[t] = "unhash" /\ Went(t, "idle", own[t], NoSA, todo[t], late[t])
  BY <1>0, Wents DEF DropInitHash, threadVars
<1>c. "unhash" \in FreePcs \cap NewPcs
  BY DEF FreePcs, NewPcs
<1>3. \A r \in SAs \ {s} : Same(r)
  BY <1>0 DEF DropInitHash, Same, flagVars, trackVars, TypeOK, SaType
<1>s. life'[s] = "gone"
  BY <1>0 DEF DropInitHash, TypeOK, SaType
<1>4. \A r \in SAs : Uses(t, r)' <=> Uses(t, r)
  BY <1>p DEF Went, Uses, RemovePcs
<1>5. Touches(t, s)
  BY <1>1, <1>3, <1>4, <1>p DEF Touches, Went
<1>6. Tidy(t)'
  <2>1. todo[t] = {} /\ ~late[t] /\ own[t] = NoSA
    BY <1>0, <1>p, <1>c DEF Tidy
  <2> QED
    BY <1>0, <1>p, <2>1 DEF Tidy, Went
<1>7. Entry(s)'
  BY <1>0, <1>s DEF DropInitHash, Entry, Listed, Idle, Held, Closed, Open, Hashed, flagVars,
                   trackVars
<1>8. Fate(t, s) /\ (Known(s) => Known(s)')
  BY <1>0, <1>s DEF Fate, Alive, Known
<1>9. /\ \A m \in Messages : initHashes'[m] # initHashes[m] => initHashes[m] = s
      /\ \A m \in Messages : initHashes[m] = s => initHashes'[m] = NoSA
  <2>1. initHash[s] # NoMessage /\ initHashes[initHash[s]] = s
    BY <1>0, <1>p, <1>c DEF Tidy, Entry, Hashed
  <2> QED
    BY <1>0, <2>1, Unhashed DEF DropInitHash
<1>10. \A m \in Messages : \/ initHashes'[m] # initHashes[m]
                           \/ initHashes[m] = s
                           => Hash(m)'
  BY <1>9 DEF Hash
<1> QED
  BY <1>0, <1>5, <1>6, <1>7, <1>8, <1>9, <1>10, TouchStep DEF Outcome

\* The list of connected peers is copied while the SA of the thread is not in it.
LEMMA ListMove ==
  ASSUME Inv, NEW t \in Threads, CheckUniqueness(t) \/ CheckUniquenessLate(t)
  PROVE  Outcome(t)
<1> USE Places DEF Inv
<1>1. PICK z : Went(t, "unique", own[t], tgt[t], z, late[t]) /\ z \subseteq connectedPeers
  <2>1. CASE CheckUniqueness(t)
    <3>1. PICK force : todo' = [todo EXCEPT ![t] = Duplicates(force)]
      BY <2>1 DEF CheckUniqueness
    <3>2. Duplicates(force) \subseteq connectedPeers
      BY DEF Duplicates
    <3> QED
      BY <2>1, <3>1, <3>2, Wents DEF CheckUniqueness
  <2>2. CASE CheckUniquenessLate(t)
    <3>1. Duplicates(TRUE) \subseteq connectedPeers
      BY DEF Duplicates
    <3> QED
      BY <2>2, <3>1, Wents DEF CheckUniquenessLate
  <2> QED
    BY <2>1, <2>2
<1>2. pc[t] \in {"use", "check"} /\ Still
  BY DEF CheckUniqueness, CheckUniquenessLate, Still, hashVars
<1>3. Calm(t)
  BY <1>1, <1>2, CalmWent
<1>4. Tidy(t) /\ own[t] \in SAs
  BY <1>2, PcGroups DEF Order, Pointers
<1>5. ~hasIds[own[t]]
  <2>1. CASE CheckUniqueness(t)
    BY <1>4, <2>1 DEF CheckUniqueness, NotComplete, Order, Entry, Listed
  <2>2. CASE CheckUniquenessLate(t)
    BY <1>4, <2>2 DEF CheckUniquenessLate, Tidy
  <2> QED
    BY <2>1, <2>2
<1>6. Tidy(t)'
  <2>1. \A r \in z : Known(r)'
    <3>1. \A r \in z : r \in SAs /\ hasIds[r]
      BY <1>1 DEF TypeOK, TrackType, Order, Entry, Listed
    <3> QED
      BY <1>2, <3>1 DEF Known, Still, trackVars
  <2>2. hasIds' = hasIds /\ processing' = processing /\ life' = life /\ state' = state
    BY <1>2 DEF Still, saVars, trackVars
  <2> QED
    BY <1>1, <1>4, <1>5, <2>1, <2>2 DEF Went, Tidy
<1> QED
  BY <1>3, <1>6, CalmStep DEF Outcome

LEMMA EndUniqueMove ==
  ASSUME Inv, NEW t \in Threads, EndUnique(t)
  PROVE  Outcome(t)
<1> USE Places DEF Inv
<1>1. PICK p \in {"use", "cancel"} : Went(t, p, own[t], tgt[t], {}, FALSE)
  <2>1. PICK p \in {"use", "cancel"} : pc' = [pc EXCEPT ![t] = p]
    BY DEF EndUnique
  <2>2. todo[t] = {} /\ late[t] = FALSE
    BY DEF EndUnique, TypeOK, ThreadType
  <2> QED
    BY <2>1, <2>2, Wents DEF EndUnique, threadVars
<1>2. pc[t] = "unique" /\ Still /\ todo[t] = {} /\ late[t] = FALSE
  BY DEF EndUnique, Still, hashVars, TypeOK, ThreadType
<1>3. Calm(t)
  <2>1. Went(t, p, own[t], tgt[t], todo[t], late[t])
    BY <1>1, <1>2
  <2> QED
    BY <1>2, <2>1, CalmWent
<1>4. Tidy(t)'
  <2>1. Tidy(t) /\ life' = life
    BY <1>2 DEF Order, Still, saVars
  <2> QED
    BY <1>1, <1>2, <2>1 DEF Went, Tidy
<1> QED
  BY <1>3, <1>4, CalmStep DEF Outcome

\* checkin() by the thread that works on s.
LEMMA CheckinMove ==
  ASSUME Inv, NEW t \in Threads, NEW s \in SAs, NEW st, NEW h \in Hosts, NEW contact,
         CheckinEntry(t, s, st, h, contact), st \in NextStates(state[s]),
         NEW p, NEW x, NEW y, NEW l, Went(t, p, x, y, todo[t], l),
         \/ /\ ChecksLate(s, st, contact)
            /\ pc[t] = "use" /\ s = own[t] /\ p = "check" /\ x = s /\ l = TRUE
         \/ /\ ~ChecksLate(s, st, contact)
            /\ pc[t] = "use" /\ s = own[t] /\ p = "idle" /\ x = NoSA /\ l = late[t]
         \/ /\ ~ChecksLate(s, st, contact)
            /\ pc[t] = "second" /\ s = tgt[t] /\ p = "unique" /\ x = own[t] /\ l = late[t]
  PROVE  Outcome(t)
<1> USE Places, NoSAs DEF Inv
<1>0. Tidy(t) /\ Entry(s) /\ Uses(t, s) /\ Involved(t, s) /\ (pc[t] = "second" => own[t] # s)
  BY DEF Order, Uses, Involved, Safety, Safe
<1>1. \A u \in Threads \ {t} : ~Involved(u, s)
  BY <1>0, Claimed
<1>c. life[s] \in {"new", "table"}
  BY <1>0 DEF Tidy
<1>3. \A r \in SAs \ {s} : Same(r)
  BY DEF CheckinEntry, Release, PutConnectedPeers, Same, flagVars, hashVars, TypeOK, SaType,
         EntryType, TrackType
<1>4. \A r \in SAs \ {s} : Uses(t, r)' <=> Uses(t, r)
  BY DEF Went, Uses, UsePcs
<1>5. Touches(t, s)
  BY <1>1, <1>3, <1>4 DEF Touches, Went
<1>s. /\ life'[s] = "table" /\ state'[s] = st
      /\ holder'[s] = (IF ChecksLate(s, st, contact) THEN t ELSE NoThread)
      /\ processing'[s] = NoMid
      /\ halfOpen'[s] = (st = "CONNECTING")
      /\ st = "CONNECTING" => other'[s] = h
      /\ initHashes' = initHashes /\ initHash' = initHash
      /\ driveNew' = driveNew /\ driveWait' = driveWait
  BY DEF CheckinEntry, Release, TypeOK, SaType, EntryType, TrackType, hashVars, flagVars
<1>i. LET identify == Identifies(s, st) /\ ~ChecksLate(s, st, contact)
      IN /\ hasIds'[s] <=> hasIds[s] \/ identify
         /\ s \in connectedPeers' <=> s \in connectedPeers \/ identify
  BY DEF CheckinEntry, TypeOK, TrackType, PutConnectedPeers
<1>6. Tidy(t)'
  <2>1. \A r \in SAs : Known(r) => Known(r)'
    BY <1>3, <1>c, <1>i DEF Known, Same
  <2>2. todo[t] \subseteq SAs
    BY DEF TypeOK, ThreadType
  <2>3. CASE p = "check" /\ pc[t] = "use" /\ s = own[t] /\ x = s
    <3>1. todo[t] = {} /\ ~hasIds'[s] /\ st = "ESTABLISHED"
      BY <1>0, <1>i, <2>3 DEF Tidy, ChecksLate, Identifies
    <3> QED
      BY <1>s, <2>3, <3>1 DEF Tidy, Went
  <2>4. CASE p = "idle" /\ pc[t] = "use" /\ x = NoSA /\ l = late[t]
    <3>1. todo[t] = {} /\ ~late[t]
      BY <1>0, <2>4 DEF Tidy
    <3> QED
      BY <2>4, <3>1 DEF Tidy, Went
  <2>5. CASE p = "unique" /\ pc[t] = "second" /\ x = own[t] /\ l = late[t]
    <3>1. own[t] \in SAs => Same(own[t])
      BY <1>0, <1>3, <2>5
    <3>2. \A r \in todo[t] : Known(r)'
      BY <1>0, <2>1, <2>2 DEF Tidy
    <3> QED
      BY <1>0, <2>5, <3>1, <3>2 DEF Tidy, Went, Same
  <2> QED
    BY <2>3, <2>4, <2>5
<1>7. Entry(s)'
  <2>1. Listed(s)'
    BY <1>0, <1>s, <1>i DEF Entry, Listed, Identifies, NextStates
  <2>2. Idle(s)'
    BY <1>s, <1>i, ConstantAssumption DEF Idle, Identifies
  <2>3. Held(s)'
    BY <1>s DEF Held, Uses, Went
  <2>4. ~driveNew[s]
    BY <1>0, <1>1, <1>c DEF Entry, Closed, Involved, Uses
  <2>5. Closed(s)'
    BY <1>0, <1>s, <2>4 DEF Entry, Closed
  <2>6. Open(s)' /\ Hashed(s)'
    BY <1>0, <1>c, <1>s DEF Entry, Open, Hashed
  <2> QED
    BY <2>1, <2>2, <2>3, <2>5, <2>6 DEF Entry
<1>8. Fate(t, s) /\ (Known(s) => Known(s)')
  BY <1>c, <1>s, <1>i DEF Fate, Alive, Known
<1>9. \A m \in Messages : initHashes[m] = s => Hash(m)'
  BY <1>s DEF Order, Hash
<1> QED
  BY <1>5, <1>6, <1>7, <1>8, <1>9, <1>s, TouchStep DEF Outcome

LEMMA FinishMove ==
  ASSUME Inv, NEW t \in Threads, FinishCheckin(t)
  PROVE  Outcome(t)
<1> USE Places, NoSAs DEF Inv
<1>0. PICK s \in SAs : /\ s = own[t] /\ Tidy(t) /\ Entry(s) /\ Uses(t, s) /\ Involved(t, s)
                       /\ late[t] /\ pc[t] = "unique" /\ todo[t] = {}
  <2>1. own[t] \in SAs
    BY PcGroups DEF FinishCheckin, Pointers
  <2> QED
    BY <2>1 DEF FinishCheckin, Order, Uses, Involved
<1>1. \A u \in Threads \ {t} : ~Involved(u, s)
  BY <1>0, Claimed
<1>p. Went(t, "idle", NoSA, tgt[t], {}, FALSE)
  BY <1>0, Wents DEF FinishCheckin
<1>c. life[s] = "table" /\ state[s] = "ESTABLISHED" /\ processing[s] = NoMid
  BY <1>0 DEF Tidy
<1>3. \A r \in SAs \ {s} : Same(r)
  BY <1>0 DEF FinishCheckin, PutConnectedPeers, Same, saVars, flagVars, hashVars, TypeOK,
              EntryType, TrackType
<1>4. \A r \in SAs \ {s} : Uses(t, r)' <=> Uses(t, r)
  BY <1>0, <1>p DEF Went, Uses, UsePcs
<1>5. Touches(t, s)
  BY <1>0, <1>1, <1>3, <1>4, <1>p DEF Touches, Went
<1>s. /\ life' = life /\ state' = state /\ processing' = processing /\ halfOpen' = halfOpen
      /\ hasIds'[s] /\ s \in connectedPeers'
      /\ initHashes' = initHashes /\ initHash' = initHash
      /\ driveNew' = driveNew /\ driveWait' = driveWait /\ holder'[s] = NoThread
  BY <1>0 DEF FinishCheckin, PutConnectedPeers, saVars, hashVars, flagVars, TypeOK, TrackType,
              EntryType
<1>6. Tidy(t)'
  BY <1>p DEF Tidy, Went
<1>7. Entry(s)'
  <2>1. ~driveNew[s]
    BY <1>0, <1>1, <1>c DEF Entry, Closed, Involved, Uses
  <2> QED
    BY <1>0, <1>c, <1>s, <2>1 DEF Entry, Listed, Idle, Held, Closed, Open, Hashed
<1>8. Fate(t, s) /\ (Known(s) => Known(s)')
  BY <1>c, <1>s DEF Fate, Alive, Known
<1>9. \A m \in Messages : initHashes[m] = s => Hash(m)'
  BY <1>s DEF Order, Hash
<1> QED
  BY <1>5, <1>6, <1>7, <1>8, <1>9, <1>s, TouchStep DEF Outcome

\* The loop of checkin_and_destroy() at entry s, which t uses.
LEMMA DriveMove ==
  ASSUME Inv, NEW t \in Threads, NEW s \in SAs, NEW x, DriveOut(t, s), Uses(t, s),
         life[s] = "table", pc[t] # "drive" \/ (driveNew[s] /\ tgt[t] = s),
         UNCHANGED <<holder, todo, late>>,
         \A r \in SAs \ {s} : driveNew'[r] = driveNew[r] /\ driveWait'[r] = driveWait[r],
         driveNew'[s] /\ driveWait'[s],
         \/ own[t] = s /\ x = NoSA /\ pc[t] \in {"use", "cancel"}
         \/ tgt[t] = s /\ x = own[t] /\ pc[t] \in {"second", "drive"},
         own' = [own EXCEPT ![t] = x] \/ (own' = own /\ x = own[t]),
         tgt' = [tgt EXCEPT ![t] = s] \/ (tgt' = tgt /\ s = tgt[t])
  PROVE  Outcome(t)
<1> USE Places, NoSAs DEF Inv
<1>0. /\ Tidy(t) /\ Entry(s) /\ Involved(t, s) /\ holder[s] = t
      /\ pc[t] \in {"second", "drive"} => own[t] # s
  BY DEF Order, Uses, Involved, Safety, Safe
<1>1. \A u \in Threads \ {t} : ~Involved(u, s)
  BY <1>0, Claimed
<1>2. PICK p \in {"unhalf", "drive"} :
        /\ Went(t, p, x, s, todo[t], late[t])
        /\ p = "unhalf" => life' = [life EXCEPT ![s] = "removed"]
        /\ p = "drive" => life' = life
  BY Wents DEF DriveOut
<1>3. \A r \in SAs \ {s} : Same(r)
  BY <1>2 DEF DriveOut, Same, trackVars, hashVars, TypeOK, SaType
<1>4. \A r \in SAs \ {s} : Uses(t, r)' <=> Uses(t, r)
  BY <1>2 DEF Went, Uses, RemovePcs
<1>5. Touches(t, s)
  BY <1>1, <1>2, <1>3, <1>4 DEF Touches, Went
<1>s. /\ life'[s] = (IF p = "unhalf" THEN "removed" ELSE "table")
      /\ state' = state /\ processing' = processing /\ halfOpen' = halfOpen /\ other' = other
      /\ hasIds' = hasIds /\ connectedPeers' = connectedPeers
      /\ initHashes' = initHashes /\ initHash' = initHash
  BY <1>2 DEF DriveOut, TypeOK, SaType, hashVars, trackVars
<1>6. Tidy(t)'
  <2>1. \A r \in SAs : Known(r) => Known(r)'
    BY <1>3, <1>s DEF Known, Same
  <2>2. todo[t] \subseteq SAs /\ \A r \in todo[t] : Known(r)'
    BY <1>0, <2>1 DEF TypeOK, ThreadType, Tidy
  <2>3. CASE x = NoSA /\ pc[t] \in {"use", "cancel"}
    <3>1. todo[t] = {} /\ ~late[t]
      BY <1>0, <2>3 DEF Tidy
    <3> QED
      BY <1>2, <2>3, <3>1 DEF Tidy, Went
  <2>4. CASE x = own[t] /\ own[t] # s
    <3>1. own[t] \in SAs => Same(own[t])
      BY <1>3, <2>4
    <3> QED
      BY <1>0, <1>2, <2>2, <2>4, <3>1 DEF Tidy, Went, Same
  <2> QED
    BY <1>0, <2>3, <2>4
<1>7. Entry(s)'
  <2>1. Listed(s)' /\ Open(s)' /\ Hashed(s)'
    BY <1>0, <1>2, <1>s DEF Entry, Listed, Open, Hashed
  <2>2. Uses(t, s)'
    BY <1>2 DEF Uses, Went, RemovePcs
  <2>3. Idle(s)' /\ Held(s)'
    BY <1>0, <2>2, ConstantAssumption DEF Idle, Held, Uses
  <2>4. Closed(s)'
    BY <1>2, <1>s DEF Closed, Went
  <2> QED
    BY <2>1, <2>3, <2>4 DEF Entry
<1>8. Fate(t, s) /\ (Known(s) => Known(s)')
  BY <1>2, <1>s DEF Fate, Alive, Known
<1>9. \A m \in Messages : initHashes[m] = s => Hash(m)'
  BY <1>2, <1>s DEF Order, Hash
<1> QED
  BY <1>5, <1>6, <1>7, <1>8, <1>9, <1>s, TouchStep DEF Outcome

\* checkin_and_destroy() of s by the thread that works on it.  It never finds
\* that the entry is being destroyed already: only flush() could do that.
LEMMA DestroyMove ==
  ASSUME Inv, NEW t \in Threads, NEW s \in SAs, NEW x, CheckinAndDestroy(t, s),
         UNCHANGED <<todo, late>>,
         \/ own[t] = s /\ x = NoSA /\ pc[t] \in {"use", "cancel"}
         \/ tgt[t] = s /\ x = own[t] /\ pc[t] = "second",
         own' = [own EXCEPT ![t] = x] \/ (own' = own /\ x = own[t])
  PROVE  Outcome(t)
<1> USE Places, NoSAs DEF Inv
<1>0. /\ Tidy(t) /\ Entry(s) /\ Uses(t, s) /\ Involved(t, s)
      /\ pc[t] = "second" => own[t] # s
  BY DEF Order, Uses, Involved, Safety, Safe
<1>1. \A u \in Threads \ {t} : ~Involved(u, s)
  BY <1>0, Claimed
<1>2. ~IgnoreDestroy(t, s)
  <2> SUFFICES ASSUME IgnoreDestroy(t, s) PROVE FALSE
    OBVIOUS
  <2>1. PICK u \in Threads : pc[u] = "drive" /\ tgt[u] = s
    BY <1>0 DEF IgnoreDestroy, Entry, Closed
  <2> QED
    BY <1>1, <2>1 DEF Involved, Uses
<1>3. CASE CloseEntry(t, s)
  <2>1. /\ \A r \in SAs \ {s} : driveNew'[r] = driveNew[r] /\ driveWait'[r] = driveWait[r]
        /\ driveNew'[s] /\ driveWait'[s]
    BY <1>3 DEF CloseEntry, TypeOK, FlagType
  <2>2. life[s] = "table" /\ DriveOut(t, s) /\ tgt' = [tgt EXCEPT ![t] = s] /\ holder' = holder
    BY <1>3 DEF CloseEntry
  <2> QED
    BY <1>0, <2>1, <2>2, DriveMove
<1>4. CASE DestroyUnknown(t, s)
  <2>1. PICK p \in {"idle", "unique"} : /\ Went(t, p, x, NoSA, todo[t], late[t])
                                        /\ p = "idle" => x = NoSA
                                        /\ p = "unique" => x # NoSA
    <3>1. own'[t] = x
      BY DEF TypeOK, ThreadType
    <3>2. PICK p \in {"idle", "unique"} : /\ pc' = [pc EXCEPT ![t] = p]
                                          /\ p = "idle" => x = NoSA
                                          /\ p = "unique" => x # NoSA
      BY <1>4, <3>1 DEF DestroyUnknown, Return
    <3> QED
      BY <1>4, <3>2, Wents DEF DestroyUnknown
  <2>2. \A r \in SAs \ {s} : Same(r)
    BY <1>4 DEF DestroyUnknown, Same, flagVars, trackVars, hashVars, TypeOK, SaType
  <2>3. \A r \in SAs \ {s} : Uses(t, r)' <=> Uses(t, r)
    BY <2>1 DEF Went, Uses, RemovePcs
  <2>4. Touches(t, s)
    BY <1>1, <2>1, <2>2, <2>3 DEF Touches, Went
  <2>s. life[s] = "new" /\ life'[s] = "gone" /\ ~Uses(t, s)'
    BY <1>0, <1>4, <2>1 DEF DestroyUnknown, TypeOK, SaType, Uses, Went, RemovePcs
  <2>5. Tidy(t)'
    <3>1. \A r \in SAs : Known(r) => Known(r)'
      BY <2>2, <2>s DEF Known, Same
    <3>2. todo[t] \subseteq SAs /\ \A r \in todo[t] : Known(r)'
      BY <1>0, <3>1 DEF TypeOK, ThreadType, Tidy
    <3>3. CASE x = NoSA
      <4>1. pc[t] = "second" => own[t] \in SAs
        BY PcGroups DEF Pointers
      <4>2. todo[t] = {} /\ ~late[t] /\ p = "idle"
        BY <1>0, <2>1, <3>3, <4>1 DEF Tidy
      <4> QED
        BY <2>1, <3>3, <4>2 DEF Tidy, Went
    <3>4. CASE x # NoSA /\ x = own[t] /\ own[t] # s /\ p = "unique"
      <4>1. own[t] \in SAs => Same(own[t])
        BY <2>2, <3>4
      <4> QED
        BY <1>0, <2>1, <3>2, <3>4, <4>1 DEF Tidy, Went, Same
    <3> QED
      BY <1>0, <2>1, <3>3, <3>4
  <2>6. Entry(s)'
    BY <1>0, <1>4, <2>s DEF DestroyUnknown, Entry, Listed, Idle, Held, Closed, Open, Hashed,
                            flagVars, trackVars, hashVars
  <2>7. Fate(t, s) /\ (Known(s) => Known(s)')
    BY <1>0, <2>s DEF Fate, Alive, Known
  <2>8. initHashes' = initHashes /\ \A m \in Messages : initHashes[m] # s
    BY <1>4, <2>s DEF DestroyUnknown, hashVars, Order, Hash
  <2> QED
    BY <2>4, <2>5, <2>6, <2>7, <2>8, TouchStep DEF Outcome
<1> QED
  BY <1>2, <1>3, <1>4 DEF CheckinAndDestroy

\* An entry that was removed leaves one of the other tables.
LEMMA UntrackMove ==
  ASSUME Inv, NEW t \in Threads, UntrackHalfOpen(t) \/ UntrackPeer(t)
  PROVE  Outcome(t)
<1> USE Places, NoSAs DEF Inv
<1>0. PICK s \in SAs : /\ s = tgt[t] /\ Tidy(t) /\ Entry(s) /\ Uses(t, s) /\ Involved(t, s)
                       /\ life[s] = "removed" /\ own[t] # s /\ pc[t] \in RemovePcs
  <2>1. tgt[t] \in SAs /\ pc[t] \in RemovePcs
    BY PcGroups, PcKinds DEF UntrackHalfOpen, UntrackPeer, Pointers
  <2> QED
    BY <2>1 DEF Order, Uses, Involved, Safety, Safe, UsePcs
<1>1. \A u \in Threads \ {t} : ~Involved(u, s)
  BY <1>0, Claimed
<1>2. PICK p \in {"unpeer", "uninit"} :
        /\ Went(t, p, own[t], s, todo[t], late[t])
        /\ p = "unpeer" => UntrackHalfOpen(t)
        /\ p = "uninit" => UntrackPeer(t)
  BY <1>0, Wents DEF UntrackHalfOpen, UntrackPeer, threadVars
<1>3. \A r \in SAs \ {s} : Same(r)
  BY <1>0 DEF UntrackHalfOpen, UntrackPeer, RemoveConnectedPeers, Same, saVars, flagVars,
              hashVars, TypeOK, TrackType
<1>4. \A r \in SAs \ {s} : Uses(t, r)' <=> Uses(t, r)
  BY <1>0, <1>2 DEF Went, Uses, RemovePcs
<1>5. Touches(t, s)
  BY <1>0, <1>1, <1>2, <1>3, <1>4 DEF Touches, Went
<1>s. /\ life' = life /\ state' = state /\ processing' = processing /\ other' = other
      /\ holder' = holder /\ driveNew' = driveNew /\ driveWait' = driveWait
      /\ initHashes' = initHashes /\ initHash' = initHash
      /\ p = "unpeer" => /\ ~halfOpen'[s] /\ hasIds' = hasIds
                         /\ connectedPeers' = connectedPeers
      /\ p = "uninit" => /\ halfOpen' = halfOpen /\ ~hasIds'[s] /\ s \notin connectedPeers'
                         /\ pc[t] = "unpeer"
  BY <1>0, <1>2 DEF UntrackHalfOpen, UntrackPeer, RemoveConnectedPeers, saVars, flagVars,
                    hashVars, TypeOK, TrackType, Entry, Listed
<1>6. Tidy(t)'
  <2>1. \A r \in SAs : Known(r) => Known(r)'
    BY <1>0, <1>3, <1>s DEF Known, Same
  <2>2. todo[t] \subseteq SAs /\ \A r \in todo[t] : Known(r)'
    BY <1>0, <2>1 DEF TypeOK, ThreadType, Tidy
  <2>3. own[t] \in SAs => Same(own[t])
    BY <1>0, <1>3
  <2>4. ~halfOpen'[s]
    BY <1>0, <1>2, <1>s DEF Tidy
  <2>5. p \in CheckPcs
    OBVIOUS
  <2> QED
    BY <1>0, <1>2, <1>s, <2>2, <2>3, <2>4, <2>5, PcKinds DEF Tidy, Went, Same
<1>7. Entry(s)'
  BY <1>0, <1>2, <1>s DEF Entry, Listed, Idle, Held, Closed, Open, Hashed
<1>8. Fate(t, s) /\ (Known(s) => Known(s)')
  BY <1>0, <1>s DEF Fate, Alive, Known
<1>9. \A m \in Messages : initHashes[m] = s => Hash(m)'
  BY <1>s DEF Order, Hash
<1> QED
  BY <1>5, <1>6, <1>7, <1>8, <1>9, <1>s, TouchStep DEF Outcome

LEMMA FreeEntryMove ==
  ASSUME Inv, NEW t \in Threads, FreeEntry(t)
  PROVE  Outcome(t)
<1> USE Places, NoSAs DEF Inv
<1>0. PICK s \in SAs : /\ s = tgt[t] /\ Tidy(t) /\ Entry(s) /\ Uses(t, s) /\ Involved(t, s)
                       /\ life[s] = "removed" /\ own[t] # s /\ pc[t] = "uninit"
  <2>1. tgt[t] \in SAs /\ pc[t] = "uninit"
    BY PcGroups DEF FreeEntry, Pointers
  <2> QED
    BY <2>1 DEF Order, Uses, Involved, Safety, Safe, UsePcs, RemovePcs
<1>1. \A u \in Threads \ {t} : ~Involved(u, s)
  BY <1>0, Claimed
<1>2. PICK p \in {"idle", "unique"} : /\ Went(t, p, own[t], NoSA, todo[t], late[t])
                                      /\ p = "idle" => own[t] = NoSA
  <2>1. PICK p \in {"idle", "unique"} : /\ pc' = [pc EXCEPT ![t] = p]
                                        /\ p = "idle" => own[t] = NoSA
    BY DEF FreeEntry, Return
  <2> QED
    BY <2>1, Wents DEF FreeEntry
<1>3. \A r \in SAs \ {s} : Same(r)
  BY <1>0 DEF FreeEntry, Same, flagVars, trackVars, TypeOK, SaType
<1>4. \A r \in SAs \ {s} : Uses(t, r)' <=> Uses(t, r)
  BY <1>0, <1>2 DEF Went, Uses, RemovePcs
<1>5. Touches(t, s)
  BY <1>0, <1>1, <1>2, <1>3, <1>4 DEF Touches, Went
<1>s. /\ life'[s] = "gone" /\ ~Uses(t, s)'
      /\ state' = state /\ holder' = holder /\ halfOpen' = halfOpen /\ hasIds' = hasIds
      /\ connectedPeers' = connectedPeers /\ driveNew' = driveNew /\ driveWait' = driveWait
      /\ initHash' = initHash
  BY <1>0, <1>2 DEF FreeEntry, TypeOK, SaType, flagVars, trackVars, Uses, Went, RemovePcs
<1>h. ~halfOpen[s] /\ ~hasIds[s]
  BY <1>0 DEF Tidy
<1>6. Tidy(t)'
  <2>1. \A r \in SAs : Known(r) => Known(r)'
    BY <1>0, <1>3, <1>s DEF Known, Same
  <2>2. todo[t] \subseteq SAs /\ \A r \in todo[t] : Known(r)'
    BY <1>0, <2>1 DEF TypeOK, ThreadType, Tidy
  <2>3. own[t] \in SAs => Same(own[t])
    BY <1>0, <1>3
  <2>4. p = "idle" => todo[t] = {} /\ ~late[t]
    BY <1>0, <1>2 DEF Tidy
  <2> QED
    BY <1>0, <1>2, <2>2, <2>3, <2>4 DEF Tidy, Went, Same
<1>7. Entry(s)'
  BY <1>0, <1>s, <1>h DEF Entry, Listed, Idle, Held, Closed, Open, Hashed
<1>8. Fate(t, s) /\ (Known(s) => Known(s)')
  BY <1>0, <1>s DEF Fate, Alive, Known
<1>9. /\ \A m \in Messages : initHashes'[m] # initHashes[m] => initHashes[m] = s
      /\ \A m \in Messages : initHashes[m] = s => initHashes'[m] = NoSA
  <2>1. CASE initHash[s] = NoMessage
    <3>1. \A m \in Messages : initHashes[m] # s
      BY <2>1, ConstantAssumption DEF Order, Hash
    <3> QED
      BY <1>0, <2>1, <3>1 DEF FreeEntry
  <2>2. CASE initHash[s] # NoMessage
    BY <1>0, <2>2, Unhashed DEF FreeEntry, Entry, Hashed
  <2> QED
    BY <2>1, <2>2
<1>10. \A m \in Messages : \/ initHashes'[m] # initHashes[m]
                           \/ initHashes[m] = s
                           => Hash(m)'
  BY <1>9 DEF Hash
<1> QED
  BY <1>5, <1>6, <1>7, <1>8, <1>9, <1>10, TouchStep DEF Outcome

\* Every step but those of flush() is the step of a thread, of one of the two
\* kinds, and keeps the invariant.
LEMMA Steps ==
  ASSUME "flush" \notin Jobs, Inv, Next
  PROVE  Order' /\ \E t \in Threads : Outcome(t)
<1> USE Places, NoSAs
<1>t. \A t \in Threads : todo[t] \subseteq todo[t]
  OBVIOUS
<1>1. ASSUME NEW t \in Threads, NEW s \in SAs, Checkout(t, s) PROVE Outcome(t)
  <2>1. CASE s \in Table /\ WaitForEntry(t, "wait", s, NoMid)
    BY <1>1, <2>1, WaitForEntryMove DEF Checkout, Runs, Table, WaitPcs, hashVars
  <2>2. CASE UNCHANGED <<holder, waiting, processing, asleep, pc, tgt, own, mid, mode>>
    <3>1. Went(t, pc[t], own[t], tgt[t], todo[t], late[t]) /\ Still
      BY <1>1, <2>2, Wents DEF Checkout, Still, Inv, hashVars
    <3> QED
      BY <3>1, Stay
  <2> QED
    BY <1>1, <2>1, <2>2 DEF Checkout
<1>2. ASSUME NEW t \in Threads, NEW s \in Table, NEW m, NEW fragment,
             LookupMessage(t, s, m, fragment), pc[t] \in {"idle", "lookup"}
      PROVE Outcome(t)
  <2>1. CASE WaitForEntry(t, "wait", s, IF fragment THEN NoMid ELSE m)
    BY <1>2, <2>1, WaitForEntryMove DEF LookupMessage, Table, WaitPcs, hashVars
  <2>2. CASE /\ pc' = [pc EXCEPT ![t] = "idle"] /\ tgt' = [tgt EXCEPT ![t] = NoSA]
             /\ UNCHANGED <<holder, processing, own>>
    <3>1. Went(t, "idle", own[t], NoSA, todo[t], late[t]) /\ Still
      BY <1>2, <2>2, Wents DEF LookupMessage, Still, Inv, hashVars
    <3> QED
      BY <1>2, <3>1, FreeMove
  <2> QED
    BY <1>2, <2>1, <2>2 DEF LookupMessage
<1>3. ASSUME NEW t \in Threads, NEW s \in SAs, Message(t, s) \/ List(t, s) PROVE Outcome(t)
  <2>1. CASE UNCHANGED vars \/ List(t, s)
    <3>1. Went(t, pc[t], own[t], tgt[t], todo[t], late[t]) /\ Still
      BY <2>1, Wents DEF List, vars, threadVars, hashVars, Still, Inv
    <3> QED
      BY <3>1, Stay
  <2> QED
    BY <1>2, <1>3, <2>1 DEF Message, Runs
<1>4. ASSUME NEW t \in Threads, LookupInit(t) PROVE Outcome(t)
  <2>1. CASE tgt[t] \in Table /\ LookupMessage(t, tgt[t], InitMid, FALSE)
    BY <1>2, <1>4, <2>1 DEF LookupInit
  <2>2. CASE /\ pc' = [pc EXCEPT ![t] = "idle"] /\ tgt' = [tgt EXCEPT ![t] = NoSA]
             /\ UNCHANGED threadVars /\ Still
    <3>1. Went(t, "idle", own[t], NoSA, todo[t], late[t])
      BY <2>2, Wents DEF threadVars, Inv
    <3> QED
      BY <1>4, <2>2, <3>1, FreeMove DEF LookupInit
  <2> QED
    BY <1>4, <2>1, <2>2 DEF LookupInit, Still, hashVars
<1>5. ASSUME NEW t \in Threads, NEW m \in Messages, InitMessage(t, m) PROVE Outcome(t)
  <2>0. /\ pc[t] = "idle"
        /\ UNCHANGED <<state, responder, holder, processing, flagVars, trackVars, threadVars>>
    BY <1>5 DEF InitMessage, Runs
  <2>1. CASE /\ pc' = [pc EXCEPT ![t] = "lookup"] /\ tgt' = [tgt EXCEPT ![t] = initHashes[m]]
             /\ UNCHANGED <<life, initHash, initHashes>>
    <3>1. Went(t, "lookup", own[t], initHashes[m], todo[t], late[t]) /\ Still
      BY <2>0, <2>1, Wents DEF threadVars, Still, saVars, Inv
    <3> QED
      BY <2>0, <3>1, FreeMove
  <2>2. CASE UNCHANGED <<life, initHash, initHashes, pc, tgt>>
    <3>1. Went(t, pc[t], own[t], tgt[t], todo[t], late[t]) /\ Still
      BY <2>0, <2>2, Wents DEF threadVars, Still, saVars, Inv
    <3> QED
      BY <3>1, Stay
  <2>3. ASSUME NEW s \in SAs, initHashes[m] = NoSA, life[s] = "unused",
               life' = [life EXCEPT ![s] = "spi"], initHash' = [initHash EXCEPT ![s] = m],
               initHashes' = [initHashes EXCEPT ![m] = s],
               pc' = [pc EXCEPT ![t] = "limit"], tgt' = [tgt EXCEPT ![t] = s]
        PROVE Outcome(t)
    <3>1. Went(t, "limit", own[t], s, todo[t], late[t])
      BY <2>0, <2>3, Wents DEF threadVars, Inv
    <3> QED
      BY <2>0, <2>3, <3>1, DrawMove
  <2> QED
    BY <1>5, <2>1, <2>2, <2>3 DEF InitMessage
<1>6. ASSUME NEW t \in Threads, CheckLimit(t) \/ CreateFails(t) PROVE Outcome(t)
  <2>1. PICK p \in {"create", "unhash"} :
          Went(t, p, own[t], tgt[t], todo[t], late[t]) /\ Still
    BY <1>6, Wents DEF CheckLimit, CreateFails, threadVars, hashVars, Still, Inv
  <2>2. pc[t] \in NewPcs /\ p \in NewPcs
    BY <1>6 DEF CheckLimit, CreateFails, NewPcs
  <2> QED
    BY <2>1, <2>2, FreeMove
<1>7. ASSUME NEW t \in Threads, CheckoutNew(t) \/ Spawn(t) PROVE Outcome(t)
  <2>1. CASE CheckoutNew(t)
    <3>1. PICK s \in SAs : /\ New(s) /\ own' = [own EXCEPT ![t] = s]
                           /\ \E b : responder' = [responder EXCEPT ![s] = b]
      BY <2>1 DEF CheckoutNew
    <3>2. Went(t, "use", s, tgt[t], todo[t], late[t])
      BY <2>1, <3>1, Wents DEF CheckoutNew, New, Inv
    <3> QED
      BY <2>1, <3>1, <3>2, NewMove DEF CheckoutNew, Runs
  <2>2. CASE Spawn(t)
    <3>1. PICK s \in SAs : /\ New(s) /\ tgt' = [tgt EXCEPT ![t] = s]
                           /\ \E b : responder' = [responder EXCEPT ![s] = b]
      BY <2>2 DEF Spawn
    <3>2. Went(t, "second", own[t], s, todo[t], late[t])
      BY <2>2, <3>1, Wents DEF Spawn, New, Inv
    <3> QED
      BY <2>2, <3>1, <3>2, NewMove DEF Spawn
  <2> QED
    BY <1>7, <2>1, <2>2
<1>8. ASSUME NEW t \in Threads, StartScan(t) PROVE Outcome(t)
  <2>1. Went(t, "scan", own[t], tgt[t], todo[t], late[t]) /\ Still
    BY <1>8, Wents DEF StartScan, hashVars, Still, Inv
  <2> QED
    BY <1>8, <2>1, FreeMove DEF StartScan, Runs
<1>9. ASSUME NEW t \in Threads, Visit(t) PROVE Outcome(t)
  <2>1. PICK s \in Table : WaitForEntry(t, "scanwait", s, NoMid)
    BY <1>9 DEF Visit, Following
  <2> QED
    BY <1>9, <2>1, WaitForEntryMove DEF Visit, Table, WaitPcs, hashVars
<1>10. ASSUME NEW t \in Threads, EndScan(t) PROVE Outcome(t)
  <2>1. ASSUME NEW s \in SAs, New(s), own' = [own EXCEPT ![t] = s],
               pc' = [pc EXCEPT ![t] = "use"]
        PROVE Outcome(t)
    <3>1. Went(t, "use", s, NoSA, todo[t], late[t])
      BY <1>10, <2>1, Wents DEF EndScan, New, Inv
    <3> QED
      BY <1>10, <2>1, <3>1, NewMove DEF EndScan
  <2>2. CASE /\ UNCHANGED <<life, state, holder, flagVars, processing, trackVars, hashVars, own,
                            todo, late>>
             /\ pc' = [pc EXCEPT ![t] = "idle"]
    <3>1. Went(t, "idle", own[t], NoSA, todo[t], late[t]) /\ Still
      BY <1>10, <2>2, Wents DEF EndScan, Still, saVars, hashVars, Inv
    <3> QED
      BY <1>10, <3>1, FreeMove DEF EndScan
  <2> QED
    BY <1>10, <2>1, <2>2 DEF EndScan
<1>11. ASSUME NEW t \in Threads, Resume(t) PROVE Outcome(t)
  <2>1. PICK s \in SAs : s = tgt[t] /\ life[s] = "table" /\ Entry(s)
    BY <1>11, PcGroups DEF Resume, Inv, Pointers, Safety, Safe, Order
  <2>2. /\ pc[t] \in WaitPcs
        /\ UNCHANGED <<saVars, flagVars, trackVars, initHash, initHashes, todo, late>>
    BY <1>11 DEF Resume, hashVars
  <2>3. CASE SleepAgain(t, s)
    <3>1. Went(t, pc[t], own[t], tgt[t], todo[t], late[t]) /\ Still
      BY <2>2, <2>3, Wents DEF SleepAgain, Still, Inv
    <3> QED
      BY <3>1, Stay
  <2>4. CASE LeaveEntry(t, pc[t], s)
    <3>1. PICK y : Went(t, Resigned(pc[t]), own[t], y, todo[t], late[t])
      BY <2>2, <2>4, Wents DEF LeaveEntry, Forget, Inv
    <3>2. Still
      BY <2>2, <2>4 DEF LeaveEntry, Still
    <3>3. CASE pc[t] # "dupwait"
      <4>1. Resigned(pc[t]) \in {"idle", "scan"} /\ pc[t] \in {"wait", "scanwait"}
        BY <2>2, <3>3 DEF Resigned, WaitPcs
      <4> QED
        BY <3>1, <3>2, <4>1, FreeMove
    <3>4. CASE pc[t] = "dupwait"
      <4>1. Went(t, "unique", own[t], y, todo[t], late[t])
        BY <3>1, <3>4 DEF Resigned
      <4> QED
        BY <3>2, <3>4, <4>1, DupReturn
    <3> QED
      BY <3>3, <3>4
  <2>5. CASE ~CheckedOut(s) /\ ~driveWait[s] /\ Acquire(t, pc[t], s, mid[t])
    <3>1. ~driveNew[s]
      BY <2>1, <2>5 DEF Entry, Closed
    <3>2. pc[t] # "dupwait" => pc[t] \in FreePcs
      BY <2>2 DEF WaitPcs
    <3> QED
      BY <2>1, <2>2, <2>5, <3>1, <3>2, AcquireMove
  <2> QED
    BY <1>11, <2>1, <2>3, <2>4, <2>5 DEF Resume
<1>12. ASSUME NEW t \in Threads, Checkin(t) PROVE Outcome(t)
  <2>1. PICK s \in SAs : s = own[t]
    BY <1>12, PcGroups DEF Checkin, Inv, Pointers
  <2>2. PICK st \in NextStates(state[s]), h \in Hosts, contact \in BOOLEAN :
          /\ CheckinEntry(t, s, st, h, contact)
          /\ IF ChecksLate(s, st, contact)
             THEN /\ pc' = [pc EXCEPT ![t] = "check"]
                  /\ late' = [late EXCEPT ![t] = TRUE]
                  /\ UNCHANGED own
             ELSE /\ pc' = [pc EXCEPT ![t] = "idle"]
                  /\ own' = [own EXCEPT ![t] = NoSA]
                  /\ UNCHANGED late
    BY <1>12, <2>1 DEF Checkin
  <2>0. pc[t] = "use" /\ tgt' = tgt /\ todo' = todo
    BY <1>12 DEF Checkin
  <2>3. CASE ChecksLate(s, st, contact)
    <3>1. Went(t, "check", s, tgt[t], todo[t], TRUE)
      BY <2>0, <2>1, <2>2, <2>3, Wents DEF Inv
    <3> QED
      BY <2>0, <2>1, <2>2, <2>3, <3>1, CheckinMove
  <2>4. CASE ~ChecksLate(s, st, contact)
    <3>1. Went(t, "idle", NoSA, tgt[t], todo[t], late[t])
      BY <2>0, <2>1, <2>2, <2>4, Wents DEF Inv
    <3> QED
      BY <2>0, <2>1, <2>2, <2>4, <3>1, CheckinMove
  <2> QED
    BY <2>3, <2>4
<1>13. ASSUME NEW t \in Threads, Destroy(t) PROVE Outcome(t)
  <2>1. PICK s \in SAs : s = own[t]
    BY <1>13, PcGroups DEF Destroy, Inv, Pointers
  <2> QED
    BY <1>13, <2>1, DestroyMove DEF Destroy
<1>14. ASSUME NEW t \in Threads, DriveOutMore(t) PROVE Outcome(t)
  <2>1. PICK s \in SAs : s = tgt[t] /\ Uses(t, s) /\ life[s] = "table"
    BY <1>14, PcGroups DEF DriveOutMore, Inv, Pointers, Safety, Safe, Uses
  <2>2. driveNew[s] /\ driveWait[s]
    BY <1>14, <2>1 DEF DriveOutMore, Inv, Order, Tidy, Entry, Closed
  <2>3. /\ pc[t] = "drive" /\ DriveOut(t, s)
        /\ UNCHANGED <<holder, todo, late, own, tgt, driveNew, driveWait>>
    BY <1>14, <2>1 DEF DriveOutMore, threadVars, flagVars
  <2> QED
    BY <2>1, <2>2, <2>3, DriveMove
<1>15. ASSUME NEW t \in Threads, NEW s \in SAs, CheckoutDuplicate(t, s) PROVE Outcome(t)
  <2>0. /\ todo' = [todo EXCEPT ![t] = todo[t] \ {s}] /\ todo[t] \ {s} \subseteq todo[t]
        /\ s \in todo[t] /\ pc[t] = "unique"
    BY <1>15 DEF CheckoutDuplicate
  <2>1. CASE s \in Table /\ WaitForEntry(t, "dupwait", s, NoMid)
    <3>1. /\ UNCHANGED <<saVars, flagVars, trackVars, initHash, initHashes, late>>
          /\ "dupwait" \in WaitPcs /\ life[s] = "table"
      BY <1>15, <2>1 DEF CheckoutDuplicate, hashVars, WaitPcs, Table
    <3> QED
      BY <2>0, <2>1, <3>1, WaitForEntryMove
  <2>2. CASE UNCHANGED <<holder, waiting, processing, asleep, pc, tgt, own, mid, mode>>
    <3>1. Went(t, pc[t], own[t], tgt[t], todo[t] \ {s}, late[t]) /\ Still
      BY <1>15, <2>0, <2>2, Wents DEF CheckoutDuplicate, Still, Inv, hashVars
    <3> QED
      BY <2>0, <3>1, Stay
  <2> QED
    BY <1>15, <2>1, <2>2 DEF CheckoutDuplicate
<1>16. ASSUME NEW t \in Threads, CheckinSecond(t) PROVE Outcome(t)
  <2>1. PICK s \in SAs : s = tgt[t]
    BY <1>16, PcGroups DEF CheckinSecond, Inv, Pointers
  <2>2. \A tr \in Treatments(t, s) : tr[1] \in NextStates(state[s])
    <3>1. state[s] \in IkeStates
      BY DEF Inv, TypeOK, SaType
    <3> QED
      BY <3>1 DEF Treatments, NextStates, IkeStates
  <2>3. PICK h \in Hosts, st \in NextStates(state[s]) : CheckinEntry(t, s, st, h, FALSE)
    <3>1. PICK h \in Hosts :
            \/ \E st \in NextStates(state[s]) : CheckinEntry(t, s, st, h, FALSE)
            \/ \E tr \in Treatments(t, s) : CheckinEntry(t, s, tr[1], h, FALSE)
      BY <1>16, <2>1 DEF CheckinSecond
    <3> QED
      BY <2>2, <3>1
  <2>4. Went(t, "unique", own[t], NoSA, todo[t], late[t])
    BY <1>16, Wents DEF CheckinSecond, Inv
  <2>5. ~ChecksLate(s, st, FALSE) /\ pc[t] = "second"
    BY <1>16 DEF ChecksLate, CheckinSecond
  <2> QED
    BY <2>1, <2>3, <2>4, <2>5, CheckinMove
<1>17. ASSUME NEW t \in Threads, DestroySecond(t) PROVE Outcome(t)
  <2>1. PICK s \in SAs : s = tgt[t]
    BY <1>17, PcGroups DEF DestroySecond, Inv, Pointers
  <2> QED
    BY <1>17, <2>1, DestroyMove DEF DestroySecond
<1>18. ~Flush
  BY DEF Flush, FlushMark, FlushVisit, FlushResume, FlushDestroy, FlushRng,
         DestroyManager, Inv, Safety
<1>19. \E t \in Threads : Outcome(t)
  BY <1>1, <1>3, <1>4, <1>5, <1>6, <1>7, <1>8, <1>9, <1>10, <1>11, <1>12, <1>13, <1>14,
     <1>15, <1>16, <1>17, <1>18, PutMove, DropMove, FinishMove, UntrackMove, FreeEntryMove,
     ListMove, EndUniqueMove DEF Next, Start, Continue
<1> QED
  BY <1>19 DEF Outcome

-----------------------------------------------------------------------------
(* The invariant, and what follows from it.                                  *)

LEMMA InvStep ==
  ASSUME "flush" \notin Jobs, Inv, [Next]_vars
  PROVE  Inv'
<1>1. TypeOK' /\ Pointers' /\ Safety'
  BY TypeStep, PointersStep, SafetyStep DEF Inv
<1>2. CASE Next
  BY <1>1, <1>2, Steps DEF Inv
<1>3. CASE UNCHANGED vars
  <2>1. UNCHANGED <<life, state, responder, holder, driveNew, driveWait, processing, halfOpen,
                    other, hasIds, connectedPeers, initHash, initHashes, pc, own, tgt,
                    todo, late>>
    BY <1>3 DEF vars, saVars, flagVars, trackVars, hashVars, threadVars
  <2>2. \A t \in Threads : Tidy(t)'
    BY <2>1 DEF Inv, Order, Tidy, Known
  <2>3. \A s \in SAs : Entry(s)'
    BY <2>1 DEF Inv, Order, Entry, Listed, Idle, Held, Closed, Open, Hashed, Uses
  <2>4. \A m \in Messages : Hash(m)'
    BY <2>1 DEF Inv, Order, Hash
  <2> QED
    BY <1>1, <2>2, <2>3, <2>4 DEF Inv, Order
<1> QED
  BY <1>2, <1>3

LEMMA InitOrder == Init => Order
<1> SUFFICES ASSUME Init PROVE Order
  OBVIOUS
<1>1. \A t \in Threads : /\ pc[t] = "idle" /\ own[t] = NoSA /\ todo[t] = {}
                         /\ ~late[t]
  BY ConstantAssumption DEF Init, Actors
<1>2. \A t \in Threads : Tidy(t)
  BY <1>1, NoSAs, Places DEF Tidy, CheckPcs
<1>3. ASSUME NEW s \in SAs PROVE Entry(s)
  <2>1. /\ life[s] = IF s \in Stored THEN "table" ELSE "unused"
        /\ state[s] = IF s \in Stored THEN "ESTABLISHED" ELSE "CREATED"
        /\ holder[s] = NoThread /\ ~driveNew[s] /\ ~driveWait[s] /\ processing[s] = NoMid
        /\ ~halfOpen[s] /\ (hasIds[s] <=> s \in Stored) /\ initHash[s] = NoMessage
        /\ connectedPeers = Stored /\ driveNew[s] = driveWait[s]
    BY <1>3 DEF Init
  <2> QED
    BY <2>1 DEF Entry, Listed, Idle, Held, Closed, Open, Hashed
<1>4. \A m \in Messages : Hash(m)
  BY DEF Init, Hash
<1> QED
  BY <1>2, <1>3, <1>4 DEF Order

LEMMA InvCorrect ==
  ASSUME "flush" \notin Jobs
  PROVE  Spec => []Inv
<1>1. Inv /\ [Next]_vars => Inv'
  BY InvStep
<1>2. TypeOK /\ Pointers /\ Safety /\ Order => Inv
  BY DEF Inv
<1> QED
  BY <1>1, <1>2, InitOrder, TypeCorrect, PointersCorrect, SafetyCorrect, PTL DEF Spec

\* An established SA that nobody works on is listed among its peers' SAs, where
\* check_uniqueness() finds it, and no SA stays listed once it is freed: the
\* identities are put into the list by the same checkin() that first makes the
\* SA available, and UntrackPeer runs before the entry is freed.
THEOREM PeersAlwaysTracked ==
  ASSUME "flush" \notin Jobs
  PROVE  Spec => []PeersTracked
<1>1. Inv => PeersTracked
  BY DEF Inv, TypeOK, TrackType, Order, Entry, Listed, Idle, PeersTracked, Table
<1> QED
  BY <1>1, InvCorrect, PTL

\* The message ID marked in an entry is always that of a request some thread
\* works on, so no retransmit of the peer is ignored because of a mark left
\* behind: checkin() clears it before it gives the entry away.
THEOREM MarksNeverStale ==
  ASSUME "flush" \notin Jobs
  PROVE  Spec => []NoStaleProcessing
<1>1. Inv => NoStaleProcessing
  BY DEF Inv, Order, Entry, Idle, NoStaleProcessing, Table
<1> QED
  BY <1>1, InvCorrect, PTL

\* No initial message has two IKE_SAs, however often it is retransmitted while
\* SAs are created for it and destroyed, and a stored hash never leads to an SA
\* that has been freed: check_and_put_init_hash() stores the SPI under the
\* same mutex under which it looks the hash up.
THEOREM InitialMessagesOnce ==
  ASSUME "flush" \notin Jobs
  PROVE  Spec => []OneSAPerInit
<1>1. Inv => OneSAPerInit
  <2> SUFFICES ASSUME Inv PROVE OneSAPerInit
    OBVIOUS
  <2>1. \A s \in Table : initHash[s] # NoMessage => initHashes[initHash[s]] = s
    BY DEF Inv, Order, Entry, Hashed, Table
  <2>2. \A s, u \in Table : initHash[s] = initHash[u] /\ initHash[s] # NoMessage => s = u
    BY <2>1
  <2> QED
    BY <2>2 DEF Inv, Order, Hash, OneSAPerInit
<1> QED
  BY <1>1, InvCorrect, PTL

\* Threads that check the uniqueness of an SA they keep never wait for each
\* other: what check_uniqueness() waits for has been listed among the
\* connected peers, what its caller keeps has not yet.
THEOREM UniquenessNeverDeadlocks ==
  ASSUME "flush" \notin Jobs
  PROVE  Spec => []NoCircularWait
<1>1. Inv => NoCircularWait
  <2> SUFFICES ASSUME Inv, NEW t \in Threads, pc[t] = "dupwait",
                      NEW u \in Threads, pc[u] = "dupwait", own[u] = tgt[t]
               PROVE  FALSE
    BY DEF NoCircularWait
  <2>1. tgt[t] \in SAs /\ life[tgt[t]] = "table"
    BY PcGroups DEF Inv, Pointers, Safety, Safe, WaitPcs
  <2>2. hasIds[tgt[t]]
    BY <2>1 DEF Inv, Order, Tidy, Known
  <2> QED
    BY <2>2 DEF Inv, Order, Tidy
<1> QED
  BY <1>1, InvCorrect, PTL

-----------------------------------------------------------------------------
(* The manager implements SaCheckout.                                        *)

\* The threads that work on SA s.
UsersOf(s) == {t \in Threads : Uses(t, s)}

\* The users of SAs that a step does not touch stay.
LEMMA UsersKept ==
  ASSUME NEW t \in Threads, Alone(t), NEW r \in SAs, Uses(t, r)' <=> Uses(t, r)
  PROVE  UsersOf(r)' = UsersOf(r)
  BY DEF Alone, UsersOf, Uses

\* A thread that uses an SA is its only user.
LEMMA OnlyUser ==
  ASSUME Safety, NEW t \in Threads, NEW s \in SAs, Uses(t, s)
  PROVE  UsersOf(s) = {t} /\ life[s] \in Alive
  BY DEF Safety, Apart, Involved, Safe, UsersOf

LEMMA CheckoutCalm ==
  ASSUME NEW t \in Threads, Calm(t)
  PROVE  UNCHANGED Checkouts!vars
<1>1. \A r \in SAs : UsersOf(r)' = UsersOf(r)
  BY UsersKept DEF Calm
<1>2. Users' = Users
  BY <1>1 DEF Users, UsersOf
<1>3. Existing' = Existing /\ Freed' = Freed
  BY DEF Calm, Same, Existing, Freed
<1> QED
  BY <1>2, <1>3 DEF Checkouts!vars

LEMMA CheckoutTouch ==
  ASSUME Inv, Inv', NEW t \in Threads, NEW s \in SAs, Touches(t, s), Fate(t, s)
  PROVE  [Checkouts!Next]_(Checkouts!vars)
<1>1. Users' = [Users EXCEPT ![s] = UsersOf(s)']
  <2>1. \A r \in SAs \ {s} : UsersOf(r)' = UsersOf(r)
    BY UsersKept DEF Touches
  <2>2. /\ Users = [r \in SAs |-> UsersOf(r)]
        /\ Users' = [r \in SAs |-> UsersOf(r)']
    BY DEF Users, UsersOf
  <2> QED
    BY <2>1, <2>2
<1>2. Users[s] = UsersOf(s)
  BY DEF Users, UsersOf
<1>3. UsersOf(s) = IF Uses(t, s) THEN {t} ELSE {}
  BY OnlyUser DEF Touches, Involved, UsersOf, Inv
<1>4. UsersOf(s)' = IF Uses(t, s)' THEN {t} ELSE {}
  BY <1>3 DEF Touches, Alone, Involved, UsersOf, Uses
<1>5. \A r \in SAs \ {s} : life'[r] = life[r]
  BY DEF Touches, Same
<1>6. Uses(t, s) => life[s] \in Alive
  BY OnlyUser DEF Inv
<1>7. Uses(t, s)' => life'[s] \in Alive
  BY DEF Inv, Safety, Safe
<1>e. /\ Existing = {r \in SAs : life[r] \in Alive}
      /\ Existing' = {r \in SAs : life'[r] \in Alive}
      /\ Freed = {r \in SAs : life[r] = "gone"}
      /\ Freed' = {r \in SAs : life'[r] = "gone"}
      /\ "gone" \notin Alive
  BY DEF Existing, Freed, Alive
<1>8. CASE life[s] \notin Alive /\ life'[s] \in Alive
  <2>1. s \notin Existing \cup Freed
    BY <1>8, <1>e DEF Fate
  <2>2. Existing' = Existing \cup {s} /\ Freed' = Freed
    BY <1>5, <1>8, <1>e, <2>1
  <2>3. Users' = [Users EXCEPT ![s] = {t}]
    BY <1>1, <1>4, <1>8 DEF Fate
  <2> QED
    BY <2>1, <2>2, <2>3 DEF Checkouts!Next, Checkouts!Create
<1>9. CASE life[s] \in Alive /\ life'[s] \notin Alive
  <2>1. s \in Existing /\ Users[s] = {t} /\ Users' = [Users EXCEPT ![s] = {}]
    BY <1>1, <1>2, <1>3, <1>4, <1>9, <1>e DEF Fate
  <2>2. Existing' = Existing \ {s} /\ Freed' = Freed \cup {s}
    BY <1>5, <1>9, <1>e DEF Fate
  <2> QED
    BY <2>1, <2>2 DEF Checkouts!Next, Checkouts!CheckInAndDestroy
<1>10. CASE life[s] \in Alive /\ life'[s] \in Alive
  <2>1. s \in Existing /\ Existing' = Existing /\ Freed' = Freed
    BY <1>5, <1>10, <1>e
  <2>2. CASE Uses(t, s) <=> Uses(t, s)'
    <3>1. Users' = Users
      BY <1>1, <1>2, <1>3, <1>4, <2>2 DEF Users
    <3> QED
      BY <2>1, <3>1 DEF Checkouts!vars
  <2>3. CASE Uses(t, s) /\ ~Uses(t, s)'
    <3>1. Users[s] = {t} /\ Users' = [Users EXCEPT ![s] = {}]
      BY <1>1, <1>2, <1>3, <1>4, <2>3
    <3> QED
      BY <2>1, <3>1 DEF Checkouts!Next, Checkouts!CheckIn
  <2>4. CASE ~Uses(t, s) /\ Uses(t, s)'
    <3>1. Users[s] = {} /\ Users' = [Users EXCEPT ![s] = {t}]
      BY <1>1, <1>2, <1>3, <1>4, <2>4
    <3> QED
      BY <2>1, <3>1 DEF Checkouts!Next, Checkouts!CheckOut
  <2> QED
    BY <2>2, <2>3, <2>4
<1>11. CASE life[s] \notin Alive /\ life'[s] \notin Alive
  <2>1. Existing' = Existing
    BY <1>5, <1>11, <1>e
  <2>2. Users' = Users
    BY <1>1, <1>2, <1>3, <1>4, <1>6, <1>7, <1>11 DEF Users
  <2>3. CASE life[s] # "gone" /\ life'[s] = "gone"
    <3>1. s \notin Existing \cup Freed /\ Freed' = Freed \cup {s}
      BY <1>5, <1>11, <1>e, <2>3
    <3> QED
      BY <2>1, <2>2, <3>1 DEF Checkouts!Next, Checkouts!Discard
  <2>4. CASE life[s] = "gone" \/ life'[s] # "gone"
    <3>1. Freed' = Freed
      BY <1>5, <1>e, <2>4 DEF Fate
    <3> QED
      BY <2>1, <2>2, <3>1 DEF Checkouts!vars
  <2> QED
    BY <2>3, <2>4
<1> QED
  BY <1>8, <1>9, <1>10, <1>11

\* Until the shutdown, the manager implements exclusive checkout: whatever its
\* threads do between locks, an SA that exists passes from no user to one and
\* back, only its one user ends it, and it never comes back.
THEOREM CheckoutImplemented ==
  ASSUME "flush" \notin Jobs
  PROVE  Spec => ImplementsCheckout
<1>1. Init => Checkouts!Init
  <2> SUFFICES ASSUME Init PROVE Checkouts!Init
    OBVIOUS
  <2>1. \A t \in Threads, s \in SAs : ~Uses(t, s)
    <3>1. \A t \in Threads : pc[t] = "idle" /\ own[t] = NoSA
      BY ConstantAssumption DEF Init, Actors
    <3> QED
      BY <3>1, NoSAs DEF Uses, RemovePcs
  <2>2. Users = [s \in SAs |-> {}]
    BY <2>1 DEF Users
  <2>3. Freed = {} /\ Existing \subseteq SAs
    BY DEF Init, Freed, Existing
  <2> QED
    BY <2>2, <2>3 DEF Checkouts!Init
<1>2. Inv /\ Inv' /\ [Next]_vars => [Checkouts!Next]_(Checkouts!vars)
  <2> SUFFICES ASSUME Inv, Inv', [Next]_vars
               PROVE  [Checkouts!Next]_(Checkouts!vars)
    OBVIOUS
  <2>1. CASE Next
    <3>1. PICK t \in Threads : Outcome(t)
      BY <2>1, Steps
    <3> QED
      BY <3>1, CheckoutCalm, CheckoutTouch DEF Outcome
  <2>2. CASE UNCHANGED vars
    BY <2>2 DEF vars, saVars, threadVars, Checkouts!vars, Users, Existing, Freed, Uses
  <2> QED
    BY <2>1, <2>2
<1> QED
  BY <1>1, <1>2, InvCorrect, PTL DEF Spec, ImplementsCheckout, Checkouts!Spec

-----------------------------------------------------------------------------
(* The counters of half-open SAs, which the manager adjusts one by one, agree *)
(* with the entries of the table.                                             *)

\* The half-open SAs with peer h are counted, and those among them that the
\* peer initiated.
Counts(table, open, host, resp) ==
  \A h \in Hosts :
    /\ table[h].count = Cardinality({s \in open : host[s] = h})
    /\ table[h].responder = Cardinality({s \in open : host[s] = h /\ resp[s]})

Tables == [Hosts -> [count : Int, responder : Int]]

\* A set of SAs with one more or less.
LEMMA Sizes ==
  ASSUME NEW S, S \subseteq SAs
  PROVE  /\ Cardinality(S) \in Nat
         /\ \A s \in SAs : s \notin S => Cardinality(S \cup {s}) = Cardinality(S) + 1
         /\ \A s \in S : /\ Cardinality(S \ {s}) = Cardinality(S) - 1
                         /\ Cardinality(S) > 0
<1>1. IsFiniteSet(SAs)
  BY ConstantAssumption, FS_Interval DEF SAs
<1>2. IsFiniteSet(S) /\ Cardinality(S) \in Nat
  BY <1>1, FS_Subset, FS_CardinalityType
<1>3. \A s : s \notin S => Cardinality(S \cup {s}) = Cardinality(S) + 1
  BY <1>2, FS_AddElement
<1>4. ASSUME NEW s \in S PROVE Cardinality(S \ {s}) = Cardinality(S) - 1 /\ Cardinality(S) > 0
  <2>1. Cardinality(S \ {s}) = Cardinality(S) - 1
    BY <1>2, <1>4, FS_RemoveElement
  <2>2. IsFiniteSet(S \ {s}) /\ Cardinality(S \ {s}) \in Nat
    BY <1>1, FS_Subset, FS_CardinalityType
  <2> QED
    BY <1>2, <2>1, <2>2
<1> QED
  BY <1>2, <1>3, <1>4

\* put_half_open() counts an SA that was not counted.
LEMMA PutCounts ==
  ASSUME NEW table \in Tables, NEW open, open \subseteq SAs,
         NEW host, host \in [SAs -> Hosts \cup {NoHost}], NEW resp, resp \in [SAs -> BOOLEAN],
         Counts(table, open, host, resp), NEW s \in SAs, s \notin open, NEW h \in Hosts
  PROVE  /\ PutHalfOpen(table, h, resp[s]) \in Tables
         /\ Counts(PutHalfOpen(table, h, resp[s]), open \cup {s}, [host EXCEPT ![s] = h], resp)
<1> DEFINE after == PutHalfOpen(table, h, resp[s])
           moved == [host EXCEPT ![s] = h]
           At(g) == {r \in open : host[r] = g}
           RespAt(g) == {r \in open : host[r] = g /\ resp[r]}
<1>1. after \in Tables
  BY DEF PutHalfOpen, Tables
<1>2. ASSUME NEW g \in Hosts
      PROVE  /\ after[g].count = Cardinality({r \in open \cup {s} : moved[r] = g})
             /\ after[g].responder = Cardinality({r \in open \cup {s} : moved[r] = g /\ resp[r]})
  <2>1. /\ table[g].count = Cardinality(At(g)) /\ table[g].count \in Int
        /\ table[g].responder = Cardinality(RespAt(g)) /\ table[g].responder \in Int
    BY DEF Counts, Tables
  <2>2. At(g) \subseteq SAs /\ RespAt(g) \subseteq SAs /\ s \notin At(g) /\ s \notin RespAt(g)
    OBVIOUS
  <2>3. /\ Cardinality(At(g) \cup {s}) = Cardinality(At(g)) + 1
        /\ Cardinality(RespAt(g) \cup {s}) = Cardinality(RespAt(g)) + 1
    BY <2>2, Sizes
  <2>4. /\ {r \in open \cup {s} : moved[r] = g} = IF g = h THEN At(g) \cup {s} ELSE At(g)
        /\ {r \in open \cup {s} : moved[r] = g /\ resp[r]}
             = IF g = h /\ resp[s] THEN RespAt(g) \cup {s} ELSE RespAt(g)
    OBVIOUS
  <2>5. /\ after[g].count = IF g = h THEN table[g].count + 1 ELSE table[g].count
        /\ after[g].responder = IF g = h /\ resp[s] THEN table[g].responder + 1
                                                    ELSE table[g].responder
    BY <2>1 DEF PutHalfOpen, Tables
  <2> HIDE DEF after, moved, At, RespAt
  <2> QED
    BY <2>1, <2>3, <2>4, <2>5
<1> QED
  BY <1>1, <1>2 DEF Counts

\* remove_half_open() finds an item for an SA that is counted, and stops
\* counting it.
LEMMA RemoveCounts ==
  ASSUME NEW table \in Tables, NEW open, open \subseteq SAs,
         NEW host, host \in [SAs -> Hosts \cup {NoHost}], NEW resp, resp \in [SAs -> BOOLEAN],
         Counts(table, open, host, resp), NEW s \in open, host[s] \in Hosts
  PROVE  /\ RemoveHalfOpen(table, host[s], resp[s]) \in Tables
         /\ Counts(RemoveHalfOpen(table, host[s], resp[s]), open \ {s}, host, resp)
<1> DEFINE after == RemoveHalfOpen(table, host[s], resp[s])
           At(g) == {r \in open : host[r] = g}
           RespAt(g) == {r \in open : host[r] = g /\ resp[r]}
<1>0. ASSUME NEW g \in Hosts
      PROVE  /\ table[g].count = Cardinality(At(g)) /\ table[g].count \in Int
             /\ table[g].responder = Cardinality(RespAt(g)) /\ table[g].responder \in Int
             /\ At(g) \subseteq SAs /\ RespAt(g) \subseteq SAs
  BY DEF Counts, Tables
<1>1. table[host[s]].count # 0
  <2>1. s \in At(host[s]) /\ At(host[s]) \subseteq SAs
    OBVIOUS
  <2>2. Cardinality(At(host[s])) > 0 /\ Cardinality(At(host[s])) \in Nat
    BY <2>1, Sizes
  <2>3. table[host[s]].count = Cardinality(At(host[s]))
    BY DEF Counts
  <2> HIDE DEF At
  <2> QED
    BY <2>2, <2>3
<1>2. after \in Tables
  BY <1>1 DEF RemoveHalfOpen, Tables
<1>3. ASSUME NEW g \in Hosts
      PROVE  /\ after[g].count = Cardinality({r \in open \ {s} : host[r] = g})
             /\ after[g].responder = Cardinality({r \in open \ {s} : host[r] = g /\ resp[r]})
  <2>3. /\ s \in At(g) => Cardinality(At(g) \ {s}) = Cardinality(At(g)) - 1
        /\ s \in RespAt(g) => Cardinality(RespAt(g) \ {s}) = Cardinality(RespAt(g)) - 1
    BY <1>0, Sizes
  <2>4. /\ {r \in open \ {s} : host[r] = g} = At(g) \ {s}
        /\ {r \in open \ {s} : host[r] = g /\ resp[r]} = RespAt(g) \ {s}
        /\ s \in At(g) <=> g = host[s]
        /\ s \in RespAt(g) <=> g = host[s] /\ resp[s]
        /\ s \notin At(g) => At(g) \ {s} = At(g)
        /\ s \notin RespAt(g) => RespAt(g) \ {s} = RespAt(g)
    OBVIOUS
  <2>5. /\ after[g].count = IF g = host[s] THEN table[g].count - 1 ELSE table[g].count
        /\ after[g].responder = IF g = host[s] /\ resp[s] THEN table[g].responder - 1
                                                          ELSE table[g].responder
    BY <1>0, <1>1 DEF RemoveHalfOpen, Tables
  <2> HIDE DEF after, At, RespAt
  <2> QED
    BY <1>0, <2>3, <2>4, <2>5
<1> QED
  BY <1>2, <1>3 DEF Counts

\* Only the hosts of SAs that are counted, and who initiated those, matter.
LEMMA SameCounts ==
  ASSUME NEW table, NEW open, NEW host, NEW resp, NEW host2, NEW resp2,
         Counts(table, open, host, resp),
         \A r \in open : host2[r] = host[r] /\ resp2[r] = resp[r]
  PROVE  Counts(table, open, host2, resp2)
<1>1. ASSUME NEW h
      PROVE  /\ {r \in open : host2[r] = h} = {r \in open : host[r] = h}
             /\ {r \in open : host2[r] = h /\ resp2[r]} = {r \in open : host[r] = h /\ resp[r]}
  OBVIOUS
<1> QED
  BY <1>1 DEF Counts

-----------------------------------------------------------------------------
OpenSAs == {s \in SAs : halfOpen[s]}
Counted == Counts(halfOpenTable, OpenSAs, other, responder)

LEMMA OpenTypes ==
  ASSUME TypeOK
  PROVE  /\ OpenSAs \subseteq SAs
         /\ halfOpenTable \in Tables
         /\ other \in [SAs -> Hosts \cup {NoHost}]
         /\ responder \in [SAs -> BOOLEAN]
  BY DEF OpenSAs, Tables, TypeOK, TrackType, SaType

\* The counters after a step, from the values it gives them.
LEMMA CountedAfter ==
  ASSUME NEW table, NEW open, halfOpenTable' = table, OpenSAs' = open,
         responder' = responder, Counts(table, open, other', responder)
  PROVE  Counted'
  BY DEF Counted, Counts

\* A step that leaves the half-open SAs alone.
LEMMA Quiet ==
  ASSUME Counted, halfOpen' = halfOpen, halfOpenTable' = halfOpenTable,
         \A s \in SAs : halfOpen[s] => other'[s] = other[s] /\ responder'[s] = responder[s]
  PROVE  Counted'
<1>1. OpenSAs' = OpenSAs
  BY DEF OpenSAs
<1>2. \A s \in OpenSAs : other'[s] = other[s] /\ responder'[s] = responder[s]
  BY DEF OpenSAs
<1>3. Counts(halfOpenTable, OpenSAs, other', responder')
  BY <1>2, SameCounts DEF Counted
<1> QED
  BY <1>1, <1>3 DEF Counted, Counts

\* checkin() adjusts the counters to the SA's new state and address.
LEMMA CheckinCounts ==
  ASSUME Inv, Counted, NEW t, NEW s \in SAs, NEW st, NEW h \in Hosts, NEW contact,
         CheckinEntry(t, s, st, h, contact)
  PROVE  Counted'
<1> USE OpenTypes DEF Inv
<1>0. /\ halfOpen' = [halfOpen EXCEPT ![s] = (st = "CONNECTING")]
      /\ halfOpenTable' = HalfOpenTableAfter(s, st, h)
      /\ responder' = responder
      /\ \A r \in SAs \ {s} : other'[r] = other[r]
      /\ st = "CONNECTING" => other'[s] = h
      /\ other' \in [SAs -> Hosts \cup {NoHost}]
  <2>1. other' = [other EXCEPT ![s] =
                    IF st = "CONNECTING" \/ (Identifies(s, st) /\ ~ChecksLate(s, st, contact)
                                              /\ @ = NoHost)
                    THEN h ELSE @]
    BY DEF CheckinEntry
  <2>2. other' \in [SAs -> Hosts \cup {NoHost}]
    BY <2>1
  <2> QED
    BY <2>1, <2>2 DEF CheckinEntry
<1>1. OpenSAs' = IF st = "CONNECTING" THEN OpenSAs \cup {s} ELSE OpenSAs \ {s}
  BY <1>0 DEF OpenSAs, TypeOK, TrackType
<1>2. s \in OpenSAs <=> halfOpen[s]
  BY DEF OpenSAs
<1>3. halfOpen[s] => other[s] \in Hosts
  BY DEF Order, Entry, Open
<1> DEFINE less == RemoveHalfOpen(halfOpenTable, other[s], responder[s])
<1>4. halfOpen[s] => less \in Tables /\ Counts(less, OpenSAs \ {s}, other, responder)
  BY <1>2, <1>3, RemoveCounts DEF Counted
<1> DEFINE moved == [other EXCEPT ![s] = h]
<1>5. /\ \A r \in OpenSAs \ {s} : other'[r] = other[r]
      /\ st = "CONNECTING" => \A r \in OpenSAs \cup {s} : other'[r] = moved[r]
  BY <1>0
<1>6. CASE halfOpen[s] /\ st # "CONNECTING"
  <2>1. halfOpenTable' = less /\ OpenSAs' = OpenSAs \ {s}
    BY <1>0, <1>1, <1>6 DEF HalfOpenTableAfter
  <2>2. Counts(less, OpenSAs \ {s}, other', responder)
    BY <1>4, <1>5, <1>6, SameCounts
  <2> QED
    BY <1>0, <2>1, <2>2, CountedAfter
<1>7. CASE halfOpen[s] /\ st = "CONNECTING" /\ h # other[s]
  <2> DEFINE more == PutHalfOpen(less, h, responder[s])
  <2>1. halfOpenTable' = more
    BY <1>0, <1>7 DEF HalfOpenTableAfter
  <2>2. OpenSAs' = (OpenSAs \ {s}) \cup {s} /\ OpenSAs' = OpenSAs \cup {s}
    BY <1>1, <1>2, <1>7
  <2>3. s \notin OpenSAs \ {s} /\ OpenSAs \ {s} \subseteq SAs
    BY DEF OpenSAs
  <2> HIDE DEF less
  <2>4. Counts(more, (OpenSAs \ {s}) \cup {s}, moved, responder)
    BY <1>4, <1>7, <2>3, PutCounts
  <2>5. Counts(more, OpenSAs \cup {s}, other', responder)
    BY <1>5, <1>7, <2>2, <2>4, SameCounts
  <2> QED
    BY <1>0, <2>1, <2>2, <2>5, CountedAfter
<1>8. CASE ~halfOpen[s] /\ st = "CONNECTING"
  <2> DEFINE more == PutHalfOpen(halfOpenTable, h, responder[s])
  <2>1. halfOpenTable' = more /\ OpenSAs' = OpenSAs \cup {s}
    BY <1>0, <1>1, <1>8 DEF HalfOpenTableAfter
  <2>2. Counts(more, OpenSAs \cup {s}, moved, responder)
    BY <1>2, <1>8, PutCounts DEF Counted
  <2>3. Counts(more, OpenSAs \cup {s}, other', responder)
    BY <1>5, <1>8, <2>2, SameCounts
  <2> QED
    BY <1>0, <2>1, <2>3, CountedAfter
<1>9. CASE \/ ~halfOpen[s] /\ st # "CONNECTING"
           \/ halfOpen[s] /\ st = "CONNECTING" /\ h = other[s]
  <2>1. halfOpenTable' = halfOpenTable /\ OpenSAs' = OpenSAs
    BY <1>0, <1>1, <1>2, <1>9 DEF HalfOpenTableAfter
  <2>2. \A r \in OpenSAs : other'[r] = other[r]
    BY <1>0, <1>2, <1>9
  <2>3. Counts(halfOpenTable, OpenSAs, other', responder)
    BY <2>2, SameCounts DEF Counted
  <2> QED
    BY <1>0, <2>1, <2>3, CountedAfter
<1> QED
  BY <1>6, <1>7, <1>8, <1>9

\* So does the thread that removes an entry.
LEMMA UntrackCounts ==
  ASSUME Inv, Counted, NEW t \in Threads, UntrackHalfOpen(t)
  PROVE  Counted'
<1> USE OpenTypes DEF Inv
<1>1. PICK s \in SAs : s = tgt[t]
  BY PcGroups DEF UntrackHalfOpen, Pointers
<1>2. OpenSAs' = OpenSAs \ {s} /\ other' = other /\ responder' = responder
  BY <1>1 DEF UntrackHalfOpen, OpenSAs, TypeOK, TrackType, saVars
<1>3. CASE halfOpen[s]
  <2>1. halfOpenTable' = RemoveHalfOpen(halfOpenTable, other[s], responder[s])
    BY <1>1, <1>3 DEF UntrackHalfOpen
  <2>2. s \in OpenSAs /\ other[s] \in Hosts
    BY <1>3 DEF OpenSAs, Order, Entry, Open
  <2>3. Counts(RemoveHalfOpen(halfOpenTable, other[s], responder[s]), OpenSAs \ {s},
               other, responder)
    BY <2>2, RemoveCounts DEF Counted
  <2> QED
    BY <1>2, <2>1, <2>3, CountedAfter
<1>4. CASE ~halfOpen[s]
  <2>1. halfOpenTable' = halfOpenTable /\ OpenSAs' = OpenSAs
    BY <1>1, <1>2, <1>4 DEF UntrackHalfOpen, OpenSAs
  <2> QED
    BY <1>2, <2>1, CountedAfter DEF Counted
<1> QED
  BY <1>3, <1>4

LEMMA CountedStep ==
  ASSUME "flush" \notin Jobs, Inv, Counted, [Next]_vars
  PROVE  Counted'
<1>0. ASSUME trackVars' = trackVars, NEW s \in SAs, life[s] \in {"unused", "spi"},
             \A r \in SAs \ {s} : responder'[r] = responder[r]
      PROVE  Counted'
  <2>1. ~halfOpen[s]
    BY <1>0 DEF Inv, Order, Entry, Open
  <2> QED
    BY <1>0, <2>1, Quiet DEF trackVars
<1>1. ASSUME trackVars' = trackVars, saVars' = saVars PROVE Counted'
  BY <1>1, Quiet DEF trackVars, saVars
<1>2. ASSUME trackVars' = trackVars, responder' = responder PROVE Counted'
  BY <1>2, Quiet DEF trackVars
<1>3. ASSUME NEW t \in Threads, Start(t) PROVE Counted'
  <2>1. ASSUME NEW s \in SAs, Checkout(t, s) \/ Message(t, s) \/ List(t, s) PROVE Counted'
    <3>1. CASE UNCHANGED vars
      BY <1>1, <3>1 DEF vars
    <3> QED
      BY <1>1, <2>1, <3>1 DEF Checkout, Message, LookupMessage, List
  <2>2. ASSUME NEW m \in Messages, InitMessage(t, m) PROVE Counted'
    BY <1>2, <2>2 DEF InitMessage
  <2>3. ASSUME CheckoutNew(t) PROVE Counted'
    <3>1. PICK s \in SAs, initiator \in BOOLEAN :
            New(s) /\ responder' = [responder EXCEPT ![s] = ~initiator]
      BY <2>3 DEF CheckoutNew
    <3> QED
      BY <1>0, <3>1 DEF New, Inv, TypeOK, SaType
  <2>4. ASSUME StartScan(t) PROVE Counted'
    BY <1>1, <2>4 DEF StartScan
  <2> QED
    BY <1>3, <2>1, <2>2, <2>3, <2>4 DEF Start
<1>4. ASSUME NEW t \in Threads, Continue(t) PROVE Counted'
  <2>1. ASSUME Resume(t) \/ CheckLimit(t) \/ CreateFails(t) \/ Visit(t)
                 \/ CheckUniqueness(t) \/ CheckUniquenessLate(t) \/ EndUnique(t)
                 \/ \E s \in SAs : CheckoutDuplicate(t, s)
        PROVE  Counted'
    BY <1>1, <2>1 DEF Resume, CheckLimit, CreateFails, Visit, CheckUniqueness,
                      CheckUniquenessLate, EndUnique, CheckoutDuplicate
  <2>2. ASSUME LookupInit(t) PROVE Counted'
    BY <1>1, <2>2 DEF LookupInit, LookupMessage
  <2>3. ASSUME PutNewEntry(t) PROVE Counted'
    <3>1. PICK s \in SAs : s = tgt[t] /\ life[s] = "spi"
      BY <2>3, PcGroups DEF PutNewEntry, Inv, Pointers, Safety, Safe, NewPcs
    <3> QED
      BY <1>0, <2>3, <3>1 DEF PutNewEntry, Inv, TypeOK, SaType
  <2>4. ASSUME DropInitHash(t) \/ EndScan(t) \/ FreeEntry(t) PROVE Counted'
    BY <1>2, <2>4 DEF DropInitHash, EndScan, New, FreeEntry
  <2>5. ASSUME Spawn(t) PROVE Counted'
    <3>1. PICK s \in SAs, initiator \in BOOLEAN :
            New(s) /\ responder' = [responder EXCEPT ![s] = ~initiator]
      BY <2>5 DEF Spawn
    <3> QED
      BY <1>0, <3>1 DEF New, Inv, TypeOK, SaType
  <2>6. ASSUME Checkin(t) PROVE Counted'
    <3>1. own[t] \in SAs
      BY <2>6, PcGroups DEF Checkin, Inv, Pointers
    <3> QED
      BY <2>6, <3>1, CheckinCounts DEF Checkin
  <2>7. ASSUME CheckinSecond(t) PROVE Counted'
    <3>1. tgt[t] \in SAs
      BY <2>7, PcGroups DEF CheckinSecond, Inv, Pointers
    <3> QED
      BY <2>7, <3>1, CheckinCounts DEF CheckinSecond
  <2>8. ASSUME FinishCheckin(t) PROVE Counted'
    <3>1. PICK s \in SAs : s = own[t]
      BY <2>8, PcGroups DEF FinishCheckin, Inv, Pointers
    <3>2. halfOpen[s] => other[s] \in Hosts
      BY DEF Inv, Order, Entry, Open
    <3>3. other[s] \in Hosts => other[s] # NoHost
      BY ConstantAssumption
    <3>4. PICK h \in Hosts : other' = [other EXCEPT ![s] = IF @ = NoHost THEN h ELSE @]
      BY <2>8, <3>1 DEF FinishCheckin
    <3> QED
      BY <2>8, <3>2, <3>3, <3>4, Quiet DEF FinishCheckin, Inv, TypeOK, TrackType, saVars
  <2>9. ASSUME Destroy(t) \/ DestroySecond(t) \/ DriveOutMore(t) PROVE Counted'
    BY <1>2, <2>9 DEF Destroy, DestroySecond, DriveOutMore, CheckinAndDestroy, DestroyUnknown,
                      IgnoreDestroy, CloseEntry, DriveOut, saVars
  <2>10. ASSUME UntrackPeer(t) PROVE Counted'
    BY <2>10, Quiet DEF UntrackPeer, saVars
  <2> QED
    BY <1>4, <2>1, <2>2, <2>3, <2>4, <2>5, <2>6, <2>7, <2>8, <2>9, <2>10, UntrackCounts
       DEF Continue
<1>5. ~Flush
  BY DEF Flush, FlushMark, FlushVisit, FlushResume, FlushDestroy, FlushRng,
         DestroyManager, Inv, Safety
<1>6. CASE UNCHANGED vars
  BY <1>1, <1>6 DEF vars
<1> QED
  BY <1>3, <1>4, <1>5, <1>6 DEF Next

\* The counters by which the receiver demands cookies and drops initial
\* messages are exact, whatever order SAs are checked in, change their address
\* and are destroyed in: they never drift, although each is adjusted in a
\* critical section of its own, and remove_half_open() always finds an item.
THEOREM HalfOpenAlwaysExact ==
  ASSUME "flush" \notin Jobs
  PROVE  Spec => []HalfOpenExact
<1>1. Init => Counted
  <2> SUFFICES ASSUME Init, NEW h \in Hosts
               PROVE  /\ halfOpenTable[h].count = Cardinality({s \in OpenSAs : other[s] = h})
                      /\ halfOpenTable[h].responder
                           = Cardinality({s \in OpenSAs : other[s] = h /\ responder[s]})
    BY DEF Counted, Counts
  <2>1. OpenSAs = {}
    BY DEF Init, OpenSAs
  <2>2. /\ {s \in OpenSAs : other[s] = h} = {}
        /\ {s \in OpenSAs : other[s] = h /\ responder[s]} = {}
    BY <2>1
  <2>3. halfOpenTable[h].count = 0 /\ halfOpenTable[h].responder = 0
    BY DEF Init
  <2> QED
    BY <2>2, <2>3, FS_EmptySet
<1>2. Inv /\ Counted /\ [Next]_vars => Counted'
  BY CountedStep
<1>3. Inv /\ Counted => HalfOpenExact
  <2> SUFFICES ASSUME Inv, Counted PROVE HalfOpenExact
    OBVIOUS
  <2>1. ASSUME NEW h \in Hosts
        PROVE  LET open == {s \in SAs : halfOpen[s] /\ other[s] = h}
               IN  /\ halfOpenTable[h].count = Cardinality(open)
                   /\ halfOpenTable[h].responder = Cardinality({s \in open : responder[s]})
    <3> DEFINE open == {s \in SAs : halfOpen[s] /\ other[s] = h}
    <3>1. /\ open = {s \in OpenSAs : other[s] = h}
          /\ {s \in open : responder[s]} = {s \in OpenSAs : other[s] = h /\ responder[s]}
      BY DEF OpenSAs
    <3> QED
      BY <3>1 DEF Counted, Counts
  <2> QED
    BY <2>1 DEF Inv, Order, Entry, Open, HalfOpenExact
<1> QED
  BY <1>1, <1>2, <1>3, InvCorrect, PTL DEF Spec

-----------------------------------------------------------------------------
(***************************************************************************)
(* No wake-up is lost: checkout, enumerations and checkin_and_destroy()    *)
(* sleep on the one condvar an entry has, and all but the last wake one    *)
(* sleeper only.                                                           *)
(***************************************************************************)

\* waiting_threads counts the threads that wait for the entry, and no others.
Queue(s) == waiting[s] = {u \in Threads : pc[u] \in WaitPcs /\ tgt[u] = s}

\* Only threads that wait for an entry, or for its waiting threads, sleep.
Asleep == \A a \in asleep : a \in Threads /\ pc[a] \in WaitPcs \cup {"drive"}

AwakeWaiter(s) == \E u \in waiting[s] : u \notin asleep

\* Somebody has the entry who is not waiting for its waiting threads.
AwakeHolder(s) ==
  /\ holder[s] # NoThread
  /\ ~(holder[s] \in asleep /\ pc[holder[s]] = "drive" /\ tgt[holder[s]] = s)

\* Whoever sleeps on the entry will be woken.
Wakes(s) == Sleepers(s) = {} \/ AwakeWaiter(s) \/ AwakeHolder(s)

Wakeups == /\ Asleep
           /\ \A s \in SAs : Queue(s) /\ Wakes(s)

\* A step of thread t at entry s.
At(t, s) ==
  /\ \A u \in Threads \ {t} : pc'[u] = pc[u] /\ tgt'[u] = tgt[u]
  /\ \A r \in SAs \ {s} : holder'[r] = holder[r] /\ waiting'[r] = waiting[r]
  /\ t \notin asleep /\ asleep' \subseteq asleep \cup {t}
  /\ t \in asleep' => pc'[t] \in WaitPcs \cup {"drive"} /\ tgt'[t] = s
  /\ waiting'[s] = IF pc'[t] \in WaitPcs THEN waiting[s] \cup {t} ELSE waiting[s] \ {t}
  /\ pc[t] \in WaitPcs => tgt[t] = s
  /\ pc'[t] \in WaitPcs => tgt'[t] = s

\* The threads that sleep on other entries are not affected.
LEMMA WakesOther ==
  ASSUME Wakeups, NEW t \in Threads, NEW s \in SAs, At(t, s), NEW r \in SAs, r # s
  PROVE  Wakes(r)'
<1>1. Sleepers(r)' \subseteq Sleepers(r)
  BY DEF Sleepers, At, Wakeups, Asleep
<1>2. AwakeWaiter(r) => AwakeWaiter(r)'
  <2> SUFFICES ASSUME NEW u \in waiting[r], u \notin asleep PROVE u \notin asleep'
    BY DEF AwakeWaiter, At
  <2>1. u \in Threads /\ pc[u] \in WaitPcs /\ tgt[u] = r
    BY DEF Wakeups, Queue
  <2>2. u # t
    BY <2>1 DEF At
  <2> QED
    BY <2>2 DEF At
<1>3. AwakeHolder(r) => AwakeHolder(r)'
  <2> SUFFICES ASSUME AwakeHolder(r), holder[r] \in asleep', pc'[holder[r]] = "drive",
                      tgt'[holder[r]] = r
               PROVE  FALSE
    BY DEF AwakeHolder, At
  <2>1. holder[r] # t
    BY DEF At
  <2>2. holder[r] \in asleep /\ holder[r] \in Threads
    BY <2>1 DEF At, Wakeups, Asleep
  <2> QED
    BY <2>1, <2>2 DEF AwakeHolder, At
<1> QED
  BY <1>1, <1>2, <1>3 DEF Wakes, Wakeups

LEMMA WakeStep ==
  ASSUME TypeOK, Wakeups, NEW t \in Threads, NEW s \in SAs, At(t, s), Wakes(s)'
  PROVE  Wakeups'
<1>1. Asleep'
  BY DEF Asleep, Wakeups, At
<1>2. Queue(s)'
  <2>1. waiting[s] = {u \in Threads : pc[u] \in WaitPcs /\ tgt[u] = s}
    BY DEF Wakeups, Queue
  <2> QED
    BY <2>1 DEF At, Queue
<1>3. ASSUME NEW r \in SAs \ {s} PROVE Queue(r)'
  <2>1. waiting[r] = {u \in Threads : pc[u] \in WaitPcs /\ tgt[u] = r}
    BY DEF Wakeups, Queue
  <2> QED
    BY <2>1 DEF At, Queue
<1>4. ASSUME NEW r \in SAs \ {s} PROVE Wakes(r)'
  BY WakesOther
<1> QED
  BY <1>1, <1>2, <1>3, <1>4 DEF Wakeups

-----------------------------------------------------------------------------
(* The kinds of steps that leave the sleepers on an entry with somebody to   *)
(* wake them.                                                                *)

\* A step that neither takes nor gives the entry away.
LEMMA WakesSame ==
  ASSUME Wakeups, NEW t \in Threads, NEW s \in SAs, At(t, s), holder'[s] = holder[s],
         pc[t] \notin WaitPcs, t \notin asleep'
  PROVE  Wakes(s)'
<1>1. Sleepers(s)' \subseteq Sleepers(s)
  BY DEF Sleepers, At, Wakeups, Asleep
<1>2. AwakeWaiter(s) => AwakeWaiter(s)'
  <2> SUFFICES ASSUME NEW u \in waiting[s], u \notin asleep
               PROVE  u \in waiting'[s] /\ u \notin asleep'
    BY DEF AwakeWaiter
  <2>1. u # t
    BY DEF Wakeups, Queue
  <2> QED
    BY <2>1 DEF At
<1>3. AwakeHolder(s) => AwakeHolder(s)'
  BY DEF AwakeHolder, At, Wakeups, Asleep
<1> QED
  BY <1>1, <1>2, <1>3 DEF Wakes, Wakeups

\* The thread gets or keeps the entry, awake.
LEMMA WakesTaken ==
  ASSUME Inv, NEW t \in Threads, NEW s, holder'[s] = t, t \notin asleep'
  PROVE  Wakes(s)'
  BY ConstantAssumption DEF Wakes, AwakeHolder

\* The thread goes to sleep on an entry that is checked out and not closed.
LEMMA WakesHeld ==
  ASSUME Inv, Wakeups, NEW t \in Threads, NEW s \in SAs, At(t, s),
         CheckedOut(s), ~driveNew[s], holder'[s] = holder[s], pc'[t] \in WaitPcs
  PROVE  Wakes(s)'
<1>1. holder[s] \in Threads
  BY DEF Inv, TypeOK, EntryType, CheckedOut
<1>2. ~(pc'[holder[s]] = "drive" /\ tgt'[holder[s]] = s)
  BY <1>1 DEF At, Inv, Order, Tidy, WaitPcs
<1> QED
  BY <1>2 DEF Wakes, AwakeHolder, CheckedOut

\* signal() wakes a thread that sleeps on the entry, if there is one.
LEMMA SignalWakes ==
  ASSUME NEW s, \/ asleep' \in Signalled(s)
                \/ asleep' \in SignalledTwice(s)
  PROVE  /\ asleep' \subseteq asleep
         /\ Sleepers(s) = {} \/ \E a \in Sleepers(s) : a \notin asleep'
<1>1. ASSUME NEW S, NEW X \in Signal(S, s)
      PROVE  /\ X \subseteq S
             /\ {a \in S : tgt[a] = s} = {} \/ \E a \in S : tgt[a] = s /\ a \notin X
  BY DEF Signal
<1>2. CASE asleep' \in Signalled(s)
  BY <1>1, <1>2 DEF Signalled, Sleepers
<1>3. CASE asleep' \in SignalledTwice(s)
  <2>1. PICK S \in Signalled(s) : asleep' \in Signal(S, s)
    BY <1>3 DEF SignalledTwice
  <2>2. asleep' \subseteq S
    BY <1>1, <2>1
  <2>3. /\ S \subseteq asleep
        /\ Sleepers(s) = {} \/ \E a \in Sleepers(s) : a \notin S
    BY <1>1 DEF Signalled, Sleepers
  <2> QED
    BY <2>2, <2>3
<1> QED
  BY <1>2, <1>3

\* The thread signals the condvar, when it leaves the entry or gives it away:
\* either another waiting thread wakes up, or the thread that destroys the SA.
LEMMA WakesSignal ==
  ASSUME Inv, Wakeups, NEW t \in Threads, NEW s \in SAs, At(t, s),
         \/ asleep' \in Signalled(s)
         \/ asleep' \in SignalledTwice(s),
         holder'[s] = holder[s] \/ Uses(t, s)
  PROVE  Wakes(s)'
<1>1. /\ asleep' \subseteq asleep
      /\ Sleepers(s) = {} \/ \E a \in Sleepers(s) : a \notin asleep'
  BY SignalWakes
<1>2. t \notin asleep'
  BY <1>1 DEF At
<1>3. Sleepers(s)' \subseteq Sleepers(s)
  BY <1>1, <1>2 DEF Sleepers, At, Wakeups, Asleep
<1>4. ASSUME NEW a \in Sleepers(s), a \notin asleep'
      PROVE  Wakes(s)'
  <2>1. a \in Threads /\ a # t /\ tgt[a] = s /\ pc[a] \in WaitPcs \cup {"drive"}
    BY DEF Sleepers, Wakeups, Asleep, At
  <2>2. CASE pc[a] \in WaitPcs
    <3>1. a \in waiting[s]
      BY <2>1, <2>2 DEF Wakeups, Queue
    <3>2. a \in waiting'[s]
      BY <2>1, <3>1 DEF At
    <3> QED
      BY <1>4, <3>2 DEF Wakes, AwakeWaiter
  <2>3. CASE pc[a] = "drive"
    <3>1. Uses(a, s)
      BY <2>1, <2>3 DEF Uses
    <3>2. ~Uses(t, s) /\ holder[s] = a
      BY <2>1, <2>3, <3>1 DEF Inv, Safety, Apart, Involved, Safe
    <3> QED
      BY <1>4, <2>1, <3>2, ConstantAssumption DEF Wakes, AwakeHolder
  <2> QED
    BY <2>1, <2>2, <2>3
<1> QED
  BY <1>1, <1>3, <1>4 DEF Wakes

\* The thread wakes all waiting threads, and sleeps until they are gone.
LEMMA WakesBroadcast ==
  ASSUME Wakeups, NEW t \in Threads, NEW s \in SAs, At(t, s), pc[t] \notin WaitPcs,
         pc'[t] \notin WaitPcs,
         waiting[s] # {}, asleep' = Broadcast(s) \cup {t}
  PROVE  Wakes(s)'
<1>1. PICK u \in waiting[s] : TRUE
  OBVIOUS
<1>2. u \in Threads /\ pc[u] \in WaitPcs /\ tgt[u] = s
  BY DEF Wakeups, Queue
<1>3. u # t /\ u \notin asleep'
  BY <1>2 DEF Broadcast, Sleepers
<1>4. u \in waiting'[s]
  BY <1>3 DEF At
<1> QED
  BY <1>3, <1>4 DEF Wakes, AwakeWaiter

-----------------------------------------------------------------------------
(* The actions.                                                              *)

\* Thread t goes to p and deals with y.
Goes(t, p, y) ==
  /\ pc'[t] = p /\ tgt'[t] = y
  /\ \A u \in Threads \ {t} : pc'[u] = pc[u] /\ tgt'[u] = tgt[u]

LEMMA Going ==
  ASSUME TypeOK, NEW t \in Threads, NEW p, NEW y,
         pc' = [pc EXCEPT ![t] = p] \/ (pc' = pc /\ p = pc[t]),
         tgt' = [tgt EXCEPT ![t] = y] \/ (tgt' = tgt /\ y = tgt[t])
  PROVE  Goes(t, p, y)
  BY PcValues DEF TypeOK, ActorType, Goes

\* A thread that is not where threads sleep is awake and in no queue.
LEMMA Running ==
  ASSUME Wakeups, NEW t, pc[t] \notin WaitPcs
  PROVE  /\ pc[t] # "drive" => t \notin asleep
         /\ \A s \in SAs : t \notin waiting[s]
  BY DEF Wakeups, Asleep, Queue

\* A step that has nothing to do with a condvar.
LEMMA PlainWakes ==
  ASSUME Inv, Wakeups, NEW t \in Threads, NEW p, NEW y, Goes(t, p, y),
         pc[t] \notin WaitPcs, p \notin WaitPcs, t \notin asleep,
         UNCHANGED <<holder, waiting, asleep>>
  PROVE  Wakeups'
<1>1. PICK s \in SAs : TRUE
  BY ConstantAssumption DEF SAs
<1>2. At(t, s)
  BY Running DEF At, Goes
<1>3. Wakes(s)'
  BY <1>2, WakesSame
<1> QED
  BY <1>2, <1>3, WakeStep DEF Inv

\* The thread takes the entry, or passes over it.
LEMMA AcquireWakes ==
  ASSUME Inv, Wakeups, NEW t \in Threads, NEW p \in WaitPcs, NEW s \in SAs, NEW m,
         Acquire(t, p, s, m), t \notin asleep,
         pc[t] \in WaitPcs => tgt[t] = s,
         \/ waiting' = [waiting EXCEPT ![s] = @ \ {t}]
         \/ waiting' = waiting /\ t \notin waiting[s]
  PROVE  Wakeups'
<1>0. /\ waiting'[s] = waiting[s] \ {t}
      /\ \A r \in SAs \ {s} : waiting'[r] = waiting[r]
  BY DEF Inv, TypeOK, EntryType
<1>1. asleep' = asleep \/ asleep' \in Signalled(s) \/ asleep' \in SignalledTwice(s)
  BY DEF Acquire, PassOver
<1>2. asleep' \subseteq asleep /\ t \notin asleep'
  BY <1>1, SignalWakes
<1>3. CASE Take(t, p, s, m)
  <2>1. PICK q \in {"second", "use"}, y \in {s, NoSA} : Goes(t, q, y)
    <3>1. CASE p = "dupwait"
      BY <1>3, <3>1, Going DEF Take, Inv
    <3>2. CASE p # "dupwait"
      BY <1>3, <3>2, Going DEF Take, Inv
    <3> QED
      BY <3>1, <3>2
  <2>2. holder'[s] = t /\ \A r \in SAs \ {s} : holder'[r] = holder[r]
    BY <1>3 DEF Take, Inv, TypeOK, EntryType
  <2>3. At(t, s)
    BY <1>0, <1>2, <2>1, <2>2 DEF At, Goes, WaitPcs
  <2>4. Wakes(s)'
    BY <1>2, <2>2, WakesTaken
  <2> QED
    BY <2>3, <2>4, WakeStep DEF Inv
<1>4. CASE PassOver(t, s)
  <2>1. Goes(t, "scan", s) /\ holder' = holder
    BY <1>4, Going DEF PassOver, Inv
  <2>2. At(t, s)
    BY <1>0, <1>2, <2>1 DEF At, Goes, WaitPcs
  <2>3. asleep' \in Signalled(s) \/ asleep' \in SignalledTwice(s)
    BY <1>4 DEF PassOver
  <2>4. Wakes(s)'
    BY <2>1, <2>2, <2>3, WakesSignal
  <2> QED
    BY <2>2, <2>4, WakeStep DEF Inv
<1> QED
  BY <1>3, <1>4 DEF Acquire

\* wait_for_entry() up to the first wait.
LEMMA WaitForEntryWakes ==
  ASSUME Inv, Wakeups, NEW t \in Threads, NEW p \in WaitPcs, NEW s \in SAs, NEW m,
         WaitForEntry(t, p, s, m), pc[t] \notin WaitPcs \cup {"drive"}
  PROVE  Wakeups'
<1>0. t \notin asleep /\ \A r \in SAs : t \notin waiting[r]
  BY Running
<1>1. CASE Refuse(t, p, s)
  <2>1. PICK y : Goes(t, Resigned(p), y)
    BY <1>1, Going DEF Refuse, Forget, Inv
  <2>2. asleep' \subseteq asleep /\ UNCHANGED <<holder, waiting>>
    BY <1>1, SignalWakes DEF Refuse
  <2>3. Resigned(p) \notin WaitPcs /\ waiting[s] \ {t} = waiting[s]
    BY <1>0, PcKinds
  <2>4. At(t, s) /\ t \notin asleep'
    BY <1>0, <2>1, <2>2, <2>3 DEF At, Goes
  <2> QED
    BY <2>2, <2>4, WakesSame, WakeStep DEF Inv
<1>2. CASE Enqueue(t, p, s, m)
  <2>1. Goes(t, p, s) /\ holder' = holder
    BY <1>2, Going DEF Enqueue, Inv
  <2>2. /\ waiting'[s] = waiting[s] \cup {t}
        /\ \A r \in SAs \ {s} : waiting'[r] = waiting[r]
        /\ asleep' = asleep \cup {t}
    BY <1>2 DEF Enqueue, Inv, TypeOK, EntryType
  <2>3. At(t, s)
    BY <1>0, <2>1, <2>2 DEF At, Goes
  <2>4. Wakes(s)'
    BY <1>2, <2>1, <2>3, WakesHeld DEF Enqueue, Goes
  <2> QED
    BY <2>3, <2>4, WakeStep DEF Inv
<1>3. CASE Acquire(t, p, s, m) /\ waiting' = waiting
  BY <1>0, <1>3, AcquireWakes
<1> QED
  BY <1>1, <1>2, <1>3 DEF WaitForEntry

\* wait_for_entry() from the wait on.
LEMMA ResumeWakes ==
  ASSUME Inv, Wakeups, NEW t \in Threads, Resume(t)
  PROVE  Wakeups'
<1>1. PICK s \in SAs : s = tgt[t]
  BY PcGroups DEF Resume, Inv, Pointers
<1>2. pc[t] \in WaitPcs /\ t \notin asleep /\ t \in waiting[s]
  BY <1>1 DEF Resume, Wakeups, Queue
<1>3. CASE SleepAgain(t, s)
  <2>1. Goes(t, pc[t], s) /\ UNCHANGED <<holder, waiting>> /\ asleep' = asleep \cup {t}
    BY <1>1, <1>3, Going DEF SleepAgain, Inv
  <2>2. At(t, s)
    BY <1>1, <1>2, <2>1 DEF At, Goes
  <2>3. CheckedOut(s) /\ ~driveNew[s]
    BY <1>3 DEF SleepAgain, Inv, Order, Entry, Closed
  <2>4. Wakes(s)'
    BY <1>2, <2>1, <2>2, <2>3, WakesHeld DEF Goes
  <2> QED
    BY <2>2, <2>4, WakeStep DEF Inv
<1>4. CASE LeaveEntry(t, pc[t], s)
  <2>1. PICK y : Goes(t, Resigned(pc[t]), y)
    BY <1>4, Going DEF LeaveEntry, Forget, Inv
  <2>2. /\ waiting'[s] = waiting[s] \ {t} /\ holder' = holder
        /\ \A r \in SAs \ {s} : waiting'[r] = waiting[r]
        /\ asleep' \in Signalled(s) \/ asleep' \in SignalledTwice(s)
    BY <1>4 DEF LeaveEntry, Inv, TypeOK, EntryType
  <2>3. asleep' \subseteq asleep
    BY <2>2, SignalWakes
  <2>4. At(t, s)
    BY <1>1, <1>2, <2>1, <2>2, <2>3, PcKinds DEF At, Goes
  <2>5. Wakes(s)'
    BY <2>2, <2>4, WakesSignal
  <2> QED
    BY <2>4, <2>5, WakeStep DEF Inv
<1>5. CASE waiting' = [waiting EXCEPT ![s] = @ \ {t}] /\ Acquire(t, pc[t], s, mid[t])
  BY <1>1, <1>2, <1>5, AcquireWakes
<1> QED
  BY <1>1, <1>3, <1>4, <1>5 DEF Resume

\* checkin() of an SA.
LEMMA CheckinWakes ==
  ASSUME Inv, Wakeups, NEW t \in Threads, NEW s \in SAs, Uses(t, s), NEW p, NEW y,
         Goes(t, p, y), pc[t] \notin WaitPcs \cup {"drive"}, p \notin WaitPcs,
         waiting' = waiting, NEW h, holder' = [holder EXCEPT ![s] = h],
         asleep' \in Signalled(s)
  PROVE  Wakeups'
<1>1. asleep' \subseteq asleep
  BY SignalWakes
<1>2. At(t, s)
  BY <1>1, Running DEF At, Goes, Inv, TypeOK, EntryType
<1>3. Wakes(s)'
  BY <1>2, WakesSignal
<1> QED
  BY <1>2, <1>3, WakeStep DEF Inv

\* The loop of checkin_and_destroy().
LEMMA DriveWakes ==
  ASSUME Inv, Wakeups, NEW t \in Threads, NEW s \in SAs, Uses(t, s), life[s] = "table",
         DriveOut(t, s), tgt' = [tgt EXCEPT ![t] = s] \/ (tgt' = tgt /\ tgt[t] = s),
         holder' = holder, t \notin asleep, pc[t] \notin WaitPcs
  PROVE  Wakeups'
<1>1. holder[s] = t
  BY DEF Inv, Safety, Safe
<1>2. t \notin waiting[s] /\ waiting' = waiting
  BY Running DEF DriveOut
<1>3. CASE waiting[s] = {}
  <2>1. Goes(t, "unhalf", s) /\ asleep' = asleep
    BY <1>3, Going DEF DriveOut, AllDrivenOut, Inv
  <2>2. At(t, s)
    BY <1>2, <2>1 DEF At, Goes, WaitPcs
  <2>3. Wakes(s)'
    BY <1>1, <2>1, WakesTaken
  <2> QED
    BY <2>2, <2>3, WakeStep DEF Inv
<1>4. CASE waiting[s] # {}
  <2>1. Goes(t, "drive", s) /\ asleep' = Broadcast(s) \cup {t}
    BY <1>4, Going DEF DriveOut, AllDrivenOut, Inv
  <2>2. At(t, s)
    BY <1>2, <2>1 DEF At, Goes, WaitPcs, Broadcast
  <2>3. Wakes(s)'
    BY <1>4, <2>1, <2>2, WakesBroadcast DEF Goes, WaitPcs
  <2> QED
    BY <2>2, <2>3, WakeStep DEF Inv
<1> QED
  BY <1>3, <1>4

LEMMA DestroyWakes ==
  ASSUME Inv, Wakeups, NEW t \in Threads, NEW s \in SAs, Uses(t, s), CheckinAndDestroy(t, s),
         pc[t] \in {"use", "cancel", "second"}
  PROVE  Wakeups'
<1>0. /\ pc[t] \notin WaitPcs /\ t \notin asleep
      /\ \A r \in SAs : t \notin waiting[r]
  BY Running DEF WaitPcs
<1>1. CASE DestroyUnknown(t, s)
  <2>1. PICK p \in {"idle", "unique"} : Goes(t, p, NoSA)
    BY <1>1, Going DEF DestroyUnknown, Return, Inv
  <2> QED
    BY <1>0, <1>1, <2>1, PlainWakes DEF DestroyUnknown, WaitPcs
<1>2. CASE IgnoreDestroy(t, s)
  <2>1. PICK p \in {"idle", "unique"} : Goes(t, p, NoSA)
    BY <1>2, Going DEF IgnoreDestroy, Return, Inv
  <2>2. /\ asleep' = asleep \ Sleepers(s) /\ waiting' = waiting
        /\ \A r \in SAs \ {s} : holder'[r] = holder[r]
    BY <1>2 DEF IgnoreDestroy, Broadcast, Inv, TypeOK, EntryType
  <2>3. At(t, s)
    BY <1>0, <2>1, <2>2 DEF At, Goes, WaitPcs
  <2>4. Sleepers(s)' = {}
    BY <1>0, <2>1, <2>2 DEF Sleepers, Goes, Wakeups, Asleep
  <2> QED
    BY <2>3, <2>4, WakeStep DEF Inv, Wakes
<1>3. CASE CloseEntry(t, s)
  BY <1>0, <1>3, DriveWakes DEF CloseEntry
<1> QED
  BY <1>1, <1>2, <1>3 DEF CheckinAndDestroy

LEMMA WakeupsStep ==
  ASSUME "flush" \notin Jobs, Inv, Wakeups, [Next]_vars
  PROVE  Wakeups'
<1>0. /\ {"idle", "use", "cancel", "check", "unique", "lookup", "scan", "limit", "create",
          "unhash", "second", "unhalf", "unpeer", "uninit"} \cap (WaitPcs \cup {"drive"}) = {}
      /\ {"wait", "scanwait", "dupwait"} = WaitPcs /\ "drive" \notin WaitPcs
  BY DEF WaitPcs
<1>p. ASSUME NEW t \in Threads, NEW p, NEW y, Goes(t, p, y), p \notin WaitPcs,
             pc[t] \notin WaitPcs \cup {"drive"}, UNCHANGED <<holder, waiting, asleep>>
      PROVE  Wakeups'
  BY <1>p, PlainWakes, Running
<1>s. ASSUME UNCHANGED <<holder, waiting, asleep, pc, tgt>> PROVE Wakeups'
  BY <1>s DEF Wakeups, Asleep, Queue, Wakes, Sleepers, AwakeWaiter, AwakeHolder
<1>1. ASSUME NEW t \in Threads, NEW s \in SAs, Checkout(t, s) PROVE Wakeups'
  <2>1. CASE WaitForEntry(t, "wait", s, NoMid)
    BY <1>0, <1>1, <2>1, WaitForEntryWakes DEF Checkout, Runs
  <2> QED
    BY <1>s, <1>1, <2>1 DEF Checkout
<1>2. ASSUME NEW t \in Threads, NEW s \in SAs, NEW m, NEW fragment \in BOOLEAN,
             pc[t] \in {"idle", "lookup"}, LookupMessage(t, s, m, fragment)
      PROVE Wakeups'
  <2>1. CASE WaitForEntry(t, "wait", s, IF fragment THEN NoMid ELSE m)
    BY <1>0, <1>2, <2>1, WaitForEntryWakes
  <2>2. CASE /\ pc' = [pc EXCEPT ![t] = "idle"] /\ tgt' = [tgt EXCEPT ![t] = NoSA]
             /\ UNCHANGED <<holder, waiting, processing, asleep, own, mid, mode>>
    <3>1. Goes(t, "idle", NoSA)
      BY <2>2, Going DEF Inv
    <3> QED
      BY <1>0, <1>2, <1>p, <2>2, <3>1
  <2> QED
    BY <1>2, <2>1, <2>2 DEF LookupMessage
<1>3. ASSUME NEW t \in Threads, NEW s \in SAs, Message(t, s) PROVE Wakeups'
  BY <1>2, <1>3, <1>s DEF Message, Runs, vars
<1>4. ASSUME NEW t \in Threads, LookupInit(t) PROVE Wakeups'
  <2>1. CASE /\ pc' = [pc EXCEPT ![t] = "idle"] /\ tgt' = [tgt EXCEPT ![t] = NoSA]
             /\ UNCHANGED <<holder, waiting, asleep>>
    <3>1. Goes(t, "idle", NoSA)
      BY <2>1, Going DEF Inv
    <3> QED
      BY <1>0, <1>4, <1>p, <2>1, <3>1 DEF LookupInit
  <2>2. tgt[t] \in SAs /\ pc[t] \in {"idle", "lookup"}
    BY <1>4, PcGroups DEF LookupInit, Inv, Pointers
  <2>3. CASE LookupMessage(t, tgt[t], InitMid, FALSE)
    BY <1>2, <2>2, <2>3
  <2> QED
    BY <1>4, <2>1, <2>3 DEF LookupInit
<1>5. ASSUME NEW t \in Threads, NEW s \in SAs, List(t, s) PROVE Wakeups'
  <2>1. pc[t] = "idle" /\ Goes(t, "idle", tgt[t]) /\ UNCHANGED <<holder, waiting>>
    BY <1>5, Going DEF List, Runs, Inv, threadVars
  <2>2. asleep' \subseteq asleep
    BY <1>5, SignalWakes DEF List
  <2>3. t \notin asleep /\ t \notin waiting[s]
    BY <1>0, <2>1, Running
  <2>4. At(t, s) /\ t \notin asleep'
    BY <1>0, <2>1, <2>2, <2>3 DEF At, Goes
  <2> QED
    BY <1>0, <2>1, <2>4, WakesSame, WakeStep DEF Inv
<1>6. ASSUME NEW t \in Threads, NEW m \in Messages, InitMessage(t, m) PROVE Wakeups'
  <2>1. PICK p \in {"lookup", "idle", "limit"}, y \in SAs \cup {NoSA} : Goes(t, p, y)
    <3>1. CASE /\ pc' = [pc EXCEPT ![t] = "lookup"]
               /\ tgt' = [tgt EXCEPT ![t] = initHashes[m]]
      BY <3>1, Going DEF Inv, TypeOK, HashType
    <3>2. CASE pc' = pc /\ tgt' = tgt
      BY <1>6, <3>2, Going, PcValues DEF InitMessage, Runs, Inv, TypeOK, ActorType
    <3>3. CASE \E s \in SAs : /\ pc' = [pc EXCEPT ![t] = "limit"]
                              /\ tgt' = [tgt EXCEPT ![t] = s]
      BY <3>3, Going DEF Inv
    <3> QED
      BY <1>6, <3>1, <3>2, <3>3 DEF InitMessage
  <2> QED
    BY <1>0, <1>6, <1>p, <2>1 DEF InitMessage, Runs
<1>7. ASSUME NEW t \in Threads, CheckoutNew(t) PROVE Wakeups'
  <2>1. Goes(t, "use", tgt[t])
    BY <1>7, Going DEF CheckoutNew, Inv
  <2> QED
    BY <1>0, <1>7, <1>p, <2>1 DEF CheckoutNew, Runs, New
<1>8. ASSUME NEW t \in Threads, StartScan(t) PROVE Wakeups'
  <2>1. Goes(t, "scan", tgt[t])
    BY <1>8, Going DEF StartScan, Inv
  <2> QED
    BY <1>0, <1>8, <1>p, <2>1 DEF StartScan, Runs
<1>9. ASSUME NEW t \in Threads, CheckLimit(t) \/ CreateFails(t) PROVE Wakeups'
  <2>1. PICK p \in {"create", "unhash"} : Goes(t, p, tgt[t])
    BY <1>9, Going DEF CheckLimit, CreateFails, Inv
  <2> QED
    BY <1>0, <1>9, <1>p, <2>1 DEF CheckLimit, CreateFails
<1>10. ASSUME NEW t \in Threads, PutNewEntry(t) PROVE Wakeups'
  <2>1. PICK s \in SAs : s = tgt[t]
    BY <1>10, PcGroups DEF PutNewEntry, Inv, Pointers
  <2>2. Goes(t, "use", NoSA) /\ waiting' = waiting /\ asleep' = asleep /\ pc[t] = "create"
    BY <1>10, Going DEF PutNewEntry, Inv
  <2>3. holder'[s] = t /\ \A r \in SAs \ {s} : holder'[r] = holder[r]
    BY <1>10, <2>1 DEF PutNewEntry, Inv, TypeOK, EntryType
  <2>4. t \notin asleep /\ t \notin waiting[s]
    BY <1>0, <2>2, Running
  <2>5. At(t, s)
    BY <1>0, <2>2, <2>3, <2>4 DEF At, Goes
  <2>6. Wakes(s)'
    BY <2>2, <2>3, <2>4, WakesTaken
  <2> QED
    BY <2>5, <2>6, WakeStep DEF Inv
<1>11. ASSUME NEW t \in Threads, DropInitHash(t) PROVE Wakeups'
  <2>1. Goes(t, "idle", NoSA)
    BY <1>11, Going DEF DropInitHash, Inv
  <2> QED
    BY <1>0, <1>11, <1>p, <2>1 DEF DropInitHash
<1>12. ASSUME NEW t \in Threads, Visit(t) PROVE Wakeups'
  BY <1>0, <1>12, WaitForEntryWakes DEF Visit, Following, Table
<1>13. ASSUME NEW t \in Threads, EndScan(t) PROVE Wakeups'
  <2>1. PICK p \in {"idle", "use"} : Goes(t, p, NoSA)
    BY <1>13, Going DEF EndScan, Inv
  <2> QED
    BY <1>0, <1>13, <1>p, <2>1 DEF EndScan, New
<1>14. ASSUME NEW t \in Threads, Spawn(t) PROVE Wakeups'
  <2>1. PICK y : Goes(t, "second", y)
    BY <1>14, Going DEF Spawn, Inv
  <2> QED
    BY <1>0, <1>14, <1>p, <2>1 DEF Spawn, New
<1>15. ASSUME NEW t \in Threads, Checkin(t) PROVE Wakeups'
  <2>1. PICK s \in SAs : s = own[t] /\ Uses(t, s)
    BY <1>15, PcGroups DEF Checkin, Inv, Pointers, Uses
  <2>2. PICK p \in {"check", "idle"} : Goes(t, p, tgt[t])
    BY <1>15, Going DEF Checkin, Inv
  <2>3. PICK h : /\ holder' = [holder EXCEPT ![s] = h] /\ asleep' \in Signalled(s)
                 /\ waiting' = waiting
    BY <1>15, <2>1 DEF Checkin, CheckinEntry, Release
  <2>4. pc[t] = "use"
    BY <1>15 DEF Checkin
  <2> QED
    BY <1>0, <2>1, <2>2, <2>3, <2>4, CheckinWakes
<1>16. ASSUME NEW t \in Threads, FinishCheckin(t) PROVE Wakeups'
  <2>1. PICK s \in SAs : s = own[t] /\ Uses(t, s)
    BY <1>16, PcGroups DEF FinishCheckin, Inv, Pointers, Uses
  <2>2. Goes(t, "idle", tgt[t])
    BY <1>16, Going DEF FinishCheckin, Inv
  <2>3. /\ holder' = [holder EXCEPT ![s] = NoThread] /\ asleep' \in Signalled(s)
        /\ waiting' = waiting /\ pc[t] = "unique"
    BY <1>16, <2>1 DEF FinishCheckin
  <2> QED
    BY <1>0, <2>1, <2>2, <2>3, CheckinWakes
<1>17. ASSUME NEW t \in Threads, CheckinSecond(t) PROVE Wakeups'
  <2>1. PICK s \in SAs : s = tgt[t] /\ Uses(t, s)
    BY <1>17, PcGroups DEF CheckinSecond, Inv, Pointers, Uses
  <2>2. Goes(t, "unique", NoSA)
    BY <1>17, Going DEF CheckinSecond, Inv
  <2>3. PICK h : /\ holder' = [holder EXCEPT ![s] = h] /\ asleep' \in Signalled(s)
                 /\ waiting' = waiting
    BY <1>17, <2>1 DEF CheckinSecond, CheckinEntry, Release
  <2>4. pc[t] = "second"
    BY <1>17 DEF CheckinSecond
  <2> QED
    BY <1>0, <2>1, <2>2, <2>3, <2>4, CheckinWakes
<1>18. ASSUME NEW t \in Threads, Destroy(t) PROVE Wakeups'
  <2>1. own[t] \in SAs /\ Uses(t, own[t])
    BY <1>18, PcGroups DEF Destroy, Inv, Pointers, Uses
  <2> QED
    BY <1>18, <2>1, DestroyWakes DEF Destroy
<1>19. ASSUME NEW t \in Threads, DestroySecond(t) PROVE Wakeups'
  <2>1. tgt[t] \in SAs /\ Uses(t, tgt[t])
    BY <1>19, PcGroups DEF DestroySecond, Inv, Pointers, Uses
  <2> QED
    BY <1>19, <2>1, DestroyWakes DEF DestroySecond
<1>20. ASSUME NEW t \in Threads, DriveOutMore(t) PROVE Wakeups'
  <2>1. PICK s \in SAs : s = tgt[t] /\ Uses(t, s) /\ life[s] = "table"
    BY <1>20, PcGroups DEF DriveOutMore, Inv, Pointers, Safety, Safe, Uses
  <2> QED
    BY <1>0, <1>20, <2>1, DriveWakes DEF DriveOutMore
<1>21. ASSUME NEW t \in Threads, UntrackHalfOpen(t) \/ UntrackPeer(t) PROVE Wakeups'
  <2>1. PICK p \in {"unpeer", "uninit"} : Goes(t, p, tgt[t])
    BY <1>21, Going DEF UntrackHalfOpen, UntrackPeer, Inv
  <2> QED
    BY <1>0, <1>21, <1>p, <2>1 DEF UntrackHalfOpen, UntrackPeer
<1>22. ASSUME NEW t \in Threads, FreeEntry(t) PROVE Wakeups'
  <2>1. PICK p \in {"idle", "unique"} : Goes(t, p, NoSA)
    BY <1>22, Going DEF FreeEntry, Return, Inv
  <2> QED
    BY <1>0, <1>22, <1>p, <2>1 DEF FreeEntry
<1>23. ASSUME NEW t \in Threads, CheckUniqueness(t) \/ CheckUniquenessLate(t) PROVE Wakeups'
  <2>1. Goes(t, "unique", tgt[t])
    BY <1>23, Going DEF CheckUniqueness, CheckUniquenessLate, Inv
  <2> QED
    BY <1>0, <1>23, <1>p, <2>1 DEF CheckUniqueness, CheckUniquenessLate
<1>24. ASSUME NEW t \in Threads, NEW s \in SAs, CheckoutDuplicate(t, s) PROVE Wakeups'
  <2>1. CASE WaitForEntry(t, "dupwait", s, NoMid)
    BY <1>0, <1>24, <2>1, WaitForEntryWakes DEF CheckoutDuplicate
  <2> QED
    BY <1>s, <1>24, <2>1 DEF CheckoutDuplicate
<1>25. ASSUME NEW t \in Threads, EndUnique(t) PROVE Wakeups'
  <2>1. PICK p \in {"cancel", "use"} : Goes(t, p, tgt[t])
    BY <1>25, Going DEF EndUnique, Inv
  <2> QED
    BY <1>0, <1>25, <1>p, <2>1 DEF EndUnique
<1>26. ~Flush
  BY DEF Flush, FlushMark, FlushVisit, FlushResume, FlushDestroy, FlushRng,
         DestroyManager, Inv, Safety
<1>27. CASE UNCHANGED vars
  BY <1>27, <1>s DEF vars
<1> QED
  BY <1>1, <1>3, <1>4, <1>5, <1>6, <1>7, <1>8, <1>9, <1>10, <1>11, <1>12, <1>13, <1>14, <1>15,
     <1>16, <1>17, <1>18, <1>19, <1>20, <1>21, <1>22, <1>23, <1>24, <1>25, <1>26, <1>27,
     ResumeWakes DEF Next, Start, Continue

\* No wake-up is lost, although checkout, enumerations and
\* checkin_and_destroy() sleep on one condvar and signal() wakes an arbitrary
\* one of them: whoever sleeps can count on a thread that waits for the same
\* entry and is awake, or on a holder that will signal when it is done.
THEOREM WakeupsNeverLost ==
  ASSUME "flush" \notin Jobs
  PROVE  Spec => []NoLostWakeup
<1>1. Init => Wakeups
  <2> SUFFICES ASSUME Init PROVE Wakeups
    OBVIOUS
  <2>1. \A t \in Threads : pc[t] \notin WaitPcs
    BY ConstantAssumption DEF Init, Actors, WaitPcs
  <2> QED
    BY <2>1 DEF Init, Wakeups, Asleep, Queue, Wakes, Sleepers
<1>2. Inv /\ Wakeups /\ [Next]_vars => Wakeups'
  BY WakeupsStep
<1>3. Inv /\ NoCircularWait /\ Wakeups => NoLostWakeup
  <2> SUFFICES ASSUME Inv, NoCircularWait, Wakeups, NEW a \in asleep
               PROVE  \/ AwakeWaiter(tgt[a])
                      \/ /\ holder[tgt[a]] \notin {NoThread, a}
                         /\ ~(/\ holder[tgt[a]] \in asleep /\ pc[holder[tgt[a]]] = "drive"
                              /\ tgt[holder[tgt[a]]] = tgt[a])
    BY DEF NoLostWakeup, AwakeWaiter
  <2>1. a \in Threads /\ pc[a] \in WaitPcs \cup {"drive"} /\ tgt[a] \in SAs
    BY PcGroups DEF Wakeups, Asleep, Inv, Pointers
  <2>2. AwakeWaiter(tgt[a]) \/ AwakeHolder(tgt[a])
    BY <2>1 DEF Wakeups, Wakes, Sleepers
  <2>3. ASSUME AwakeHolder(tgt[a]), holder[tgt[a]] = a PROVE FALSE
    <3>1. pc[a] \in WaitPcs /\ life[tgt[a]] = "table"
      BY <2>1, <2>3 DEF AwakeHolder, Inv, Safety, Safe
    <3>2. Uses(a, tgt[a])
      BY <2>1, <2>3, <3>1 DEF AwakeHolder, Inv, Order, Entry, Held
    <3>3. own[a] = tgt[a]
      BY <3>1, <3>2, PcKinds DEF Uses, UsePcs
    <3>4. pc[a] # "dupwait"
      BY <2>1, <3>3 DEF NoCircularWait
    <3> QED
      BY <2>1, <3>1, <3>3, <3>4, Places, NoSAs DEF Inv, Order, Tidy, WaitPcs
  <2> QED
    BY <2>2, <2>3 DEF AwakeHolder
<1> QED
  BY <1>1, <1>2, <1>3, InvCorrect, UniquenessNeverDeadlocks, PTL DEF Spec
=============================================================================
