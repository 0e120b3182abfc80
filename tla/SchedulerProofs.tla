-------------------------- MODULE SchedulerProofs ---------------------------
(***************************************************************************)
(* The scheduler's heap fires events in the order of their times, for any   *)
(* number of jobs and any times: the loops of schedule_job_tv() and         *)
(* remove_event() keep it in order, and what is in it.                      *)
(*                                                                          *)
(* The loops are recursive functions.  That a function with the recursive   *)
(* equation exists, and what it returns, is shown by looking at the least   *)
(* index (the greatest, for the loop that goes down) for which it fails.    *)
(***************************************************************************)
EXTENDS Scheduler, NaturalsInduction, WellFoundedInduction, FiniteSetTheorems, TLAPS

\* A set of numbers has a least one.
LEMMA LeastOf ==
  ASSUME NEW S, S \subseteq Nat, S # {}
  PROVE  \E x \in S : \A y \in Nat : y < x => y \notin S
<1>1. PICK x \in S : \A y \in S : ~(<<y, x>> \in OpToRel(<, Nat))
  BY NatLessThanWellFounded, WFMin
<1>2. ASSUME NEW y \in Nat, y < x PROVE y \notin S
  <2>1. <<y, x>> \in OpToRel(<, Nat)
    BY <1>2, SMT DEF OpToRel
  <2> QED BY <1>1, <2>1
<1> QED BY <1>2

-----------------------------------------------------------------------------
(* The loops have the values their equations give.                           *)

UpStep(f, i, g) ==
  IF i = 1 \/ ~Earlier(g, i, i \div 2) THEN g
  ELSE f[i \div 2][Exchanged(g, i, i \div 2)]

DownStep(f, n, i, g) ==
  IF 2 * i > n \/ ~Earlier(g, SmallerChild(g, i), i) THEN g
  ELSE f[SmallerChild(g, i)][Exchanged(g, i, SmallerChild(g, i))]

\* f solves the equation of the loop up to index m, or from m on.
SolvesUp(f, m, n) == f = [i \in 1..m |-> [g \in Heaps(n) |-> UpStep(f, i, g)]]
SolvesDown(f, m, n) == f = [i \in m..n |-> [g \in Heaps(n) |-> DownStep(f, n, i, g)]]

LEMMA Halves ==
  ASSUME NEW i \in Nat, i > 1
  PROVE  i \div 2 \in 1..(i - 1)
  OBVIOUS

LEMMA UpStepSame ==
  ASSUME NEW f, NEW e, NEW i \in Nat, NEW g, i > 1 => f[i \div 2] = e[i \div 2], i >= 1
  PROVE  UpStep(f, i, g) = UpStep(e, i, g)
<1>1. CASE i = 1
  BY <1>1 DEF UpStep
<1>2. CASE i > 1
  BY <1>2 DEF UpStep
<1> QED BY <1>1, <1>2

LEMMA UpExtends ==
  ASSUME NEW n \in Nat, NEW m \in Nat, m > 0, NEW f, SolvesUp(f, m - 1, n)
  PROVE  \E e : SolvesUp(e, m, n)
<1> DEFINE e == [i \in 1..m |-> IF i < m THEN f[i] ELSE [g \in Heaps(n) |-> UpStep(f, m, g)]]
<1>1. ASSUME NEW i \in 1..m PROVE e[i] = [g \in Heaps(n) |-> UpStep(e, i, g)]
  <2>1. i > 1 => f[i \div 2] = e[i \div 2]
    <3> SUFFICES ASSUME i > 1 PROVE f[i \div 2] = e[i \div 2]
      OBVIOUS
    <3>1. i \div 2 \in 1..m /\ i \div 2 < m
      BY Halves
    <3> QED BY <3>1
  <2>2. e[i] = [g \in Heaps(n) |-> UpStep(f, i, g)]
    <3>1. CASE i = m
      BY <3>1
    <3>2. CASE i < m
      <4>1. i \in 1..(m - 1)
        BY <3>2
      <4>2. f[i] = [g \in Heaps(n) |-> UpStep(f, i, g)]
        BY <4>1 DEF SolvesUp
      <4> QED BY <3>2, <4>2
    <3> QED BY <3>1, <3>2
  <2> HIDE DEF e
  <2>3. \A g \in Heaps(n) : UpStep(f, i, g) = UpStep(e, i, g)
    BY <2>1, UpStepSame
  <2> QED BY <2>2, <2>3
<1>2. e = [i \in 1..m |-> e[i]]
  OBVIOUS
<1>3. SolvesUp(e, m, n)
  <2> HIDE DEF e
  <2>1. [i \in 1..m |-> e[i]] = [i \in 1..m |-> [g \in Heaps(n) |-> UpStep(e, i, g)]]
    BY <1>1
  <2> QED BY <1>2, <2>1 DEF SolvesUp
<1> QED BY <1>3

LEMMA UpExists ==
  ASSUME NEW n \in Nat
  PROVE  \E f : SolvesUp(f, n, n)
<1> DEFINE S == {m \in Nat : ~\E f : SolvesUp(f, m, n)}
<1>1. SUFFICES S = {}
  OBVIOUS
<1>2. SUFFICES ASSUME S # {} PROVE FALSE
  OBVIOUS
<1>3. PICK m \in S : \A y \in Nat : y < m => y \notin S
  BY <1>2, LeastOf
<1>4. m \in Nat /\ ~\E f : SolvesUp(f, m, n)
  OBVIOUS
<1>5. CASE m = 0
  <2>1. SolvesUp([i \in 1..0 |-> 0], 0, n)
    BY DEF SolvesUp
  <2> QED BY <1>4, <1>5, <2>1
<1>6. CASE m > 0
  <2>1. m - 1 \in Nat /\ m - 1 < m
    BY <1>4, <1>6
  <2>2. PICK f : SolvesUp(f, m - 1, n)
    BY <1>3, <2>1
  <2> QED BY <1>4, <1>6, <2>2, UpExtends
<1> QED BY <1>4, <1>5, <1>6

LEMMA BubbleUpIs ==
  ASSUME NEW n \in Nat, NEW i \in 1..n, NEW g \in Heaps(n)
  PROVE  BubbleUp(n)[i][g] = UpStep(BubbleUp(n), i, g)
<1>1. \E f : f = [k \in 1..n |-> [h \in Heaps(n) |->
                   IF k = 1 \/ ~Earlier(h, k, k \div 2) THEN h
                   ELSE f[k \div 2][Exchanged(h, k, k \div 2)]]]
  BY UpExists DEF SolvesUp, UpStep
<1>2. SolvesUp(BubbleUp(n), n, n)
  BY <1>1, Zenon DEF BubbleUp, SolvesUp, UpStep
<1>3. PICK f : f = BubbleUp(n)
  OBVIOUS
<1>4. f[i] = [h \in Heaps(n) |-> UpStep(f, i, h)]
  BY <1>2, <1>3 DEF SolvesUp
<1> QED BY <1>3, <1>4

\* The child that is looked at lies below.
LEMMA ChildIsBelow ==
  ASSUME NEW n \in Nat, NEW i \in 1..n, 2 * i <= n, NEW g \in Heaps(n)
  PROVE  /\ SmallerChild(g, i) \in (i + 1)..n /\ SmallerChild(g, i) \div 2 = i
         /\ \A j \in 2..n : j \div 2 = i => g[SmallerChild(g, i)].time <= g[j].time
<1>1. Len(g) = n
  BY DEF Heaps
<1>2. \A j \in 1..n : g[j].time \in Nat
  BY SchedulerAssumption DEF Heaps, Events
<1>3. SmallerChild(g, i) \in {2 * i, 2 * i + 1} /\ SmallerChild(g, i) <= n
  BY <1>1 DEF SmallerChild
<1>4. SmallerChild(g, i) = 2 * i /\ 2 * i + 1 <= n => g[2 * i].time <= g[2 * i + 1].time
  BY <1>1, <1>2 DEF SmallerChild, Earlier
<1>5. SmallerChild(g, i) = 2 * i + 1 => g[2 * i + 1].time <= g[2 * i].time
  BY <1>1, <1>2 DEF SmallerChild, Earlier
<1>6. ASSUME NEW j \in 2..n, j \div 2 = i
      PROVE  g[SmallerChild(g, i)].time <= g[j].time
  <2>1. j = 2 * i \/ j = 2 * i + 1
    BY <1>6
  <2> QED BY <1>2, <1>3, <1>4, <1>5, <2>1
<1>7. (2 * i) \div 2 = i /\ (2 * i + 1) \div 2 = i
  OBVIOUS
<1> QED BY <1>3, <1>6, <1>7

LEMMA DownStepSame ==
  ASSUME NEW f, NEW e, NEW n \in Nat, NEW i \in 1..n, NEW g \in Heaps(n),
         \A k \in (i + 1)..n : f[k] = e[k]
  PROVE  DownStep(f, n, i, g) = DownStep(e, n, i, g)
<1>1. CASE 2 * i > n
  BY <1>1 DEF DownStep
<1>2. CASE ~(2 * i > n)
  <2>1. SmallerChild(g, i) \in (i + 1)..n
    BY <1>2, ChildIsBelow
  <2> QED BY <2>1 DEF DownStep
<1> QED BY <1>1, <1>2

LEMMA DownExtends ==
  ASSUME NEW n \in Nat, NEW m \in 1..n, NEW f, SolvesDown(f, m + 1, n)
  PROVE  \E e : SolvesDown(e, m, n)
<1> DEFINE e == [i \in m..n |-> IF i > m THEN f[i] ELSE [g \in Heaps(n) |-> DownStep(f, n, m, g)]]
<1>1. ASSUME NEW i \in m..n PROVE e[i] = [g \in Heaps(n) |-> DownStep(e, n, i, g)]
  <2>1. \A k \in (i + 1)..n : f[k] = e[k]
    OBVIOUS
  <2>2. e[i] = [g \in Heaps(n) |-> DownStep(f, n, i, g)]
    <3>1. CASE i = m
      BY <3>1
    <3>2. CASE i > m
      <4>1. i \in (m + 1)..n
        BY <3>2
      <4>2. f[i] = [g \in Heaps(n) |-> DownStep(f, n, i, g)]
        BY <4>1 DEF SolvesDown
      <4> QED BY <3>2, <4>2
    <3> QED BY <3>1, <3>2
  <2> HIDE DEF e
  <2>3. \A g \in Heaps(n) : DownStep(f, n, i, g) = DownStep(e, n, i, g)
    BY <2>1, DownStepSame
  <2> QED BY <2>2, <2>3
<1>2. e = [i \in m..n |-> e[i]]
  OBVIOUS
<1>3. SolvesDown(e, m, n)
  <2> HIDE DEF e
  <2>1. [i \in m..n |-> e[i]] = [i \in m..n |-> [g \in Heaps(n) |-> DownStep(e, n, i, g)]]
    BY <1>1
  <2> QED BY <1>2, <2>1 DEF SolvesDown
<1> QED BY <1>3

LEMMA DownExists ==
  ASSUME NEW n \in Nat
  PROVE  \E f : SolvesDown(f, 1, n)
<1> DEFINE S == {k \in Nat : k <= n /\ ~\E f : SolvesDown(f, (n + 1) - k, n)}
<1>1. SUFFICES S = {}
  <2>1. n \notin S
    BY <1>1
  <2>2. (n + 1) - n = 1
    OBVIOUS
  <2> QED BY <2>1, <2>2
<1>2. SUFFICES ASSUME S # {} PROVE FALSE
  OBVIOUS
<1>3. PICK k \in S : \A y \in Nat : y < k => y \notin S
  BY <1>2, LeastOf
<1>4. k \in Nat /\ k <= n /\ ~\E f : SolvesDown(f, (n + 1) - k, n)
  OBVIOUS
<1>5. CASE k = 0
  <2>1. SolvesDown([i \in (n + 1)..n |-> 0], n + 1, n)
    BY DEF SolvesDown
  <2>2. (n + 1) - k = n + 1
    BY <1>5
  <2> QED BY <1>4, <2>1, <2>2
<1>6. CASE k > 0
  <2>1. k - 1 \in Nat /\ k - 1 < k /\ k - 1 <= n
    BY <1>4, <1>6
  <2>2. PICK f : SolvesDown(f, (n + 1) - (k - 1), n)
    BY <1>3, <2>1
  <2>3. PICK m \in 1..n : m = (n + 1) - k
    BY <1>4, <1>6
  <2>4. (n + 1) - (k - 1) = m + 1
    BY <1>4, <2>3
  <2> QED BY <1>4, <2>2, <2>3, <2>4, DownExtends
<1> QED BY <1>4, <1>5, <1>6

LEMMA SeepDownIs ==
  ASSUME NEW n \in Nat, NEW i \in 1..n, NEW g \in Heaps(n)
  PROVE  SeepDown(n)[i][g] = DownStep(SeepDown(n), n, i, g)
<1>1. \E f : f = [k \in 1..n |-> [h \in Heaps(n) |->
                   IF 2 * k > n \/ ~Earlier(h, SmallerChild(h, k), k) THEN h
                   ELSE f[SmallerChild(h, k)][Exchanged(h, k, SmallerChild(h, k))]]]
  BY DownExists DEF SolvesDown, DownStep
<1>2. SolvesDown(SeepDown(n), 1, n)
  BY <1>1, Zenon DEF SeepDown, SolvesDown, DownStep
<1>3. PICK f : f = SeepDown(n)
  OBVIOUS
<1>4. f[i] = [h \in Heaps(n) |-> DownStep(f, n, i, h)]
  BY <1>2, <1>3 DEF SolvesDown
<1> QED BY <1>3, <1>4

-----------------------------------------------------------------------------
(* The loops keep the heap in order and what is in it.                       *)

Ordered(g, n) == \A j \in 2..n : g[j \div 2].time <= g[j].time
Elements(g, n) == {g[k] : k \in 1..n}
Distinct(g, n) == \A j, k \in 1..n : g[j].job = g[k].job => j = k

\* g is in order but for the event at i, which may have to move up, or down.
UpOrdered(g, n, i) ==
  /\ \A j \in 2..n : j # i => g[j \div 2].time <= g[j].time
  /\ i > 1 => \A j \in 2..n : j \div 2 = i => g[i \div 2].time <= g[j].time
DownOrdered(g, n, i) ==
  /\ \A j \in 2..n : j \div 2 # i => g[j \div 2].time <= g[j].time
  /\ i > 1 => \A j \in 2..n : j \div 2 = i => g[i \div 2].time <= g[j].time

\* r has the same events as g.
Rearranged(r, g, n) ==
  /\ r \in Heaps(n) /\ Elements(r, n) = Elements(g, n)
  /\ Distinct(g, n) => Distinct(r, n)

LEMMA HeapTimes ==
  ASSUME NEW n \in Nat, NEW g \in Heaps(n), NEW i \in 1..n
  PROVE  g[i] \in Events /\ g[i].time \in Nat
  BY SchedulerAssumption DEF Heaps, Events

LEMMA ExchangedIs ==
  ASSUME NEW n \in Nat, NEW g \in Heaps(n), NEW i \in 1..n, NEW j \in 1..n, i # j,
         NEW e, e = Exchanged(g, i, j)
  PROVE  /\ e \in Heaps(n) /\ e[i] = g[j] /\ e[j] = g[i]
         /\ \A k \in 1..n : k # i /\ k # j => e[k] = g[k]
  BY DEF Exchanged, Heaps

LEMMA ExchangedRearranged ==
  ASSUME NEW n \in Nat, NEW g \in Heaps(n), NEW i \in 1..n, NEW j \in 1..n, i # j,
         NEW e, e = Exchanged(g, i, j)
  PROVE  Rearranged(e, g, n)
<1>1. /\ e \in Heaps(n) /\ e[i] = g[j] /\ e[j] = g[i]
      /\ \A k \in 1..n : k # i /\ k # j => e[k] = g[k]
  BY DEF Exchanged, Heaps
<1>2. Elements(e, n) = Elements(g, n)
  <2>1. ASSUME NEW k \in 1..n PROVE e[k] \in Elements(g, n) /\ g[k] \in Elements(e, n)
    BY <1>1 DEF Elements
  <2> QED BY <2>1 DEF Elements
<1>3. Distinct(g, n) => Distinct(e, n)
  BY <1>1 DEF Distinct
<1> QED BY <1>1, <1>2, <1>3 DEF Rearranged

LEMMA RearrangedAgain ==
  ASSUME NEW n, NEW g, NEW e, NEW r, Rearranged(e, g, n), Rearranged(r, e, n)
  PROVE  Rearranged(r, g, n)
  BY DEF Rearranged

\* One round of the loop that moves an event up.
LEMMA UpMoves ==
  ASSUME NEW n \in Nat, NEW g \in Heaps(n), NEW i \in 2..n, UpOrdered(g, n, i),
         Earlier(g, i, i \div 2)
  PROVE  UpOrdered(Exchanged(g, i, i \div 2), n, i \div 2)
<1>1. PICK p \in 1..n : p = i \div 2 /\ p < i
  BY Halves
<1>2. PICK e : e = Exchanged(g, i, p)
  OBVIOUS
<1>3. /\ e \in Heaps(n) /\ e[i] = g[p] /\ e[p] = g[i]
      /\ \A k \in 1..n : k # i /\ k # p => e[k] = g[k]
  BY <1>1, <1>2 DEF Exchanged, Heaps
<1>4. /\ \A k \in 1..n : g[k].time \in Nat
      /\ g[i].time < g[p].time
  <2>1. \A k \in 1..n : g[k].time \in Nat
    BY HeapTimes
  <2> QED BY <1>1, <2>1 DEF Earlier
<1>5. /\ \A j \in 2..n : j # i => g[j \div 2].time <= g[j].time
      /\ \A j \in 2..n : j \div 2 = i => g[p].time <= g[j].time
  BY <1>1 DEF UpOrdered
<1>6. ASSUME NEW j \in 2..n, j # p PROVE e[j \div 2].time <= e[j].time
  <2>1. j \in 1..n /\ j \div 2 \in 1..n /\ j \div 2 < j
    BY Halves
  <2>2. CASE j = i
    BY <1>1, <1>3, <1>4, <2>2
  <2>3. CASE j # i /\ j \div 2 = p
    <3>1. g[p].time <= g[j].time
      BY <1>5, <2>3
    <3>2. e[j] = g[j] /\ e[j \div 2] = g[i]
      BY <1>3, <1>6, <2>1, <2>3
    <3> QED BY <1>4, <2>1, <3>1, <3>2
  <2>4. CASE j # i /\ j \div 2 = i
    BY <1>3, <1>5, <1>6, <2>1, <2>4
  <2>5. CASE j # i /\ j \div 2 # p /\ j \div 2 # i
    <3>1. e[j] = g[j] /\ e[j \div 2] = g[j \div 2]
      BY <1>3, <1>6, <2>1, <2>5
    <3> QED BY <1>5, <2>5, <3>1
  <2> QED BY <2>2, <2>3, <2>4, <2>5
<1>7. ASSUME p > 1, NEW j \in 2..n, j \div 2 = p PROVE e[p \div 2].time <= e[j].time
  <2>1. j \in 1..n /\ p \div 2 \in 1..n /\ p \div 2 < p
    BY <1>1, <1>7, Halves
  <2>2. g[p \div 2].time <= g[p].time
    BY <1>1, <1>5, <1>7
  <2>3. e[p \div 2] = g[p \div 2]
    BY <1>1, <1>3, <2>1
  <2>4. CASE j = i
    BY <1>3, <2>2, <2>3, <2>4
  <2>5. CASE j # i
    <3>1. g[p].time <= g[j].time
      BY <1>5, <1>7, <2>5
    <3>2. j # p
      BY <1>7, Halves
    <3>3. e[j] = g[j]
      BY <1>3, <2>1, <2>5, <3>2
    <3> QED BY <1>4, <2>1, <2>2, <2>3, <3>1, <3>3
  <2> QED BY <2>4, <2>5
<1>8. UpOrdered(e, n, p)
  BY <1>6, <1>7 DEF UpOrdered
<1> QED BY <1>1, <1>2, <1>8

LEMMA UpStops ==
  ASSUME NEW n \in Nat, NEW g \in Heaps(n), NEW i \in 1..n, UpOrdered(g, n, i),
         i = 1 \/ ~Earlier(g, i, i \div 2)
  PROVE  Ordered(g, n)
<1>1. ASSUME NEW j \in 2..n PROVE g[j \div 2].time <= g[j].time
  <2>1. CASE j # i
    BY <2>1 DEF UpOrdered
  <2>2. CASE j = i
    <3>1. i \div 2 \in 1..n
      BY <2>2, Halves
    <3>2. g[i].time \in Nat /\ g[i \div 2].time \in Nat
      BY <3>1, HeapTimes
    <3> QED BY <2>2, <3>2 DEF Earlier
  <2> QED BY <2>1, <2>2
<1> QED BY <1>1 DEF Ordered

\* One round of the loop that moves an event down.
LEMMA DownMoves ==
  ASSUME NEW n \in Nat, NEW g \in Heaps(n), NEW i \in 1..n, DownOrdered(g, n, i),
         2 * i <= n, NEW c, c = SmallerChild(g, i), Earlier(g, c, i)
  PROVE  DownOrdered(Exchanged(g, i, c), n, c)
<1>1. /\ c \in 1..n /\ c \in 2..n /\ c > i /\ c \div 2 = i
      /\ \A j \in 2..n : j \div 2 = i => g[c].time <= g[j].time
  BY ChildIsBelow
<1>2. PICK e : e = Exchanged(g, i, c)
  OBVIOUS
<1>3. /\ e \in Heaps(n) /\ e[i] = g[c] /\ e[c] = g[i]
      /\ \A k \in 1..n : k # i /\ k # c => e[k] = g[k]
  BY <1>1, <1>2 DEF Exchanged, Heaps
<1>4. /\ \A k \in 1..n : g[k].time \in Nat
      /\ g[c].time < g[i].time
  <2>1. \A k \in 1..n : g[k].time \in Nat
    BY HeapTimes
  <2> QED BY <1>1, <2>1 DEF Earlier
<1>5. /\ \A j \in 2..n : j \div 2 # i => g[j \div 2].time <= g[j].time
      /\ i > 1 => g[i \div 2].time <= g[c].time
  BY <1>1 DEF DownOrdered
<1>6. ASSUME NEW j \in 2..n, j \div 2 # c PROVE e[j \div 2].time <= e[j].time
  <2>1. j \in 1..n /\ j \div 2 \in 1..n /\ j \div 2 < j
    BY Halves
  <2>2. CASE j = c
    BY <1>1, <1>3, <1>4, <2>2
  <2>3. CASE j # c /\ j \div 2 = i
    <3>1. j # i
      BY <2>1, <2>3
    <3>2. e[j] = g[j] /\ e[j \div 2] = g[c]
      BY <1>3, <2>1, <2>3, <3>1
    <3> QED BY <1>1, <2>3, <3>2
  <2>4. CASE j = i
    <3>1. i > 1 /\ i \div 2 # i /\ i \div 2 # c
      BY <1>1, <2>1, <2>4
    <3>2. e[i \div 2] = g[i \div 2]
      BY <1>3, <2>1, <2>4, <3>1
    <3> QED BY <1>3, <1>5, <2>4, <3>1, <3>2
  <2>5. CASE j # c /\ j # i /\ j \div 2 # i
    <3>1. e[j] = g[j] /\ e[j \div 2] = g[j \div 2]
      BY <1>3, <1>6, <2>1, <2>5
    <3> QED BY <1>5, <2>5, <3>1
  <2> QED BY <2>2, <2>3, <2>4, <2>5
<1>7. ASSUME NEW j \in 2..n, j \div 2 = c PROVE e[c \div 2].time <= e[j].time
  <2>1. j \in 1..n /\ j # c /\ j # i
    BY <1>1, <1>7, Halves
  <2>2. e[j] = g[j] /\ e[c \div 2] = g[c]
    BY <1>1, <1>3, <2>1
  <2>3. g[c].time <= g[j].time
    BY <1>1, <1>5, <1>7
  <2> QED BY <2>2, <2>3
<1>8. DownOrdered(e, n, c)
  BY <1>6, <1>7 DEF DownOrdered
<1> QED BY <1>2, <1>8

LEMMA DownStops ==
  ASSUME NEW n \in Nat, NEW g \in Heaps(n), NEW i \in 1..n, DownOrdered(g, n, i),
         2 * i > n \/ ~Earlier(g, SmallerChild(g, i), i)
  PROVE  Ordered(g, n)
<1>1. ASSUME NEW j \in 2..n PROVE g[j \div 2].time <= g[j].time
  <2>1. CASE j \div 2 # i
    BY <2>1 DEF DownOrdered
  <2>2. CASE j \div 2 = i
    <3>1. 2 * i <= n
      BY <2>2
    <3>2. PICK c \in 1..n : c = SmallerChild(g, i) /\ g[c].time <= g[j].time
      BY <2>2, <3>1, ChildIsBelow
    <3>3. g[i].time \in Nat /\ g[c].time \in Nat /\ g[j].time \in Nat
      BY HeapTimes
    <3> QED BY <2>2, <3>1, <3>2, <3>3 DEF Earlier
  <2> QED BY <2>1, <2>2
<1> QED BY <1>1 DEF Ordered

\* r has the events of g, in order.
Sorted(r, g, n) == Ordered(r, n) /\ Rearranged(r, g, n)

LEMMA RearrangedSelf ==
  ASSUME NEW n, NEW g \in Heaps(n)
  PROVE  Rearranged(g, g, n)
  BY DEF Rearranged

\* The loop of schedule_job_tv().
LEMMA BubbleUpSorts ==
  ASSUME NEW n \in Nat, NEW i \in 1..n, NEW g \in Heaps(n), UpOrdered(g, n, i)
  PROVE  Sorted(BubbleUp(n)[i][g], g, n)
<1> DEFINE S == {k \in Nat : k \in 1..n /\ \E h \in Heaps(n) :
                   UpOrdered(h, n, k) /\ ~Sorted(BubbleUp(n)[k][h], h, n)}
<1>1. SUFFICES S = {}
  OBVIOUS
<1>2. SUFFICES ASSUME S # {} PROVE FALSE
  OBVIOUS
<1>3. PICK k \in S : \A y \in Nat : y < k => y \notin S
  BY <1>2, LeastOf
<1>4. k \in 1..n
  OBVIOUS
<1>5. PICK h \in Heaps(n) : UpOrdered(h, n, k) /\ ~Sorted(BubbleUp(n)[k][h], h, n)
  OBVIOUS
<1>6. BubbleUp(n)[k][h] = UpStep(BubbleUp(n), k, h)
  BY <1>4, BubbleUpIs
<1>7. CASE k = 1 \/ ~Earlier(h, k, k \div 2)
  <2>1. BubbleUp(n)[k][h] = h
    BY <1>6, <1>7 DEF UpStep
  <2>2. Ordered(h, n)
    BY <1>4, <1>5, <1>7, UpStops
  <2> QED BY <1>5, <2>1, <2>2, RearrangedSelf DEF Sorted
<1>8. CASE ~(k = 1 \/ ~Earlier(h, k, k \div 2))
  <2>1. PICK p \in 1..n : p = k \div 2 /\ p < k
    BY <1>4, <1>8, Halves
  <2>2. PICK e : e = Exchanged(h, k, p)
    OBVIOUS
  <2>3. BubbleUp(n)[k][h] = BubbleUp(n)[p][e]
    BY <1>6, <1>8, <2>1, <2>2 DEF UpStep
  <2>4. Rearranged(e, h, n)
    BY <1>4, <2>1, <2>2, ExchangedRearranged
  <2>5. UpOrdered(e, n, p)
    <3>1. k \in 2..n
      BY <1>4, <1>8
    <3> QED BY <1>5, <1>8, <2>1, <2>2, <3>1, UpMoves
  <2>6. e \in Heaps(n) /\ p \in Nat
    BY <2>4 DEF Rearranged
  <2>7. Sorted(BubbleUp(n)[p][e], e, n)
    BY <1>3, <2>1, <2>5, <2>6
  <2> QED BY <1>5, <2>3, <2>4, <2>7, RearrangedAgain DEF Sorted
<1> QED BY <1>7, <1>8

\* The loop of remove_event().
LEMMA SeepDownSorts ==
  ASSUME NEW n \in Nat, NEW i \in 1..n, NEW g \in Heaps(n), DownOrdered(g, n, i)
  PROVE  Sorted(SeepDown(n)[i][g], g, n)
<1> DEFINE Bad(k) == \E h \in Heaps(n) :
                       DownOrdered(h, n, k) /\ ~Sorted(SeepDown(n)[k][h], h, n)
           S == {d \in Nat : d < n /\ Bad(n - d)}
<1>1. SUFFICES S = {}
  <2>1. n - i \in Nat /\ n - i < n /\ n - (n - i) = i
    OBVIOUS
  <2>2. ~Bad(i)
    BY <1>1, <2>1
  <2> QED BY <2>2
<1>2. SUFFICES ASSUME S # {} PROVE FALSE
  OBVIOUS
<1>3. PICK d \in S : \A y \in Nat : y < d => y \notin S
  BY <1>2, LeastOf
<1>4. PICK k \in 1..n : k = n - d
  OBVIOUS
<1>5. PICK h \in Heaps(n) : DownOrdered(h, n, k) /\ ~Sorted(SeepDown(n)[k][h], h, n)
  BY <1>4
<1>6. SeepDown(n)[k][h] = DownStep(SeepDown(n), n, k, h)
  BY SeepDownIs
<1>7. CASE 2 * k > n \/ ~Earlier(h, SmallerChild(h, k), k)
  <2>1. SeepDown(n)[k][h] = h
    BY <1>6, <1>7 DEF DownStep
  <2>2. Ordered(h, n)
    BY <1>5, <1>7, DownStops
  <2> QED BY <1>5, <2>1, <2>2, RearrangedSelf DEF Sorted
<1>8. CASE ~(2 * k > n \/ ~Earlier(h, SmallerChild(h, k), k))
  <2>1. PICK c \in 1..n : c = SmallerChild(h, k) /\ c > k
    BY <1>8, ChildIsBelow
  <2>2. PICK e : e = Exchanged(h, k, c)
    OBVIOUS
  <2>3. SeepDown(n)[k][h] = SeepDown(n)[c][e]
    BY <1>6, <1>8, <2>1, <2>2 DEF DownStep
  <2>4. Rearranged(e, h, n)
    BY <2>1, <2>2, ExchangedRearranged
  <2>5. DownOrdered(e, n, c)
    <3>1. 2 * k <= n /\ Earlier(h, c, k)
      BY <1>8, <2>1
    <3> QED BY <1>5, <2>1, <2>2, <3>1, DownMoves
  <2>6. e \in Heaps(n)
    BY <2>4 DEF Rearranged
  <2>7. Sorted(SeepDown(n)[c][e], e, n)
    <3>1. n - c \in Nat /\ n - c < d /\ n - c < n /\ n - (n - c) = c
      BY <1>4, <2>1
    <3>2. ~Bad(c)
      BY <1>3, <3>1
    <3> QED BY <2>5, <2>6, <3>2
  <2> QED BY <1>5, <2>3, <2>4, <2>7, RearrangedAgain DEF Sorted
<1> QED BY <1>7, <1>8

\* The top of a heap in order fires first.
LEMMA TopIsFirst ==
  ASSUME NEW n \in Nat, NEW g \in Heaps(n), Ordered(g, n), NEW k \in 1..n
  PROVE  g[1].time <= g[k].time
<1> DEFINE S == {j \in Nat : j \in 1..n /\ ~(g[1].time <= g[j].time)}
<1>1. SUFFICES S = {}
  OBVIOUS
<1>2. SUFFICES ASSUME S # {} PROVE FALSE
  OBVIOUS
<1>3. PICK j \in S : \A y \in Nat : y < j => y \notin S
  BY <1>2, LeastOf
<1>4. j \in 1..n /\ ~(g[1].time <= g[j].time)
  OBVIOUS
<1>5. g[1].time \in Nat /\ g[j].time \in Nat
  BY <1>4, HeapTimes
<1>6. PICK p \in 1..n : p = j \div 2 /\ p < j /\ j \in 2..n
  BY <1>4, <1>5, Halves
<1>7. g[p].time <= g[j].time /\ g[p].time \in Nat
  BY <1>6, HeapTimes DEF Ordered
<1>8. g[1].time <= g[p].time
  BY <1>3, <1>6
<1> QED BY <1>4, <1>5, <1>7, <1>8

-----------------------------------------------------------------------------
(* What schedule_job_tv() and remove_event() make of the heap.               *)

HeapOK(h) == h \in Seq(Events) /\ Ordered(h, Len(h)) /\ Distinct(h, Len(h))
EventsOf(h) == {h[i] : i \in 1..Len(h)}

LEMMA HeapIsSeq ==
  ASSUME NEW n \in Nat, NEW g \in Heaps(n)
  PROVE  g \in Seq(Events) /\ Len(g) = n
  BY DEF Heaps

LEMMA SeqIsHeap ==
  ASSUME NEW h \in Seq(Events)
  PROVE  h \in Heaps(Len(h)) /\ Len(h) \in Nat
  BY DEF Heaps

LEMMA SortedIsHeap ==
  ASSUME NEW n \in Nat, NEW g \in Heaps(n), NEW r, Sorted(r, g, n), Distinct(g, n)
  PROVE  HeapOK(r) /\ EventsOf(r) = Elements(g, n)
<1>1. r \in Heaps(n) /\ Elements(r, n) = Elements(g, n) /\ Distinct(r, n) /\ Ordered(r, n)
  BY DEF Sorted, Rearranged
<1>2. r \in Seq(Events) /\ Len(r) = n
  BY <1>1, HeapIsSeq
<1> QED BY <1>1, <1>2 DEF HeapOK, EventsOf, Elements

LEMMA BubbledHeap ==
  ASSUME NEW h, HeapOK(h), NEW ev \in Events, \A k \in 1..Len(h) : h[k].job # ev.job,
         NEW r, r = Bubbled(Append(h, ev))
  PROVE  HeapOK(r) /\ EventsOf(r) = EventsOf(h) \cup {ev}
<1>1. PICK m \in Nat : m = Len(h) /\ h \in Heaps(m) /\ Ordered(h, m) /\ Distinct(h, m)
  BY SeqIsHeap DEF HeapOK
<1>2. PICK n \in Nat : n = m + 1
  OBVIOUS
<1>3. PICK a : a = Append(h, ev)
  OBVIOUS
<1>4. /\ a \in Heaps(n) /\ Len(a) = n /\ a[n] = ev
      /\ \A k \in 1..m : a[k] = h[k]
  <2>1. h \in Seq(Events)
    BY DEF HeapOK
  <2>2. a \in Seq(Events) /\ Len(a) = n /\ a[n] = ev
    BY <1>1, <1>2, <1>3, <2>1
  <2>3. \A k \in 1..m : a[k] = h[k]
    BY <1>1, <1>3, <2>1
  <2> QED BY <2>2, <2>3, SeqIsHeap
<1>5. UpOrdered(a, n, n)
  <2>1. ASSUME NEW j \in 2..n, j # n PROVE a[j \div 2].time <= a[j].time
    <3>1. j \in 2..m /\ j \in 1..m /\ j \div 2 \in 1..m
      BY <1>2, <2>1, Halves
    <3> QED BY <1>1, <1>4, <3>1 DEF Ordered
  <2>2. ASSUME NEW j \in 2..n PROVE j \div 2 # n
    BY Halves
  <2> QED BY <2>1, <2>2 DEF UpOrdered
<1>6. Distinct(a, n)
  <2>1. ASSUME NEW j \in 1..n, NEW k \in 1..n, a[j].job = a[k].job PROVE j = k
    <3>1. j \in 1..m \/ j = n
      BY <1>2
    <3>2. k \in 1..m \/ k = n
      BY <1>2
    <3> QED BY <1>1, <1>4, <2>1, <3>1, <3>2 DEF Distinct
  <2> QED BY <2>1 DEF Distinct
<1>7. Elements(a, n) = EventsOf(h) \cup {ev}
  <2>1. ASSUME NEW k \in 1..n PROVE a[k] \in EventsOf(h) \cup {ev}
    BY <1>1, <1>2, <1>4 DEF EventsOf
  <2>2. ASSUME NEW k \in 1..m PROVE h[k] \in Elements(a, n)
    <3>1. k \in 1..n /\ a[k] = h[k]
      BY <1>2, <1>4
    <3> QED BY <3>1 DEF Elements
  <2>3. ev \in Elements(a, n)
    BY <1>2, <1>4 DEF Elements
  <2> QED BY <1>1, <2>1, <2>2, <2>3 DEF EventsOf, Elements
<1>8. Sorted(r, a, n)
  <2>1. r = BubbleUp(n)[n][a]
    BY <1>3, <1>4 DEF Bubbled
  <2>2. n \in 1..n
    BY <1>2
  <2> QED BY <1>4, <1>5, <2>1, <2>2, BubbleUpSorts
<1> QED BY <1>4, <1>6, <1>7, <1>8, SortedIsHeap

LEMMA RemovedHeap ==
  ASSUME NEW h, HeapOK(h), h # <<>>, NEW r, r = Removed(h)
  PROVE  /\ HeapOK(r) /\ EventsOf(r) = EventsOf(h) \ {h[1]}
         /\ h[1] \in EventsOf(h) /\ h[1] \in Events
         /\ \A x \in EventsOf(h) : h[1].time <= x.time
         /\ \A x \in EventsOf(r) : x.job # h[1].job
<1>1. PICK m \in Nat : m = Len(h) /\ h \in Heaps(m) /\ Ordered(h, m) /\ Distinct(h, m)
  BY SeqIsHeap DEF HeapOK
<1>2. m > 0 /\ 1 \in 1..m
  BY <1>1 DEF HeapOK
<1>3. PICK n \in Nat : n = m - 1
  BY <1>2
<1>4. PICK g : g = [i \in 1..n |-> IF i = 1 THEN h[n + 1] ELSE h[i]]
  OBVIOUS
<1>5. r = IF n > 1 THEN Seeped(g) ELSE g
  BY <1>1, <1>3, <1>4 DEF Removed
<1>6. g \in Heaps(n) /\ \A i \in 1..n : g[i] = IF i = 1 THEN h[m] ELSE h[i]
  BY <1>1, <1>3, <1>4 DEF Heaps
<1>7. Distinct(g, n)
  <2>1. ASSUME NEW j \in 1..n, NEW k \in 1..n, g[j].job = g[k].job PROVE j = k
    <3>1. m \in 1..m /\ j \in 1..m /\ k \in 1..m /\ j # m /\ k # m
      BY <1>2, <1>3
    <3> QED BY <1>1, <1>6, <2>1, <3>1 DEF Distinct
  <2> QED BY <2>1 DEF Distinct
<1>8. Elements(g, n) = EventsOf(h) \ {h[1]}
  <2>1. ASSUME NEW k \in 1..n PROVE g[k] \in EventsOf(h) /\ g[k] # h[1]
    <3>1. PICK j \in 1..m : j # 1 /\ g[k] = h[j]
      <4>1. CASE k = 1
        BY <1>3, <1>6, <4>1
      <4>2. CASE k # 1
        BY <1>3, <1>6, <4>2
      <4> QED BY <4>1, <4>2
    <3>2. h[j] # h[1]
      BY <1>1, <1>2, <3>1 DEF Distinct
    <3> QED BY <1>1, <3>1, <3>2 DEF EventsOf
  <2>2. ASSUME NEW k \in 1..m, h[k] # h[1] PROVE h[k] \in Elements(g, n)
    <3>1. k # 1
      BY <2>2
    <3>2. CASE k = m
      <4>1. 1 \in 1..n /\ g[1] = h[k]
        BY <1>3, <1>6, <3>1, <3>2
      <4> QED BY <4>1 DEF Elements
    <3>3. CASE k # m
      <4>1. k \in 1..n /\ g[k] = h[k]
        BY <1>3, <1>6, <3>1, <3>3
      <4> QED BY <4>1 DEF Elements
    <3> QED BY <3>2, <3>3
  <2> QED BY <1>1, <2>1, <2>2 DEF EventsOf, Elements
<1>9. Sorted(r, g, n)
  <2>1. CASE n > 1
    <3>1. DownOrdered(g, n, 1)
      <4>1. ASSUME NEW j \in 2..n, j \div 2 # 1 PROVE g[j \div 2].time <= g[j].time
        <5>1. j \in 1..n /\ j \in 2..m /\ j \div 2 \in 1..n /\ j # 1
          BY <1>3, Halves
        <5>2. g[j] = h[j] /\ g[j \div 2] = h[j \div 2]
          BY <1>6, <4>1, <5>1
        <5> QED BY <1>1, <5>1, <5>2 DEF Ordered
      <4>2. ~(1 > 1)
        OBVIOUS
      <4> QED BY <4>1, <4>2, Zenon DEF DownOrdered
    <3>2. r = SeepDown(n)[1][g] /\ 1 \in 1..n
      BY <1>5, <1>6, <2>1, HeapIsSeq DEF Seeped
    <3> QED BY <1>6, <3>1, <3>2, SeepDownSorts
  <2>2. CASE ~(n > 1)
    <3>1. r = g /\ Ordered(g, n)
      BY <1>5, <2>2 DEF Ordered
    <3> QED BY <1>6, <3>1, RearrangedSelf DEF Sorted
  <2> QED BY <2>1, <2>2
<1>10. HeapOK(r) /\ EventsOf(r) = Elements(g, n)
  BY <1>6, <1>7, <1>9, SortedIsHeap
<1>11. ASSUME NEW x \in EventsOf(h) PROVE h[1].time <= x.time
  <2>1. PICK k \in 1..m : x = h[k]
    BY <1>1 DEF EventsOf
  <2> QED BY <1>1, <2>1, TopIsFirst
<1>12. ASSUME NEW x \in EventsOf(r) PROVE x.job # h[1].job
  <2>1. x \in EventsOf(h) /\ x # h[1]
    BY <1>8, <1>10
  <2>2. PICK k \in 1..m : x = h[k]
    BY <1>1, <2>1 DEF EventsOf
  <2> QED BY <1>1, <1>2, <2>1, <2>2 DEF Distinct
<1>13. h[1] \in EventsOf(h) /\ h[1] \in Events
  BY <1>1, <1>2, HeapTimes DEF EventsOf
<1> QED BY <1>8, <1>10, <1>11, <1>12, <1>13

-----------------------------------------------------------------------------
(* The states of the scheduler.                                              *)

JobsOf(h) == {h[i].job : i \in 1..Len(h)}
Elsewhere == hand \cup queued \cup dropped

\* The inductive invariant: the heap is in order, no job is in it twice, jobs
\* are numbered without a gap, and an event is only in the hand of the thread
\* between TakeEvent and QueueJob.
IInv ==
  /\ TypeOK
  /\ HeapOK(heap)
  /\ NeverOversleeps
  /\ pc # "pass" => hand = {}
  /\ \E k \in 0..MaxJobs : Elsewhere \cup JobsOf(heap) = 1..k

LEMMA JobsOfEvents ==
  ASSUME NEW h
  PROVE  JobsOf(h) = {e.job : e \in EventsOf(h)}
  BY DEF JobsOf, EventsOf

LEMMA KnownIs == Known = Elsewhere \cup JobsOf(heap)
  BY DEF Known, Elsewhere, JobsOf

\* A job that is scheduled is new.
LEMMA NewJob ==
  ASSUME IInv, NEW j \in Jobs, j = Cardinality(Known) + 1
  PROVE  \E k \in 0..MaxJobs : /\ Elsewhere \cup JobsOf(heap) = 1..k
                               /\ j = k + 1 /\ j \notin Elsewhere \cup JobsOf(heap)
<1>1. PICK k \in 0..MaxJobs : Elsewhere \cup JobsOf(heap) = 1..k
  BY DEF IInv
<1>2. MaxJobs \in Nat
  BY SchedulerAssumption
<1>3. Cardinality(1..k) = k
  <2>1. k \in Int /\ 1 \in Int /\ ~(1 > k) => Cardinality(1..k) = k - 1 + 1
    BY FS_Interval
  <2>2. 1 > k => 1..k = {}
    BY <1>2
  <2>3. Cardinality({}) = 0
    BY FS_EmptySet
  <2> QED BY <1>2, <2>1, <2>2, <2>3
<1>4. j = k + 1
  BY <1>1, <1>3, KnownIs
<1> QED BY <1>1, <1>2, <1>4

LEMMA InitIInv ==
  ASSUME Init PROVE IInv
<1>1. MaxTime \in Nat /\ MaxJobs \in Nat
  BY SchedulerAssumption
<1>2. TypeOK
  BY <1>1 DEF Init, TypeOK, Never
<1>3. HeapOK(heap)
  BY DEF Init, HeapOK, Ordered, Distinct
<1>4. Elsewhere \cup JobsOf(heap) = 1..0
  BY DEF Init, Elsewhere, JobsOf
<1>5. 0 \in 0..MaxJobs
  BY <1>1
<1> QED BY <1>2, <1>3, <1>4, <1>5 DEF IInv, NeverOversleeps, Init

LEMMA ScheduleKeeps ==
  ASSUME IInv, NEW j \in Jobs, NEW t \in 0..MaxTime, ScheduleJob(j, t)
  PROVE  /\ IInv' /\ EventsOf(heap') = EventsOf(heap) \cup {[time |-> t, job |-> j]}
         /\ j \notin Elsewhere \cup JobsOf(heap)
<1>1. PICK k \in 0..MaxJobs : /\ Elsewhere \cup JobsOf(heap) = 1..k
                              /\ j = k + 1 /\ j \notin Elsewhere \cup JobsOf(heap)
  <2>1. j = Cardinality(Known) + 1
    BY DEF ScheduleJob
  <2> QED BY <2>1, NewJob
<1>2. PICK ev \in Events : ev = [time |-> t, job |-> j]
  BY DEF Events
<1>3. ev.job = j
  BY <1>2
<1>4. HeapOK(heap') /\ EventsOf(heap') = EventsOf(heap) \cup {ev}
  <2>1. HeapOK(heap) /\ heap' = Bubbled(Append(heap, ev))
    BY <1>2 DEF IInv, ScheduleJob
  <2>2. \A i \in 1..Len(heap) : heap[i].job # ev.job
    BY <1>1, <1>3 DEF JobsOf
  <2> QED BY <2>1, <2>2, BubbledHeap
<1>5. pc' \in {"look", "pass", "off"}
  BY DEF ScheduleJob, Signal, IInv, TypeOK
<1>6. TypeOK'
  <2>1. heap' \in Seq(Events)
    BY <1>4 DEF HeapOK
  <2> QED BY <1>5, <2>1 DEF IInv, TypeOK, ScheduleJob
<1>7. NeverOversleeps'
  BY <1>5 DEF NeverOversleeps
<1>8. (pc # "pass" => hand = {})'
  BY DEF ScheduleJob, Signal, IInv
<1>9. (\E i \in 0..MaxJobs : Elsewhere \cup JobsOf(heap) = 1..i)'
  <2>1. JobsOf(heap') = JobsOf(heap) \cup {j}
    BY <1>3, <1>4, JobsOfEvents
  <2>2. Elsewhere' = Elsewhere
    BY DEF ScheduleJob, Elsewhere
  <2>3. MaxJobs \in Nat /\ j \in 0..MaxJobs
    BY SchedulerAssumption DEF Jobs
  <2>4. 1..j = (1..k) \cup {j}
    BY <1>1, <2>3
  <2>5. Elsewhere' \cup JobsOf(heap') = 1..j
    BY <1>1, <2>1, <2>2, <2>4
  <2> QED BY <2>3, <2>5
<1> QED BY <1>1, <1>2, <1>4, <1>6, <1>7, <1>8, <1>9 DEF IInv

LEMMA TakeKeeps ==
  ASSUME IInv, TakeEvent
  PROVE  /\ IInv' /\ heap # <<>> /\ hand = {}
         /\ heap[1] \in EventsOf(heap) /\ heap[1].time <= now
         /\ \A x \in EventsOf(heap) : heap[1].time <= x.time
         /\ EventsOf(heap') = EventsOf(heap) \ {heap[1]}
<1>1. MaxTime \in Nat /\ now \in 0..MaxTime /\ FirstDue <= now /\ pc = "look"
  BY SchedulerAssumption DEF IInv, TypeOK, TakeEvent
<1>2. heap # <<>> /\ heap[1].time <= now
  BY <1>1 DEF FirstDue, Never
<1>3. hand = {}
  BY <1>1 DEF IInv
<1>4. /\ HeapOK(heap') /\ EventsOf(heap') = EventsOf(heap) \ {heap[1]}
      /\ heap[1] \in EventsOf(heap) /\ heap[1] \in Events
      /\ \A x \in EventsOf(heap) : heap[1].time <= x.time
      /\ \A x \in EventsOf(heap') : x.job # heap[1].job
  <2>1. HeapOK(heap) /\ heap' = Removed(heap)
    BY DEF IInv, TakeEvent
  <2> QED BY <1>2, <2>1, RemovedHeap
<1>5. TypeOK'
  <2>1. heap[1].job \in Jobs
    BY <1>4 DEF Events
  <2> QED BY <1>4, <2>1 DEF HeapOK, IInv, TypeOK, TakeEvent
<1>6. NeverOversleeps' /\ (pc # "pass" => hand = {})'
  BY DEF NeverOversleeps, TakeEvent
<1>7. Elsewhere' \cup JobsOf(heap') = Elsewhere \cup JobsOf(heap)
  <2>1. JobsOf(heap) = JobsOf(heap') \cup {heap[1].job}
    BY <1>4, JobsOfEvents
  <2>2. Elsewhere' = Elsewhere \cup {heap[1].job}
    BY <1>3 DEF TakeEvent, Elsewhere
  <2> QED BY <2>1, <2>2
<1>8. (\E k \in 0..MaxJobs : Elsewhere \cup JobsOf(heap) = 1..k)'
  BY <1>7 DEF IInv
<1> QED BY <1>2, <1>3, <1>4, <1>5, <1>6, <1>8 DEF IInv

LEMMA FlushKeeps ==
  ASSUME IInv, Flush PROVE IInv'
<1>1. HeapOK(heap')
  BY DEF Flush, HeapOK, Ordered, Distinct
<1>2. JobsOf(heap) \subseteq Jobs /\ dropped' = dropped \cup JobsOf(heap)
  <2>1. ASSUME NEW i \in 1..Len(heap) PROVE heap[i].job \in Jobs
    <3>1. heap[i] \in Events
      BY DEF IInv, TypeOK
    <3> QED BY <3>1 DEF Events
  <2> QED BY <2>1 DEF JobsOf, Flush
<1>3. TypeOK'
  BY <1>1, <1>2 DEF HeapOK, IInv, TypeOK, Flush, Signal
<1>4. NeverOversleeps' /\ (pc # "pass" => hand = {})'
  BY DEF NeverOversleeps, Flush, Signal, IInv
<1>5. Elsewhere' \cup JobsOf(heap') = Elsewhere \cup JobsOf(heap)
  <2>1. JobsOf(heap') = {}
    BY DEF JobsOf, Flush
  <2> QED BY <1>2, <2>1 DEF Elsewhere, Flush
<1>6. (\E k \in 0..MaxJobs : Elsewhere \cup JobsOf(heap) = 1..k)'
  BY <1>5 DEF IInv
<1> QED BY <1>1, <1>3, <1>4, <1>6 DEF IInv

LEMMA SleepKeeps ==
  ASSUME IInv, Sleep PROVE IInv'
<1>1. MaxTime \in Nat /\ heap \in Seq(Events) /\ heap' = heap /\ until' = FirstDue
  BY SchedulerAssumption DEF IInv, TypeOK, Sleep
<1>2. FirstDue \in 0..Never
  <2>1. CASE heap = <<>>
    BY <1>1, <2>1 DEF FirstDue, Never
  <2>2. CASE heap # <<>>
    <3>1. heap[1] \in Events
      BY <1>1, <2>2
    <3> QED BY <1>1, <2>2, <3>1 DEF FirstDue, Never, Events
  <2> QED BY <2>1, <2>2
<1>3. ASSUME NEW i \in 1..Len(heap) PROVE FirstDue <= heap[i].time
  <2>1. heap # <<>>
    BY <1>1, <1>3
  <2>2. heap[1].time <= heap[i].time
    BY <1>3, SeqIsHeap, TopIsFirst DEF IInv, HeapOK
  <2> QED BY <2>1, <2>2 DEF FirstDue
<1>4. TypeOK'
  BY <1>1, <1>2 DEF IInv, TypeOK, Sleep
<1>5. NeverOversleeps'
  BY <1>1, <1>3 DEF NeverOversleeps
<1>6. HeapOK(heap') /\ (pc # "pass" => hand = {})'
  BY DEF IInv, Sleep
<1>7. Elsewhere' \cup JobsOf(heap') = Elsewhere \cup JobsOf(heap)
  BY DEF Elsewhere, Sleep
<1> QED BY <1>4, <1>5, <1>6, <1>7 DEF IInv

\* The steps that leave the heap and the time until which it sleeps alone.
LEMMA OtherKeeps ==
  ASSUME IInv, QueueJob \/ Timeout \/ CancelThread \/ Tick \/ UNCHANGED vars
  PROVE  IInv'
<1>1. /\ heap' = heap /\ until' = until /\ dropped' = dropped
      /\ hand' \cup queued' = hand \cup queued
      /\ pc' # "pass" => hand' = {}
      /\ pc' = "sleep" => pc = "sleep"
  BY DEF IInv, QueueJob, Timeout, CancelThread, Tick, vars
<1>2. TypeOK'
  <2>1. MaxTime \in Nat
    BY SchedulerAssumption
  <2> QED BY <2>1 DEF IInv, TypeOK, QueueJob, Timeout, CancelThread, Tick, vars
<1>3. NeverOversleeps'
  BY <1>1 DEF IInv, NeverOversleeps
<1>4. Elsewhere' \cup JobsOf(heap') = Elsewhere \cup JobsOf(heap)
  <2>1. Elsewhere' = Elsewhere
    BY <1>1 DEF Elsewhere
  <2> QED BY <1>1, <2>1
<1> QED BY <1>1, <1>2, <1>3, <1>4 DEF IInv

LEMMA NextKeeps ==
  ASSUME IInv, [Next]_vars PROVE IInv'
<1>1. CASE \E j \in Jobs, t \in 0..MaxTime : ScheduleJob(j, t)
  BY <1>1, ScheduleKeeps
<1>2. CASE TakeEvent
  BY <1>2, TakeKeeps
<1>3. CASE Sleep
  BY <1>3, SleepKeeps
<1>4. CASE Flush
  BY <1>4, FlushKeeps
<1>5. CASE QueueJob \/ Timeout \/ CancelThread \/ Tick \/ UNCHANGED vars
  BY <1>5, OtherKeeps
<1> QED BY <1>1, <1>2, <1>3, <1>4, <1>5 DEF Next

-----------------------------------------------------------------------------
(* The scheduler is a sorted set of timers.                                  *)

LEMMA StepImplements ==
  ASSUME IInv, IInv', [Next]_vars
  PROVE  [Abstract!Step]_<<{heap[i] : i \in 1..Len(heap)}, hand \cup queued, dropped, now>>
<1> DEFINE pending == {heap[i] : i \in 1..Len(heap)}
           fired == hand \cup queued
<1>1. pending = EventsOf(heap) /\ pending' = EventsOf(heap')
  BY DEF EventsOf
<1>2. ASSUME NEW j \in Jobs, NEW t \in 0..MaxTime, ScheduleJob(j, t)
      PROVE  Abstract!Add(j, t)
  <2>1. /\ EventsOf(heap') = EventsOf(heap) \cup {[time |-> t, job |-> j]}
        /\ j \notin Elsewhere \cup JobsOf(heap)
    BY <1>2, ScheduleKeeps
  <2>2. j \notin fired \cup dropped /\ \A e \in pending : e.job # j
    BY <1>1, <2>1, JobsOfEvents DEF Elsewhere
  <2>3. pending' = pending \cup {[time |-> t, job |-> j]}
    BY <1>1, <2>1
  <2>4. fired' = fired /\ dropped' = dropped /\ now' = now
    BY <1>2 DEF ScheduleJob
  <2> QED BY <2>2, <2>3, <2>4 DEF Abstract!Add
<1>3. ASSUME TakeEvent PROVE \E e \in pending : Abstract!Fire(e)
  <2>1. PICK ev \in pending : ev = heap[1]
    BY <1>1, <1>3, TakeKeeps
  <2>2. /\ hand = {} /\ ev.time <= now
        /\ \A x \in pending : ev.time <= x.time
        /\ pending' = pending \ {ev}
    BY <1>1, <1>3, <2>1, TakeKeeps
  <2>3. fired' = fired \cup {ev.job} /\ dropped' = dropped /\ now' = now
    BY <1>3, <2>1, <2>2 DEF TakeEvent
  <2>4. Abstract!Fire(ev)
    BY <2>2, <2>3 DEF Abstract!Fire
  <2> QED BY <2>4
<1>4. ASSUME Flush PROVE Abstract!Drop
  <2>1. dropped' = dropped \cup {e.job : e \in pending}
    BY <1>4 DEF Flush
  <2>2. pending' = {} /\ fired' = fired /\ now' = now
    BY <1>4 DEF Flush
  <2> QED BY <2>1, <2>2 DEF Abstract!Drop
<1>5. ASSUME Tick PROVE Abstract!Pass
  BY <1>5 DEF Tick, Abstract!Pass
<1>6. ASSUME QueueJob \/ Sleep \/ Timeout \/ CancelThread \/ UNCHANGED vars
      PROVE  UNCHANGED <<pending, fired, dropped, now>>
  <2>1. heap' = heap /\ dropped' = dropped /\ now' = now /\ hand' \cup queued' = hand \cup queued
    BY <1>6 DEF QueueJob, Sleep, Timeout, CancelThread, vars
  <2> QED BY <2>1
<1>7. CASE \E j \in Jobs, t \in 0..MaxTime : ScheduleJob(j, t)
  BY <1>2, <1>7 DEF Abstract!Step
<1>8. CASE TakeEvent
  BY <1>3, <1>8, Zenon DEF Abstract!Step
<1>9. CASE Flush \/ Tick
  BY <1>4, <1>5, <1>9 DEF Abstract!Step
<1>10. CASE QueueJob \/ Sleep \/ Timeout \/ CancelThread \/ UNCHANGED vars
  BY <1>6, <1>10
<1> QED BY <1>7, <1>8, <1>9, <1>10 DEF Next

LEMMA InitImplements ==
  ASSUME Init PROVE Abstract!Start
  BY DEF Init, Abstract!Start

LEMMA SchedulerInv == Spec => []IInv
<1>1. Init => IInv
  BY InitIInv
<1>2. IInv /\ [Next]_vars => IInv'
  BY NextKeeps
<1> QED BY <1>1, <1>2, PTL DEF Spec

\* Every event of the heap is a scheduled one, also while the loops of
\* schedule_job_tv() and remove_event() move events about in it.
THEOREM SchedulerTyped == Spec => []TypeOK
<1>1. IInv => TypeOK
  BY DEF IInv
<1> QED BY <1>1, SchedulerInv, PTL

\* Whatever is scheduled or flushed while it sleeps, the scheduler never
\* sleeps past an event: the top of the heap, whose time schedule() sleeps
\* for, fires first, and any call that changes the heap wakes it.
THEOREM NeverSleepsTooLong == Spec => []NeverOversleeps
<1>1. IInv => NeverOversleeps
  BY DEF IInv
<1> QED BY <1>1, SchedulerInv, PTL

\* The heap of scheduler.c behaves like a sorted set of timers: no job is
\* lost, passed on twice, before its time, or before one that is due earlier.
THEOREM TimersImplemented == Spec => ImplementsTimers
<1>1. Init => Abstract!Start
  BY InitImplements
<1>2. IInv /\ IInv' /\ [Next]_vars
        => [Abstract!Step]_<<{heap[i] : i \in 1..Len(heap)}, hand \cup queued, dropped, now>>
  BY StepImplements
<1> QED BY <1>1, <1>2, SchedulerInv, PTL DEF Spec, ImplementsTimers, Abstract!Spec
=============================================================================
