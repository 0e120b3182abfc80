--------------------------- MODULE ProcessorProofs --------------------------
(***************************************************************************)
(* Proofs about the processor for any number of worker threads, jobs and    *)
(* priorities.                                                              *)
(***************************************************************************)
EXTENDS Processor, TLAPS, FiniteSetTheorems, SequenceTheorems

-----------------------------------------------------------------------------
(* Sums over priorities.                                                     *)

Pairs(n, ps) == UNION {{i} \X (1..n[i]) : i \in ps}

LEMMA PairsIn ==
  ASSUME NEW n, NEW ps, NEW x
  PROVE  x \in Pairs(n, ps) <=> \E i \in ps : \E k \in 1..n[i] : x = <<i, k>>
  BY DEF Pairs

LEMMA PairsFinite ==
  ASSUME NEW ps, IsFiniteSet(ps), NEW n, \A i \in ps : n[i] \in Nat
  PROVE  IsFiniteSet(Pairs(n, ps)) /\ SumOver(n, ps) = Cardinality(Pairs(n, ps))
         /\ SumOver(n, ps) \in Nat
<1> DEFINE T == {{i} \X (1..n[i]) : i \in ps}
           f == [i \in ps |-> {i} \X (1..n[i])]
<1>1. f \in Surjection(ps, T)
  BY DEF Surjection
<1>2. IsFiniteSet(T)
  <2> HIDE DEF T, f
  <2> QED
    BY <1>1, FS_Surjection
<1>3. ASSUME NEW i \in ps PROVE IsFiniteSet({i} \X (1..n[i]))
  <2>1. IsFiniteSet({i})
    BY FS_Singleton
  <2>2. IsFiniteSet(1..n[i])
    BY FS_Interval
  <2> QED
    BY <2>1, <2>2, FS_Product
<1>4. IsFiniteSet(UNION T)
  <2>1. \A t \in T : IsFiniteSet(t)
    BY <1>3
  <2> HIDE DEF T
  <2> QED
    BY <1>2, <2>1, FS_UNION
<1> QED
  BY <1>4, FS_CardinalityType DEF Pairs, SumOver

\* One number becomes larger by one.
LEMMA SumMore ==
  ASSUME NEW ps, IsFiniteSet(ps), NEW n, NEW m, NEW i \in ps,
         \A h \in ps : n[h] \in Nat,
         m[i] = n[i] + 1, \A h \in ps \ {i} : m[h] = n[h]
  PROVE  SumOver(m, ps) = SumOver(n, ps) + 1
<1>1. \A h \in ps : m[h] \in Nat
  OBVIOUS
<1>2. Pairs(m, ps) = Pairs(n, ps) \cup {<<i, n[i] + 1>>}
  <2>1. ASSUME NEW x \in Pairs(m, ps) PROVE x \in Pairs(n, ps) \cup {<<i, n[i] + 1>>}
    <3>0. PICK h \in ps : \E k \in 1..m[h] : x = <<h, k>>
      BY PairsIn
    <3>1. PICK k \in 1..m[h] : x = <<h, k>>
      BY <3>0
    <3>2. CASE h = i /\ k = n[i] + 1
      BY <3>1, <3>2
    <3>3. CASE ~(h = i /\ k = n[i] + 1)
      <4>1. k \in 1..n[h]
        BY <3>3
      <4> QED
        BY <3>1, <4>1, PairsIn
    <3> QED
      BY <3>2, <3>3
  <2>2. ASSUME NEW x \in Pairs(n, ps) PROVE x \in Pairs(m, ps)
    <3>0. PICK h \in ps : \E k \in 1..n[h] : x = <<h, k>>
      BY PairsIn
    <3>1. PICK k \in 1..n[h] : x = <<h, k>>
      BY <3>0
    <3>2. k \in 1..m[h]
      OBVIOUS
    <3> QED
      BY <3>1, <3>2, PairsIn
  <2>3. <<i, n[i] + 1>> \in Pairs(m, ps)
    <3>1. n[i] + 1 \in 1..m[i]
      OBVIOUS
    <3> QED
      BY <3>1, PairsIn
  <2> QED
    BY <2>1, <2>2, <2>3
<1>3. <<i, n[i] + 1>> \notin Pairs(n, ps)
  <2> SUFFICES ASSUME NEW h \in ps, NEW k \in 1..n[h], <<i, n[i] + 1>> = <<h, k>>
               PROVE  FALSE
    BY PairsIn
  <2>1. h = i /\ k = n[i] + 1
    OBVIOUS
  <2> QED
    BY <2>1
<1> QED
  BY <1>1, <1>2, <1>3, PairsFinite, FS_AddElement, SMTT(30)

LEMMA SumSame ==
  ASSUME NEW ps, NEW n, NEW m, \A h \in ps : m[h] = n[h]
  PROVE  SumOver(m, ps) = SumOver(n, ps)
  BY DEF SumOver

LEMMA SumZero ==
  ASSUME NEW ps, NEW n, \A h \in ps : n[h] = 0
  PROVE  SumOver(n, ps) = 0
<1>1. Pairs(n, ps) = {}
  <2> SUFFICES ASSUME NEW x \in Pairs(n, ps) PROVE FALSE
    OBVIOUS
  <2>0. PICK h \in ps : \E k \in 1..n[h] : x = <<h, k>>
    BY PairsIn
  <2>1. PICK k \in 1..n[h] : x = <<h, k>>
    BY <2>0
  <2> QED
    BY <2>1
<1> QED
  BY <1>1, FS_EmptySet DEF SumOver, Pairs

LEMMA SumPart ==
  ASSUME NEW ps, IsFiniteSet(ps), NEW qs \in SUBSET ps, NEW n,
         \A h \in ps : n[h] \in Nat
  PROVE  SumOver(n, qs) =< SumOver(n, ps)
<1>1. Pairs(n, qs) \subseteq Pairs(n, ps)
  BY PairsIn
<1>2. SumOver(n, qs) = Cardinality(Pairs(n, qs)) /\ SumOver(n, ps) = Cardinality(Pairs(n, ps))
  BY DEF SumOver, Pairs
<1> QED
  BY <1>1, <1>2, PairsFinite, FS_Subset

-----------------------------------------------------------------------------
(* How often a job is in a queue.                                            *)

Is(x, j) == IF x = j THEN 1 ELSE 0
Has(S, x) == IF x \in S THEN 1 ELSE 0
At(q, j) == {k \in 1..Len(q) : q[k] = j}
Count(q, j) == Cardinality(At(q, j))

LEMMA CountNat ==
  ASSUME NEW S, NEW q \in Seq(S), NEW j
  PROVE  IsFiniteSet(At(q, j)) /\ Count(q, j) \in Nat
<1>1. IsFiniteSet(1..Len(q)) /\ At(q, j) \in SUBSET (1..Len(q))
  BY FS_Interval DEF At
<1> QED
  BY <1>1, FS_Subset, FS_CardinalityType DEF Count

LEMMA CountAppend ==
  ASSUME NEW S, NEW q \in Seq(S), NEW x \in S, NEW j
  PROVE  Count(Append(q, x), j) = Count(q, j) + Is(x, j)
<1>1. At(Append(q, x), j) = IF x = j THEN At(q, j) \cup {Len(q) + 1} ELSE At(q, j)
  BY DEF At
<1>2. Len(q) + 1 \notin At(q, j)
  BY DEF At
<1>3. IsFiniteSet(At(q, j)) /\ Cardinality(At(q, j)) \in Nat
  BY CountNat DEF Count
<1>4. CASE x = j
  BY <1>1, <1>2, <1>3, <1>4, FS_AddElement DEF Count, Is
<1>5. CASE x # j
  BY <1>1, <1>3, <1>5 DEF Count, Is
<1> QED
  BY <1>4, <1>5

\* Positions move by one when the first is taken or added.
LEMMA CountFront ==
  ASSUME NEW S, NEW q \in Seq(S), NEW p \in Seq(S), NEW x, NEW j,
         Len(p) = Len(q) + 1, p[1] = x, \A k \in 1..Len(q) : p[k + 1] = q[k]
  PROVE  Count(p, j) = Count(q, j) + Is(x, j)
<1> DEFINE f == [k \in At(q, j) |-> k + 1]
           T == At(p, j) \ {1}
<1>1. f \in Bijection(At(q, j), T)
  <2>1. f \in [At(q, j) -> T]
    BY DEF At
  <2>2. \A k, l \in At(q, j) : f[k] = f[l] => k = l
    BY DEF At
  <2>3. \A m \in T : \E k \in At(q, j) : f[k] = m
    <3> SUFFICES ASSUME NEW m \in T PROVE m - 1 \in At(q, j) /\ f[m - 1] = m
      OBVIOUS
    <3>1. m - 1 \in 1..Len(q) /\ m = (m - 1) + 1 /\ p[m] = j
      BY DEF At
    <3>2. q[m - 1] = j
      BY <3>1
    <3>3. m - 1 \in At(q, j)
      BY <3>1, <3>2 DEF At
    <3> QED
      BY <3>1, <3>3
  <2> QED
    BY <2>1, <2>2, <2>3 DEF Bijection, Injection, Surjection, IsInjective
<1>2. ExistsBijection(At(q, j), T)
  BY <1>1 DEF ExistsBijection
<1> HIDE DEF f, T
<1>3. IsFiniteSet(T) /\ Cardinality(T) = Count(q, j) /\ Count(q, j) \in Nat
  BY <1>2, CountNat, FS_Bijection DEF Count
<1>4. At(p, j) = IF x = j THEN T \cup {1} ELSE T
  BY DEF At, T
<1>5. 1 \notin T
  BY DEF T
<1>6. CASE x = j
  BY <1>3, <1>4, <1>5, <1>6, FS_AddElement, ZenonT(60) DEF Count, Is
<1>7. CASE x # j
  BY <1>3, <1>4, <1>7 DEF Count, Is
<1> QED
  BY <1>6, <1>7

LEMMA CountTail ==
  ASSUME NEW S, NEW q \in Seq(S), q # <<>>, NEW j
  PROVE  Count(q, j) = Count(Tail(q), j) + Is(Head(q), j)
<1> DEFINE p == Tail(q)
           x == Head(q)
<1>1. p \in Seq(S) /\ Len(p) = Len(q) - 1 /\ \A k \in 1..Len(p) : p[k] = q[k + 1]
  BY HeadTailProperties
<1>2. x = q[1] /\ Len(q) \in Nat
  OBVIOUS
<1> HIDE DEF p, x
<1>3. Len(q) = Len(p) + 1 /\ \A k \in 1..Len(p) : q[k + 1] = p[k]
  BY <1>1, <1>2
<1>4. Count(q, j) = Count(p, j) + Is(x, j)
  BY <1>1, <1>2, <1>3, CountFront
<1> QED
  BY <1>4 DEF p, x

LEMMA CountPrepend ==
  ASSUME NEW S, NEW q \in Seq(S), NEW x \in S, NEW j
  PROVE  Count(<<x>> \o q, j) = Count(q, j) + Is(x, j)
<1> DEFINE p == <<x>> \o q
<1>1. p \in Seq(S) /\ Len(p) = Len(q) + 1 /\ p[1] = x
      /\ \A k \in 1..Len(q) : p[k + 1] = q[k]
  OBVIOUS
<1> HIDE DEF p
<1>2. Count(p, j) = Count(q, j) + Is(x, j)
  BY <1>1, CountFront
<1> QED
  BY <1>2 DEF p

Lengths(f, j) == [i \in Prios |-> Count(f[i], j)]

LEMMA QueuedSum ==
  ASSUME NEW j
  PROVE  /\ Queued(j) = SumOver(Lengths(jobs, j), Prios)
         /\ Queued(j)' = SumOver(Lengths(jobs', j), Prios)
  BY DEF Queued, Lengths, Count, At, Quantify

LEMMA QueuedNat ==
  ASSUME NEW j, jobs \in [Prios -> Seq(AllJobs)]
  PROVE  /\ Queued(j) \in Nat
         /\ \A i \in Prios : \A k \in 1..Len(jobs[i]) : jobs[i][k] = j => Queued(j) > 0
<1>1. \A i \in Prios : Lengths(jobs, j)[i] \in Nat
  BY CountNat DEF Lengths
<1>2. IsFiniteSet(Prios)
  BY ProcessorAssumption
<1>3. Queued(j) \in Nat
  BY <1>1, <1>2, QueuedSum, PairsFinite
<1>4. ASSUME NEW i \in Prios, NEW k \in 1..Len(jobs[i]), jobs[i][k] = j
      PROVE  Queued(j) > 0
  <2>1. jobs[i] \in Seq(AllJobs) /\ k \in At(jobs[i], j)
    BY <1>4 DEF At
  <2>2. Count(jobs[i], j) \in Nat /\ Count(jobs[i], j) # 0
    BY <2>1, CountNat, FS_EmptySet DEF Count
  <2>3. <<i, 1>> \in Pairs(Lengths(jobs, j), Prios)
    <3>1. 1 \in 1..Lengths(jobs, j)[i]
      BY <2>2 DEF Lengths
    <3> QED
      BY <3>1, PairsIn
  <2>4. IsFiniteSet(Pairs(Lengths(jobs, j), Prios))
        /\ Queued(j) = Cardinality(Pairs(Lengths(jobs, j), Prios))
    BY <1>1, <1>2, QueuedSum, PairsFinite
  <2> QED
    BY <1>3, <2>3, <2>4, FS_EmptySet
<1> QED
  BY <1>3, <1>4

\* x is added to queue i of f, which gives g, as far as j is concerned.
Adds(f, g, i, x, j) ==
  /\ f \in [Prios -> Seq(AllJobs)] /\ g \in [Prios -> Seq(AllJobs)] /\ i \in Prios
  /\ Count(g[i], j) = Count(f[i], j) + Is(x, j)
  /\ \A h \in Prios \ {i} : g[h] = f[h]

LEMMA Longer ==
  ASSUME NEW f, NEW g, NEW i, NEW x, NEW j, Adds(f, g, i, x, j)
  PROVE  SumOver(Lengths(g, j), Prios) = SumOver(Lengths(f, j), Prios) + Is(x, j)
<1> USE DEF Adds
<1>1. /\ IsFiniteSet(Prios) /\ \A h \in Prios : Lengths(f, j)[h] \in Nat
      /\ \A h \in Prios \ {i} : Lengths(g, j)[h] = Lengths(f, j)[h]
      /\ Lengths(g, j)[i] = Lengths(f, j)[i] + Is(x, j)
  BY CountNat, ProcessorAssumption DEF Lengths
<1>2. CASE x = j
  <2>1. Is(x, j) = 1
    BY <1>2 DEF Is
  <2>2. PICK n, m : n = Lengths(f, j) /\ m = Lengths(g, j)
    OBVIOUS
  <2>3. /\ \A h \in Prios : n[h] \in Nat
        /\ m[i] = n[i] + 1 /\ \A h \in Prios \ {i} : m[h] = n[h]
    BY <1>1, <2>1, <2>2
  <2>4. SumOver(m, Prios) = SumOver(n, Prios) + 1
    BY <1>1, <2>3, SumMore
  <2> QED
    BY <2>1, <2>2, <2>4
<1>3. CASE x # j
  <2>1. Is(x, j) = 0
    BY <1>3 DEF Is
  <2>2. \A h \in Prios : Lengths(g, j)[h] = Lengths(f, j)[h]
    BY <1>1, <2>1
  <2>3. SumOver(Lengths(f, j), Prios) \in Nat
    BY <1>1, PairsFinite
  <2> QED
    BY <2>1, <2>2, <2>3, SumSame
<1> QED
  BY <1>2, <1>3

LEMMA LongerQueue ==
  ASSUME jobs \in [Prios -> Seq(AllJobs)], jobs' \in [Prios -> Seq(AllJobs)],
         NEW i \in Prios, NEW x, NEW j,
         \A h \in Prios \ {i} : jobs'[h] = jobs[h]
  PROVE  /\ Count(jobs'[i], j) = Count(jobs[i], j) + Is(x, j)
              => Queued(j)' = Queued(j) + Is(x, j)
         /\ Count(jobs[i], j) = Count(jobs'[i], j) + Is(x, j)
              => Queued(j) = Queued(j)' + Is(x, j)
<1>1. ASSUME Count(jobs'[i], j) = Count(jobs[i], j) + Is(x, j)
      PROVE  Queued(j)' = Queued(j) + Is(x, j)
  <2>1. Adds(jobs, jobs', i, x, j)
    BY <1>1 DEF Adds
  <2> QED
    BY <2>1, Longer, QueuedSum
<1>2. ASSUME Count(jobs[i], j) = Count(jobs'[i], j) + Is(x, j)
      PROVE  Queued(j) = Queued(j)' + Is(x, j)
  <2>1. Adds(jobs', jobs, i, x, j)
    BY <1>2 DEF Adds
  <2> QED
    BY <2>1, Longer, QueuedSum
<1> QED
  BY <1>1, <1>2

\* What the three ways to change a queue do.
LEMMA Enqueue ==
  ASSUME jobs \in [Prios -> Seq(AllJobs)], NEW i \in Prios, NEW x \in AllJobs, NEW j,
         \/ jobs' = [jobs EXCEPT ![i] = Append(@, x)]
         \/ jobs' = [jobs EXCEPT ![i] = <<x>> \o @]
  PROVE  jobs' \in [Prios -> Seq(AllJobs)] /\ Queued(j)' = Queued(j) + Is(x, j)
<1>1. jobs[i] \in Seq(AllJobs)
  OBVIOUS
<1>2. PICK q \in Seq(AllJobs) :
        jobs' = [jobs EXCEPT ![i] = q] /\ Count(q, j) = Count(jobs[i], j) + Is(x, j)
  <2>1. CASE jobs' = [jobs EXCEPT ![i] = Append(@, x)]
    <3>1. Append(jobs[i], x) \in Seq(AllJobs)
      BY <1>1
    <3>2. Count(Append(jobs[i], x), j) = Count(jobs[i], j) + Is(x, j)
      BY <1>1, CountAppend
    <3> QED
      BY <2>1, <3>1, <3>2
  <2>2. CASE jobs' = [jobs EXCEPT ![i] = <<x>> \o @]
    <3>1. <<x>> \o jobs[i] \in Seq(AllJobs)
      BY <1>1
    <3>2. Count(<<x>> \o jobs[i], j) = Count(jobs[i], j) + Is(x, j)
      BY <1>1, CountPrepend
    <3> QED
      BY <2>2, <3>1, <3>2
  <2> QED
    BY <2>1, <2>2
<1>3. jobs' \in [Prios -> Seq(AllJobs)] /\ \A h \in Prios \ {i} : jobs'[h] = jobs[h]
  BY <1>2
<1>4. Count(jobs'[i], j) = Count(jobs[i], j) + Is(x, j)
  BY <1>2
<1> QED
  BY <1>3, <1>4, LongerQueue

LEMMA Dequeue ==
  ASSUME jobs \in [Prios -> Seq(AllJobs)], NEW i \in Prios, NEW j, jobs[i] # <<>>,
         jobs' = [jobs EXCEPT ![i] = Tail(@)]
  PROVE  jobs' \in [Prios -> Seq(AllJobs)]
         /\ Queued(j) = Queued(j)' + Is(Head(jobs[i]), j)
<1>1. jobs' \in [Prios -> Seq(AllJobs)] /\ \A h \in Prios \ {i} : jobs'[h] = jobs[h]
  OBVIOUS
<1>2. Count(jobs[i], j) = Count(jobs'[i], j) + Is(Head(jobs[i]), j)
  BY CountTail
<1> QED
  BY <1>1, <1>2, LongerQueue

LEMMA Emptied ==
  ASSUME jobs' = [i \in Prios |-> <<>>], NEW j
  PROVE  jobs' \in [Prios -> Seq(AllJobs)] /\ Queued(j)' = 0
<1>1. \A i \in Prios : Lengths(jobs', j)[i] = 0
  BY FS_EmptySet DEF Lengths, Count, At
<1>2. SumOver(Lengths(jobs', j), Prios) = 0
  BY <1>1, SumZero
<1> QED
  BY <1>2, QueuedSum

LEMMA QueuedKept ==
  ASSUME UNCHANGED jobs, NEW j
  PROVE  Queued(j)' = Queued(j)
  BY DEF Queued, Quantify

-----------------------------------------------------------------------------
(* Workers.                                                                  *)

\* Two sets that differ at most in w.
LEMMA Change ==
  ASSUME NEW W, IsFiniteSet(W), NEW S \in SUBSET W, NEW T \in SUBSET W,
         NEW w \in W, S \ {w} = T \ {w}
  PROVE  /\ Cardinality(S) \in Nat /\ Cardinality(T) \in Nat
         /\ Cardinality(T) + Has(S, w) = Cardinality(S) + Has(T, w)
<1>1. IsFiniteSet(S) /\ IsFiniteSet(T) /\ Cardinality(S) \in Nat /\ Cardinality(T) \in Nat
  BY FS_Subset, FS_CardinalityType
<1>2. CASE w \in S /\ w \in T
  <2>1. S = T
    BY <1>2
  <2> QED
    BY <1>1, <2>1
<1>3. CASE w \notin S /\ w \notin T
  <2>1. S = T
    BY <1>3
  <2> QED
    BY <1>1, <2>1
<1>4. CASE w \in S /\ w \notin T
  <2>1. T = S \ {w}
    BY <1>4
  <2>2. Cardinality(T) = Cardinality(S) - 1
    BY <1>1, <1>4, <2>1, FS_RemoveElement
  <2> QED
    BY <1>1, <1>4, <2>2 DEF Has
<1>5. CASE w \notin S /\ w \in T
  <2>1. S = T \ {w}
    BY <1>5
  <2>2. Cardinality(S) = Cardinality(T) - 1
    BY <1>1, <1>5, <2>1, FS_RemoveElement
  <2> QED
    BY <1>1, <1>5, <2>2 DEF Has
<1> QED
  BY <1>2, <1>3, <1>4, <1>5

Worker == [pc : {"none", "ready", "wait", "exec", "clean", "unwind"},
           job : AllJobs \cup {Nothing}, cancelled : BOOLEAN]

Types ==
  /\ worker \in [Workers -> Worker]
  /\ desired \in 0..Cardinality(Workers)
  /\ working \in [Prios -> Nat]
  /\ jobs \in [Prios -> Seq(AllJobs)]
  /\ fresh \subseteq Jobs /\ timed \subseteq Jobs /\ inline \subseteq Jobs
  /\ canceled \subseteq AllJobs
  /\ destroyed \in [AllJobs -> Nat] /\ runs \in [AllJobs -> Nat]
  /\ shutdown \in {"no", "begun", "wait", "woken", "done", "end"}

\* A worker has a job while it executes or destroys it.
Holding == \A w \in Workers :
  worker[w].job # Nothing <=> worker[w].pc \in {"exec", "clean", "unwind"}

\* A job is in the queue of its priority.
Sorted == \A i \in Prios : \A k \in 1..Len(jobs[i]) : Prio[jobs[i][k]] = i

Serving(i) == {w \in Workers : worker[w].pc = "exec" /\ Prio[worker[w].job] = i}
Alive == {w \in Workers : worker[w].pc # "none"}
Holds(j) == {w \in Workers : worker[w].job = j}

\* The counters are those of the threads.
Counted ==
  /\ total = Cardinality(Alive)
  /\ \A i \in Prios : working[i] = Cardinality(Serving(i))
  /\ SumOver(working, Prios) = Cardinality(In("exec"))

\* A job that is to be executed may be.
Bounded == \A j \in AllJobs :
  /\ runs[j] =< MaxRuns
  /\ j \in fresh \/ j \in timed \/ Queued(j) > 0 => runs[j] < MaxRuns
  /\ j \in fresh => runs[j] = 0

Inv == Types /\ Holding /\ Sorted /\ Counted /\ OneOwner /\ Bounded

\* A worker another thread changes: it may be woken.
Kept(u) ==
  /\ worker'[u].job = worker[u].job
  /\ \/ worker'[u].pc = worker[u].pc
     \/ worker[u].pc = "wait" /\ worker'[u].pc = "ready"

\* Worker w goes on to pc with job x.
Moved(w, pc, x) ==
  /\ w \in Workers /\ worker' \in [Workers -> Worker]
  /\ worker'[w].pc = pc /\ worker'[w].job = x
  /\ \A u \in Workers \ {w} : Kept(u)

Unmoved == worker' \in [Workers -> Worker] /\ \A u \in Workers : Kept(u)

LEMMA WokenKeeps ==
  ASSUME NEW v \in [Workers -> Worker], worker' \in Woken(v) \/ worker' = AllWoken(v)
  PROVE  /\ worker' \in [Workers -> Worker]
         /\ \A u \in Workers : /\ worker'[u].job = v[u].job
                               /\ \/ worker'[u].pc = v[u].pc
                                  \/ v[u].pc = "wait" /\ worker'[u].pc = "ready"
<1>1. CASE worker' = AllWoken(v)
  BY <1>1 DEF AllWoken, Worker
<1>2. CASE worker' = v
  BY <1>2
<1>3. ASSUME NEW w \in Workers, v[w].pc = "wait", worker' = [v EXCEPT ![w].pc = "ready"]
      PROVE  /\ worker' \in [Workers -> Worker]
             /\ \A u \in Workers : /\ worker'[u].job = v[u].job
                                   /\ \/ worker'[u].pc = v[u].pc
                                      \/ v[u].pc = "wait" /\ worker'[u].pc = "ready"
  BY <1>3 DEF Worker
<1> QED
  BY <1>1, <1>2, <1>3 DEF Woken

\* What each action does to the workers.
LEMMA WorkerGoes ==
  ASSUME Types, Holding, NEW w \in Workers
  PROVE  /\ Leave(w) => Moved(w, "none", Nothing) /\ worker[w].pc = "ready"
         /\ \A j \in AllJobs : worker' = [worker EXCEPT ![w].pc = "exec", ![w].job = j]
              => Moved(w, "exec", j)
         /\ Rest(w) => Moved(w, "wait", Nothing) /\ worker[w].pc = "ready"
         /\ Clean(w) => Moved(w, "ready", Nothing)
         /\ Unwind(w) => Moved(w, "unwind", worker[w].job)
         /\ Restart(w) => Moved(w, IF desired >= total THEN "ready" ELSE "none", Nothing)
<1>0. worker \in [Workers -> Worker]
  BY DEF Types
<1>1. Leave(w) => Moved(w, "none", Nothing) /\ worker[w].pc = "ready"
  <2> SUFFICES ASSUME Leave(w) PROVE Moved(w, "none", Nothing) /\ worker[w].pc = "ready"
    OBVIOUS
  <2>1. worker[w].pc = "ready" /\ worker[w].job = Nothing
        /\ worker' = [worker EXCEPT ![w].pc = "none", ![w].cancelled = FALSE]
    BY DEF Leave, Holding
  <2> QED
    BY <1>0, <2>1 DEF Worker, Moved, Kept
<1>7. ASSUME NEW j \in AllJobs \cup {Nothing}, NEW pc \in {"exec", "ready"},
             worker' = [worker EXCEPT ![w].pc = pc, ![w].job = j]
      PROVE  Moved(w, pc, j)
  <2>1. worker[w] \in Worker
    BY <1>0
  <2>2. PICK v : v = [worker[w] EXCEPT !.pc = pc, !.job = j]
    OBVIOUS
  <2>3. v \in Worker /\ v.pc = pc /\ v.job = j
    BY <2>1, <2>2 DEF Worker
  <2>4. worker' = [worker EXCEPT ![w] = v]
    BY <1>0, <1>7, <2>2
  <2> QED
    BY <1>0, <2>3, <2>4 DEF Moved, Kept
<1>2. \A j \in AllJobs : worker' = [worker EXCEPT ![w].pc = "exec", ![w].job = j]
        => Moved(w, "exec", j)
  BY <1>7
<1>3. Rest(w) => Moved(w, "wait", Nothing) /\ worker[w].pc = "ready"
  BY <1>0 DEF Rest, Holding, Worker, Moved, Kept
<1>4. Clean(w) => Moved(w, "ready", Nothing)
  BY <1>7 DEF Clean
<1>5. Unwind(w) => Moved(w, "unwind", worker[w].job)
  BY <1>0 DEF Unwind, Worker, Moved, Kept
<1>6. Restart(w) => Moved(w, IF desired >= total THEN "ready" ELSE "none", Nothing)
  BY <1>0 DEF Restart, Worker, Moved, Kept
<1> QED
  BY <1>1, <1>2, <1>3, <1>4, <1>5, <1>6

LEMMA ReturnGoes ==
  ASSUME Types, Holding, NEW w \in Workers, NEW r, Return(w, r)
  PROVE  \/ Ends(worker[w].job, r) /\ Moved(w, "clean", worker[w].job)
         \/ ~Ends(worker[w].job, r) /\ Moved(w, "ready", Nothing)
<1> DEFINE back == [worker EXCEPT ![w].pc = "ready", ![w].job = Nothing]
<1>1. CASE Ends(worker[w].job, r) /\ worker' = [worker EXCEPT ![w].pc = "clean"]
  BY <1>1 DEF Moved, Kept, Types, Worker
<1>2. CASE ~Ends(worker[w].job, r) /\ (worker' = back \/ worker' \in Woken(back))
  <2>1. back \in [Workers -> Worker] /\ back[w].pc = "ready" /\ back[w].job = Nothing
        /\ \A u \in Workers \ {w} : back[u] = worker[u]
    BY DEF Types, Worker
  <2> HIDE DEF back
  <2>2. worker' = back => Moved(w, "ready", Nothing)
    BY <2>1 DEF Moved, Kept
  <2>3. worker' \in Woken(back) => Moved(w, "ready", Nothing)
    BY <2>1, WokenKeeps DEF Moved, Kept
  <2> QED
    BY <1>2, <2>2, <2>3
<1> QED
  BY <1>1, <1>2 DEF Return

LEMMA MovedSets ==
  ASSUME Types, NEW w, NEW pc, NEW x, Moved(w, pc, x)
  PROVE  /\ IsFiniteSet(Workers) /\ w \in Workers
         /\ \A j : Holds(j)' \ {w} = Holds(j) \ {w} /\ (w \in Holds(j)' <=> x = j)
         /\ \A i : Serving(i)' \ {w} = Serving(i) \ {w}
                   /\ (w \in Serving(i)' <=> pc = "exec" /\ Prio[x] = i)
         /\ Alive' \ {w} = Alive \ {w} /\ (w \in Alive' <=> pc # "none")
         /\ In("exec")' \ {w} = In("exec") \ {w} /\ (w \in In("exec")' <=> pc = "exec")
<1> USE DEF Moved, Kept
<1>1. IsFiniteSet(Workers) /\ w \in Workers
  BY ProcessorAssumption
<1>2. \A j : Holds(j)' \ {w} = Holds(j) \ {w} /\ (w \in Holds(j)' <=> x = j)
  BY DEF Holds
<1>3. \A i : Serving(i)' \ {w} = Serving(i) \ {w}
             /\ (w \in Serving(i)' <=> pc = "exec" /\ Prio[x] = i)
  BY DEF Serving
<1>4. Alive' \ {w} = Alive \ {w} /\ (w \in Alive' <=> pc # "none")
  BY DEF Alive
<1>5. In("exec")' \ {w} = In("exec") \ {w} /\ (w \in In("exec")' <=> pc = "exec")
  BY DEF In
<1> QED
  BY <1>1, <1>2, <1>3, <1>4, <1>5

\* The workers that have j, after worker w went on with x.
LEMMA MovedHolds ==
  ASSUME Types, NEW w, NEW pc, NEW x, Moved(w, pc, x), NEW j
  PROVE  /\ Cardinality(Holds(j)) \in Nat /\ Cardinality(Holds(j))' \in Nat
         /\ Cardinality(Holds(j))' + Is(worker[w].job, j) = Cardinality(Holds(j)) + Is(x, j)
<1>1. IsFiniteSet(Workers) /\ w \in Workers /\ Holds(j) \in SUBSET Workers
      /\ Holds(j)' \in SUBSET Workers
  BY MovedSets DEF Holds
<1>2. Holds(j) \ {w} = Holds(j)' \ {w}
  BY MovedSets
<1>3. /\ Cardinality(Holds(j)) \in Nat /\ Cardinality(Holds(j)') \in Nat
      /\ Cardinality(Holds(j)') + Has(Holds(j), w) = Cardinality(Holds(j)) + Has(Holds(j)', w)
  BY <1>1, <1>2, Change
<1>4. Has(Holds(j), w) = Is(worker[w].job, j)
  BY <1>1 DEF Has, Is, Holds
<1>5. Has(Holds(j)', w) = Is(x, j)
  BY MovedSets DEF Has, Is
<1> QED
  BY <1>3, <1>4, <1>5

\* The threads that exist.
LEMMA MovedAlive ==
  ASSUME Types, NEW w, NEW pc, NEW x, Moved(w, pc, x)
  PROVE  /\ Cardinality(Alive) \in Nat /\ Cardinality(Alive)' \in Nat
         /\ worker[w].pc # "none" /\ pc # "none" => Cardinality(Alive)' = Cardinality(Alive)
         /\ worker[w].pc # "none" /\ pc = "none" => Cardinality(Alive)' = Cardinality(Alive) - 1
<1>1. IsFiniteSet(Workers) /\ w \in Workers /\ Alive \in SUBSET Workers
      /\ Alive' \in SUBSET Workers
  BY MovedSets DEF Alive
<1>2. Alive \ {w} = Alive' \ {w}
  BY MovedSets
<1>3. /\ Cardinality(Alive) \in Nat /\ Cardinality(Alive') \in Nat
      /\ Cardinality(Alive') + Has(Alive, w) = Cardinality(Alive) + Has(Alive', w)
  BY <1>1, <1>2, Change
<1>4. worker[w].pc # "none" => Has(Alive, w) = 1
  BY <1>1 DEF Has, Alive
<1>5. /\ pc # "none" => Has(Alive', w) = 1
      /\ pc = "none" => Has(Alive', w) = 0
  BY MovedSets DEF Has
<1> QED
  BY <1>3, <1>4, <1>5

\* The threads at work.
LEMMA MovedExec ==
  ASSUME Types, NEW w, NEW pc, NEW x, Moved(w, pc, x)
  PROVE  /\ \A i : /\ Cardinality(Serving(i)) \in Nat /\ Cardinality(Serving(i)') \in Nat
                   /\ Cardinality(Serving(i)') + Has(Serving(i), w)
                        = Cardinality(Serving(i)) + Has(Serving(i)', w)
                   /\ w \in Serving(i) => Cardinality(Serving(i)) > 0
         /\ Cardinality(In("exec")) \in Nat /\ Cardinality(In("exec")') \in Nat
         /\ Cardinality(In("exec")') + Has(In("exec"), w)
              = Cardinality(In("exec")) + Has(In("exec")', w)
<1>1. IsFiniteSet(Workers) /\ w \in Workers
  BY MovedSets
<1>2. ASSUME NEW i
      PROVE  /\ Cardinality(Serving(i)) \in Nat /\ Cardinality(Serving(i)') \in Nat
             /\ Cardinality(Serving(i)') + Has(Serving(i), w)
                  = Cardinality(Serving(i)) + Has(Serving(i)', w)
             /\ w \in Serving(i) => Cardinality(Serving(i)) > 0
  <2>1. Serving(i) \in SUBSET Workers /\ Serving(i)' \in SUBSET Workers
    BY DEF Serving
  <2>2. Serving(i) \ {w} = Serving(i)' \ {w}
    BY MovedSets
  <2>3. IsFiniteSet(Serving(i)) /\ Cardinality(Serving(i)) \in Nat
    BY <1>1, <2>1, FS_Subset, FS_CardinalityType
  <2>4. w \in Serving(i) => Cardinality(Serving(i)) # 0
    BY <2>3, FS_EmptySet
  <2> QED
    BY <1>1, <2>1, <2>2, <2>3, <2>4, Change
<1>3. In("exec") \in SUBSET Workers /\ In("exec")' \in SUBSET Workers
  BY DEF In
<1>4. In("exec") \ {w} = In("exec")' \ {w}
  BY MovedSets
<1> QED
  BY <1>1, <1>2, <1>3, <1>4, Change

LEMMA CountedElse ==
  ASSUME Types, Counted, NEW w, NEW pc, NEW x, Moved(w, pc, x),
         worker[w].pc \notin {"exec", "none"}, pc # "exec", UNCHANGED working,
         total' = IF pc = "none" THEN total - 1 ELSE total
  PROVE  Counted'
<1>1. total' = Cardinality(Alive)'
  BY MovedAlive DEF Counted
<1>2. ASSUME NEW i \in Prios PROVE working'[i] = Cardinality(Serving(i))'
  <2>1. Has(Serving(i), w) = 0 /\ Has(Serving(i)', w) = 0
    BY MovedSets DEF Has, Serving
  <2> QED
    BY <2>1, MovedExec DEF Counted
<1>3. SumOver(working, Prios)' = Cardinality(In("exec"))'
  <2>1. Has(In("exec"), w) = 0 /\ Has(In("exec")', w) = 0
    BY MovedSets DEF Has, In
  <2>2. SumOver(working, Prios)' = SumOver(working, Prios)
    BY DEF SumOver
  <2> QED
    BY <2>1, <2>2, MovedExec DEF Counted
<1> QED
  BY <1>1, <1>2, <1>3 DEF Counted

LEMMA CountedBegin ==
  ASSUME Types, Counted, NEW w, NEW x, Moved(w, "exec", x), worker[w].pc = "ready",
         NEW i \in Prios, Prio[x] = i, working' = [working EXCEPT ![i] = @ + 1],
         UNCHANGED total
  PROVE  Counted' /\ working' \in [Prios -> Nat]
<1>0. working \in [Prios -> Nat] /\ IsFiniteSet(Prios)
  BY ProcessorAssumption DEF Types
<1>1. total' = Cardinality(Alive)'
  BY MovedAlive DEF Counted
<1>2. ASSUME NEW h \in Prios PROVE working'[h] = Cardinality(Serving(h))'
  <2>1. Has(Serving(h), w) = 0 /\ Has(Serving(h)', w) = IF h = i THEN 1 ELSE 0
    BY MovedSets DEF Has, Serving
  <2>2. Cardinality(Serving(h)') = working[h] + (IF h = i THEN 1 ELSE 0)
    BY <1>0, <2>1, MovedExec DEF Counted
  <2> QED
    BY <1>0, <2>2
<1>3. SumOver(working, Prios)' = Cardinality(In("exec"))'
  <2>1. Has(In("exec"), w) = 0 /\ Has(In("exec")', w) = 1
    BY MovedSets DEF Has, In
  <2>2. \A h \in Prios : working[h] \in Nat
    BY <1>0
  <2>3. working'[i] = working[i] + 1 /\ \A h \in Prios \ {i} : working'[h] = working[h]
    BY <1>0
  <2>4. SumOver(working', Prios) = SumOver(working, Prios) + 1
    BY <1>0, <2>2, <2>3, SumMore
  <2> QED
    BY <2>1, <2>4, MovedExec DEF Counted
<1> QED
  BY <1>0, <1>1, <1>2, <1>3 DEF Counted

LEMMA CountedEnd ==
  ASSUME Types, Counted, NEW w, NEW pc, NEW x, Moved(w, pc, x),
         worker[w].pc = "exec", pc \notin {"exec", "none"},
         NEW i \in Prios, Prio[worker[w].job] = i,
         working' = [working EXCEPT ![i] = @ - 1], UNCHANGED total
  PROVE  Counted' /\ working' \in [Prios -> Nat]
<1>0. working \in [Prios -> Nat] /\ IsFiniteSet(Prios)
  BY ProcessorAssumption DEF Types
<1>1. total' = Cardinality(Alive)'
  BY MovedAlive DEF Counted
<1>2. ASSUME NEW h \in Prios
      PROVE  working'[h] = Cardinality(Serving(h))' /\ working'[h] \in Nat
  <2>1. Has(Serving(h)', w) = 0 /\ Has(Serving(h), w) = IF h = i THEN 1 ELSE 0
    BY MovedSets DEF Has, Serving
  <2>2. Cardinality(Serving(h)') = working[h] - (IF h = i THEN 1 ELSE 0)
    BY <1>0, <2>1, MovedExec DEF Counted
  <2>3. Cardinality(Serving(h)') \in Nat
    BY MovedExec
  <2> QED
    BY <1>0, <2>2, <2>3
<1>3. SumOver(working, Prios)' = Cardinality(In("exec"))'
  <2>1. Has(In("exec"), w) = 1 /\ Has(In("exec")', w) = 0
    BY MovedSets DEF Has, In
  <2>2. \A h \in Prios : working'[h] \in Nat
    BY <1>2
  <2>3. working[i] = working'[i] + 1 /\ \A h \in Prios \ {i} : working[h] = working'[h]
    BY <1>0
  <2>4. SumOver(working, Prios) = SumOver(working', Prios) + 1
    BY <1>0, <2>2, <2>3, SumMore, ZenonT(60)
  <2>5. SumOver(working', Prios) \in Nat
    BY <1>0, <2>2, PairsFinite
  <2> QED
    BY <2>1, <2>4, <2>5, MovedExec DEF Counted
<1>4. working' \in [Prios -> Nat]
  BY <1>0, <1>2
<1> QED
  BY <1>1, <1>2, <1>3, <1>4 DEF Counted

\* Workers that are only woken.
LEMMA CountedUnmoved ==
  ASSUME Types, Counted, Unmoved, UNCHANGED <<working, total>>
  PROVE  Counted' /\ \A j : Cardinality(Holds(j))' = Cardinality(Holds(j))
<1> USE DEF Unmoved, Kept
<1>1. Alive' = Alive
  BY DEF Alive
<1>2. \A i : Serving(i)' = Serving(i)
  BY DEF Serving
<1>3. In("exec")' = In("exec")
  BY DEF In
<1>4. \A j : Holds(j)' = Holds(j)
  BY DEF Holds
<1>5. SumOver(working, Prios)' = SumOver(working, Prios)
  BY DEF SumOver
<1> QED
  BY <1>1, <1>2, <1>3, <1>4, <1>5 DEF Counted

LEMMA HoldingMoved ==
  ASSUME Holding, NEW w, NEW pc, NEW x, Moved(w, pc, x),
         x # Nothing <=> pc \in {"exec", "clean", "unwind"}
  PROVE  Holding'
  BY DEF Holding, Moved, Kept

LEMMA HoldingUnmoved ==
  ASSUME Holding, Unmoved
  PROVE  Holding'
  BY DEF Holding, Unmoved, Kept

-----------------------------------------------------------------------------
(* The owners of a job.                                                      *)

LEMMA OwnersAre ==
  ASSUME NEW j
  PROVE  /\ Owners(j) = Cardinality(Holds(j)) + Queued(j) + Has(fresh, j)
                          + Has(timed, j) + Has(inline, j) + destroyed[j]
         /\ Owners(j)' = Cardinality(Holds(j))' + Queued(j)' + Has(fresh', j)
                          + Has(timed', j) + Has(inline', j) + destroyed'[j]
<1>1. Quantify(Workers, LAMBDA w : worker[w].job = j) = Cardinality(Holds(j))
  BY DEF Quantify, Holds
<1>2. Quantify(Workers, LAMBDA w : worker[w].job = j)' = Cardinality(Holds(j))'
  BY DEF Quantify, Holds
<1> QED
  BY <1>1, <1>2 DEF Owners, Has

LEMMA Balance ==
  ASSUME OneOwner,
         \A j \in AllJobs :
           Cardinality(Holds(j))' + Queued(j)' + Has(fresh', j)
               + Has(timed', j) + Has(inline', j) + destroyed'[j]
             = Cardinality(Holds(j)) + Queued(j) + Has(fresh, j)
               + Has(timed, j) + Has(inline, j) + destroyed[j]
  PROVE  OneOwner'
  BY OwnersAre DEF OneOwner

LEMMA HasMore ==
  ASSUME NEW S, NEW x, x \notin S, NEW j
  PROVE  Has(S \cup {x}, j) = Has(S, j) + Is(x, j)
  BY DEF Has, Is

LEMMA HasLess ==
  ASSUME NEW S, NEW x, x \in S, NEW j
  PROVE  Has(S \ {x}, j) + Is(x, j) = Has(S, j)
  BY DEF Has, Is

LEMMA DestroyedMore ==
  ASSUME Types, NEW x \in AllJobs, destroyed' = [destroyed EXCEPT ![x] = @ + 1],
         NEW j \in AllJobs
  PROVE  destroyed'[j] = destroyed[j] + Is(x, j)
  BY DEF Types, Is

LEMMA NumberTypes ==
  ASSUME Types, NEW j \in AllJobs
  PROVE  /\ Cardinality(Holds(j)) \in Nat /\ Queued(j) \in Nat
         /\ Has(fresh, j) \in {0, 1} /\ Has(timed, j) \in {0, 1} /\ Has(inline, j) \in {0, 1}
         /\ destroyed[j] \in Nat /\ runs[j] \in Nat
         /\ (\E w \in Workers : worker[w].job = j) => Cardinality(Holds(j)) > 0
<1>1. IsFiniteSet(Holds(j)) /\ Cardinality(Holds(j)) \in Nat
  <2>1. Holds(j) \in SUBSET Workers
    BY DEF Holds
  <2> QED
    BY <2>1, ProcessorAssumption, FS_Subset, FS_CardinalityType
<1>2. Queued(j) \in Nat
  BY QueuedNat DEF Types
<1>3. Has(fresh, j) \in {0, 1} /\ Has(timed, j) \in {0, 1} /\ Has(inline, j) \in {0, 1}
  BY DEF Has
<1>4. destroyed[j] \in Nat /\ runs[j] \in Nat
  BY DEF Types
<1>5. (\E w \in Workers : worker[w].job = j) => Holds(j) # {}
  BY DEF Holds
<1>6. (\E w \in Workers : worker[w].job = j) => Cardinality(Holds(j)) # 0
  BY <1>1, <1>5, FS_EmptySet
<1> QED
  BY <1>1, <1>2, <1>3, <1>4, <1>6

\* What one owner excludes.
LEMMA Exclusion ==
  ASSUME Types, OneOwner, NEW j \in AllJobs
  PROVE  /\ (\E w \in Workers : worker[w].job = j)
              => Queued(j) = 0 /\ j \notin fresh /\ j \notin timed /\ j \notin inline
         /\ Queued(j) > 0 => Queued(j) = 1 /\ j \notin fresh /\ j \notin timed /\ j \notin inline
         /\ j \in fresh => Queued(j) = 0 /\ j \notin timed /\ j \notin inline
         /\ j \in timed => Queued(j) = 0 /\ j \notin inline
         /\ destroyed[j] \in 0..1
<1>1. Cardinality(Holds(j)) + Queued(j) + Has(fresh, j) + Has(timed, j) + Has(inline, j)
        + destroyed[j] = 1
  BY OwnersAre DEF OneOwner
<1>2. /\ j \in fresh <=> Has(fresh, j) = 1
      /\ j \in timed <=> Has(timed, j) = 1
      /\ j \in inline <=> Has(inline, j) = 1
  BY DEF Has
<1> QED
  BY <1>1, <1>2, NumberTypes

LEMMA SortedEnqueue ==
  ASSUME Types, Sorted, NEW x \in AllJobs,
         \/ jobs' = [jobs EXCEPT ![Prio[x]] = Append(@, x)]
         \/ jobs' = [jobs EXCEPT ![Prio[x]] = <<x>> \o @]
  PROVE  Sorted'
<1>1. PICK i \in Prios : i = Prio[x]
  BY ProcessorAssumption
<1>2. jobs \in [Prios -> Seq(AllJobs)] /\ jobs[i] \in Seq(AllJobs)
  BY DEF Types
<1>3. \A k \in 1..Len(jobs[i]) : Prio[jobs[i][k]] = i
  BY DEF Sorted
<1>4. \A k \in 1..Len(jobs'[i]) : Prio[jobs'[i][k]] = i
  <2>1. CASE jobs' = [jobs EXCEPT ![i] = Append(@, x)]
    BY <1>1, <1>2, <1>3, <2>1
  <2>2. CASE jobs' = [jobs EXCEPT ![i] = <<x>> \o @]
    <3>1. jobs'[i] = <<x>> \o jobs[i]
      BY <1>2, <2>2
    <3>2. \A k \in 1..Len(<<x>> \o jobs[i]) :
            (<<x>> \o jobs[i])[k] = IF k = 1 THEN x ELSE jobs[i][k - 1]
      BY <1>2
    <3> QED
      BY <1>1, <1>2, <1>3, <3>1, <3>2
  <2> QED
    BY <1>1, <2>1, <2>2
<1>5. \A h \in Prios \ {i} : jobs'[h] = jobs[h]
  BY <1>1, <1>2
<1> QED
  BY <1>4, <1>5 DEF Sorted

LEMMA SortedDequeue ==
  ASSUME Types, Sorted, NEW i \in Prios, jobs[i] # <<>>,
         jobs' = [jobs EXCEPT ![i] = Tail(@)]
  PROVE  Sorted' /\ Head(jobs[i]) \in AllJobs /\ Prio[Head(jobs[i])] = i
         /\ Queued(Head(jobs[i])) > 0
<1>1. jobs \in [Prios -> Seq(AllJobs)] /\ jobs[i] \in Seq(AllJobs)
  BY DEF Types
<1>2. 1 \in 1..Len(jobs[i]) /\ Head(jobs[i]) = jobs[i][1] /\ Head(jobs[i]) \in AllJobs
  BY <1>1
<1>3. \A k \in 1..Len(jobs'[i]) : Prio[jobs'[i][k]] = i
  <2>1. jobs'[i] = Tail(jobs[i])
    BY <1>1
  <2>2. /\ Len(Tail(jobs[i])) = Len(jobs[i]) - 1
        /\ \A k \in 1..Len(Tail(jobs[i])) : Tail(jobs[i])[k] = jobs[i][k + 1]
    BY <1>1, HeadTailProperties
  <2> QED
    BY <1>1, <2>1, <2>2 DEF Sorted
<1>4. \A h \in Prios \ {i} : jobs'[h] = jobs[h]
  BY <1>1
<1>5. Prio[Head(jobs[i])] = i
  BY <1>2 DEF Sorted
<1>6. Queued(Head(jobs[i])) > 0
  BY <1>1, <1>2, QueuedNat
<1> QED
  BY <1>2, <1>3, <1>4, <1>5, <1>6 DEF Sorted

LEMMA QueuedNatNext ==
  ASSUME jobs' \in [Prios -> Seq(AllJobs)], NEW j
  PROVE  Queued(j)' \in Nat
<1>1. \A h \in Prios : Lengths(jobs', j)[h] \in Nat
  BY CountNat DEF Lengths
<1>2. SumOver(Lengths(jobs', j), Prios) \in Nat
  BY <1>1, PairsFinite, ProcessorAssumption
<1> QED
  BY <1>2, QueuedSum

LEMMA BoundedKept ==
  ASSUME Types, Bounded, UNCHANGED runs, fresh' \subseteq fresh,
         \A j \in AllJobs : j \in timed' \/ Queued(j)' > 0
           => j \in fresh \/ j \in timed \/ Queued(j) > 0 \/ runs[j] < MaxRuns
  PROVE  Bounded'
  BY DEF Bounded

LEMMA NotNothing ==
  ASSUME NEW j \in AllJobs
  PROVE  Is(Nothing, j) = 0
  BY ProcessorAssumption DEF Is

-----------------------------------------------------------------------------
(* Steps of workers.                                                         *)

\* A worker that keeps its job, or keeps none, and touches no queue.
LEMMA IdleStep ==
  ASSUME Inv, NEW w \in Workers, NEW pc, Moved(w, pc, worker[w].job),
         UNCHANGED <<desired, jobs, fresh, timed, inline, destroyed, runs>>
  PROVE  worker' \in [Workers -> Worker] /\ Sorted' /\ OneOwner' /\ Bounded'
<1>1. \A j \in AllJobs : Queued(j)' = Queued(j)
  BY QueuedKept
<1>2. ASSUME NEW j \in AllJobs PROVE Cardinality(Holds(j))' = Cardinality(Holds(j))
  <2>1. Cardinality(Holds(j)) \in Nat /\ Cardinality(Holds(j))' \in Nat
        /\ Cardinality(Holds(j))' + Is(worker[w].job, j)
             = Cardinality(Holds(j)) + Is(worker[w].job, j)
    BY MovedHolds DEF Inv
  <2>2. Is(worker[w].job, j) \in {0, 1}
    BY DEF Is
  <2> QED
    BY <2>1, <2>2
<1>3. OneOwner'
  BY <1>1, <1>2, Balance DEF Inv
<1>4. Bounded'
  BY <1>1, BoundedKept DEF Inv
<1> QED
  BY <1>3, <1>4 DEF Inv, Moved, Sorted

LEMMA LeaveStep ==
  ASSUME Inv, NEW w \in Workers, Leave(w)
  PROVE  Inv'
<1>1. Moved(w, "none", Nothing) /\ worker[w].pc = "ready" /\ worker[w].job = Nothing
  BY WorkerGoes DEF Inv, Holding
<1>2. /\ total' = total - 1 /\ UNCHANGED <<desired, working, jobs, fresh, timed, inline,
                                           canceled, destroyed, runs>>
      /\ shutdown' \in {shutdown, "woken"}
  BY DEF Leave, Terminated
<1>3. Counted'
  BY <1>1, <1>2, CountedElse DEF Inv
<1>4. Holding'
  BY <1>1, HoldingMoved DEF Inv
<1>5. worker' \in [Workers -> Worker] /\ Sorted' /\ OneOwner' /\ Bounded'
  BY <1>1, <1>2, IdleStep
<1>6. Types'
  BY <1>2, <1>5 DEF Inv, Types
<1> QED
  BY <1>3, <1>4, <1>5, <1>6 DEF Inv

LEMMA RestStep ==
  ASSUME Inv, NEW w \in Workers, Rest(w)
  PROVE  Inv'
<1>1. Moved(w, "wait", Nothing) /\ worker[w].pc = "ready" /\ worker[w].job = Nothing
  BY WorkerGoes DEF Inv, Holding
<1>2. UNCHANGED <<total, desired, working, jobs, fresh, timed, inline,
                  canceled, destroyed, runs, shutdown>>
  BY DEF Rest
<1>3. Counted'
  BY <1>1, <1>2, CountedElse DEF Inv
<1>4. Holding'
  BY <1>1, HoldingMoved DEF Inv
<1>5. worker' \in [Workers -> Worker] /\ Sorted' /\ OneOwner' /\ Bounded'
  BY <1>1, <1>2, IdleStep
<1>6. Types'
  BY <1>2, <1>5 DEF Inv, Types
<1> QED
  BY <1>3, <1>4, <1>5, <1>6 DEF Inv

LEMMA UnwindStep ==
  ASSUME Inv, NEW w \in Workers, Unwind(w)
  PROVE  Inv'
<1>1. /\ Moved(w, "unwind", worker[w].job) /\ worker[w].pc = "exec"
      /\ worker[w].job # Nothing
  BY WorkerGoes DEF Inv, Holding, Unwind
<1>2. PICK x \in AllJobs : x = worker[w].job
  BY <1>1 DEF Inv, Types, Worker
<1>3. PICK i \in Prios : i = Prio[x]
  BY ProcessorAssumption
<1>4. /\ UNCHANGED <<total, desired, jobs, fresh, timed, inline, destroyed, runs, shutdown>>
      /\ canceled' = canceled \cup {x}
      /\ working' = [working EXCEPT ![i] = @ - 1]
  BY <1>2, <1>3 DEF Unwind
<1>5. Counted' /\ working' \in [Prios -> Nat]
  <2>1. /\ Types /\ Counted /\ Moved(w, "unwind", x) /\ worker[w].pc = "exec"
        /\ Prio[worker[w].job] = i /\ "unwind" \notin {"exec", "none"} /\ UNCHANGED total
    BY <1>1, <1>2, <1>3, <1>4 DEF Inv
  <2> QED
    BY <1>4, <2>1, CountedEnd
<1>6. Holding'
  BY <1>1, HoldingMoved DEF Inv
<1>7. worker' \in [Workers -> Worker] /\ Sorted' /\ OneOwner' /\ Bounded'
  BY <1>1, <1>4, IdleStep
<1>8. Types'
  BY <1>4, <1>5, <1>7 DEF Inv, Types
<1> QED
  BY <1>5, <1>6, <1>7, <1>8 DEF Inv

LEMMA BeginStep ==
  ASSUME Inv, NEW w \in Workers, Begin(w)
  PROVE  Inv'
<1>1. PICK i \in Prios :
        /\ Eligible(i)
        /\ worker' = [worker EXCEPT ![w].pc = "exec", ![w].job = Head(jobs[i])]
        /\ runs' = [runs EXCEPT ![Head(jobs[i])] = @ + 1]
        /\ jobs' = [jobs EXCEPT ![i] = Tail(@)]
        /\ working' = [working EXCEPT ![i] = @ + 1]
  BY DEF Begin
<1>2. UNCHANGED <<total, desired, fresh, timed, inline, canceled, destroyed, shutdown>>
      /\ worker[w].pc = "ready" /\ worker[w].job = Nothing
  BY DEF Begin, Inv, Holding
<1>3. jobs[i] # <<>>
  BY <1>1 DEF Eligible
<1>4. PICK x \in AllJobs : x = Head(jobs[i]) /\ Prio[x] = i /\ Queued(x) > 0 /\ Sorted'
  BY <1>1, <1>3, SortedDequeue DEF Inv
<1>5. Moved(w, "exec", x) /\ x # Nothing
  BY <1>1, <1>4, WorkerGoes, ProcessorAssumption DEF Inv
<1>6. Counted' /\ working' \in [Prios -> Nat]
  BY <1>1, <1>2, <1>4, <1>5, CountedBegin DEF Inv
<1>7. Holding'
  BY <1>5, HoldingMoved DEF Inv
<1>8. jobs' \in [Prios -> Seq(AllJobs)] /\ \A j : Queued(j) = Queued(j)' + Is(x, j)
  BY <1>1, <1>3, <1>4, Dequeue DEF Inv, Types
<1>9. Types'
  <2>1. runs' \in [AllJobs -> Nat]
    BY <1>1, <1>4 DEF Inv, Types
  <2> QED
    BY <1>2, <1>5, <1>6, <1>8, <2>1 DEF Inv, Types, Moved
<1>10. \A j \in AllJobs : Queued(j)' \in Nat
  BY <1>8, QueuedNatNext
<1>11. ASSUME NEW j \in AllJobs
       PROVE  Cardinality(Holds(j))' + Queued(j)' = Cardinality(Holds(j)) + Queued(j)
  <2>1. Cardinality(Holds(j)) \in Nat /\ Cardinality(Holds(j))' \in Nat
        /\ Cardinality(Holds(j))' + Is(worker[w].job, j) = Cardinality(Holds(j)) + Is(x, j)
    BY <1>5, MovedHolds DEF Inv
  <2>2. Is(worker[w].job, j) = 0 /\ Is(x, j) \in {0, 1}
    BY <1>2, NotNothing DEF Is
  <2>3. Queued(j) \in Nat /\ Queued(j)' \in Nat /\ Queued(j) = Queued(j)' + Is(x, j)
    BY <1>8, <1>10, QueuedNat DEF Inv, Types
  <2> QED
    BY <2>1, <2>2, <2>3
<1>12. OneOwner'
  BY <1>2, <1>11, Balance DEF Inv
<1>13. Bounded'
  <2>1. Queued(x) = 1 /\ x \notin fresh /\ x \notin timed
    BY <1>4, Exclusion DEF Inv
  <2>2. Queued(x)' = 0
    BY <1>8, <1>10, <2>1 DEF Is
  <2>3. \A j \in AllJobs \ {x} : Queued(j)' = Queued(j) /\ runs'[j] = runs[j]
    BY <1>1, <1>4, <1>8, <1>10 DEF Is, Inv, Types
  <2>4. runs'[x] = runs[x] + 1 /\ runs[x] < MaxRuns /\ runs[x] \in Nat
    BY <1>1, <1>4 DEF Inv, Types, Bounded
  <2> QED
    BY <1>2, <2>1, <2>2, <2>3, <2>4, ProcessorAssumption DEF Inv, Bounded
<1> QED
  BY <1>4, <1>6, <1>7, <1>9, <1>12, <1>13 DEF Inv

\* A worker destroys its job.
LEMMA DestroyStep ==
  ASSUME Inv, NEW w \in Workers, NEW pc, Moved(w, pc, Nothing), NEW x \in AllJobs,
         x = worker[w].job, destroyed' = [destroyed EXCEPT ![x] = @ + 1],
         UNCHANGED <<jobs, fresh, timed, inline, runs>>
  PROVE  worker' \in [Workers -> Worker] /\ destroyed' \in [AllJobs -> Nat]
         /\ Sorted' /\ OneOwner' /\ Bounded'
<1>1. \A j \in AllJobs : Queued(j)' = Queued(j)
  BY QueuedKept
<1>2. ASSUME NEW j \in AllJobs
      PROVE  Cardinality(Holds(j))' + destroyed'[j] = Cardinality(Holds(j)) + destroyed[j]
  <2>1. Cardinality(Holds(j)) \in Nat /\ Cardinality(Holds(j))' \in Nat
        /\ Cardinality(Holds(j))' + Is(x, j) = Cardinality(Holds(j)) + Is(Nothing, j)
    BY MovedHolds DEF Inv
  <2>2. Is(Nothing, j) = 0 /\ Is(x, j) \in {0, 1}
    BY NotNothing DEF Is
  <2>3. destroyed[j] \in Nat /\ destroyed'[j] = destroyed[j] + Is(x, j)
    BY DestroyedMore, NumberTypes DEF Inv
  <2> QED
    BY <2>1, <2>2, <2>3
<1>3. destroyed' \in [AllJobs -> Nat]
  BY DEF Inv, Types
<1>4. OneOwner'
  <2>1. ASSUME NEW j \in AllJobs
        PROVE  Cardinality(Holds(j))' + Queued(j)' + Has(fresh', j)
                 + Has(timed', j) + Has(inline', j) + destroyed'[j]
               = Cardinality(Holds(j)) + Queued(j) + Has(fresh, j)
                 + Has(timed, j) + Has(inline, j) + destroyed[j]
    <3>1. Cardinality(Holds(j))' \in Nat /\ destroyed'[j] \in Nat
      BY <1>3, MovedHolds DEF Inv
    <3> QED
      BY <1>1, <1>2, <3>1, NumberTypes DEF Inv
  <2> QED
    BY <2>1, Balance DEF Inv
<1>5. Bounded'
  BY <1>1, BoundedKept DEF Inv
<1> QED
  BY <1>3, <1>4, <1>5 DEF Inv, Moved, Sorted

LEMMA CleanStep ==
  ASSUME Inv, NEW w \in Workers, Clean(w)
  PROVE  Inv'
<1>1. Moved(w, "ready", Nothing) /\ worker[w].pc = "clean" /\ worker[w].job # Nothing
  BY WorkerGoes DEF Inv, Holding, Clean
<1>2. PICK x \in AllJobs : x = worker[w].job
  BY <1>1 DEF Inv, Types, Worker
<1>3. /\ UNCHANGED <<total, desired, working, jobs, fresh, timed, inline, canceled,
                     runs, shutdown>>
      /\ destroyed' = [destroyed EXCEPT ![x] = @ + 1]
  BY <1>2 DEF Clean
<1>4. Counted'
  BY <1>1, <1>3, CountedElse DEF Inv
<1>5. Holding'
  BY <1>1, HoldingMoved DEF Inv
<1>6. worker' \in [Workers -> Worker] /\ destroyed' \in [AllJobs -> Nat]
      /\ Sorted' /\ OneOwner' /\ Bounded'
  BY <1>1, <1>2, <1>3, DestroyStep
<1>7. Types'
  BY <1>3, <1>6 DEF Inv, Types
<1> QED
  BY <1>4, <1>5, <1>6, <1>7 DEF Inv

LEMMA RestartStep ==
  ASSUME Inv, NEW w \in Workers, Restart(w)
  PROVE  Inv'
<1>1. PICK pc \in {"ready", "none"} :
        Moved(w, pc, Nothing) /\ total' = IF pc = "none" THEN total - 1 ELSE total
  <2>1. CASE desired >= total
    BY <2>1, WorkerGoes DEF Inv, Restart
  <2>2. CASE ~(desired >= total)
    BY <2>2, WorkerGoes DEF Inv, Restart, Terminated
  <2> QED
    BY <2>1, <2>2
<1>2. worker[w].pc = "unwind" /\ worker[w].job # Nothing
  BY DEF Inv, Holding, Restart
<1>3. PICK x \in AllJobs : x = worker[w].job
  BY <1>2 DEF Inv, Types, Worker
<1>4. /\ UNCHANGED <<desired, working, jobs, fresh, timed, inline, canceled, runs>>
      /\ destroyed' = [destroyed EXCEPT ![x] = @ + 1]
      /\ shutdown' \in {shutdown, "woken"}
  BY <1>3 DEF Restart, Terminated
<1>5. Counted'
  BY <1>1, <1>2, <1>4, CountedElse DEF Inv
<1>6. Holding'
  BY <1>1, HoldingMoved DEF Inv
<1>7. worker' \in [Workers -> Worker] /\ destroyed' \in [AllJobs -> Nat]
      /\ Sorted' /\ OneOwner' /\ Bounded'
  BY <1>1, <1>3, <1>4, DestroyStep
<1>8. Types'
  BY <1>4, <1>7 DEF Inv, Types
<1> QED
  BY <1>5, <1>6, <1>7, <1>8 DEF Inv

\* The job is over, is queued again or is scheduled.
LEMMA ReturnStep ==
  ASSUME Inv, NEW w \in Workers, NEW r, Return(w, r)
  PROVE  Inv'
<1>1. worker[w].pc = "exec" /\ worker[w].job # Nothing
  BY DEF Inv, Holding, Return
<1>2. PICK x \in AllJobs : x = worker[w].job /\ x # Scheduler
  BY <1>1 DEF Inv, Types, Worker, Return
<1>3. PICK i \in Prios : i = Prio[x]
  BY ProcessorAssumption
<1>4. /\ UNCHANGED <<total, desired, fresh, inline, canceled, destroyed, runs, shutdown>>
      /\ working' = [working EXCEPT ![i] = @ - 1]
      /\ r # "none" => runs[x] < MaxRuns
  BY <1>2, <1>3 DEF Return
<1>5. CASE Ends(x, r)
  <2>1. Moved(w, "clean", x) /\ UNCHANGED <<jobs, timed>>
    BY <1>2, <1>5, ReturnGoes DEF Inv, Return
  <2>2. Counted' /\ working' \in [Prios -> Nat]
    <3>1. /\ Types /\ Counted /\ Prio[worker[w].job] = i
          /\ "clean" \notin {"exec", "none"} /\ UNCHANGED total
      BY <1>2, <1>3, <1>4 DEF Inv
    <3> QED
      BY <1>1, <1>4, <2>1, <3>1, CountedEnd
  <2>3. Holding'
    BY <1>1, <1>2, <2>1, HoldingMoved DEF Inv
  <2>4. worker' \in [Workers -> Worker] /\ Sorted' /\ OneOwner' /\ Bounded'
    BY <1>2, <1>4, <2>1, IdleStep
  <2>5. Types'
    BY <1>4, <2>1, <2>2, <2>4 DEF Inv, Types
  <2> QED
    BY <2>2, <2>3, <2>4, <2>5 DEF Inv
<1>6. CASE ~Ends(x, r)
  <2>1. Moved(w, "ready", Nothing)
    BY <1>2, <1>6, ReturnGoes DEF Inv
  <2>2. Counted' /\ working' \in [Prios -> Nat]
    <3>1. /\ Types /\ Counted /\ Prio[worker[w].job] = i
          /\ "ready" \notin {"exec", "none"} /\ UNCHANGED total
      BY <1>2, <1>3, <1>4 DEF Inv
    <3> QED
      BY <1>1, <1>4, <2>1, <3>1, CountedEnd
  <2>3. Holding'
    BY <2>1, HoldingMoved DEF Inv
  <2>4. \/ jobs' = [jobs EXCEPT ![i] = Append(@, x)] /\ UNCHANGED timed
        \/ timed' = timed \cup {x} /\ UNCHANGED jobs
    BY <1>2, <1>3, <1>6 DEF Return
  <2>5. runs[x] < MaxRuns
    BY <1>4, <1>6 DEF Ends
  <2>6. Queued(x) = 0 /\ x \notin fresh /\ x \notin timed /\ x \in Jobs
    BY <1>2, Exclusion DEF Inv, AllJobs
  <2>7. Sorted' /\ jobs' \in [Prios -> Seq(AllJobs)] /\ timed' \subseteq Jobs
    <3>1. CASE jobs' = [jobs EXCEPT ![i] = Append(@, x)] /\ UNCHANGED timed
      BY <1>3, <3>1, SortedEnqueue, Enqueue DEF Inv, Types
    <3>2. CASE timed' = timed \cup {x} /\ UNCHANGED jobs
      BY <2>6, <3>2 DEF Inv, Types, Sorted
    <3> QED
      BY <2>4, <3>1, <3>2
  <2>8. ASSUME NEW j \in AllJobs
        PROVE  /\ Queued(j)' + Has(timed', j) = Queued(j) + Has(timed, j) + Is(x, j)
               /\ Queued(j)' \in Nat /\ Has(timed', j) \in Nat
               /\ j # x => Queued(j)' = Queued(j) /\ (j \in timed' <=> j \in timed)
    <3>1. Is(x, j) \in {0, 1} /\ (j # x => Is(x, j) = 0)
      BY DEF Is
    <3>2. CASE jobs' = [jobs EXCEPT ![i] = Append(@, x)] /\ UNCHANGED timed
      <4>1. Queued(j)' = Queued(j) + Is(x, j)
        BY <3>2, Enqueue DEF Inv, Types
      <4> QED
        BY <3>1, <3>2, <4>1, NumberTypes DEF Inv
    <3>3. CASE timed' = timed \cup {x} /\ UNCHANGED jobs
      <4>1. Queued(j)' = Queued(j)
        BY <3>3, QueuedKept
      <4>2. Has(timed', j) = Has(timed, j) + Is(x, j)
        BY <2>6, <3>3, HasMore
      <4> QED
        BY <3>1, <3>3, <4>1, <4>2, NumberTypes DEF Inv
    <3> QED
      BY <2>4, <3>2, <3>3
  <2>9. OneOwner'
    <3>1. ASSUME NEW j \in AllJobs
          PROVE  Cardinality(Holds(j))' + Queued(j)' + Has(fresh', j)
                   + Has(timed', j) + Has(inline', j) + destroyed'[j]
                 = Cardinality(Holds(j)) + Queued(j) + Has(fresh, j)
                   + Has(timed, j) + Has(inline, j) + destroyed[j]
      <4>1. Cardinality(Holds(j)) \in Nat /\ Cardinality(Holds(j))' \in Nat
            /\ Cardinality(Holds(j))' + Is(x, j) = Cardinality(Holds(j)) + Is(Nothing, j)
        BY <1>2, <2>1, MovedHolds DEF Inv
      <4>2. Is(Nothing, j) = 0 /\ Is(x, j) \in {0, 1}
        BY NotNothing DEF Is
      <4> QED
        BY <1>4, <2>8, <4>1, <4>2, NumberTypes DEF Inv
    <3> QED
      BY <3>1, Balance DEF Inv
  <2>10. Bounded'
    <3>1. \A j \in AllJobs : j \in timed' \/ Queued(j)' > 0
            => j \in fresh \/ j \in timed \/ Queued(j) > 0 \/ runs[j] < MaxRuns
      BY <2>5, <2>8
    <3> QED
      BY <1>4, <3>1, BoundedKept DEF Inv
  <2>11. Types'
    BY <1>4, <2>1, <2>2, <2>7 DEF Inv, Types, Moved
  <2> QED
    BY <2>2, <2>3, <2>7, <2>9, <2>10, <2>11 DEF Inv
<1> QED
  BY <1>5, <1>6

-----------------------------------------------------------------------------
(* Steps of other threads.                                                   *)

LEMMA ClientUnmoved ==
  ASSUME Types, worker' \in Woken(worker) \/ worker' = AllWoken(worker)
  PROVE  Unmoved
  BY WokenKeeps DEF Types, Unmoved, Kept

\* What is left of the invariant if workers are at most woken.
LEMMA UnmovedStep ==
  ASSUME Inv, Unmoved, UNCHANGED <<total, working>>
  PROVE  Counted' /\ Holding' /\ worker' \in [Workers -> Worker]
         /\ \A j : Cardinality(Holds(j))' = Cardinality(Holds(j))
  BY CountedUnmoved, HoldingUnmoved DEF Inv, Unmoved

\* A job of fresh or timed is queued.
LEMMA QueueStep ==
  ASSUME Inv, NEW x \in Jobs, x \in fresh \/ x \in timed, Unmoved,
         x \in fresh => fresh' = fresh \ {x} /\ timed' = timed,
         x \notin fresh => timed' = timed \ {x} /\ fresh' = fresh,
         \/ jobs' = [jobs EXCEPT ![Prio[x]] = Append(@, x)]
         \/ jobs' = [jobs EXCEPT ![Prio[x]] = <<x>> \o @],
         UNCHANGED <<total, desired, working, inline, canceled, destroyed, runs, shutdown>>
  PROVE  Inv'
<1>1. x \in AllJobs
  BY DEF AllJobs
<1>2. Sorted'
  BY <1>1, SortedEnqueue DEF Inv
<1>3. /\ jobs' \in [Prios -> Seq(AllJobs)]
      /\ \A j : Queued(j)' = Queued(j) + Is(x, j)
  <2>1. PICK i \in Prios : i = Prio[x]
    BY <1>1, ProcessorAssumption
  <2> QED
    BY <1>1, <2>1, Enqueue DEF Inv, Types
<1>4. Counted' /\ Holding' /\ worker' \in [Workers -> Worker]
      /\ \A j : Cardinality(Holds(j))' = Cardinality(Holds(j))
  BY UnmovedStep
<1>5. ASSUME NEW j \in AllJobs
      PROVE  Has(fresh', j) + Has(timed', j) + Is(x, j) = Has(fresh, j) + Has(timed, j)
             /\ Has(fresh', j) \in {0, 1} /\ Has(timed', j) \in {0, 1}
  <2>1. Has(fresh', j) \in {0, 1} /\ Has(timed', j) \in {0, 1} /\ Is(x, j) \in {0, 1}
    BY DEF Has, Is
  <2>2. CASE x \in fresh
    <3>1. Has(fresh', j) + Is(x, j) = Has(fresh, j)
      BY <2>2, HasLess
    <3> QED
      BY <2>1, <2>2, <3>1, NumberTypes DEF Inv
  <2>3. CASE x \notin fresh
    <3>1. Has(timed', j) + Is(x, j) = Has(timed, j)
      BY <2>3, HasLess
    <3> QED
      BY <2>1, <2>3, <3>1, NumberTypes DEF Inv
  <2> QED
    BY <2>2, <2>3
<1>6. OneOwner'
  <2>1. ASSUME NEW j \in AllJobs
        PROVE  Cardinality(Holds(j))' + Queued(j)' + Has(fresh', j)
                 + Has(timed', j) + Has(inline', j) + destroyed'[j]
               = Cardinality(Holds(j)) + Queued(j) + Has(fresh, j)
                 + Has(timed, j) + Has(inline, j) + destroyed[j]
    <3>1. Is(x, j) \in {0, 1}
      BY DEF Is
    <3> QED
      BY <1>3, <1>4, <1>5, <3>1, NumberTypes DEF Inv
  <2> QED
    BY <2>1, Balance DEF Inv
<1>7. Bounded'
  <2>1. \A j \in AllJobs \ {x} : Queued(j)' = Queued(j)
    BY <1>3, NumberTypes DEF Is, Inv
  <2>2. fresh' \subseteq fresh /\ timed' \subseteq timed
    OBVIOUS
  <2> QED
    BY <2>1, <2>2, BoundedKept DEF Inv
<1>8. Types'
  BY <1>3, <1>4 DEF Inv, Types
<1> QED
  BY <1>2, <1>4, <1>6, <1>7, <1>8 DEF Inv

LEMMA QueueJobStep ==
  ASSUME Inv, NEW j \in Jobs, QueueJob(j) \/ Expire(j)
  PROVE  Inv'
<1>1. CASE QueueJob(j)
  BY <1>1, ClientUnmoved, QueueStep DEF QueueJob, Inv
<1>2. CASE Expire(j)
  <2>1. j \notin fresh
    BY <1>2, Exclusion DEF Inv, Expire, AllJobs
  <2> QED
    BY <1>2, <2>1, ClientUnmoved, QueueStep DEF Expire, Inv
<1> QED
  BY <1>1, <1>2

LEMMA ExecuteJobStep ==
  ASSUME Inv, NEW x \in Jobs, ExecuteJob(x)
  PROVE  Inv'
<1>1. x \in fresh /\ fresh' = fresh \ {x} /\ Unmoved /\ x \in AllJobs
      /\ UNCHANGED <<total, desired, working, timed, canceled, destroyed, shutdown>>
  BY ClientUnmoved DEF ExecuteJob, Inv, AllJobs
<1>2. CASE jobs' = [jobs EXCEPT ![Prio[x]] = <<x>> \o @] /\ UNCHANGED <<inline, runs>>
  BY <1>1, <1>2, QueueStep
<1>3. CASE inline' = inline \cup {x} /\ runs' = [runs EXCEPT ![x] = @ + 1] /\ UNCHANGED jobs
  <2>1. Counted' /\ Holding' /\ worker' \in [Workers -> Worker]
        /\ \A j : Cardinality(Holds(j))' = Cardinality(Holds(j))
    BY <1>1, UnmovedStep
  <2>2. \A j \in AllJobs : Queued(j)' = Queued(j)
    BY <1>3, QueuedKept
  <2>3. Queued(x) = 0 /\ x \notin timed /\ x \notin inline /\ runs[x] = 0
    BY <1>1, Exclusion DEF Inv, Bounded
  <2>4. OneOwner'
    <3>1. ASSUME NEW j \in AllJobs
          PROVE  Cardinality(Holds(j))' + Queued(j)' + Has(fresh', j)
                   + Has(timed', j) + Has(inline', j) + destroyed'[j]
                 = Cardinality(Holds(j)) + Queued(j) + Has(fresh, j)
                   + Has(timed, j) + Has(inline, j) + destroyed[j]
      <4>1. Is(x, j) \in {0, 1} /\ Has(fresh', j) \in {0, 1} /\ Has(inline', j) \in {0, 1}
        BY DEF Is, Has
      <4>2. Has(fresh', j) + Is(x, j) = Has(fresh, j)
        BY <1>1, HasLess
      <4>3. Has(inline', j) = Has(inline, j) + Is(x, j)
        BY <1>3, <2>3, HasMore
      <4> QED
        BY <1>1, <2>1, <2>2, <4>1, <4>2, <4>3, NumberTypes DEF Inv
    <3> QED
      BY <3>1, Balance DEF Inv
  <2>5. runs' \in [AllJobs -> Nat] /\ runs'[x] = 1
        /\ \A j \in AllJobs \ {x} : runs'[j] = runs[j]
    BY <1>1, <1>3, <2>3 DEF Inv, Types
  <2>6. Bounded'
    BY <1>1, <1>3, <2>2, <2>3, <2>5, ProcessorAssumption DEF Inv, Bounded
  <2>7. Types'
    BY <1>1, <1>3, <2>1, <2>5 DEF Inv, Types
  <2> QED
    BY <1>3, <2>1, <2>4, <2>6, <2>7 DEF Inv, Sorted
<1> QED
  BY <1>2, <1>3 DEF ExecuteJob

LEMMA ReturnInlineStep ==
  ASSUME Inv, NEW x \in Jobs, ReturnInline(x)
  PROVE  Inv'
<1>1. x \in inline /\ inline' = inline \ {x} /\ x \in AllJobs
      /\ destroyed' = [destroyed EXCEPT ![x] = @ + 1]
      /\ UNCHANGED <<worker, total, desired, working, jobs, fresh, timed, canceled,
                     runs, shutdown>>
  BY DEF ReturnInline, AllJobs
<1>2. Unmoved
  BY <1>1 DEF Unmoved, Kept, Inv, Types
<1>3. Counted' /\ Holding' /\ \A j : Cardinality(Holds(j))' = Cardinality(Holds(j))
  BY <1>1, <1>2, UnmovedStep
<1>4. \A j \in AllJobs : Queued(j)' = Queued(j)
  BY <1>1, QueuedKept
<1>5. OneOwner'
  <2>1. ASSUME NEW j \in AllJobs
        PROVE  Cardinality(Holds(j))' + Queued(j)' + Has(fresh', j)
                 + Has(timed', j) + Has(inline', j) + destroyed'[j]
               = Cardinality(Holds(j)) + Queued(j) + Has(fresh, j)
                 + Has(timed, j) + Has(inline, j) + destroyed[j]
    <3>1. Is(x, j) \in {0, 1} /\ Has(inline', j) \in {0, 1}
      BY DEF Is, Has
    <3>2. Has(inline', j) + Is(x, j) = Has(inline, j)
      BY <1>1, HasLess
    <3>3. destroyed'[j] = destroyed[j] + Is(x, j)
      BY <1>1, DestroyedMore DEF Inv
    <3> QED
      BY <1>1, <1>3, <1>4, <3>1, <3>2, <3>3, NumberTypes DEF Inv
  <2> QED
    BY <2>1, Balance DEF Inv
<1>6. Bounded'
  BY <1>1, <1>4, BoundedKept DEF Inv
<1>7. Types'
  BY <1>1 DEF Inv, Types
<1> QED
  BY <1>1, <1>3, <1>5, <1>6, <1>7 DEF Inv, Sorted

\* set_threads() adds the threads of new.
LEMMA ResizeStep ==
  ASSUME Inv, NEW n \in 0..Cardinality(Workers), Resize(n),
         shutdown' \in {shutdown, "begun"}
  PROVE  Inv'
<1> DEFINE v(new) == [w \in Workers |->
                        IF w \in new THEN [worker[w] EXCEPT !.pc = "ready"] ELSE worker[w]]
<1>1. PICK new \in SUBSET In("none") :
        Cardinality(new) = total' - total /\ worker' = AllWoken(v(new))
  BY DEF Resize, kSubset
<1>2. UNCHANGED <<working, jobs, fresh, timed, inline, canceled, destroyed, runs>>
      /\ desired' \in 0..Cardinality(Workers)
  BY DEF Resize, Inv, Types
<1>3. v(new) \in [Workers -> Worker]
  BY DEF Inv, Types, Worker, In
<1>4. /\ worker' \in [Workers -> Worker]
      /\ \A u \in Workers : /\ worker'[u].job = worker[u].job
                            /\ u \in new => worker[u].pc = "none" /\ worker'[u].pc = "ready"
                            /\ u \notin new => \/ worker'[u].pc = worker[u].pc
                                               \/ worker[u].pc = "wait" /\ worker'[u].pc = "ready"
  <2>1. \A u \in Workers : /\ v(new)[u].job = worker[u].job
                           /\ u \in new => worker[u].pc = "none" /\ v(new)[u].pc = "ready"
                           /\ u \notin new => v(new)[u] = worker[u]
    BY DEF Inv, Types, Worker, In
  <2> HIDE DEF v
  <2> QED
    BY <1>1, <1>3, <2>1, WokenKeeps
<1> HIDE DEF v
<1>5. Alive' = Alive \cup new /\ Alive \cap new = {} /\ new \subseteq Workers
  BY <1>1, <1>4 DEF Alive, In
<1>6. /\ \A i : Serving(i)' = Serving(i)
      /\ In("exec")' = In("exec") /\ \A j : Holds(j)' = Holds(j)
  BY <1>4 DEF Serving, In, Holds
<1>7. Counted'
  <2>1. IsFiniteSet(Alive) /\ IsFiniteSet(new)
    BY <1>5, ProcessorAssumption, FS_Subset DEF Alive
  <2>2. Cardinality(Alive \cup new) = Cardinality(Alive) + Cardinality(new)
    <3>1. Cardinality(Alive \cap new) = 0
      BY <1>5, FS_EmptySet
    <3> QED
      <4>1. Cardinality(Alive \cup new)
              = Cardinality(Alive) + Cardinality(new) - Cardinality(Alive \cap new)
        BY <2>1, FS_Union
      <4>2. Cardinality(Alive) \in Nat /\ Cardinality(new) \in Nat
        BY <2>1, FS_CardinalityType
      <4> QED
        BY <3>1, <4>1, <4>2
  <2>3. total' = Cardinality(Alive)'
    <3>1. Cardinality(Alive) \in Nat /\ total = Cardinality(Alive)
      BY <2>1, FS_CardinalityType DEF Inv, Counted
    <3>2. total' \in Nat
      BY <3>1 DEF Resize
    <3> QED
      BY <1>1, <1>5, <2>2, <3>1, <3>2
  <2>4. SumOver(working, Prios)' = SumOver(working, Prios)
    BY <1>2 DEF SumOver
  <2> QED
    BY <1>2, <1>6, <2>3, <2>4 DEF Inv, Counted
<1>8. Holding'
  BY <1>4 DEF Inv, Holding
<1>9. \A j \in AllJobs : Queued(j)' = Queued(j)
  BY <1>2, QueuedKept
<1>10. OneOwner'
  BY <1>2, <1>6, <1>9, Balance DEF Inv
<1>11. Bounded'
  BY <1>2, <1>9, BoundedKept DEF Inv
<1>12. Types'
  BY <1>2, <1>4 DEF Inv, Types
<1> QED
  BY <1>2, <1>7, <1>8, <1>10, <1>11, <1>12 DEF Inv, Sorted

\* cancel() marks workers and wakes them.
LEMMA CancelStep ==
  ASSUME Inv, CancelAll \/ CancelAgain
  PROVE  Inv'
<1>1. /\ UNCHANGED <<total, working, jobs, fresh, timed, inline, destroyed, runs>>
      /\ desired' \in {0, desired} /\ shutdown' \in {"wait", "woken"}
      /\ canceled' \subseteq AllJobs
  <2>1. \A w \in Blocking : worker[w].job \in AllJobs
    BY DEF Blocking, In, Inv, Types, Worker, Holding
  <2> QED
    BY <2>1 DEF CancelAll, CancelAgain, Inv, Types
<1>2. Unmoved
  <2>1. CASE CancelAgain
    BY <2>1, ClientUnmoved DEF CancelAgain, Inv
  <2>2. CASE CancelAll
    <3>1. PICK v : v = [w \in Workers |->
             IF w \in Blocking /\ Cancel[worker[w].job] = "thread"
             THEN [worker[w] EXCEPT !.cancelled = TRUE] ELSE worker[w]]
      OBVIOUS
    <3>2. v \in [Workers -> Worker]
          /\ \A u \in Workers : v[u].job = worker[u].job /\ v[u].pc = worker[u].pc
      BY <3>1 DEF Inv, Types, Worker
    <3>3. worker' = AllWoken(v)
      BY <2>2, <3>1 DEF CancelAll
    <3> QED
      BY <3>2, <3>3, WokenKeeps DEF Unmoved, Kept
  <2> QED
    BY <2>1, <2>2
<1>3. Counted' /\ Holding' /\ worker' \in [Workers -> Worker]
      /\ \A j : Cardinality(Holds(j))' = Cardinality(Holds(j))
  BY <1>1, <1>2, UnmovedStep
<1>4. \A j \in AllJobs : Queued(j)' = Queued(j)
  BY <1>1, QueuedKept
<1>5. OneOwner'
  BY <1>1, <1>3, <1>4, Balance DEF Inv
<1>6. Bounded'
  BY <1>1, <1>4, BoundedKept DEF Inv
<1>7. Types'
  <2>1. Cardinality(Workers) \in Nat
    BY ProcessorAssumption, FS_CardinalityType
  <2> QED
    BY <1>1, <1>3, <2>1 DEF Inv, Types
<1> QED
  BY <1>1, <1>3, <1>5, <1>6, <1>7 DEF Inv, Sorted

\* The jobs that are left are destroyed.
LEMMA DrainStep ==
  ASSUME Inv, NEW dropped, dropped \in {{}, timed}, Drain(dropped),
         timed' = timed \ dropped, shutdown' \in {"done", "end"},
         UNCHANGED <<worker, total, desired, working, fresh, inline, canceled, runs>>
  PROVE  Inv'
<1>1. jobs' \in [Prios -> Seq(AllJobs)] /\ \A j : Queued(j)' = 0
  BY Emptied DEF Drain
<1>2. ASSUME NEW j \in AllJobs
      PROVE  destroyed'[j] = destroyed[j] + Queued(j) + Has(dropped, j)
  BY DEF Drain, Has
<1>3. destroyed' \in [AllJobs -> Nat]
  <2>1. destroyed' = [j \in AllJobs |-> destroyed'[j]]
    BY DEF Drain
  <2>2. \A j \in AllJobs : destroyed'[j] \in Nat
    BY <1>2, NumberTypes DEF Inv, Has
  <2> QED
    BY <2>1, <2>2
<1>4. Unmoved
  BY DEF Unmoved, Kept, Inv, Types
<1>5. Counted' /\ Holding' /\ \A j : Cardinality(Holds(j))' = Cardinality(Holds(j))
  BY <1>4, UnmovedStep
<1>6. OneOwner'
  <2>1. ASSUME NEW j \in AllJobs
        PROVE  Cardinality(Holds(j))' + Queued(j)' + Has(fresh', j)
                 + Has(timed', j) + Has(inline', j) + destroyed'[j]
               = Cardinality(Holds(j)) + Queued(j) + Has(fresh, j)
                 + Has(timed, j) + Has(inline, j) + destroyed[j]
    <3>1. Has(timed, j) = Has(timed', j) + Has(dropped, j)
          /\ Has(timed', j) \in {0, 1} /\ Has(dropped, j) \in {0, 1}
      <4>1. CASE dropped = {}
        BY <4>1 DEF Has
      <4>2. CASE dropped = timed
        BY <4>2 DEF Has
      <4> QED
        BY <4>1, <4>2
    <3>2. Has(fresh', j) = Has(fresh, j) /\ Has(inline', j) = Has(inline, j) /\ Queued(j)' = 0
          /\ destroyed'[j] = destroyed[j] + Queued(j) + Has(dropped, j)
          /\ Cardinality(Holds(j))' = Cardinality(Holds(j))
      BY <1>1, <1>2, <1>5
    <3>3. /\ Cardinality(Holds(j)) \in Nat /\ Queued(j) \in Nat /\ destroyed[j] \in Nat
          /\ Has(fresh, j) \in {0, 1} /\ Has(inline, j) \in {0, 1}
      BY NumberTypes DEF Inv
    <3> QED
      BY <3>1, <3>2, <3>3
  <2> QED
    BY <2>1, Balance DEF Inv
<1>7. Bounded'
  <2>1. \A j \in AllJobs : ~(Queued(j)' > 0)
    BY <1>1
  <2> QED
    BY <2>1, BoundedKept DEF Inv
<1>8. Sorted'
  BY DEF Drain, Sorted
<1>9. Types'
  BY <1>1, <1>3 DEF Inv, Types
<1> QED
  BY <1>5, <1>6, <1>7, <1>8, <1>9 DEF Inv

LEMMA EndStep ==
  ASSUME Inv, CancelDone \/ Deinit
  PROVE  Inv'
<1>1. CASE CancelDone
  BY <1>1, DrainStep DEF CancelDone
<1>2. CASE Deinit
  BY <1>2, DrainStep DEF Deinit
<1> QED
  BY <1>1, <1>2

-----------------------------------------------------------------------------
(* The invariant.                                                            *)

LEMMA InitInv ==
  ASSUME Init
  PROVE  Inv
<1>1. /\ worker = [w \in Workers |-> [pc |-> "none", job |-> Nothing, cancelled |-> FALSE]]
      /\ total = 0 /\ desired = 0 /\ working = [i \in Prios |-> 0]
      /\ jobs = [i \in Prios |-> IF i = 0 THEN <<Scheduler>> ELSE <<>>]
      /\ fresh = Jobs /\ timed = {} /\ inline = {} /\ canceled = {}
      /\ destroyed = [j \in AllJobs |-> 0] /\ runs = [j \in AllJobs |-> 0] /\ shutdown = "no"
  BY DEF Init
<1>2. Types
  <2>1. Cardinality(Workers) \in Nat
    BY ProcessorAssumption, FS_CardinalityType
  <2>2. jobs \in [Prios -> Seq(AllJobs)]
    <3>1. Scheduler \in AllJobs
      BY DEF AllJobs
    <3>2. <<Scheduler>> \in Seq(AllJobs) /\ <<>> \in Seq(AllJobs)
      BY <3>1
    <3> QED
      BY <1>1, <3>2
  <2>3. worker \in [Workers -> Worker]
    BY <1>1 DEF Worker
  <2>4. desired \in 0..Cardinality(Workers) /\ working \in [Prios -> Nat]
        /\ destroyed \in [AllJobs -> Nat] /\ runs \in [AllJobs -> Nat]
    BY <1>1, <2>1
  <2>5. fresh \subseteq Jobs /\ timed \subseteq Jobs /\ inline \subseteq Jobs
        /\ canceled \subseteq AllJobs /\ shutdown = "no"
    BY <1>1
  <2> QED
    BY <2>2, <2>3, <2>4, <2>5 DEF Types
<1>3. Holding
  BY <1>1 DEF Holding
<1>4. Sorted
  BY <1>1, ProcessorAssumption DEF Sorted
<1>5. Counted
  <2>1. Alive = {} /\ In("exec") = {} /\ \A i : Serving(i) = {}
    BY <1>1 DEF Alive, In, Serving
  <2>2. \A i \in Prios : working[i] = 0
    BY <1>1
  <2>3. SumOver(working, Prios) = 0
    BY <2>2, SumZero
  <2>4. Cardinality({}) = 0
    BY FS_EmptySet
  <2> QED
    BY <1>1, <2>1, <2>2, <2>3, <2>4 DEF Counted
<1>6. ASSUME NEW j \in AllJobs PROVE Queued(j) = Is(Scheduler, j)
  <2>1. PICK f : f = [i \in Prios |-> <<>>]
    OBVIOUS
  <2>2. 0 \in Prios /\ Scheduler \in AllJobs
    BY ProcessorAssumption DEF AllJobs
  <2>3. f \in [Prios -> Seq(AllJobs)] /\ f[0] = <<>>
    BY <2>1, <2>2
  <2>4. SumOver(Lengths(f, j), Prios) = 0
    <3>1. \A i \in Prios : Lengths(f, j)[i] = 0
      BY <2>1, FS_EmptySet DEF Lengths, Count, At
    <3> QED
      BY <3>1, SumZero
  <2>5. jobs[0] = Append(f[0], Scheduler) /\ f[0] \in Seq(AllJobs)
    BY <1>1, <2>2, <2>3
  <2>6. Count(jobs[0], j) = Count(f[0], j) + Is(Scheduler, j)
    <3>1. Count(Append(f[0], Scheduler), j) = Count(f[0], j) + Is(Scheduler, j)
      BY <2>2, <2>5, CountAppend
    <3> QED
      BY <2>5, <3>1
  <2>7. Adds(f, jobs, 0, Scheduler, j)
    <3>1. \A h \in Prios \ {0} : jobs[h] = f[h]
      BY <1>1, <2>1
    <3> QED
      BY <1>2, <2>2, <2>3, <2>6, <3>1 DEF Adds, Types
  <2>8. SumOver(Lengths(jobs, j), Prios) = 0 + Is(Scheduler, j)
    BY <2>4, <2>7, Longer
  <2> QED
    BY <2>8, QueuedSum DEF Is
<1>7. OneOwner
  <2> SUFFICES ASSUME NEW j \in AllJobs PROVE Owners(j) = 1
    BY DEF OneOwner
  <2>1. Cardinality(Holds(j)) = 0
    <3>1. Holds(j) = {}
      BY <1>1, ProcessorAssumption DEF Holds
    <3> QED
      BY <3>1, FS_EmptySet
  <2>2. Has(timed, j) = 0 /\ Has(inline, j) = 0 /\ destroyed[j] = 0
    BY <1>1 DEF Has
  <2>3. Has(fresh, j) = 1 - Is(Scheduler, j) /\ Is(Scheduler, j) \in {0, 1}
    BY <1>1, ProcessorAssumption DEF Has, Is, AllJobs
  <2> QED
    BY <1>6, <2>1, <2>2, <2>3, OwnersAre
<1>8. Bounded
  BY <1>1, ProcessorAssumption DEF Bounded
<1> QED
  BY <1>2, <1>3, <1>4, <1>5, <1>7, <1>8 DEF Inv

LEMMA Step ==
  ASSUME Inv, [Next]_vars
  PROVE  Inv'
<1>1. ASSUME NEW w \in Workers,
             \/ Leave(w) \/ Begin(w) \/ Rest(w) \/ Clean(w) \/ Unwind(w) \/ Restart(w)
             \/ \E r \in {"none", "fair", "schedule"} : Return(w, r)
      PROVE  Inv'
  BY <1>1, LeaveStep, BeginStep, RestStep, CleanStep, UnwindStep, RestartStep, ReturnStep
<1>2. ASSUME NEW j \in Jobs,
             QueueJob(j) \/ ExecuteJob(j) \/ ReturnInline(j) \/ Expire(j)
      PROVE  Inv'
  BY <1>2, QueueJobStep, ExecuteJobStep, ReturnInlineStep
<1>3. ASSUME NEW n \in Counts, SetThreads(n)
      PROVE  Inv'
  <2>1. n \in 0..Cardinality(Workers)
    BY ProcessorAssumption, FS_CardinalityType
  <2> QED
    BY <1>3, <2>1, ResizeStep DEF SetThreads
<1>4. CASE Disable
  <2>1. 0 \in 0..Cardinality(Workers)
    BY ProcessorAssumption, FS_CardinalityType
  <2> QED
    BY <1>4, <2>1, ResizeStep DEF Disable
<1>5. CASE CancelAll \/ CancelAgain \/ CancelDone \/ Deinit
  BY <1>5, CancelStep, EndStep
<1>6. CASE UNCHANGED vars
  <2>1. UNCHANGED <<worker, total, desired, working, jobs, fresh, timed, inline, canceled,
                    destroyed, runs, shutdown>>
    BY <1>6 DEF vars
  <2>2. Unmoved
    BY <2>1 DEF Unmoved, Kept, Inv, Types
  <2>3. Counted' /\ Holding' /\ \A j : Cardinality(Holds(j))' = Cardinality(Holds(j))
    BY <2>1, <2>2, UnmovedStep
  <2>4. \A j \in AllJobs : Queued(j)' = Queued(j)
    BY <2>1, QueuedKept
  <2>5. OneOwner'
    BY <2>1, <2>3, <2>4, Balance DEF Inv
  <2>6. Bounded'
    BY <2>1, <2>4, BoundedKept DEF Inv
  <2>7. Types' /\ Sorted'
    BY <2>1 DEF Inv, Types, Sorted
  <2> QED
    BY <2>3, <2>5, <2>6, <2>7 DEF Inv
<1> QED
  BY <1>1, <1>2, <1>3, <1>4, <1>5, <1>6 DEF Next, Ended

LEMMA InvCorrect == Spec => []Inv
<1>1. Init => Inv
  BY InitInv
<1>2. Inv /\ [Next]_vars => Inv'
  BY Step
<1> QED
  BY <1>1, <1>2, PTL DEF Spec

\* A job always has exactly one owner: no thread executes a job that another
\* thread executes or has destroyed, none is destroyed twice and none is lost,
\* whatever process_jobs(), restart(), the scheduler and cancel() do at once.
THEOREM JobsHaveOneOwner == Spec => []OneOwner
<1>1. Inv => OneOwner
  BY DEF Inv
<1> QED
  BY <1>1, InvCorrect, PTL

\* The counters of threads stay within the number of workers, no job is
\* destroyed twice or executed more often than it may be.
THEOREM ProcessorTyped == Spec => []TypeOK
<1>1. Inv => TypeOK
  <2> SUFFICES ASSUME Inv PROVE TypeOK
    OBVIOUS
  <2>1. Types
    BY DEF Inv
  <2>2. Cardinality(Workers) \in Nat /\ total \in 0..Cardinality(Workers)
    <3>1. Alive \in SUBSET Workers
      BY DEF Alive
    <3> QED
      BY <3>1, ProcessorAssumption, FS_Subset, FS_CardinalityType DEF Inv, Counted
  <2>3. working \in [Prios -> 0..Cardinality(Workers)]
    <3>1. ASSUME NEW i \in Prios PROVE working[i] \in 0..Cardinality(Workers)
      <4>1. Serving(i) \in SUBSET Workers
        BY DEF Serving
      <4> QED
        BY <4>1, ProcessorAssumption, FS_Subset, FS_CardinalityType DEF Inv, Counted
    <3> QED
      BY <2>1, <3>1 DEF Types
  <2>4. destroyed \in [AllJobs -> 0..1]
    <3>1. \A j \in AllJobs : destroyed[j] \in 0..1
      BY Exclusion DEF Inv
    <3> QED
      BY <2>1, <3>1 DEF Types
  <2>5. runs \in [AllJobs -> 0..MaxRuns]
    <3>1. \A j \in AllJobs : runs[j] \in 0..MaxRuns
      BY ProcessorAssumption DEF Inv, Types, Bounded
    <3> QED
      BY <2>1, <3>1 DEF Types
  <2> QED
    BY <2>1, <2>2, <2>3, <2>4, <2>5 DEF Types, TypeOK, Worker
<1> QED
  BY <1>1, InvCorrect, PTL

-----------------------------------------------------------------------------
(* Threads reserved for critical jobs.                                       *)

SpareAt(i) == IF working[i] < Reserved[i] THEN Reserved[i] - working[i] ELSE 0
Busy == SumOver(working, Prios)

LEMMA SumSingle ==
  ASSUME NEW n, NEW i, n[i] \in Nat
  PROVE  SumOver(n, {i}) = n[i]
<1>1. SumOver(n, {i}) = Cardinality({i} \X (1..n[i]))
  <2>1. Pairs(n, {i}) = {i} \X (1..n[i])
    BY DEF Pairs
  <2> QED
    BY <2>1 DEF SumOver, Pairs
<1>2. IsFiniteSet({i}) /\ Cardinality({i}) = 1
  BY FS_Singleton
<1>3. IsFiniteSet(1..n[i]) /\ Cardinality(1..n[i]) = n[i]
  BY FS_Interval
<1>4. Cardinality({i} \X (1..n[i])) = Cardinality({i}) * Cardinality(1..n[i])
  <2>1. \A S, T : IsFiniteSet(S) /\ IsFiniteSet(T)
          => Cardinality(S \X T) = Cardinality(S) * Cardinality(T)
    BY FS_Product, Zenon
  <2> QED
    BY <1>2, <1>3, <2>1, Zenon
<1>5. Cardinality({i} \X (1..n[i])) = 1 * n[i]
  BY <1>2, <1>3, <1>4, Zenon
<1> QED
  BY <1>1, <1>5

LEMMA SpareValues ==
  ASSUME working \in [Prios -> Nat]
  PROVE  /\ 0 \in Prios /\ SpareAt(0) \in Nat /\ Spare({0}) = SpareAt(0)
         /\ \A i \in Prios \ {0} : Spare(0..(i - 1)) \in Nat /\ SpareAt(0) =< Spare(0..(i - 1))
<1>1. 0 \in Prios /\ Prios \subseteq Nat /\ Reserved \in [Prios -> Nat]
      /\ \A i \in Prios : 0..(i - 1) \subseteq Prios
  <2>1. PICK c \in Nat : Prios = 0..(c - 1)
    BY ProcessorAssumption, FS_CardinalityType
  <2>2. 0 \in Prios
    BY ProcessorAssumption DEF AllJobs
  <2> QED
    BY <2>1, <2>2, ProcessorAssumption
<1>2. \A i \in Prios : SpareAt(i) \in Nat
  BY <1>1 DEF SpareAt
<1>3. Spare({0}) = SpareAt(0)
  <2>1. PICK n : n = [i \in {0} |-> IF working[i] < Reserved[i]
                                    THEN Reserved[i] - working[i] ELSE 0]
    OBVIOUS
  <2>2. n[0] = SpareAt(0) /\ Spare({0}) = SumOver(n, {0})
    BY <2>1 DEF SpareAt, Spare
  <2> QED
    BY <1>1, <1>2, <2>2, SumSingle
<1>4. ASSUME NEW i \in Prios \ {0}
      PROVE  Spare(0..(i - 1)) \in Nat /\ SpareAt(0) =< Spare(0..(i - 1))
  <2>1. PICK ps : ps = 0..(i - 1)
    OBVIOUS
  <2>2. PICK n : n = [h \in ps |-> IF working[h] < Reserved[h]
                                   THEN Reserved[h] - working[h] ELSE 0]
    OBVIOUS
  <2>3. Spare(0..(i - 1)) = SumOver(n, ps)
    BY <2>1, <2>2 DEF Spare
  <2>4. IsFiniteSet(ps) /\ 0 \in ps /\ ps \subseteq Prios
    BY <1>1, <2>1, FS_Interval
  <2>5. n[0] = SpareAt(0) /\ \A h \in ps : n[h] \in Nat
    BY <1>2, <2>2, <2>4 DEF SpareAt
  <2>6. SumOver(n, {0}) = SpareAt(0)
    BY <1>1, <1>2, <2>5, SumSingle
  <2>7. SumOver(n, {0}) =< SumOver(n, ps)
    BY <2>4, <2>5, SumPart
  <2>8. SumOver(n, ps) \in Nat
    BY <2>4, <2>5, PairsFinite
  <2> QED
    BY <2>3, <2>6, <2>7, <2>8
<1> QED
  BY <1>1, <1>2, <1>3, <1>4

\* Threads at work are among those that exist.
LEMMA BusyAlive ==
  ASSUME Types, Counted
  PROVE  /\ Busy \in Nat /\ total \in Nat /\ Busy =< total /\ 0 \in Prios
         /\ working[0] \in Nat /\ working[0] =< Busy
         /\ (\E w \in Workers : worker[w].pc = "ready") => Busy < total
         /\ \A w \in Workers : worker[w].pc = "exec" /\ Prio[worker[w].job] # 0
              => working[0] < Busy
<1>1. /\ Busy = Cardinality(In("exec")) /\ total = Cardinality(Alive)
      /\ 0 \in Prios /\ working[0] = Cardinality(Serving(0))
  BY ProcessorAssumption DEF Counted, Busy, AllJobs
<1>2. In("exec") \subseteq Alive /\ Serving(0) \subseteq In("exec") /\ Alive \subseteq Workers
  BY DEF In, Alive, Serving
<1>3. IsFiniteSet(Alive)
  BY <1>2, ProcessorAssumption, FS_Subset
<1>4. IsFiniteSet(In("exec")) /\ Cardinality(In("exec")) =< Cardinality(Alive)
      /\ (Cardinality(Alive) = Cardinality(In("exec")) => Alive = In("exec"))
  BY <1>2, <1>3, FS_Subset
<1>5. IsFiniteSet(Serving(0)) /\ Cardinality(Serving(0)) =< Cardinality(In("exec"))
      /\ (Cardinality(In("exec")) = Cardinality(Serving(0)) => In("exec") = Serving(0))
  BY <1>2, <1>4, FS_Subset
<1>6. Cardinality(Alive) \in Nat /\ Cardinality(In("exec")) \in Nat
      /\ Cardinality(Serving(0)) \in Nat
  BY <1>3, <1>4, <1>5, FS_CardinalityType
<1>7. (\E w \in Workers : worker[w].pc = "ready") => Alive # In("exec")
  BY DEF Alive, In
<1>8. \A w \in Workers : worker[w].pc = "exec" /\ Prio[worker[w].job] # 0
        => In("exec") # Serving(0)
  BY DEF In, Serving
<1> QED
  BY <1>1, <1>4, <1>5, <1>6, <1>7, <1>8

\* Either only critical jobs are at work, or as many threads are idle as are
\* reserved.  While the pool is not shut down its threads are all wanted.
Critical ==
  /\ shutdown = "no" => desired = total /\ (Busy = working[0] \/ Idle >= SpareAt(0))
  /\ shutdown # "no" => desired = 0

\* The pool is not made smaller, unless it is shut down.
Growing == shutdown' = "no" => desired' >= desired

LEMMA CriticalEnough ==
  ASSUME Inv, Critical
  PROVE  CriticalReserved
<1> SUFFICES ASSUME desired >= total, total >= Reserved[0] PROVE Idle >= Spare({0})
  BY DEF CriticalReserved
<1>1. /\ Busy \in Nat /\ total \in Nat /\ Busy =< total /\ 0 \in Prios
      /\ working[0] \in Nat /\ working[0] =< Busy
  BY BusyAlive DEF Inv
<1>2. SpareAt(0) \in Nat /\ Spare({0}) = SpareAt(0) /\ Idle = total - Busy
  BY SpareValues DEF Inv, Types, Idle, Busy
<1>3. Reserved[0] \in Nat
  BY <1>1, ProcessorAssumption
<1>4. CASE Busy = working[0] \/ total = 0
  BY <1>1, <1>2, <1>3, <1>4 DEF SpareAt
<1>5. CASE shutdown = "no" /\ Idle >= SpareAt(0)
  BY <1>2, <1>5
<1> QED
  BY <1>1, <1>4, <1>5 DEF Critical

\* A step that leaves the numbers alone.
LEMMA CriticalKept ==
  ASSUME Critical, UNCHANGED <<working, total, desired, shutdown>>
  PROVE  Critical'
<1>1. Busy' = Busy
  BY DEF Busy, SumOver
<1>2. Idle' = Idle
  BY DEF Idle, SumOver
<1> QED
  BY <1>1, <1>2 DEF Critical, SpareAt

LEMMA CriticalBegin ==
  ASSUME Inv, Inv', Critical, NEW w \in Workers, Begin(w)
  PROVE  Critical'
<1>1. PICK i \in Prios :
        Eligible(i) /\ working' = [working EXCEPT ![i] = @ + 1]
  BY DEF Begin
<1>2. UNCHANGED <<total, desired, shutdown>> /\ worker[w].pc = "ready"
  BY DEF Begin
<1>3. CASE shutdown # "no"
  BY <1>2, <1>3 DEF Critical
<1>4. CASE shutdown = "no"
  <2>1. /\ Busy \in Nat /\ total \in Nat /\ Busy < total /\ 0 \in Prios
        /\ working[0] \in Nat /\ Reserved[0] \in Nat
    BY <1>2, BusyAlive, ProcessorAssumption DEF Inv
  <2>2. Busy' = Busy + 1
    <3>1. working'[i] = working[i] + 1 /\ (\A h \in Prios \ {i} : working'[h] = working[h])
          /\ (\A h \in Prios : working[h] \in Nat) /\ IsFiniteSet(Prios)
      BY <1>1, ProcessorAssumption DEF Inv, Types
    <3>2. SumOver(working', Prios) = SumOver(working, Prios) + 1
      BY <3>1, SumMore
    <3> QED
      BY <3>2 DEF Busy
  <2>3. Idle = total - Busy /\ Idle' = total - (Busy + 1)
    BY <1>2, <2>2 DEF Idle, Busy
  <2>4. CASE i = 0
    <3>1. working'[0] = working[0] + 1
      BY <1>1, <2>1, <2>4 DEF Inv, Types
    <3>2. CASE Busy = working[0]
      BY <1>2, <1>4, <2>2, <3>1, <3>2 DEF Critical
    <3>3. CASE Idle >= SpareAt(0)
      <4>1. Idle' >= SpareAt(0)'
        BY <2>1, <2>3, <3>1, <3>3 DEF SpareAt
      <4> QED
        BY <1>2, <1>4, <4>1 DEF Critical
    <3> QED
      BY <1>4, <3>2, <3>3 DEF Critical
  <2>5. CASE i # 0
    <3>1. working'[0] = working[0]
      BY <1>1, <2>1, <2>5 DEF Inv, Types
    <3>2. Spare(0..(i - 1)) \in Nat /\ SpareAt(0) =< Spare(0..(i - 1)) /\ SpareAt(0) \in Nat
      BY <2>5, SpareValues DEF Inv, Types
    <3>3. Spare(0..(i - 1)) = 0 \/ Spare(0..(i - 1)) < Idle
      BY <1>1, <2>1, <2>3, <3>2 DEF Eligible, Delayed
    <3>4. SpareAt(0)' = SpareAt(0)
      BY <3>1 DEF SpareAt
    <3>5. Idle' >= SpareAt(0)'
      BY <2>1, <2>3, <3>2, <3>3, <3>4
    <3> QED
      BY <1>2, <1>4, <3>5 DEF Critical
  <2> QED
    BY <2>4, <2>5
<1> QED
  BY <1>3, <1>4

LEMMA CriticalEnd ==
  ASSUME Inv, Inv', Critical, NEW w \in Workers, worker[w].pc = "exec",
         working' = [working EXCEPT ![Prio[worker[w].job]] = @ - 1],
         UNCHANGED <<total, desired, shutdown>>
  PROVE  Critical'
<1>0. worker[w].job \in AllJobs
  BY DEF Inv, Types, Worker, Holding
<1>1. PICK i \in Prios : i = Prio[worker[w].job]
  BY <1>0, ProcessorAssumption
<1>3. CASE shutdown # "no"
  BY <1>3 DEF Critical
<1>4. CASE shutdown = "no"
  <2>1. /\ Busy \in Nat /\ total \in Nat /\ 0 \in Prios
        /\ working[0] \in Nat /\ Reserved[0] \in Nat
        /\ (i # 0 => working[0] < Busy)
    BY <1>1, BusyAlive, ProcessorAssumption DEF Inv
  <2>2. Busy = Busy' + 1 /\ Busy' \in Nat
    <3>1. working[i] = working'[i] + 1 /\ (\A h \in Prios \ {i} : working[h] = working'[h])
          /\ (\A h \in Prios : working'[h] \in Nat) /\ IsFiniteSet(Prios)
      <4>1. working \in [Prios -> Nat] /\ working' \in [Prios -> Nat]
            /\ working' = [working EXCEPT ![i] = @ - 1]
        BY <1>1 DEF Inv, Types
      <4> QED
        BY <4>1, ProcessorAssumption
    <3>2. SumOver(working, Prios) = SumOver(working', Prios) + 1
      BY <3>1, SumMore
    <3>3. SumOver(working', Prios) \in Nat
      BY <3>1, PairsFinite
    <3> QED
      BY <3>2, <3>3 DEF Busy
  <2>3. Idle = total - Busy /\ Idle' = total - Busy'
    BY DEF Idle, Busy
  <2>4. CASE i = 0
    <3>1. working'[0] = working[0] - 1
      BY <1>1, <2>1, <2>4 DEF Inv, Types
    <3>2. CASE Busy = working[0]
      BY <1>4, <2>1, <2>2, <3>1, <3>2 DEF Critical
    <3>3. CASE Idle >= SpareAt(0)
      <4>1. Idle' >= SpareAt(0)'
        BY <2>1, <2>2, <2>3, <3>1, <3>3 DEF SpareAt
      <4> QED
        BY <1>4, <4>1 DEF Critical
    <3> QED
      BY <1>4, <3>2, <3>3 DEF Critical
  <2>5. CASE i # 0
    <3>1. working'[0] = working[0]
      BY <1>1, <2>1, <2>5 DEF Inv, Types
    <3>2. SpareAt(0)' = SpareAt(0) /\ SpareAt(0) \in Nat
      BY <2>1, <3>1 DEF SpareAt
    <3>3. Idle >= SpareAt(0)
      BY <1>4, <2>1, <2>5 DEF Critical
    <3>4. Idle' >= SpareAt(0)'
      BY <2>1, <2>2, <2>3, <3>2, <3>3
    <3> QED
      BY <1>4, <3>4 DEF Critical
  <2> QED
    BY <2>4, <2>5
<1> QED
  BY <1>3, <1>4

LEMMA CriticalResize ==
  ASSUME Inv, Critical, NEW n \in 0..Cardinality(Workers), SetThreads(n), Growing
  PROVE  Critical'
<1>1. shutdown = "no" /\ shutdown' = "no" /\ UNCHANGED working
      /\ desired' = (IF n = total THEN desired ELSE n)
      /\ total' = (IF n > total THEN n ELSE total)
  BY DEF SetThreads, Resize
<1>2. Busy \in Nat /\ total \in Nat
  BY BusyAlive DEF Inv
<1>3. n \in Nat /\ desired = total
  BY <1>1, ProcessorAssumption, FS_CardinalityType DEF Critical
<1>4. desired' = total' /\ total' >= total
  BY <1>1, <1>2, <1>3 DEF Growing
<1>5. Busy' = Busy /\ Idle = total - Busy /\ Idle' = total' - Busy
  BY <1>1 DEF Busy, Idle, SumOver
<1>6. SpareAt(0)' = SpareAt(0)
  BY <1>1 DEF SpareAt
<1>7. CASE Busy = working[0]
  BY <1>1, <1>4, <1>5, <1>7 DEF Critical
<1>8. CASE Idle >= SpareAt(0)
  <2>1. SpareAt(0) \in Nat
    BY SpareValues DEF Inv, Types
  <2>2. Idle' >= SpareAt(0)'
    BY <1>1, <1>2, <1>3, <1>4, <1>5, <1>6, <1>8, <2>1
  <2> QED
    BY <1>1, <1>4, <2>2 DEF Critical
<1> QED
  BY <1>1, <1>7, <1>8 DEF Critical

LEMMA CriticalStep ==
  ASSUME Inv, Inv', Critical, [Next]_vars, [Growing]_vars
  PROVE  Critical'
<1>1. ASSUME NEW w \in Workers, Leave(w) PROVE Critical'
  <2>1. shutdown # "no"
    <3>1. desired < total /\ total \in Nat
      BY <1>1, BusyAlive DEF Leave, Inv
    <3> QED
      BY <3>1 DEF Critical
  <2>2. shutdown' # "no" /\ desired' = desired
    BY <1>1, <2>1 DEF Leave, Terminated
  <2> QED
    BY <2>1, <2>2 DEF Critical
<1>2. ASSUME NEW w \in Workers, Restart(w) PROVE Critical'
  <2>1. CASE desired >= total
    BY <1>2, <2>1, CriticalKept DEF Restart
  <2>2. CASE ~(desired >= total)
    <3>1. shutdown # "no"
      BY <2>2, BusyAlive DEF Critical, Inv
    <3>2. shutdown' # "no" /\ desired' = desired
      BY <1>2, <2>2, <3>1 DEF Restart, Terminated
    <3> QED
      BY <3>1, <3>2 DEF Critical
  <2> QED
    BY <2>1, <2>2
<1>3. ASSUME NEW w \in Workers, Begin(w) PROVE Critical'
  BY <1>3, CriticalBegin
<1>4. ASSUME NEW w \in Workers, NEW r, Return(w, r) PROVE Critical'
  BY <1>4, CriticalEnd DEF Return
<1>5. ASSUME NEW w \in Workers, Unwind(w) PROVE Critical'
  BY <1>5, CriticalEnd DEF Unwind
<1>6. ASSUME NEW w \in Workers, Rest(w) \/ Clean(w) PROVE Critical'
  BY <1>6, CriticalKept DEF Rest, Clean
<1>7. ASSUME NEW j \in Jobs, QueueJob(j) \/ ExecuteJob(j) \/ ReturnInline(j) \/ Expire(j)
      PROVE  Critical'
  BY <1>7, CriticalKept DEF QueueJob, ExecuteJob, ReturnInline, Expire
<1>8. ASSUME NEW n \in Counts, SetThreads(n) PROVE Critical'
  <2>1. n \in 0..Cardinality(Workers)
    BY ProcessorAssumption, FS_CardinalityType
  <2>2. CASE Growing
    BY <1>8, <2>1, <2>2, CriticalResize
  <2>3. CASE UNCHANGED vars
    BY <2>3, CriticalKept DEF vars
  <2> QED
    BY <2>2, <2>3
<1>9. CASE Disable
  <2>1. desired' = 0
    <3>1. desired = total
      BY <1>9 DEF Critical, Disable
    <3> QED
      BY <1>9, <3>1 DEF Disable, Resize
  <2> QED
    BY <1>9, <2>1 DEF Critical, Disable
<1>10. CASE CancelAll
  BY <1>10 DEF Critical, CancelAll
<1>11. CASE CancelAgain \/ CancelDone \/ Deinit
  BY <1>11 DEF Critical, CancelAgain, CancelDone, Deinit
<1>12. CASE UNCHANGED vars
  BY <1>12, CriticalKept DEF vars
<1> QED
  BY <1>1, <1>2, <1>3, <1>4, <1>5, <1>6, <1>7, <1>8, <1>9, <1>10, <1>11, <1>12
     DEF Next, Ended

\* Threads reserved for critical jobs are never taken by other jobs, with any
\* number of priorities and reservations, as long as set_threads() does not
\* make the pool smaller: get_job() holds back enough of them.
THEOREM CriticalAlwaysReserved ==
  Spec /\ [][Growing]_vars => []CriticalReserved
<1>1. Init => Critical
  <2> SUFFICES ASSUME Init PROVE Critical
    OBVIOUS
  <2>1. 0 \in Prios /\ working = [i \in Prios |-> 0] /\ shutdown = "no" /\ desired = total
    BY ProcessorAssumption DEF Init, AllJobs
  <2>2. Busy = 0
    BY <2>1, SumZero DEF Busy
  <2> QED
    BY <2>1, <2>2 DEF Critical
<1>2. Inv /\ Inv' /\ Critical /\ [Next]_vars /\ [Growing]_vars => Critical'
  BY CriticalStep
<1>3. Inv /\ Critical => CriticalReserved
  BY CriticalEnough
<1> QED
  BY <1>1, <1>2, <1>3, InvCorrect, PTL DEF Spec
=============================================================================
