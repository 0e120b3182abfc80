--------------------------- MODULE IkeRekeyProofs ---------------------------
(***************************************************************************)
(* Proofs about the rekeying of IKE_SAs, for any number of rekeyings and    *)
(* deletions by both peers.                                                 *)
(***************************************************************************)
EXTENDS IkeRekey, TLAPS

States == {"none", "held", "established", "rekeying", "rekeyed", "deleting", "gone"}
Tasks == {"none", "rekey", "rekdel", "delete"}
Kinds == {"rekey", "delete", "rekey_ok", "rekey_failed", "deleted"}

\* What a peer knows of an IKE_SA.
Info(p) ==
  [st : States, task : Tasks, new : New(p) \cup {NoSA},
   coll : New(Other(p)) \cup {NoSA}, met : BOOLEAN,
   queue : SUBSET {"rekey", "delete"}, rekeyed : BOOLEAN, job : BOOLEAN]

Messages == [to : Peers, sa : SAs, kind : Kinds, new : SAs \cup {NoSA}]

\* A peer that runs a handler.
Side(p) == [sa : [SAs -> Info(p)], kids : SAs \cup {NoSA},
            sent : SUBSET Messages, down : SUBSET SAs]

\* The IKE_SA is not more than a state.
Bare(i) ==
  /\ i.task = "none" /\ i.new = NoSA /\ i.coll = NoSA /\ ~i.met
  /\ i.queue = {} /\ ~i.rekeyed /\ ~i.job

\* IKE_SA s of f is in a state of its own: only one that is rekeyed has a rekey
\* task, and the new IKE_SAs of that task are held back.
Fine(f, s) ==
  /\ f[s].st \in {"none", "held", "gone"} => Bare(f[s])
  /\ f[s].st = "rekeying" <=> f[s].task = "rekey"
  /\ f[s].met => f[s].st \in {"rekeying", "deleting"}
  /\ f[s].new # NoSA => f[s].st = "rekeying" /\ f[f[s].new].st = "held"
  /\ f[s].coll # NoSA => f[s].st = "rekeying" /\ f[f[s].coll].st = "held"
  /\ f[s].st = "rekeying" => f[s].new # NoSA /\ (f[s].met => f[s].coll # NoSA)

\* No two tasks hold the same new IKE_SA.
Distinct(f) ==
  \A s, t \in SAs : s # t =>
    /\ f[s].new # NoSA => f[s].new # f[t].new
    /\ f[s].coll # NoSA => f[s].coll # f[t].coll

\* The IKE_SA with the CHILD_SAs was not replaced.
Parent(f, k) ==
  k # NoSA => f[k].st \in {"established", "rekeying", "deleting"} /\ ~f[k].rekeyed

\* A peer in the middle of a handler, the IKE_SAs S being dealt with.
Almost(p, x, S) ==
  /\ x \in Side(p) /\ Distinct(x.sa) /\ Parent(x.sa, x.kids)
  /\ \A t \in SAs \ S : Fine(x.sa, t)

Good(p, x) == Almost(p, x, {})

\* A request to rekey is the first that a peer hears of the new IKE_SA, and
\* there is only one.
Fresh ==
  /\ net \subseteq Messages
  /\ \A m \in net : m.kind = "rekey" =>
       /\ m.new \in New(Other(m.to)) /\ sa[m.to][m.new].st = "none"
       /\ sa[Other(m.to)][m.new].st # "none"
  /\ \A m, n \in net : m.kind = "rekey" /\ n.kind = "rekey" /\ m.new = n.new => m = n
  /\ \A p \in Peers : \A s \in New(p) :
       sa[p][s].st = "none" => sa[Other(p)][s].st = "none"

Shape == sa = [p \in Peers |-> sa[p]] /\ kids = [p \in Peers |-> kids[p]]
         /\ down = [p \in Peers |-> down[p]]

Inv == Shape /\ Fresh /\ \A p \in Peers : Good(p, Me(p))

-----------------------------------------------------------------------------
(* The constants.                                                            *)

LEMMA TwoPeers ==
  ASSUME NEW p \in Peers
  PROVE  Other(p) \in Peers /\ Other(p) # p /\ Other(Other(p)) = p
         /\ \A q \in Peers : q = p \/ q = Other(p)
<1>1. PICK a \in Peers, b \in Peers : a # b /\ Peers = {a, b}
  BY PeersAssumption
<1>2. ASSUME NEW q \in Peers PROVE Other(q) \in Peers /\ Other(q) # q
  BY <1>1 DEF Other
<1> QED
  BY <1>1, <1>2

LEMMA NewSAs ==
  ASSUME NEW p \in Peers
  PROVE  /\ New(p) \subseteq SAs /\ New(Other(p)) \subseteq SAs
         /\ First \notin New(p) /\ NoSA \notin SAs /\ First \in SAs
         /\ \A n \in New(p) : n \notin New(Other(p))
         /\ \A q \in Peers : \A n \in New(p) : n \in New(q) => p = q
<1>1. New(p) \subseteq SAs /\ New(Other(p)) \subseteq SAs /\ First \in SAs
  BY TwoPeers DEF SAs
<1>2. \A q \in Peers : \A n \in New(p) : n.by = p /\ n.n \in 1..MaxRekeys[p]
  BY DEF New
<1>3. \A q \in Peers : \A n \in New(p) : n \in New(q) => p = q
  BY DEF New
<1>4. \A q \in Peers : First \notin New(q) /\ NoSA \notin New(q)
  BY BoundsAssumption DEF New, First, NoSA
<1>5. First # NoSA
  BY DEF First, NoSA
<1>6. NoSA \notin SAs
  BY <1>4, <1>5 DEF SAs
<1> QED
  BY <1>1, <1>3, <1>4, <1>6, TwoPeers

-----------------------------------------------------------------------------
(* What the operators on a peer do, IKE_SA by IKE_SA.                        *)

\* What becomes of an IKE_SA i.
In(i, st) == [i EXCEPT !.st = st]
Deleting(i, task) ==
  [i EXCEPT !.task = task, !.st = "deleting", !.rekeyed = i.st \in {"rekeying", "rekeyed"},
            !.queue = i.queue \ {"delete"}]
Asking(i, n) ==
  [i EXCEPT !.task = "rekey", !.st = "rekeying", !.new = n, !.queue = i.queue \ {"rekey"}]
Aside(i) == [i EXCEPT !.queue = {}, !.st = "rekeyed"]
Heir(i, q) == [i EXCEPT !.st = "established", !.queue = q]
Ended(i) == [i EXCEPT !.task = "none", !.new = NoSA, !.coll = NoSA, !.met = FALSE]

LEMMA Becomes ==
  ASSUME NEW p \in Peers, NEW i \in Info(p)
  PROVE  /\ \A st \in States : In(i, st) \in Info(p)
         /\ \A task \in Tasks : Deleting(i, task) \in Info(p)
         /\ \A n \in New(p) : Asking(i, n) \in Info(p)
         /\ Aside(i) \in Info(p)
         /\ \A q \in SUBSET {"rekey", "delete"} : Heir(i, q) \in Info(p)
         /\ Ended(i) \in Info(p)
<1> DEFINE b == i.st \in {"rekeying", "rekeyed"}
<1>1. b \in BOOLEAN
  BY SMT
<1>2. /\ i.queue \ {"delete"} \in SUBSET {"rekey", "delete"}
      /\ i.queue \ {"rekey"} \in SUBSET {"rekey", "delete"}
  BY DEF Info
<1>3. ASSUME NEW task \in Tasks PROVE Deleting(i, task) \in Info(p)
  <2>1. Deleting(i, task) = [i EXCEPT !.task = task, !.st = "deleting", !.rekeyed = b,
                                      !.queue = i.queue \ {"delete"}]
    BY DEF Deleting
  <2> HIDE DEF b
  <2> QED
    BY <1>1, <1>2, <2>1 DEF Info, States
<1>4. \A n \in New(p) : Asking(i, n) \in Info(p)
  BY <1>2 DEF Asking, Info, States, Tasks
<1>5. \A st \in States : In(i, st) \in Info(p)
  BY DEF In, Info
<1>6. Aside(i) \in Info(p)
  BY DEF Aside, Info, States
<1>7. \A q \in SUBSET {"rekey", "delete"} : Heir(i, q) \in Info(p)
  BY DEF Heir, Info, States
<1>8. Ended(i) \in Info(p)
  BY DEF Ended, Info, Tasks
<1> QED
  BY <1>3, <1>4, <1>5, <1>6, <1>7, <1>8

LEMMA Becoming ==
  ASSUME NEW p \in Peers, NEW i \in Info(p)
  PROVE  /\ \A st : LET j == In(i, st) IN
              /\ j.st = st /\ j.task = i.task /\ j.new = i.new /\ j.coll = i.coll
              /\ j.met = i.met /\ j.job = i.job /\ j.rekeyed = i.rekeyed
              /\ j.queue = i.queue
         /\ \A task : LET j == Deleting(i, task) IN
              /\ j.st = "deleting" /\ j.task = task /\ j.new = i.new /\ j.coll = i.coll
              /\ j.met = i.met /\ j.job = i.job
              /\ i.st \notin {"rekeying", "rekeyed"} => ~j.rekeyed
         /\ \A n : LET j == Asking(i, n) IN
              /\ j.st = "rekeying" /\ j.task = "rekey" /\ j.new = n /\ j.coll = i.coll
              /\ j.met = i.met /\ j.job = i.job /\ j.rekeyed = i.rekeyed
         /\ LET j == Aside(i) IN
              /\ j.st = "rekeyed" /\ j.task = i.task /\ j.new = i.new /\ j.coll = i.coll
              /\ j.met = i.met /\ j.job = i.job /\ j.rekeyed = i.rekeyed
         /\ \A q : LET j == Heir(i, q) IN
              /\ j.st = "established" /\ j.task = i.task /\ j.new = i.new /\ j.coll = i.coll
              /\ j.met = i.met /\ j.job = i.job /\ j.rekeyed = i.rekeyed
         /\ LET j == Ended(i) IN
              /\ j.st = i.st /\ j.task = "none" /\ j.new = NoSA /\ j.coll = NoSA
              /\ ~j.met /\ j.job = i.job /\ j.rekeyed = i.rekeyed
  BY DEF Info, In, Deleting, Asking, Aside, Heir, Ended

\* Nothing but IKE_SA s, which becomes i.
Only(x, y, s, i) ==
  /\ y.kids = x.kids /\ y.down = x.down
  /\ y.sa[s] = i /\ \A t \in SAs \ {s} : y.sa[t] = x.sa[t]

LEMMA SendIs ==
  ASSUME NEW p \in Peers, NEW x \in Side(p), NEW s \in SAs, NEW kind \in Kinds,
         NEW n \in SAs \cup {NoSA}, NEW y, y = Send(p, x, s, kind, n)
  PROVE  /\ y \in Side(p) /\ y.sa = x.sa /\ y.kids = x.kids /\ y.down = x.down
         /\ y.sent = x.sent \cup {[to |-> Other(p), sa |-> s, kind |-> kind, new |-> n]}
<1>1. [to |-> Other(p), sa |-> s, kind |-> kind, new |-> n] \in Messages
  BY TwoPeers DEF Messages
<1> QED
  BY <1>1 DEF Send, Side

Put(x, s, i) == [x EXCEPT !.sa[s] = i]

LEMMA Updated ==
  ASSUME NEW p \in Peers, NEW x \in Side(p), NEW s \in SAs, NEW i \in Info(p), NEW y,
         y = Put(x, s, i)
  PROVE  y \in Side(p) /\ Only(x, y, s, i) /\ y.sent = x.sent
  BY DEF Put, Side, Only

LEMMA SendDeleteIs ==
  ASSUME NEW p \in Peers, NEW x \in Side(p), NEW s \in SAs, NEW task \in Tasks, NEW y,
         y = SendDelete(p, x, s, task)
  PROVE  /\ y \in Side(p)
         /\ Only(x, y, s, Deleting(x.sa[s], task))
         /\ y.sent = x.sent \cup
              {[to |-> Other(p), sa |-> s, kind |-> "delete", new |-> NoSA]}
<1> DEFINE i == Deleting(x.sa[s], task)
           z == Put(x, s, i)
<1>1. i \in Info(p)
  BY Becomes DEF Side
<1>3. y = Send(p, z, s, "delete", NoSA)
  BY DEF SendDelete, Deleting, Put, Side
<1>4. z \in Side(p) /\ Only(x, z, s, i) /\ z.sent = x.sent
  BY <1>1, Updated
<1> HIDE DEF i, z
<1>5. /\ y \in Side(p) /\ y.sa = z.sa /\ y.kids = z.kids /\ y.down = z.down
      /\ y.sent = z.sent \cup {[to |-> Other(p), sa |-> s, kind |-> "delete", new |-> NoSA]}
  BY <1>3, <1>4, SendIs DEF Kinds
<1> QED
  BY <1>4, <1>5 DEF Only, i

\* IKE_SAs s and n become i and j.
Both(x, y, s, i, n, j) ==
  /\ y.down = x.down /\ y.sa[s] = i /\ y.sa[n] = j
  /\ \A t \in SAs \ {s, n} : y.sa[t] = x.sa[t]

LEMMA SendRekeyIs ==
  ASSUME NEW p \in Peers, NEW x \in Side(p), NEW s \in SAs, NEW n \in New(p), n # s, NEW y,
         y = SendRekey(p, x, s, n)
  PROVE  /\ y \in Side(p) /\ y.kids = x.kids
         /\ Both(x, y, s, Asking(x.sa[s], n),
                       n, In(x.sa[n], "held"))
         /\ y.sent = x.sent \cup
              {[to |-> Other(p), sa |-> s, kind |-> "rekey", new |-> n]}
<1> DEFINE i == Asking(x.sa[s], n)
           j == In(x.sa[n], "held")
           u == Put(x, s, i)
           z == Put(u, n, j)
<1>0. n \in SAs
  BY NewSAs
<1>1. i \in Info(p)
  BY Becomes DEF Side
<1>2. j \in Info(p)
  BY <1>0, Becomes DEF Side, States
<1>4. y = Send(p, z, s, "rekey", n)
  BY <1>0 DEF SendRekey, Asking, In, Put, Side
<1>5. u \in Side(p) /\ Only(x, u, s, i) /\ u.sent = x.sent
  BY <1>1, Updated
<1> HIDE DEF i, j, u
<1>6. z \in Side(p) /\ Only(u, z, n, j) /\ z.sent = u.sent
  BY <1>0, <1>2, <1>5, Updated
<1> HIDE DEF z
<1>7. /\ y \in Side(p) /\ y.sa = z.sa /\ y.kids = z.kids /\ y.down = z.down
      /\ y.sent = z.sent \cup {[to |-> Other(p), sa |-> s, kind |-> "rekey", new |-> n]}
  <2>1. "rekey" \in Kinds /\ n \in SAs \cup {NoSA}
    BY <1>0 DEF Kinds
  <2> QED
    BY <2>1, <1>4, <1>6, SendIs
<1>8. Both(x, y, s, i, n, j) /\ y.kids = x.kids
  BY <1>0, <1>5, <1>6, <1>7 DEF Only, Both
<1> QED
  BY <1>5, <1>6, <1>7, <1>8 DEF i, j

LEMMA EstablishIs ==
  ASSUME NEW p \in Peers, NEW x \in Side(p), NEW s \in SAs, NEW n \in SAs, n # s, NEW y,
         y = Establish(x, s, n)
  PROVE  /\ y \in Side(p) /\ y.kids = (IF x.kids = s THEN n ELSE x.kids) /\ y.sent = x.sent
         /\ Both(x, y, s, Aside(x.sa[s]),
                       n, Heir(x.sa[n], x.sa[s].queue))
<1> DEFINE i == Aside(x.sa[s])
           j == Heir(x.sa[n], x.sa[s].queue)
           u == Put(x, s, i)
           z == Put(u, n, j)
<1>0. n # NoSA
  BY NewSAs
<1>1. i \in Info(p) /\ j \in Info(p)
  <2>1. x.sa[s] \in Info(p) /\ x.sa[n] \in Info(p)
    BY DEF Side
  <2>2. x.sa[s].queue \in SUBSET {"rekey", "delete"}
    BY <2>1 DEF Info
  <2> QED
    BY <2>1, <2>2, Becomes
<1>2. y = [z EXCEPT !.kids = IF x.kids = s THEN n ELSE x.kids]
  BY <1>0 DEF Establish, Aside, Heir, Put, Side
<1>3. u \in Side(p) /\ Only(x, u, s, i) /\ u.sent = x.sent
  BY <1>1, Updated
<1> HIDE DEF i, j, u
<1>4. z \in Side(p) /\ Only(u, z, n, j) /\ z.sent = u.sent
  BY <1>1, <1>3, Updated
<1> HIDE DEF z
<1>5. x.kids \in SAs \cup {NoSA}
  BY DEF Side
<1>6. /\ y \in Side(p) /\ y.sa = z.sa /\ y.down = z.down /\ y.sent = z.sent
      /\ y.kids = (IF x.kids = s THEN n ELSE x.kids)
  BY <1>2, <1>4, <1>5 DEF Side
<1>7. Both(x, y, s, i, n, j)
  BY <1>3, <1>4, <1>6 DEF Only, Both
<1> QED
  BY <1>3, <1>4, <1>6, <1>7 DEF i, j

GoneSA == [Blank EXCEPT !.st = "gone"]

LEMMA GoneIs ==
  ASSUME NEW p \in Peers
  PROVE  GoneSA \in Info(p) /\ GoneSA.st = "gone" /\ Bare(GoneSA)
  BY DEF GoneSA, Blank, Info, Bare, States, Tasks

\* The new IKE_SAs that a task of s holds back.
HeldBy(x, s) == {n \in {x.sa[s].new, x.sa[s].coll} \ {NoSA} : x.sa[n].st = "held"}

LEMMA DestroyIs ==
  ASSUME NEW p \in Peers, NEW x \in Side(p), NEW s \in SAs, NEW y, y = Destroy(x, s)
  PROVE  /\ y \in Side(p) /\ y.kids = (IF x.kids = s THEN NoSA ELSE x.kids)
         /\ y.sent = x.sent /\ y.down = x.down
         /\ \A t \in SAs : y.sa[t] = IF t = s \/ t \in HeldBy(x, s) THEN GoneSA ELSE x.sa[t]
<1> DEFINE g == [t \in SAs |-> IF t = s \/ t \in HeldBy(x, s) THEN GoneSA ELSE x.sa[t]]
           k == IF x.kids = s THEN NoSA ELSE x.kids
<1>1. y = [x EXCEPT !.sa = g, !.kids = k]
  BY DEF Destroy, HeldBy, GoneSA, Side
<1>2. g \in [SAs -> Info(p)] /\ k \in SAs \cup {NoSA}
  BY GoneIs DEF Side
<1> HIDE DEF g, k
<1>3. y \in Side(p) /\ y.sa = g /\ y.kids = k /\ y.sent = x.sent /\ y.down = x.down
  BY <1>1, <1>2 DEF Side
<1> QED
  BY <1>3 DEF g, k

LEMMA EndRekeyIs ==
  ASSUME NEW p \in Peers, NEW x \in Side(p), NEW s \in SAs, x.sa[s].st # "held", NEW y,
         y = EndRekey(x, s)
  PROVE  /\ y \in Side(p) /\ y.kids = x.kids /\ y.sent = x.sent /\ y.down = x.down
         /\ \A t \in SAs : y.sa[t] =
              IF t = s THEN Ended(x.sa[s])
              ELSE IF t \in HeldBy(x, s) THEN GoneSA ELSE x.sa[t]
<1> DEFINE i == Ended(x.sa[s])
           g == [t \in SAs |-> IF t = s THEN i
                               ELSE IF t \in HeldBy(x, s) THEN GoneSA ELSE x.sa[t]]
<1>0. s \notin HeldBy(x, s)
  BY DEF HeldBy
<1>1. y = [x EXCEPT !.sa = g]
  <2>1. y = [x EXCEPT !.sa = [t \in SAs |->
               CASE t \in HeldBy(x, s) -> GoneSA
                 [] t = s -> Ended(x.sa[t])
                 [] OTHER -> x.sa[t]]]
    BY DEF EndRekey, HeldBy, GoneSA, Ended, Side
  <2>2. [t \in SAs |->
               CASE t \in HeldBy(x, s) -> GoneSA
                 [] t = s -> Ended(x.sa[t])
                 [] OTHER -> x.sa[t]] = g
    BY <1>0
  <2> QED
    BY <2>1, <2>2
<1>2. i \in Info(p)
  BY Becomes DEF Side
<1>3. g \in [SAs -> Info(p)]
  <2> HIDE DEF i
  <2> QED
    BY <1>2, GoneIs DEF Side
<1> HIDE DEF g
<1>4. y \in Side(p) /\ y.sa = g /\ y.kids = x.kids /\ y.sent = x.sent /\ y.down = x.down
  BY <1>1, <1>3 DEF Side
<1> QED
  BY <1>4 DEF g

-----------------------------------------------------------------------------
(* What they leave in order.                                                 *)

\* What a peer may still ask to rekey to, and what it has asked for.
Nones(x) == {t \in SAs : x.sa[t].st = "none"}
Asked(x) == {m \in x.sent : m.kind = "rekey"}
Calm(x, y) == Nones(y) = Nones(x) /\ Asked(y) = Asked(x)

\* No IKE_SA other than those of S holds n.
Free(x, S, n) == \A t \in SAs \ S : x.sa[t].new # n /\ x.sa[t].coll # n

\* What every proof needs of the IKE_SAs of a peer.
LEMMA Fields ==
  ASSUME NEW p \in Peers, NEW x \in Side(p), NEW t \in SAs
  PROVE  /\ x.sa[t] \in Info(p)
         /\ x.sa[t].st \in States /\ x.sa[t].task \in Tasks /\ x.sa[t].met \in BOOLEAN
         /\ x.sa[t].rekeyed \in BOOLEAN /\ x.sa[t].job \in BOOLEAN
         /\ x.sa[t].new # NoSA => x.sa[t].new \in New(p) /\ x.sa[t].new \in SAs
         /\ x.sa[t].coll # NoSA => x.sa[t].coll \in New(Other(p)) /\ x.sa[t].coll \in SAs
         /\ x.sa[t].new # NoSA => x.sa[t].new # x.sa[t].coll
  BY NewSAs DEF Side, Info

\* Nobody but s has what the task of s holds.
LEMMA Holder ==
  ASSUME NEW p \in Peers, NEW x \in Side(p), Distinct(x.sa), NEW s \in SAs,
         NEW n, n \in {x.sa[s].new, x.sa[s].coll} \ {NoSA}
  PROVE  n \in SAs /\ Free(x, {s}, n)
<1>1. n \in SAs
  BY Fields
<1>2. ASSUME NEW t \in SAs \ {s} PROVE x.sa[t].new # n /\ x.sa[t].coll # n
  <2>1. CASE n = x.sa[s].new
    <3>1. x.sa[t].new # n
      BY <2>1 DEF Distinct
    <3>2. n \in New(p) /\ (x.sa[t].coll # NoSA => x.sa[t].coll \in New(Other(p)))
      BY <2>1, Fields
    <3> QED
      BY <3>1, <3>2, NewSAs
  <2>2. CASE n = x.sa[s].coll
    <3>1. x.sa[t].coll # n
      BY <2>2 DEF Distinct
    <3>2. n \in New(Other(p)) /\ (x.sa[t].new # NoSA => x.sa[t].new \in New(p))
      BY <2>2, Fields
    <3> QED
      BY <3>1, <3>2, NewSAs
  <2> QED
    BY <2>1, <2>2
<1> QED
  BY <1>1, <1>2 DEF Free

\* The IKE_SAs T change: they let go of what they hold, and only what nobody
\* else holds is no longer held back.
Changed(x, y, T) == \A t \in SAs \ T : y.sa[t] = x.sa[t]
LetGo(x, y, T) ==
  \A t \in T : y.sa[t].new \in {x.sa[t].new, NoSA} /\ y.sa[t].coll \in {x.sa[t].coll, NoSA}
Released(x, y, S, T) ==
  \A t \in T : x.sa[t].st = "held" => y.sa[t].st = "held" \/ Free(x, S \cup T, t)

LEMMA StillDistinct ==
  ASSUME NEW x, NEW y, NEW T \in SUBSET SAs, Distinct(x.sa), Changed(x, y, T), LetGo(x, y, T)
  PROVE  Distinct(y.sa)
<1>1. \A t \in SAs : /\ y.sa[t].new # NoSA => y.sa[t].new = x.sa[t].new
                     /\ y.sa[t].coll # NoSA => y.sa[t].coll = x.sa[t].coll
  BY DEF Changed, LetGo
<1> QED
  BY <1>1 DEF Distinct

LEMMA Patched ==
  ASSUME NEW p \in Peers, NEW x, NEW y \in Side(p), NEW S \in SUBSET SAs, NEW T \in SUBSET SAs,
         NEW U \in SUBSET SAs,
         Almost(p, x, S), Changed(x, y, T), Released(x, y, S, T), Distinct(y.sa),
         Parent(y.sa, y.kids), \A t \in (S \cup T) \ U : Fine(y.sa, t)
  PROVE  Almost(p, y, U)
<1>1. ASSUME NEW t \in SAs \ (S \cup T) PROVE Fine(y.sa, t)
  <2>0. x \in Side(p) /\ Fine(x.sa, t) /\ y.sa[t] = x.sa[t]
    BY DEF Almost, Changed
  <2>1. ASSUME NEW n \in SAs, n \in {x.sa[t].new, x.sa[t].coll}, x.sa[n].st = "held"
        PROVE  y.sa[n].st = "held"
    <3>1. ~Free(x, S \cup T, n)
      BY <2>1 DEF Free
    <3> QED
      BY <2>1, <3>1 DEF Released, Changed
  <2>2. /\ x.sa[t].new # NoSA => x.sa[t].new \in SAs
        /\ x.sa[t].coll # NoSA => x.sa[t].coll \in SAs
    BY <2>0, Fields
  <2> QED
    BY <2>0, <2>1, <2>2 DEF Fine
<1> QED
  BY <1>1 DEF Almost

LEMMA DestroyGood ==
  ASSUME NEW p \in Peers, NEW x, NEW s \in SAs, Almost(p, x, {s}),
         x.sa[s].st \notin {"none", "held"}, NEW y, y = Destroy(x, s)
  PROVE  /\ Good(p, y) /\ Calm(x, y)
         /\ y.kids = (IF x.kids = s THEN NoSA ELSE x.kids) /\ y.down = x.down
<1> DEFINE H == HeldBy(x, s)
           T == {s} \cup H
<1>1. x \in Side(p) /\ Distinct(x.sa) /\ Parent(x.sa, x.kids)
  BY DEF Almost
<1>2. /\ y \in Side(p) /\ y.kids = (IF x.kids = s THEN NoSA ELSE x.kids)
      /\ y.sent = x.sent /\ y.down = x.down
      /\ \A t \in SAs : y.sa[t] = IF t = s \/ t \in H THEN GoneSA ELSE x.sa[t]
  BY <1>1, DestroyIs
<1>3. \A n \in H : n \in SAs /\ Free(x, {s}, n) /\ x.sa[n].st = "held"
  BY <1>1, Holder DEF HeldBy
<1>4. /\ T \in SUBSET SAs /\ Changed(x, y, T) /\ LetGo(x, y, T)
      /\ \A t \in T : y.sa[t] = GoneSA
  <2>1. T \in SUBSET SAs /\ Changed(x, y, T) /\ \A t \in T : y.sa[t] = GoneSA
    BY <1>2, <1>3 DEF Changed
  <2>2. GoneSA.new = NoSA /\ GoneSA.coll = NoSA
    BY DEF GoneSA, Blank
  <2> QED
    BY <2>1, <2>2 DEF LetGo
<1>5. Released(x, y, {s}, T)
  BY <1>3 DEF Released, Free
<1>6. Distinct(y.sa)
  BY <1>1, <1>4, StillDistinct
<1>7. Parent(y.sa, y.kids)
  <2>1. y.kids # NoSA => y.kids = x.kids /\ y.kids # s /\ y.kids \in SAs
    BY <1>2 DEF Side
  <2>2. x.kids # NoSA => x.kids \notin H
    BY <1>1, <1>3 DEF Parent
  <2> QED
    BY <1>1, <1>2, <2>1, <2>2 DEF Parent
<1>8. \A t \in T : Fine(y.sa, t)
  <2>1. GoneSA.st = "gone" /\ Bare(GoneSA)
    BY GoneIs
  <2> QED
    BY <1>4, <2>1 DEF Fine, Bare
<1>9. Good(p, y)
  BY <1>2, <1>4, <1>5, <1>6, <1>7, <1>8, Patched DEF Good
<1>10. Calm(x, y)
  <2>1. \A t \in SAs : x.sa[t].st = "none" <=> y.sa[t].st = "none"
    BY <1>2, <1>3, GoneIs
  <2> QED
    BY <1>2, <2>1 DEF Calm, Nones, Asked
<1> QED
  BY <1>2, <1>9, <1>10

LEMMA EndRekeyGood ==
  ASSUME NEW p \in Peers, NEW x, NEW s \in SAs, Almost(p, x, {s}),
         x.sa[s].st \in {"established", "rekeyed"}, NEW y, y = EndRekey(x, s)
  PROVE  /\ Good(p, y) /\ Calm(x, y) /\ y.kids = x.kids /\ y.down = x.down
         /\ y.sa[s].st = x.sa[s].st
<1> DEFINE H == HeldBy(x, s)
           T == {s} \cup H
           i == Ended(x.sa[s])
<1>1. x \in Side(p) /\ Distinct(x.sa) /\ Parent(x.sa, x.kids)
  BY DEF Almost
<1>2. /\ y \in Side(p) /\ y.kids = x.kids /\ y.sent = x.sent /\ y.down = x.down
      /\ \A t \in SAs : y.sa[t] = IF t = s THEN i ELSE IF t \in H THEN GoneSA ELSE x.sa[t]
  BY <1>1, EndRekeyIs
<1>3. \A n \in H : n \in SAs /\ Free(x, {s}, n) /\ x.sa[n].st = "held" /\ n # s
  BY <1>1, Holder DEF HeldBy
<1>4. /\ i.st = x.sa[s].st /\ i.task = "none" /\ i.new = NoSA /\ i.coll = NoSA /\ ~i.met
      /\ i.rekeyed = x.sa[s].rekeyed
  <2>1. x.sa[s] \in Info(p)
    BY <1>1, Fields
  <2> QED
    BY <2>1, Becoming
<1> HIDE DEF i
<1>5. GoneSA.new = NoSA /\ GoneSA.coll = NoSA /\ GoneSA.st = "gone" /\ Bare(GoneSA)
  BY GoneIs DEF GoneSA, Blank
<1>6. T \in SUBSET SAs /\ Changed(x, y, T) /\ LetGo(x, y, T)
  BY <1>2, <1>3, <1>4, <1>5 DEF Changed, LetGo
<1>7. Released(x, y, {s}, T)
  BY <1>3 DEF Released, Free
<1>8. Distinct(y.sa)
  BY <1>1, <1>6, StillDistinct
<1>9. Parent(y.sa, y.kids)
  <2>1. x.kids # NoSA => x.kids \notin H /\ x.kids \in SAs
    BY <1>1, <1>3 DEF Parent, Side
  <2> QED
    BY <1>1, <1>2, <1>4, <2>1 DEF Parent
<1>10. \A t \in T : Fine(y.sa, t)
  BY <1>2, <1>3, <1>4, <1>5 DEF Fine, Bare
<1>11. Good(p, y)
  BY <1>2, <1>6, <1>7, <1>8, <1>9, <1>10, Patched DEF Good
<1>12. Calm(x, y)
  <2>1. \A t \in SAs : x.sa[t].st = "none" <=> y.sa[t].st = "none"
    BY <1>2, <1>3, <1>4, <1>5
  <2> QED
    BY <1>2, <2>1 DEF Calm, Nones, Asked
<1> QED
  BY <1>2, <1>4, <1>11, <1>12

\* IKE_SA s is replaced by n.
Established(p, x, y, s, n) ==
  /\ Almost(p, y, {s}) /\ Calm(x, y) /\ y.down = x.down
  /\ y.kids # s /\ (y.kids = NoSA <=> x.kids = NoSA)
  /\ y.sa[s] = Aside(x.sa[s])
  /\ y.sa[n].st = "established" /\ \A t \in SAs \ {s, n} : y.sa[t] = x.sa[t]

LEMMA EstablishAlmost ==
  ASSUME NEW p \in Peers, NEW x, NEW s \in SAs, Almost(p, x, {s}),
         x.sa[s].st \notin {"none", "held"}, NEW n \in SAs, n # s,
         x.sa[n].st = "held", Free(x, {s}, n), NEW y, y = Establish(x, s, n)
  PROVE  Established(p, x, y, s, n)
<1> DEFINE i == Aside(x.sa[s])
           j == Heir(x.sa[n], x.sa[s].queue)
<1>1. x \in Side(p) /\ Distinct(x.sa) /\ Parent(x.sa, x.kids) /\ Fine(x.sa, n)
  BY DEF Almost
<1>2. /\ y \in Side(p) /\ y.kids = (IF x.kids = s THEN n ELSE x.kids) /\ y.sent = x.sent
      /\ Both(x, y, s, i, n, j)
  BY <1>1, EstablishIs
<1>3. /\ i.st = "rekeyed" /\ i.new = x.sa[s].new /\ i.coll = x.sa[s].coll
      /\ j.st = "established" /\ j.new = NoSA /\ j.coll = NoSA /\ j.task = "none"
      /\ ~j.met /\ ~j.rekeyed
  <2>1. x.sa[s] \in Info(p) /\ x.sa[n] \in Info(p) /\ Bare(x.sa[n])
    BY <1>1, Fields DEF Fine
  <2> QED
    BY <2>1, Becoming DEF Bare
<1>4. y.sa[s] = i
  BY <1>2 DEF Both
<1> HIDE DEF i, j
<1>5. {s, n} \in SUBSET SAs /\ Changed(x, y, {s, n}) /\ LetGo(x, y, {s, n})
  BY <1>2, <1>3 DEF Both, Changed, LetGo
<1>6. Released(x, y, {s}, {s, n})
  BY DEF Released, Free
<1>7. Distinct(y.sa)
  BY <1>1, <1>5, StillDistinct
<1>8. Parent(y.sa, y.kids) /\ y.kids # s /\ (y.kids = NoSA <=> x.kids = NoSA)
  <2>1. x.kids # n
    BY <1>1, NewSAs DEF Parent
  <2>2. x.kids # NoSA => x.kids \in SAs
    BY <1>1 DEF Side
  <2> QED
    BY <1>1, <1>2, <1>3, <2>1, <2>2, NewSAs DEF Parent, Both
<1>9. Fine(y.sa, n)
  BY <1>2, <1>3 DEF Fine, Both
<1>10. Almost(p, y, {s})
  BY <1>2, <1>5, <1>6, <1>7, <1>8, <1>9, Patched
<1>11. Calm(x, y)
  <2>1. \A t \in SAs : x.sa[t].st = "none" <=> y.sa[t].st = "none"
    BY <1>2, <1>3 DEF Both
  <2> QED
    BY <1>2, <2>1 DEF Calm, Nones, Asked
<1> QED
  BY <1>2, <1>3, <1>4, <1>8, <1>10, <1>11 DEF Established, Both, i

MayDelete(x, s) ==
  /\ x.sa[s].st \in {"established", "rekeying", "rekeyed"}
  /\ x.sa[s].new = NoSA /\ x.sa[s].coll = NoSA
  /\ x.kids = s => x.sa[s].st = "established"

Deletes(p, x, y, s, S) ==
  /\ Almost(p, y, S \ {s}) /\ Calm(x, y) /\ y.kids = x.kids /\ y.down = x.down
  /\ y.sa[s].st = "deleting" /\ \A t \in SAs \ {s} : y.sa[t] = x.sa[t]

LEMMA SendDeleteAlmost ==
  ASSUME NEW p \in Peers, NEW x, NEW S \in SUBSET SAs, NEW s \in SAs, Almost(p, x, S),
         MayDelete(x, s),
         NEW task \in {"delete", "rekdel"}, NEW y, y = SendDelete(p, x, s, task)
  PROVE  Deletes(p, x, y, s, S)
<1> DEFINE i == Deleting(x.sa[s], task)
<1>1. x \in Side(p) /\ Distinct(x.sa) /\ Parent(x.sa, x.kids)
  BY DEF Almost
<1>2. /\ y \in Side(p) /\ Only(x, y, s, i)
      /\ y.sent = x.sent \cup {[to |-> Other(p), sa |-> s, kind |-> "delete", new |-> NoSA]}
  <2>1. task \in Tasks
    BY DEF Tasks
  <2> QED
    BY <1>1, <2>1, SendDeleteIs
<1>3. /\ i.st = "deleting" /\ i.task = task /\ i.new = NoSA /\ i.coll = NoSA
      /\ x.sa[s].st = "established" => ~i.rekeyed
  <2>1. x.sa[s] \in Info(p)
    BY <1>1, Fields
  <2> QED
    BY <2>1, Becoming DEF MayDelete
<1> HIDE DEF i
<1>4. {s} \in SUBSET SAs /\ Changed(x, y, {s}) /\ LetGo(x, y, {s})
  BY <1>2, <1>3 DEF Only, Changed, LetGo
<1>5. Released(x, y, S, {s})
  BY DEF Released, MayDelete
<1>6. Distinct(y.sa)
  BY <1>1, <1>4, StillDistinct
<1>7. Parent(y.sa, y.kids)
  <2>1. x.kids # NoSA => x.kids \in SAs
    BY <1>1 DEF Side
  <2> QED
    BY <1>1, <1>2, <1>3, <2>1 DEF Parent, Only, MayDelete
<1>8. Fine(y.sa, s)
  BY <1>2, <1>3 DEF Fine, Only
<1>9. Almost(p, y, S \ {s})
  BY <1>2, <1>4, <1>5, <1>6, <1>7, <1>8, Patched
<1>10. Calm(x, y)
  <2>1. \A t \in SAs : x.sa[t].st = "none" <=> y.sa[t].st = "none"
    BY <1>2, <1>3 DEF Only, MayDelete
  <2> QED
    BY <1>2, <2>1 DEF Calm, Nones, Asked
<1> QED
  BY <1>2, <1>3, <1>9, <1>10 DEF Only, Deletes

\* An IKE_SA that nobody has heard of is held by nobody.
LEMMA Unheard ==
  ASSUME NEW p \in Peers, NEW x, NEW S \in SUBSET SAs, Almost(p, x, S),
         NEW n \in SAs, x.sa[n].st # "held"
  PROVE  Free(x, S, n)
<1>1. \A t \in SAs \ S : Fine(x.sa, t)
  BY DEF Almost
<1> QED
  BY <1>1, NewSAs DEF Fine, Free

\* The request to rekey to n, which is new.
Asks(p, x, y) ==
  \E s \in SAs : \E n \in New(p) :
    /\ n \in Nones(x) /\ Nones(y) = Nones(x) \ {n}
    /\ Asked(y) = Asked(x) \cup {[to |-> Other(p), sa |-> s, kind |-> "rekey", new |-> n]}

LEMMA SendRekeyGood ==
  ASSUME NEW p \in Peers, NEW x, NEW s \in SAs, Good(p, x), x.sa[s].st = "established",
         NEW n \in New(p), x.sa[n].st = "none", NEW y, y = SendRekey(p, x, s, n)
  PROVE  Good(p, y) /\ Asks(p, x, y) /\ y.kids = x.kids /\ y.down = x.down
<1> DEFINE i == Asking(x.sa[s], n)
           j == In(x.sa[n], "held")
<1>0. n \in SAs /\ n # s /\ n # NoSA
  BY NewSAs
<1>1. /\ x \in Side(p) /\ Distinct(x.sa) /\ Parent(x.sa, x.kids)
      /\ Fine(x.sa, n) /\ Fine(x.sa, s)
  BY <1>0 DEF Good, Almost
<1>2. /\ y \in Side(p) /\ y.kids = x.kids /\ Both(x, y, s, i, n, j)
      /\ y.sent = x.sent \cup {[to |-> Other(p), sa |-> s, kind |-> "rekey", new |-> n]}
  BY <1>0, <1>1, SendRekeyIs
<1>3. /\ x.sa[s].new = NoSA /\ x.sa[s].coll = NoSA /\ ~x.sa[s].met /\ Bare(x.sa[n])
  BY <1>1 DEF Fine
<1>4. /\ i.st = "rekeying" /\ i.task = "rekey" /\ i.new = n /\ i.coll = NoSA /\ ~i.met
      /\ i.rekeyed = x.sa[s].rekeyed /\ j.st = "held" /\ Bare(j)
  <2>1. x.sa[s] \in Info(p) /\ x.sa[n] \in Info(p)
    BY <1>0, <1>1, Fields
  <2> QED
    BY <1>3, <2>1, Becoming DEF Bare
<1> HIDE DEF i, j
<1>5. {s, n} \in SUBSET SAs /\ Changed(x, y, {s, n})
  BY <1>0, <1>2 DEF Both, Changed
<1>6. Released(x, y, {}, {s, n})
  BY DEF Released
<1>7. Distinct(y.sa)
  <2>1. Free(x, {}, n)
    BY <1>0, Unheard DEF Good
  <2>2. \A t \in SAs : /\ y.sa[t].new = IF t = s THEN n ELSE x.sa[t].new
                       /\ y.sa[t].coll = x.sa[t].coll
    BY <1>2, <1>3, <1>4, <1>5 DEF Both, Changed, Bare
  <2>3. \A t \in SAs : x.sa[t].new # n
    BY <2>1 DEF Free
  <2> QED
    BY <1>1, <2>2, <2>3 DEF Distinct
<1>8. Parent(y.sa, y.kids)
  <2>1. x.kids # NoSA => x.kids \in SAs
    BY <1>1 DEF Side
  <2> QED
    BY <1>1, <1>2, <1>4, <2>1 DEF Parent, Both
<1>9. Fine(y.sa, s) /\ Fine(y.sa, n)
  BY <1>0, <1>2, <1>4 DEF Fine, Both, Bare
<1>10. Good(p, y)
  BY <1>2, <1>5, <1>6, <1>7, <1>8, <1>9, Patched DEF Good
<1>11. n \in Nones(x) /\ Nones(y) = Nones(x) \ {n}
  BY <1>0, <1>2, <1>4 DEF Nones, Both
<1>12. Asked(y) = Asked(x) \cup {[to |-> Other(p), sa |-> s, kind |-> "rekey", new |-> n]}
  BY <1>2 DEF Asked
<1> QED
  BY <1>2, <1>10, <1>11, <1>12 DEF Asks, Both

LEMMA InitiateGood ==
  ASSUME NEW p \in Peers, NEW x, NEW s \in SAs, Good(p, x), NEW y \in Initiate(p, x, s)
  PROVE  /\ Good(p, y) /\ (Calm(x, y) \/ Asks(p, x, y))
         /\ y.kids = x.kids /\ y.down = x.down
<1> DEFINE i == x.sa[s]
<1>0. Fine(x.sa, s) /\ x \in Side(p) /\ Calm(x, x)
  BY DEF Good, Almost, Calm
<1>1. CASE i.task # "none"
  BY <1>0, <1>1 DEF Initiate
<1>2. CASE i.task = "none" /\ "delete" \in i.queue
           /\ i.st \in {"established", "rekeying", "rekeyed"}
  <2>1. y = SendDelete(p, x, s, "delete")
    BY <1>2 DEF Initiate
  <2>2. /\ i.st \in {"established", "rekeyed"} /\ i.new = NoSA /\ i.coll = NoSA
        /\ (x.kids = s => i.st = "established")
    BY <1>0, <1>2, NewSAs DEF Fine, Good, Almost, Parent
  <2>3. Almost(p, y, {} \ {s}) /\ Calm(x, y) /\ y.kids = x.kids /\ y.down = x.down
    <3>1. /\ Almost(p, x, {}) /\ {} \in SUBSET SAs /\ "delete" \in {"delete", "rekdel"}
          /\ MayDelete(x, s)
      BY <2>2 DEF Good, MayDelete
    <3>2. Deletes(p, x, y, s, {})
      BY <2>1, <3>1, SendDeleteAlmost
    <3> QED
      BY <3>2 DEF Deletes
  <2>4. {} \ {s} = {}
    OBVIOUS
  <2> QED
    BY <2>3, <2>4 DEF Good
<1>3. CASE i.task = "none" /\ "delete" \notin i.queue /\ "rekey" \in i.queue
           /\ i.st = "established"
  <2>1. PICK n \in New(p) : x.sa[n].st = "none" /\ y = SendRekey(p, x, s, n)
    BY <1>3 DEF Initiate
  <2> QED
    BY <1>3, <2>1, SendRekeyGood
<1>4. CASE y = x
  BY <1>0, <1>4
<1> QED
  BY <1>1, <1>2, <1>3, <1>4 DEF Initiate

-----------------------------------------------------------------------------
(* A handler is done.                                                        *)

\* The request that is answered is the one about m.new.
Hears(p, y, m) ==
  /\ m \in net /\ m.kind = "rekey" /\ m.to = p
  /\ Nones(y) = Nones(Me(p)) \ {m.new} /\ Asked(y) = {}

Turn(p, y, taken) ==
  \/ Calm(Me(p), y) \/ Asks(p, Me(p), y) \/ \E m \in taken : Hears(p, y, m)

LEMMA MeIs ==
  ASSUME NEW p \in Peers
  PROVE  /\ Me(p).sa = sa[p] /\ Me(p).kids = kids[p] /\ Me(p).down = down[p]
         /\ Asked(Me(p)) = {} /\ Nones(Me(p)) = {t \in SAs : sa[p][t].st = "none"}
  BY DEF Me, Asked, Nones

LEMMA Committed ==
  ASSUME Shape, NEW p \in Peers, NEW y, NEW taken, Commit(p, y, taken)
  PROVE  /\ Shape' /\ sa'[p] = y.sa /\ kids'[p] = y.kids /\ down'[p] = y.down
         /\ net' = (net \ taken) \cup y.sent
         /\ \A q \in Peers \ {p} : sa'[q] = sa[q] /\ kids'[q] = kids[q] /\ down'[q] = down[q]
  BY DEF Shape, Commit

LEMMA CommitGood ==
  ASSUME Shape, NEW p \in Peers, NEW y, NEW taken, Commit(p, y, taken), Good(p, y),
         \A q \in Peers : Good(q, Me(q))
  PROVE  \A q \in Peers : Good(q, Me(q))'
<1>1. /\ sa'[p] = y.sa /\ kids'[p] = y.kids /\ down'[p] = y.down
      /\ \A q \in Peers \ {p} : sa'[q] = sa[q] /\ kids'[q] = kids[q] /\ down'[q] = down[q]
  BY Committed
<1>2. ASSUME NEW q \in Peers \ {p} PROVE Good(q, Me(q))'
  <2>1. Me(q)' = Me(q)
    BY <1>1 DEF Me
  <2> QED
    BY <2>1 DEF Good, Almost
<1>3. Good(p, Me(p))'
  <2>1. PICK z : z = Me(p)'
    OBVIOUS
  <2>2. z = [sa |-> y.sa, kids |-> y.kids, sent |-> {}, down |-> y.down]
    BY <1>1, <2>1 DEF Me
  <2>3. z \in Side(p) /\ z.sa = y.sa /\ z.kids = y.kids
    BY <2>2 DEF Good, Almost, Side
  <2>4. Good(p, z)
    BY <2>3 DEF Good, Almost
  <2> QED
    BY <2>1, <2>4 DEF Good, Almost
<1> QED
  BY <1>2, <1>3

LEMMA CommitFresh ==
  ASSUME Shape, Fresh, NEW p \in Peers, NEW y \in Side(p), NEW taken, Commit(p, y, taken),
         Turn(p, y, taken)
  PROVE  Fresh'
<1> DEFINE o == Other(p)
           ns == Nones(Me(p))
<1>1. /\ sa'[p] = y.sa /\ net' = (net \ taken) \cup y.sent /\ sa'[o] = sa[o]
      /\ o \in Peers /\ o # p /\ Other(o) = p /\ \A q \in Peers : q = p \/ q = o
  BY Committed, TwoPeers
<1>2. ns = {t \in SAs : sa[p][t].st = "none"} /\ Nones(y) = {t \in SAs : sa'[p][t].st = "none"}
  BY <1>1, MeIs DEF Nones
<1>3. y.sent \subseteq Messages
  BY DEF Side
<1>4. /\ \A m \in net : m \in Messages
      /\ \A m \in net : m.kind = "rekey" =>
       /\ m.new \in New(Other(m.to)) /\ sa[m.to][m.new].st = "none"
       /\ sa[Other(m.to)][m.new].st # "none"
  BY DEF Fresh
<1>5. \A m, n \in net : m.kind = "rekey" /\ n.kind = "rekey" /\ m.new = n.new => m = n
  BY DEF Fresh
<1>6. \A q \in Peers : \A s \in New(q) : sa[q][s].st = "none" => sa[Other(q)][s].st = "none"
  BY DEF Fresh
<1>7. \A m \in Messages : m.to \in Peers
  BY DEF Messages
<1>8. /\ \A s \in New(p) : s \in SAs /\ s \notin New(o)
      /\ \A s \in New(o) : s \in SAs /\ s \notin New(p)
  BY <1>1, NewSAs
<1> HIDE DEF ns
<1>9. Nones(y) \subseteq ns
  BY MeIs DEF Turn, Calm, Asks, Hears, ns
<1>10. \A m \in Asked(y) : /\ m.to = o /\ m.new \in New(p) /\ m.new \in ns \ Nones(y)
                           /\ \A n \in Asked(y) : n = m
  BY MeIs DEF Turn, Calm, Asks, Hears, ns
<1>11. \A n \in ns \ Nones(y) : \/ n \in New(p)
         \/ \E m \in taken : m \in net /\ m.kind = "rekey" /\ m.to = p /\ m.new = n
  BY MeIs DEF Turn, Calm, Asks, Hears, ns
<1>12. \A m \in net' : m.kind = "rekey" => m \in net \ taken \/ m \in Asked(y)
  BY <1>1 DEF Asked
<1>13. net' \subseteq Messages
  BY <1>1, <1>3, <1>4
<1>14. ASSUME NEW m \in net', m.kind = "rekey"
       PROVE  /\ m.new \in New(Other(m.to)) /\ sa'[m.to][m.new].st = "none"
              /\ sa'[Other(m.to)][m.new].st # "none"
  <2>1. CASE m \in Asked(y)
    <3>1. m.to = o /\ m.new \in New(p) /\ m.new \in ns \ Nones(y)
      BY <1>10, <2>1
    <3>2. sa[o][m.new].st = "none" /\ m.new \in SAs
      BY <1>1, <1>2, <1>6, <1>8, <3>1
    <3> QED
      BY <1>1, <1>2, <3>1, <3>2
  <2>2. CASE m \in net \ taken /\ m.to = o
    <3>1. /\ m.new \in New(p) /\ sa[o][m.new].st = "none" /\ sa[p][m.new].st # "none"
          /\ m.new \in SAs
      BY <1>1, <1>4, <1>8, <1>14, <2>2
    <3> QED
      BY <1>1, <1>2, <1>9, <2>2, <3>1
  <2>3. CASE m \in net \ taken /\ m.to = p
    <3>1. /\ m.new \in New(o) /\ sa[p][m.new].st = "none" /\ sa[o][m.new].st # "none"
          /\ m.new \in SAs
      BY <1>1, <1>4, <1>8, <1>14, <2>3
    <3>2. m.new \in Nones(y)
      <4>1. SUFFICES ASSUME m.new \in ns \ Nones(y) PROVE FALSE
        BY <1>2, <3>1
      <4>2. PICK n \in taken : n \in net /\ n.kind = "rekey" /\ n.to = p /\ n.new = m.new
        BY <1>8, <1>11, <3>1, <4>1
      <4>3. n = m
        BY <1>5, <1>14, <2>3, <4>2
      <4> QED
        BY <2>3, <4>2, <4>3
    <3> QED
      BY <1>1, <1>2, <2>3, <3>1, <3>2
  <2> QED
    BY <1>1, <1>4, <1>7, <1>12, <1>14, <2>1, <2>2, <2>3
<1>15. ASSUME NEW m \in net', NEW n \in net', m.kind = "rekey", n.kind = "rekey",
              m.new = n.new
       PROVE  m = n
  <2>1. ASSUME NEW a \in Asked(y), NEW b \in net, b.kind = "rekey", a.new = b.new
        PROVE  FALSE
    <3>1. a.new \in New(p) /\ sa[p][a.new].st = "none"
      BY <1>2, <1>10, <2>1
    <3>2. b.to = o => sa[p][b.new].st # "none"
      BY <1>1, <1>4, <2>1
    <3>3. b.to = p => b.new \in New(o)
      BY <1>1, <1>4, <2>1
    <3> QED
      BY <1>1, <1>4, <1>7, <1>8, <2>1, <3>1, <3>2, <3>3
  <2>2. m \in Asked(y) /\ n \in Asked(y) => m = n
    BY <1>10
  <2>3. m \in net /\ n \in net => m = n
    BY <1>5, <1>15
  <2> QED
    BY <1>12, <1>15, <2>1, <2>2, <2>3
<1>16. ASSUME NEW q \in Peers, NEW s \in New(q), sa'[q][s].st = "none"
       PROVE  sa'[Other(q)][s].st = "none"
  <2>1. CASE q = p
    <3>1. s \in ns
      BY <1>2, <1>8, <1>9, <1>16, <2>1
    <3> QED
      BY <1>1, <1>2, <1>6, <2>1, <3>1
  <2>2. CASE q = o
    <3>1. sa[o][s].st = "none" /\ sa[p][s].st = "none" /\ s \in SAs
      BY <1>1, <1>6, <1>8, <1>16, <2>2
    <3>2. s \in Nones(y)
      <4>1. SUFFICES ASSUME s \in ns \ Nones(y) PROVE FALSE
        BY <1>2, <3>1
      <4>2. PICK m \in taken : m \in net /\ m.kind = "rekey" /\ m.to = p /\ m.new = s
        BY <1>8, <1>11, <2>2, <4>1
      <4> QED
        BY <1>1, <1>4, <3>1, <4>2
    <3> QED
      BY <1>1, <1>2, <2>2, <3>1, <3>2
  <2> QED
    BY <1>1, <2>1, <2>2
<1> QED
  BY <1>13, <1>14, <1>15, <1>16 DEF Fresh

\* The CHILD_SAs of p are not lost, or reported.
Reports(p, y) == kids[p] # NoSA /\ y.kids = NoSA => kids[p] \in y.down

NothingLost ==
  \A p \in Peers : kids[p] # NoSA /\ kids'[p] = NoSA => kids[p] \in down'[p]

LEMMA Done ==
  ASSUME Inv, NEW p \in Peers, NEW y, NEW taken, Commit(p, y, taken), Good(p, y),
         Turn(p, y, taken), Reports(p, y)
  PROVE  Inv' /\ NothingLost
<1>1. Shape /\ Fresh /\ y \in Side(p) /\ \A q \in Peers : Good(q, Me(q))
  BY DEF Inv, Good, Almost
<1>2. Fresh'
  BY <1>1, CommitFresh
<1>3. \A q \in Peers : Good(q, Me(q))'
  BY <1>1, CommitGood
<1>4. /\ Shape' /\ kids'[p] = y.kids /\ down'[p] = y.down
      /\ \A q \in Peers \ {p} : kids'[q] = kids[q]
  BY <1>1, Committed
<1>5. Inv'
  BY <1>2, <1>3, <1>4 DEF Inv
<1>6. NothingLost
  BY <1>4 DEF NothingLost, Reports
<1> QED
  BY <1>5, <1>6

-----------------------------------------------------------------------------
(* The steps within a handler.                                               *)

\* Only what does not matter to the rekeying changes of IKE_SA s.
Tuned(i, j) ==
  /\ j.st = i.st /\ j.task = i.task /\ j.new = i.new /\ j.coll = i.coll
  /\ j.met = i.met /\ j.rekeyed = i.rekeyed

LEMMA TunedGood ==
  ASSUME NEW p \in Peers, NEW x, Good(p, x), NEW s \in SAs,
         x.sa[s].st \notin {"none", "held", "gone"}, NEW i \in Info(p), Tuned(x.sa[s], i),
         NEW y, y = Put(x, s, i)
  PROVE  Good(p, y) /\ Calm(x, y) /\ y.kids = x.kids /\ y.down = x.down /\ y.sa[s] = i
<1>1. x \in Side(p) /\ Distinct(x.sa) /\ Parent(x.sa, x.kids) /\ \A t \in SAs : Fine(x.sa, t)
  BY DEF Good, Almost
<1>2. y \in Side(p) /\ Only(x, y, s, i) /\ y.sent = x.sent
  BY <1>1, Updated
<1>3. \A t \in SAs : Tuned(x.sa[t], y.sa[t])
  BY <1>2 DEF Only, Tuned
<1>4. Distinct(y.sa)
  BY <1>1, <1>3 DEF Distinct, Tuned
<1>5. Parent(y.sa, y.kids)
  <2>1. x.kids # NoSA => x.kids \in SAs
    BY <1>1 DEF Side
  <2> QED
    BY <1>1, <1>2, <1>3, <2>1 DEF Parent, Only, Tuned
<1>6. ASSUME NEW t \in SAs PROVE Fine(y.sa, t)
  <2>1. /\ x.sa[t].new # NoSA => x.sa[t].new \in SAs
        /\ x.sa[t].coll # NoSA => x.sa[t].coll \in SAs
    BY <1>1, Fields
  <2>2. x.sa[t].st \in {"none", "held", "gone"} => y.sa[t] = x.sa[t]
    BY <1>2 DEF Only
  <2> QED
    BY <1>1, <1>3, <2>1, <2>2 DEF Fine, Tuned
<1>7. Calm(x, y)
  BY <1>2, <1>3 DEF Calm, Nones, Asked, Tuned
<1> QED
  BY <1>2, <1>4, <1>5, <1>6, <1>7 DEF Good, Almost, Only

LEMMA SendGood ==
  ASSUME NEW p \in Peers, NEW x, NEW S \in SUBSET SAs, Almost(p, x, S), NEW s \in SAs,
         NEW kind \in Kinds \ {"rekey"}, NEW n \in SAs \cup {NoSA}, NEW y,
         y = Send(p, x, s, kind, n)
  PROVE  /\ Almost(p, y, S) /\ Calm(x, y)
         /\ y.sa = x.sa /\ y.kids = x.kids /\ y.down = x.down
<1>1. x \in Side(p)
  BY DEF Almost
<1>2. /\ y \in Side(p) /\ y.sa = x.sa /\ y.kids = x.kids /\ y.down = x.down
      /\ y.sent = x.sent \cup {[to |-> Other(p), sa |-> s, kind |-> kind, new |-> n]}
  BY <1>1, SendIs
<1> QED
  BY <1>2 DEF Almost, Calm, Nones, Asked

LEMMA ReportGood ==
  ASSUME NEW p \in Peers, NEW x, NEW S \in SUBSET SAs, Almost(p, x, S), NEW s \in SAs,
         NEW y, y = ReportDown(x, s)
  PROVE  /\ Almost(p, y, S) /\ Calm(x, y)
         /\ y.sa = x.sa /\ y.kids = x.kids /\ s \in y.down
<1>1. /\ y \in Side(p) /\ y.sa = x.sa /\ y.kids = x.kids /\ y.down = x.down \cup {s}
      /\ y.sent = x.sent
  BY DEF Almost, Side, ReportDown
<1> QED
  BY <1>1 DEF Almost, Calm, Nones, Asked

LEMMA DestroyReported ==
  ASSUME NEW p \in Peers, NEW x, Good(p, x), NEW s \in SAs, x.sa[s].st \notin {"none", "held"},
         NEW y, y = Destroy(ReportDown(x, s), s)
  PROVE  /\ Good(p, y) /\ Calm(x, y)
         /\ y.kids = NoSA => x.kids = NoSA \/ x.kids \in y.down
<1>1. PICK z : z = ReportDown(x, s)
  OBVIOUS
<1>2. Almost(p, z, {}) /\ Calm(x, z) /\ z.sa = x.sa /\ z.kids = x.kids /\ s \in z.down
  BY <1>1, ReportGood DEF Good
<1>3. Almost(p, z, {s}) /\ z.sa[s].st \notin {"none", "held"}
  BY <1>2 DEF Almost
<1>4. /\ Good(p, y) /\ Calm(z, y) /\ y.down = z.down
      /\ y.kids = (IF z.kids = s THEN NoSA ELSE z.kids)
  BY <1>1, <1>3, DestroyGood
<1> QED
  BY <1>2, <1>4 DEF Calm

LEMMA Start ==
  ASSUME Inv, NEW p \in Peers
  PROVE  /\ Good(p, Me(p)) /\ Almost(p, Me(p), {}) /\ \A s \in SAs : Almost(p, Me(p), {s})
         /\ Me(p) \in Side(p) /\ \A s \in SAs : sa[p][s] \in Info(p) /\ Fine(sa[p], s)
         /\ Distinct(sa[p]) /\ Parent(sa[p], kids[p])
<1>1. Good(p, Me(p))
  BY DEF Inv
<1> QED
  BY <1>1, MeIs DEF Good, Almost, Side

\* A queue or a job changes.
LEMMA Queueing ==
  ASSUME NEW p \in Peers, NEW x, Good(p, x), NEW s \in SAs,
         x.sa[s].st \notin {"none", "held", "gone"}, NEW what \in {"rekey", "delete"},
         NEW y, y = [x EXCEPT !.sa[s].queue = @ \cup {what}]
  PROVE  Good(p, y) /\ Calm(x, y) /\ y.kids = x.kids /\ y.down = x.down
<1>1. PICK i : i = [x.sa[s] EXCEPT !.queue = x.sa[s].queue \cup {what}]
  OBVIOUS
<1>2. x \in Side(p) /\ x.sa[s] \in Info(p)
  BY Fields DEF Good, Almost
<1>3. x.sa[s].queue \cup {what} \in SUBSET {"rekey", "delete"}
  BY <1>2 DEF Info
<1>4. i \in Info(p) /\ Tuned(x.sa[s], i)
  BY <1>1, <1>2, <1>3 DEF Info, Tuned
<1>5. PICK z : z = Put(x, s, i)
  OBVIOUS
<1>6. Good(p, z) /\ Calm(x, z) /\ z.kids = x.kids /\ z.down = x.down
  BY <1>4, <1>5, TunedGood
<1>7. y = z
  BY <1>1, <1>2, <1>5 DEF Put, Side, Info
<1> QED
  BY <1>6, <1>7

LEMMA Unscheduled ==
  ASSUME NEW p \in Peers, NEW x, Good(p, x), NEW s \in SAs,
         x.sa[s].st \notin {"none", "held", "gone"},
         NEW y, y = [x EXCEPT !.sa[s].job = FALSE]
  PROVE  /\ Good(p, y) /\ Calm(x, y) /\ y.kids = x.kids /\ y.down = x.down
         /\ y.sa[s].st = x.sa[s].st
<1>1. PICK i : i = [x.sa[s] EXCEPT !.job = FALSE]
  OBVIOUS
<1>2. x \in Side(p) /\ x.sa[s] \in Info(p)
  BY Fields DEF Good, Almost
<1>3. i \in Info(p) /\ Tuned(x.sa[s], i)
  BY <1>1, <1>2 DEF Info, Tuned
<1>4. PICK z : z = Put(x, s, i)
  OBVIOUS
<1>5. Good(p, z) /\ Calm(x, z) /\ z.kids = x.kids /\ z.down = x.down /\ z.sa[s] = i
  BY <1>3, <1>4, TunedGood
<1>6. y = z
  BY <1>1, <1>2, <1>4 DEF Put, Side, Info
<1> QED
  BY <1>3, <1>5, <1>6 DEF Tuned

LEMMA InitiateDone ==
  ASSUME Inv, NEW p \in Peers, NEW s \in SAs, NEW x, Good(p, x), Calm(Me(p), x),
         x.kids = NoSA => kids[p] = NoSA, NEW y \in Initiate(p, x, s), NEW taken,
         Commit(p, y, taken)
  PROVE  Inv' /\ NothingLost
<1>1. Good(p, y) /\ (Calm(x, y) \/ Asks(p, x, y)) /\ y.kids = x.kids
  BY InitiateGood
<1>2. Calm(Me(p), y) \/ Asks(p, Me(p), y)
  BY <1>1 DEF Calm, Asks
<1> QED
  BY <1>1, <1>2, Done DEF Turn, Reports

LEMMA DeletedGood ==
  ASSUME Inv, NEW p \in Peers, NEW s \in SAs, Registered(p, s), NEW x, Good(p, x),
         Calm(Me(p), x), x.kids = kids[p], x.down = down[p], x.sa[s].st = sa[p][s].st,
         NEW y \in Deleted(p, x, s), NEW taken, Commit(p, y, taken)
  PROVE  Inv' /\ NothingLost
<1>0. x.sa[s].st \notin {"none", "held", "gone"}
  BY DEF Registered
<1>1. CASE x.sa[s].st \in {"established", "rekeying"}
  <2>1. PICK z : z = [x EXCEPT !.sa[s].queue = @ \cup {"delete"}]
    OBVIOUS
  <2>2. y \in Initiate(p, z, s)
    BY <1>1, <2>1 DEF Deleted
  <2>3. Good(p, z) /\ Calm(x, z) /\ z.kids = x.kids
    BY <1>0, <2>1, Queueing
  <2>4. Calm(Me(p), z)
    BY <2>3 DEF Calm
  <2> QED
    BY <2>2, <2>3, <2>4, InitiateDone
<1>2. CASE x.sa[s].st \notin {"established", "rekeying"}
  <2>1. y = Destroy(ReportDown(x, s), s)
    BY <1>2 DEF Deleted
  <2>2. Good(p, y) /\ Calm(x, y) /\ (y.kids = NoSA => x.kids = NoSA \/ x.kids \in y.down)
    BY <1>0, <2>1, DestroyReported
  <2>3. Calm(Me(p), y)
    BY <2>2 DEF Calm
  <2> QED
    BY <2>2, <2>3, Done DEF Turn, Reports
<1> QED
  BY <1>1, <1>2

LEMMA RekeyStep ==
  ASSUME Inv, NEW p \in Peers, NEW s \in SAs, Rekey(p, s)
  PROVE  Inv' /\ NothingLost
<1>1. PICK x : x = [Me(p) EXCEPT !.sa[s].queue = @ \cup {"rekey"}]
  OBVIOUS
<1>2. PICK y \in Initiate(p, x, s) : Commit(p, y, {})
  BY <1>1 DEF Rekey
<1>3. Me(p).sa[s].st \notin {"none", "held", "gone"}
  BY MeIs DEF Rekey
<1>4. Good(p, x) /\ Calm(Me(p), x) /\ x.kids = kids[p]
  BY <1>1, <1>3, Start, Queueing, MeIs
<1> QED
  BY <1>2, <1>4, InitiateDone

LEMMA InitiateTasksStep ==
  ASSUME Inv, NEW p \in Peers, NEW s \in SAs, InitiateTasks(p, s)
  PROVE  Inv' /\ NothingLost
<1>1. PICK y \in Initiate(p, Me(p), s) : Commit(p, y, {})
  BY DEF InitiateTasks
<1>2. Good(p, Me(p)) /\ Calm(Me(p), Me(p)) /\ Me(p).kids = kids[p]
  BY Start, MeIs DEF Calm
<1> QED
  BY <1>1, <1>2, InitiateDone

LEMMA DeleteStep ==
  ASSUME Inv, NEW p \in Peers, NEW s \in SAs, Delete(p, s)
  PROVE  Inv' /\ NothingLost
<1>1. PICK y \in Deleted(p, Me(p), s) : Commit(p, y, {})
  BY DEF Delete
<1>2. /\ Good(p, Me(p)) /\ Calm(Me(p), Me(p)) /\ Me(p).kids = kids[p] /\ Me(p).down = down[p]
      /\ Me(p).sa[s].st = sa[p][s].st /\ Registered(p, s)
  BY Start, MeIs DEF Calm, Delete
<1> QED
  BY <1>1, <1>2, DeletedGood

LEMMA DeleteJobStep ==
  ASSUME Inv, NEW p \in Peers, NEW s \in SAs, DeleteJob(p, s)
  PROVE  Inv' /\ NothingLost
<1>1. PICK x : x = [Me(p) EXCEPT !.sa[s].job = FALSE]
  OBVIOUS
<1>2. PICK y \in Deleted(p, x, s) : Commit(p, y, {})
  BY <1>1 DEF DeleteJob
<1>3. Registered(p, s) /\ Me(p).sa[s].st \notin {"none", "held", "gone"}
  BY MeIs DEF DeleteJob, Registered
<1>4. /\ Good(p, x) /\ Calm(Me(p), x) /\ x.kids = kids[p] /\ x.down = down[p]
      /\ x.sa[s].st = sa[p][s].st
  BY <1>1, <1>3, Start, Unscheduled, MeIs
<1> QED
  BY <1>2, <1>3, <1>4, DeletedGood

LEMMA GiveUpStep ==
  ASSUME Inv, NEW p \in Peers, NEW s \in SAs, GiveUp(p, s)
  PROVE  Inv' /\ NothingLost
<1>1. PICK y : y = Destroy(ReportDown(Me(p), s), s)
  OBVIOUS
<1>2. Commit(p, y, {})
  BY <1>1 DEF GiveUp
<1>3. Me(p).sa[s].st \notin {"none", "held"} /\ Me(p).kids = kids[p]
  BY MeIs DEF GiveUp, Registered
<1>4. Good(p, y) /\ Calm(Me(p), y) /\ (y.kids = NoSA => kids[p] = NoSA \/ kids[p] \in y.down)
  BY <1>1, <1>3, Start, DestroyReported
<1> QED
  BY <1>2, <1>4, Done DEF Turn, Reports

-----------------------------------------------------------------------------
(* The handlers of messages.                                                 *)

LEMMA Arrived ==
  ASSUME Inv, NEW p \in Peers, NEW m \in net, m.to = p
  PROVE  /\ m \in Messages /\ m.sa \in SAs /\ m.new \in SAs \cup {NoSA}
         /\ m.kind = "rekey" => m.new \in New(Other(p)) /\ m.new \in SAs /\ m.new # NoSA
                                /\ sa[p][m.new].st = "none"
<1>1. m \in Messages
  BY DEF Inv, Fresh
<1>2. m.kind = "rekey" => m.new \in New(Other(p)) /\ sa[p][m.new].st = "none"
  BY DEF Inv, Fresh
<1> QED
  BY <1>1, <1>2, NewSAs DEF Messages

\* The new IKE_SA n of a request that p has just heard of.
Hear(w, n) == [w EXCEPT !.sa[n].st = "held"]

LEMMA HearGood ==
  ASSUME NEW p \in Peers, NEW w, Good(p, w), NEW n \in SAs, w.sa[n].st = "none",
         NEW x, x = Hear(w, n)
  PROVE  /\ Good(p, x) /\ Nones(x) = Nones(w) \ {n} /\ Asked(x) = Asked(w)
         /\ x.kids = w.kids /\ x.down = w.down /\ x.sa[n].st = "held" /\ Free(x, {}, n)
         /\ \A t \in SAs \ {n} : x.sa[t] = w.sa[t]
<1>0. /\ w \in Side(p) /\ Distinct(w.sa) /\ Parent(w.sa, w.kids) /\ Fine(w.sa, n)
      /\ w.sa[n] \in Info(p) /\ Almost(p, w, {})
  BY Fields DEF Good, Almost
<1>1. PICK i : i = In(w.sa[n], "held")
  OBVIOUS
<1>2. i \in Info(p) /\ i.st = "held" /\ Bare(i) /\ i.new = NoSA /\ i.coll = NoSA
  <2>1. i \in Info(p)
    BY <1>0, <1>1, Becomes DEF States
  <2>2. Bare(w.sa[n])
    BY <1>0 DEF Fine
  <2> QED
    BY <1>0, <1>1, <2>1, <2>2, Becoming DEF Bare
<1>3. PICK z : z = Put(w, n, i)
  OBVIOUS
<1>4. z \in Side(p) /\ Only(w, z, n, i) /\ z.sent = w.sent
  BY <1>0, <1>2, <1>3, Updated
<1>5. Changed(w, z, {n}) /\ LetGo(w, z, {n}) /\ Released(w, z, {}, {n})
  BY <1>2, <1>4 DEF Only, Changed, LetGo, Released
<1>6. Distinct(z.sa)
  BY <1>0, <1>5, StillDistinct
<1>7. Parent(z.sa, z.kids)
  <2>1. w.kids # NoSA => w.kids \in SAs /\ w.kids # n
    BY <1>0 DEF Side, Parent
  <2> QED
    BY <1>0, <1>4, <2>1 DEF Parent, Only
<1>8. Fine(z.sa, n)
  BY <1>2, <1>4 DEF Fine, Only, Bare
<1>9. Good(p, z)
  BY <1>0, <1>4, <1>5, <1>6, <1>7, <1>8, Patched DEF Good
<1>10. Nones(z) = Nones(w) \ {n} /\ Asked(z) = Asked(w)
  BY <1>2, <1>4 DEF Nones, Asked, Only
<1>11. Free(z, {}, n)
  <2>1. Free(w, {}, n)
    BY <1>0, Unheard
  <2> QED
    BY <1>2, <1>4, <2>1, NewSAs DEF Free, Only
<1>12. x = z
  BY <1>0, <1>1, <1>3 DEF Hear, Put, In, Side, Info
<1> QED
  BY <1>2, <1>4, <1>9, <1>10, <1>11, <1>12 DEF Only

LEMMA CollideGood ==
  ASSUME NEW p \in Peers, NEW x, Good(p, x), NEW s \in SAs, x.sa[s].st = "rekeying",
         NEW n \in New(Other(p)), x.sa[n].st = "held", Free(x, {}, n),
         NEW z, z = Collide(x, s, n)
  PROVE  Good(p, z) /\ Calm(x, z) /\ z.kids = x.kids /\ z.down = x.down
<1> DEFINE c == x.sa[s].coll
<1>0. /\ x \in Side(p) /\ Distinct(x.sa) /\ Parent(x.sa, x.kids) /\ Fine(x.sa, s)
      /\ x.sa[s] \in Info(p) /\ n \in SAs /\ n # NoSA /\ n # s /\ NoSA \notin SAs
  BY Fields, NewSAs DEF Good, Almost
<1>1. /\ c # NoSA => c \in SAs /\ c # s /\ x.sa[c].st = "held" /\ Free(x, {s}, c)
      /\ c # n /\ Free(x, {s}, n) /\ x.sa[s].task = "rekey"
      /\ x.sa[s].new \in SAs /\ x.sa[x.sa[s].new].st = "held"
      /\ x.sa[s].new # c /\ x.sa[s].new # s /\ x.sa[s].new # NoSA
  BY <1>0, Fields, Holder DEF Fine, Free
<1>2. PICK i : i = [x.sa[s] EXCEPT !.coll = n, !.met = TRUE]
  OBVIOUS
<1>3. /\ i \in Info(p) /\ i.st = "rekeying" /\ i.task = "rekey" /\ i.new = x.sa[s].new
      /\ i.coll = n /\ i.rekeyed = x.sa[s].rekeyed
  BY <1>0, <1>1, <1>2 DEF Info
<1>4. PICK y : y = IF c # NoSA THEN Put(x, c, GoneSA) ELSE x
  OBVIOUS
<1>5. /\ y \in Side(p) /\ y.sent = x.sent /\ y.kids = x.kids /\ y.down = x.down
      /\ \A t \in SAs \ {c} : y.sa[t] = x.sa[t]
      /\ c # NoSA => y.sa[c] = GoneSA
  <2>1. CASE c = NoSA
    BY <1>0, <1>4, <2>1
  <2>2. CASE c # NoSA
    <3>1. y = Put(x, c, GoneSA) /\ GoneSA \in Info(p) /\ c \in SAs
      BY <1>1, <1>4, <2>2, GoneIs
    <3>2. y \in Side(p) /\ Only(x, y, c, GoneSA) /\ y.sent = x.sent
      BY <1>0, <3>1, Updated
    <3> QED
      BY <3>2 DEF Only
  <2> QED
    BY <2>1, <2>2
<1>6. PICK v : v = Put(y, s, i)
  OBVIOUS
<1>7. v \in Side(p) /\ Only(y, v, s, i) /\ v.sent = x.sent
  BY <1>3, <1>5, <1>6, Updated
<1>8. z = v
  <2>1. y.sa[s] = x.sa[s]
    BY <1>1, <1>5, <1>0
  <2>2. z = [y EXCEPT !.sa[s] = [y.sa[s] EXCEPT !.coll = n, !.met = TRUE]]
    <3>1. CASE c = NoSA
      BY <1>4, <3>1 DEF Collide
    <3>2. CASE c # NoSA
      <4>1. c # NoSA /\ x.sa[c].st = "held"
        BY <1>1, <3>2
      <4>2. y = [x EXCEPT !.sa[c] = [Blank EXCEPT !.st = "gone"]]
        BY <1>4, <3>2 DEF Put, GoneSA
      <4> QED
        BY <4>1, <4>2 DEF Collide
    <3> QED
      BY <3>1, <3>2
  <2> QED
    BY <1>2, <1>6, <2>1, <2>2 DEF Put
<1>9. /\ z \in Side(p) /\ z.kids = x.kids /\ z.down = x.down /\ z.sent = x.sent
      /\ z.sa[s] = i /\ (c # NoSA => z.sa[c] = GoneSA)
      /\ \A t \in SAs \ {s, c} : z.sa[t] = x.sa[t]
  BY <1>0, <1>1, <1>5, <1>7, <1>8 DEF Only
<1> DEFINE T == {s, c} \ {NoSA}
<1>10. T \in SUBSET SAs /\ Changed(x, z, T)
  BY <1>0, <1>1, <1>9 DEF Changed
<1>11. Released(x, z, {}, T)
  BY <1>0, <1>1 DEF Released, Free
<1>12. GoneSA.new = NoSA /\ GoneSA.coll = NoSA /\ GoneSA.st = "gone" /\ Bare(GoneSA)
  BY GoneIs DEF GoneSA, Blank
<1>13. \A t \in SAs : /\ z.sa[t].new \in {x.sa[t].new, NoSA}
                      /\ t # s => z.sa[t].coll \in {x.sa[t].coll, NoSA}
  BY <1>0, <1>3, <1>9, <1>12
<1>14. Distinct(z.sa)
  <2>1. \A t \in SAs \ {s} : x.sa[t].coll # n /\ z.sa[t].coll # n
    BY <1>0, <1>1, <1>13 DEF Free
  <2> QED
    BY <1>0, <1>3, <1>9, <1>13, <2>1 DEF Distinct
<1>15. Parent(z.sa, z.kids)
  <2>1. x.kids # NoSA => x.kids \in SAs /\ x.kids # c
    BY <1>0, <1>1 DEF Side, Parent
  <2> QED
    BY <1>0, <1>3, <1>9, <2>1 DEF Parent
<1>16. Fine(z.sa, s)
  <2>1. z.sa[n] = x.sa[n] /\ z.sa[x.sa[s].new] = x.sa[x.sa[s].new]
    BY <1>0, <1>1, <1>9
  <2> QED
    BY <1>0, <1>1, <1>3, <1>9, <2>1 DEF Fine
<1>17. c # NoSA => Fine(z.sa, c)
  BY <1>9, <1>12 DEF Fine, Bare
<1>18. Good(p, z)
  BY <1>9, <1>10, <1>11, <1>14, <1>15, <1>16, <1>17, Patched DEF Good
<1>19. Calm(x, z)
  <2>1. \A t \in SAs : x.sa[t].st = "none" <=> z.sa[t].st = "none"
    BY <1>0, <1>1, <1>3, <1>9, <1>12
  <2> QED
    BY <1>9, <2>1 DEF Calm, Nones, Asked
<1> QED
  BY <1>9, <1>18, <1>19

\* An IKE_SA that the peer's rekeying replaces waits for the peer's delete.
Yield(x, s, n) == [Establish(x, s, n) EXCEPT !.sa[s].job = TRUE]

LEMMA YieldGood ==
  ASSUME NEW p \in Peers, NEW x, Good(p, x), NEW s \in SAs, x.sa[s].st = "established",
         NEW n \in SAs, n # s, x.sa[n].st = "held", Free(x, {}, n),
         NEW v, v = Yield(x, s, n)
  PROVE  Good(p, v) /\ Calm(x, v) /\ (v.kids = NoSA <=> x.kids = NoSA)
<1>1. PICK e : e = Establish(x, s, n)
  OBVIOUS
<1>2. /\ Almost(p, x, {s}) /\ Free(x, {s}, n) /\ x \in Side(p) /\ Fine(x.sa, s)
      /\ x.sa[s] \in Info(p)
  BY Fields DEF Good, Almost, Free
<1>3. /\ Almost(p, e, {s}) /\ Calm(x, e) /\ e.kids # s /\ (e.kids = NoSA <=> x.kids = NoSA)
      /\ e.sa[s] = Aside(x.sa[s])
  <2>1. x.sa[s].st \notin {"none", "held"}
    OBVIOUS
  <2> QED
    <3>1. Established(p, x, e, s, n)
      BY <1>1, <1>2, <2>1, EstablishAlmost
    <3> QED
      BY <3>1 DEF Established
<1>4. e \in Side(p) /\ Distinct(e.sa) /\ Parent(e.sa, e.kids) /\ e.sa[s] \in Info(p)
  BY <1>3, Fields DEF Almost
<1>5. /\ e.sa[s].st = "rekeyed" /\ e.sa[s].task # "rekey" /\ e.sa[s].new = NoSA
      /\ e.sa[s].coll = NoSA /\ ~e.sa[s].met
  BY <1>2, <1>3, Becoming DEF Fine
<1>6. PICK i : i = [e.sa[s] EXCEPT !.job = TRUE]
  OBVIOUS
<1>7. /\ i \in Info(p) /\ i.st = "rekeyed" /\ i.task # "rekey" /\ i.new = NoSA
      /\ i.coll = NoSA /\ ~i.met
  BY <1>4, <1>5, <1>6 DEF Info
<1>8. PICK z : z = Put(e, s, i)
  OBVIOUS
<1>9. z \in Side(p) /\ Only(e, z, s, i) /\ z.sent = e.sent
  BY <1>4, <1>7, <1>8, Updated
<1>10. Changed(e, z, {s}) /\ LetGo(e, z, {s}) /\ Released(e, z, {s}, {s})
  BY <1>5, <1>7, <1>9 DEF Only, Changed, LetGo, Released
<1>11. Distinct(z.sa)
  BY <1>4, <1>10, StillDistinct
<1>12. Parent(z.sa, z.kids)
  <2>1. e.kids # NoSA => e.kids \in SAs
    BY <1>4 DEF Side
  <2> QED
    BY <1>3, <1>4, <1>9, <2>1 DEF Parent, Only
<1>13. Fine(z.sa, s)
  BY <1>7, <1>9 DEF Fine, Only
<1>14. Good(p, z)
  <2>1. {s} \in SUBSET SAs /\ {} \in SUBSET SAs
    OBVIOUS
  <2> QED
    BY <1>3, <1>9, <1>10, <1>11, <1>12, <1>13, <2>1, Patched DEF Good
<1>15. Calm(e, z)
  BY <1>5, <1>7, <1>9 DEF Calm, Nones, Asked, Only
<1>16. v = z
  BY <1>1, <1>4, <1>6, <1>8 DEF Yield, Put, Side, Info
<1> QED
  BY <1>3, <1>9, <1>14, <1>15, <1>16 DEF Calm, Only

LEMMA ProcessRekeyStep ==
  ASSUME Inv, NEW p \in Peers, NEW m, ProcessRekey(p, m)
  PROVE  Inv' /\ NothingLost
<1> DEFINE s == m.sa
           n == m.new
<1>1. /\ m \in net /\ m.to = p /\ m.kind = "rekey" /\ Registered(p, s)
      /\ sa[p][s].st # "rekeyed"
  BY DEF ProcessRekey
<1>2. /\ s \in SAs /\ n \in SAs /\ n \in New(Other(p)) /\ sa[p][n].st = "none"
      /\ n \in SAs \cup {NoSA}
  BY <1>1, Arrived
<1>3. n # s /\ sa[p][s].st \notin {"none", "held", "gone"}
  BY <1>1, <1>2 DEF Registered
<1>4. /\ Good(p, Me(p)) /\ Almost(p, Me(p), {}) /\ {} \in SUBSET SAs
      /\ Me(p).sa = sa[p] /\ Me(p).kids = kids[p] /\ Asked(Me(p)) = {}
  BY Start, MeIs
<1>5. PICK w : w = Me(p)
  OBVIOUS
<1>6. PICK x : x = Hear(w, n)
  OBVIOUS
<1>7. /\ Good(p, x) /\ Nones(x) = Nones(Me(p)) \ {n} /\ Asked(x) = {} /\ x.kids = kids[p]
      /\ x.sa[n].st = "held" /\ Free(x, {}, n) /\ x.sa[s] = sa[p][s]
  <2>1. Good(p, w) /\ w.sa[n].st = "none"
    BY <1>2, <1>4, <1>5
  <2>2. /\ Good(p, x) /\ Nones(x) = Nones(w) \ {n} /\ Asked(x) = Asked(w)
        /\ x.kids = w.kids /\ x.sa[n].st = "held" /\ Free(x, {}, n)
        /\ \A t \in SAs \ {n} : x.sa[t] = w.sa[t]
    BY <1>2, <1>6, <2>1, HearGood
  <2> QED
    BY <1>2, <1>3, <1>4, <1>5, <2>2
<1>8. ASSUME NEW v, Good(p, v), Calm(x, v), v.kids = NoSA => x.kids = NoSA,
             Commit(p, Send(p, v, s, "rekey_ok", n), {m})
      PROVE  Inv' /\ NothingLost
  <2>1. PICK y : y = Send(p, v, s, "rekey_ok", n)
    OBVIOUS
  <2>2. "rekey_ok" \in Kinds \ {"rekey"} /\ Almost(p, v, {})
    BY <1>8 DEF Kinds, Good
  <2>3. Almost(p, y, {}) /\ Calm(v, y) /\ y.kids = v.kids
    BY <1>2, <1>4, <2>1, <2>2, SendGood
  <2>4. Hears(p, y, m)
    BY <1>1, <1>7, <1>8, <2>3 DEF Hears, Calm
  <2> QED
    BY <1>7, <1>8, <2>1, <2>3, <2>4, Done DEF Turn, Reports, Good
<1>9. CASE Commit(p, Send(p, Me(p), s, "rekey_failed", n), {m})
  <2>1. PICK y : y = Send(p, Me(p), s, "rekey_failed", n)
    OBVIOUS
  <2>2. "rekey_failed" \in Kinds \ {"rekey"}
    BY DEF Kinds
  <2>3. Almost(p, y, {}) /\ Calm(Me(p), y) /\ y.kids = Me(p).kids
    BY <1>2, <1>4, <2>1, <2>2, SendGood
  <2> QED
    BY <1>4, <1>9, <2>1, <2>3, Done DEF Turn, Reports, Good
<1>10. CASE /\ sa[p][s].st = "rekeying"
            /\ Commit(p, Send(p, Collide(x, s, n), s, "rekey_ok", n), {m})
  <2>1. PICK v : v = Collide(x, s, n)
    OBVIOUS
  <2>2. Good(p, v) /\ Calm(x, v) /\ v.kids = x.kids
    BY <1>2, <1>7, <1>10, <2>1, CollideGood
  <2> QED
    BY <1>8, <1>10, <2>1, <2>2
<1>11. CASE /\ sa[p][s].st \notin {"rekeying", "deleting"}
            /\ Commit(p, Send(p, Yield(x, s, n), s, "rekey_ok", n), {m})
  <2>1. PICK v : v = Yield(x, s, n)
    OBVIOUS
  <2>2. x.sa[s].st = "established"
    <3>1. x \in Side(p)
      BY <1>7 DEF Good, Almost
    <3>2. x.sa[s].st \in States
      BY <1>2, <3>1, Fields
    <3> QED
      BY <1>1, <1>3, <1>7, <1>11, <3>2 DEF States
  <2>3. Good(p, v) /\ Calm(x, v) /\ (v.kids = NoSA <=> x.kids = NoSA)
    BY <1>2, <1>3, <1>7, <2>1, <2>2, YieldGood
  <2>4. Commit(p, Send(p, v, s, "rekey_ok", n), {m})
    BY <1>11, <2>1
  <2> QED
    BY <1>8, <2>3, <2>4
<1> QED
  BY <1>5, <1>6, <1>9, <1>10, <1>11 DEF ProcessRekey, Hear, Yield

\* What the peer established in a collision with our rekeying replaces s.
Met(x, s) == x.sa[s].met

LEMMA ConcludeAlmost ==
  ASSUME NEW p \in Peers, NEW x, Good(p, x), NEW s \in SAs,
         x.sa[s].st \notin {"none", "held", "gone"}, Met(x, s), x.sa[s].task = "rekey",
         NEW y, y = ConcludeUndetected(x, s)
  PROVE  /\ Almost(p, y, {s}) /\ Calm(x, y) /\ y.kids # s
         /\ (y.kids = NoSA <=> x.kids = NoSA) /\ y.sa[s].st = "rekeyed"
<1>1. PICK c : c = x.sa[s].coll
  OBVIOUS
<1>2. x \in Side(p) /\ Distinct(x.sa) /\ Fine(x.sa, s) /\ Almost(p, x, {s})
      /\ x.sa[s] \in Info(p)
  BY Fields DEF Good, Almost
<1>3. x.sa[s].st = "rekeying" /\ c # NoSA /\ x.sa[c].st = "held" /\ c # s
  BY <1>1, <1>2 DEF Fine, Met
<1>4. c \in SAs /\ Free(x, {s}, c) /\ x.sa[s].st \notin {"none", "held"}
  <2>1. c \in {x.sa[s].new, x.sa[s].coll} \ {NoSA}
    BY <1>1, <1>3
  <2>2. c \in SAs /\ Free(x, {s}, c)
    BY <1>2, <2>1, Holder
  <2> QED
    BY <2>2
<1>5. PICK z : z = Establish(x, s, c)
  OBVIOUS
<1>6. /\ Almost(p, z, {s}) /\ Calm(x, z) /\ z.kids # s /\ (z.kids = NoSA <=> x.kids = NoSA)
      /\ z.sa[s] = Aside(x.sa[s])
  <2>1. x.sa[s].st \notin {"none", "held"}
    BY <1>3
  <2>2. c \in SAs /\ c # s /\ x.sa[c].st = "held" /\ Free(x, {s}, c) /\ Almost(p, x, {s})
    BY <1>2, <1>3, <1>4
  <2>3. Established(p, x, z, s, c)
    BY <1>5, <2>1, <2>2, EstablishAlmost
  <2> QED
    BY <2>3 DEF Established
<1>7. z.sa[s].st = "rekeyed"
  BY <1>2, <1>6, Becoming
<1>8. y = z
  BY <1>1, <1>5 DEF ConcludeUndetected, Met
<1> QED
  BY <1>6, <1>7, <1>8

LEMMA ProcessDeleteStep ==
  ASSUME Inv, NEW p \in Peers, NEW m, ProcessDelete(p, m)
  PROVE  Inv' /\ NothingLost
<1> DEFINE i == sa[p][m.sa]
<1>1. /\ m \in net /\ m.to = p /\ m.kind = "delete" /\ Registered(p, m.sa)
  BY DEF ProcessDelete
<1>2. PICK s \in SAs : s = m.sa
  BY <1>1, Arrived
<1>3. /\ Almost(p, Me(p), {}) /\ {} \in SUBSET SAs
      /\ Me(p).sa = sa[p] /\ Me(p).kids = kids[p] /\ Me(p).down = down[p]
      /\ Fine(sa[p], s) /\ Parent(sa[p], kids[p]) /\ sa[p][s] = i /\ i \in Info(p)
  BY <1>2, Start, MeIs
<1>4. i.st \notin {"none", "held", "gone"}
  BY <1>1, <1>2, <1>3 DEF Registered
<1>5. PICK x : x = Send(p, Me(p), s, "deleted", NoSA)
  OBVIOUS
<1>6. Good(p, x) /\ Calm(Me(p), x) /\ x.sa = sa[p] /\ x.kids = kids[p]
  <2>1. "deleted" \in Kinds \ {"rekey"}
    BY DEF Kinds
  <2> QED
    BY <1>3, <1>5, <2>1, SendGood DEF Good
<1>7. PICK y : y = IF i.task \in {"rekey", "rekdel"} THEN ConcludeUndetected(x, s) ELSE x
  OBVIOUS
<1>8. /\ Almost(p, y, {s}) /\ Calm(x, y) /\ (y.kids = NoSA <=> x.kids = NoSA)
      /\ y.sa[s].st \notin {"none", "held"}
      /\ i.st = "rekeying" /\ i.met => y.kids # s
      /\ y.kids # s \/ (y = x)
  <2>1. CASE i.task = "rekey" /\ i.met
    <3>1. y = ConcludeUndetected(x, s) /\ x.sa[s] = i /\ Met(x, s)
      BY <1>3, <1>6, <1>7, <2>1 DEF Met
    <3>2. /\ Almost(p, y, {s}) /\ Calm(x, y) /\ y.kids # s
          /\ (y.kids = NoSA <=> x.kids = NoSA) /\ y.sa[s].st = "rekeyed"
      BY <1>4, <1>6, <2>1, <3>1, ConcludeAlmost
    <3> QED
      BY <3>2
  <2>2. CASE i.task = "rekdel" /\ i.met
    <3>1. y = ConcludeUndetected(x, s) /\ x.sa[s] = i /\ i.coll = NoSA
      BY <1>3, <1>6, <1>7, <2>2 DEF Fine
    <3>2. y = x
      BY <2>2, <3>1 DEF ConcludeUndetected, Establish
    <3>3. ~(i.st = "rekeying" /\ i.met)
      BY <1>3, <2>2 DEF Fine
    <3>4. Almost(p, y, {s}) /\ Calm(x, y)
      BY <1>6, <3>2 DEF Good, Almost, Calm
    <3> QED
      BY <1>3, <1>4, <1>6, <3>2, <3>3, <3>4
  <2>3. CASE ~(i.task \in {"rekey", "rekdel"} /\ i.met)
    <3>1. y = x
      BY <1>3, <1>6, <1>7, <2>3 DEF ConcludeUndetected
    <3>2. ~(i.st = "rekeying" /\ i.met)
      BY <1>3, <2>3 DEF Fine
    <3> QED
      BY <1>3, <1>4, <1>6, <3>1, <3>2 DEF Good, Almost, Calm
  <2> QED
    BY <2>1, <2>2, <2>3
<1>9. PICK v : v = IF Replaced(i) THEN y ELSE ReportDown(y, s)
  OBVIOUS
<1>10. /\ Almost(p, v, {s}) /\ Calm(y, v) /\ v.sa = y.sa /\ v.kids = y.kids
       /\ ~Replaced(i) => s \in v.down
  <2>1. CASE Replaced(i)
    BY <1>8, <1>9, <2>1 DEF Calm
  <2>2. CASE ~Replaced(i)
    <3>1. v = ReportDown(y, s) /\ {s} \in SUBSET SAs
      BY <1>9, <2>2
    <3> QED
      BY <1>8, <3>1, ReportGood
  <2> QED
    BY <2>1, <2>2
<1>11. PICK z : z = Destroy(v, s)
  OBVIOUS
<1>12. /\ Good(p, z) /\ Calm(v, z) /\ z.down = v.down
       /\ z.kids = (IF v.kids = s THEN NoSA ELSE v.kids)
  BY <1>8, <1>10, <1>11, DestroyGood
<1>13. Commit(p, z, {m})
  BY <1>2, <1>5, <1>7, <1>9, <1>11 DEF ProcessDelete
<1>14. Calm(Me(p), z)
  BY <1>6, <1>8, <1>10, <1>12 DEF Calm
<1>15. Reports(p, z)
  <2>1. ASSUME kids[p] # NoSA, z.kids = NoSA PROVE kids[p] \in z.down
    <3>1. v.kids = s /\ y.kids = s /\ y = x
      BY <1>6, <1>8, <1>10, <1>12, <2>1
    <3>2. kids[p] = s
      BY <1>6, <3>1
    <3>3. ~Replaced(i)
      BY <1>3, <1>8, <2>1, <3>1, <3>2 DEF Replaced, Parent
    <3> QED
      BY <1>10, <1>12, <3>2, <3>3
  <2> QED
    BY <2>1 DEF Reports
<1> QED
  BY <1>12, <1>13, <1>14, <1>15, Done DEF Turn

LEMMA DeleteDoneStep ==
  ASSUME Inv, NEW p \in Peers, NEW m, DeleteDone(p, m)
  PROVE  Inv' /\ NothingLost
<1>1. /\ m \in net /\ m.to = p /\ Registered(p, m.sa)
  BY DEF DeleteDone, Answers
<1>2. PICK s \in SAs : s = m.sa
  BY <1>1, Arrived
<1>3. /\ Almost(p, Me(p), {}) /\ {} \in SUBSET SAs /\ Good(p, Me(p)) /\ Almost(p, Me(p), {s})
      /\ Me(p).sa = sa[p] /\ Me(p).kids = kids[p]
      /\ Parent(sa[p], kids[p]) /\ sa[p][s] \in Info(p)
  BY <1>2, Start, MeIs
<1>4. Me(p).sa[s].st \notin {"none", "held"}
  BY <1>1, <1>2, <1>3 DEF Registered
<1>5. CASE sa[p][s].rekeyed
  <2>1. PICK z : z = Destroy(Me(p), s)
    OBVIOUS
  <2>2. Commit(p, z, {m})
    BY <1>2, <1>5, <2>1 DEF DeleteDone
  <2>3. Good(p, z) /\ Calm(Me(p), z) /\ z.kids = (IF kids[p] = s THEN NoSA ELSE kids[p])
    BY <1>3, <1>4, <2>1, DestroyGood
  <2>4. kids[p] # s
    BY <1>3, <1>5, NewSAs DEF Parent
  <2> QED
    BY <2>2, <2>3, <2>4, Done DEF Turn, Reports
<1>6. CASE ~sa[p][s].rekeyed
  <2>1. PICK z : z = Destroy(ReportDown(Me(p), s), s)
    OBVIOUS
  <2>2. Commit(p, z, {m})
    BY <1>2, <1>6, <2>1 DEF DeleteDone
  <2>3. Good(p, z) /\ Calm(Me(p), z) /\ (z.kids = NoSA => kids[p] = NoSA \/ kids[p] \in z.down)
    BY <1>3, <1>4, <2>1, DestroyReported
  <2> QED
    BY <2>2, <2>3, Done DEF Turn, Reports
<1> QED
  BY <1>5, <1>6

\* An IKE_SA n, held back by a task of s, gets a state of its own.
MayPut(x, s, n, i) ==
  /\ x.sa[n].st # "held" \/ Free(x, {s}, n)
  /\ x.sa[n].st # "none" /\ i.st # "none"
  /\ i.new \in {x.sa[n].new, NoSA} /\ i.coll \in {x.sa[n].coll, NoSA}
  /\ x.kids # n \/ (i.st = "established" /\ i.rekeyed = x.sa[n].rekeyed)

HasPut(p, x, y, s, n, i) ==
  /\ Almost(p, y, {s, n}) /\ Calm(x, y) /\ y.kids = x.kids /\ y.down = x.down
  /\ Only(x, y, n, i)

LEMMA PutAlmost ==
  ASSUME NEW p \in Peers, NEW x, NEW s \in SAs, Almost(p, x, {s}), NEW n \in SAs,
         NEW i \in Info(p), MayPut(x, s, n, i), NEW y, y = Put(x, n, i)
  PROVE  HasPut(p, x, y, s, n, i)
<1>1. x \in Side(p) /\ Distinct(x.sa) /\ Parent(x.sa, x.kids)
  BY DEF Almost
<1>2. y \in Side(p) /\ Only(x, y, n, i) /\ y.sent = x.sent
  BY <1>1, Updated
<1>3. Changed(x, y, {n}) /\ LetGo(x, y, {n}) /\ {n} \in SUBSET SAs
  BY <1>2 DEF Only, Changed, LetGo, MayPut
<1>4. Distinct(y.sa)
  BY <1>1, <1>3, StillDistinct
<1>5. Parent(y.sa, y.kids)
  <2>1. x.kids # NoSA => x.kids \in SAs
    BY <1>1 DEF Side
  <2> QED
    BY <1>1, <1>2, <2>1 DEF Parent, Only, MayPut
<1>6. ASSUME NEW t \in SAs \ {s, n} PROVE Fine(y.sa, t)
  <2>1. Fine(x.sa, t) /\ y.sa[t] = x.sa[t]
    BY <1>2 DEF Almost, Only
  <2>2. /\ x.sa[t].new # NoSA => x.sa[t].new \in SAs
        /\ x.sa[t].coll # NoSA => x.sa[t].coll \in SAs
    BY <1>1, Fields
  <2>3. x.sa[n].st = "held" => x.sa[t].new # n /\ x.sa[t].coll # n
    BY DEF Free, MayPut
  <2> QED
    BY <1>2, <2>1, <2>2, <2>3 DEF Fine, Only
<1>7. Almost(p, y, {s, n})
  BY <1>2, <1>4, <1>5, <1>6 DEF Almost
<1>8. Calm(x, y)
  BY <1>2 DEF Calm, Nones, Asked, Only, MayPut
<1> QED
  BY <1>2, <1>7, <1>8 DEF Only, HasPut

\* The answer to a rekey request finds the task and what it holds.
LEMMA Answered ==
  ASSUME Inv, NEW p \in Peers, NEW m, NEW kind \in {"rekey_ok", "rekey_failed"},
         Answers(p, m, kind), NEW s, s = m.sa
  PROVE  /\ m \in net /\ s \in SAs /\ m.new \in SAs /\ sa[p][s].new = m.new
         /\ sa[p][s].task = "rekey" /\ sa[p][s].st = "rekeying"
         /\ sa[p][m.new].st = "held" /\ Bare(sa[p][m.new]) /\ m.new # s /\ kids[p] # m.new
         /\ sa[p][s].met => /\ sa[p][s].coll \in SAs /\ sa[p][sa[p][s].coll].st = "held"
                            /\ Bare(sa[p][sa[p][s].coll]) /\ sa[p][s].coll # m.new
                            /\ sa[p][s].coll # s /\ kids[p] # sa[p][s].coll
         /\ Almost(p, Me(p), {s}) /\ Me(p).sa = sa[p] /\ Me(p).kids = kids[p]
         /\ Me(p) \in Side(p)
<1>1. /\ m \in net /\ m.to = p /\ Registered(p, s) /\ sa[p][s].task = "rekey"
      /\ sa[p][s].new = m.new
  BY DEF Answers
<1>2. s \in SAs
  BY <1>1, Arrived
<1>3. /\ Me(p) \in Side(p) /\ Me(p).sa = sa[p] /\ Me(p).kids = kids[p] /\ Almost(p, Me(p), {s})
      /\ \A t \in SAs : Fine(sa[p], t)
      /\ Parent(sa[p], kids[p])
  BY <1>2, Start, MeIs
<1>4. /\ sa[p][s].st = "rekeying" /\ m.new # NoSA /\ sa[p][m.new].st = "held"
      /\ sa[p][s].met => sa[p][s].coll # NoSA /\ sa[p][sa[p][s].coll].st = "held"
  BY <1>1, <1>2, <1>3 DEF Fine
<1>5. PICK x \in Side(p) : x = Me(p)
  BY <1>3
<1>6. /\ m.new \in SAs /\ (sa[p][s].coll # NoSA => sa[p][s].coll \in SAs)
      /\ sa[p][s].coll # m.new
  BY <1>1, <1>2, <1>3, <1>4, <1>5, Fields
<1>7. \A t \in SAs : sa[p][t].st = "held" => Bare(sa[p][t]) /\ kids[p] # t
  BY <1>3, NewSAs DEF Fine, Parent
<1> QED
  BY <1>1, <1>2, <1>3, <1>4, <1>6, <1>7

LEMMA RekeyFailedStep ==
  ASSUME Inv, NEW p \in Peers, NEW m, RekeyFailed(p, m)
  PROVE  Inv' /\ NothingLost
<1>1. PICK s : s = m.sa
  OBVIOUS
<1>2. Answers(p, m, "rekey_failed") /\ "rekey_failed" \in {"rekey_ok", "rekey_failed"}
  BY DEF RekeyFailed
<1>3. /\ s \in SAs /\ sa[p][s].task = "rekey" /\ sa[p][s].st = "rekeying"
      /\ Almost(p, Me(p), {s}) /\ Me(p).sa = sa[p] /\ Me(p).kids = kids[p] /\ Me(p) \in Side(p)
  BY <1>1, <1>2, Answered
<1>4. PICK w \in Side(p) : w = Me(p)
  BY <1>3
<1>5. PICK x : x = IF sa[p][s].met THEN ConcludeUndetected(w, s)
                   ELSE [w EXCEPT !.sa[s].st = "established"]
  OBVIOUS
<1>6. PICK y \in Initiate(p, EndRekey(x, s), s) : Commit(p, y, {m})
  BY <1>1, <1>4, <1>5 DEF RekeyFailed
<1>7. /\ Almost(p, x, {s}) /\ Calm(Me(p), x) /\ (x.kids = NoSA <=> kids[p] = NoSA)
      /\ x.sa[s].st \in {"established", "rekeyed"}
  <2>1. CASE sa[p][s].met
    <3>1. x = ConcludeUndetected(w, s) /\ Met(w, s)
      BY <1>3, <1>4, <1>5, <2>1 DEF Met
    <3>2. Good(p, w) /\ w.sa[s].st = "rekeying" /\ w.sa[s].task = "rekey" /\ w.kids = kids[p]
      BY <1>3, <1>4, Start
    <3>3. /\ Almost(p, x, {s}) /\ Calm(w, x) /\ (x.kids = NoSA <=> w.kids = NoSA)
          /\ x.sa[s].st = "rekeyed"
      BY <1>3, <3>1, <3>2, ConcludeAlmost
    <3> QED
      BY <1>4, <3>2, <3>3
  <2>2. CASE ~sa[p][s].met
    <3>1. PICK i : i = In(w.sa[s], "established")
      OBVIOUS
    <3>2. w.sa[s] \in Info(p) /\ w.sa[s].st = "rekeying" /\ w.kids = kids[p] /\ Almost(p, w, {s})
      BY <1>3, <1>4, Fields
    <3>3. /\ i \in Info(p) /\ i.st = "established" /\ i.new = w.sa[s].new
          /\ i.coll = w.sa[s].coll /\ i.rekeyed = w.sa[s].rekeyed
      <4>1. "established" \in States
        BY DEF States
      <4>2. i \in Info(p)
        BY <3>1, <3>2, <4>1, Becomes
      <4> QED
        BY <3>1, <3>2, <4>2, Becoming
    <3>4. PICK z : z = Put(w, s, i)
      OBVIOUS
    <3>5. Almost(p, z, {s, s}) /\ Calm(w, z) /\ z.kids = w.kids /\ Only(w, z, s, i)
      <4>1. MayPut(w, s, s, i)
        BY <3>2, <3>3 DEF MayPut
      <4>2. HasPut(p, w, z, s, s, i)
        BY <1>3, <3>2, <3>3, <3>4, <4>1, PutAlmost
      <4> QED
        BY <4>2 DEF HasPut
    <3>6. x = z
      BY <1>4, <1>5, <2>2, <3>1, <3>2, <3>4 DEF Put, In, Side, Info
    <3>7. {s, s} = {s}
      OBVIOUS
    <3> QED
      BY <1>4, <3>2, <3>3, <3>5, <3>6, <3>7 DEF Only
  <2> QED
    BY <2>1, <2>2
<1>8. PICK e : e = EndRekey(x, s)
  OBVIOUS
<1>9. Good(p, e) /\ Calm(x, e) /\ e.kids = x.kids
  BY <1>3, <1>7, <1>8, EndRekeyGood
<1>10. Calm(Me(p), e)
  BY <1>7, <1>9 DEF Calm
<1> QED
  BY <1>3, <1>6, <1>7, <1>8, <1>9, <1>10, InitiateDone

LEMMA RekeyLostStep ==
  ASSUME Inv, NEW p \in Peers, NEW m, RekeyLost(p, m)
  PROVE  Inv' /\ NothingLost
<1>1. PICK s : s = m.sa
  OBVIOUS
<1>2. Answers(p, m, "rekey_ok") /\ "rekey_ok" \in {"rekey_ok", "rekey_failed"} /\ sa[p][s].met
  BY <1>1 DEF RekeyLost
<1>3. PICK n, c : n = m.new /\ c = sa[p][s].coll
  OBVIOUS
<1>4. /\ s \in SAs /\ n \in SAs /\ c \in SAs /\ n # s /\ c # s /\ c # n
      /\ sa[p][s].new = n /\ sa[p][s].st = "rekeying"
      /\ sa[p][n].st = "held" /\ Bare(sa[p][n]) /\ sa[p][c].st = "held"
      /\ kids[p] # n /\ Me(p) \in Side(p)
      /\ Almost(p, Me(p), {s}) /\ Me(p).sa = sa[p] /\ Me(p).kids = kids[p]
  BY <1>1, <1>2, <1>3, Answered
<1>5. PICK w \in Side(p) : w = Me(p)
  BY <1>4
<1>6. PICK x0 : x0 = [w EXCEPT !.sa[n].st = "rekeying"]
  OBVIOUS
<1>7. PICK x1 : x1 = SendDelete(p, x0, n, "delete")
  OBVIOUS
<1>8. PICK x2 : x2 = Establish(x1, s, c)
  OBVIOUS
<1>9. PICK x3 : x3 = EndRekey(x2, s)
  OBVIOUS
<1>10. PICK y \in Initiate(p, x3, s) : Commit(p, y, {m})
  BY <1>1, <1>3, <1>5, <1>6, <1>7, <1>8, <1>9 DEF RekeyLost
<1>11. /\ Almost(p, x0, {s, n}) /\ Calm(w, x0) /\ x0.kids = kids[p]
       /\ x0.sa[n].st = "rekeying" /\ x0.sa[n].new = NoSA /\ x0.sa[n].coll = NoSA
       /\ \A t \in SAs \ {n} : x0.sa[t] = sa[p][t]
  <2>1. PICK i : i = In(w.sa[n], "rekeying")
    OBVIOUS
  <2>2. /\ w.sa[n] \in Info(p) /\ w.sa = sa[p] /\ w.kids = kids[p] /\ Almost(p, w, {s})
        /\ Distinct(w.sa)
    BY <1>4, <1>5, Fields DEF Almost
  <2>3. i \in Info(p) /\ i.st = "rekeying" /\ i.new = NoSA /\ i.coll = NoSA
    <3>1. "rekeying" \in States
      BY DEF States
    <3>2. i \in Info(p)
      BY <2>1, <2>2, <3>1, Becomes
    <3>3. i.st = "rekeying" /\ i.new = w.sa[n].new /\ i.coll = w.sa[n].coll
      BY <2>1, <2>2, Becoming
    <3> QED
      BY <1>4, <2>2, <3>2, <3>3 DEF Bare
  <2>4. PICK z : z = Put(w, n, i)
    OBVIOUS
  <2>5. Free(w, {s}, n)
    <3>1. n \in {w.sa[s].new, w.sa[s].coll} \ {NoSA}
      BY <1>4, <2>2, NewSAs
    <3> QED
      BY <1>4, <2>2, <3>1, Holder
  <2>6. Almost(p, z, {s, n}) /\ Calm(w, z) /\ z.kids = w.kids /\ Only(w, z, n, i)
    <3>1. MayPut(w, s, n, i)
      BY <1>4, <2>2, <2>3, <2>5 DEF MayPut
    <3>2. HasPut(p, w, z, s, n, i)
      BY <1>4, <2>2, <2>3, <2>4, <3>1, PutAlmost
    <3> QED
      BY <3>2 DEF HasPut
  <2>7. x0 = z
    BY <1>6, <2>1, <2>2, <2>4 DEF Put, In, Side, Info
  <2> QED
    BY <2>2, <2>3, <2>6, <2>7 DEF Only
<1>12. /\ Almost(p, x1, {s}) /\ Calm(x0, x1) /\ x1.kids = kids[p]
       /\ \A t \in SAs \ {n} : x1.sa[t] = sa[p][t]
  <2>1. {s, n} \in SUBSET SAs /\ "delete" \in {"delete", "rekdel"} /\ MayDelete(x0, n)
    BY <1>4, <1>11 DEF MayDelete
  <2>2. /\ Almost(p, x1, {s, n} \ {n}) /\ Calm(x0, x1) /\ x1.kids = x0.kids
        /\ \A t \in SAs \ {n} : x1.sa[t] = x0.sa[t]
    <3>1. Deletes(p, x0, x1, n, {s, n})
      BY <1>4, <1>7, <1>11, <2>1, SendDeleteAlmost
    <3> QED
      BY <3>1 DEF Deletes
  <2>3. {s, n} \ {n} = {s}
    BY <1>4
  <2> QED
    BY <1>11, <2>2, <2>3
<1>13. Established(p, x1, x2, s, c)
  <2>1. x1.sa[s] = sa[p][s] /\ x1.sa[c] = sa[p][c] /\ x1 \in Side(p) /\ Distinct(x1.sa)
    BY <1>4, <1>12 DEF Almost
  <2>2. c \in {x1.sa[s].new, x1.sa[s].coll} \ {NoSA}
    BY <1>3, <1>4, <2>1, NewSAs
  <2>3. Free(x1, {s}, c)
    BY <1>4, <2>1, <2>2, Holder
  <2>4. x1.sa[s].st \notin {"none", "held"} /\ x1.sa[c].st = "held"
    BY <1>4, <2>1
  <2> QED
    BY <1>4, <1>8, <1>12, <2>3, <2>4, EstablishAlmost
<1>14. /\ Almost(p, x2, {s}) /\ Calm(x1, x2) /\ (x2.kids = NoSA <=> kids[p] = NoSA)
       /\ x2.sa[s].st = "rekeyed"
  <2>1. x1.sa[s] \in Info(p)
    BY <1>4, <1>12, Fields DEF Almost
  <2> QED
    BY <1>12, <1>13, <2>1, Becoming DEF Established
<1>15. Good(p, x3) /\ Calm(x2, x3) /\ x3.kids = x2.kids
  BY <1>4, <1>9, <1>14, EndRekeyGood
<1>16. Calm(Me(p), x3)
  BY <1>5, <1>11, <1>12, <1>14, <1>15 DEF Calm
<1> QED
  BY <1>4, <1>10, <1>14, <1>15, <1>16, InitiateDone

LEMMA RekeyWonStep ==
  ASSUME Inv, NEW p \in Peers, NEW m, RekeyWon(p, m)
  PROVE  Inv' /\ NothingLost
<1>1. PICK s : s = m.sa
  OBVIOUS
<1>2. Answers(p, m, "rekey_ok") /\ "rekey_ok" \in {"rekey_ok", "rekey_failed"}
  BY DEF RekeyWon
<1>3. PICK n, c : n = m.new /\ c = sa[p][s].coll
  OBVIOUS
<1>4. /\ s \in SAs /\ n \in SAs /\ n # s
      /\ sa[p][s].new = n /\ sa[p][s].st = "rekeying" /\ sa[p][n].st = "held"
      /\ sa[p][s].met => /\ c \in SAs /\ c # s /\ c # n /\ sa[p][c].st = "held"
                         /\ Bare(sa[p][c]) /\ kids[p] # c
      /\ kids[p] # n /\ Me(p) \in Side(p)
      /\ Almost(p, Me(p), {s}) /\ Me(p).sa = sa[p] /\ Me(p).kids = kids[p]
  BY <1>1, <1>2, <1>3, Answered
<1>5. PICK w \in Side(p) : w = Me(p)
  BY <1>4
<1>6. PICK x : x = IF ~sa[p][s].met THEN w
                   ELSE [w EXCEPT !.sa[c] = [sa[p][c] EXCEPT !.st = "rekeyed", !.job = TRUE]]
  OBVIOUS
<1>7. PICK y : y = Establish(x, s, n)
  OBVIOUS
<1>8. PICK v : v = [y EXCEPT !.sa[s] = [y.sa[s] EXCEPT !.new = NoSA, !.coll = NoSA]]
  OBVIOUS
<1>9. PICK z : z = SendDelete(p, v, s, "rekdel")
  OBVIOUS
<1>10. Commit(p, z, {m})
  BY <1>1, <1>3, <1>5, <1>6, <1>7, <1>8, <1>9 DEF RekeyWon
<1>11. w.sa = sa[p] /\ w.kids = kids[p] /\ Almost(p, w, {s}) /\ Distinct(w.sa)
  BY <1>4, <1>5 DEF Almost
<1>12. /\ Almost(p, x, {s}) /\ Calm(w, x) /\ x.kids = kids[p]
       /\ x.sa[s] = sa[p][s] /\ x.sa[n] = sa[p][n]
  <2>1. CASE ~sa[p][s].met
    <3>1. x = w
      BY <1>6, <2>1
    <3> QED
      BY <1>11, <3>1 DEF Calm
  <2>2. CASE sa[p][s].met
    <3>1. PICK i : i = [sa[p][c] EXCEPT !.st = "rekeyed", !.job = TRUE]
      OBVIOUS
    <3>2. /\ c \in SAs /\ c # s /\ c # n /\ sa[p][c].st = "held" /\ Bare(sa[p][c])
          /\ kids[p] # c /\ sa[p][c] \in Info(p)
      BY <1>4, <1>11, <2>2, Fields
    <3>3. /\ i \in Info(p) /\ i.st = "rekeyed" /\ i.new = NoSA /\ i.coll = NoSA
          /\ i.task = "none" /\ ~i.met
      BY <3>1, <3>2 DEF Info, Bare, States
    <3>4. c \in {w.sa[s].new, w.sa[s].coll} \ {NoSA}
      BY <1>3, <1>11, <3>2, NewSAs
    <3>5. Free(w, {s}, c)
      BY <1>4, <1>11, <3>4, Holder
    <3>6. MayPut(w, s, c, i)
      BY <1>11, <3>2, <3>3, <3>5 DEF MayPut
    <3>7. x = Put(w, c, i)
      BY <1>6, <2>2, <3>1 DEF Put
    <3>8. HasPut(p, w, x, s, c, i)
      BY <1>4, <1>11, <3>2, <3>3, <3>6, <3>7, PutAlmost
    <3>9. Fine(x.sa, c)
      BY <3>3, <3>8 DEF HasPut, Only, Fine
    <3>10. Almost(p, x, {s})
      BY <3>8, <3>9 DEF HasPut, Almost
    <3> QED
      BY <1>4, <1>11, <3>2, <3>8, <3>10 DEF HasPut, Only
  <2> QED
    BY <2>1, <2>2
<1>13. Established(p, x, y, s, n)
  <2>1. x \in Side(p) /\ Distinct(x.sa)
    BY <1>12 DEF Almost
  <2>2. n \in {x.sa[s].new, x.sa[s].coll} \ {NoSA}
    BY <1>4, <1>12, NewSAs
  <2>3. Free(x, {s}, n)
    BY <1>4, <2>1, <2>2, Holder
  <2>4. x.sa[s].st \notin {"none", "held"} /\ x.sa[n].st = "held"
    BY <1>4, <1>12
  <2> QED
    BY <1>4, <1>7, <1>12, <2>3, <2>4, EstablishAlmost
<1>14. /\ Almost(p, y, {s}) /\ Calm(x, y) /\ (y.kids = NoSA <=> kids[p] = NoSA)
       /\ y.sa[s].st = "rekeyed" /\ y.kids # s /\ y.sa[s] \in Info(p)
  <2>1. x.sa[s] \in Info(p) /\ y \in Side(p)
    BY <1>4, <1>12, <1>13, Fields DEF Almost, Established
  <2> QED
    BY <1>4, <1>12, <1>13, <2>1, Becoming, Fields DEF Established
<1>15. /\ Almost(p, v, {s}) /\ Calm(y, v) /\ v.kids = y.kids /\ v.sa[s].st = "rekeyed"
       /\ v.sa[s].new = NoSA /\ v.sa[s].coll = NoSA
  <2>1. PICK i : i = [y.sa[s] EXCEPT !.new = NoSA, !.coll = NoSA]
    OBVIOUS
  <2>2. i \in Info(p) /\ i.st = "rekeyed" /\ i.new = NoSA /\ i.coll = NoSA
    BY <1>14, <2>1 DEF Info
  <2>3. v = Put(y, s, i)
    BY <1>8, <2>1 DEF Put
  <2>4. MayPut(y, s, s, i)
    BY <1>14, <2>2 DEF MayPut
  <2>5. HasPut(p, y, v, s, s, i)
    BY <1>4, <1>14, <2>2, <2>3, <2>4, PutAlmost
  <2>6. {s, s} = {s}
    OBVIOUS
  <2> QED
    BY <2>2, <2>5, <2>6 DEF HasPut, Only
<1>16. Good(p, z) /\ Calm(v, z) /\ z.kids = v.kids
  <2>1. {s} \in SUBSET SAs /\ "rekdel" \in {"delete", "rekdel"} /\ MayDelete(v, s)
    BY <1>4, <1>14, <1>15 DEF MayDelete
  <2>2. Deletes(p, v, z, s, {s})
    BY <1>4, <1>9, <1>15, <2>1, SendDeleteAlmost
  <2>3. {s} \ {s} = {}
    OBVIOUS
  <2> QED
    BY <2>2, <2>3 DEF Deletes, Good
<1>17. Calm(Me(p), z)
  BY <1>5, <1>12, <1>14, <1>15, <1>16 DEF Calm
<1> QED
  BY <1>10, <1>14, <1>15, <1>16, <1>17, Done DEF Turn, Reports

LEMMA DropStep ==
  ASSUME Inv, NEW m, Drop(m)
  PROVE  Inv' /\ NothingLost
<1>1. net' \subseteq net /\ sa' = sa /\ kids' = kids /\ down' = down
  BY DEF Drop
<1>2. Fresh'
  BY <1>1 DEF Inv, Fresh
<1>3. \A p \in Peers : Me(p)' = Me(p)
  BY <1>1 DEF Me
<1>4. \A p \in Peers : Good(p, Me(p))'
  BY <1>3 DEF Inv, Good, Almost
<1> QED
  BY <1>1, <1>2, <1>4 DEF Inv, Shape, NothingLost

LEMMA Initially ==
  ASSUME Init
  PROVE  Inv
<1>1. Shape
  BY DEF Init, Shape
<1>2. Blank.st = "none" /\ Bare(Blank) /\ \A p \in Peers : Blank \in Info(p)
  BY DEF Blank, Bare, Info, States, Tasks
<1>3. PICK e : e = [Blank EXCEPT !.st = "established"]
  OBVIOUS
<1>4. /\ e.st = "established" /\ e.task = "none" /\ e.new = NoSA /\ e.coll = NoSA /\ ~e.met
      /\ ~e.rekeyed /\ \A p \in Peers : e \in Info(p)
  BY <1>3 DEF Blank, Info, States, Tasks
<1>5. \A p \in Peers : \A s \in SAs : sa[p][s] = IF s = First THEN e ELSE Blank
  BY <1>3 DEF Init
<1>6. Fresh
  <2>1. ASSUME NEW p \in Peers, NEW s \in New(p) PROVE sa[Other(p)][s].st = "none"
    BY <1>2, <1>5, NewSAs, TwoPeers
  <2> QED
    BY <2>1 DEF Init, Fresh
<1>7. ASSUME NEW p \in Peers PROVE Good(p, Me(p))
  <2>1. Me(p) \in Side(p)
    <3>1. sa[p] \in [SAs -> Info(p)]
      <4>1. sa[p] = [s \in SAs |-> IF s = First THEN e ELSE Blank]
        BY <1>3 DEF Init
      <4> QED
        BY <1>2, <1>4, <4>1
    <3>2. kids[p] = First /\ down[p] = {} /\ First \in SAs
      BY NewSAs DEF Init
    <3> QED
      BY <3>1, <3>2 DEF Me, Side
  <2>2. \A s \in SAs : sa[p][s].new = NoSA /\ sa[p][s].coll = NoSA
    BY <1>2, <1>4, <1>5 DEF Bare
  <2>3. Distinct(sa[p])
    BY <2>2 DEF Distinct
  <2>4. Parent(sa[p], kids[p])
    BY <1>4, <1>5, NewSAs DEF Parent, Init
  <2>5. \A s \in SAs : Fine(sa[p], s)
    BY <1>2, <1>4, <1>5 DEF Fine, Bare
  <2> QED
    BY <2>1, <2>3, <2>4, <2>5, MeIs DEF Good, Almost
<1> QED
  BY <1>1, <1>6, <1>7 DEF Inv

LEMMA Stuttering ==
  ASSUME Inv, UNCHANGED vars
  PROVE  Inv' /\ NothingLost
<1>1. net' = net /\ sa' = sa /\ kids' = kids /\ down' = down
  BY DEF vars
<1>2. Fresh'
  BY <1>1 DEF Inv, Fresh
<1>3. \A p \in Peers : Me(p)' = Me(p)
  BY <1>1 DEF Me
<1>4. \A p \in Peers : Good(p, Me(p))'
  BY <1>3 DEF Inv, Good, Almost
<1> QED
  BY <1>1, <1>2, <1>4 DEF Inv, Shape, NothingLost

LEMMA NextStep ==
  ASSUME Inv, Next
  PROVE  Inv' /\ NothingLost
<1>1. ASSUME NEW m \in net, Receive(m) PROVE Inv' /\ NothingLost
  BY <1>1, ProcessRekeyStep, ProcessDeleteStep, RekeyFailedStep, RekeyLostStep,
     RekeyWonStep, DeleteDoneStep, DropStep DEF Receive
<1>2. ASSUME Housekeeping PROVE Inv' /\ NothingLost
  BY <1>2, InitiateTasksStep, DeleteJobStep, GiveUpStep DEF Housekeeping
<1>3. ASSUME NEW p \in Peers, NEW s \in SAs, Rekey(p, s) \/ Delete(p, s)
      PROVE  Inv' /\ NothingLost
  BY <1>3, RekeyStep, DeleteStep
<1> QED
  BY <1>1, <1>2, <1>3 DEF Next

-----------------------------------------------------------------------------
\* A peer that loses its CHILD_SAs with an IKE_SA has reported that IKE_SA down
\* (ike_updown), for any number of rekeyings, collisions and deletes: what is
\* destroyed without a report (ike_delete_t of a replaced IKE_SA, a redundant
\* IKE_SA of a collision) never has the CHILD_SAs.
THEOREM LossReported == Spec => NoSilentLoss
<1>1. Init => Inv
  BY Initially
<1>2. Inv /\ [Next]_vars => Inv'
  BY NextStep, Stuttering
<1>3. Spec => []Inv
  BY <1>1, <1>2, PTL DEF Spec
<1>4. Inv /\ [Next]_vars =>
        [\A p \in Peers : kids[p] # NoSA /\ kids'[p] = NoSA => kids[p] \in down'[p]]_vars
  BY NextStep DEF NothingLost
<1> QED
  BY <1>3, <1>4, PTL DEF Spec, NoSilentLoss
=============================================================================
