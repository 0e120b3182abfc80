-------------------------- MODULE TaskManagerProofs --------------------------
(***************************************************************************)
(* What the two task managers of an IKE_SA keep to, for any tasks, any      *)
(* number of tries and any bounds.                                          *)
(*                                                                          *)
(* The argument has three layers.  Sane is about one peer at a time and the *)
(* packets on the wire: what a task manager holds while it is idle, while   *)
(* an exchange is in progress and while the SA is being set up.  Timed adds *)
(* how many retransmit jobs are scheduled.  Flow relates both peers, the    *)
(* packets and the history of one direction of exchanges; the message IDs   *)
(* count the exchanges that were concluded and served.                      *)
(***************************************************************************)
EXTENDS TaskManager, SequenceTheorems, FiniteSetTheorems, NaturalsInduction, WellFoundedInduction, TLAPS

States == {"created", "connecting", "established", "deleting", "gone"}
Whys == {"open", "timeout", "halfopen", "failed", "deleted", "mismatch"}

TM == [state : States, why : Whys, queued : Seq(Tasks), active : Seq(Tasks),
       mid : 0..MaxMid, type : Types \cup {"none"},
       retransmitted : 0..(Tries + 1), packet : Messages \cup {None},
       deferred : BOOLEAN, jobs : [0..MaxMid -> Nat], retry : 0..MaxRetries,
       outages : 0..MaxOutages, halfopen : BOOLEAN, rmid : 0..MaxMid,
       rpacket : Messages \cup {None}]

\* The tasks a peer has queued, and all active ones but the leading IKE_INIT.
Plain(p) == IF Setup /\ p = Ini THEN Work \cup {AuthTask} ELSE Work

\* The packets the code builds: only the responder asks for cookies, IKE_SA_INIT
\* is never repeated for more, and only the initiator sets up the SA.
Proper(m) ==
  /\ m.is = "cookie" => Cookies /\ m.type = "IKE_SA_INIT"
  /\ m.is = "more" => m.type # "IKE_SA_INIT"
  /\ m.type \in {"IKE_SA_INIT", "IKE_AUTH"} => m.to = IF m.is = "request" THEN Rsp ELSE Ini

\* The tasks of an IKE_SA_INIT in progress.
Leads(q, p) == q # <<>> /\ Head(q) = InitTask /\ Tail(q) \in Seq(Plain(p))

\* The request of the exchange in progress.
Packet(p, t) ==
  /\ t.packet \in Messages /\ Proper(t.packet)
  /\ t.packet.is = "request" /\ t.packet.to = Other[p]
  /\ t.packet.mid = t.mid /\ t.packet.type = t.type
  /\ t.packet.req.mid = t.mid /\ t.packet.req.type = t.type

Busy(p, t) ==
  /\ t.active # <<>> /\ Packet(p, t)
  /\ t.type = "IKE_SA_INIT" => /\ p = Ini /\ Setup /\ t.mid = 0 /\ t.state = "connecting"
                               /\ t.retry < MaxRetries /\ Leads(t.active, p)
                               /\ t.packet.req.task = InitTask
  /\ t.type = "IKE_AUTH" => p = Ini

\* What holds of the task manager t of p between two handlers.
Sound(p, t) ==
  /\ t.queued \in Seq(Plain(p))
  /\ t.type # "IKE_SA_INIT" => t.active \in Seq(Plain(p))
  /\ t.type = "none" => t.packet = None
  /\ t.type # "none" => t.state # "gone" /\ Busy(p, t)
  /\ t.state = "created" => Setup /\ t.mid = 0
  /\ (t.state = "created" \/ (p = Rsp /\ t.state = "connecting"))
       => t.queued = <<>> /\ t.active = <<>> /\ t.type = "none"
  /\ t.rpacket # None => Proper(t.rpacket)

Sane ==
  /\ tm \in [Peers -> TM] /\ \A p \in Peers : Sound(p, tm[p])
  /\ net \in SUBSET Messages /\ \A m \in net : Proper(m)
  /\ waiting \in SUBSET Work
  /\ asked \in [Peers -> Seq(Requests)] /\ served \in [Peers -> Seq(Requests)]
  /\ done \in [Peers -> Seq(Requests)]

\* One retransmit job for the exchange in progress, none for a later one.
OnTime(t) ==
  /\ t.state # "gone" =>
       /\ \A m \in 0..MaxMid : m > t.mid => t.jobs[m] = 0
       /\ t.jobs[t.mid] = IF t.type = "none" \/ t.deferred THEN 0 ELSE 1
  /\ t.why = "timeout" => t.jobs[t.mid] = 0
  /\ t.state # "gone" => t.why = "open"
Timed == \A p \in Peers : OnTime(tm[p])

\* The message ID of the first exchange a peer starts.
Base(p) == IF ~Setup /\ p = Ini THEN 2 ELSE 0

\* The requests a of p: numbered without a gap, an IKE_SA_INIT the first.
Numbered(p, a) ==
  \A i \in 1..Len(a) :
    /\ a[i].mid = Base(p) + (i - 1)
    /\ a[i].type = "IKE_SA_INIT" <=> (i = 1 /\ p = Ini /\ Setup)
    /\ a[i].type = "IKE_SA_INIT" => a[i].task = InitTask

\* The requests s served by the peer and those d concluded, of the requests a.
InOrderOf(a, s, d) ==
  /\ Len(d) <= Len(s) /\ Len(s) <= Len(a) /\ Len(a) <= Len(d) + 1
  /\ \A i \in 1..Len(s) : s[i] = a[i]
  /\ \A i \in 1..Len(d) : d[i] = a[i]
  /\ Cookies => \A i \in 1..Len(s) : s[i].type = "IKE_SA_INIT" => s[i].cookie

Asker(p, t, a, d) ==
  t.state # "gone" =>
    /\ t.mid = Base(p) + Len(d)
    /\ t.type = "none" => Len(a) = Len(d)
    /\ t.type # "none" => Len(a) = Len(d) + 1 /\ t.packet.req = a[Len(a)]
    /\ t.state = "created" => a = <<>>
    /\ Setup /\ p = Ini /\ a = <<>> => t.state = "created"

\* An answer to request r of p.
Responds(p, m, r) ==
  /\ m \in Messages /\ m.to = p /\ m.is \in {"ok", "more", "failed"} /\ m.req = r
  /\ m.mid = r.mid /\ m.type = r.type

Server(p, u, s) ==
  u.state # "gone" => /\ u.rmid = Base(p) + Len(s)
                      /\ s # <<>> => Responds(p, u.rpacket, s[Len(s)])

\* An IKE_SA_INIT without the cookie that is asked for.
Dead(p, m, a) ==
  /\ Cookies /\ Setup /\ p = Ini /\ m.type = "IKE_SA_INIT" /\ m.mid = 0 /\ ~m.req.cookie
  /\ a # <<>>

Asks(p, m, a) ==
  /\ m.mid = m.req.mid /\ m.type = m.req.type
  /\ (\E i \in 1..Len(a) : m.req = a[i]) \/ Dead(p, m, a)
Tells(p, m, a, s) ==
  \/ m.is = "cookie" /\ m.mid = 0 /\ p = Ini /\ Setup /\ a # <<>>
  \/ \E i \in 1..Len(s) : Responds(p, m, a[i])

Wire(p, n, a, s) ==
  \A m \in n : /\ m.is = "request" /\ m.to = Other[p] => Asks(p, m, a)
               /\ m.is # "request" /\ m.to = p => Tells(p, m, a, s)

Flow(p, t, u, n, a, s, d) ==
  /\ Numbered(p, a) /\ InOrderOf(a, s, d)
  /\ Asker(p, t, a, d) /\ Server(p, u, s) /\ Wire(p, n, a, s)

\* The responder asks nothing before it has served both initial exchanges.
Late(u, a, s) ==
  Setup => /\ a # <<>> => Len(s) >= 2
           /\ u.state = "connecting" => Len(s) >= 1
           /\ u.state \in {"established", "deleting"} => Len(s) >= 2

Flows ==
  /\ \A p \in Peers : Flow(p, tm[p], tm[Other[p]], net, asked[p], served[Other[p]], done[p])
  /\ Late(tm[Rsp], asked[Rsp], served[Rsp])
  /\ \A p \in Peers : tm[p].why # "mismatch"

-----------------------------------------------------------------------------
(***************************************************************************)
(* The parts a handler is made of.                                          *)
(***************************************************************************)
\* What a retransmission leaves as it is.
Same(t, x) ==
  /\ x.state = t.state /\ x.why = t.why /\ x.queued = t.queued
  /\ x.active = t.active /\ x.mid = t.mid /\ x.type = t.type
  /\ x.packet = t.packet /\ x.retry = t.retry /\ x.halfopen = t.halfopen
  /\ x.rmid = t.rmid /\ x.rpacket = t.rpacket

Deferred(t) == [t EXCEPT !.deferred = TRUE, !.outages = @ + 1]

\* The ways to send, or not to send, the request of x.
Sends(x, o) ==
  \/ o.tm = Transmitted(x) /\ o.sent = {x.packet}
  \/ o.tm = Deferred(x) /\ o.sent = {}

LEMMA Bounds ==
  /\ Tries \in Nat /\ MaxRetries \in Nat /\ MaxMid \in Nat /\ MaxMore \in Nat
  /\ MaxOutages \in Nat
  /\ Cookies \in BOOLEAN /\ Setup \in BOOLEAN /\ Failures \in BOOLEAN
BY BoundsAssumption

LEMMA OtherPeer ==
  /\ Ini \in Peers /\ Rsp \in Peers /\ Ini # Rsp
  /\ Other[Ini] = Rsp /\ Other[Rsp] = Ini
  /\ \A p \in Peers : Other[p] \in Peers /\ Other[p] # p /\ Other[Other[p]] = p
BY PeersAssumption DEF Peers, Other

LEMMA TaskKinds ==
  /\ InitTask \in Tasks /\ AuthTask \in Tasks /\ InitTask # AuthTask
  /\ InitTask.kind = "IKE_INIT" /\ AuthTask.kind = "IKE_AUTH"
  /\ \A k \in Tasks : k.kind \in Kinds
  /\ \A p \in Peers : \A k \in Plain(p) :
       /\ k \in Tasks /\ k.kind # "IKE_INIT"
       /\ k.kind = "IKE_AUTH" => p = Ini /\ Setup
<1>1. /\ InitTask \in Tasks /\ AuthTask \in Tasks
      /\ InitTask.kind = "IKE_INIT" /\ AuthTask.kind = "IKE_AUTH"
  BY DEF Tasks, InitTask, AuthTask
<1>2. \A k \in Work : k.kind \in Kinds /\ k.kind \notin {"IKE_INIT", "IKE_AUTH"}
  BY WorkAssumption DEF TaskType
<1>3. \A k \in Tasks : k.kind \in Kinds
  BY <1>1, <1>2 DEF Tasks, Kinds
<1> QED BY <1>1, <1>2, <1>3 DEF Tasks, Plain

LEMMA PlainTasks ==
  ASSUME NEW p \in Peers
  PROVE  Seq(Plain(p)) \subseteq Seq(Tasks)
BY TaskKinds, SeqMonotonic

LEMMA Fields ==
  ASSUME NEW t \in TM
  PROVE  /\ t.state \in States /\ t.why \in Whys /\ t.queued \in Seq(Tasks)
         /\ t.active \in Seq(Tasks) /\ t.mid \in 0..MaxMid
         /\ t.type \in Types \cup {"none"} /\ t.retransmitted \in 0..(Tries + 1)
         /\ t.packet \in Messages \cup {None} /\ t.deferred \in BOOLEAN
         /\ t.jobs \in [0..MaxMid -> Nat] /\ t.retry \in 0..MaxRetries
         /\ t.outages \in 0..MaxOutages /\ t.halfopen \in BOOLEAN
         /\ t.rmid \in 0..MaxMid /\ t.rpacket \in Messages \cup {None}
BY DEF TM

LEMMA TransmittedGives ==
  ASSUME NEW t \in TM, ~GivesUp(t)
  PROVE  LET x == Transmitted(t)
         IN /\ x \in TM /\ Same(t, x) /\ x.deferred = t.deferred
            /\ \A m \in 0..MaxMid :
                 x.jobs[m] = IF m = t.mid THEN t.jobs[m] + 1 ELSE t.jobs[m]
<1>1. t.retransmitted + 1 \in 0..(Tries + 1)
  BY Fields, Bounds DEF GivesUp
<1>2. [t.jobs EXCEPT ![t.mid] = @ + 1] \in [0..MaxMid -> Nat]
  BY Fields, Bounds
<1>3. Transmitted(t) = [t EXCEPT !.retransmitted = t.retransmitted + 1,
                                 !.jobs = [t.jobs EXCEPT ![t.mid] = @ + 1]]
  BY DEF Transmitted, TM
<1>4. Transmitted(t) \in TM
  BY <1>1, <1>2, <1>3 DEF TM
<1>5. Same(t, Transmitted(t)) /\ Transmitted(t).deferred = t.deferred
  BY <1>3 DEF TM, Same
<1>6. Transmitted(t).jobs = [t.jobs EXCEPT ![t.mid] = @ + 1]
  BY <1>3 DEF TM
<1> QED BY <1>4, <1>5, <1>6, Fields, Bounds

LEMMA DeferredGives ==
  ASSUME NEW t \in TM, t.outages < MaxOutages
  PROVE  LET x == Deferred(t)
         IN /\ x \in TM /\ Same(t, x) /\ x.deferred = TRUE /\ x.jobs = t.jobs
<1>1. t.outages + 1 \in 0..MaxOutages
  BY Fields, Bounds
<1>2. Deferred(t) \in TM
  BY <1>1 DEF TM, Deferred
<1> QED BY <1>2 DEF TM, Deferred, Same

LEMMA DestroyedGives ==
  ASSUME NEW t \in TM, NEW p \in Peers, NEW w \in Whys
  PROVE  LET x == Destroyed(t, w)
         IN /\ x \in TM /\ Sound(p, x) /\ x.state = "gone" /\ x.why = w
            /\ x.jobs = t.jobs /\ x.mid = t.mid
<1>0. <<>> \in Seq(Tasks) /\ "gone" \in States
  BY EmptySeq DEF States
<1>1. Destroyed(t, w) \in TM
  BY <1>0 DEF Destroyed, TM
<1>2. LET x == Destroyed(t, w)
      IN /\ x.state = "gone" /\ x.why = w /\ x.queued = <<>> /\ x.active = <<>>
         /\ x.type = "none" /\ x.packet = None /\ x.rpacket = None
         /\ x.jobs = t.jobs /\ x.mid = t.mid
  BY Fields DEF Destroyed, TM
<1> QED BY <1>1, <1>2 DEF Sound

LEMMA SameSound ==
  ASSUME NEW p \in Peers, NEW t, NEW x, Same(t, x), Sound(p, t)
  PROVE  Sound(p, x)
BY DEF Same, Sound, Busy, Packet, Leads

\* What retransmit() does to a request that is there to be sent.
LEMMA RetransmitGives ==
  ASSUME NEW t \in TM, t.packet # None, NEW o \in retransmit(t)
  PROVE  /\ o.asks = <<>>
         /\ \/ ~GivesUp(t) /\ Sends(t, o) /\ o.tm \in TM /\ Same(t, o.tm)
            \/ GivesUp(t) /\ o.tm = Destroyed(t, "timeout") /\ o.sent = {}
<1>1. CASE GivesUp(t)
  BY <1>1 DEF retransmit, Outcome
<1>2. CASE ~GivesUp(t)
  <2>1. \/ o = Outcome(Transmitted(t), {t.packet}, <<>>)
        \/ o = Outcome(Deferred(t), {}, <<>>) /\ t.outages < MaxOutages
    BY <1>2 DEF retransmit, Deferred
  <2>2. CASE o = Outcome(Transmitted(t), {t.packet}, <<>>)
    BY <1>2, <2>2, TransmittedGives DEF Outcome, Sends
  <2>3. CASE o = Outcome(Deferred(t), {}, <<>>) /\ t.outages < MaxOutages
    BY <1>2, <2>3, DeferredGives DEF Outcome, Sends
  <2> QED BY <2>1, <2>2, <2>3
<1> QED BY <1>1, <1>2

LEMMA RemoveAtKeeps ==
  ASSUME NEW S, NEW s \in Seq(S), NEW i \in 1..Len(s)
  PROVE  RemoveAt(s, i) \in Seq(S)
<1>1. Len(s) \in Nat /\ i \in Int /\ \A j \in 1..Len(s) : s[j] \in S
  BY LenProperties, ElementOfSeq
<1>2. SubSeq(s, 1, i - 1) \in Seq(S)
  BY <1>1, SubSeqProperties
<1>3. SubSeq(s, i + 1, Len(s)) \in Seq(S)
  BY <1>1, SubSeqProperties
<1> QED BY <1>2, <1>3, ConcatProperties DEF RemoveAt

LEMMA RemoveHead ==
  ASSUME NEW T, NEW S, NEW s \in Seq(T), s # <<>>, Tail(s) \in Seq(S)
  PROVE  RemoveAt(s, 1) \in Seq(S)
<1>1. Len(s) \in Nat /\ Tail(s) = SubSeq(s, 2, Len(s))
  BY LenProperties, TailIsSubSeq
<1>2. SubSeq(s, 1, 0) = <<>>
  BY SubSeqEmpty
<1>3. RemoveAt(s, 1) = <<>> \o Tail(s)
  BY <1>1, <1>2 DEF RemoveAt
<1> QED BY <1>3, ConcatEmptySeq

\* What activating tasks leaves as it is.
Moved(t, x) ==
  /\ x.state = t.state /\ x.why = t.why /\ x.mid = t.mid /\ x.type = t.type
  /\ x.retransmitted = t.retransmitted /\ x.packet = t.packet
  /\ x.deferred = t.deferred /\ x.jobs = t.jobs /\ x.retry = t.retry
  /\ x.outages = t.outages /\ x.halfopen = t.halfopen /\ x.rmid = t.rmid
  /\ x.rpacket = t.rpacket

\* The task i of the queue becomes active.
Activates(t, i) ==
  [t EXCEPT !.active = Append(t.active, t.queued[i]), !.queued = RemoveAt(t.queued, i)]

LEMMA ActivatesGives ==
  ASSUME NEW t \in TM, NEW i \in 1..Len(t.queued)
  PROVE  LET x == Activates(t, i)
         IN /\ x \in TM /\ Moved(t, x) /\ x.queued = RemoveAt(t.queued, i)
            /\ x.active = Append(t.active, t.queued[i])
<1>1. t.queued[i] \in Tasks
  BY Fields, ElementOfSeq
<1>2. Append(t.active, t.queued[i]) \in Seq(Tasks)
  BY <1>1, Fields, AppendProperties
<1>3. RemoveAt(t.queued, i) \in Seq(Tasks)
  BY Fields, RemoveAtKeeps
<1>4. Activates(t, i) \in TM
  BY <1>2, <1>3 DEF Activates, TM
<1> QED BY <1>4 DEF Activates, TM, Moved

\* activate_task() on a queue of tasks in S.
Activate(t, x, kind, S) ==
  /\ x \in TM /\ Moved(t, x) /\ x.queued \in Seq(S)
  /\ \/ kind \notin Kind(t.queued) /\ x = t
     \/ \E k \in S : kind \in Kind(t.queued) /\ k.kind = kind /\ x.active = Append(t.active, k)

LEMMA Less ==
  ASSUME NEW x \in Nat, NEW y \in Nat, y < x
  PROVE  <<y, x>> \in OpToRel(<, Nat)
BY SMT DEF OpToRel

\* A set of numbers has a least one.
LEMMA Least ==
  ASSUME NEW S, S \subseteq Nat, S # {}
  PROVE  Min(S) \in S
<1>1. PICK x \in S : \A y \in S : ~(<<y, x>> \in OpToRel(<, Nat))
  BY NatLessThanWellFounded, WFMin
<1>2. ASSUME NEW y \in S PROVE ~(y < x)
  BY <1>1, Less
<1>3. \A y \in S : x =< y
  BY <1>2
<1> QED BY <1>3 DEF Min

LEMMA FirstOfKind ==
  ASSUME NEW S, NEW q \in Seq(S), NEW kind \in Kind(q)
  PROVE  \E i \in 1..Len(q) : /\ q[i].kind = kind
                              /\ \A j \in 1..(i - 1) : q[j].kind # kind
<1> DEFINE P(i) == i \in 1..Len(q) /\ q[i].kind = kind
<1>0. Len(q) \in Nat
  BY LenProperties
<1>1. PICK n \in Nat : P(n)
  BY <1>0 DEF Kind
<1> DEFINE A == {i \in Nat : P(i)}
<1>2. PICK i \in A : \A j \in A : ~(<<j, i>> \in OpToRel(<, Nat))
  <2> HIDE DEF P
  <2> QED BY <1>1, NatLessThanWellFounded, WFMin
<1>3. \A j \in 1..(i - 1) : q[j].kind # kind
  <2> SUFFICES ASSUME NEW j \in 1..(i - 1), q[j].kind = kind PROVE FALSE
    OBVIOUS
  <2>1. j \in A /\ j < i
    BY <1>0
  <2> QED BY <1>2, <2>1 DEF OpToRel
<1> QED BY <1>2, <1>3

LEMMA ActivateGives ==
  ASSUME NEW t \in TM, NEW S \in SUBSET Tasks, t.queued \in Seq(S), NEW kind
  PROVE  Activate(t, activate_task(t, kind), kind, S)
<1>1. CASE kind \notin Kind(t.queued)
  BY <1>1 DEF activate_task, Activate, Moved
<1>2. CASE kind \in Kind(t.queued)
  <2>1. PICK i \in 1..Len(t.queued) :
               t.queued[i].kind = kind /\ activate_task(t, kind) = Activates(t, i)
    <3> DEFINE Q(i) == /\ t.queued[i].kind = kind
                       /\ \A j \in 1..(i - 1) : t.queued[j].kind # kind
               c == CHOOSE i \in 1..Len(t.queued) : Q(i)
    <3>1. \E i \in 1..Len(t.queued) : Q(i)
      BY <1>2, FirstOfKind
    <3>2. c \in 1..Len(t.queued) /\ Q(c)
      BY <3>1
    <3>3. activate_task(t, kind) = Activates(t, c)
      BY <1>2 DEF activate_task, Activates
    <3> HIDE DEF c
    <3> QED BY <3>2, <3>3
  <2>2. t.queued[i] \in S /\ RemoveAt(t.queued, i) \in Seq(S)
    BY ElementOfSeq, RemoveAtKeeps
  <2> QED BY <1>2, <2>1, <2>2, ActivatesGives DEF Activate
<1> QED BY <1>1, <1>2

\* The kinds of plain tasks, and of those of an IKE_SA_INIT.
LEMMA KindOfPlain ==
  ASSUME NEW p \in Peers, NEW q \in Seq(Plain(p))
  PROVE  /\ Kind(q) \subseteq Kinds /\ "IKE_INIT" \notin Kind(q)
         /\ "IKE_AUTH" \in Kind(q) => p = Ini /\ Setup
         /\ Kind(q) # {} => q # <<>>
<1>1. \A i \in 1..Len(q) : q[i] \in Plain(p)
  BY ElementOfSeq
<1>2. q = <<>> => Len(q) = 0
  BY EmptySeq
<1> QED BY <1>1, <1>2, TaskKinds DEF Kind

LEMMA KindOfLeading ==
  ASSUME NEW p \in Peers, NEW q \in Seq(Tasks), Leads(q, p)
  PROVE  "IKE_INIT" \in Kind(q)
<1>1. 1 \in 1..Len(q) /\ q[1] = InitTask
  BY EmptySeq DEF Leads
<1> QED BY <1>1, TaskKinds DEF Kind

LEMMA ExchangeOfPlain ==
  ASSUME NEW p \in Peers, NEW q \in Seq(Plain(p)), NEW b
  PROVE  LET typ == ExchangeOf(b, q)
         IN /\ typ \in Types \cup {"none"} /\ typ # "IKE_SA_INIT"
            /\ typ = "IKE_AUTH" => p = Ini
            /\ typ # "none" => q # <<>>
<1>1. "IKE_INIT" \notin Kind(q) /\ ("IKE_AUTH" \in Kind(q) => p = Ini)
      /\ (Kind(q) # {} => q # <<>>)
  BY KindOfPlain
<1>2. PICK typ : typ = ExchangeOf(b, q)
  OBVIOUS
<1>3. /\ typ \in {"IKE_AUTH", "CREATE_CHILD_SA", "INFORMATIONAL", "none"}
      /\ typ = "IKE_AUTH" => "IKE_AUTH" \in Kind(q)
      /\ typ # "none" => Kind(q) # {}
  BY <1>1, <1>2, Zenon DEF ExchangeOf
<1> QED BY <1>1, <1>2, <1>3 DEF Types

LEMMA ExchangeOfLeading ==
  ASSUME NEW p \in Peers, NEW q \in Seq(Tasks), Leads(q, p), NEW b
  PROVE  ExchangeOf(b, q) = "IKE_SA_INIT"
BY KindOfLeading DEF ExchangeOf

\* initiate() when the SA is not about to be set up.
LEMMA ActivatedPlain ==
  ASSUME NEW p \in Peers, NEW t \in TM, Sound(p, t), t.type = "none"
  PROVE  LET x == Activated(t)
         IN /\ x \in TM /\ Moved(t, x)
            /\ x.queued \in Seq(Plain(p)) /\ x.active \in Seq(Plain(p))
            /\ t.state # "established" => x = t
            /\ ExchangeOf(t.active = <<>>, x.active) = "none" => x = t
<1>0. t.queued \in Seq(Plain(p)) /\ t.active \in Seq(Plain(p)) /\ Plain(p) \in SUBSET Tasks
  BY TaskKinds DEF Sound
<1>1. "IKE_INIT" \notin Kind(t.queued)
  BY <1>0, KindOfPlain
<1> DEFINE ready == {i \in 1..Len(Priority) : Priority[i] \in Kind(t.queued)}
<1>2. CASE t.active = <<>> /\ t.state = "established" /\ ready # {}
  <2>0. Len(Priority) = 4
    BY DEF Priority
  <2>1. PICK n \in ready : n = Min(ready)
    <3>1. ready \subseteq Nat /\ ready # {}
      BY <1>2, <2>0
    <3> HIDE DEF ready
    <3> QED BY <3>1, Least
  <2>2. Activated(t) = activate_task(t, Priority[n])
    BY <1>1, <1>2, <2>1 DEF Activated
  <2>3. Priority[n] \in Kind(t.queued)
        /\ Priority[n] \in {"IKE_MOBIKE", "IKE_DELETE", "CHILD_CREATE", "IKE_DPD"}
    BY <2>0 DEF Priority
  <2>4. Activate(t, activate_task(t, Priority[n]), Priority[n], Plain(p))
    BY <1>0, ActivateGives
  <2>5. PICK k \in Plain(p) : /\ k.kind = Priority[n]
                              /\ Activated(t).active = Append(t.active, k)
    BY <2>2, <2>3, <2>4 DEF Activate
  <2>6. Activated(t).active = <<k>> /\ <<k>> \in Seq(Plain(p))
    BY <1>2, <2>5
  <2>7. Kind(<<k>>) = {Priority[n]}
    BY <2>5 DEF Kind
  <2>8. ExchangeOf(TRUE, <<k>>) # "none"
    BY <2>3, <2>7 DEF ExchangeOf
  <2> QED BY <1>2, <2>2, <2>4, <2>6, <2>8 DEF Activate
<1>3. CASE ~(t.active = <<>> /\ t.state = "established" /\ ready # {})
  <2>1. Activated(t) = t
    BY <1>1, <1>3 DEF Activated
  <2> QED BY <2>1, <1>0 DEF Moved
<1> QED BY <1>2, <1>3

\* The task manager from which an IKE_SA_INIT is initiated.
Starts(p, t) ==
  /\ p = Ini /\ Setup /\ t.state = "created" /\ t.type = "none" /\ t.mid = 0
  /\ t.active = <<>> /\ Leads(t.queued, p) /\ t.packet = None
  /\ t.rpacket # None => Proper(t.rpacket)

\* Another task rides along with the IKE_SA_INIT.
LEMMA RidesAlong ==
  ASSUME NEW p \in Peers, NEW t \in TM, NEW kind,
         t.queued \in Seq(Plain(p)), Leads(t.active, p)
  PROVE  LET x == activate_task(t, kind)
         IN x \in TM /\ Moved(t, x) /\ x.queued \in Seq(Plain(p)) /\ Leads(x.active, p)
<1>1. Activate(t, activate_task(t, kind), kind, Plain(p))
  BY ActivateGives, TaskKinds
<1>2. CASE activate_task(t, kind) = t
  BY <1>1, <1>2 DEF Activate
<1>3. CASE \E k \in Plain(p) : activate_task(t, kind).active = Append(t.active, k)
  <2>1. PICK k \in Plain(p) : activate_task(t, kind).active = Append(t.active, k)
    BY <1>3
  <2>2. k \in Tasks /\ t.active \in Seq(Tasks) /\ t.active # <<>>
    BY Fields, TaskKinds DEF Leads
  <2>3. Append(t.active, k) # <<>>
    BY <2>2, AppendProperties
  <2>4. /\ Head(Append(t.active, k)) = Head(t.active)
        /\ Tail(Append(t.active, k)) = Append(Tail(t.active), k)
    BY <2>2, HeadTailAppend
  <2>5. Append(Tail(t.active), k) \in Seq(Plain(p))
    BY AppendProperties DEF Leads
  <2> QED BY <1>1, <2>1, <2>3, <2>4, <2>5 DEF Activate, Leads
<1> QED BY <1>1, <1>2, <1>3 DEF Activate

LEMMA ActivatedLeading ==
  ASSUME NEW p \in Peers, NEW t \in TM, Starts(p, t)
  PROVE  LET x == Activated(t)
         IN /\ x \in TM /\ Moved(t, x)
            /\ x.queued \in Seq(Plain(p)) /\ Leads(x.active, p)
<1>1. t.queued \in Seq(Tasks) /\ Leads(t.queued, p) /\ "IKE_INIT" \in Kind(t.queued)
  BY Fields, KindOfLeading DEF Starts
<1>2. 1 \in 1..Len(t.queued) /\ t.queued[1] = InitTask
  BY <1>1, EmptySeq DEF Leads
<1>3. activate_task(t, "IKE_INIT") = Activates(t, 1)
  <2> DEFINE Q(i) == /\ t.queued[i].kind = "IKE_INIT"
                     /\ \A j \in 1..(i - 1) : t.queued[j].kind # "IKE_INIT"
             c == CHOOSE i \in 1..Len(t.queued) : Q(i)
  <2>1. Q(1)
    BY <1>2, TaskKinds
  <2>2. c \in 1..Len(t.queued) /\ Q(c)
    BY <1>2, <2>1
  <2>3. c = 1
    BY <2>1, <2>2, LenProperties, <1>1
  <2>4. activate_task(t, "IKE_INIT") = Activates(t, c)
    BY <1>1 DEF activate_task, Activates
  <2> QED BY <2>3, <2>4
<1>4. PICK a : a = activate_task(t, "IKE_INIT")
  OBVIOUS
<1>5. /\ a \in TM /\ Moved(t, a) /\ a.queued = RemoveAt(t.queued, 1)
      /\ a.active = Append(t.active, InitTask)
  BY <1>2, <1>3, <1>4, ActivatesGives
<1>6. a.queued \in Seq(Plain(p))
  BY <1>1, <1>5, RemoveHead DEF Leads
<1>7. Leads(a.active, p)
  <2>1. a.active = <<InitTask>>
    BY <1>5 DEF Starts
  <2> QED BY <2>1, EmptySeq DEF Leads
<1>8. PICK b : b = activate_task(a, "IKE_AUTH")
  OBVIOUS
<1>9. b \in TM /\ Moved(a, b) /\ b.queued \in Seq(Plain(p)) /\ Leads(b.active, p)
  BY <1>5, <1>6, <1>7, <1>8, RidesAlong
<1>10. PICK c : c = activate_task(b, "CHILD_CREATE")
  OBVIOUS
<1>11. c \in TM /\ Moved(b, c) /\ c.queued \in Seq(Plain(p)) /\ Leads(c.active, p)
  BY <1>9, <1>10, RidesAlong
<1>12. PICK d : d = activate_task(c, "IKE_MOBIKE")
  OBVIOUS
<1>13. d \in TM /\ Moved(c, d) /\ d.queued \in Seq(Plain(p)) /\ Leads(d.active, p)
  BY <1>11, <1>12, RidesAlong
<1>14. Activated(t) = d
  BY <1>1, <1>4, <1>8, <1>10, <1>12 DEF Activated, Starts
<1>15. Moved(t, d)
  BY <1>5, <1>9, <1>11, <1>13 DEF Moved
<1> QED BY <1>13, <1>14, <1>15

\* The request a peer asks and the packet that carries it.
Request(mid, typ, task, cookie) == [mid |-> mid, type |-> typ, task |-> task, cookie |-> cookie]
Carrier(p, r) == [to |-> Other[p], mid |-> r.mid, type |-> r.type, req |-> r, is |-> "request"]

Carries(p, r, c) ==
  /\ c \in Messages /\ Proper(c) /\ c.is = "request" /\ c.to = Other[p]
  /\ c.mid = r.mid /\ c.type = r.type /\ c.req = r

LEMMA CarrierGives ==
  ASSUME NEW p \in Peers, NEW r \in Requests,
         r.type \in {"IKE_SA_INIT", "IKE_AUTH"} => p = Ini
  PROVE  Carries(p, r, Carrier(p, r))
<1>1. r.mid \in 0..MaxMid /\ r.type \in Types
  BY DEF Requests
<1>2. Other[p] \in Peers /\ (p = Ini => Other[p] = Rsp)
  BY OtherPeer
<1>3. Carrier(p, r) \in Messages
  BY <1>1, <1>2 DEF Carrier, Messages
<1>4. LET c == Carrier(p, r)
      IN /\ c.is = "request" /\ c.to = Other[p] /\ c.mid = r.mid /\ c.type = r.type
         /\ c.req = r
  BY DEF Carrier
<1>5. Proper(Carrier(p, r))
  BY <1>2, <1>4 DEF Proper
<1> QED BY <1>3, <1>4, <1>5 DEF Carries

\* The task manager t of p is given the request r to send.
Asking(p, t, r, st) ==
  [t EXCEPT !.mid = r.mid, !.type = r.type, !.retransmitted = 0, !.deferred = FALSE,
            !.state = st, !.packet = Carrier(p, r)]

HasAsked(p, t, r, st, x) ==
  /\ x \in TM /\ x.mid = r.mid /\ x.type = r.type /\ x.retransmitted = 0
  /\ x.deferred = FALSE /\ x.state = st /\ x.packet = Carrier(p, r)
  /\ x.queued = t.queued /\ x.active = t.active /\ x.jobs = t.jobs
  /\ x.retry = t.retry /\ x.rmid = t.rmid /\ x.rpacket = t.rpacket
  /\ x.halfopen = t.halfopen /\ x.why = t.why /\ x.outages = t.outages

LEMMA AskingGives ==
  ASSUME NEW p \in Peers, NEW t \in TM, NEW r \in Requests, NEW st \in States,
         Carries(p, r, Carrier(p, r))
  PROVE  HasAsked(p, t, r, st, Asking(p, t, r, st))
<1>1. /\ r.mid \in 0..MaxMid /\ r.type \in Types /\ 0 \in 0..(Tries + 1)
      /\ Carrier(p, r) \in Messages
  BY Bounds DEF Requests, Carries
<1>2. Asking(p, t, r, st) \in TM
  BY <1>1 DEF Asking, TM
<1> QED BY <1>2 DEF Asking, TM, HasAsked

\* What initiate() makes ready to be sent.
Prepared(p, t, x) ==
  /\ x \in TM /\ Sound(p, x) /\ t.type = "none" /\ x.type # "none" /\ x.state # "gone"
  /\ x.mid = t.mid /\ x.retry = t.retry /\ x.rmid = t.rmid /\ x.rpacket = t.rpacket
  /\ x.halfopen = t.halfopen /\ x.why = t.why /\ x.jobs = t.jobs
  /\ x.deferred = FALSE /\ x.retransmitted = 0 /\ x.state # "created"
  /\ x.type = "IKE_SA_INIT" => /\ Starts(p, t)
                               /\ x.packet.req = Request(0, "IKE_SA_INIT", InitTask, t.retry > 0)
  /\ x.type # "IKE_SA_INIT" => /\ x.state \in {t.state, "deleting"} /\ t.state # "created"
                               /\ p = Rsp => t.state \in {"established", "deleting"}

LEMMA PreparedLeading ==
  ASSUME NEW p \in Peers, NEW t \in TM, Starts(p, t), t.retry < MaxRetries,
         NEW x, x = Asking(p, Activated(t), Request(0, "IKE_SA_INIT", Head(Activated(t).active),
                                                     t.retry > 0), "connecting")
  PROVE  Prepared(p, t, x)
<1>1. PICK a \in TM : /\ a = Activated(t) /\ Moved(t, a)
                      /\ a.queued \in Seq(Plain(p)) /\ Leads(a.active, p)
  BY ActivatedLeading
<1>2. a.active # <<>> /\ Head(a.active) = InitTask
  BY <1>1 DEF Leads
<1>3. PICK c \in BOOLEAN : c = (t.retry > 0)
  <2>1. (t.retry > 0) \in BOOLEAN
    BY Fields
  <2> QED BY <2>1, Zenon
<1>4. p = Ini /\ Setup /\ 0 \in 0..MaxMid /\ "IKE_SA_INIT" \in Types /\ InitTask \in Tasks
  BY TaskKinds, Bounds DEF Starts, Types
<1>5. PICK r \in Requests : r = Request(0, "IKE_SA_INIT", InitTask, c)
  BY <1>4 DEF Request, Requests
<1>6. /\ r.mid = 0 /\ r.type = "IKE_SA_INIT" /\ r.task = InitTask
      /\ Carries(p, r, Carrier(p, r))
  BY <1>4, <1>5, CarrierGives DEF Request
<1>7. "connecting" \in States
  BY DEF States
<1>8. x = Asking(p, a, r, "connecting")
  BY <1>1, <1>2, <1>3, <1>5
<1>9. HasAsked(p, a, r, "connecting", x)
  BY <1>6, <1>7, <1>8, AskingGives
<1>10. /\ t.mid = 0 /\ t.type = "none" /\ (t.rpacket # None => Proper(t.rpacket)) /\ p # Rsp
  BY <1>4, OtherPeer DEF Starts
<1>11. Packet(p, x)
  BY <1>6, <1>9 DEF Packet, HasAsked, Carries
<1>12. Busy(p, x)
  <2>1. x.retry < MaxRetries /\ Leads(x.active, p) /\ x.active # <<>>
    BY <1>1, <1>2, <1>9 DEF Moved, HasAsked
  <2>2. x.packet.req.task = InitTask
    BY <1>6, <1>9 DEF HasAsked, Carries
  <2> QED BY <1>4, <1>6, <1>9, <1>11, <2>1, <2>2 DEF Busy, HasAsked
<1>13. Sound(p, x)
  BY <1>1, <1>6, <1>9, <1>10, <1>12 DEF Sound, Moved, HasAsked
<1>14. x.packet.req = Request(0, "IKE_SA_INIT", InitTask, t.retry > 0)
  BY <1>3, <1>5, <1>6, <1>9 DEF HasAsked, Carries
<1> QED BY <1>1, <1>6, <1>9, <1>10, <1>13, <1>14 DEF Prepared, Moved, HasAsked

LEMMA PreparedPlain ==
  ASSUME NEW p \in Peers, NEW t \in TM, Sound(p, t), t.type = "none", t.state # "gone",
         NEW a \in TM, a = Activated(t), NEW typ, typ = ExchangeOf(t.active = <<>>, a.active),
         typ # "none", NEW st \in {t.state, "deleting"},
         NEW x, x = Asking(p, a, Request(t.mid, typ, Head(a.active), FALSE), st)
  PROVE  Prepared(p, t, x)
<1>1. /\ Moved(t, a) /\ a.queued \in Seq(Plain(p)) /\ a.active \in Seq(Plain(p))
      /\ t.state # "established" => a = t
  BY ActivatedPlain
<1>2. /\ typ \in Types /\ typ # "IKE_SA_INIT" /\ (typ = "IKE_AUTH" => p = Ini)
      /\ a.active # <<>>
  BY <1>1, ExchangeOfPlain
<1>3. Head(a.active) \in Tasks
  BY <1>1, <1>2, HeadTailProperties, TaskKinds
<1>4. PICK r \in Requests : r = Request(t.mid, typ, Head(a.active), FALSE)
  BY <1>2, <1>3, Fields DEF Request, Requests
<1>5. /\ r.mid = t.mid /\ r.type = typ /\ Carries(p, r, Carrier(p, r))
  BY <1>2, <1>4, CarrierGives DEF Request
<1>6. st \in States
  BY Fields DEF States
<1>7. HasAsked(p, a, r, st, x)
  BY <1>4, <1>5, <1>6, AskingGives
<1>8. t.state # "created" /\ ~(p = Rsp /\ t.state = "connecting")
  BY <1>1, <1>2 DEF Sound
<1>9. Busy(p, x)
  <2>1. Packet(p, x)
    BY <1>5, <1>7, ZenonT(60) DEF Packet, HasAsked, Carries
  <2> QED BY <1>2, <1>5, <1>7, <2>1 DEF Busy, HasAsked
<1>10. Sound(p, x)
  BY <1>1, <1>2, <1>5, <1>7, <1>8, <1>9, ZenonT(60) DEF Sound, Moved, HasAsked
<1>11. p = Rsp => t.state \in {"established", "deleting"}
  BY <1>8, Fields DEF States
<1>12. /\ x.type = typ /\ x.mid = t.mid /\ x.state = st /\ x \in TM
       /\ st # "created" /\ st # "gone"
  BY <1>5, <1>7, <1>8 DEF HasAsked
<1>13. /\ x.retry = t.retry /\ x.rmid = t.rmid /\ x.rpacket = t.rpacket
       /\ x.halfopen = t.halfopen /\ x.why = t.why /\ x.jobs = t.jobs
       /\ x.deferred = FALSE /\ x.retransmitted = 0
  BY <1>1, <1>7 DEF HasAsked, Moved
<1> QED BY <1>2, <1>8, <1>10, <1>11, <1>12, <1>13 DEF Prepared

\* The outcomes of initiate(): the SA is given up or another request goes out,
\* and with an exchange in progress or nothing to do it is resumed or left alone.
Launched(p, t, o) ==
  \/ o.tm = Destroyed(t, "failed") /\ o.sent = {} /\ o.asks = <<>>
  \/ \E x \in TM : /\ Prepared(p, t, x) /\ Sends(x, o) /\ o.asks = <<x.packet.req>>
                   /\ o.tm \in TM /\ Same(x, o.tm)
Resumed(t, o) ==
  \E x \in TM : /\ Same(t, x) /\ x.jobs = t.jobs /\ t.deferred /\ x.deferred = FALSE
                /\ t.type # "none" /\ Sends(x, o) /\ o.asks = <<>> /\ o.tm \in TM
                /\ Same(x, o.tm)
Quiet(t, o) == o.tm = t /\ o.sent = {} /\ o.asks = <<>>
Initiated(p, t, o) == Quiet(t, o) \/ Resumed(t, o) \/ Launched(p, t, o)

\* The request of x goes out, or is deferred.
LEMMA GoesOut ==
  ASSUME NEW x \in TM, x.packet # None, x.retransmitted = 0, NEW o \in retransmit(x)
  PROVE  Sends(x, o) /\ o.tm \in TM /\ Same(x, o.tm) /\ o.asks = <<>>
BY RetransmitGives, Bounds DEF GivesUp

LEMMA OutcomeShape ==
  ASSUME NEW x, NEW o \in retransmit(x), NEW a
  PROVE  LET b == [o EXCEPT !.asks = a] IN b.tm = o.tm /\ b.sent = o.sent /\ b.asks = a
BY DEF retransmit, Outcome

Resuming(t) == [t EXCEPT !.deferred = FALSE, !.retransmitted = 0]

LEMMA ResumingGives ==
  ASSUME NEW t \in TM
  PROVE  LET x == Resuming(t)
         IN /\ x \in TM /\ Same(t, x) /\ x.jobs = t.jobs /\ x.deferred = FALSE
            /\ x.retransmitted = 0
<1>1. 0 \in 0..(Tries + 1)
  BY Bounds
<1>2. Resuming(t) \in TM
  BY <1>1 DEF Resuming, TM
<1> QED BY <1>2 DEF Resuming, TM, Same

\* initiate() with an exchange in progress.
LEMMA InitiateBusy ==
  ASSUME NEW p \in Peers, NEW t \in TM, Sound(p, t), t.type # "none",
         NEW o \in initiate(p, t)
  PROVE  Initiated(p, t, o)
<1>1. CASE Resumes(t)
  <2>1. PICK x \in TM : /\ x = Resuming(t) /\ Same(t, x) /\ x.jobs = t.jobs
                        /\ x.deferred = FALSE /\ x.retransmitted = 0
    BY ResumingGives
  <2>2. o \in retransmit(x)
    BY <1>1, <2>1 DEF initiate, Resuming
  <2>3. x.packet \in Messages /\ x.packet.is = "request"
    BY <2>1 DEF Sound, Busy, Packet, Same
  <2>4. x.packet # None
    BY <2>3 DEF None
  <2>5. Sends(x, o) /\ o.tm \in TM /\ Same(x, o.tm) /\ o.asks = <<>>
    BY <2>1, <2>2, <2>4, GoesOut
  <2> QED BY <1>1, <2>1, <2>5 DEF Initiated, Resumed, Resumes
<1>2. CASE ~Resumes(t)
  BY <1>2 DEF initiate, Outcome, Quiet, Initiated
<1> QED BY <1>1, <1>2

\* The request that was prepared is sent or deferred.
LEMMA Dispatched ==
  ASSUME NEW p \in Peers, NEW t \in TM, NEW x \in TM, Prepared(p, t, x), NEW r,
         x.packet.req = r, NEW b \in retransmit(x),
         NEW o, o = [b EXCEPT !.asks = IF b.tm.state = "gone" THEN <<>> ELSE <<r>>]
  PROVE  Launched(p, t, o)
<1>1. x.packet.is = "request" /\ x.retransmitted = 0 /\ x.state # "gone"
  BY DEF Prepared, Sound, Busy, Packet
<1>2. x.packet # None
  BY <1>1 DEF None
<1>3. Sends(x, b) /\ b.tm \in TM /\ Same(x, b.tm)
  BY <1>1, <1>2, GoesOut
<1>4. o.tm = b.tm /\ o.sent = b.sent /\ o.asks = <<r>>
  BY <1>1, <1>3, OutcomeShape DEF Same
<1>5. Sends(x, o)
  BY <1>3, <1>4 DEF Sends
<1> QED BY <1>3, <1>4, <1>5 DEF Launched

\* initiate() with a request to send, in terms of the parts above.
LEMMA InitiateIs ==
  ASSUME NEW p, NEW t, t.type = "none",
         ExchangeOf(t.active = <<>>, Activated(t).active) # "none",
         ~(/\ ExchangeOf(t.active = <<>>, Activated(t).active) = "IKE_SA_INIT"
           /\ t.retry >= MaxRetries),
         NEW o \in initiate(p, t), o # Outcome(Destroyed(t, "failed"), {}, <<>>)
  PROVE  LET a == Activated(t)
             act == a.active
             typ == ExchangeOf(t.active = <<>>, act)
             mid == IF typ = "IKE_SA_INIT" THEN 0 ELSE t.mid
             r == Request(mid, typ, Head(act), typ = "IKE_SA_INIT" /\ t.retry > 0)
             st == IF typ = "IKE_SA_INIT" THEN "connecting"
                   ELSE IF Head(act).kind = "IKE_DELETE" THEN "deleting" ELSE t.state
         IN \E b \in retransmit(Asking(p, a, r, st)) :
              o = [b EXCEPT !.asks = IF b.tm.state = "gone" THEN <<>> ELSE <<r>>]
<1> DEFINE a == Activated(t)
           act == a.active
           typ == ExchangeOf(t.active = <<>>, act)
           mid == IF typ = "IKE_SA_INIT" THEN 0 ELSE t.mid
           req == [mid |-> mid, type |-> typ, task |-> Head(act),
                   cookie |-> typ = "IKE_SA_INIT" /\ t.retry > 0]
           pkt == [to |-> Other[p], mid |-> mid, type |-> typ, req |-> req, is |-> "request"]
           st == IF typ = "IKE_SA_INIT" THEN "connecting"
                 ELSE IF Head(act).kind = "IKE_DELETE" THEN "deleting" ELSE t.state
           x == [a EXCEPT !.mid = mid, !.type = typ, !.retransmitted = 0,
                          !.deferred = FALSE, !.state = st, !.packet = pkt]
           A == IF Resumes(t)
                THEN retransmit([t EXCEPT !.deferred = FALSE, !.retransmitted = 0])
                ELSE {Outcome(t, {}, <<>>)}
           F == {Outcome(Destroyed(t, "failed"), {}, <<>>)}
           D == {[b EXCEPT !.asks = IF b.tm.state = "gone" THEN <<>> ELSE <<req>>] :
                   b \in retransmit(x)}
<1>1. initiate(p, t) = IF t.type # "none" THEN A
                       ELSE IF typ = "none" THEN {Outcome(a, {}, <<>>)}
                       ELSE IF typ = "IKE_SA_INIT" /\ t.retry >= MaxRetries THEN F
                       ELSE IF Failures THEN F \cup D ELSE D
  BY DEF initiate
<1>2. typ # "none" /\ ~(typ = "IKE_SA_INIT" /\ t.retry >= MaxRetries)
  OBVIOUS
<1>3. req = Request(mid, typ, Head(act), typ = "IKE_SA_INIT" /\ t.retry > 0)
  BY DEF Request
<1>4. req.mid = mid /\ req.type = typ
  OBVIOUS
<1> HIDE DEF typ, req, mid, A
<1>5. Asking(p, a, req, st) = x
  BY <1>4 DEF Asking, Carrier
<1> HIDE DEF x
<1>6. o \in D
  <2> HIDE DEF D
  <2> QED BY <1>1, <1>2
<1>7. \E b \in retransmit(Asking(p, a, req, st)) :
         o = [b EXCEPT !.asks = IF b.tm.state = "gone" THEN <<>> ELSE <<req>>]
  BY <1>5, <1>6
<1> QED BY <1>3, <1>7 DEF typ, mid

LEMMA InitiateLeading ==
  ASSUME NEW p \in Peers, NEW t \in TM, Starts(p, t), NEW o \in initiate(p, t)
  PROVE  Launched(p, t, o)
<1>1. PICK a \in TM : a = Activated(t) /\ Leads(a.active, p)
  BY ActivatedLeading
<1>2. ExchangeOf(t.active = <<>>, a.active) = "IKE_SA_INIT"
  BY <1>1, ExchangeOfLeading, Fields
<1>3. t.type = "none"
  BY DEF Starts
<1>4. CASE t.retry >= MaxRetries
  <2>1. o = Outcome(Destroyed(t, "failed"), {}, <<>>)
    BY <1>1, <1>2, <1>3, <1>4 DEF initiate
  <2> QED BY <2>1 DEF Outcome, Launched
<1>5. CASE o = Outcome(Destroyed(t, "failed"), {}, <<>>)
  BY <1>5 DEF Outcome, Launched
<1>6. CASE ~(t.retry >= MaxRetries) /\ o # Outcome(Destroyed(t, "failed"), {}, <<>>)
  <2>1. PICK r : r = Request(0, "IKE_SA_INIT", Head(a.active), t.retry > 0)
    OBVIOUS
  <2>2. PICK x : x = Asking(p, a, r, "connecting")
    OBVIOUS
  <2>3. t.retry < MaxRetries
    BY <1>6, Fields, Bounds
  <2>4. Prepared(p, t, x)
    BY <1>1, <2>1, <2>2, <2>3, PreparedLeading
  <2>5. x.packet.req = r /\ x \in TM
    <3>1. x.packet.req = Request(0, "IKE_SA_INIT", InitTask, t.retry > 0) /\ x \in TM
      <4>1. r.type = "IKE_SA_INIT"
        BY <2>1 DEF Request
      <4>2. a \in TM /\ x.type = "IKE_SA_INIT"
        BY <2>2, <4>1 DEF Asking, TM
      <4> QED BY <2>4, <4>2 DEF Prepared
    <3> QED BY <1>1, <2>1, <3>1 DEF Leads
  <2>6. \E b \in retransmit(x) :
           o = [b EXCEPT !.asks = IF b.tm.state = "gone" THEN <<>> ELSE <<r>>]
    <3> DEFINE typ == ExchangeOf(t.active = <<>>, Activated(t).active)
               mid == IF typ = "IKE_SA_INIT" THEN 0 ELSE t.mid
               st == IF typ = "IKE_SA_INIT" THEN "connecting"
                     ELSE IF Head(Activated(t).active).kind = "IKE_DELETE" THEN "deleting"
                     ELSE t.state
    <3>1. typ = "IKE_SA_INIT" /\ mid = 0 /\ st = "connecting"
      BY <1>1, <1>2
    <3>2. (typ = "IKE_SA_INIT" /\ t.retry > 0) = (t.retry > 0)
      BY <3>1
    <3>3. \E b \in retransmit(Asking(p, Activated(t), Request(mid, typ, Head(Activated(t).active),
                                 typ = "IKE_SA_INIT" /\ t.retry > 0), st)) :
           o = [b EXCEPT !.asks = IF b.tm.state = "gone" THEN <<>>
                  ELSE <<Request(mid, typ, Head(Activated(t).active),
                                 typ = "IKE_SA_INIT" /\ t.retry > 0)>>]
      BY <1>3, <1>6, <3>1, InitiateIs
    <3>4. Request(mid, typ, Head(Activated(t).active), typ = "IKE_SA_INIT" /\ t.retry > 0) = r
      BY <1>1, <2>1, <3>1, <3>2
    <3> QED BY <1>1, <2>2, <3>1, <3>3, <3>4
  <2> QED BY <2>4, <2>5, <2>6, Dispatched
<1> QED BY <1>4, <1>5, <1>6

LEMMA InitiatePlain ==
  ASSUME NEW p \in Peers, NEW t \in TM, Sound(p, t), t.type = "none", t.state # "gone",
         NEW o \in initiate(p, t)
  PROVE  Initiated(p, t, o)
<1>1. PICK a \in TM : /\ a = Activated(t) /\ a.active \in Seq(Plain(p))
                      /\ ExchangeOf(t.active = <<>>, a.active) = "none" => a = t
  BY ActivatedPlain
<1>2. PICK typ : typ = ExchangeOf(t.active = <<>>, a.active)
  OBVIOUS
<1>3. typ # "IKE_SA_INIT"
  BY <1>1, <1>2, ExchangeOfPlain
<1>4. CASE typ = "none"
  <2>1. o = Outcome(t, {}, <<>>)
    BY <1>1, <1>2, <1>4 DEF initiate
  <2> QED BY <2>1 DEF Outcome, Quiet, Initiated
<1>5. CASE o = Outcome(Destroyed(t, "failed"), {}, <<>>)
  BY <1>5 DEF Outcome, Launched, Initiated
<1>6. CASE typ # "none" /\ o # Outcome(Destroyed(t, "failed"), {}, <<>>)
  <2>1. PICK r : r = Request(t.mid, typ, Head(a.active), FALSE)
    OBVIOUS
  <2>2. PICK st : st = IF Head(a.active).kind = "IKE_DELETE" THEN "deleting" ELSE t.state
    OBVIOUS
  <2>3. PICK x : x = Asking(p, a, r, st)
    OBVIOUS
  <2>4. Prepared(p, t, x)
    BY <1>1, <1>2, <1>6, <2>1, <2>2, <2>3, PreparedPlain
  <2>5. x.packet.req = r /\ x \in TM
    <3>1. x.packet = Carrier(p, r)
      BY <2>3 DEF Asking, TM
    <3> QED BY <2>4, <3>1 DEF Prepared, Carrier
  <2>6. \E b \in retransmit(x) :
           o = [b EXCEPT !.asks = IF b.tm.state = "gone" THEN <<>> ELSE <<r>>]
    <3> DEFINE ty == ExchangeOf(t.active = <<>>, Activated(t).active)
               mid == IF ty = "IKE_SA_INIT" THEN 0 ELSE t.mid
               sta == IF ty = "IKE_SA_INIT" THEN "connecting"
                      ELSE IF Head(Activated(t).active).kind = "IKE_DELETE" THEN "deleting"
                      ELSE t.state
    <3>1. ty = typ /\ mid = t.mid /\ sta = st
      BY <1>1, <1>2, <1>3, <2>2
    <3>2. (ty = "IKE_SA_INIT" /\ t.retry > 0) = FALSE
      BY <1>3, <3>1
    <3>3. \E b \in retransmit(Asking(p, Activated(t), Request(mid, ty, Head(Activated(t).active),
                                 ty = "IKE_SA_INIT" /\ t.retry > 0), sta)) :
           o = [b EXCEPT !.asks = IF b.tm.state = "gone" THEN <<>>
                  ELSE <<Request(mid, ty, Head(Activated(t).active),
                                 ty = "IKE_SA_INIT" /\ t.retry > 0)>>]
      BY <1>3, <1>6, <3>1, InitiateIs
    <3>4. Request(mid, ty, Head(Activated(t).active), ty = "IKE_SA_INIT" /\ t.retry > 0) = r
      BY <1>1, <2>1, <3>1, <3>2
    <3> QED BY <1>1, <2>3, <3>1, <3>3, <3>4
  <2> QED BY <2>4, <2>5, <2>6, Dispatched DEF Initiated
<1> QED BY <1>4, <1>5, <1>6

\* initiate() on any task manager that is not about to set up the SA.
LEMMA InitiateGives ==
  ASSUME NEW p \in Peers, NEW t \in TM, t.state # "gone", Sound(p, t),
         NEW o \in initiate(p, t)
  PROVE  Initiated(p, t, o)
BY InitiateBusy, InitiatePlain

-----------------------------------------------------------------------------
(***************************************************************************)
(* Sane: what a handler leaves.                                             *)
(***************************************************************************)
Ends(p, o) ==
  /\ o.tm \in TM /\ Sound(p, o.tm)
  /\ o.sent \in SUBSET Messages /\ (\A m \in o.sent : Proper(m))
  /\ o.asks \in Seq(Requests)

LEMMA SendsWell ==
  ASSUME NEW p \in Peers, NEW x \in TM, Sound(p, x), x.type # "none",
         NEW o, Sends(x, o)
  PROVE  o.sent \in SUBSET Messages /\ \A m \in o.sent : Proper(m)
<1>1. x.packet \in Messages /\ Proper(x.packet)
  BY DEF Sound, Busy, Packet
<1> QED BY <1>1 DEF Sends

LEMMA LaunchedEnds ==
  ASSUME NEW p \in Peers, NEW t \in TM, NEW o, Launched(p, t, o)
  PROVE  Ends(p, o)
<1>0. <<>> \in Seq(Requests) /\ "failed" \in Whys
  BY EmptySeq DEF Whys
<1>1. CASE o.tm = Destroyed(t, "failed") /\ o.sent = {} /\ o.asks = <<>>
  BY <1>0, <1>1, DestroyedGives DEF Ends
<1>2. ASSUME NEW x \in TM, Prepared(p, t, x), Sends(x, o), o.asks = <<x.packet.req>>,
             o.tm \in TM, Same(x, o.tm)
      PROVE  Ends(p, o)
  <2>1. Sound(p, x) /\ x.type # "none"
    BY <1>2 DEF Prepared
  <2>2. x.packet \in Messages
    BY <2>1 DEF Sound, Busy, Packet
  <2>3. x.packet.req \in Requests
    BY <2>2 DEF Messages
  <2>4. o.asks \in Seq(Requests)
    BY <1>2, <2>3
  <2>5. Sound(p, o.tm)
    BY <1>2, <2>1, SameSound
  <2> QED BY <1>2, <2>1, <2>4, <2>5, SendsWell DEF Ends
<1> QED BY <1>1, <1>2 DEF Launched

LEMMA InitiatedEnds ==
  ASSUME NEW p \in Peers, NEW t \in TM, Sound(p, t), NEW o, Initiated(p, t, o)
  PROVE  Ends(p, o)
<1>0. <<>> \in Seq(Requests)
  BY EmptySeq
<1>1. CASE Quiet(t, o)
  BY <1>0, <1>1 DEF Ends, Quiet
<1>2. ASSUME NEW x \in TM, Same(t, x), t.type # "none", Sends(x, o), o.asks = <<>>,
             o.tm \in TM, Same(x, o.tm)
      PROVE  Ends(p, o)
  <2>1. Sound(p, x) /\ x.type # "none"
    BY <1>2, SameSound DEF Same
  <2>2. Sound(p, o.tm)
    BY <1>2, <2>1, SameSound
  <2> QED BY <1>0, <1>2, <2>1, <2>2, SendsWell DEF Ends
<1> QED BY <1>1, <1>2, LaunchedEnds DEF Initiated, Resumed

\* One peer, with the packets and the history, takes a step.
LEMMA SaneStep ==
  ASSUME Sane, NEW p \in Peers, NEW x \in TM, Sound(p, x), tm' = [tm EXCEPT ![p] = x],
         net' \in SUBSET Messages, \A m \in net' : Proper(m),
         waiting' \in SUBSET Work,
         asked' \in [Peers -> Seq(Requests)], served' \in [Peers -> Seq(Requests)],
         done' \in [Peers -> Seq(Requests)]
  PROVE  Sane'
<1>1. tm' \in [Peers -> TM]
  BY DEF Sane
<1>2. ASSUME NEW q \in Peers PROVE Sound(q, tm'[q])
  BY DEF Sane
<1> QED BY <1>1, <1>2 DEF Sane

LEMMA SaneCommit ==
  ASSUME Sane, NEW p \in Peers, NEW o, Ends(p, o), NEW past \in Seq(Requests),
         Commit(p, o, past), waiting' \in SUBSET Work,
         served' \in [Peers -> Seq(Requests)], done' \in [Peers -> Seq(Requests)]
  PROVE  Sane'
<1>1. past \o o.asks \in Seq(Requests)
  BY ConcatProperties DEF Ends
<1>2. asked' \in [Peers -> Seq(Requests)]
  BY <1>1 DEF Commit, Sane
<1>3. net' \in SUBSET Messages /\ (\A m \in net' : Proper(m))
  BY DEF Commit, Ends, Sane
<1>4. tm' = [tm EXCEPT ![p] = o.tm] /\ o.tm \in TM /\ Sound(p, o.tm)
  BY DEF Commit, Ends
<1> QED BY <1>2, <1>3, <1>4, SaneStep

LEMMA SaneParts ==
  ASSUME Sane, NEW p \in Peers
  PROVE  /\ tm[p] \in TM /\ Sound(p, tm[p]) /\ asked[p] \in Seq(Requests)
         /\ served[p] \in Seq(Requests) /\ done[p] \in Seq(Requests)
BY DEF Sane

\* Only the queue differs.
Requeued(t, x) == Moved(t, x) /\ x.active = t.active

Enqueued(t, q) == [t EXCEPT !.queued = q]
LEMMA EnqueuedGives ==
  ASSUME NEW t \in TM, NEW q \in Seq(Tasks)
  PROVE  LET x == Enqueued(t, q) IN x \in TM /\ Requeued(t, x) /\ x.queued = q
<1>1. Enqueued(t, q) \in TM
  BY DEF Enqueued, TM
<1> QED BY <1>1 DEF Enqueued, TM, Requeued, Moved

LEMMA QueueTaskGives ==
  ASSUME Sane, NEW p \in Peers, NEW k \in waiting, QueueTask(p, k)
  PROVE  \E t \in TM : \E o : /\ Requeued(tm[p], t) /\ Sound(p, t) /\ t.state # "gone"
                               /\ Initiated(p, t, o) /\ Commit(p, o, asked[p])
<1>1. tm[p] \in TM /\ Sound(p, tm[p]) /\ k \in Plain(p) /\ k \in Tasks
  BY SaneParts DEF Sane, Plain, Tasks
<1> DEFINE dup == k.kind = "IKE_MOBIKE" /\ "IKE_MOBIKE" \in Kind(tm[p].queued)
<1>2. PICK q : q = IF dup THEN tm[p].queued ELSE Append(tm[p].queued, k)
  OBVIOUS
<1>3. q \in Seq(Plain(p)) /\ q \in Seq(Tasks)
  BY <1>1, <1>2, AppendProperties, Fields DEF Sound
<1>4. PICK t \in TM : t = Enqueued(tm[p], q) /\ Requeued(tm[p], t) /\ t.queued = q
  BY <1>1, <1>3, EnqueuedGives
<1>5. t.state # "gone" /\ t.state # "created" /\ ~(p = Rsp /\ t.state = "connecting")
  BY <1>4, OtherPeer DEF QueueTask, Gone, Requeued, Moved
<1>6. Sound(p, t)
  <2>1. t.type # "none" => Busy(p, t)
    BY <1>1, <1>4 DEF Sound, Requeued, Moved, Busy, Packet
  <2> QED BY <1>1, <1>3, <1>4, <1>5, <2>1 DEF Sound, Requeued, Moved
<1>7. [tm[p] EXCEPT !.queued = IF dup THEN @ ELSE Append(@, k)] = t
  BY <1>2, <1>4 DEF Enqueued
<1>8. \E o \in initiate(p, [tm[p] EXCEPT !.queued = IF dup THEN @ ELSE Append(@, k)]) :
         Commit(p, o, asked[p])
  BY DEF QueueTask
<1>9. PICK o \in initiate(p, t) : Commit(p, o, asked[p])
  BY <1>7, <1>8
<1>10. Initiated(p, t, o)
  BY <1>5, <1>6, <1>9, InitiateGives
<1> QED BY <1>4, <1>5, <1>6, <1>9, <1>10

LEMMA QueueIkeGives ==
  ASSUME Sane, QueueIke
  PROVE  \E t \in TM : \E o : /\ Requeued(tm[Ini], t) /\ Starts(Ini, t) /\ tm[Ini].state = "created"
                               /\ Launched(Ini, t, o) /\ Commit(Ini, o, asked[Ini])
<1>1. /\ Ini \in Peers /\ tm[Ini] \in TM /\ Sound(Ini, tm[Ini]) /\ tm[Ini].state = "created"
  BY SaneParts, OtherPeer DEF QueueIke
<1>2. Setup /\ tm[Ini].mid = 0 /\ tm[Ini].type = "none" /\ tm[Ini].active = <<>>
      /\ tm[Ini].packet = None
  BY <1>1 DEF Sound
<1>3. PICK q : q = <<InitTask, AuthTask>>
  OBVIOUS
<1>4. q \in Seq(Tasks) /\ Leads(q, Ini)
  <2>1. AuthTask \in Plain(Ini)
    BY <1>2 DEF Plain
  <2>2. Tail(q) = <<AuthTask>> /\ Head(q) = InitTask /\ q # <<>>
    BY <1>3
  <2>3. <<AuthTask>> \in Seq(Plain(Ini))
    BY <2>1
  <2> QED BY <1>3, <2>2, <2>3, TaskKinds DEF Leads
<1>5. PICK t \in TM : t = Enqueued(tm[Ini], q) /\ Requeued(tm[Ini], t) /\ t.queued = q
  BY <1>1, <1>4, EnqueuedGives
<1>6. Starts(Ini, t)
  BY <1>1, <1>2, <1>4, <1>5 DEF Starts, Requeued, Moved, Sound
<1>7. PICK o \in initiate(Ini, t) : Commit(Ini, o, asked[Ini])
  BY <1>3, <1>5 DEF QueueIke, Enqueued
<1> QED BY <1>1, <1>5, <1>6, <1>7, InitiateLeading

LEMMA ReinitiateGives ==
  ASSUME Sane, NEW p \in Peers, Reinitiate(p)
  PROVE  \E o : Initiated(p, tm[p], o) /\ Commit(p, o, asked[p])
BY SaneParts, InitiateGives DEF Reinitiate, Gone

\* A job less for message ID m.
Jobbed(t, m) == [t EXCEPT !.jobs[m] = @ - 1]

LEMMA JobbedGives ==
  ASSUME NEW t \in TM, NEW m \in 0..MaxMid, t.jobs[m] > 0
  PROVE  LET x == Jobbed(t, m)
         IN /\ x \in TM /\ Same(t, x) /\ x.deferred = t.deferred
            /\ x.jobs = [t.jobs EXCEPT ![m] = @ - 1]
            /\ x.retransmitted = t.retransmitted /\ x.outages = t.outages
<1>1. [t.jobs EXCEPT ![m] = @ - 1] \in [0..MaxMid -> Nat]
  BY Fields, Bounds
<1>2. Jobbed(t, m) = [t EXCEPT !.jobs = [t.jobs EXCEPT ![m] = @ - 1]]
  BY DEF Jobbed, TM
<1>3. Jobbed(t, m) \in TM
  BY <1>1, <1>2 DEF TM
<1> QED BY <1>2, <1>3 DEF TM, Same

\* What a retransmit job does to the task manager t whose job has been counted.
Repeated(t, o) ==
  /\ o.asks = <<>>
  /\ \/ Quiet(t, o)
     \/ t.type # "none" /\ Sends(t, o) /\ o.tm \in TM /\ Same(t, o.tm)
     \/ o.tm = Destroyed(t, "timeout") /\ o.sent = {}

LEMMA RetransmitJobGives ==
  ASSUME Sane, NEW p \in Peers, NEW m \in 0..MaxMid, RetransmitJob(p, m)
  PROVE  \E t \in TM : \E o : /\ t = Jobbed(tm[p], m) /\ Sound(p, t) /\ t.state # "gone"
                               /\ Same(tm[p], t)
                               /\ Repeated(t, o) /\ (Quiet(t, o) => m # t.mid \/ t.type = "none")
                               /\ (~Quiet(t, o) => m = t.mid)
                               /\ Commit(p, o, asked[p])
<1>1. /\ tm[p] \in TM /\ Sound(p, tm[p]) /\ tm[p].state # "gone" /\ tm[p].jobs[m] > 0
  BY SaneParts DEF RetransmitJob, Gone
<1>2. PICK t \in TM : t = Jobbed(tm[p], m) /\ Same(tm[p], t)
  BY <1>1, JobbedGives
<1>3. Sound(p, t) /\ t.state # "gone"
  BY <1>1, <1>2, SameSound DEF Same
<1>4. PICK o \in IF m = t.mid THEN retransmit(t) ELSE {Outcome(t, {}, <<>>)} :
         Commit(p, o, asked[p])
  BY <1>2 DEF RetransmitJob, Jobbed
<1>5. CASE m # t.mid
  BY <1>2, <1>3, <1>4, <1>5 DEF Outcome, Quiet, Repeated
<1>6. CASE m = t.mid /\ t.type = "none"
  <2>1. t.packet = None
    BY <1>3, <1>6 DEF Sound
  <2>2. o = Outcome(t, {}, <<>>)
    BY <1>4, <1>6, <2>1 DEF retransmit
  <2> QED BY <1>2, <1>3, <1>4, <1>6, <2>2 DEF Outcome, Quiet, Repeated
<1>7. CASE m = t.mid /\ t.type # "none"
  <2>1. t.packet.is = "request"
    BY <1>3, <1>7 DEF Sound, Busy, Packet
  <2>2. t.packet # None
    BY <2>1 DEF None
  <2>3. /\ o.asks = <<>>
        /\ \/ Sends(t, o) /\ o.tm \in TM /\ Same(t, o.tm)
           \/ o.tm = Destroyed(t, "timeout") /\ o.sent = {}
    BY <1>4, <1>7, <2>2, RetransmitGives
  <2>4. ~Quiet(t, o)
    <3>1. CASE o.tm = Destroyed(t, "timeout")
      BY <1>3, <3>1, DestroyedGives DEF Quiet, Whys
    <3>2. CASE o.tm = Transmitted(t) /\ o.sent = {t.packet}
      BY <3>2 DEF Quiet
    <3>3. CASE o.tm = Deferred(t) /\ Quiet(t, o)
      <4>1. Deferred(t).outages = t.outages + 1
        BY DEF Deferred, TM
      <4> QED BY <3>3, <4>1, Fields, Bounds DEF Quiet
    <3> QED BY <2>3, <3>1, <3>2, <3>3 DEF Sends
  <2> QED BY <1>2, <1>3, <1>4, <1>7, <2>3, <2>4 DEF Repeated
<1> QED BY <1>5, <1>6, <1>7

LEMMA RepeatedEnds ==
  ASSUME NEW p \in Peers, NEW t \in TM, Sound(p, t), NEW o, Repeated(t, o)
  PROVE  Ends(p, o)
<1>0. <<>> \in Seq(Requests) /\ "timeout" \in Whys
  BY EmptySeq DEF Whys
<1>1. CASE Quiet(t, o)
  BY <1>0, <1>1 DEF Ends, Quiet
<1>2. CASE t.type # "none" /\ Sends(t, o) /\ o.tm \in TM /\ Same(t, o.tm)
  BY <1>0, <1>2, SendsWell, SameSound DEF Ends, Repeated
<1>3. CASE o.tm = Destroyed(t, "timeout") /\ o.sent = {}
  BY <1>0, <1>3, DestroyedGives DEF Ends, Repeated
<1> QED BY <1>1, <1>2, <1>3 DEF Repeated

LEMMA AnswerGives ==
  ASSUME NEW m \in Messages, Proper(m), m.is = "request", NEW mid \in 0..MaxMid,
         NEW is \in Answers, is = "cookie" => Cookies /\ m.type = "IKE_SA_INIT",
         is = "more" => m.type # "IKE_SA_INIT"
  PROVE  LET a == Answer(m, mid, is)
         IN /\ a \in Messages /\ Proper(a) /\ a.to = Other[m.to] /\ a.mid = mid
            /\ a.type = m.type /\ a.req = m.req /\ a.is = is
<1>1. /\ m.to \in Peers /\ Other[m.to] \in Peers /\ m.type \in Types /\ m.req \in Requests
  BY OtherPeer DEF Messages
<1>2. Answer(m, mid, is) \in Messages
  BY <1>1 DEF Answer, Messages
<1>3. LET a == Answer(m, mid, is)
      IN a.to = Other[m.to] /\ a.mid = mid /\ a.type = m.type /\ a.req = m.req /\ a.is = is
  BY DEF Answer
<1>4. Proper(Answer(m, mid, is))
  BY <1>3, OtherPeer DEF Proper, Answers
<1> QED BY <1>2, <1>3, <1>4

\* The passive side of a task manager after a request.
Counted(t) == [t EXCEPT !.rmid = @ + 1]
LEMMA CountedGives ==
  ASSUME NEW p \in Peers, NEW t \in TM, Sound(p, t), t.rmid < MaxMid
  PROVE  LET x == Counted(t)
         IN x \in TM /\ Sound(p, x) /\ x.state = t.state /\ x.why = t.why /\ x.jobs = t.jobs
            /\ x.mid = t.mid /\ x.type = t.type /\ x.deferred = t.deferred
<1>1. t.rmid + 1 \in 0..MaxMid
  BY Fields, Bounds
<1>2. Counted(t) \in TM
  BY <1>1 DEF Counted, TM
<1>3. LET x == Counted(t)
      IN /\ x.state = t.state /\ x.why = t.why /\ x.jobs = t.jobs /\ x.queued = t.queued
         /\ x.active = t.active /\ x.mid = t.mid /\ x.type = t.type /\ x.packet = t.packet
         /\ x.retry = t.retry /\ x.rpacket = t.rpacket /\ x.deferred = t.deferred
  BY DEF Counted, TM
<1>4. Sound(p, Counted(t))
  BY <1>3 DEF Sound, Busy, Packet
<1> QED BY <1>2, <1>3, <1>4

LEMMA RespondedGives ==
  ASSUME NEW t \in TM, t.rmid < MaxMid, NEW a \in Messages, NEW st \in States
  PROVE  LET x == Responded(t, a, st)
         IN /\ x \in TM /\ x.state = st /\ x.rpacket = a /\ x.rmid = t.rmid + 1
            /\ x.why = t.why /\ x.jobs = t.jobs /\ x.queued = t.queued
            /\ x.active = t.active /\ x.mid = t.mid /\ x.type = t.type /\ x.packet = t.packet
            /\ x.retry = t.retry /\ x.deferred = t.deferred
<1>1. t.rmid + 1 \in 0..MaxMid
  BY Fields, Bounds
<1>2. PICK h \in BOOLEAN : h = (t.halfopen \/ a.type = "IKE_SA_INIT")
  OBVIOUS
<1>3. Responded(t, a, st) = [t EXCEPT !.rmid = t.rmid + 1, !.rpacket = a, !.state = st,
                                      !.halfopen = h]
  BY <1>2, Zenon DEF Responded
<1>4. Responded(t, a, st) \in TM
  BY <1>1, <1>3 DEF TM
<1> QED BY <1>3, <1>4 DEF TM

\* What process_message() makes of a request.
Served(p, m, x, a) ==
  /\ x \in TM /\ Sound(p, x) /\ x.jobs = tm[p].jobs /\ x.mid = tm[p].mid
  /\ a \in Messages /\ Proper(a) /\ a.to = Other[p] /\ a.mid = tm[p].rmid
  /\ a.type = m.type /\ a.req = m.req /\ a.is \in {"ok", "more", "failed"}
  /\ \/ \E w \in {"deleted", "failed"} : x = Destroyed(tm[p], w)
     \/ /\ x.state # "gone" /\ x.why = tm[p].why /\ x.type = tm[p].type
        /\ x.packet = tm[p].packet /\ x.retry = tm[p].retry /\ x.deferred = tm[p].deferred
        /\ x.rmid = tm[p].rmid + 1 /\ x.rpacket = a
        /\ \/ x.state = tm[p].state
           \/ p = Rsp /\ x.state = "connecting" /\ tm[p].state = "created"
           \/ p = Rsp /\ x.state = "established" /\ tm[p].state = "connecting"

LEMMA ReactionsAre ==
  ASSUME NEW m, NEW r \in Reactions(m)
  PROVE  /\ r.is \in {"ok", "more", "failed"}
         /\ r.state \in {"connecting", "established", "same", "gone"}
         /\ m.type = "IKE_SA_INIT" => r.is # "more" /\ r.state \in {"connecting", "gone"}
         /\ r.is = "failed" => r.state = "gone"
         /\ r.state \in {"connecting", "established"} => m.type \in {"IKE_SA_INIT", "IKE_AUTH"}
         /\ r.state = "established" => m.type = "IKE_AUTH"
BY DEF Reactions

LEMMA ProcessRequestGives ==
  ASSUME Sane, NEW p \in Peers, NEW m \in net, ProcessRequest(p, m)
  PROVE  \/ \E x, a : /\ Served(p, m, x, a) /\ tm' = [tm EXCEPT ![p] = x]
                      /\ net' = net \cup {a}
                      /\ served' = [served EXCEPT ![p] = Append(@, m.req)]
         \/ /\ tm' = [tm EXCEPT ![p] = Destroyed(tm[p], "failed")]
            /\ net' = net /\ served' = served
<1>1. /\ tm[p] \in TM /\ Sound(p, tm[p]) /\ tm[p].state # "gone" /\ tm[p].rmid < MaxMid
      /\ m \in Messages /\ Proper(m) /\ m.is = "request" /\ m.to = p
      /\ m.mid = tm[p].rmid /\ Expected(tm[p], m)
  BY SaneParts DEF ProcessRequest, Arrived, Gone, InOrder, Sane
<1>2. \/ \E r \in Reactions(m) :
          /\ LET a == Answer(m, tm[p].rmid, r.is)
                 s == IF r.state = "same" THEN tm[p].state ELSE r.state
             IN /\ tm' = [tm EXCEPT ![p] =
                             IF r.is = "failed" THEN Destroyed(tm[p], "failed")
                             ELSE IF r.state = "gone" THEN Destroyed(tm[p], "deleted")
                             ELSE Responded(tm[p], a, s)]
                /\ net' = net \cup {a}
          /\ served' = [served EXCEPT ![p] = Append(@, m.req)]
      \/ /\ tm' = [tm EXCEPT ![p] = Destroyed(tm[p], "failed")]
         /\ UNCHANGED <<net, served>>
  BY DEF ProcessRequest
<1>3. ASSUME NEW r \in Reactions(m),
             NEW a, a = Answer(m, tm[p].rmid, r.is),
             NEW s, s = IF r.state = "same" THEN tm[p].state ELSE r.state,
             NEW x, x = IF r.is = "failed" THEN Destroyed(tm[p], "failed")
                        ELSE IF r.state = "gone" THEN Destroyed(tm[p], "deleted")
                        ELSE Responded(tm[p], a, s)
      PROVE  Served(p, m, x, a)
  <2>1. /\ r.is \in {"ok", "more", "failed"}
        /\ r.state \in {"connecting", "established", "same", "gone"}
        /\ m.type = "IKE_SA_INIT" => r.is # "more" /\ r.state \in {"connecting", "gone"}
        /\ r.is = "failed" => r.state = "gone"
        /\ r.state \in {"connecting", "established"} => m.type \in {"IKE_SA_INIT", "IKE_AUTH"}
        /\ r.state = "established" => m.type = "IKE_AUTH"
    BY ReactionsAre
  <2>2. /\ a \in Messages /\ Proper(a) /\ a.to = Other[p] /\ a.mid = tm[p].rmid
        /\ a.type = m.type /\ a.req = m.req /\ a.is \in {"ok", "more", "failed"}
    <3>1. r.is \in Answers /\ r.is # "cookie" /\ (r.is = "more" => m.type # "IKE_SA_INIT")
      BY <2>1 DEF Answers
    <3>2. tm[p].rmid \in 0..MaxMid
      BY <1>1, Fields
    <3> QED BY <1>1, <1>3, <2>1, <3>1, <3>2, AnswerGives
  <2>3. CASE r.state = "gone"
    <3>1. PICK w \in {"deleted", "failed"} : x = Destroyed(tm[p], w)
      <4>1. CASE r.is = "failed"
        BY <1>3, <4>1
      <4>2. CASE r.is # "failed"
        BY <1>3, <2>3, <4>2
      <4> QED BY <4>1, <4>2
    <3>2. w \in Whys
      BY DEF Whys
    <3> QED BY <1>1, <2>2, <3>1, <3>2, DestroyedGives DEF Served
  <2>4. CASE r.state # "gone"
    <3>1. x = Responded(tm[p], a, s)
      BY <1>3, <2>1, <2>4
    <3>2. s \in States /\ s # "gone"
      BY <1>1, <1>3, <2>1, <2>4, Fields DEF States
    <3>3. /\ x \in TM /\ x.state = s /\ x.rpacket = a /\ x.rmid = tm[p].rmid + 1
          /\ x.why = tm[p].why /\ x.jobs = tm[p].jobs /\ x.queued = tm[p].queued
          /\ x.active = tm[p].active /\ x.mid = tm[p].mid /\ x.type = tm[p].type
          /\ x.packet = tm[p].packet /\ x.retry = tm[p].retry
          /\ x.deferred = tm[p].deferred
      BY <1>1, <2>2, <3>1, <3>2, RespondedGives
    <3>4. r.state # "same" => p = Rsp
      BY <1>1, <2>1, <2>4 DEF Proper
    <3>5. \/ s = tm[p].state
          \/ p = Rsp /\ s = "connecting" /\ tm[p].state = "created"
          \/ p = Rsp /\ s = "established" /\ tm[p].state = "connecting"
      BY <1>1, <1>3, <2>1, <2>4, <3>4 DEF Expected
    <3>6. Sound(p, x)
      <4>1. CASE s = tm[p].state
        BY <1>1, <2>2, <3>3, <4>1 DEF Sound, Busy, Packet
      <4>2. CASE p = Rsp /\ s \in {"connecting", "established"}
                 /\ tm[p].state \in {"created", "connecting"}
        BY <1>1, <2>2, <3>3, <4>2 DEF Sound
      <4> QED BY <3>5, <4>1, <4>2
    <3> QED BY <2>2, <3>2, <3>3, <3>5, <3>6 DEF Served
  <2> QED BY <2>3, <2>4
<1>4. CASE \E r \in Reactions(m) :
          /\ LET a == Answer(m, tm[p].rmid, r.is)
                 s == IF r.state = "same" THEN tm[p].state ELSE r.state
             IN /\ tm' = [tm EXCEPT ![p] =
                             IF r.is = "failed" THEN Destroyed(tm[p], "failed")
                             ELSE IF r.state = "gone" THEN Destroyed(tm[p], "deleted")
                             ELSE Responded(tm[p], a, s)]
                /\ net' = net \cup {a}
          /\ served' = [served EXCEPT ![p] = Append(@, m.req)]
  <2>1. PICK r \in Reactions(m) :
          /\ LET a == Answer(m, tm[p].rmid, r.is)
                 s == IF r.state = "same" THEN tm[p].state ELSE r.state
             IN /\ tm' = [tm EXCEPT ![p] =
                             IF r.is = "failed" THEN Destroyed(tm[p], "failed")
                             ELSE IF r.state = "gone" THEN Destroyed(tm[p], "deleted")
                             ELSE Responded(tm[p], a, s)]
                /\ net' = net \cup {a}
          /\ served' = [served EXCEPT ![p] = Append(@, m.req)]
    BY <1>4
  <2>2. PICK a : a = Answer(m, tm[p].rmid, r.is)
    OBVIOUS
  <2>3. PICK s : s = IF r.state = "same" THEN tm[p].state ELSE r.state
    OBVIOUS
  <2>4. PICK x : x = IF r.is = "failed" THEN Destroyed(tm[p], "failed")
                     ELSE IF r.state = "gone" THEN Destroyed(tm[p], "deleted")
                     ELSE Responded(tm[p], a, s)
    OBVIOUS
  <2>5. Served(p, m, x, a)
    BY <1>3, <2>2, <2>3, <2>4
  <2> QED BY <2>1, <2>2, <2>3, <2>4, <2>5
<1> QED BY <1>2, <1>4

LEMMA ConcludedGives ==
  ASSUME NEW t \in TM, t.mid < MaxMid, NEW left \in Seq(Tasks), NEW st \in States
  PROVE  LET x == Concluded(t, left, st)
         IN /\ x \in TM /\ x.active = left /\ x.state = st /\ x.mid = t.mid + 1
            /\ x.type = "none" /\ x.packet = None /\ x.why = t.why /\ x.jobs = t.jobs
            /\ x.queued = t.queued /\ x.retry = t.retry /\ x.rmid = t.rmid
            /\ x.rpacket = t.rpacket /\ x.deferred = t.deferred
<1>1. t.mid + 1 \in 0..MaxMid
  BY Fields, Bounds
<1>2. Concluded(t, left, st) \in TM
  BY <1>1 DEF Concluded, TM
<1> QED BY <1>2 DEF Concluded, TM

\* The exchange of p is over.
Over(p, x) ==
  /\ x \in TM /\ Sound(p, x) /\ x.type = "none" /\ x.mid = tm[p].mid + 1
  /\ x.why = tm[p].why /\ x.jobs = tm[p].jobs /\ x.rmid = tm[p].rmid
  /\ x.rpacket = tm[p].rpacket /\ x.state # "gone" /\ x.state # "created"
  /\ x.retry = tm[p].retry
  /\ x.state = tm[p].state \/ (p = Ini /\ x.state = "established")

LEMMA ProcessResponseGives ==
  ASSUME Sane, NEW p \in Peers, NEW m \in net, ProcessResponse(p, m)
  PROVE  /\ m.to = p /\ m.is \in {"ok", "more", "refused", "failed"} /\ tm[p].state # "gone"
         /\ m.mid = tm[p].mid /\ m.type = tm[p].type /\ tm[p].type # "none"
         /\ \/ \E w \in {"deleted", "failed"} :
                 Commit(p, Outcome(Destroyed(tm[p], w), {}, <<>>), asked[p])
            \/ \E x \in TM : \E o : /\ Over(p, x) /\ Initiated(p, x, o)
                                    /\ Commit(p, o, asked[p])
<1>1. /\ tm[p] \in TM /\ Sound(p, tm[p]) /\ tm[p].state # "gone" /\ tm[p].mid < MaxMid
      /\ m \in Messages /\ Proper(m) /\ m.is \in {"ok", "more", "refused", "failed"} /\ m.to = p
      /\ m.mid = tm[p].mid /\ m.type = tm[p].type
  <2>1. m \in Messages /\ Proper(m) /\ m.is \notin {"request", "cookie"}
    BY DEF ProcessResponse, Sane
  <2>2. m.is \in {"ok", "more", "refused", "failed"}
    BY <2>1 DEF Messages, Answers
  <2> QED BY <2>1, <2>2, SaneParts DEF ProcessResponse, Gone
<1>2. tm[p].type \in Types /\ tm[p].type # "none"
  BY <1>1 DEF Messages, Types
<1>3. Busy(p, tm[p])
  BY <1>1, <1>2 DEF Sound
<1>4. PICK left : left = CASE m.is = "more" -> tm[p].active
                           [] m.is # "more" /\ tm[p].type = "IKE_SA_INIT" -> Tail(tm[p].active)
                           [] OTHER -> <<>>
  OBVIOUS
<1>5. PICK st : st = IF m.type = "IKE_AUTH" /\ m.is = "ok" THEN "established" ELSE tm[p].state
  OBVIOUS
<1>6. left \in Seq(Plain(p))
  <2>1. CASE m.is = "more"
    BY <1>1, <1>4, <2>1 DEF Sound, Proper
  <2>2. CASE m.is # "more" /\ tm[p].type = "IKE_SA_INIT"
    BY <1>3, <1>4, <2>2 DEF Busy, Leads
  <2>3. CASE m.is # "more" /\ tm[p].type # "IKE_SA_INIT"
    <3>1. left = <<>>
      BY <1>4, <2>3
    <3> QED BY <3>1, EmptySeq
  <2> QED BY <2>1, <2>2, <2>3
<1>7. /\ st \in States /\ st # "gone" /\ st # "created"
      /\ st = tm[p].state \/ (p = Ini /\ st = "established")
      /\ ~(p = Rsp /\ st = "connecting")
  BY <1>1, <1>2, <1>3, <1>5, Fields, OtherPeer DEF Sound, Busy, States
<1>8. PICK x : x = Concluded(tm[p], left, st)
  OBVIOUS
<1>9. /\ x \in TM /\ x.active = left /\ x.state = st /\ x.mid = tm[p].mid + 1
      /\ x.type = "none" /\ x.packet = None /\ x.why = tm[p].why /\ x.jobs = tm[p].jobs
      /\ x.queued = tm[p].queued /\ x.retry = tm[p].retry /\ x.rmid = tm[p].rmid
      /\ x.rpacket = tm[p].rpacket
  BY <1>1, <1>6, <1>7, <1>8, ConcludedGives, PlainTasks
<1>10. Sound(p, x)
  BY <1>1, <1>6, <1>7, <1>9 DEF Sound
<1>11. Over(p, x)
  BY <1>7, <1>9, <1>10 DEF Over
<1>12. \/ Commit(p, Outcome(Destroyed(tm[p], "deleted"), {}, <<>>), asked[p])
       \/ \E o \in initiate(p, x) : Commit(p, o, asked[p])
       \/ Commit(p, Outcome(Destroyed(tm[p], "failed"), {}, <<>>), asked[p])
  BY <1>4, <1>5, <1>8 DEF ProcessResponse
<1>13. ASSUME NEW o \in initiate(p, x) PROVE Initiated(p, x, o)
  BY <1>7, <1>9, <1>10, <1>13, InitiateGives
<1> QED BY <1>1, <1>2, <1>9, <1>11, <1>12, <1>13

\* reset() for another attempt.
Reset(t) ==
  [t EXCEPT !.state = "created", !.retry = t.retry + 1, !.queued = t.active \o t.queued,
            !.active = <<>>, !.mid = 0, !.rmid = 0, !.type = "none", !.packet = None,
            !.rpacket = None]

LEMMA ResetGives ==
  ASSUME NEW t \in TM, t.retry < MaxRetries
  PROVE  LET x == Reset(t)
         IN /\ x \in TM /\ x.state = "created" /\ x.retry = t.retry + 1
            /\ x.queued = t.active \o t.queued /\ x.active = <<>> /\ x.mid = 0
            /\ x.rmid = 0 /\ x.type = "none" /\ x.packet = None /\ x.rpacket = None
            /\ x.why = t.why /\ x.jobs = t.jobs
<1>1. /\ t.retry + 1 \in 0..MaxRetries /\ t.active \o t.queued \in Seq(Tasks)
      /\ <<>> \in Seq(Tasks) /\ "created" \in States /\ 0 \in 0..MaxMid
  BY Fields, Bounds, ConcatProperties, EmptySeq DEF States
<1>2. Reset(t) \in TM
  BY <1>1 DEF Reset, TM
<1> QED BY <1>2 DEF Reset, TM

LEMMA LeadsConcat ==
  ASSUME NEW p \in Peers, NEW q \in Seq(Tasks), Leads(q, p), NEW r \in Seq(Plain(p))
  PROVE  Leads(q \o r, p)
<1>0. r \in Seq(Tasks) /\ Plain(p) \subseteq Tasks
  BY PlainTasks, TaskKinds
<1>1. /\ Len(q) \in Nat \ {0} /\ Len(r) \in Nat /\ q \o r \in Seq(Tasks)
      /\ Len(q \o r) = Len(q) + Len(r)
      /\ \A i \in 1..(Len(q) + Len(r)) :
           (q \o r)[i] = IF i <= Len(q) THEN q[i] ELSE r[i - Len(q)]
  BY <1>0, ConcatProperties, EmptySeq, LenProperties DEF Leads
<1>2. q \o r # <<>>
  BY <1>1, EmptySeq
<1>3. Head(q \o r) = Head(q)
  BY <1>0, <1>1
<1>4. Tail(q) \o r \in Seq(Plain(p))
  BY ConcatProperties DEF Leads
<1>5. Tail(q \o r) = Tail(q) \o r
  <2>1. /\ Tail(q \o r) \in Seq(Tasks) /\ Len(Tail(q \o r)) = Len(q) + Len(r) - 1
        /\ \A i \in 1..Len(Tail(q \o r)) : Tail(q \o r)[i] = (q \o r)[i + 1]
    BY <1>1, <1>2, HeadTailProperties
  <2>2. /\ Tail(q) \in Seq(Tasks) /\ Len(Tail(q)) = Len(q) - 1
        /\ \A i \in 1..Len(Tail(q)) : Tail(q)[i] = q[i + 1]
    BY HeadTailProperties DEF Leads
  <2>3. /\ Tail(q) \o r \in Seq(Tasks) /\ Len(Tail(q) \o r) = Len(q) - 1 + Len(r)
        /\ \A i \in 1..(Len(q) - 1 + Len(r)) :
             (Tail(q) \o r)[i] = IF i <= Len(q) - 1 THEN Tail(q)[i] ELSE r[i - (Len(q) - 1)]
    BY <1>0, <1>1, <2>2, ConcatProperties
  <2>4. ASSUME NEW i \in 1..Len(Tail(q \o r)) PROVE Tail(q \o r)[i] = (Tail(q) \o r)[i]
    BY <1>1, <2>1, <2>2, <2>3
  <2> QED BY <1>1, <2>1, <2>3, <2>4, SeqEqual
<1> QED BY <1>2, <1>3, <1>4, <1>5 DEF Leads

LEMMA ProcessCookieGives ==
  ASSUME Sane, NEW p \in Peers, NEW m \in net, ProcessCookie(p, m)
  PROVE  /\ m.to = p /\ m.is = "cookie" /\ Cookies /\ tm[p].state # "gone"
         /\ tm[p].type = "IKE_SA_INIT" /\ p = Ini /\ Setup
         /\ \E o : /\ Reset(tm[p]) \in TM /\ Starts(p, Reset(tm[p]))
                   /\ Launched(p, Reset(tm[p]), o)
                   /\ Commit(p, o, IF o.asks = <<>> THEN asked[p] ELSE <<>>)
<1>1. /\ tm[p] \in TM /\ Sound(p, tm[p]) /\ tm[p].state # "gone"
      /\ m \in Messages /\ Proper(m) /\ m.is = "cookie" /\ m.to = p
      /\ m.mid = tm[p].mid /\ m.type = tm[p].type
  BY SaneParts DEF ProcessCookie, Gone, Sane
<1>2. tm[p].type = "IKE_SA_INIT" /\ Cookies
  BY <1>1 DEF Proper
<1>3. p = Ini /\ Setup /\ tm[p].retry < MaxRetries /\ Leads(tm[p].active, p)
  BY <1>1, <1>2 DEF Sound, Busy
<1>4. PICK u : u = Reset(tm[p])
  OBVIOUS
<1>5. /\ u \in TM /\ u.state = "created" /\ u.queued = tm[p].active \o tm[p].queued
      /\ u.active = <<>> /\ u.mid = 0 /\ u.type = "none" /\ u.packet = None
      /\ u.rpacket = None
  BY <1>1, <1>3, <1>4, ResetGives
<1>6. Leads(u.queued, p)
  BY <1>1, <1>3, <1>5, LeadsConcat, Fields DEF Sound
<1>7. Starts(p, u)
  BY <1>3, <1>5, <1>6 DEF Starts
<1>8. PICK o \in initiate(p, u) : Commit(p, o, IF o.asks = <<>> THEN asked[p] ELSE <<>>)
  <2>1. u = [tm[p] EXCEPT !.state = "created", !.retry = @ + 1,
                        !.queued = tm[p].active \o @, !.active = <<>>,
                        !.mid = 0, !.rmid = 0, !.type = "none",
                        !.packet = None, !.rpacket = None]
    BY <1>4, <1>1 DEF Reset, TM
  <2> QED BY <2>1 DEF ProcessCookie
<1>9. Launched(p, u, o)
  BY <1>5, <1>7, <1>8, InitiateLeading
<1> QED BY <1>1, <1>2, <1>3, <1>4, <1>5, <1>7, <1>8, <1>9

LEMMA HalfOpenJobGives ==
  ASSUME Sane, NEW p \in Peers, HalfOpenJob(p)
  PROVE  \E t \in TM : /\ t = [tm[p] EXCEPT !.halfopen = FALSE]
                       /\ Sound(p, t) /\ tm[p].state # "gone"
                       /\ t.state = tm[p].state /\ t.why = tm[p].why /\ t.jobs = tm[p].jobs
                       /\ t.mid = tm[p].mid /\ t.type = tm[p].type /\ t.packet = tm[p].packet
                       /\ t.rmid = tm[p].rmid /\ t.rpacket = tm[p].rpacket
                       /\ t.retry = tm[p].retry /\ t.deferred = tm[p].deferred
                       /\ \/ tm' = [tm EXCEPT ![p] = Destroyed(t, "halfopen")]
                          \/ tm' = [tm EXCEPT ![p] = t]
<1>1. tm[p] \in TM /\ Sound(p, tm[p]) /\ tm[p].state # "gone"
  BY SaneParts DEF HalfOpenJob, Gone
<1>2. PICK t : t = [tm[p] EXCEPT !.halfopen = FALSE]
  OBVIOUS
<1>3. t \in TM
  BY <1>1, <1>2 DEF TM
<1>4. /\ t.state = tm[p].state /\ t.why = tm[p].why /\ t.jobs = tm[p].jobs
      /\ t.mid = tm[p].mid /\ t.type = tm[p].type /\ t.packet = tm[p].packet
      /\ t.rmid = tm[p].rmid /\ t.rpacket = tm[p].rpacket /\ t.queued = tm[p].queued
      /\ t.active = tm[p].active /\ t.retry = tm[p].retry /\ t.deferred = tm[p].deferred
  BY <1>1, <1>2 DEF TM
<1>5. Sound(p, t)
  BY <1>1, <1>4 DEF Sound, Busy, Packet
<1>6. \/ tm' = [tm EXCEPT ![p] = Destroyed(t, "halfopen")]
      \/ tm' = [tm EXCEPT ![p] = t]
  BY <1>2 DEF HalfOpenJob
<1> QED BY <1>1, <1>2, <1>3, <1>4, <1>5, <1>6

LEMMA EnoughMids == 2 \in 0..MaxMid
<1>1. MaxMid >= MaxMore + Cardinality(Work) + 3
  BY BoundsAssumption
<1>2. Cardinality(Work) \in Nat
  BY WorkAssumption, FS_CardinalityType
<1> QED BY <1>1, <1>2, Bounds

LEMMA SaneInit == Init => Sane
<1> SUFFICES ASSUME Init PROVE Sane
  OBVIOUS
<1>1. Fresh \in TM
  <2>1. /\ <<>> \in Seq(Tasks) /\ 0 \in 0..MaxMid /\ 0 \in 0..(Tries + 1)
        /\ 0 \in 0..MaxRetries /\ 0 \in 0..MaxOutages
        /\ [m \in 0..MaxMid |-> 0] \in [0..MaxMid -> Nat]
    BY EmptySeq, Bounds
  <2>2. "created" \in States /\ "open" \in Whys
    BY DEF States, Whys
  <2> QED BY <2>1, <2>2 DEF Fresh, TM
<1>2. 2 \in 0..MaxMid /\ "established" \in States
  BY EnoughMids DEF States
<1>3. PICK e \in TM : e = [Fresh EXCEPT !.state = "established", !.mid = 2]
  BY <1>1, <1>2 DEF TM
<1>4. PICK f \in TM : f = [Fresh EXCEPT !.state = "established", !.rmid = 2]
  BY <1>1, <1>2 DEF TM
<1>5. /\ Fresh.queued = <<>> /\ Fresh.active = <<>> /\ Fresh.type = "none"
      /\ Fresh.packet = None /\ Fresh.rpacket = None /\ Fresh.mid = 0
      /\ Fresh.state = "created"
  BY DEF Fresh
<1>6. /\ e.queued = <<>> /\ e.active = <<>> /\ e.type = "none" /\ e.packet = None
      /\ e.rpacket = None /\ e.state = "established"
  BY <1>3 DEF Fresh
<1>7. /\ f.queued = <<>> /\ f.active = <<>> /\ f.type = "none" /\ f.packet = None
      /\ f.rpacket = None /\ f.state = "established"
  BY <1>4 DEF Fresh
<1>8. \A p \in Peers : tm[p] = IF Setup THEN Fresh ELSE IF p = Ini THEN e ELSE f
  BY <1>3, <1>4 DEF Init
<1>9. tm \in [Peers -> TM]
  <2>1. \A p \in Peers : tm[p] \in TM
    BY <1>1, <1>8
  <2>2. tm = [p \in Peers |-> tm[p]]
    BY DEF Init
  <2> QED BY <2>1, <2>2
<1>10. ASSUME NEW p \in Peers PROVE Sound(p, tm[p])
  <2>1. <<>> \in Seq(Plain(p))
    BY EmptySeq
  <2>2. CASE Setup
    <3>1. tm[p] = Fresh
      BY <1>8, <2>2
    <3> QED BY <1>5, <2>1, <2>2, <3>1 DEF Sound
  <2>3. CASE ~Setup
    BY <1>6, <1>7, <1>8, <2>1, <2>3 DEF Sound
  <2> QED BY <2>2, <2>3
<1>11. <<>> \in Seq(Requests)
  BY EmptySeq
<1> QED BY <1>9, <1>10, <1>11 DEF Init, Sane

\* A packet is added to those on the wire.
LEMMA SaneSend ==
  ASSUME Sane, NEW a \in Messages, Proper(a), net' = net \cup {a},
         UNCHANGED <<tm, waiting, asked, served, done>>
  PROVE  Sane'
BY DEF Sane

\* Each handler keeps the task managers sound.
LEMMA SaneNext == Sane /\ [Next]_vars => Sane'
<1> SUFFICES ASSUME Sane, [Next]_vars PROVE Sane'
  OBVIOUS
<1>0. /\ waiting \in SUBSET Work /\ served \in [Peers -> Seq(Requests)]
      /\ done \in [Peers -> Seq(Requests)] /\ asked \in [Peers -> Seq(Requests)]
      /\ net \in SUBSET Messages /\ (\A m \in net : Proper(m))
  BY DEF Sane
<1>1. CASE QueueIke
  <2>1. PICK t \in TM : \E o : Launched(Ini, t, o) /\ Commit(Ini, o, asked[Ini])
    BY <1>1, QueueIkeGives
  <2>2. PICK o : Launched(Ini, t, o) /\ Commit(Ini, o, asked[Ini])
    BY <2>1
  <2> QED BY <1>0, <1>1, <2>2, LaunchedEnds, SaneCommit, SaneParts, OtherPeer DEF QueueIke
<1>2. ASSUME NEW p \in Peers, Reinitiate(p) PROVE Sane'
  <2>1. PICK o : Initiated(p, tm[p], o) /\ Commit(p, o, asked[p])
    BY <1>2, ReinitiateGives
  <2>2. Ends(p, o)
    BY <2>1, InitiatedEnds, SaneParts
  <2> QED BY <1>0, <1>2, <2>1, <2>2, SaneCommit, SaneParts DEF Reinitiate
<1>3. ASSUME NEW p \in Peers, HalfOpenJob(p) PROVE Sane'
  <2>1. PICK t \in TM : /\ Sound(p, t)
                        /\ \/ tm' = [tm EXCEPT ![p] = Destroyed(t, "halfopen")]
                           \/ tm' = [tm EXCEPT ![p] = t]
    BY <1>3, HalfOpenJobGives
  <2>2. Destroyed(t, "halfopen") \in TM /\ Sound(p, Destroyed(t, "halfopen"))
    BY DestroyedGives DEF Whys
  <2> QED BY <1>0, <1>3, <2>1, <2>2, SaneStep DEF HalfOpenJob
<1>4. ASSUME NEW p \in Peers, NEW k \in waiting, QueueTask(p, k) PROVE Sane'
  <2>1. PICK t \in TM : \E o : /\ Sound(p, t) /\ Initiated(p, t, o)
                               /\ Commit(p, o, asked[p])
    BY <1>4, QueueTaskGives
  <2>2. PICK o : Sound(p, t) /\ Initiated(p, t, o) /\ Commit(p, o, asked[p])
    BY <2>1
  <2>3. Ends(p, o)
    BY <2>2, InitiatedEnds
  <2>4. waiting' \in SUBSET Work /\ served' = served /\ done' = done
    BY <1>0, <1>4 DEF QueueTask
  <2> QED BY <1>0, <2>2, <2>3, <2>4, SaneCommit, SaneParts
<1>5. ASSUME NEW p \in Peers, NEW i \in 0..MaxMid, RetransmitJob(p, i) PROVE Sane'
  <2>1. PICK t \in TM : \E o : Sound(p, t) /\ Repeated(t, o) /\ Commit(p, o, asked[p])
    BY <1>5, RetransmitJobGives
  <2>2. PICK o : Sound(p, t) /\ Repeated(t, o) /\ Commit(p, o, asked[p])
    BY <2>1
  <2>3. Ends(p, o)
    BY <2>2, RepeatedEnds
  <2> QED BY <1>0, <1>5, <2>2, <2>3, SaneCommit, SaneParts DEF RetransmitJob
<1>6. ASSUME NEW p \in Peers, NEW m \in net, DemandCookie(p, m) PROVE Sane'
  <2>1. /\ m \in Messages /\ Proper(m) /\ m.is = "request" /\ Cookies
        /\ m.type = "IKE_SA_INIT"
    BY <1>0, <1>6 DEF DemandCookie
  <2>2. m.mid \in 0..MaxMid /\ "cookie" \in Answers
    BY <2>1 DEF Messages, Answers
  <2>3. Answer(m, m.mid, "cookie") \in Messages /\ Proper(Answer(m, m.mid, "cookie"))
    BY <2>1, <2>2, AnswerGives
  <2> QED BY <1>6, <2>3, SaneSend DEF DemandCookie
<1>7. ASSUME NEW p \in Peers, NEW m \in net, RefuseRequest(p, m) PROVE Sane'
  <2>1. m \in Messages /\ Proper(m) /\ m.is = "request"
    BY <1>0, <1>7 DEF RefuseRequest, Arrived
  <2>2. m.mid \in 0..MaxMid /\ "refused" \in Answers /\ m.req \in Requests
    BY <2>1 DEF Messages, Answers
  <2>3. Answer(m, m.mid, "refused") \in Messages /\ Proper(Answer(m, m.mid, "refused"))
    BY <2>1, <2>2, AnswerGives
  <2>4. Counted(tm[p]) \in TM /\ Sound(p, Counted(tm[p]))
    BY <1>7, CountedGives, SaneParts DEF RefuseRequest
  <2>5. tm' = [tm EXCEPT ![p] = Counted(tm[p])]
    BY <1>7, SaneParts DEF RefuseRequest, Counted
  <2>6. served' \in [Peers -> Seq(Requests)]
    <3>1. Append(served[p], m.req) \in Seq(Requests)
      BY <1>0, <2>2, AppendProperties
    <3> QED BY <1>0, <1>7, <3>1 DEF RefuseRequest
  <2>7. net' \in SUBSET Messages /\ (\A n \in net' : Proper(n))
    BY <1>0, <1>7, <2>3 DEF RefuseRequest
  <2>8. waiting' = waiting /\ asked' = asked /\ done' = done
    BY <1>7 DEF RefuseRequest
  <2> QED BY <1>0, <2>4, <2>5, <2>6, <2>7, <2>8, SaneStep
<1>8. ASSUME NEW p \in Peers, NEW m \in net, ProcessRequest(p, m) PROVE Sane'
  <2>0. waiting' = waiting /\ asked' = asked /\ done' = done
    BY <1>8 DEF ProcessRequest
  <2>1. ASSUME NEW x, NEW a, Served(p, m, x, a), tm' = [tm EXCEPT ![p] = x],
               net' = net \cup {a}, served' = [served EXCEPT ![p] = Append(@, m.req)]
        PROVE  Sane'
    <3>1. x \in TM /\ Sound(p, x) /\ a \in Messages /\ Proper(a)
      BY <2>1 DEF Served
    <3>2. m.req \in Requests
      BY <1>0 DEF Messages
    <3>3. Append(served[p], m.req) \in Seq(Requests)
      BY <1>0, <3>2, AppendProperties
    <3>4. served' \in [Peers -> Seq(Requests)]
      BY <1>0, <2>1, <3>3
    <3>5. net' \in SUBSET Messages /\ (\A n \in net' : Proper(n))
      BY <1>0, <2>1, <3>1
    <3> QED BY <1>0, <2>0, <2>1, <3>1, <3>4, <3>5, SaneStep
  <2>2. CASE /\ tm' = [tm EXCEPT ![p] = Destroyed(tm[p], "failed")]
             /\ net' = net /\ served' = served
    <3>1. Destroyed(tm[p], "failed") \in TM /\ Sound(p, Destroyed(tm[p], "failed"))
      BY DestroyedGives, SaneParts DEF Whys
    <3> QED BY <1>0, <2>0, <2>2, <3>1, SaneStep
  <2> QED BY <1>8, <2>1, <2>2, ProcessRequestGives
<1>9. ASSUME NEW p \in Peers, NEW m \in net, RepeatResponse(p, m) PROVE Sane'
  <2>1. tm[p].rpacket \in Messages /\ Proper(tm[p].rpacket)
    BY <1>9, SaneParts, Fields DEF RepeatResponse, Sound
  <2> QED BY <1>9, <2>1, SaneSend DEF RepeatResponse
<1>10. ASSUME NEW p \in Peers, NEW m \in net, Mismatch(p, m) PROVE Sane'
  <2>1. Destroyed(tm[p], "mismatch") \in TM /\ Sound(p, Destroyed(tm[p], "mismatch"))
    BY DestroyedGives, SaneParts DEF Whys
  <2> QED BY <1>0, <1>10, <2>1, SaneStep DEF Mismatch
<1>11. ASSUME NEW p \in Peers, NEW m \in net, ProcessResponse(p, m) PROVE Sane'
  <2>0. /\ waiting' = waiting /\ served' = served
        /\ done' \in [Peers -> Seq(Requests)]
    <3>1. m.req \in Requests
      BY <1>0 DEF Messages
    <3>2. Append(done[p], m.req) \in Seq(Requests)
      BY <1>0, <3>1, AppendProperties
    <3> QED BY <1>0, <1>11, <3>2 DEF ProcessResponse
  <2>1. ASSUME NEW w \in {"deleted", "failed"},
               Commit(p, Outcome(Destroyed(tm[p], w), {}, <<>>), asked[p])
        PROVE  Sane'
    <3>1. Ends(p, Outcome(Destroyed(tm[p], w), {}, <<>>))
      BY DestroyedGives, SaneParts, EmptySeq DEF Ends, Outcome, Whys
    <3> QED BY <1>0, <2>0, <2>1, <3>1, SaneCommit, SaneParts
  <2>2. ASSUME NEW x \in TM, NEW o, Over(p, x), Initiated(p, x, o), Commit(p, o, asked[p])
        PROVE  Sane'
    <3>1. Ends(p, o)
      BY <2>2, InitiatedEnds DEF Over
    <3> QED BY <1>0, <2>0, <2>2, <3>1, SaneCommit, SaneParts
  <2> QED BY <1>11, <2>1, <2>2, ProcessResponseGives
<1>12. ASSUME NEW p \in Peers, NEW m \in net, ProcessCookie(p, m) PROVE Sane'
  <2>1. PICK o : /\ Reset(tm[p]) \in TM /\ Launched(p, Reset(tm[p]), o)
                 /\ Commit(p, o, IF o.asks = <<>> THEN asked[p] ELSE <<>>)
    BY <1>12, ProcessCookieGives
  <2>2. Ends(p, o)
    BY <2>1, LaunchedEnds
  <2>3. PICK past \in Seq(Requests) : past = IF o.asks = <<>> THEN asked[p] ELSE <<>>
    BY SaneParts, EmptySeq
  <2>4. waiting' = waiting /\ served' = served /\ done' = done
    BY <1>12 DEF ProcessCookie
  <2> QED BY <1>0, <2>1, <2>2, <2>3, <2>4, SaneCommit
<1>13. CASE UNCHANGED vars
  BY <1>13 DEF vars, Sane
<1>14. CASE \E p \in Peers : \E m \in net :
               \/ DemandCookie(p, m) \/ RefuseRequest(p, m) \/ ProcessRequest(p, m)
               \/ RepeatResponse(p, m) \/ Mismatch(p, m) \/ ProcessResponse(p, m)
               \/ ProcessCookie(p, m)
  BY <1>6, <1>7, <1>8, <1>9, <1>10, <1>11, <1>12, <1>14
<1> QED BY <1>1, <1>2, <1>3, <1>4, <1>5, <1>13, <1>14 DEF Next

LEMMA SaneImpliesTypeOK == Sane => TypeOK
<1> SUFFICES ASSUME Sane PROVE TypeOK
  OBVIOUS
<1>1. \A p \in Peers : tm[p] \in TM
  BY DEF Sane
<1> QED BY <1>1, Fields DEF Sane, TypeOK, States, Whys

\* The task managers, the packets and the histories keep their types: the message
\* IDs stay within their bound, a request is transmitted at most Tries + 1 times
\* and an SA is set up with at most MaxRetries attempts.
THEOREM TaskManagersTyped == Spec => []TypeOK
<1>1. Spec => []Sane
  BY SaneInit, SaneNext, PTL DEF Spec
<1> QED BY <1>1, SaneImpliesTypeOK, PTL

-----------------------------------------------------------------------------
(***************************************************************************)
(* Timed: one retransmit job for the exchange in progress.  A COOKIE breaks *)
(* this: reset() leaves the job of the first attempt scheduled for the      *)
(* message ID the second attempt uses.                                      *)
(***************************************************************************)
\* No job is left for the current exchange or a later one.
Unscheduled(t) == \A m \in 0..MaxMid : m >= t.mid => t.jobs[m] = 0

LEMMA SendsOnTime ==
  ASSUME NEW x \in TM, Unscheduled(x), x.deferred = FALSE, x.type # "none",
         x.state # "gone", x.why = "open", NEW o, Sends(x, o), Same(x, o.tm)
  PROVE  OnTime(o.tm)
<1>0. /\ x.mid \in 0..MaxMid /\ x.jobs \in [0..MaxMid -> Nat] /\ x.jobs[x.mid] = 0
      /\ MaxMid \in Nat /\ o.tm.mid = x.mid /\ o.tm.type # "none" /\ o.tm.why = "open"
  BY Fields, Bounds DEF Unscheduled, Same
<1>1. CASE o.tm = Transmitted(x)
  <2>1. o.tm.jobs = [x.jobs EXCEPT ![x.mid] = @ + 1] /\ o.tm.deferred = FALSE
    BY <1>1 DEF Transmitted, TM
  <2> QED BY <1>0, <2>1 DEF OnTime, Unscheduled
<1>2. CASE o.tm = Deferred(x)
  <2>1. o.tm.jobs = x.jobs /\ o.tm.deferred = TRUE
    BY <1>2 DEF Deferred, TM
  <2> QED BY <1>0, <2>1 DEF OnTime, Unscheduled
<1> QED BY <1>1, <1>2 DEF Sends

LEMMA IdleUnscheduled ==
  ASSUME NEW t \in TM, OnTime(t), t.state # "gone", t.type = "none" \/ t.deferred = TRUE
  PROVE  Unscheduled(t) /\ t.why = "open"
BY Fields, Bounds DEF OnTime, Unscheduled

LEMMA DestroyedOnTime ==
  ASSUME NEW t \in TM, NEW w \in Whys, w = "timeout" => t.jobs[t.mid] = 0
  PROVE  OnTime(Destroyed(t, w))
<1>1. PICK p \in Peers : TRUE
  BY OtherPeer
<1> QED BY <1>1, DestroyedGives DEF OnTime

LEMMA LaunchedOnTime ==
  ASSUME NEW p \in Peers, NEW t \in TM, Unscheduled(t), t.why = "open",
         NEW o, Launched(p, t, o)
  PROVE  OnTime(o.tm)
<1>1. CASE o.tm = Destroyed(t, "failed")
  BY <1>1, DestroyedOnTime DEF Whys
<1>2. ASSUME NEW x \in TM, Prepared(p, t, x), Sends(x, o), Same(x, o.tm)
      PROVE  OnTime(o.tm)
  <2>1. /\ x.type # "none" /\ x.state # "gone" /\ x.deferred = FALSE /\ x.why = "open"
        /\ Unscheduled(x)
    BY <1>2 DEF Prepared, Unscheduled
  <2> QED BY <1>2, <2>1, SendsOnTime
<1> QED BY <1>1, <1>2 DEF Launched

LEMMA InitiatedOnTime ==
  ASSUME NEW p \in Peers, NEW t \in TM, OnTime(t), t.state # "gone",
         Sound(p, t), NEW o, Initiated(p, t, o)
  PROVE  OnTime(o.tm)
<1>1. CASE Quiet(t, o)
  BY <1>1 DEF Quiet
<1>2. CASE Resumed(t, o)
  <2>1. PICK x \in TM : /\ Same(t, x) /\ x.jobs = t.jobs /\ t.deferred /\ x.deferred = FALSE
                        /\ t.type # "none" /\ Sends(x, o) /\ Same(x, o.tm)
    BY <1>2 DEF Resumed
  <2>2. Unscheduled(t) /\ t.why = "open"
    BY <2>1, IdleUnscheduled, Fields
  <2>3. Unscheduled(x) /\ x.type # "none" /\ x.state # "gone" /\ x.why = "open"
    BY <2>1, <2>2 DEF Same, Unscheduled
  <2> QED BY <2>1, <2>3, SendsOnTime
<1>3. CASE Launched(p, t, o)
  <2>1. CASE o.tm = Destroyed(t, "failed")
    BY <2>1, DestroyedOnTime DEF Whys
  <2>2. CASE o.tm # Destroyed(t, "failed")
    <3>1. t.type = "none"
      BY <1>3, <2>2 DEF Launched, Prepared
    <3> QED BY <1>3, <3>1, IdleUnscheduled, LaunchedOnTime
  <2> QED BY <2>1, <2>2
<1> QED BY <1>1, <1>2, <1>3 DEF Initiated

LEMMA TimedStep ==
  ASSUME Sane, Timed, NEW p \in Peers, NEW x, OnTime(x), tm' = [tm EXCEPT ![p] = x]
  PROVE  Timed'
<1>1. ASSUME NEW q \in Peers PROVE OnTime(tm'[q])
  BY DEF Timed, Sane
<1> QED BY <1>1 DEF Timed

LEMMA TimedCommit ==
  ASSUME Sane, Timed, NEW p \in Peers, NEW o, NEW past, OnTime(o.tm), Commit(p, o, past)
  PROVE  Timed'
BY TimedStep DEF Commit

\* A task manager that keeps its exchange keeps the jobs of it.
LEMMA AlikeOnTime ==
  ASSUME NEW t, OnTime(t), NEW x, x.mid = t.mid, x.type = t.type, x.jobs = t.jobs,
         x.deferred = t.deferred, x.state # "gone", t.state # "gone", x.why = t.why
  PROVE  OnTime(x)
BY DEF OnTime

LEMMA TimedJob ==
  ASSUME Sane, Timed, NEW p \in Peers, NEW m \in 0..MaxMid, RetransmitJob(p, m)
  PROVE  Timed'
<1>1. PICK t \in TM : \E o : /\ t = Jobbed(tm[p], m) /\ Sound(p, t) /\ t.state # "gone"
                             /\ Same(tm[p], t)
                             /\ Repeated(t, o) /\ (Quiet(t, o) => m # t.mid \/ t.type = "none")
                             /\ (~Quiet(t, o) => m = t.mid)
                             /\ Commit(p, o, asked[p])
  BY RetransmitJobGives
<1>2. PICK o : /\ t = Jobbed(tm[p], m) /\ Sound(p, t) /\ t.state # "gone"
               /\ Same(tm[p], t)
               /\ Repeated(t, o) /\ (Quiet(t, o) => m # t.mid \/ t.type = "none")
               /\ (~Quiet(t, o) => m = t.mid)
               /\ Commit(p, o, asked[p])
  BY <1>1
<1>3. tm[p] \in TM /\ OnTime(tm[p]) /\ tm[p].jobs[m] > 0 /\ tm[p].state # "gone"
  BY SaneParts DEF Timed, RetransmitJob, Gone
<1>4. t.jobs = [tm[p].jobs EXCEPT ![m] = @ - 1] /\ t.deferred = tm[p].deferred
  BY <1>2, <1>3, JobbedGives
<1>5. /\ t.mid = tm[p].mid /\ t.type = tm[p].type /\ t.state = tm[p].state
      /\ t.why = tm[p].why /\ t.why = "open"
  BY <1>2, <1>3 DEF Same, OnTime
<1>6. /\ tm[p].jobs \in [0..MaxMid -> Nat] /\ tm[p].mid \in 0..MaxMid /\ MaxMid \in Nat
      /\ tm[p].deferred \in BOOLEAN
  BY <1>3, Fields, Bounds
<1>7. m <= tm[p].mid
  BY <1>3, <1>6 DEF OnTime
<1>8. CASE m # t.mid
  <2>1. o.tm = t
    BY <1>2, <1>8 DEF Quiet
  <2>2. OnTime(t)
    BY <1>3, <1>4, <1>5, <1>6, <1>7, <1>8 DEF OnTime
  <2> QED BY <1>2, <2>1, <2>2, TimedCommit
<1>9. CASE m = t.mid
  <2>1. tm[p].type # "none" /\ tm[p].deferred = FALSE /\ tm[p].jobs[m] = 1
    BY <1>3, <1>5, <1>6, <1>9 DEF OnTime
  <2>2. Unscheduled(t)
    BY <1>3, <1>4, <1>5, <1>6, <1>9, <2>1 DEF OnTime, Unscheduled
  <2>3. t.jobs[t.mid] = 0
    BY <1>5, <1>6, <2>2 DEF Unscheduled
  <2>4. ~Quiet(t, o)
    BY <1>2, <1>5, <1>9, <2>1
  <2>5. CASE Sends(t, o) /\ Same(t, o.tm)
    BY <1>2, <1>4, <1>5, <2>1, <2>2, <2>5, SendsOnTime, TimedCommit
  <2>6. CASE o.tm = Destroyed(t, "timeout")
    <3>1. OnTime(o.tm)
      BY <2>3, <2>6, DestroyedOnTime DEF Whys
    <3> QED BY <1>2, <3>1, TimedCommit
  <2> QED BY <1>2, <2>4, <2>5, <2>6 DEF Repeated
<1> QED BY <1>8, <1>9

LEMMA TimedNext ==
  ASSUME Cookies = FALSE, Sane, Timed, [Next]_vars
  PROVE  Timed'
<1>0. \A p \in Peers : tm[p] \in TM /\ Sound(p, tm[p]) /\ OnTime(tm[p])
  BY SaneParts DEF Timed
<1>1. CASE QueueIke
  <2>1. PICK t \in TM : \E o : /\ Requeued(tm[Ini], t) /\ Starts(Ini, t)
                               /\ tm[Ini].state = "created"
                               /\ Launched(Ini, t, o) /\ Commit(Ini, o, asked[Ini])
    BY <1>1, QueueIkeGives
  <2>2. PICK o : /\ Requeued(tm[Ini], t) /\ Starts(Ini, t) /\ tm[Ini].state = "created"
                 /\ Launched(Ini, t, o) /\ Commit(Ini, o, asked[Ini])
    BY <2>1
  <2>3. Unscheduled(tm[Ini]) /\ tm[Ini].why = "open"
    <3>1. /\ tm[Ini] \in TM /\ OnTime(tm[Ini]) /\ tm[Ini].state # "gone"
          /\ tm[Ini].type = "none"
      BY <1>0, <2>2, OtherPeer DEF Starts, Requeued, Moved
    <3> QED BY <3>1, IdleUnscheduled
  <2>4. Unscheduled(t) /\ t.why = "open"
    BY <2>2, <2>3 DEF Requeued, Moved, Unscheduled
  <2> QED BY <2>2, <2>4, OtherPeer, LaunchedOnTime, TimedCommit
<1>2. ASSUME NEW p \in Peers, Reinitiate(p) PROVE Timed'
  <2>1. PICK o : Initiated(p, tm[p], o) /\ Commit(p, o, asked[p])
    BY <1>2, ReinitiateGives
  <2>2. tm[p].state # "gone"
    BY <1>2 DEF Reinitiate, Gone
  <2> QED BY <1>0, <2>1, <2>2, InitiatedOnTime, TimedCommit
<1>3. ASSUME NEW p \in Peers, HalfOpenJob(p) PROVE Timed'
  <2>1. PICK t \in TM :
             /\ tm[p].state # "gone" /\ t.state = tm[p].state /\ t.why = tm[p].why
             /\ t.jobs = tm[p].jobs /\ t.mid = tm[p].mid /\ t.type = tm[p].type
             /\ t.deferred = tm[p].deferred
             /\ \/ tm' = [tm EXCEPT ![p] = Destroyed(t, "halfopen")]
                \/ tm' = [tm EXCEPT ![p] = t]
    BY <1>3, HalfOpenJobGives
  <2>2. OnTime(t) /\ OnTime(Destroyed(t, "halfopen"))
    BY <1>0, <2>1, AlikeOnTime, DestroyedOnTime DEF Whys
  <2> QED BY <2>1, <2>2, TimedStep
<1>4. ASSUME NEW p \in Peers, NEW k \in waiting, QueueTask(p, k) PROVE Timed'
  <2>1. PICK t \in TM : \E o : /\ Requeued(tm[p], t) /\ Sound(p, t) /\ t.state # "gone"
                               /\ Initiated(p, t, o) /\ Commit(p, o, asked[p])
    BY <1>4, QueueTaskGives
  <2>2. PICK o : /\ Requeued(tm[p], t) /\ Sound(p, t) /\ t.state # "gone"
                 /\ Initiated(p, t, o) /\ Commit(p, o, asked[p])
    BY <2>1
  <2>3. OnTime(t)
    BY <1>0, <2>2, AlikeOnTime DEF Requeued, Moved
  <2> QED BY <2>2, <2>3, InitiatedOnTime, TimedCommit
<1>5. ASSUME NEW p \in Peers, NEW m \in net,
             \/ DemandCookie(p, m) \/ RefuseRequest(p, m) \/ ProcessRequest(p, m)
             \/ RepeatResponse(p, m) \/ Mismatch(p, m) \/ ProcessResponse(p, m)
             \/ ProcessCookie(p, m)
      PROVE  Timed'
  <2>1. CASE DemandCookie(p, m)
    BY <2>1 DEF DemandCookie
  <2>2. CASE RefuseRequest(p, m)
    <3>1. tm[p].rmid < MaxMid /\ tm[p].state # "gone"
      BY <2>2 DEF RefuseRequest, Arrived, Gone
    <3>2. OnTime(Counted(tm[p]))
      BY <1>0, <3>1, CountedGives, AlikeOnTime
    <3>3. tm' = [tm EXCEPT ![p] = Counted(tm[p])]
      BY <2>2, SaneParts DEF RefuseRequest, Counted
    <3> QED BY <3>2, <3>3, TimedStep
  <2>3. CASE ProcessRequest(p, m)
    <3>0. tm[p].state # "gone"
      BY <2>3 DEF ProcessRequest, Arrived, Gone
    <3>1. ASSUME NEW x, NEW a, Served(p, m, x, a), tm' = [tm EXCEPT ![p] = x]
          PROVE  Timed'
      <4>1. ASSUME NEW w \in {"deleted", "failed"}, x = Destroyed(tm[p], w) PROVE Timed'
        BY <1>0, <3>1, <4>1, DestroyedOnTime, TimedStep DEF Whys
      <4>2. CASE \A w \in {"deleted", "failed"} : x # Destroyed(tm[p], w)
        <5>1. OnTime(x)
          BY <1>0, <3>0, <3>1, <4>2, AlikeOnTime DEF Served
        <5> QED BY <3>1, <5>1, TimedStep
      <4> QED BY <4>1, <4>2
    <3>2. CASE tm' = [tm EXCEPT ![p] = Destroyed(tm[p], "failed")]
      BY <1>0, <3>2, DestroyedOnTime, TimedStep DEF Whys
    <3> QED BY <2>3, <3>1, <3>2, ProcessRequestGives
  <2>4. CASE RepeatResponse(p, m)
    BY <2>4 DEF RepeatResponse, Timed
  <2>5. CASE Mismatch(p, m)
    BY <1>0, <2>5, DestroyedOnTime, TimedStep DEF Whys, Mismatch
  <2>6. CASE ProcessResponse(p, m)
    <3>1. ASSUME NEW w \in {"deleted", "failed"},
                 Commit(p, Outcome(Destroyed(tm[p], w), {}, <<>>), asked[p])
          PROVE  Timed'
      <4>1. OnTime(Outcome(Destroyed(tm[p], w), {}, <<>>).tm)
        BY <1>0, DestroyedOnTime DEF Whys, Outcome
      <4> QED BY <3>1, <4>1, TimedCommit
    <3>2. ASSUME NEW x \in TM, NEW o, Over(p, x), Initiated(p, x, o), Commit(p, o, asked[p])
          PROVE  Timed'
      <4>1. tm[p].state # "gone" /\ tm[p].mid \in 0..MaxMid /\ MaxMid \in Nat
            /\ x.mid \in 0..MaxMid
        BY <1>0, <2>6, Fields, Bounds DEF ProcessResponse, Gone
      <4>2. OnTime(x)
        BY <1>0, <3>2, <4>1 DEF Over, OnTime
      <4> QED BY <3>2, <4>2, InitiatedOnTime, TimedCommit DEF Over
    <3> QED BY <2>6, <3>1, <3>2, ProcessResponseGives
  <2>7. CASE ProcessCookie(p, m)
    BY <2>7, ProcessCookieGives
  <2> QED BY <1>5, <2>1, <2>2, <2>3, <2>4, <2>5, <2>6, <2>7
<1>6. CASE UNCHANGED vars
  BY <1>6 DEF vars, Timed
<1> QED BY <1>1, <1>2, <1>3, <1>4, <1>5, <1>6, TimedJob DEF Next

\* A peer gives up an exchange only when the timeout of its last transmission is
\* over: as long as nobody asks for cookies no further retransmit job of that
\* exchange is scheduled then.
THEOREM NeverEarly == ASSUME Cookies = FALSE PROVE Spec => []NoEarlyGiveUp
<1>1. Init => Timed
  <2> SUFFICES ASSUME Init, NEW p \in Peers PROVE OnTime(tm[p])
    BY DEF Timed
  <2>1. /\ tm[p].state # "gone" /\ tm[p].why = "open" /\ tm[p].type = "none"
        /\ tm[p].jobs = [m \in 0..MaxMid |-> 0] /\ tm[p].mid \in {0, 2}
    <3>1. \/ tm[p] = Fresh
          \/ tm[p] = [Fresh EXCEPT !.state = "established", !.mid = 2]
          \/ tm[p] = [Fresh EXCEPT !.state = "established", !.rmid = 2]
      BY DEF Init
    <3>2. CASE tm[p] = Fresh
      BY <3>2 DEF Fresh
    <3>3. CASE tm[p] = [Fresh EXCEPT !.state = "established", !.mid = 2]
      BY <3>3 DEF Fresh
    <3>4. CASE tm[p] = [Fresh EXCEPT !.state = "established", !.rmid = 2]
      BY <3>4 DEF Fresh
    <3> QED BY <3>1, <3>2, <3>3, <3>4
  <2>2. tm[p].mid \in 0..MaxMid
    BY <2>1, EnoughMids, Bounds
  <2> QED BY <2>1, <2>2 DEF OnTime
<1>2. Sane /\ Timed /\ [Next]_vars => Timed'
  BY TimedNext
<1>3. Timed => NoEarlyGiveUp
  BY DEF Timed, OnTime, NoEarlyGiveUp
<1> QED BY SaneInit, SaneNext, <1>1, <1>2, <1>3, PTL DEF Spec

-----------------------------------------------------------------------------
(***************************************************************************)
(* Flow: one direction of exchanges, between the peer p that asks and the   *)
(* peer u that serves.  It holds when no request is refused: a peer counts  *)
(* a request it cannot parse whatever its message ID is.                    *)
(***************************************************************************)
History(a, s, d) == a \in Seq(Requests) /\ s \in Seq(Requests) /\ d \in Seq(Requests)

LEMMA Lengths ==
  ASSUME NEW a, NEW s, NEW d, History(a, s, d)
  PROVE  /\ Len(a) \in Nat /\ Len(s) \in Nat /\ Len(d) \in Nat
         /\ (a = <<>> <=> Len(a) = 0) /\ (s = <<>> <=> Len(s) = 0)
         /\ \A i \in 1..Len(a) : a[i] \in Requests
         /\ \A i \in 1..Len(s) : s[i] \in Requests
BY LenProperties, EmptySeq, ElementOfSeq DEF History

LEMMA BaseIsNat ==
  ASSUME NEW p
  PROVE  Base(p) \in Nat /\ (Setup => Base(p) = 0)
BY DEF Base

\* The asking side goes on with the same exchange, or without its SA.
LEMMA FlowAlike ==
  ASSUME NEW p, NEW t, NEW u, NEW n, NEW a, NEW s, NEW d, Flow(p, t, u, n, a, s, d),
         NEW x,
         \/ x.state = "gone"
         \/ /\ x.state = t.state /\ x.mid = t.mid /\ x.type = t.type /\ x.packet = t.packet
  PROVE  Flow(p, x, u, n, a, s, d)
BY DEF Flow, Asker

\* The serving side goes on with the same request to come, or without its SA.
LEMMA FlowServer ==
  ASSUME NEW p, NEW t, NEW u, NEW n, NEW a, NEW s, NEW d, Flow(p, t, u, n, a, s, d),
         NEW x,
         \/ x.state = "gone"
         \/ u.state # "gone" /\ x.rmid = u.rmid /\ x.rpacket = u.rpacket
  PROVE  Flow(p, t, x, n, a, s, d)
BY DEF Flow, Server

\* Requests of the serving side are none of the asking one, nor answers to it.
LEMMA FlowOwn ==
  ASSUME NEW p \in Peers, NEW t, NEW u, NEW n, NEW a, NEW s, NEW d, Flow(p, t, u, n, a, s, d),
         NEW N, \A m \in N : m.is = "request" /\ m.to = p
  PROVE  Flow(p, t, u, n \cup N, a, s, d)
BY OtherPeer DEF Flow, Wire

\* Answers of the asking side are none to it, nor requests.
LEMMA FlowAnswers ==
  ASSUME NEW p \in Peers, NEW t, NEW u, NEW n, NEW a, NEW s, NEW d, Flow(p, t, u, n, a, s, d),
         NEW N, \A m \in N : m.is # "request" /\ m.to = Other[p]
  PROVE  Flow(p, t, u, n \cup N, a, s, d)
BY OtherPeer DEF Flow, Wire

\* The request in progress is transmitted again.
LEMMA FlowAgain ==
  ASSUME NEW p \in Peers, NEW t \in TM, NEW u, NEW n, NEW a, NEW s, NEW d,
         Flow(p, t, u, n, a, s, d), History(a, s, d), Sound(p, t), t.type # "none",
         t.state # "gone", NEW N, N \subseteq {t.packet}
  PROVE  Flow(p, t, u, n \cup N, a, s, d)
<1>1. Packet(p, t)
  BY DEF Sound, Busy
<1>2. t.packet.req = a[Len(a)] /\ Len(a) \in 1..Len(a)
  BY Lengths DEF Flow, Asker
<1>3. Asks(p, t.packet, a) /\ t.packet.is = "request"
  BY <1>1, <1>2 DEF Asks, Packet
<1>4. Wire(p, n \cup N, a, s)
  BY <1>3 DEF Wire, Flow
<1> QED BY <1>4 DEF Flow

\* The next request r of p.
LEMMA FlowAsk ==
  ASSUME NEW p \in Peers, NEW t \in TM, NEW u, NEW n, NEW a, NEW s, NEW d,
         Flow(p, t, u, n, a, s, d), History(a, s, d), t.state # "gone",
         NEW x \in TM, Prepared(p, t, x), NEW r, r = x.packet.req,
         NEW N, N \subseteq {x.packet}
  PROVE  Flow(p, x, u, n \cup N, Append(a, r), s, d)
<1>0. /\ t.type = "none" /\ x.type # "none" /\ Sound(p, x) /\ x.mid = t.mid
      /\ Packet(p, x)
  BY DEF Prepared, Sound, Busy
<1>1. PICK b : b = Append(a, r)
  OBVIOUS
<1>2. r \in Requests /\ r.mid = t.mid /\ r.type = x.type
  BY <1>0 DEF Packet, Messages
<1>3. /\ b \in Seq(Requests) /\ Len(b) = Len(a) + 1 /\ b[Len(a) + 1] = r /\ b # <<>>
      /\ \A i \in 1..Len(a) : b[i] = a[i]
  BY <1>1, <1>2, AppendProperties DEF History
<1>4. /\ Len(a) \in Nat /\ Len(s) \in Nat /\ Len(d) \in Nat /\ Len(a) = Len(d)
      /\ t.mid = Base(p) + Len(d) /\ (a = <<>> <=> Len(a) = 0) /\ Base(p) \in Nat
  BY <1>0, Lengths, BaseIsNat DEF Flow, Asker
<1>5. Numbered(p, b)
  <2>1. r.type = "IKE_SA_INIT" <=> (Len(a) + 1 = 1 /\ p = Ini /\ Setup)
    <3>1. CASE x.type = "IKE_SA_INIT"
      BY <1>2, <1>4, <3>1 DEF Prepared, Starts, Flow, Asker
    <3>2. CASE x.type # "IKE_SA_INIT"
      BY <1>2, <1>4, <3>2 DEF Prepared, Flow, Asker
    <3> QED BY <3>1, <3>2
  <2>2. r.type = "IKE_SA_INIT" => r.task = InitTask
    BY <1>0, <1>2 DEF Sound, Busy
  <2>3. ASSUME NEW i \in 1..Len(b)
        PROVE  /\ b[i].mid = Base(p) + (i - 1)
               /\ b[i].type = "IKE_SA_INIT" <=> (i = 1 /\ p = Ini /\ Setup)
               /\ b[i].type = "IKE_SA_INIT" => b[i].task = InitTask
    <3>1. CASE i \in 1..Len(a)
      BY <1>3, <3>1 DEF Flow, Numbered
    <3>2. CASE i = Len(a) + 1
      BY <1>2, <1>3, <1>4, <2>1, <2>2, <3>2
    <3> QED BY <1>3, <1>4, <3>1, <3>2
  <2> QED BY <2>3 DEF Numbered
<1>6. InOrderOf(b, s, d)
  BY <1>3, <1>4 DEF Flow, InOrderOf
<1>7. Asker(p, x, b, d)
  BY <1>0, <1>3, <1>4 DEF Asker, Prepared
<1>8. Wire(p, n \cup N, b, s)
  <2>1. ASSUME NEW m \in n, m.is = "request", m.to = Other[p] PROVE Asks(p, m, b)
    <3>1. Asks(p, m, a)
      BY <2>1 DEF Flow, Wire
    <3> QED BY <1>3, <1>4, <3>1 DEF Asks, Dead
  <2>2. ASSUME NEW m \in n, m.is # "request", m.to = p PROVE Tells(p, m, b, s)
    <3>1. Tells(p, m, a, s) /\ Len(s) <= Len(a)
      BY <2>2 DEF Flow, Wire, InOrderOf
    <3> QED BY <1>3, <1>4, <3>1 DEF Tells
  <2>3. Asks(p, x.packet, b) /\ x.packet.is = "request"
    BY <1>0, <1>3, <1>4 DEF Asks, Packet
  <2> QED BY <2>1, <2>2, <2>3 DEF Wire
<1> QED BY <1>1, <1>5, <1>6, <1>7, <1>8 DEF Flow

\* p takes the answer m to its request.
LEMMA FlowConclude ==
  ASSUME NEW p \in Peers, NEW t \in TM, NEW u, NEW n, NEW a, NEW s, NEW d,
         Flow(p, t, u, n, a, s, d), History(a, s, d), t.state # "gone",
         NEW m \in n, m.to = p, m.is \in {"ok", "more", "refused", "failed"}, m.mid = t.mid,
         NEW x, x.state = "gone" \/ (/\ x.mid = t.mid + 1 /\ x.type = "none"
                                     /\ x.state # "created")
  PROVE  /\ Len(d) < Len(s) /\ m.req = s[Len(d) + 1] /\ m.type = a[Len(d) + 1].type
         /\ m.is \in {"ok", "more", "failed"} /\ m.req \in Requests
         /\ Flow(p, x, u, n, a, s, Append(d, m.req))
<1>1. /\ Len(a) \in Nat /\ Len(s) \in Nat /\ Len(d) \in Nat /\ Base(p) \in Nat
      /\ (a = <<>> <=> Len(a) = 0)
      /\ Len(d) <= Len(s) /\ Len(s) <= Len(a) /\ Len(a) <= Len(d) + 1
      /\ t.mid = Base(p) + Len(d)
  BY Lengths, BaseIsNat DEF Flow, InOrderOf, Asker
<1>2. Tells(p, m, a, s)
  BY DEF Flow, Wire
<1>3. PICK i \in 1..Len(s) : Responds(p, m, a[i])
  BY <1>2 DEF Tells
<1>4. a[i].mid = Base(p) + (i - 1) /\ i \in 1..Len(a)
  BY <1>1 DEF Flow, Numbered
<1>5. i = Len(d) + 1
  BY <1>1, <1>3, <1>4 DEF Responds
<1>6. /\ Len(d) < Len(s) /\ m.req = a[i] /\ a[i] = s[i] /\ m.type = a[i].type
      /\ m.is \in {"ok", "more", "failed"} /\ Len(a) = Len(d) + 1 /\ m.req \in Requests
  BY <1>1, <1>3, <1>4, <1>5, Lengths DEF Responds, Flow, InOrderOf
<1>7. PICK e : e = Append(d, m.req)
  OBVIOUS
<1>8. /\ Len(e) = Len(d) + 1 /\ e[Len(d) + 1] = a[i] /\ \A j \in 1..Len(d) : e[j] = d[j]
  BY <1>6, <1>7, AppendProperties DEF History
<1>9. InOrderOf(a, s, e)
  <2>1. ASSUME NEW j \in 1..Len(e) PROVE e[j] = a[j]
    <3>1. CASE j \in 1..Len(d)
      BY <1>8, <3>1 DEF Flow, InOrderOf
    <3>2. CASE j = Len(d) + 1
      BY <1>5, <1>8, <3>2
    <3> QED BY <1>1, <1>8, <3>1, <3>2
  <2> QED BY <1>1, <1>6, <1>8, <2>1 DEF Flow, InOrderOf
<1>10. Asker(p, x, a, e)
  BY <1>1, <1>6, <1>8 DEF Asker
<1> QED BY <1>5, <1>6, <1>7, <1>9, <1>10 DEF Flow

\* The request is not thrown away for its lack of a cookie.
Admitted(m) == Cookies /\ m.type = "IKE_SA_INIT" => m.req.cookie

\* The serving side u has a request m of p that is not thrown away for a cookie.
LEMMA FlowArrived ==
  ASSUME NEW p \in Peers, NEW t, NEW u, NEW n, NEW a, NEW s, NEW d,
         Flow(p, t, u, n, a, s, d), History(a, s, d),
         NEW m \in n, m.to = Other[p], m.is = "request",
         Admitted(m)
  PROVE  \E i \in 1..Len(a) : /\ m.req = a[i] /\ m.mid = Base(p) + (i - 1)
                              /\ m.mid = m.req.mid /\ m.type = m.req.type
<1>1. Asks(p, m, a)
  BY DEF Flow, Wire
<1>2. PICK i \in 1..Len(a) : m.req = a[i]
  BY <1>1 DEF Asks, Dead, Admitted
<1> QED BY <1>1, <1>2 DEF Asks, Flow, Numbered

\* b is an answer to request m of p.
Replies(p, m, b) ==
  /\ b \in Messages /\ b.to = p /\ b.is \in {"ok", "more", "failed"} /\ b.req = m.req
  /\ b.mid = m.mid /\ b.type = m.type

HasServed(u, x, b) == x.state = "gone" \/ (x.rmid = u.rmid + 1 /\ x.rpacket = b)

LEMMA Nth ==
  ASSUME NEW b \in Nat, NEW i \in Nat, NEW l \in Nat, b + (i - 1) = b + l
  PROVE  i = l + 1
OBVIOUS

\* The request m with the expected message ID is served, and answered with b.
LEMMA FlowServe ==
  ASSUME NEW p \in Peers, NEW t, NEW u, NEW n, NEW a, NEW s, NEW d,
         Flow(p, t, u, n, a, s, d), History(a, s, d), u.state # "gone",
         NEW m \in n, m.to = Other[p], m.is = "request", m.mid = u.rmid,
         Admitted(m),
         NEW b, Replies(p, m, b), NEW x, HasServed(u, x, b)
  PROVE  /\ Len(s) < Len(a) /\ m.req = a[Len(s) + 1]
         /\ Flow(p, t, x, n \cup {b}, a, Append(s, m.req), d)
<1>1. PICK i \in 1..Len(a) : /\ m.req = a[i] /\ m.mid = Base(p) + (i - 1)
                             /\ m.mid = m.req.mid /\ m.type = m.req.type
  BY FlowArrived
<1>2. /\ Len(a) \in Nat /\ Len(s) \in Nat /\ Len(d) \in Nat /\ Base(p) \in Nat
      /\ Len(d) <= Len(s) /\ Len(s) <= Len(a) /\ Len(a) <= Len(d) + 1
      /\ u.rmid = Base(p) + Len(s) /\ a[i] \in Requests
  BY Lengths, BaseIsNat DEF Flow, InOrderOf, Server
<1>3. i = Len(s) + 1
  <2>1. i \in Nat
    BY <1>2
  <2>2. Base(p) + (i - 1) = Base(p) + Len(s)
    BY <1>1, <1>2, Zenon
  <2> QED BY <1>2, <2>1, <2>2, Nth
<1>4. PICK e : e = Append(s, m.req)
  OBVIOUS
<1>5. /\ Len(e) = Len(s) + 1 /\ e[Len(s) + 1] = a[i] /\ e # <<>>
      /\ \A j \in 1..Len(s) : e[j] = s[j]
  BY <1>1, <1>2, <1>4, AppendProperties DEF History
<1>6. InOrderOf(a, e, d)
  <2>1. ASSUME NEW j \in 1..Len(e)
        PROVE  e[j] = a[j] /\ (Cookies /\ e[j].type = "IKE_SA_INIT" => e[j].cookie)
    <3>1. CASE j \in 1..Len(s)
      BY <1>5, <3>1 DEF Flow, InOrderOf
    <3>2. CASE j = Len(s) + 1
      BY <1>1, <1>3, <1>5, <3>2 DEF Admitted
    <3> QED BY <1>2, <1>5, <3>1, <3>2
  <2> QED BY <1>1, <1>2, <1>3, <1>5, <2>1 DEF Flow, InOrderOf
<1>7. Responds(p, b, a[i])
  BY <1>1 DEF Responds, Replies
<1>8. Server(p, x, e)
  <2>1. u.rmid + 1 = Base(p) + Len(e)
    BY <1>2, <1>5
  <2>2. Responds(p, b, e[Len(e)])
    BY <1>5, <1>7
  <2> QED BY <2>1, <2>2 DEF Server, HasServed
<1>9. Wire(p, n \cup {b}, a, e)
  <2>1. ASSUME NEW w \in n, w.is # "request", w.to = p PROVE Tells(p, w, a, e)
    <3>1. Tells(p, w, a, s)
      BY <2>1 DEF Flow, Wire
    <3> QED BY <1>2, <1>5, <3>1 DEF Tells
  <2>2. Tells(p, b, a, e) /\ b.is # "request"
    BY <1>2, <1>3, <1>5, <1>7 DEF Tells, Replies
  <2> QED BY <2>1, <2>2 DEF Flow, Wire
<1> QED BY <1>1, <1>2, <1>3, <1>4, <1>6, <1>8, <1>9 DEF Flow

\* The request m of the exchange served last is answered again.
LEMMA FlowRepeat ==
  ASSUME NEW p \in Peers, NEW t, NEW u, NEW n, NEW a, NEW s, NEW d,
         Flow(p, t, u, n, a, s, d), History(a, s, d), u.state # "gone",
         NEW m \in n, m.to = Other[p], m.is = "request", m.mid + 1 = u.rmid,
         Admitted(m)
  PROVE  /\ u.rpacket.is # "request" /\ u.rpacket.to = p
         /\ Flow(p, t, u, n \cup {u.rpacket}, a, s, d)
<1>1. PICK i \in 1..Len(a) : m.mid = Base(p) + (i - 1)
  BY FlowArrived
<1>2. /\ Len(a) \in Nat /\ Len(s) \in Nat /\ Base(p) \in Nat /\ Len(s) <= Len(a)
      /\ (s = <<>> <=> Len(s) = 0) /\ u.rmid = Base(p) + Len(s)
  BY Lengths, BaseIsNat DEF Flow, InOrderOf, Server
<1>3. Len(s) = i /\ i \in 1..Len(s) /\ s # <<>>
  BY <1>1, <1>2
<1>4. Responds(p, u.rpacket, a[i])
  BY <1>3 DEF Flow, Server, InOrderOf
<1>5. Tells(p, u.rpacket, a, s) /\ u.rpacket.is # "request" /\ u.rpacket.to = p
  BY <1>3, <1>4 DEF Tells, Responds
<1>6. Wire(p, n \cup {u.rpacket}, a, s)
  BY <1>5 DEF Flow, Wire
<1> QED BY <1>5, <1>6 DEF Flow

\* The serving side asks for a cookie.
LEMMA FlowCookie ==
  ASSUME NEW p \in Peers, NEW t, NEW u, NEW n, NEW a, NEW s, NEW d,
         Flow(p, t, u, n, a, s, d), History(a, s, d),
         NEW m \in n, m.to = Other[p], m.is = "request", m.type = "IKE_SA_INIT",
         NEW b, b.is = "cookie", b.to = p, b.mid = m.mid
  PROVE  Flow(p, t, u, n \cup {b}, a, s, d)
<1>1. Asks(p, m, a)
  BY DEF Flow, Wire
<1>2. m.mid = 0 /\ p = Ini /\ Setup /\ a # <<>>
  <2>1. CASE Dead(p, m, a)
    BY <1>1, <2>1 DEF Dead
  <2>2. CASE \E i \in 1..Len(a) : m.req = a[i]
    <3>1. PICK i \in 1..Len(a) : m.req = a[i]
      BY <2>2
    <3>2. /\ m.mid = Base(p) + (i - 1) /\ i = 1 /\ p = Ini /\ Setup
      BY <1>1, <3>1 DEF Asks, Flow, Numbered
    <3>3. a # <<>>
      BY <3>1, Lengths
    <3> QED BY <3>2, <3>3, BaseIsNat
  <2> QED BY <1>1, <2>1, <2>2 DEF Asks
<1>3. Tells(p, b, a, s) /\ b.is # "request"
  BY <1>2 DEF Tells
<1> QED BY <1>3 DEF Flow, Wire

CookieSetup == Setup /\ Cookies


\* The first request of an attempt that carries the cookie.
Cookied(r) == r = Request(0, "IKE_SA_INIT", InitTask, TRUE)

LEMMA CookiedGives ==
  ASSUME NEW r, Cookied(r)
  PROVE  /\ r \in Requests /\ r.mid = 0 /\ r.type = "IKE_SA_INIT" /\ r.task = InitTask
         /\ r.cookie
         /\ \A q \in Requests : (/\ q.mid = 0 /\ q.type = "IKE_SA_INIT"
                                 /\ q.task = InitTask /\ q.cookie) => q = r
<1>1. r \in Requests
  BY Bounds, TaskKinds DEF Cookied, Request, Requests, Types
<1>2. /\ r.mid = 0 /\ r.type = "IKE_SA_INIT" /\ r.task = InitTask /\ r.cookie
  BY DEF Cookied, Request
<1>3. ASSUME NEW q \in Requests, q.mid = 0, q.type = "IKE_SA_INIT", q.task = InitTask,
             q.cookie
      PROVE  q = r
  <2>1. q.cookie = TRUE
    BY <1>3 DEF Requests
  <2>2. q = [mid |-> q.mid, type |-> q.type, task |-> q.task, cookie |-> q.cookie]
    BY <1>3 DEF Requests
  <2> QED BY <1>3, <2>1, <2>2 DEF Cookied, Request
<1> QED BY <1>1, <1>2, <1>3

LEMMA OneRequest ==
  ASSUME NEW r \in Requests, NEW b, b = <<r>>
  PROVE  b \in Seq(Requests) /\ Len(b) = 1 /\ b[1] = r /\ b # <<>>
OBVIOUS

LEMMA OneOf ==
  ASSUME NEW s \in Seq(Requests), NEW r \in Requests, Len(s) = 1, s[1] = r
  PROVE  s = <<r>>
OBVIOUS

\* What starting over leads from and to.
Restarts(p, t, x, r) ==
  /\ Sound(p, t) /\ t.type = "IKE_SA_INIT" /\ t.state # "gone"
  /\ Sound(p, x) /\ Packet(p, x) /\ x.mid = 0 /\ x.state = "connecting"
  /\ x.type = "IKE_SA_INIT" /\ x.packet.req = r /\ Cookied(r)

LEMMA FirstOnly ==
  ASSUME NEW k \in Nat, NEW l \in Nat, NEW m \in Nat, 0 + k = 0, k <= l, l <= m, m = k + 1
  PROVE  /\ k = 0 /\ m = 1 /\ (l = 0 \/ l = 1)
         /\ \A i \in 1..l : l = 1 /\ i = 1
OBVIOUS

Restarted(p, x, u, n, a, s, d, r) ==
  /\ Len(a) = 1 /\ d = <<>> /\ (s = <<>> \/ s = <<r>>)
  /\ Flow(p, x, u, n, <<r>>, s, d)

\* The initiator starts over, with the cookie.
LEMMA FlowRestart ==
  ASSUME NEW p \in Peers, CookieSetup, p = Ini, NEW t \in TM, NEW u, NEW n, NEW a, NEW s, NEW d,
         Flow(p, t, u, n, a, s, d), History(a, s, d),
         NEW x \in TM, NEW r, Restarts(p, t, x, r),
         NEW N, N \subseteq {x.packet}
  PROVE  Restarted(p, x, u, n \cup N, a, s, d, r)
<1>0. Base(p) = 0 /\ t.mid = 0
  BY BaseIsNat DEF Sound, Busy, CookieSetup, Restarts
<1>1. /\ Len(a) \in Nat /\ Len(s) \in Nat /\ Len(d) \in Nat
      /\ Len(d) <= Len(s) /\ Len(s) <= Len(a) /\ Len(a) = Len(d) + 1
      /\ t.mid = Base(p) + Len(d)
  BY Lengths DEF Flow, InOrderOf, Asker, Restarts
<1>2. /\ Len(d) = 0 /\ Len(a) = 1 /\ (Len(s) = 0 \/ Len(s) = 1)
      /\ \A i \in 1..Len(s) : Len(s) = 1 /\ i = 1
  <2>1. 0 + Len(d) = 0
    BY <1>0, <1>1, Zenon
  <2> QED BY <1>1, <2>1, FirstOnly
<1>3. /\ a[1] \in Requests /\ a[1].mid = 0 /\ a[1].type = "IKE_SA_INIT"
      /\ a[1].task = InitTask
  <2>1. 1 \in 1..Len(a)
    BY <1>2
  <2>2. a[1] \in Requests
    BY <2>1, Lengths
  <2>3. /\ a[1].mid = Base(p) + (1 - 1)
        /\ a[1].type = "IKE_SA_INIT" <=> (1 = 1 /\ p = Ini /\ Setup)
        /\ a[1].type = "IKE_SA_INIT" => a[1].task = InitTask
    BY <2>1 DEF Flow, Numbered
  <2> QED BY <1>0, <2>2, <2>3 DEF CookieSetup
<1>4. /\ r \in Requests /\ r.mid = 0 /\ r.type = "IKE_SA_INIT" /\ r.task = InitTask
      /\ r.cookie
  BY CookiedGives DEF Restarts
<1>5. a[1].cookie => a[1] = r
  BY <1>3, CookiedGives DEF Restarts
<1>6. PICK b : b = <<r>>
  OBVIOUS
<1>7. b \in Seq(Requests) /\ Len(b) = 1 /\ b[1] = r /\ b # <<>>
  BY <1>4, <1>6, OneRequest
<1>8. Len(s) = 1 => s[1] = r /\ a[1] = r
  <2>1. Len(s) = 1 => s[1] = a[1] /\ (s[1].type = "IKE_SA_INIT" => s[1].cookie)
    BY DEF Flow, InOrderOf, CookieSetup
  <2> QED BY <1>3, <1>5, <2>1
<1>9. d = <<>> /\ (s = <<>> \/ s = <<r>>)
  <2>1. d = <<>>
    BY <1>2, EmptySeq DEF History
  <2>2. Len(s) = 1 => s = <<r>>
    BY <1>4, <1>8, OneOf DEF History
  <2>3. Len(s) = 0 => s = <<>>
    BY EmptySeq DEF History
  <2> QED BY <1>2, <2>1, <2>2, <2>3
<1>10. Numbered(p, b)
  <2>1. ASSUME NEW i \in 1..Len(b) PROVE i = 1
    BY <1>7
  <2>2. b[1].mid = Base(p) + (1 - 1)
    BY <1>0, <1>4, <1>7
  <2> QED BY <1>4, <1>7, <2>1, <2>2 DEF Numbered, CookieSetup
<1>11. InOrderOf(b, s, d)
  <2>1. ASSUME NEW i \in 1..Len(s) PROVE s[i] = b[i] /\ s[i].cookie
    BY <1>2, <1>4, <1>7, <1>8
  <2>2. ASSUME NEW i \in 1..Len(d) PROVE FALSE
    BY <1>2
  <2>3. Len(d) <= Len(s) /\ Len(s) <= Len(b) /\ Len(b) <= Len(d) + 1
    BY <1>1, <1>2, <1>7
  <2> QED BY <2>1, <2>2, <2>3 DEF InOrderOf
<1>12. Asker(p, x, b, d)
  BY <1>0, <1>2, <1>7 DEF Asker, Restarts
<1>13. Wire(p, n \cup N, b, s)
  <2>0. 1 \in 1..Len(b)
    BY <1>7
  <2>1. ASSUME NEW m \in n, m.is = "request", m.to = Other[p] PROVE Asks(p, m, b)
    <3>1. Asks(p, m, a)
      BY <2>1 DEF Flow, Wire
    <3>2. CASE Dead(p, m, a)
      BY <1>7, <3>1, <3>2 DEF Asks, Dead
    <3>3. CASE m.req = a[1] /\ a[1].cookie
      BY <1>5, <1>7, <2>0, <3>1, <3>3 DEF Asks
    <3>4. CASE m.req = a[1] /\ ~a[1].cookie
      BY <1>3, <1>7, <3>1, <3>4 DEF Asks, Dead, CookieSetup
    <3>5. (\E i \in 1..Len(a) : m.req = a[i]) => m.req = a[1]
      BY <1>2
    <3> QED BY <3>1, <3>2, <3>3, <3>4, <3>5 DEF Asks
  <2>2. ASSUME NEW m \in n, m.is # "request", m.to = p PROVE Tells(p, m, b, s)
    <3>1. Tells(p, m, a, s)
      BY <2>2 DEF Flow, Wire
    <3>2. ASSUME NEW i \in 1..Len(s) PROVE a[i] = b[i]
      <4>1. Len(s) = 1 /\ i = 1
        BY <1>2, <3>2
      <4> QED BY <1>7, <1>8, <4>1
    <3> QED BY <1>7, <3>1, <3>2 DEF Tells
  <2>3. Asks(p, x.packet, b) /\ x.packet.is = "request"
    BY <1>7, <2>0 DEF Asks, Packet, Restarts
  <2> QED BY <2>1, <2>2, <2>3 DEF Wire
<1> QED BY <1>2, <1>6, <1>9, <1>10, <1>11, <1>12, <1>13 DEF Flow, Restarted

-----------------------------------------------------------------------------
(***************************************************************************)
(* What a handler of p that initiates or repeats an exchange does to both   *)
(* directions: it keeps what it owes the other peer and sends requests only *)
(***************************************************************************)
\* p asks nothing, or its next request.
AsksOnce(p, t, o) ==
  \/ o.asks = <<>>
  \/ /\ t.type = "none" /\ o.tm.state # "gone" /\ \E r \in Requests : o.asks = <<r>>
     /\ p = Rsp => t.state \in {"established", "deleting"}

Goes(p, t, o) ==
  /\ o.tm \in TM /\ AsksOnce(p, t, o)
  /\ \A m \in o.sent : m.is = "request" /\ m.to = Other[p]
  /\ o.tm.state = "gone" \/ (o.tm.rmid = t.rmid /\ o.tm.rpacket = t.rpacket)
  /\ p = Rsp /\ o.tm.state # "gone"
       => o.tm.state = t.state \/ t.state \in {"established", "deleting"}
  /\ o.tm.why \in {t.why, "failed", "timeout"}

LEMMA SendsOwn ==
  ASSUME NEW p \in Peers, NEW x \in TM, Sound(p, x), x.type # "none", NEW o, Sends(x, o)
  PROVE  (\A m \in o.sent : m.is = "request" /\ m.to = Other[p]) /\ o.sent \subseteq {x.packet}
<1>1. x.packet.is = "request" /\ x.packet.to = Other[p]
  BY DEF Sound, Busy, Packet
<1> QED BY <1>1 DEF Sends

LEMMA QuietGoes ==
  ASSUME NEW p \in Peers, NEW t \in TM, NEW o, Quiet(t, o)
  PROVE  Goes(p, t, o)
BY DEF Quiet, Goes, AsksOnce

\* The request of t is sent once more.
LEMMA SendsGoes ==
  ASSUME NEW p \in Peers, NEW t \in TM, Sound(p, t), t.type # "none", NEW x \in TM, Same(t, x),
         NEW o, Sends(x, o), o.asks = <<>>, o.tm \in TM, Same(x, o.tm)
  PROVE  Goes(p, t, o)
<1>1. Sound(p, x) /\ x.type # "none"
  BY SameSound DEF Same
<1>2. \A m \in o.sent : m.is = "request" /\ m.to = Other[p]
  BY <1>1, SendsOwn
<1>3. /\ o.tm.rmid = t.rmid /\ o.tm.rpacket = t.rpacket /\ o.tm.state = t.state
      /\ o.tm.why = t.why
  BY DEF Same
<1> QED BY <1>2, <1>3 DEF Goes, AsksOnce

LEMMA DestroyedGoes ==
  ASSUME NEW p \in Peers, NEW t \in TM, NEW w \in {"failed", "timeout"},
         NEW o, o.tm = Destroyed(t, w), o.sent = {}, o.asks = <<>>
  PROVE  Goes(p, t, o)
<1>1. o.tm \in TM /\ o.tm.state = "gone" /\ o.tm.why = w
  BY DestroyedGives DEF Whys
<1> QED BY <1>1 DEF Goes, AsksOnce

LEMMA LaunchedGoes ==
  ASSUME NEW p \in Peers, NEW t \in TM, NEW o, Launched(p, t, o)
  PROVE  Goes(p, t, o)
<1>1. CASE o.tm = Destroyed(t, "failed") /\ o.sent = {} /\ o.asks = <<>>
  BY <1>1, DestroyedGoes
<1>2. ASSUME NEW x \in TM, Prepared(p, t, x), Sends(x, o), o.asks = <<x.packet.req>>,
             o.tm \in TM, Same(x, o.tm)
      PROVE  Goes(p, t, o)
  <2>1. Sound(p, x) /\ x.type # "none" /\ t.type = "none" /\ x.state # "gone"
    BY <1>2 DEF Prepared
  <2>2. \A m \in o.sent : m.is = "request" /\ m.to = Other[p]
    BY <1>2, <2>1, SendsOwn
  <2>3. x.packet.req \in Requests
    BY <2>1 DEF Sound, Busy, Packet, Messages
  <2>4. /\ o.tm.rmid = t.rmid /\ o.tm.rpacket = t.rpacket /\ o.tm.state = x.state
        /\ o.tm.why = t.why
    BY <1>2 DEF Same, Prepared
  <2>5. p = Rsp => t.state \in {"established", "deleting"}
    BY <1>2, OtherPeer DEF Prepared, Starts
  <2> QED BY <1>2, <2>1, <2>2, <2>3, <2>4, <2>5 DEF Goes, AsksOnce
<1> QED BY <1>1, <1>2 DEF Launched

LEMMA InitiatedGoes ==
  ASSUME NEW p \in Peers, NEW t \in TM, Sound(p, t), NEW o, Initiated(p, t, o)
  PROVE  Goes(p, t, o)
BY QuietGoes, LaunchedGoes, SendsGoes DEF Initiated, Resumed

LEMMA RepeatedGoes ==
  ASSUME NEW p \in Peers, NEW t \in TM, Sound(p, t), NEW o, Repeated(t, o)
  PROVE  Goes(p, t, o) /\ o.asks = <<>>
<1>1. CASE t.type # "none" /\ Sends(t, o) /\ o.tm \in TM /\ Same(t, o.tm)
  <2>1. Same(t, t)
    BY DEF Same
  <2> QED BY <1>1, <2>1, SendsGoes DEF Repeated
<1> QED BY <1>1, QuietGoes, DestroyedGoes DEF Repeated

\* The direction in which p serves.
LEMMA FlowGoes ==
  ASSUME NEW p \in Peers, NEW q, q = Other[p], NEW t \in TM, t.state # "gone", NEW o, Goes(p, t, o),
         NEW u, NEW n, NEW a, NEW s, NEW d, Flow(q, u, t, n, a, s, d)
  PROVE  Flow(q, u, o.tm, n \cup o.sent, a, s, d)
<1>1. Flow(q, u, o.tm, n, a, s, d)
  BY FlowServer DEF Goes
<1>2. q \in Peers /\ \A m \in o.sent : m.is = "request" /\ m.to = q
  BY OtherPeer DEF Goes
<1> QED BY <1>1, <1>2, FlowOwn

\* The direction in which p asks.
LEMMA FlowSends ==
  ASSUME NEW p \in Peers, NEW t \in TM, t.state # "gone", NEW u, NEW n, NEW a, NEW s, NEW d,
         Flow(p, t, u, n, a, s, d), History(a, s, d), Sound(p, t), t.type # "none",
         NEW x \in TM, Same(t, x), NEW o, Sends(x, o), Same(x, o.tm)
  PROVE  Flow(p, o.tm, u, n \cup o.sent, a, s, d)
<1>1. Sound(p, x) /\ x.type # "none" /\ x.packet = t.packet
  BY SameSound DEF Same
<1>2. o.sent \subseteq {t.packet}
  BY <1>1, SendsOwn
<1>3. Flow(p, t, u, n \cup o.sent, a, s, d)
  BY <1>2, FlowAgain
<1> QED BY <1>3, FlowAlike DEF Same

LEMMA NothingSent ==
  ASSUME NEW n, NEW o, o.sent = {}, NEW a \in Seq(Requests), o.asks = <<>>
  PROVE  n \cup o.sent = n /\ a \o o.asks = a
BY ConcatEmptySeq

LEMMA FlowLaunched ==
  ASSUME NEW p \in Peers, NEW t \in TM, t.state # "gone", NEW u, NEW n, NEW a, NEW s, NEW d,
         Flow(p, t, u, n, a, s, d), History(a, s, d), NEW o, Launched(p, t, o)
  PROVE  Flow(p, o.tm, u, n \cup o.sent, a \o o.asks, s, d)
<1>1. CASE o.tm = Destroyed(t, "failed") /\ o.sent = {} /\ o.asks = <<>>
  <2>1. o.tm.state = "gone"
    BY <1>1, DestroyedGives DEF Whys
  <2>2. Flow(p, o.tm, u, n, a, s, d)
    BY <2>1, FlowAlike
  <2> QED BY <1>1, <2>2, NothingSent DEF History
<1>2. ASSUME NEW x \in TM, Prepared(p, t, x), Sends(x, o), o.asks = <<x.packet.req>>,
             o.tm \in TM, Same(x, o.tm)
      PROVE  Flow(p, o.tm, u, n \cup o.sent, a \o o.asks, s, d)
  <2>1. Sound(p, x) /\ x.type # "none"
    BY <1>2 DEF Prepared
  <2>2. o.sent \subseteq {x.packet}
    BY <1>2, <2>1, SendsOwn
  <2>3. PICK r \in Requests : r = x.packet.req
    BY <2>1 DEF Sound, Busy, Packet, Messages
  <2>4. Flow(p, x, u, n \cup o.sent, Append(a, r), s, d)
    BY <1>2, <2>2, <2>3, FlowAsk
  <2>5. Append(a, r) = a \o o.asks
    BY <1>2, <2>3, AppendIsConcat DEF History
  <2> QED BY <1>2, <2>4, <2>5, FlowAlike DEF Same
<1> QED BY <1>1, <1>2 DEF Launched

LEMMA FlowInitiated ==
  ASSUME NEW p \in Peers, NEW t \in TM, t.state # "gone", NEW u, NEW n, NEW a, NEW s, NEW d,
         Flow(p, t, u, n, a, s, d), History(a, s, d), Sound(p, t), NEW o, Initiated(p, t, o)
  PROVE  Flow(p, o.tm, u, n \cup o.sent, a \o o.asks, s, d)
<1>1. CASE Quiet(t, o)
  BY <1>1, NothingSent DEF Quiet, History
<1>2. CASE Resumed(t, o)
  <2>1. Flow(p, o.tm, u, n \cup o.sent, a, s, d)
    BY <1>2, FlowSends DEF Resumed
  <2>2. a \o o.asks = a
    BY <1>2, ConcatEmptySeq DEF Resumed, History
  <2> QED BY <2>1, <2>2
<1>3. CASE Launched(p, t, o)
  BY <1>3, FlowLaunched
<1> QED BY <1>1, <1>2, <1>3 DEF Initiated

LEMMA FlowRepeated ==
  ASSUME NEW p \in Peers, NEW t \in TM, t.state # "gone", NEW u, NEW n, NEW a, NEW s, NEW d,
         Flow(p, t, u, n, a, s, d), History(a, s, d), Sound(p, t), NEW o, Repeated(t, o)
  PROVE  Flow(p, o.tm, u, n \cup o.sent, a \o o.asks, s, d)
<1>0. a \o o.asks = a
  BY ConcatEmptySeq DEF Repeated, History
<1>1. CASE Quiet(t, o)
  BY <1>1, NothingSent DEF Quiet, History
<1>2. CASE t.type # "none" /\ Sends(t, o) /\ o.tm \in TM /\ Same(t, o.tm)
  <2>1. Same(t, t)
    BY DEF Same
  <2>2. Flow(p, o.tm, u, n \cup o.sent, a, s, d)
    BY <1>2, <2>1, FlowSends
  <2> QED BY <1>0, <2>2
<1>3. CASE o.tm = Destroyed(t, "timeout") /\ o.sent = {}
  <2>1. o.tm.state = "gone" /\ n \cup o.sent = n
    BY <1>3, DestroyedGives DEF Whys
  <2>2. Flow(p, o.tm, u, n, a, s, d)
    BY <2>1, FlowAlike
  <2> QED BY <1>0, <2>1, <2>2
<1> QED BY <1>1, <1>2, <1>3 DEF Repeated

LEMMA LateGoes ==
  ASSUME NEW t \in TM, NEW o, Goes(Rsp, t, o), NEW a \in Seq(Requests), NEW s, Late(t, a, s)
  PROVE  Late(o.tm, a \o o.asks, s)
<1>1. o.tm.state = "gone" \/ o.tm.state = t.state \/ t.state \in {"established", "deleting"}
  BY DEF Goes
<1>2. CASE t.state \in {"established", "deleting"}
  <2>1. ASSUME Setup PROVE Len(s) >= 2
    BY <1>2, <2>1 DEF Late
  <2>2. ASSUME Setup PROVE Len(s) >= 1
    <3>1. Setup => Len(s) >= 2
      BY <2>1
    <3> QED BY <1>2, <2>2, <3>1 DEF Late
  <2> QED BY <2>1, <2>2 DEF Late
<1>3. CASE t.state \notin {"established", "deleting"}
  <2>1. o.asks = <<>> /\ (o.tm.state = "gone" \/ o.tm.state = t.state)
    BY <1>1, <1>3 DEF Goes, AsksOnce
  <2>2. a \o o.asks = a
    BY <2>1, ConcatEmptySeq
  <2> QED BY <2>1, <2>2 DEF Late
<1> QED BY <1>2, <1>3

\* Both directions, for the peer p that takes a step and the other one.
LEMMA FlowsParts ==
  ASSUME Sane, Flows, NEW p \in Peers, NEW q, q = Other[p]
  PROVE  /\ q \in Peers /\ Other[q] = p /\ p # q
         /\ Flow(p, tm[p], tm[q], net, asked[p], served[q], done[p])
         /\ Flow(q, tm[q], tm[p], net, asked[q], served[p], done[q])
         /\ History(asked[p], served[q], done[p]) /\ History(asked[q], served[p], done[q])
<1>1. q \in Peers /\ Other[q] = p /\ p # q
  BY OtherPeer
<1> QED BY <1>1, SaneParts DEF Flows, History

\* Both directions and what else Flows says, after a step of p.
LEMMA FlowsStep ==
  ASSUME Sane, Sane', NEW p \in Peers, NEW q, q = Other[p],
         Flow(p, tm'[p], tm'[q], net', asked'[p], served'[q], done'[p]),
         Flow(q, tm'[q], tm'[p], net', asked'[q], served'[p], done'[q]),
         Late(tm'[Rsp], asked'[Rsp], served'[Rsp]),
         tm'[p].why # "mismatch", tm'[q].why # "mismatch"
  PROVE  Flows'
<1>1. q \in Peers /\ Other[q] = p /\ \A r \in Peers : r = p \/ r = q
  BY OtherPeer DEF Peers
<1>2. ASSUME NEW r \in Peers
      PROVE  /\ Flow(r, tm'[r], tm'[Other[r]], net', asked'[r], served'[Other[r]], done'[r])
             /\ tm'[r].why # "mismatch"
  BY <1>1
<1> QED BY <1>2 DEF Flows

\* p goes on from t, which owes the other peer what tm[p] does.
Basis(p, t) ==
  /\ t \in TM /\ t.state # "gone" /\ tm[p].state # "gone" /\ t.why = tm[p].why
  /\ t.rmid = tm[p].rmid /\ t.rpacket = tm[p].rpacket
  /\ p = Rsp => t.state = tm[p].state

LEMMA FlowsCommit ==
  ASSUME Sane, Sane', Flows, NEW p \in Peers, NEW q, q = Other[p], NEW t, Basis(p, t),
         NEW o, Goes(p, t, o), Commit(p, o, asked[p]), served' = served, done'[q] = done[q],
         Flow(p, o.tm, tm[q], net \cup o.sent, asked[p] \o o.asks, served[q], done'[p])
  PROVE  Flows'
<1>0. /\ q \in Peers /\ Other[q] = p /\ p # q
      /\ Flow(q, tm[q], tm[p], net, asked[q], served[p], done[q])
  BY FlowsParts
<1>1. /\ tm'[p] = o.tm /\ tm'[q] = tm[q] /\ net' = net \cup o.sent
      /\ asked'[p] = asked[p] \o o.asks /\ asked'[q] = asked[q]
  BY <1>0 DEF Commit, Sane
<1>2. Flow(q, tm[q], t, net, asked[q], served[p], done[q])
  BY <1>0, FlowServer DEF Basis
<1>3. Flow(q, tm[q], o.tm, net \cup o.sent, asked[q], served[p], done[q])
  BY <1>2, FlowGoes DEF Basis
<1>4. Late(tm'[Rsp], asked'[Rsp], served'[Rsp])
  <2>1. CASE p = Rsp
    <3>1. Late(t, asked[p], served[p])
      BY <2>1 DEF Flows, Basis, Late
    <3>2. t \in TM /\ asked[p] \in Seq(Requests)
      BY SaneParts DEF Basis
    <3> QED BY <1>1, <2>1, <3>1, <3>2, LateGoes
  <2>2. CASE p # Rsp
    <3>1. q = Rsp
      BY <1>0, <2>2, OtherPeer DEF Peers
    <3> QED BY <1>1, <3>1 DEF Flows
  <2> QED BY <2>1, <2>2
<1>5. tm'[p].why # "mismatch" /\ tm'[q].why # "mismatch"
  BY <1>0, <1>1 DEF Flows, Goes, Basis
<1> QED BY <1>1, <1>3, <1>4, <1>5, FlowsStep

LEMMA FlowsQueueIke ==
  ASSUME Sane, Sane', Flows, QueueIke
  PROVE  Flows'
<1>1. PICK t \in TM : \E o : /\ Requeued(tm[Ini], t) /\ Starts(Ini, t) /\ tm[Ini].state = "created"
                             /\ Launched(Ini, t, o) /\ Commit(Ini, o, asked[Ini])
  BY QueueIkeGives
<1>2. PICK o : /\ Requeued(tm[Ini], t) /\ Starts(Ini, t) /\ tm[Ini].state = "created"
               /\ Launched(Ini, t, o) /\ Commit(Ini, o, asked[Ini])
  BY <1>1
<1>3. PICK q : q = Other[Ini]
  OBVIOUS
<1>4. /\ Ini \in Peers /\ q \in Peers
      /\ Flow(Ini, tm[Ini], tm[q], net, asked[Ini], served[q], done[Ini])
      /\ History(asked[Ini], served[q], done[Ini])
  BY <1>3, OtherPeer, FlowsParts
<1>5. Basis(Ini, t)
  BY <1>2, OtherPeer DEF Basis, Requeued, Moved
<1>6. Flow(Ini, t, tm[q], net, asked[Ini], served[q], done[Ini])
  BY <1>2, <1>4, FlowAlike DEF Requeued, Moved
<1>7. Flow(Ini, o.tm, tm[q], net \cup o.sent, asked[Ini] \o o.asks, served[q], done[Ini])
  BY <1>2, <1>4, <1>5, <1>6, FlowLaunched DEF Basis
<1>8. Goes(Ini, t, o)
  BY <1>2, <1>4, LaunchedGoes
<1>9. served' = served /\ done' = done
  BY DEF QueueIke
<1> QED BY <1>2, <1>3, <1>4, <1>5, <1>7, <1>8, <1>9, FlowsCommit

LEMMA FlowsInitiated ==
  ASSUME Sane, Sane', Flows, NEW p \in Peers, NEW t \in TM, Basis(p, t), Sound(p, t),
         t.state = tm[p].state, t.mid = tm[p].mid, t.type = tm[p].type, t.packet = tm[p].packet,
         NEW o, Initiated(p, t, o) \/ Repeated(t, o), Commit(p, o, asked[p]),
         served' = served, done' = done
  PROVE  Flows'
<1>3. PICK q : q = Other[p]
  OBVIOUS
<1>4. /\ q \in Peers
      /\ Flow(p, tm[p], tm[q], net, asked[p], served[q], done[p])
      /\ History(asked[p], served[q], done[p])
  BY <1>3, FlowsParts
<1>6. Flow(p, t, tm[q], net, asked[p], served[q], done[p])
  BY <1>4, FlowAlike
<1>7. Flow(p, o.tm, tm[q], net \cup o.sent, asked[p] \o o.asks, served[q], done[p])
  BY <1>4, <1>6, FlowInitiated, FlowRepeated DEF Basis
<1>8. Goes(p, t, o)
  BY InitiatedGoes, RepeatedGoes
<1> QED BY <1>3, <1>4, <1>7, <1>8, FlowsCommit

LEMMA FlowsQueueTask ==
  ASSUME Sane, Sane', Flows, NEW p \in Peers, NEW k \in waiting, QueueTask(p, k)
  PROVE  Flows'
<1>1. PICK t \in TM : \E o : /\ Requeued(tm[p], t) /\ Sound(p, t) /\ t.state # "gone"
                             /\ Initiated(p, t, o) /\ Commit(p, o, asked[p])
  BY QueueTaskGives
<1>2. PICK o : /\ Requeued(tm[p], t) /\ Sound(p, t) /\ t.state # "gone"
               /\ Initiated(p, t, o) /\ Commit(p, o, asked[p])
  BY <1>1
<1>3. Basis(p, t) /\ t.state = tm[p].state /\ t.mid = tm[p].mid /\ t.type = tm[p].type
      /\ t.packet = tm[p].packet
  BY <1>2 DEF Basis, Requeued, Moved
<1>4. served' = served /\ done' = done
  BY DEF QueueTask
<1> QED BY <1>2, <1>3, <1>4, FlowsInitiated

LEMMA FlowsReinitiate ==
  ASSUME Sane, Sane', Flows, NEW p \in Peers, Reinitiate(p)
  PROVE  Flows'
<1>1. PICK o : Initiated(p, tm[p], o) /\ Commit(p, o, asked[p])
  BY ReinitiateGives
<1>2. Basis(p, tm[p]) /\ Sound(p, tm[p]) /\ tm[p] \in TM
  BY SaneParts DEF Basis, Reinitiate, Gone
<1>3. served' = served /\ done' = done
  BY DEF Reinitiate
<1> QED BY <1>1, <1>2, <1>3, FlowsInitiated

LEMMA FlowsRetransmitJob ==
  ASSUME Sane, Sane', Flows, NEW p \in Peers, NEW i \in 0..MaxMid, RetransmitJob(p, i)
  PROVE  Flows'
<1>1. PICK t \in TM : \E o : /\ Sound(p, t) /\ t.state # "gone" /\ Same(tm[p], t)
                             /\ Repeated(t, o) /\ Commit(p, o, asked[p])
  BY RetransmitJobGives
<1>2. PICK o : /\ Sound(p, t) /\ t.state # "gone" /\ Same(tm[p], t)
               /\ Repeated(t, o) /\ Commit(p, o, asked[p])
  BY <1>1
<1>3. Basis(p, t) /\ t.state = tm[p].state /\ t.mid = tm[p].mid /\ t.type = tm[p].type
      /\ t.packet = tm[p].packet
  BY <1>2 DEF Basis, Same
<1>4. served' = served /\ done' = done
  BY DEF RetransmitJob
<1> QED BY <1>2, <1>3, <1>4, FlowsInitiated

\* A step of p that exchanges nothing.
LEMMA FlowsAlone ==
  ASSUME Sane, Sane', Flows, NEW p \in Peers, tm[p].state # "gone",
         NEW x, tm' = [tm EXCEPT ![p] = x], x.why # "mismatch",
         \/ x.state = "gone"
         \/ /\ x.state = tm[p].state /\ x.mid = tm[p].mid /\ x.type = tm[p].type
            /\ x.packet = tm[p].packet /\ x.rmid = tm[p].rmid /\ x.rpacket = tm[p].rpacket,
         net' = net, asked' = asked, served' = served, done' = done
  PROVE  Flows'
<1>1. PICK q : q = Other[p]
  OBVIOUS
<1>2. /\ q \in Peers /\ p # q
      /\ Flow(p, tm[p], tm[q], net, asked[p], served[q], done[p])
      /\ Flow(q, tm[q], tm[p], net, asked[q], served[p], done[q])
  BY <1>1, FlowsParts
<1>3. tm'[p] = x /\ tm'[q] = tm[q]
  BY <1>2 DEF Sane
<1>4. Flow(p, x, tm[q], net, asked[p], served[q], done[p])
  BY <1>2, FlowAlike
<1>5. Flow(q, tm[q], x, net, asked[q], served[p], done[q])
  BY <1>2, FlowServer
<1>6. Late(tm'[Rsp], asked[Rsp], served[Rsp])
  <2>1. tm'[Rsp].state \in {"gone", tm[Rsp].state}
    BY <1>2, <1>3, OtherPeer DEF Peers
  <2> QED BY <2>1 DEF Flows, Late
<1>7. tm[q].why # "mismatch"
  BY <1>2 DEF Flows
<1> QED BY <1>1, <1>2, <1>3, <1>4, <1>5, <1>6, <1>7, FlowsStep

LEMMA FlowsHalfOpenJob ==
  ASSUME Sane, Sane', Flows, NEW p \in Peers, HalfOpenJob(p)
  PROVE  Flows'
<1>1. PICK t \in TM :
           /\ Sound(p, t) /\ tm[p].state # "gone"
           /\ t.state = tm[p].state /\ t.why = tm[p].why
           /\ t.mid = tm[p].mid /\ t.type = tm[p].type /\ t.packet = tm[p].packet
           /\ t.rmid = tm[p].rmid /\ t.rpacket = tm[p].rpacket
           /\ \/ tm' = [tm EXCEPT ![p] = Destroyed(t, "halfopen")]
              \/ tm' = [tm EXCEPT ![p] = t]
  BY HalfOpenJobGives
<1>2. PICK x : x = Destroyed(t, "halfopen")
  OBVIOUS
<1>3. x.state = "gone" /\ x.why = "halfopen"
  BY <1>2, DestroyedGives DEF Whys
<1>4. t.why # "mismatch"
  BY <1>1 DEF Flows
<1>5. net' = net /\ asked' = asked /\ served' = served /\ done' = done
  BY DEF HalfOpenJob
<1>6. CASE tm' = [tm EXCEPT ![p] = x]
  BY <1>1, <1>3, <1>5, <1>6, FlowsAlone
<1>7. CASE tm' = [tm EXCEPT ![p] = t]
  BY <1>1, <1>4, <1>5, <1>7, FlowsAlone
<1> QED BY <1>1, <1>2, <1>6, <1>7

\* p answers and keeps everything else.
LEMMA FlowsAnswer ==
  ASSUME Sane, Sane', Flows, NEW p \in Peers, NEW q, q = Other[p], NEW b, b.is # "request", b.to = q,
         Flow(q, tm[q], tm[p], net \cup {b}, asked[q], served[p], done[q]),
         net' = net \cup {b}, tm' = tm, asked' = asked, served' = served, done' = done
  PROVE  Flows'
<1>1. /\ q \in Peers /\ Flow(p, tm[p], tm[q], net, asked[p], served[q], done[p])
  BY FlowsParts
<1>2. \A m \in {b} : m.is # "request" /\ m.to = Other[p]
  OBVIOUS
<1>3. Flow(p, tm[p], tm[q], net \cup {b}, asked[p], served[q], done[p])
  BY <1>1, <1>2, FlowAnswers
<1>4. Late(tm[Rsp], asked[Rsp], served[Rsp]) /\ tm[p].why # "mismatch" /\ tm[q].why # "mismatch"
  BY <1>1 DEF Flows
<1> QED BY <1>1, <1>3, <1>4, FlowsStep

LEMMA FlowsDemandCookie ==
  ASSUME Sane, Sane', Flows, NEW p \in Peers, NEW m \in net, DemandCookie(p, m)
  PROVE  Flows'
<1>1. PICK q : q = Other[p]
  OBVIOUS
<1>2. PICK b : b = Answer(m, m.mid, "cookie")
  OBVIOUS
<1>3. /\ m.to = p /\ m.is = "request" /\ m.type = "IKE_SA_INIT" /\ net' = net \cup {b}
      /\ tm' = tm /\ asked' = asked /\ served' = served /\ done' = done
  BY <1>2 DEF DemandCookie
<1>4. b.is = "cookie" /\ b.to = q /\ b.mid = m.mid
  BY <1>1, <1>2, <1>3 DEF Answer
<1>5. /\ q \in Peers /\ Other[q] = p /\ History(asked[q], served[p], done[q])
      /\ Flow(q, tm[q], tm[p], net, asked[q], served[p], done[q])
  BY <1>1, FlowsParts
<1>6. Flow(q, tm[q], tm[p], net \cup {b}, asked[q], served[p], done[q])
  BY <1>3, <1>4, <1>5, FlowCookie
<1> QED BY <1>1, <1>3, <1>4, <1>6, FlowsAnswer

LEMMA FlowsRepeatResponse ==
  ASSUME Sane, Sane', Flows, NEW p \in Peers, NEW m \in net, RepeatResponse(p, m)
  PROVE  Flows'
<1>1. PICK q : q = Other[p]
  OBVIOUS
<1>2. PICK b : b = tm[p].rpacket
  OBVIOUS
<1>3. /\ m.to = p /\ m.is = "request" /\ m.mid + 1 = tm[p].rmid /\ net' = net \cup {b}
      /\ tm' = tm /\ asked' = asked /\ served' = served /\ done' = done
      /\ tm[p].state # "gone" /\ Admitted(m)
  BY <1>2 DEF RepeatResponse, Arrived, Gone, Admitted
<1>5. /\ q \in Peers /\ Other[q] = p /\ History(asked[q], served[p], done[q])
      /\ Flow(q, tm[q], tm[p], net, asked[q], served[p], done[q])
  BY <1>1, FlowsParts
<1>6. /\ b.is # "request" /\ b.to = q
      /\ Flow(q, tm[q], tm[p], net \cup {b}, asked[q], served[p], done[q])
  BY <1>2, <1>3, <1>5, FlowRepeat
<1> QED BY <1>1, <1>3, <1>6, FlowsAnswer

\* The responder may change its state when it serves an initial exchange.
LEMMA FlowState ==
  ASSUME NEW p, p # Ini, NEW t, NEW u, NEW n, NEW a, NEW s, NEW d, Flow(p, t, u, n, a, s, d),
         t.state # "gone", NEW x, x.state # "created", x.mid = t.mid, x.type = t.type,
         x.packet = t.packet
  PROVE  Flow(p, x, u, n, a, s, d)
BY DEF Flow, Asker

LEMMA LateServed ==
  ASSUME NEW t, NEW x, NEW a, NEW s \in Seq(Requests), NEW r \in Requests, Late(t, a, s),
         \/ x.state \in {t.state, "gone"}
         \/ x.state = "connecting"
         \/ x.state = "established" /\ t.state = "connecting"
  PROVE  Late(x, a, Append(s, r))
<1>1. Len(s) \in Nat /\ Len(Append(s, r)) = Len(s) + 1
  BY AppendProperties, LenProperties
<1>2. PICK l \in Nat : l = Len(s)
  BY <1>1
<1>3. PICK k \in Nat : k = Len(Append(s, r)) /\ k = l + 1
  BY <1>1, <1>2
<1>4. (l >= 2 => k >= 2) /\ (l >= 1 => k >= 2) /\ (l >= 1 => k >= 1) /\ k >= 1
  BY <1>3
<1> QED BY <1>2, <1>3, <1>4 DEF Late

\* p serves m with answer b and becomes x.
ServesWith(p, m, x, b) ==
  /\ Served(p, m, x, b) /\ tm' = [tm EXCEPT ![p] = x] /\ net' = net \cup {b}
  /\ served' = [served EXCEPT ![p] = Append(@, m.req)]

\* The request that p serves is the next one of the other peer.
NextServed(p, q, m, x, b) ==
  /\ Len(served[p]) < Len(asked[q]) /\ m.req = asked[q][Len(served[p]) + 1]
  /\ b.is # "request" /\ b.to = q /\ m.req \in Requests
  /\ Flow(q, tm[q], x, net \cup {b}, asked[q], Append(served[p], m.req), done[q])

LEMMA ServesNext ==
  ASSUME Sane, Flows, NEW p \in Peers, NEW q, q = Other[p], NEW m \in net,
         ProcessRequest(p, m), NEW x, NEW b, ServesWith(p, m, x, b)
  PROVE  NextServed(p, q, m, x, b)
<1>1. /\ m.to = p /\ m.is = "request" /\ m.mid = tm[p].rmid /\ tm[p].state # "gone"
      /\ Admitted(m)
  BY DEF ProcessRequest, Arrived, InOrder, Gone, Admitted
<1>2. /\ q \in Peers /\ Other[q] = p /\ History(asked[q], served[p], done[q])
      /\ Flow(q, tm[q], tm[p], net, asked[q], served[p], done[q])
  BY FlowsParts
<1>3. Replies(q, m, b) /\ b.is # "request" /\ b.to = q
  BY <1>1 DEF Replies, ServesWith, Served
<1>4. HasServed(tm[p], x, b)
  <2>1. \A w \in {"deleted", "failed"} : Destroyed(tm[p], w).state = "gone"
    BY SaneParts, DestroyedGives DEF Whys
  <2> QED BY <2>1 DEF HasServed, ServesWith, Served
<1>5. m.req \in Requests
  BY DEF Sane, Messages
<1>6. /\ Len(served[p]) < Len(asked[q]) /\ m.req = asked[q][Len(served[p]) + 1]
      /\ Flow(q, tm[q], x, net \cup {b}, asked[q], Append(served[p], m.req), done[q])
  <2>1. m.to = Other[q]
    BY <1>1, <1>2
  <2> QED BY <1>1, <1>2, <1>3, <1>4, <2>1, FlowServe, Zenon
<1> QED BY <1>3, <1>5, <1>6, Zenon DEF NextServed

LEMMA FlowsServes ==
  ASSUME Sane, Sane', Flows, NEW p \in Peers, NEW q, q = Other[p], NEW m \in net,
         ProcessRequest(p, m), NEW x, NEW b, ServesWith(p, m, x, b)
  PROVE  Flows'
<1>1. q = Other[p]
  OBVIOUS
<1>2. /\ b.is # "request" /\ b.to = q /\ m.req \in Requests
      /\ Flow(q, tm[q], x, net \cup {b}, asked[q], Append(served[p], m.req), done[q])
  <2>1. NextServed(p, q, m, x, b)
    BY ServesNext
  <2> QED BY <2>1 DEF NextServed
<1>3. /\ q \in Peers /\ p # q /\ Flow(p, tm[p], tm[q], net, asked[p], served[q], done[p])
  BY <1>1, FlowsParts
<1>4. asked' = asked /\ done' = done /\ tm[p].state # "gone"
  BY DEF ProcessRequest, Arrived, Gone
<1>5. /\ tm'[p] = x /\ tm'[q] = tm[q] /\ net' = net \cup {b} /\ served'[q] = served[q]
      /\ served'[p] = Append(served[p], m.req)
  BY <1>3 DEF ServesWith, Sane
<1>6. \/ x.state = "gone" /\ x.why \in {"deleted", "failed"}
      \/ /\ x.mid = tm[p].mid /\ x.type = tm[p].type /\ x.packet = tm[p].packet
         /\ x.why = tm[p].why
         /\ \/ x.state = tm[p].state
            \/ p = Rsp /\ x.state = "connecting"
            \/ p = Rsp /\ x.state = "established" /\ tm[p].state = "connecting"
  <2>1. \A w \in {"deleted", "failed"} :
          Destroyed(tm[p], w).state = "gone" /\ Destroyed(tm[p], w).why = w
    BY SaneParts, DestroyedGives DEF Whys
  <2> QED BY <2>1 DEF ServesWith, Served
<1>7. Flow(p, x, tm[q], net, asked[p], served[q], done[p])
  <2>1. CASE x.state \in {"gone", tm[p].state}
    BY <1>3, <1>6, <2>1, FlowAlike
  <2>2. CASE x.state \notin {"gone", tm[p].state}
    <3>1. /\ p # Ini /\ x.state # "created" /\ x.mid = tm[p].mid /\ x.type = tm[p].type
          /\ x.packet = tm[p].packet
      BY <1>6, <2>2, OtherPeer
    <3> QED BY <1>3, <1>4, <3>1, FlowState
  <2> QED BY <2>1, <2>2
<1>8. Flow(p, x, tm[q], net \cup {b}, asked[p], served[q], done[p])
  <2>1. \A w \in {b} : w.is # "request" /\ w.to = Other[p]
    BY <1>1, <1>2
  <2> QED BY <1>7, <2>1, FlowAnswers
<1>9. Late(tm'[Rsp], asked[Rsp], served'[Rsp])
  <2>1. CASE p = Rsp
    <3>1. Late(tm[p], asked[p], served[p]) /\ served[p] \in Seq(Requests)
      BY <2>1, SaneParts DEF Flows
    <3>2. \/ x.state \in {tm[p].state, "gone"} \/ x.state = "connecting"
          \/ x.state = "established" /\ tm[p].state = "connecting"
      BY <1>6
    <3>3. Late(x, asked[p], Append(served[p], m.req))
      BY <1>2, <3>1, <3>2, LateServed
    <3> QED BY <1>5, <2>1, <3>3
  <2>2. CASE p # Rsp
    <3>1. q = Rsp
      BY <1>3, <2>2, OtherPeer DEF Peers
    <3> QED BY <1>5, <3>1 DEF Flows
  <2> QED BY <2>1, <2>2
<1>10. x.why # "mismatch" /\ tm[q].why # "mismatch"
  BY <1>3, <1>6 DEF Flows
<1> QED BY <1>1, <1>2, <1>4, <1>5, <1>8, <1>9, <1>10, FlowsStep

LEMMA FlowsProcessRequest ==
  ASSUME Sane, Sane', Flows, NEW p \in Peers, NEW m \in net, ProcessRequest(p, m)
  PROVE  Flows'
<1>1. ASSUME NEW x, NEW b, Served(p, m, x, b), tm' = [tm EXCEPT ![p] = x],
             net' = net \cup {b}, served' = [served EXCEPT ![p] = Append(@, m.req)]
      PROVE  Flows'
  BY <1>1, FlowsServes DEF ServesWith
<1>2. CASE /\ tm' = [tm EXCEPT ![p] = Destroyed(tm[p], "failed")]
           /\ net' = net /\ served' = served
  <2>1. PICK x : x = Destroyed(tm[p], "failed")
    OBVIOUS
  <2>2. x.state = "gone" /\ x.why = "failed"
    BY <2>1, SaneParts, DestroyedGives DEF Whys
  <2>3. asked' = asked /\ done' = done /\ tm[p].state # "gone"
    BY DEF ProcessRequest, Arrived, Gone
  <2> QED BY <1>2, <2>1, <2>2, <2>3, FlowsAlone
<1> QED BY <1>1, <1>2, ProcessRequestGives

\* An answer with the current message ID answers the exchange in progress.
LEMMA NoStrangeAnswer ==
  ASSUME NEW p \in Peers, NEW t \in TM, NEW u, NEW n, NEW a, NEW s, NEW d,
         Flow(p, t, u, n, a, s, d), History(a, s, d), Sound(p, t), t.state # "gone",
         NEW m \in n, Proper(m), m.is # "request", m.to = p, m.mid = t.mid
  PROVE  m.type = t.type
<1>1. /\ Len(a) \in Nat /\ Len(s) \in Nat /\ Len(d) \in Nat /\ Base(p) \in Nat
      /\ (a = <<>> <=> Len(a) = 0)
      /\ Len(d) <= Len(s) /\ Len(s) <= Len(a) /\ Len(a) <= Len(d) + 1
      /\ t.mid = Base(p) + Len(d)
  BY Lengths, BaseIsNat DEF Flow, InOrderOf, Asker
<1>2. ASSUME Len(a) = Len(d) + 1
      PROVE  t.type = a[Len(d) + 1].type
  <2>1. t.type # "none" /\ t.packet.req = a[Len(a)]
    BY <1>1, <1>2 DEF Flow, Asker
  <2>2. t.packet.req.type = t.type
    BY <2>1 DEF Sound, Busy, Packet
  <2> QED BY <1>2, <2>1, <2>2
<1>3. CASE m.is = "cookie" /\ m.mid = 0 /\ p = Ini /\ Setup /\ a # <<>>
  <2>1. Base(p) + Len(d) = 0 /\ m.type = "IKE_SA_INIT"
    BY <1>1, <1>3, Zenon DEF Proper
  <2>2. Len(d) = 0 /\ Len(a) = Len(d) + 1
    BY <1>1, <1>3, <2>1
  <2>3. a[1].type = "IKE_SA_INIT"
    BY <1>3, <2>2 DEF Flow, Numbered
  <2> QED BY <1>2, <2>1, <2>2, <2>3
<1>4. CASE \E i \in 1..Len(s) : Responds(p, m, a[i])
  <2>1. PICK i \in 1..Len(s) : Responds(p, m, a[i])
    BY <1>4
  <2>2. a[i].mid = Base(p) + (i - 1) /\ i \in 1..Len(a)
    BY <1>1 DEF Flow, Numbered
  <2>3. i = Len(d) + 1
    <3>1. Base(p) + (i - 1) = Base(p) + Len(d)
      BY <1>1, <2>1, <2>2, Zenon DEF Responds
    <3> QED BY <1>1, <3>1, Nth
  <2>4. Len(a) = Len(d) + 1
    BY <1>1, <2>2, <2>3
  <2> QED BY <1>2, <2>1, <2>3, <2>4 DEF Responds
<1>5. Tells(p, m, a, s)
  BY DEF Flow, Wire
<1> QED BY <1>3, <1>4, <1>5 DEF Tells

LEMMA FlowsMismatch ==
  ASSUME Sane, Flows, NEW p \in Peers, NEW m \in net, Mismatch(p, m)
  PROVE  FALSE
<1>1. PICK q : q = Other[p]
  OBVIOUS
<1>2. /\ Flow(p, tm[p], tm[q], net, asked[p], served[q], done[p])
      /\ History(asked[p], served[q], done[p])
  BY <1>1, FlowsParts
<1>3. /\ m.is # "request" /\ m.to = p /\ m.mid = tm[p].mid /\ m.type # tm[p].type
      /\ tm[p].state # "gone" /\ Proper(m)
  BY DEF Mismatch, Gone, Sane
<1> QED BY <1>2, <1>3, SaneParts, NoStrangeAnswer

\* p takes the answer m and becomes x, before it initiates anything.
Finished(t, x) ==
  x.state = "gone" \/ (x.mid = t.mid + 1 /\ x.type = "none" /\ x.state # "created")

\* The answer that p takes is the one to its outstanding request.
NextDone(p, q, m, x) ==
  /\ Len(done[p]) < Len(served[q]) /\ Len(done[p]) < Len(asked[p])
  /\ m.req = served[q][Len(done[p]) + 1] /\ m.req \in Requests
  /\ Flow(p, x, tm[q], net, asked[p], served[q], Append(done[p], m.req))

LEMMA ConcludesNext ==
  ASSUME Sane, Flows, NEW p \in Peers, NEW q, q = Other[p], NEW m \in net,
         ProcessResponse(p, m), NEW x, Finished(tm[p], x)
  PROVE  NextDone(p, q, m, x)
<1>1. /\ m.to = p /\ m.is \in {"ok", "more", "refused", "failed"} /\ tm[p].state # "gone"
      /\ m.mid = tm[p].mid
  BY ProcessResponseGives
<1>2. /\ tm[p] \in TM /\ Flow(p, tm[p], tm[q], net, asked[p], served[q], done[p])
      /\ History(asked[p], served[q], done[p])
  BY FlowsParts, SaneParts
<1>3. x.state = "gone" \/ (x.mid = tm[p].mid + 1 /\ x.type = "none" /\ x.state # "created")
  BY DEF Finished
<1>4. /\ Len(done[p]) < Len(served[q]) /\ m.req = served[q][Len(done[p]) + 1]
      /\ m.req \in Requests
      /\ Flow(p, x, tm[q], net, asked[p], served[q], Append(done[p], m.req))
  BY <1>1, <1>2, <1>3, FlowConclude
<1>5. Len(served[q]) <= Len(asked[p]) /\ Len(done[p]) \in Nat /\ Len(served[q]) \in Nat
      /\ Len(asked[p]) \in Nat
  BY <1>2, Lengths DEF Flow, InOrderOf
<1>6. Len(done[p]) < Len(asked[p])
  BY <1>4, <1>5
<1> QED BY <1>4, <1>6, Zenon DEF NextDone

LEMMA FlowsProcessResponse ==
  ASSUME Sane, Sane', Flows, NEW p \in Peers, NEW m \in net, ProcessResponse(p, m)
  PROVE  Flows'
<1>1. PICK q : q = Other[p]
  OBVIOUS
<1>2. /\ q \in Peers /\ p # q /\ tm[p] \in TM /\ tm[p].state # "gone"
      /\ History(asked[p], served[q], done[p])
  BY <1>1, FlowsParts, SaneParts, ProcessResponseGives
<1>3. PICK e : e = Append(done[p], m.req)
  OBVIOUS
<1>4. served' = served /\ done'[q] = done[q] /\ done'[p] = e
  BY <1>2, <1>3 DEF ProcessResponse, Sane
<1>5. History(asked[p], served[q], e)
  <2>1. m.req \in Requests
    BY DEF Sane, Messages
  <2> QED BY <1>2, <1>3, <2>1, AppendProperties DEF History
<1>6. ASSUME NEW w \in {"deleted", "failed"},
             Commit(p, Outcome(Destroyed(tm[p], w), {}, <<>>), asked[p])
      PROVE  Flows'
  <2>1. PICK x : x = Destroyed(tm[p], w)
    OBVIOUS
  <2>2. x \in TM /\ x.state = "gone" /\ x.why = w
    BY <1>2, <2>1, DestroyedGives DEF Whys
  <2>3. PICK o : o = Outcome(x, {}, <<>>)
    OBVIOUS
  <2>4. o.tm = x /\ o.sent = {} /\ o.asks = <<>>
    BY <2>3 DEF Outcome
  <2>5. NextDone(p, q, m, x)
    BY <1>1, <2>2, ConcludesNext DEF Finished
  <2>6. Flow(p, o.tm, tm[q], net \cup o.sent, asked[p] \o o.asks, served[q], done'[p])
    BY <1>2, <1>3, <1>4, <2>4, <2>5, NothingSent DEF NextDone, History
  <2>7. Commit(p, o, asked[p])
    BY <1>6, <2>1, <2>3
  <2>8. /\ tm'[p] = x /\ tm'[q] = tm[q] /\ net' = net \cup o.sent /\ asked'[q] = asked[q]
        /\ asked'[p] = asked[p] \o o.asks /\ asked'[p] = asked[p] /\ net' = net
    BY <1>2, <2>4, <2>7, NothingSent DEF Commit, Sane, History
  <2>9. /\ Flow(q, tm[q], tm[p], net, asked[q], served[p], done[q])
    BY <1>1, FlowsParts
  <2>10. Flow(q, tm[q], x, net, asked[q], served[p], done[q])
    BY <2>2, <2>9, FlowServer
  <2>11. Late(tm'[Rsp], asked'[Rsp], served'[Rsp])
    <3>1. /\ tm'[Rsp].state \in {"gone", tm[Rsp].state} /\ asked'[Rsp] = asked[Rsp]
      BY <1>2, <2>2, <2>8, OtherPeer DEF Peers
    <3> QED BY <1>4, <3>1 DEF Flows, Late
  <2>12. tm'[p].why # "mismatch" /\ tm'[q].why # "mismatch"
    BY <1>2, <2>2, <2>8 DEF Flows
  <2> QED BY <1>1, <1>4, <2>4, <2>6, <2>8, <2>10, <2>11, <2>12, FlowsStep
<1>7. ASSUME NEW x \in TM, NEW o, Over(p, x), Initiated(p, x, o), Commit(p, o, asked[p])
      PROVE  Flows'
  <2>1. Basis(p, x) /\ Sound(p, x) /\ Finished(tm[p], x)
    BY <1>2, <1>7, OtherPeer DEF Over, Basis, Finished
  <2>2. NextDone(p, q, m, x)
    BY <1>1, <2>1, ConcludesNext
  <2>3. Flow(p, x, tm[q], net, asked[p], served[q], e) /\ x.state # "gone"
    BY <1>3, <2>1, <2>2 DEF NextDone, Basis
  <2>4. Flow(p, o.tm, tm[q], net \cup o.sent, asked[p] \o o.asks, served[q], e)
    BY <1>5, <1>7, <2>1, <2>3, FlowInitiated
  <2>5. Goes(p, x, o)
    BY <1>7, <2>1, InitiatedGoes
  <2> QED BY <1>1, <1>4, <1>7, <2>1, <2>4, <2>5, FlowsCommit
<1> QED BY <1>6, <1>7, ProcessResponseGives

\* p has served nothing, and forgets it.
LEMMA FlowForgets ==
  ASSUME NEW p, Base(p) = 0, NEW t, NEW u, NEW n, NEW s \in Seq(Requests), NEW d,
         Flow(p, t, u, n, <<>>, s, d), NEW x, x.rmid = 0
  PROVE  Flow(p, t, x, n, <<>>, s, d)
<1>1. Len(s) <= Len(<<>>) /\ Len(s) \in Nat
  BY LenProperties DEF Flow, InOrderOf
<1>2. Len(s) = 0 /\ s = <<>>
  BY <1>1, EmptySeq
<1>3. Server(p, x, s)
  BY <1>2 DEF Server
<1> QED BY <1>3 DEF Flow

\* The initiator p starts over, with request r, and has served nothing.
StartsOver(p, q, x, o, r) ==
  /\ p = Ini /\ q = Rsp /\ Restarts(p, tm[p], x, r) /\ Same(x, o.tm)
  /\ o.sent \subseteq {x.packet} /\ x.rmid = 0 /\ x.why # "mismatch"
  /\ (\A m \in o.sent : m.is = "request" /\ m.to = q)
  /\ asked[q] = <<>> /\ done[p] = <<>> /\ served[q] \in {<<>>, <<r>>} /\ r \in Requests
  /\ Flow(p, x, tm[q], net \cup o.sent, <<r>>, served[q], done[p])

Fails(p, o) == o.tm.state = "gone" /\ o.tm.why = "failed" /\ o.sent = {} /\ o.asks = <<>>

LEMMA CookieStartsOver ==
  ASSUME Sane, Flows, NEW p \in Peers, NEW q, q = Other[p], NEW m \in net, ProcessCookie(p, m)
  PROVE  \E o : \/ Fails(p, o) /\ Commit(p, o, asked[p])
                \/ /\ Commit(p, o, <<>>)
                   /\ \E x \in TM : \E r : StartsOver(p, q, x, o, r) /\ o.asks = <<r>>
<1>1. PICK o : /\ Reset(tm[p]) \in TM /\ Starts(p, Reset(tm[p])) /\ Launched(p, Reset(tm[p]), o)
               /\ Commit(p, o, IF o.asks = <<>> THEN asked[p] ELSE <<>>)
  BY ProcessCookieGives
<1>2. /\ CookieSetup /\ tm[p].state # "gone" /\ tm[p].type = "IKE_SA_INIT" /\ p = Ini
      /\ tm[p] \in TM /\ Sound(p, tm[p]) /\ q = Rsp
  BY ProcessCookieGives, SaneParts, OtherPeer DEF CookieSetup
<1>3. PICK t \in TM : t = Reset(tm[p])
  BY <1>1
<1>4. /\ t.retry = tm[p].retry + 1 /\ t.state = "created" /\ t.rmid = 0 /\ t.why = tm[p].why
      /\ tm[p].retry \in Nat
  <2>1. tm[p].retry < MaxRetries
    BY <1>2 DEF Sound, Busy
  <2>2. tm[p].retry \in Nat
    BY <1>2, Fields, Bounds
  <2> QED BY <1>2, <1>3, <2>1, <2>2, ResetGives
<1>5. CASE o.tm = Destroyed(t, "failed") /\ o.sent = {} /\ o.asks = <<>>
  <2>1. Fails(p, o)
    BY <1>5, DestroyedGives DEF Fails, Whys
  <2> QED BY <1>1, <1>5, <2>1
<1>6. ASSUME NEW x \in TM, Prepared(p, t, x), Sends(x, o), o.asks = <<x.packet.req>>,
             o.tm \in TM, Same(x, o.tm)
      PROVE  /\ Commit(p, o, <<>>)
             /\ \E r : StartsOver(p, q, x, o, r) /\ o.asks = <<r>>
  <2>1. x.type = "IKE_SA_INIT" /\ Sound(p, x) /\ x.rmid = 0 /\ x.why = tm[p].why
    BY <1>4, <1>6 DEF Prepared
  <2>2. PICK r : r = x.packet.req
    OBVIOUS
  <2>3. Cookied(r)
    <3>1. (t.retry > 0) = TRUE
      BY <1>4
    <3> QED BY <1>6, <2>1, <2>2, <3>1 DEF Prepared, Cookied
  <2>4. Packet(p, x) /\ x.mid = 0 /\ x.state = "connecting"
    BY <2>1 DEF Sound, Busy
  <2>5. Restarts(p, tm[p], x, r)
    BY <1>2, <2>1, <2>2, <2>3, <2>4 DEF Restarts
  <2>6. o.sent \subseteq {x.packet} /\ \A w \in o.sent : w.is = "request" /\ w.to = q
    BY <1>6, <2>1, SendsOwn
  <2>7. /\ Flow(p, tm[p], tm[q], net, asked[p], served[q], done[p])
        /\ History(asked[p], served[q], done[p])
    BY FlowsParts
  <2>8. /\ Len(asked[p]) = 1 /\ done[p] = <<>> /\ (served[q] = <<>> \/ served[q] = <<r>>)
        /\ Flow(p, x, tm[q], net \cup o.sent, <<r>>, served[q], done[p])
    <3>1. Restarted(p, x, tm[q], net \cup o.sent, asked[p], served[q], done[p], r)
      BY <1>2, <2>5, <2>6, <2>7, FlowRestart
    <3> QED BY <3>1 DEF Restarted
  <2>9. asked[q] = <<>>
    <3>1. asked[q] # <<>> => Len(served[q]) >= 2
      BY <1>2 DEF Flows, Late, CookieSetup
    <3>2. Len(served[q]) <= 1 /\ Len(served[q]) \in Nat
      BY <2>7, <2>8, Lengths DEF Flow, InOrderOf
    <3> QED BY <3>1, <3>2
  <2>10. r \in Requests
    BY <2>3, CookiedGives
  <2>11. x.why # "mismatch"
    BY <2>1 DEF Flows
  <2>12. StartsOver(p, q, x, o, r)
    BY <1>2, <1>6, <2>1, <2>5, <2>6, <2>8, <2>9, <2>10, <2>11 DEF StartsOver
  <2>13. o.asks = <<r>> /\ o.asks # <<>>
    BY <1>6, <2>2, <2>10
  <2> QED BY <1>1, <2>12, <2>13
<1> QED BY <1>1, <1>3, <1>5, <1>6 DEF Launched

LEMMA FlowsProcessCookie ==
  ASSUME Sane, Sane', Flows, NEW p \in Peers, NEW m \in net, ProcessCookie(p, m)
  PROVE  Flows'
<1>1. PICK q : q = Other[p]
  OBVIOUS
<1>2. /\ q \in Peers /\ p # q /\ Flow(q, tm[q], tm[p], net, asked[q], served[p], done[q])
      /\ Other[q] = p /\ served[p] \in Seq(Requests) /\ asked[p] \in Seq(Requests)
      /\ tm[p].state # "gone" /\ Setup /\ p = Ini
  BY <1>1, FlowsParts, SaneParts, ProcessCookieGives
<1>3. served' = served /\ done' = done
  BY DEF ProcessCookie
<1>4. ASSUME NEW o, Fails(p, o), Commit(p, o, asked[p]) PROVE Flows'
  <2>1. tm' = [tm EXCEPT ![p] = o.tm] /\ net' = net /\ asked' = asked
    BY <1>2, <1>4, NothingSent DEF Fails, Commit, Sane
  <2>2. o.tm.state = "gone" /\ o.tm.why # "mismatch"
    BY <1>4 DEF Fails
  <2> QED BY <1>2, <1>3, <2>1, <2>2, FlowsAlone
<1>5. ASSUME NEW o, NEW x \in TM, NEW r, StartsOver(p, q, x, o, r), o.asks = <<r>>,
             Commit(p, o, <<>>)
      PROVE  Flows'
  <2>1. /\ tm'[p] = o.tm /\ tm'[q] = tm[q] /\ net' = net \cup o.sent /\ asked'[q] = asked[q]
        /\ asked'[p] = <<>> \o o.asks
    BY <1>2, <1>5 DEF Commit, Sane
  <2>2. asked'[p] = <<r>>
    BY <1>5, <2>1 DEF StartsOver
  <2>3. Flow(p, x, tm[q], net \cup o.sent, <<r>>, served[q], done[p]) /\ Same(x, o.tm)
    BY <1>5 DEF StartsOver
  <2>4. Flow(p, o.tm, tm[q], net \cup o.sent, <<r>>, served[q], done[p])
    BY <2>3, FlowAlike DEF Same
  <2>5. Base(q) = 0 /\ asked[q] = <<>> /\ o.tm.rmid = 0 /\ o.tm.why # "mismatch" /\ q = Rsp
    BY <1>2, <1>5, BaseIsNat DEF StartsOver, Same
  <2>6. Flow(q, tm[q], o.tm, net, asked[q], served[p], done[q])
    BY <1>2, <2>5, FlowForgets
  <2>7. Flow(q, tm[q], o.tm, net \cup o.sent, asked[q], served[p], done[q])
    <3>1. \A w \in o.sent : w.is = "request" /\ w.to = q
      BY <1>5 DEF StartsOver
    <3> QED BY <1>2, <2>6, <3>1, FlowOwn
  <2>8. Late(tm'[Rsp], asked'[Rsp], served'[Rsp])
    BY <1>3, <2>1, <2>5 DEF Flows
  <2>9. tm'[p].why # "mismatch" /\ tm'[q].why # "mismatch"
    BY <1>2, <2>1, <2>5 DEF Flows
  <2> QED BY <1>1, <1>3, <2>1, <2>2, <2>4, <2>7, <2>8, <2>9, FlowsStep
<1> QED BY <1>1, <1>4, <1>5, CookieStartsOver

LEMMA FlowsInit == Sane /\ Init => Flows
<1> SUFFICES ASSUME Sane, Init PROVE Flows
  OBVIOUS
<1>1. net = {} /\ \A p \in Peers : asked[p] = <<>> /\ served[p] = <<>> /\ done[p] = <<>>
  BY DEF Init
<1>2. ASSUME NEW p \in Peers
      PROVE  /\ tm[p].type = "none" /\ tm[p].why = "open"
             /\ tm[p].mid = Base(p) /\ tm[p].rmid = Base(Other[p])
             /\ Setup => tm[p].state = "created"
             /\ ~Setup => tm[p].state = "established"
  <2>1. CASE Setup
    BY <2>1 DEF Init, Fresh, Base
  <2>2. CASE ~Setup /\ p = Ini
    <3>1. tm[p] = [Fresh EXCEPT !.state = "established", !.mid = 2]
      BY <2>2 DEF Init
    <3> QED BY <2>2, <3>1, OtherPeer DEF Fresh, Base
  <2>3. CASE ~Setup /\ p # Ini
    <3>1. tm[p] = [Fresh EXCEPT !.state = "established", !.rmid = 2]
      BY <2>3 DEF Init
    <3>2. Other[p] = Ini
      BY <2>3, OtherPeer DEF Peers
    <3> QED BY <2>3, <3>1, <3>2 DEF Fresh, Base
  <2> QED BY <2>1, <2>2, <2>3
<1>3. Len(<<>>) = 0 /\ \A i \in 1..0 : FALSE
  OBVIOUS
<1>4. ASSUME NEW p \in Peers
      PROVE  Flow(p, tm[p], tm[Other[p]], net, asked[p], served[Other[p]], done[p])
  <2>1. PICK q \in Peers : q = Other[p] /\ Other[q] = p
    BY OtherPeer
  <2>2. Flow(p, tm[p], tm[q], net, <<>>, <<>>, <<>>)
    <3>1. Numbered(p, <<>>) /\ InOrderOf(<<>>, <<>>, <<>>) /\ Wire(p, net, <<>>, <<>>)
      BY <1>1, <1>3 DEF Numbered, InOrderOf, Wire
    <3>2. Base(p) \in Nat /\ Base(q) \in Nat
      BY BaseIsNat
    <3>3. Asker(p, tm[p], <<>>, <<>>)
      BY <1>2, <1>3, <3>2 DEF Asker
    <3>4. Server(p, tm[q], <<>>)
      BY <1>2, <1>3, <2>1, <3>2 DEF Server
    <3> QED BY <3>1, <3>3, <3>4 DEF Flow
  <2> QED BY <1>1, <2>1, <2>2
<1>5. Late(tm[Rsp], asked[Rsp], served[Rsp])
  BY <1>1, <1>2, OtherPeer DEF Late
<1> QED BY <1>2, <1>4, <1>5 DEF Flows

LEMMA FlowsNext ==
  ASSUME Garbled = {}, Sane, Sane', Flows, [Next]_vars
  PROVE  Flows'
<1>1. ASSUME NEW p \in Peers, NEW m \in net,
             \/ DemandCookie(p, m) \/ RefuseRequest(p, m) \/ ProcessRequest(p, m)
             \/ RepeatResponse(p, m) \/ Mismatch(p, m) \/ ProcessResponse(p, m)
             \/ ProcessCookie(p, m)
      PROVE  Flows'
  <2>1. ~RefuseRequest(p, m)
    BY DEF RefuseRequest
  <2>2. ~Mismatch(p, m)
    BY FlowsMismatch
  <2> QED BY <1>1, <2>1, <2>2, FlowsDemandCookie, FlowsProcessRequest, FlowsRepeatResponse,
             FlowsProcessResponse, FlowsProcessCookie
<1>2. CASE UNCHANGED vars
  BY <1>2 DEF vars, Flows
<1> QED BY <1>1, <1>2, FlowsQueueIke, FlowsReinitiate, FlowsHalfOpenJob, FlowsQueueTask,
           FlowsRetransmitJob DEF Next

LEMMA FlowsAlways ==
  ASSUME Garbled = {}
  PROVE  Spec => [](Sane /\ Flows)
<1>1. Sane /\ Flows /\ [Next]_vars => (Sane /\ Flows)'
  BY SaneNext, FlowsNext
<1> QED BY SaneInit, FlowsInit, <1>1, PTL DEF Spec

\* When no request is refused, no SA is closed because a late or repeated response
\* of another exchange carries the message ID of the current one.
THEOREM NeverMismatched == ASSUME Garbled = {} PROVE Spec => []NoMismatch
<1>1. Flows => NoMismatch
  BY DEF Flows, NoMismatch
<1> QED BY FlowsAlways, <1>1, PTL

\* When no request is refused, the two peers never drift apart: the message ID a
\* peer expects is the one of the request the other has outstanding or will send
\* next, or that request is served.
THEOREM MidsStayInStep == ASSUME Garbled = {} PROVE Spec => []MidsInStep
<1>1. ASSUME Sane, Flows, NEW p \in Peers, ~Gone(p), ~Gone(Other[p])
      PROVE  \/ tm[Other[p]].rmid = tm[p].mid
             \/ tm[Other[p]].rmid = tm[p].mid + 1 /\ Outstanding(p)
  <2>1. PICK q : q = Other[p]
    OBVIOUS
  <2>2. /\ Flow(p, tm[p], tm[q], net, asked[p], served[q], done[p])
        /\ History(asked[p], served[q], done[p]) /\ q \in Peers
    BY <1>1, <2>1, FlowsParts
  <2>3. PICK a \in Nat, s \in Nat, d \in Nat :
               a = Len(asked[p]) /\ s = Len(served[q]) /\ d = Len(done[p])
    BY <2>2, Lengths
  <2>4. d <= s /\ s <= a /\ a <= d + 1
    BY <2>2, <2>3 DEF Flow, InOrderOf
  <2>5. tm[p].mid = Base(p) + d /\ tm[q].rmid = Base(p) + s /\ Base(p) \in Nat
    BY <1>1, <2>1, <2>2, <2>3, BaseIsNat DEF Flow, Asker, Server, Gone
  <2>6. CASE s = d
    BY <2>1, <2>5, <2>6
  <2>7. CASE s = d + 1
    <3>1. a > d
      BY <2>4, <2>7
    <3>2. tm[q].rmid = tm[p].mid + 1
      BY <2>5, <2>7
    <3> QED BY <2>1, <2>3, <3>1, <3>2 DEF Outstanding
  <2>8. s = d \/ s = d + 1
    BY <2>4
  <2> QED BY <2>6, <2>7, <2>8
<1>2. Sane /\ Flows => MidsInStep
  BY <1>1 DEF MidsInStep
<1> QED BY FlowsAlways, <1>2, PTL

\* When no request is refused, a peer that has served the outstanding request of
\* the other has the very response stored, under the message ID that a repetition
\* of the request carries.
THEOREM AnswersStayKept == ASSUME Garbled = {} PROVE Spec => []AnswerKept
<1>1. ASSUME Sane, Flows, NEW p \in Peers, NEW q, q = Other[p], ~Gone(p), ~Gone(q),
             Outstanding(p), Len(served[q]) = Len(asked[p])
      PROVE  /\ tm[q].rpacket # None /\ tm[q].rpacket.req = asked[p][Len(asked[p])]
             /\ tm[q].rmid = tm[p].mid + 1
  <2>1. /\ Flow(p, tm[p], tm[q], net, asked[p], served[q], done[p])
        /\ History(asked[p], served[q], done[p]) /\ q \in Peers
    BY <1>1, FlowsParts
  <2>2. PICK a \in Nat, d \in Nat :
               a = Len(asked[p]) /\ a = Len(served[q]) /\ d = Len(done[p])
    BY <1>1, <2>1, Lengths
  <2>3. a <= d + 1 /\ d < a
    BY <1>1, <2>1, <2>2 DEF Flow, InOrderOf, Outstanding
  <2>4. a = d + 1 /\ a \in 1..a
    BY <2>2, <2>3
  <2>5. served[q] # <<>>
    <3>1. a # 0
      BY <2>4
    <3>2. served[q] = <<>> => Len(served[q]) = 0
      BY <2>1, Lengths
    <3> QED BY <2>2, <3>1, <3>2
  <2>6. /\ tm[p].mid = Base(p) + d /\ tm[q].rmid = Base(p) + a /\ Base(p) \in Nat
        /\ Responds(p, tm[q].rpacket, served[q][a])
    BY <1>1, <2>1, <2>2, <2>5, BaseIsNat DEF Flow, Asker, Server, Gone
  <2>7. served[q][a] = asked[p][a]
    BY <2>1, <2>2, <2>4 DEF Flow, InOrderOf
  <2>8. tm[q].rpacket \in Messages /\ tm[q].rpacket.req = asked[p][a]
    BY <2>6, <2>7 DEF Responds
  <2>9. tm[q].rpacket # None
    BY <2>8 DEF Messages, None, Answers
  <2>10. tm[q].rmid = tm[p].mid + 1
    BY <2>2, <2>4, <2>6
  <2> QED BY <2>2, <2>8, <2>9, <2>10
<1>2. Sane /\ Flows => AnswerKept
  BY <1>1 DEF AnswerKept
<1> QED BY FlowsAlways, <1>2, PTL

-----------------------------------------------------------------------------
(***************************************************************************)
(* The refinement: which step of Exchange a handler takes.                  *)
(***************************************************************************)
Open == [p \in Peers |-> ~Gone(p)]

LEMMA OpenIs == Open = [p \in Peers |-> ~Gone(p)] /\ \A p \in Peers : Open[p] = ~Gone(p)
BY DEF Open

LEMMA StaysOpen ==
  ASSUME Sane, NEW p \in Peers, tm[p].state # "gone", NEW x, tm' = [tm EXCEPT ![p] = x],
         x.state # "gone"
  PROVE  Open' = Open
<1>1. ASSUME NEW q \in Peers PROVE Gone(q)' <=> Gone(q)
  BY DEF Gone, Sane
<1> QED BY <1>1 DEF Open

LEMMA Closes ==
  ASSUME Sane, NEW p \in Peers, NEW x, tm' = [tm EXCEPT ![p] = x], x.state = "gone"
  PROVE  Open' = [Open EXCEPT ![p] = FALSE]
<1>1. Gone(p)' /\ \A q \in Peers : q # p => (Gone(q)' <=> Gone(q))
  BY DEF Gone, Sane
<1> QED BY <1>1 DEF Open

\* What an open SA means in Exchange.
LEMMA IsOpen ==
  ASSUME NEW p \in Peers, tm[p].state # "gone"
  PROVE  Open[p] = TRUE
BY DEF Open, Gone

Refines == [Exchanges!Next]_(Exchanges!vars)

LEMMA RefinesStutter ==
  ASSUME asked' = asked, served' = served, done' = done, Open' = Open
  PROVE  Refines
BY DEF Refines, Exchanges!vars, Open

LEMMA RefinesClose ==
  ASSUME NEW p \in Peers, tm[p].state # "gone", asked' = asked, served' = served, done' = done,
         Open' = [Open EXCEPT ![p] = FALSE]
  PROVE  Refines
<1>1. Exchanges!Close(p)
  BY IsOpen DEF Exchanges!Close, Open
<1> QED BY <1>1 DEF Refines, Exchanges!Next

\* The history of p grows by r.
LEMMA RefinesSends ==
  ASSUME NEW p \in Peers, asked \in [Peers -> Seq(Requests)], NEW r \in Requests,
         asked' = [asked EXCEPT ![p] = Append(asked[p], r)]
  PROVE  Exchanges!Sends(p)
<1>1. asked[p] \in Seq(Requests) /\ asked'[p] = Append(asked[p], r)
  OBVIOUS
<1>2. Len(asked'[p]) = Len(asked[p]) + 1 /\ asked'[p][Len(asked[p]) + 1] = r
  BY <1>1, AppendProperties
<1> QED BY <1>2 DEF Exchanges!Sends

LEMMA RefinesAsk ==
  ASSUME Sane, NEW p \in Peers, tm[p].state # "gone", Len(asked[p]) = Len(done[p]),
         NEW r \in Requests, asked' = [asked EXCEPT ![p] = Append(asked[p], r)],
         served' = served, done' = done, Open' = Open
  PROVE  Refines
<1>1. Exchanges!Sends(p)
  BY RefinesSends DEF Sane
<1>2. Exchanges!Ask(p)
  BY <1>1, IsOpen DEF Exchanges!Ask, Open
<1> QED BY <1>2 DEF Refines, Exchanges!Next

LEMMA RefinesServe ==
  ASSUME Sane, NEW p \in Peers, NEW q, q = Other[p], tm[p].state # "gone",
         Len(served[p]) < Len(asked[q]), NEW r, r = asked[q][Len(served[p]) + 1],
         served' = [served EXCEPT ![p] = Append(served[p], r)],
         asked' = asked, done' = done,
         Open' = Open \/ Open' = [Open EXCEPT ![p] = FALSE]
  PROVE  Refines
<1>1. PICK b \in BOOLEAN : Open' = [Open EXCEPT ![p] = b]
  <2>1. Open = [Open EXCEPT ![p] = TRUE]
    BY IsOpen DEF Open
  <2> QED BY <2>1
<1>2. Exchanges!Serve(p)
  BY <1>1, IsOpen DEF Exchanges!Serve, Open
<1> QED BY <1>2 DEF Refines, Exchanges!Next

LEMMA RefinesConclude ==
  ASSUME Sane, NEW p \in Peers, NEW q, q = Other[p], tm[p].state # "gone",
         Len(done[p]) < Len(asked[p]), Len(done[p]) < Len(served[q]),
         NEW r, r = served[q][Len(done[p]) + 1],
         done' = [done EXCEPT ![p] = Append(done[p], r)], served' = served,
         \/ asked' = asked /\ Open' = Open
         \/ Exchanges!Sends(p) /\ Open' = Open
         \/ Open' = [Open EXCEPT ![p] = FALSE] /\ asked' = asked
  PROVE  Refines
<1>1. Exchanges!Conclude(p)
  BY IsOpen DEF Exchanges!Conclude, Open
<1> QED BY <1>1 DEF Refines, Exchanges!Next

LEMMA RefinesRestart ==
  ASSUME Sane, NEW p \in Peers, NEW q, q = Other[p], tm[p].state # "gone", done[p] = <<>>,
         NEW r \in Requests, asked' = [asked EXCEPT ![p] = <<r>>],
         served[q] \in {<<>>, <<r>>}, served' = served, done' = done, Open' = Open
  PROVE  Refines
<1>1. asked'[p] = <<r>> /\ Len(<<r>>) = 1 /\ <<r>>[1] = r
  BY DEF Sane
<1>2. Exchanges!Restart(p)
  BY <1>1, IsOpen DEF Exchanges!Restart, Open
<1> QED BY <1>2 DEF Refines, Exchanges!Next

\* The requests of p after a handler with outcome o.
LEMMA CommitAsks ==
  ASSUME Sane, NEW p \in Peers, NEW o, Commit(p, o, asked[p])
  PROVE  /\ o.asks = <<>> => asked' = asked
         /\ \A r \in Requests : o.asks = <<r>>
              => asked' = [asked EXCEPT ![p] = Append(asked[p], r)]
<1>1. asked \in [Peers -> Seq(Requests)] /\ asked[p] \in Seq(Requests)
  BY DEF Sane
<1>2. asked' = [asked EXCEPT ![p] = asked[p] \o o.asks]
  BY DEF Commit
<1>3. ASSUME o.asks = <<>> PROVE asked' = asked
  <2>1. asked[p] \o o.asks = asked[p]
    BY <1>1, <1>3, ConcatEmptySeq
  <2> QED BY <1>1, <1>2, <2>1
<1>4. ASSUME NEW r \in Requests, o.asks = <<r>>
      PROVE  asked' = [asked EXCEPT ![p] = Append(asked[p], r)]
  <2>1. Append(asked[p], r) = asked[p] \o o.asks
    BY <1>1, <1>4, AppendIsConcat
  <2> QED BY <1>2, <2>1
<1> QED BY <1>3, <1>4

LEMMA RefinesGoes ==
  ASSUME Sane, Flows, NEW p \in Peers, NEW t, Basis(p, t), t.type = tm[p].type,
         NEW o, Goes(p, t, o), Commit(p, o, asked[p]), served' = served, done' = done
  PROVE  Refines
<1>0. tm' = [tm EXCEPT ![p] = o.tm] /\ tm[p].state # "gone"
  BY DEF Commit, Basis
<1>1. CASE o.asks = <<>>
  <2>1. asked' = asked
    BY <1>1, CommitAsks
  <2>2. CASE o.tm.state = "gone"
    BY <1>0, <2>1, <2>2, Closes, RefinesClose
  <2>3. CASE o.tm.state # "gone"
    BY <1>0, <2>1, <2>3, StaysOpen, RefinesStutter
  <2> QED BY <2>2, <2>3
<1>2. CASE o.asks # <<>>
  <2>1. PICK r \in Requests : o.asks = <<r>>
    BY <1>2 DEF Goes, AsksOnce
  <2>2. tm[p].type = "none" /\ o.tm.state # "gone"
    BY <1>2 DEF Goes, AsksOnce
  <2>3. Len(asked[p]) = Len(done[p])
    BY <1>0, <2>2 DEF Flows, Flow, Asker
  <2>4. asked' = [asked EXCEPT ![p] = Append(asked[p], r)]
    BY <2>1, CommitAsks
  <2>5. Open' = Open
    BY <1>0, <2>2, StaysOpen
  <2> QED BY <1>0, <2>3, <2>4, <2>5, RefinesAsk
<1> QED BY <1>1, <1>2

LEMMA RefinesQueueIke ==
  ASSUME Sane, Flows, QueueIke
  PROVE  Refines
<1>1. PICK t \in TM : \E o : /\ Requeued(tm[Ini], t) /\ tm[Ini].state = "created"
                             /\ Launched(Ini, t, o) /\ Commit(Ini, o, asked[Ini])
  BY QueueIkeGives
<1>2. PICK o : /\ Requeued(tm[Ini], t) /\ tm[Ini].state = "created"
               /\ Launched(Ini, t, o) /\ Commit(Ini, o, asked[Ini])
  BY <1>1
<1>3. Ini \in Peers /\ Basis(Ini, t) /\ t.type = tm[Ini].type
  BY <1>2, OtherPeer DEF Basis, Requeued, Moved
<1>4. Goes(Ini, t, o)
  BY <1>2, <1>3, LaunchedGoes
<1>5. served' = served /\ done' = done
  BY DEF QueueIke
<1> QED BY <1>2, <1>3, <1>4, <1>5, RefinesGoes

LEMMA RefinesQueueTask ==
  ASSUME Sane, Flows, NEW p \in Peers, NEW k \in waiting, QueueTask(p, k)
  PROVE  Refines
<1>1. PICK t \in TM : \E o : /\ Requeued(tm[p], t) /\ Sound(p, t) /\ t.state # "gone"
                             /\ Initiated(p, t, o) /\ Commit(p, o, asked[p])
  BY QueueTaskGives
<1>2. PICK o : /\ Requeued(tm[p], t) /\ Sound(p, t) /\ t.state # "gone"
               /\ Initiated(p, t, o) /\ Commit(p, o, asked[p])
  BY <1>1
<1>3. Basis(p, t) /\ t.type = tm[p].type
  BY <1>2 DEF Basis, Requeued, Moved
<1>4. Goes(p, t, o)
  BY <1>2, InitiatedGoes
<1>5. served' = served /\ done' = done
  BY DEF QueueTask
<1> QED BY <1>2, <1>3, <1>4, <1>5, RefinesGoes

LEMMA RefinesReinitiate ==
  ASSUME Sane, Flows, NEW p \in Peers, Reinitiate(p)
  PROVE  Refines
<1>1. PICK o : Initiated(p, tm[p], o) /\ Commit(p, o, asked[p])
  BY ReinitiateGives
<1>2. Basis(p, tm[p]) /\ Sound(p, tm[p]) /\ tm[p] \in TM
  BY SaneParts DEF Basis, Reinitiate, Gone
<1>3. Goes(p, tm[p], o)
  BY <1>1, <1>2, InitiatedGoes
<1>4. served' = served /\ done' = done
  BY DEF Reinitiate
<1> QED BY <1>1, <1>2, <1>3, <1>4, RefinesGoes

LEMMA RefinesRetransmitJob ==
  ASSUME Sane, Flows, NEW p \in Peers, NEW i \in 0..MaxMid, RetransmitJob(p, i)
  PROVE  Refines
<1>1. PICK t \in TM : \E o : /\ Sound(p, t) /\ t.state # "gone" /\ Same(tm[p], t)
                             /\ Repeated(t, o) /\ Commit(p, o, asked[p])
  BY RetransmitJobGives
<1>2. PICK o : /\ Sound(p, t) /\ t.state # "gone" /\ Same(tm[p], t)
               /\ Repeated(t, o) /\ Commit(p, o, asked[p])
  BY <1>1
<1>3. Basis(p, t) /\ t.type = tm[p].type
  BY <1>2 DEF Basis, Same
<1>4. Goes(p, t, o)
  BY <1>2, RepeatedGoes
<1>5. served' = served /\ done' = done
  BY DEF RetransmitJob
<1> QED BY <1>2, <1>3, <1>4, <1>5, RefinesGoes

LEMMA RefinesHalfOpenJob ==
  ASSUME Sane, NEW p \in Peers, HalfOpenJob(p)
  PROVE  Refines
<1>1. PICK t \in TM : /\ tm[p].state # "gone" /\ t.state = tm[p].state
                      /\ \/ tm' = [tm EXCEPT ![p] = Destroyed(t, "halfopen")]
                         \/ tm' = [tm EXCEPT ![p] = t]
  BY HalfOpenJobGives
<1>2. Destroyed(t, "halfopen").state = "gone"
  BY DestroyedGives DEF Whys
<1>3. asked' = asked /\ served' = served /\ done' = done
  BY DEF HalfOpenJob
<1>4. CASE tm' = [tm EXCEPT ![p] = Destroyed(t, "halfopen")]
  BY <1>1, <1>2, <1>3, <1>4, Closes, RefinesClose
<1>5. CASE tm' = [tm EXCEPT ![p] = t]
  BY <1>1, <1>3, <1>5, StaysOpen, RefinesStutter
<1> QED BY <1>1, <1>4, <1>5

LEMMA RefinesProcessRequest ==
  ASSUME Sane, Flows, NEW p \in Peers, NEW m \in net, ProcessRequest(p, m)
  PROVE  Refines
<1>0. asked' = asked /\ done' = done /\ tm[p].state # "gone"
  BY DEF ProcessRequest, Arrived, Gone
<1>1. ASSUME NEW x, NEW b, Served(p, m, x, b), tm' = [tm EXCEPT ![p] = x],
             net' = net \cup {b}, served' = [served EXCEPT ![p] = Append(@, m.req)]
      PROVE  Refines
  <2>1. PICK q : q = Other[p]
    OBVIOUS
  <2>2. NextServed(p, q, m, x, b)
    BY <1>1, <2>1, ServesNext DEF ServesWith
  <2>3. PICK r : r = m.req
    OBVIOUS
  <2>4. Len(served[p]) < Len(asked[q]) /\ r = asked[q][Len(served[p]) + 1]
    BY <2>2, <2>3 DEF NextServed
  <2>5. served' = [served EXCEPT ![p] = Append(served[p], r)]
    BY <1>1, <2>3
  <2>6. Open' = Open \/ Open' = [Open EXCEPT ![p] = FALSE]
    <3>1. CASE x.state = "gone"
      BY <1>1, <3>1, Closes
    <3>2. CASE x.state # "gone"
      BY <1>0, <1>1, <3>2, StaysOpen
    <3> QED BY <3>1, <3>2
  <2> QED BY <1>0, <2>1, <2>4, <2>5, <2>6, RefinesServe
<1>2. CASE /\ tm' = [tm EXCEPT ![p] = Destroyed(tm[p], "failed")]
           /\ net' = net /\ served' = served
  <2>1. Destroyed(tm[p], "failed").state = "gone"
    BY SaneParts, DestroyedGives DEF Whys
  <2> QED BY <1>0, <1>2, <2>1, Closes, RefinesClose
<1> QED BY <1>1, <1>2, ProcessRequestGives

LEMMA RefinesProcessResponse ==
  ASSUME Sane, Flows, NEW p \in Peers, NEW m \in net, ProcessResponse(p, m)
  PROVE  Refines
<1>1. PICK q : q = Other[p]
  OBVIOUS
<1>2. PICK r : r = m.req
  OBVIOUS
<1>3. /\ served' = served /\ done' = [done EXCEPT ![p] = Append(done[p], r)]
      /\ tm[p].state # "gone"
  BY <1>2 DEF ProcessResponse, Gone
<1>4. ASSUME NEW x, Finished(tm[p], x)
      PROVE  /\ Len(done[p]) < Len(asked[p]) /\ Len(done[p]) < Len(served[q])
             /\ r = served[q][Len(done[p]) + 1]
  <2>1. NextDone(p, q, m, x)
    BY <1>1, <1>4, ConcludesNext
  <2> QED BY <1>2, <2>1 DEF NextDone
<1>5. ASSUME NEW w \in {"deleted", "failed"},
             Commit(p, Outcome(Destroyed(tm[p], w), {}, <<>>), asked[p])
      PROVE  Refines
  <2>1. PICK x : x = Destroyed(tm[p], w)
    OBVIOUS
  <2>2. x.state = "gone" /\ Finished(tm[p], x)
    BY <2>1, SaneParts, DestroyedGives DEF Whys, Finished
  <2>3. PICK o : o = Outcome(x, {}, <<>>)
    OBVIOUS
  <2>4. o.tm = x /\ o.asks = <<>>
    BY <2>3 DEF Outcome
  <2>5. Commit(p, o, asked[p])
    BY <1>5, <2>1, <2>3
  <2>6. asked' = asked /\ tm' = [tm EXCEPT ![p] = x]
    BY <2>4, <2>5, CommitAsks DEF Commit
  <2>7. Open' = [Open EXCEPT ![p] = FALSE]
    BY <2>2, <2>6, Closes
  <2> QED BY <1>1, <1>3, <1>4, <2>2, <2>6, <2>7, RefinesConclude
<1>6. ASSUME NEW x \in TM, NEW o, Over(p, x), Initiated(p, x, o), Commit(p, o, asked[p])
      PROVE  Refines
  <2>1. Sound(p, x) /\ Finished(tm[p], x)
    BY <1>6 DEF Over, Finished
  <2>2. Goes(p, x, o)
    BY <1>6, <2>1, InitiatedGoes
  <2>3. tm' = [tm EXCEPT ![p] = o.tm]
    BY <1>6 DEF Commit
  <2>4. CASE o.asks = <<>>
    <3>1. asked' = asked
      BY <1>6, <2>4, CommitAsks
    <3>2. Open' = Open \/ Open' = [Open EXCEPT ![p] = FALSE]
      BY <1>3, <2>3, StaysOpen, Closes
    <3> QED BY <1>1, <1>3, <1>4, <2>1, <3>1, <3>2, RefinesConclude
  <2>5. CASE o.asks # <<>>
    <3>1. o.tm.state # "gone" /\ \E z \in Requests : o.asks = <<z>>
      BY <2>2, <2>5 DEF Goes, AsksOnce
    <3>2. PICK z \in Requests : o.asks = <<z>>
      BY <3>1
    <3>3. asked' = [asked EXCEPT ![p] = Append(asked[p], z)]
      BY <1>6, <3>2, CommitAsks
    <3>4. Exchanges!Sends(p)
      BY <3>3, RefinesSends DEF Sane
    <3>5. Open' = Open
      BY <1>3, <2>3, <3>1, StaysOpen
    <3> QED BY <1>1, <1>3, <1>4, <2>1, <3>4, <3>5, RefinesConclude
  <2> QED BY <2>4, <2>5
<1> QED BY <1>5, <1>6, ProcessResponseGives

LEMMA RefinesProcessCookie ==
  ASSUME Sane, Flows, NEW p \in Peers, NEW m \in net, ProcessCookie(p, m)
  PROVE  Refines
<1>1. PICK q : q = Other[p]
  OBVIOUS
<1>2. served' = served /\ done' = done /\ tm[p].state # "gone"
  BY DEF ProcessCookie, Gone
<1>3. ASSUME NEW o, Fails(p, o), Commit(p, o, asked[p]) PROVE Refines
  <2>1. tm' = [tm EXCEPT ![p] = o.tm] /\ o.tm.state = "gone" /\ asked' = asked
    BY <1>3, CommitAsks DEF Fails, Commit
  <2> QED BY <1>2, <2>1, Closes, RefinesClose
<1>4. ASSUME NEW o, NEW x \in TM, NEW r, StartsOver(p, q, x, o, r), o.asks = <<r>>,
             Commit(p, o, <<>>)
      PROVE  Refines
  <2>1. /\ r \in Requests /\ done[p] = <<>> /\ served[q] \in {<<>>, <<r>>} /\ Same(x, o.tm)
        /\ x.state = "connecting"
    BY <1>4 DEF StartsOver, Restarts
  <2>2. tm' = [tm EXCEPT ![p] = o.tm] /\ o.tm.state # "gone"
    BY <1>4, <2>1 DEF Commit, Same
  <2>3. Open' = Open
    BY <1>2, <2>2, StaysOpen
  <2>4. asked' = [asked EXCEPT ![p] = <<>> \o <<r>>]
    BY <1>4 DEF Commit
  <2>5. asked' = [asked EXCEPT ![p] = <<r>>]
    BY <2>1, <2>4
  <2> QED BY <1>1, <1>2, <2>1, <2>3, <2>5, RefinesRestart
<1> QED BY <1>1, <1>3, <1>4, CookieStartsOver

LEMMA RefinesNext ==
  ASSUME Garbled = {}, Sane, Flows, [Next]_vars
  PROVE  Refines
<1>1. ASSUME NEW p \in Peers, NEW m \in net, DemandCookie(p, m) \/ RepeatResponse(p, m)
      PROVE  Refines
  <2>1. tm' = tm /\ asked' = asked /\ served' = served /\ done' = done
    BY <1>1 DEF DemandCookie, RepeatResponse
  <2>2. Open' = Open
    BY <2>1 DEF Open, Gone
  <2> QED BY <2>1, <2>2, RefinesStutter
<1>2. ASSUME NEW p \in Peers, NEW m \in net,
             \/ DemandCookie(p, m) \/ RefuseRequest(p, m) \/ ProcessRequest(p, m)
             \/ RepeatResponse(p, m) \/ Mismatch(p, m) \/ ProcessResponse(p, m)
             \/ ProcessCookie(p, m)
      PROVE  Refines
  <2>1. ~RefuseRequest(p, m)
    BY DEF RefuseRequest
  <2>2. ~Mismatch(p, m)
    BY FlowsMismatch
  <2> QED BY <1>1, <1>2, <2>1, <2>2, RefinesProcessRequest, RefinesProcessResponse,
             RefinesProcessCookie
<1>3. CASE UNCHANGED vars
  <2>1. asked' = asked /\ served' = served /\ done' = done /\ Open' = Open
    BY <1>3 DEF vars, Open, Gone
  <2> QED BY <2>1, RefinesStutter
<1> QED BY <1>2, <1>3, RefinesQueueIke, RefinesReinitiate, RefinesHalfOpenJob,
           RefinesQueueTask, RefinesRetransmitJob DEF Next

\* When no request is refused, message IDs, stored responses and retransmissions
\* give the tasks the exchanges of Exchange: each request is served at most once
\* and in order, and is concluded with the answer to it, even if the initiator
\* starts over with a cookie.
THEOREM ExchangesImplemented == ASSUME Garbled = {} PROVE Spec => ImplementsExchange
<1>1. Sane /\ Init => Exchanges!Init
  <2> SUFFICES ASSUME Init PROVE Exchanges!Init
    OBVIOUS
  <2>1. ASSUME NEW p \in Peers PROVE tm[p].state # "gone"
    <3>1. \/ tm[p] = Fresh
          \/ tm[p] = [Fresh EXCEPT !.state = "established", !.mid = 2]
          \/ tm[p] = [Fresh EXCEPT !.state = "established", !.rmid = 2]
      BY DEF Init
    <3>2. CASE tm[p] = Fresh
      BY <3>2 DEF Fresh
    <3>3. CASE tm[p] = [Fresh EXCEPT !.state = "established", !.mid = 2]
      BY <3>3 DEF Fresh
    <3>4. CASE tm[p] = [Fresh EXCEPT !.state = "established", !.rmid = 2]
      BY <3>4 DEF Fresh
    <3> QED BY <3>1, <3>2, <3>3, <3>4
  <2> QED BY <2>1 DEF Exchanges!Init, Init, Gone
<1>2. Sane /\ Flows /\ [Next]_vars => [Exchanges!Next]_(Exchanges!vars)
  BY RefinesNext DEF Refines
<1> QED BY SaneInit, FlowsAlways, <1>1, <1>2, PTL DEF Spec, ImplementsExchange, Exchanges!Spec
=============================================================================
