---------------------------- MODULE TaskManager -----------------------------
(***************************************************************************)
(* The IKEv2 task manager (libcharon/sa/ikev2/task_manager_v2.c) of the two *)
(* ends of one IKE_SA, and the packets between them.                        *)
(*                                                                          *)
(* A task manager queues tasks, activates one exchange at a time, sends its *)
(* request, retransmits it until the response arrives or it gives up, and   *)
(* answers the requests of its peer by message ID, repeating the stored     *)
(* response when a request is repeated.  The network loses, repeats, delays *)
(* and reorders packets.                                                    *)
(*                                                                          *)
(* Every handler runs on a checked out IKE_SA, and the manager hands an SA  *)
(* to one thread at a time (ExclusiveCheckout in IkeSaManagerProofs), so    *)
(* each handler is one action here.                                         *)
(*                                                                          *)
(* Left out: the payloads of the messages (an answer says only what the     *)
(* tasks make of it), fragments, addresses, the delays of delayed tasks,    *)
(* path probing, a second keying try of an SA that is being set up or one   *)
(* with another DH group, a task that withdraws its request while building  *)
(* it (initiate() then looks for another), and the states IKE_REKEYING and  *)
(* IKE_REKEYED, which IkeRekey models.                                      *)
(***************************************************************************)
EXTENDS Naturals, Sequences, FiniteSets, SequencesExt

CONSTANTS
  Ini, Rsp,       \* the original initiator and responder of the IKE_SA
  Work,           \* the tasks the application queues, each at most once
  Garbled,        \* those whose request the peer fails to parse
  Tries,          \* retransmit_tries
  MaxRetries,     \* MAX_RETRIES of ike_init.c
  Cookies,        \* the responder is under load and asks for cookies
  Setup,          \* start with the SA to be set up, not with an established one
  Failures,       \* tasks may fail
  MaxMid,         \* bound: the largest message ID
  MaxMore,        \* bound: from this message ID on no task needs a repetition
  MaxOutages      \* bound: how often a peer finds no route

Peers == {Ini, Rsp}
Other == [p \in Peers |-> IF p = Ini THEN Rsp ELSE Ini]

Kinds == {"IKE_INIT", "IKE_AUTH", "IKE_MOBIKE", "IKE_DELETE", "CHILD_CREATE",
          "IKE_DPD"}
TaskType == [owner : Peers, kind : Kinds, n : Nat]
Types == {"IKE_SA_INIT", "IKE_AUTH", "CREATE_CHILD_SA", "INFORMATIONAL"}
Answers == {"ok", "more", "cookie", "refused", "failed"}

ASSUME PeersAssumption == Ini # Rsp
ASSUME WorkAssumption ==
  /\ Work \subseteq TaskType /\ IsFiniteSet(Work)
  /\ \A t \in Work : t.kind \notin {"IKE_INIT", "IKE_AUTH"}
  /\ Garbled \subseteq Work
ASSUME BoundsAssumption ==
  /\ {Tries, MaxRetries, MaxMid, MaxMore, MaxOutages} \subseteq Nat
  /\ MaxMid >= MaxMore + Cardinality(Work) + 3
  /\ {Cookies, Setup, Failures} \subseteq BOOLEAN

\* The tasks of queue_ike() that carry the two initial exchanges; the others
\* ride along with them.
InitTask == [owner |-> Ini, kind |-> "IKE_INIT", n |-> 0]
AuthTask == [owner |-> Ini, kind |-> "IKE_AUTH", n |-> 0]
Tasks == Work \cup {InitTask, AuthTask}

\* What is asked; a repeated IKE_SA_INIT asks the same, as ike_init keeps its
\* nonce and its DH value.
Requests == [mid : 0..MaxMid, type : Types, task : Tasks, cookie : BOOLEAN]
Messages == [to : Peers, mid : 0..MaxMid, type : Types, req : Requests,
             is : {"request"} \cup Answers]
None == [is |-> "nothing"]

VARIABLES
  tm,       \* tm[p]: the task manager of p and the IKE_SA it serves
  net,      \* every packet sent: it may arrive at any time, any number of
            \* times, or never
  waiting,  \* the tasks the application has not queued yet
  asked, served, done   \* the history of the exchanges, as in Exchange

vars == <<tm, net, waiting, asked, served, done>>

\* private_task_manager_t and the state of the IKE_SA.  jobs[m] counts the
\* retransmit jobs scheduled for message ID m, halfopen tells that the job that
\* closes an incomplete SA is, and why tells why the SA is gone.
Fresh == [state |-> "created", why |-> "open", queued |-> <<>>,
          active |-> <<>>, mid |-> 0, type |-> "none", retransmitted |-> 0,
          packet |-> None, deferred |-> FALSE, jobs |-> [m \in 0..MaxMid |-> 0],
          retry |-> 0, outages |-> 0, halfopen |-> FALSE, rmid |-> 0, rpacket |-> None]

Init ==
  /\ tm = [p \in Peers |->
            CASE Setup -> Fresh
              [] ~Setup /\ p = Ini -> [Fresh EXCEPT !.state = "established",
                                                    !.mid = 2]
              [] OTHER -> [Fresh EXCEPT !.state = "established", !.rmid = 2]]
  /\ net = {}
  /\ waiting = Work
  /\ asked = [p \in Peers |-> <<>>]
  /\ served = [p \in Peers |-> <<>>]
  /\ done = [p \in Peers |-> <<>>]

Gone(p) == tm[p].state = "gone"

(***************************************************************************)
(* Sending.  An operator takes the task manager t it starts from and gives  *)
(* the set of its outcomes: the task manager it leaves, the packets it      *)
(* sends and the requests it asks.                                          *)
(***************************************************************************)
Outcome(t, packets, requests) ==
  [tm |-> t, sent |-> packets, asks |-> requests]

\* DESTROY_ME: flush() the queues; the IKE_SA is checked in and destroyed.
Destroyed(t, reason) ==
  [t EXCEPT !.state = "gone", !.why = reason, !.queued = <<>>, !.active = <<>>,
            !.type = "none", !.packet = None, !.rpacket = None]

IsMobike(t) ==
  t.type = "INFORMATIONAL" /\ \E i \in 1..Len(t.active) : t.active[i].kind = "IKE_MOBIKE"

\* Mutant: one more transmission than the tries allow.
GivesUpLate(t) == t.retransmitted > Tries + 1

GivesUp(t) == t.retransmitted > Tries

\* Mutant: the transmission is not counted.
TransmittedUncounted(t) == [t EXCEPT !.jobs[t.mid] = @ + 1]

\* The packet is sent and the job that repeats it is scheduled.
Transmitted(t) ==
  [t EXCEPT !.retransmitted = @ + 1, !.jobs[t.mid] = @ + 1]

\* retransmit() for the current message ID, the first transmission included.
\* An update without a route is deferred, with no job to come back to it.
retransmit(t) ==
  IF t.packet = None
  THEN {Outcome(t, {}, <<>>)}
  ELSE IF GivesUp(t)
  THEN {Outcome(Destroyed(t, "timeout"), {}, <<>>)}
  ELSE {Outcome(Transmitted(t), {t.packet}, <<>>)}
       \cup {Outcome([t EXCEPT !.deferred = TRUE, !.outages = @ + 1], {}, <<>>) :
               x \in {y \in {0} : IsMobike(t) /\ t.outages < MaxOutages}}

\* The order in which initiate() looks for work on an established SA.
Priority == <<"IKE_MOBIKE", "IKE_DELETE", "CHILD_CREATE", "IKE_DPD">>

Kind(q) == {q[i].kind : i \in 1..Len(q)}

\* activate_task(): the first queued task of the kind becomes active.
activate_task(t, kind) ==
  IF kind \notin Kind(t.queued) THEN t
  ELSE LET i == CHOOSE i \in 1..Len(t.queued) :
                  /\ t.queued[i].kind = kind
                  /\ \A j \in 1..(i - 1) : t.queued[j].kind # kind
       IN [t EXCEPT !.active = Append(@, t.queued[i]), !.queued = RemoveAt(@, i)]

\* The activate_task() calls of initiate().  What is queued before a new attempt
\* to set up the SA rides along with it.
Activated(t) ==
  LET ready == {i \in 1..Len(Priority) : Priority[i] \in Kind(t.queued)} IN
  CASE t.active = <<>> /\ t.state = "created" /\ "IKE_INIT" \in Kind(t.queued) ->
         activate_task(activate_task(activate_task(
           activate_task(t, "IKE_INIT"), "IKE_AUTH"), "CHILD_CREATE"), "IKE_MOBIKE")
    [] t.active = <<>> /\ t.state = "established" /\ ready # {} ->
         activate_task(t, Priority[Min(ready)])
    [] OTHER -> t

\* The exchange type of freshly activated tasks, or of active ones that need
\* another exchange.
ExchangeOf(fresh, active) ==
  LET has(k) == k \in Kind(active) IN
  IF has("IKE_INIT") THEN "IKE_SA_INIT"
  ELSE IF has("IKE_AUTH") THEN "IKE_AUTH"
  ELSE IF has("CHILD_CREATE") THEN "CREATE_CHILD_SA"
  ELSE IF has("IKE_MOBIKE") \/ (fresh /\ (has("IKE_DELETE") \/ has("IKE_DPD")))
  THEN "INFORMATIONAL" ELSE "none"

\* Mutant: every initiate() repeats the request in progress.
ResumesAlways(t) == TRUE

\* Only a deferred exchange is taken up again while it is in progress.
Resumes(t) == t.deferred

\* initiate(): one exchange at a time.  The tasks build their payloads into
\* the request, which may fail: ike_init gives up after MaxRetries.  ike_delete
\* sets the state.
initiate(p, t) ==
  IF t.type # "none"
  THEN IF Resumes(t)
       THEN retransmit([t EXCEPT !.deferred = FALSE, !.retransmitted = 0])
       ELSE {Outcome(t, {}, <<>>)}
  ELSE LET a == Activated(t)
           act == a.active
           typ == ExchangeOf(t.active = <<>>, act)
           mid == IF typ = "IKE_SA_INIT" THEN 0 ELSE t.mid
           req == [mid |-> mid, type |-> typ, task |-> Head(act),
                   cookie |-> typ = "IKE_SA_INIT" /\ t.retry > 0]
           pkt == [to |-> Other[p], mid |-> mid, type |-> typ, req |-> req,
                   is |-> "request"]
           st == IF typ = "IKE_SA_INIT" THEN "connecting"
                 ELSE IF Head(act).kind = "IKE_DELETE" THEN "deleting" ELSE t.state
           spent == typ = "IKE_SA_INIT" /\ t.retry >= MaxRetries
           failed == {Outcome(Destroyed(t, "failed"), {}, <<>>)}
           sent == {[o EXCEPT !.asks = IF o.tm.state = "gone" THEN <<>>
                                       ELSE <<req>>] :
                      o \in retransmit([a EXCEPT !.mid = mid, !.type = typ,
                                                 !.retransmitted = 0,
                                                 !.deferred = FALSE,
                                                 !.state = st, !.packet = pkt])}
       IN IF typ = "none"
          THEN {Outcome(a, {}, <<>>)}
          ELSE IF spent THEN failed ELSE IF Failures THEN failed \cup sent ELSE sent

\* p ends its handler with outcome o, which adds to the requests in past.
Commit(p, o, past) ==
  /\ tm' = [tm EXCEPT ![p] = o.tm]
  /\ net' = net \cup o.sent
  /\ asked' = [asked EXCEPT ![p] = past \o o.asks]

(***************************************************************************)
(* The application and the scheduler.                                       *)
(***************************************************************************)
\* queue_task() and initiate(), the way ike_sa_t uses them.  There is no need
\* for a second MOBIKE task in the queue.  A responder that is being set up is
\* not handed any.
QueueTask(p, k) ==
  /\ ~Gone(p) /\ k \in waiting /\ k.owner = p
  /\ tm[p].state # "created" /\ (p = Ini \/ tm[p].state # "connecting")
  /\ waiting' = waiting \ {k}
  /\ LET dup == k.kind = "IKE_MOBIKE" /\ "IKE_MOBIKE" \in Kind(tm[p].queued)
         t == [tm[p] EXCEPT !.queued = IF dup THEN @ ELSE Append(@, k)]
     IN \E o \in initiate(p, t) : Commit(p, o, asked[p])
  /\ UNCHANGED <<served, done>>

\* ike_sa_t.initiate() on a new SA: queue_ike() and initiate().
QueueIke ==
  /\ tm[Ini].state = "created"
  /\ \E o \in initiate(Ini, [tm[Ini] EXCEPT !.queued = <<InitTask, AuthTask>>]) :
       Commit(Ini, o, asked[Ini])
  /\ UNCHANGED <<waiting, served, done>>

\* initiate_tasks_job, a roam event or a DPD check: initiate() again.
Reinitiate(p) ==
  /\ ~Gone(p)
  /\ \E o \in initiate(p, tm[p]) : Commit(p, o, asked[p])
  /\ UNCHANGED <<waiting, served, done>>

\* A retransmit job becomes due.  It does nothing once its exchange is over.
RetransmitJob(p, m) ==
  /\ ~Gone(p) /\ tm[p].jobs[m] > 0
  /\ LET t == [tm[p] EXCEPT !.jobs[m] = @ - 1]
     IN \E o \in IF m = t.mid THEN retransmit(t) ELSE {Outcome(t, {}, <<>>)} :
          Commit(p, o, asked[p])
  /\ UNCHANGED <<waiting, served, done>>

\* The delete job scheduled with the first message of a new SA.
HalfOpenJob(p) ==
  /\ ~Gone(p) /\ tm[p].halfopen
  /\ LET t == [tm[p] EXCEPT !.halfopen = FALSE]
     IN tm' = [tm EXCEPT ![p] = IF t.state = "connecting"
                                THEN Destroyed(t, "halfopen") ELSE t]
  /\ UNCHANGED <<net, waiting, asked, served, done>>

(***************************************************************************)
(* Requests of the peer.                                                    *)
(***************************************************************************)
Answer(m, mid, is) ==
  [to |-> Other[m.to], mid |-> mid, type |-> m.type, req |-> m.req, is |-> is]

\* The receiver asks for a cookie before any SA is looked up or created.
DemandCookie(p, m) ==
  /\ m \in net /\ m.to = p /\ m.is = "request"
  /\ Cookies /\ m.type = "IKE_SA_INIT" /\ ~m.req.cookie
  /\ net' = net \cup {Answer(m, m.mid, "cookie")}
  /\ UNCHANGED <<tm, waiting, asked, served, done>>

\* A request that reaches the SA: one with a cookie if cookies are asked for.
Arrived(p, m) ==
  /\ ~Gone(p) /\ m \in net /\ m.to = p /\ m.is = "request"
  /\ Cookies /\ m.type = "IKE_SA_INIT" => m.req.cookie

\* parse_message() fails: a notify is sent back and incr_mid() counts the
\* request, whatever its message ID was.
RefuseRequest(p, m) ==
  /\ Arrived(p, m) /\ m.req.task \in Garbled
  /\ tm[p].rmid < MaxMid
  /\ tm' = [tm EXCEPT ![p].rmid = @ + 1]
  /\ net' = net \cup {Answer(m, m.mid, "refused")}
  /\ served' = IF m.mid = tm[p].rmid
               THEN [served EXCEPT ![p] = Append(@, m.req)] ELSE served
  /\ UNCHANGED <<waiting, asked, done>>

\* What the passive tasks make of a request: the state after it, and whether
\* the exchange has to be repeated.  A DELETE closes the SA once answered, and
\* so does a failure of the tasks that set it up.
Reactions(m) ==
  CASE m.type = "IKE_SA_INIT" -> {[is |-> "ok", state |-> "connecting"],
                                  [is |-> "failed", state |-> "gone"]}
    [] m.type = "IKE_AUTH" -> {[is |-> "ok", state |-> "established"],
                               [is |-> "more", state |-> "connecting"],
                               [is |-> "failed", state |-> "gone"]}
    [] m.type = "CREATE_CHILD_SA" -> {[is |-> "ok", state |-> "same"],
                                      [is |-> "more", state |-> "same"]}
    [] m.type = "INFORMATIONAL" /\ m.req.task.kind = "IKE_DELETE" ->
         {[is |-> "ok", state |-> "gone"]}
    [] OTHER -> {[is |-> "ok", state |-> "same"]}

\* Initial messages are only taken in the state that expects them.
Expected(t, m) ==
  /\ m.type = "IKE_SA_INIT" => t.state = "created"
  /\ m.type = "IKE_AUTH" => t.state = "connecting"

\* process_request() rejects a CREATE_CHILD_SA of an SA that is not established.
Rejected(t, m) ==
  m.type = "CREATE_CHILD_SA" /\ t.state \in {"created", "connecting"}

\* Mutant: a repeated request is processed again.
InOrderOrBefore(t, m) == m.mid <= t.rmid

\* The request with the message ID of the next exchange.
InOrder(t, m) == m.mid = t.rmid

\* Mutant: the response of the first exchange stays stored.
RespondedStale(t, a, st) ==
  [t EXCEPT !.rmid = @ + 1, !.rpacket = IF @ = None THEN a ELSE @,
            !.state = st]

\* Mutant: only initial exchanges are counted.
RespondedUncounted(t, a, st) ==
  [t EXCEPT !.rmid = IF a.type = "CREATE_CHILD_SA" THEN @ ELSE @ + 1,
            !.rpacket = a, !.state = st]

\* build_response() stores the response and process_message() counts it.
Responded(t, a, st) ==
  [t EXCEPT !.rmid = @ + 1, !.rpacket = a, !.state = st,
            !.halfopen = @ \/ a.type = "IKE_SA_INIT"]

\* process_message() for a request with the expected message ID: the tasks
\* process it and build_response() stores and sends the response.  The SA is
\* closed without one if the tasks fail to process it.
ProcessRequest(p, m) ==
  LET t == tm[p] IN
  /\ Arrived(p, m) /\ m.req.task \notin Garbled
  /\ InOrder(t, m) /\ Expected(t, m) /\ t.rmid < MaxMid
  /\ \/ ~Rejected(t, m) /\ \E r \in Reactions(m) :
          /\ (r.is = "more" => m.mid < MaxMore) /\ (r.is = "failed" => Failures)
          /\ LET a == Answer(m, t.rmid, r.is)
                 s == IF r.state = "same" THEN t.state ELSE r.state
             IN /\ tm' = [tm EXCEPT ![p] =
                             IF r.is = "failed" THEN Destroyed(t, "failed")
                             ELSE IF r.state = "gone" THEN Destroyed(t, "deleted")
                             ELSE Responded(t, a, s)]
                /\ net' = net \cup {a}
          /\ served' = [served EXCEPT ![p] = Append(@, m.req)]
     \/ /\ Failures \/ Rejected(t, m)
        /\ tm' = [tm EXCEPT ![p] = Destroyed(t, "failed")]
        /\ UNCHANGED <<net, served>>
  /\ UNCHANGED <<waiting, asked, done>>

\* process_message() for the request before: the stored response again.
RepeatResponse(p, m) ==
  /\ Arrived(p, m) /\ m.req.task \notin Garbled
  /\ m.mid + 1 = tm[p].rmid /\ tm[p].rpacket # None
  /\ net' = net \cup {tm[p].rpacket}
  /\ UNCHANGED <<tm, waiting, asked, served, done>>

(***************************************************************************)
(* Responses of the peer.                                                   *)
(***************************************************************************)
\* The response of another exchange than the one in progress: DESTROY_ME.
Mismatch(p, m) ==
  /\ ~Gone(p) /\ m \in net /\ m.to = p /\ m.is # "request"
  /\ m.mid = tm[p].mid /\ m.type # tm[p].type
  /\ tm' = [tm EXCEPT ![p] = Destroyed(tm[p], "mismatch")]
  /\ UNCHANGED <<net, waiting, asked, served, done>>

\* Mutant: the message ID is not advanced.
ConcludedSameMid(t, left, st) ==
  [t EXCEPT !.active = left, !.state = st, !.type = "none", !.packet = None]

\* The exchange is over: the next one has the next message ID.
Concluded(t, left, st) ==
  [t EXCEPT !.active = left, !.state = st, !.mid = @ + 1, !.type = "none",
            !.packet = None]

\* process_response(): the active tasks process the response; those that need
\* another exchange stay active.  Then the next exchange is initiated.
ProcessResponse(p, m) ==
  LET t == tm[p] IN
  /\ ~Gone(p) /\ m \in net /\ m.to = p /\ m.is \notin {"request", "cookie"}
  /\ m.mid = t.mid /\ m.type = t.type /\ t.mid < MaxMid
  /\ LET left == CASE m.is = "more" -> t.active
                   [] m.is # "more" /\ t.type = "IKE_SA_INIT" -> Tail(t.active)
                   [] OTHER -> <<>>
         st == IF m.type = "IKE_AUTH" /\ m.is = "ok" THEN "established"
               ELSE t.state
     IN \/ /\ t.state = "deleting"
           /\ Commit(p, Outcome(Destroyed(t, "deleted"), {}, <<>>), asked[p])
        \/ /\ t.state # "deleting" /\ m.is # "failed"
           /\ \E o \in initiate(p, Concluded(t, left, st)) :
                Commit(p, o, asked[p])
        \/ /\ Failures \/ m.is = "failed"
           /\ Commit(p, Outcome(Destroyed(t, "failed"), {}, <<>>), asked[p])
  /\ done' = [done EXCEPT ![p] = Append(@, m.req)]
  /\ UNCHANGED <<waiting, served>>

\* A COOKIE makes ike_init reset the IKE_SA: reset() puts the active tasks back
\* in front of the queue and starts all over again at message ID 0.  The
\* retransmit job of the first attempt stays scheduled.
ProcessCookie(p, m) ==
  LET t == tm[p] IN
  /\ ~Gone(p) /\ m \in net /\ m.to = p /\ m.is = "cookie"
  /\ m.mid = t.mid /\ m.type = t.type
  /\ LET u == [t EXCEPT !.state = "created", !.retry = @ + 1,
                        !.queued = t.active \o @, !.active = <<>>,
                        !.mid = 0, !.rmid = 0, !.type = "none",
                        !.packet = None, !.rpacket = None]
     IN \E o \in initiate(p, u) :
          Commit(p, o, IF o.asks = <<>> THEN asked[p] ELSE <<>>)
  /\ UNCHANGED <<waiting, served, done>>

Next ==
  \/ QueueIke
  \/ \E p \in Peers :
       \/ Reinitiate(p) \/ HalfOpenJob(p)
       \/ \E k \in waiting : QueueTask(p, k)
       \/ \E i \in 0..MaxMid : RetransmitJob(p, i)
       \/ \E m \in net : \/ DemandCookie(p, m)
                         \/ RefuseRequest(p, m)
                         \/ ProcessRequest(p, m)
                         \/ RepeatResponse(p, m)
                         \/ Mismatch(p, m)
                         \/ ProcessResponse(p, m)
                         \/ ProcessCookie(p, m)

\* The scheduler runs every due job, and a peer without a route is told when
\* there is one again.  Nothing is assumed of the network.
Fairness ==
  \A p \in Peers : /\ WF_vars(\E i \in 0..MaxMid : RetransmitJob(p, i))
                   /\ WF_vars(Reinitiate(p) /\ tm[p].deferred)
                   /\ WF_vars(HalfOpenJob(p))

Spec == Init /\ [][Next]_vars /\ Fairness

-----------------------------------------------------------------------------
TypeOK ==
  /\ \A p \in Peers :
       LET t == tm[p] IN
       /\ t.state \in {"created", "connecting", "established", "deleting", "gone"}
       /\ t.why \in {"open", "timeout", "halfopen", "failed", "deleted",
                     "mismatch"}
       /\ t.queued \in Seq(Tasks) /\ t.active \in Seq(Tasks)
       /\ t.mid \in 0..MaxMid /\ t.rmid \in 0..MaxMid
       /\ t.type \in Types \cup {"none"} /\ t.deferred \in BOOLEAN
       /\ t.retransmitted \in 0..(Tries + 1) /\ t.retry \in 0..MaxRetries
       /\ t.packet \in Messages \cup {None} /\ t.rpacket \in Messages \cup {None}
       /\ t.jobs \in [0..MaxMid -> Nat] /\ t.outages \in 0..MaxOutages
       /\ t.halfopen \in BOOLEAN
  /\ net \subseteq Messages /\ waiting \subseteq Work
  /\ {asked, served, done} \subseteq [Peers -> Seq(Requests)]

Outstanding(p) == Len(asked[p]) > Len(done[p])

\* A peer that has served the outstanding request of the other still has the
\* very response stored, under the message ID the repeated request carries:
\* a lost response is recovered by the next retransmission.
AnswerKept ==
  \A p \in Peers :
    LET q == Other[p]
        r == asked[p][Len(asked[p])]
    IN (/\ ~Gone(p) /\ ~Gone(q) /\ Outstanding(p)
        /\ Len(served[q]) = Len(asked[p]) /\ r.task \notin Garbled)
       => /\ tm[q].rpacket # None /\ tm[q].rpacket.req = r
          /\ tm[q].rmid = tm[p].mid + 1

\* The responder expects the message ID of the request the initiator has
\* outstanding or will send next, or has just served it.
MidsInStep ==
  \A p \in Peers :
    ~Gone(p) /\ ~Gone(Other[p])
      => \/ tm[Other[p]].rmid = tm[p].mid
         \/ tm[Other[p]].rmid = tm[p].mid + 1 /\ Outstanding(p)

\* No SA is closed because a response of another exchange carries the message
\* ID of the current one.
NoMismatch == \A p \in Peers : tm[p].why # "mismatch"

\* A peer gives up only after the timeout of the last transmission: no further
\* retransmit job of that exchange is scheduled.
NoEarlyGiveUp ==
  \A p \in Peers : tm[p].why = "timeout" => tm[p].jobs[tm[p].mid] = 0

Exchanges == INSTANCE Exchange WITH open <- [p \in Peers |-> ~Gone(p)]
ImplementsExchange == Exchanges!Spec

Pending(k) == \E p \in Peers : Contains(tm[p].queued \o tm[p].active, k)

\* A queued task comes to an end, whatever the network does: it completes or
\* its SA is closed.
TasksEnd == \A k \in Tasks : Pending(k) ~> ~Pending(k)
=============================================================================
