------------------------------ MODULE IkeRekey ------------------------------
(***************************************************************************)
(* Rekeying and deleting IKE_SAs: the tasks ike_rekey_t and ike_delete_t    *)
(* (libcharon/sa/ikev2/tasks), the way the task managers of two peers drive *)
(* them, and the jobs behind them.                                          *)
(*                                                                          *)
(* Either peer may rekey or delete an IKE_SA at any time, so two rekeyings  *)
(* of the same IKE_SA may collide, noticed by both peers, by one or by      *)
(* none, and each may collide with a delete.                                *)
(*                                                                          *)
(* A request is processed at most once and its answer reaches the exchange  *)
(* that asked, which is what Exchange promises and TaskManager implements;  *)
(* requests and responses of different exchanges overtake each other.  Each *)
(* handler runs on checked out IKE_SAs and is one action.                   *)
(*                                                                          *)
(* Left out: the reauthentication that ike_rekey starts when the peer sends *)
(* NO_ADDITIONAL_SAS, and reestablish(), by which ike_delete sets up a new  *)
(* IKE_SA in place of one the peer deletes.                                 *)
(***************************************************************************)
EXTENDS Naturals, FiniteSets, FiniteSetsExt

CONSTANTS
  Peers,       \* the two peers
  MaxRekeys,   \* bound: MaxRekeys[p] IKE_SAs are proposed by peer p
  MaxEvents    \* bound: how often a peer is told to delete an IKE_SA, gives up
               \* on a living peer, or refuses to rekey

ASSUME PeersAssumption == \E p, q \in Peers : p # q /\ Peers = {p, q}
ASSUME BoundsAssumption ==
  /\ MaxRekeys \in [Peers -> Nat]
  /\ MaxEvents \in Nat

Other(p) == CHOOSE q \in Peers : q # p

\* The first IKE_SA, with a responder and initiator long forgotten, and the ones
\* that are to replace it or one another.
First == [by |-> "setup", n |-> 0]
New(p) == [by : {p}, n : 1..MaxRekeys[p]]
SAs == {First} \cup UNION {New(p) : p \in Peers}
NoSA == [by |-> "nobody", n |-> 0]

VARIABLES
  sa,      \* sa[p][s]: what p knows of IKE_SA s
  kids,    \* kids[p]: the IKE_SA that has the CHILD_SAs of p, or NoSA
  net,     \* requests (rekey, delete) and responses (rekey_ok, rekey_failed,
           \* deleted) on their way
  nonce,   \* nonce[s]: rank of the lower nonce of the exchange that creates s
  down,    \* down[p]: the IKE_SAs p reported with ike_updown(FALSE)
  events   \* how many of MaxEvents are left, and whether one of them was to
           \* delete or to give up

vars == <<sa, kids, net, nonce, down, events>>

\* st: the state; "held" is a new IKE_SA of a rekey task, not yet checked in.
\* task: the active task, "rekdel" being ike_rekey deleting the replaced SA.
\* new, coll: new_sa of that task and of the task that collided with it; met
\* tells that there was one.  queue: the queued tasks.  rekeyed: the flag of
\* ike_delete.  job: a delete job is scheduled.
Blank == [st |-> "none", task |-> "none", new |-> NoSA, coll |-> NoSA,
          met |-> FALSE, queue |-> {}, rekeyed |-> FALSE, job |-> FALSE]

Init ==
  /\ sa = [p \in Peers |-> [s \in SAs |->
            IF s = First THEN [Blank EXCEPT !.st = "established"] ELSE Blank]]
  /\ kids = [p \in Peers |-> First]
  /\ net = {}
  /\ nonce \in {f \in [SAs \ {First} -> 1..(Cardinality(SAs) - 1)] :
                  \A s, t \in SAs \ {First} : f[s] = f[t] => s = t}
  /\ down = [p \in Peers |-> {}]
  /\ events = [left |-> MaxEvents, disturbed |-> FALSE]

Registered(p, s) == sa[p][s].st \notin {"none", "held", "gone"}

\* p may propose one more IKE_SA, besides those already queued for.
MayRekey(p) ==
  Cardinality({s \in SAs : "rekey" \in sa[p][s].queue})
    < Cardinality({s \in New(p) : sa[p][s].st = "none"})

(***************************************************************************)
(* The peer that runs a handler, as a record: its IKE_SAs, who has the      *)
(* CHILD_SAs, what it sends and which IKE_SAs it reports down.              *)
(***************************************************************************)
Me(p) == [sa |-> sa[p], kids |-> kids[p], sent |-> {}, down |-> down[p]]

Commit(p, x, taken) ==
  /\ sa' = [sa EXCEPT ![p] = x.sa]
  /\ kids' = [kids EXCEPT ![p] = x.kids]
  /\ net' = (net \ taken) \cup x.sent
  /\ down' = [down EXCEPT ![p] = x.down]

Send(p, x, s, kind, n) ==
  [x EXCEPT !.sent = @ \cup {[to |-> Other(p), sa |-> s, kind |-> kind, new |-> n]}]

ReportDown(x, s) == [x EXCEPT !.down = @ \cup {s}]

\* destroy(): the tasks go with the IKE_SA, and with them the new IKE_SAs they
\* hold; the CHILD_SAs go too.
Destroy(x, s) ==
  LET held == {n \in {x.sa[s].new, x.sa[s].coll} \ {NoSA} :
                 x.sa[n].st = "held"}
  IN [x EXCEPT !.sa = [t \in SAs |->
                        IF t = s \/ t \in held THEN [Blank EXCEPT !.st = "gone"]
                        ELSE @[t]],
               !.kids = IF @ = s THEN NoSA ELSE @]

\* establish_new(): the new IKE_SA inherits the CHILD_SAs and the queued tasks
\* and replaces s.
Establish(x, s, n) ==
  IF n = NoSA THEN x
  ELSE [x EXCEPT !.sa[s] = [x.sa[s] EXCEPT !.queue = {}, !.st = "rekeyed"],
                 !.sa[n] = [x.sa[n] EXCEPT !.st = "established",
                                           !.queue = x.sa[s].queue],
                 !.kids = IF @ = s THEN n ELSE @]

\* The active rekey task of s is done with; what it still holds is destroyed.
EndRekey(x, s) ==
  LET held == {n \in {x.sa[s].new, x.sa[s].coll} \ {NoSA} :
                 x.sa[n].st = "held"}
  IN [x EXCEPT !.sa = [t \in SAs |->
        CASE t \in held -> [Blank EXCEPT !.st = "gone"]
          [] t = s -> [@[t] EXCEPT !.task = "none", !.new = NoSA, !.coll = NoSA,
                                   !.met = FALSE]
          [] OTHER -> @[t]]]

\* ike_delete.build_i(), after which the task manager sends the request.
SendDelete(p, x, s, task) ==
  LET i == x.sa[s] IN
  Send(p, [x EXCEPT !.sa[s] = [i EXCEPT !.task = task, !.st = "deleting",
                                  !.rekeyed = i.st \in {"rekeying", "rekeyed"},
                                  !.queue = i.queue \ {"delete"}]],
       s, "delete", NoSA)

\* ike_rekey.build_i(): a new IKE_SA is proposed.
SendRekey(p, x, s, n) ==
  LET i == x.sa[s] IN
  Send(p, [x EXCEPT !.sa[s] = [i EXCEPT !.task = "rekey", !.st = "rekeying",
                                  !.new = n, !.queue = i.queue \ {"rekey"}],
                    !.sa[n] = [x.sa[n] EXCEPT !.st = "held"]],
       s, "rekey", n)

\* initiate() of the task manager of s: nothing while an exchange is in
\* progress; a delete goes first, anything else needs an established IKE_SA.
Initiate(p, x, s) ==
  LET i == x.sa[s] IN
  CASE i.task # "none" -> {x}
    [] i.task = "none" /\ "delete" \in i.queue
       /\ i.st \in {"established", "rekeying", "rekeyed"} ->
         {SendDelete(p, x, s, "delete")}
    [] i.task = "none" /\ "delete" \notin i.queue /\ "rekey" \in i.queue
       /\ i.st = "established" ->
         {SendRekey(p, x, s, n) : n \in {t \in New(p) : x.sa[t].st = "none"}}
    [] OTHER -> {x}

Event(disturbs) ==
  /\ events.left > 0
  /\ events' = [left |-> events.left - 1,
                disturbed |-> events.disturbed \/ disturbs]

(***************************************************************************)
(* Jobs and commands.                                                       *)
(***************************************************************************)
\* rekey_ike_sa_job, at the rekey time or to retry.
Rekey(p, s) ==
  /\ sa[p][s].st \in {"established", "rekeying"}
  /\ "rekey" \notin sa[p][s].queue /\ MayRekey(p)
  /\ \E x \in Initiate(p, [Me(p) EXCEPT !.sa[s].queue = @ \cup {"rekey"}], s) :
       Commit(p, x, {})
  /\ UNCHANGED <<nonce, events>>

\* initiate_tasks_job, for the tasks a new IKE_SA inherited.
InitiateTasks(p, s) ==
  /\ Registered(p, s) /\ sa[p][s].task = "none" /\ sa[p][s].queue # {}
  /\ \E x \in Initiate(p, Me(p), s) : Commit(p, x, {})
  /\ UNCHANGED <<nonce, events>>

\* ike_sa_t.delete().
Deleted(p, x, s) ==
  IF x.sa[s].st \in {"established", "rekeying"}
  THEN Initiate(p, [x EXCEPT !.sa[s].queue = @ \cup {"delete"}], s)
  ELSE {Destroy(ReportDown(x, s), s)}

\* A user or a lifetime ends the IKE_SA.
Delete(p, s) ==
  /\ Registered(p, s) /\ Event(TRUE)
  /\ \E x \in Deleted(p, Me(p), s) : Commit(p, x, {})
  /\ UNCHANGED nonce

\* The delete job of a replaced or redundant IKE_SA becomes due.
DeleteJob(p, s) ==
  /\ Registered(p, s) /\ sa[p][s].job
  /\ \E x \in Deleted(p, [Me(p) EXCEPT !.sa[s].job = FALSE], s) : Commit(p, x, {})
  /\ UNCHANGED <<nonce, events>>

\* Mutant: an unanswered request is repeated for ever.
NeverHopeless(p, s) == FALSE

\* The task manager gives up retransmitting and ike_sa_t.retransmit() ends the
\* IKE_SA: the peer has lost it and no answer is on its way, or the answer is
\* too late.  An answer that is lost until the peer has forgotten the IKE_SA (the
\* delete job of a replaced one included) is of the second kind, an event.
Hopeless(p, s) ==
  /\ sa[Other(p)][s].st = "gone"
  /\ \A m \in net : m.to = p /\ m.sa = s => m.kind \in {"rekey", "delete"}

GiveUp(p, s) ==
  /\ Registered(p, s) /\ sa[p][s].task # "none"
  /\ \/ Hopeless(p, s) /\ UNCHANGED events
     \/ ~Hopeless(p, s) /\ Event(TRUE)
  /\ Commit(p, Destroy(ReportDown(Me(p), s), s), {})
  /\ UNCHANGED nonce

(***************************************************************************)
(* Requests.                                                                *)
(***************************************************************************)
\* collide() of the active rekey task of s with a rekey task that holds n: the
\* collision before, if any, is dropped.
Collide(x, s, n) ==
  LET c == x.sa[s].coll
      y == IF c # NoSA /\ x.sa[c].st = "held"
           THEN [x EXCEPT !.sa[c] = [Blank EXCEPT !.st = "gone"]] ELSE x
  IN [y EXCEPT !.sa[s] = [y.sa[s] EXCEPT !.coll = n, !.met = TRUE]]

\* process_r() and build_r() of ike_rekey.  The request is refused while
\* deleting, for a CHILD_SA that is half open, or without a common proposal;
\* a replaced IKE_SA takes no CREATE_CHILD_SA at all.
ProcessRekey(p, m) ==
  LET s == m.sa
      st == sa[p][s].st
      x == [Me(p) EXCEPT !.sa[m.new].st = "held"]
  IN /\ m \in net /\ m.to = p /\ m.kind = "rekey"
     /\ Registered(p, s) /\ st # "rekeyed"
     /\ \/ /\ \/ st = "deleting" /\ UNCHANGED events
              \/ st # "deleting" /\ Event(FALSE)
           /\ Commit(p, Send(p, Me(p), s, "rekey_failed", m.new), {m})
        \/ /\ st = "rekeying"
           /\ Commit(p, Send(p, Collide(x, s, m.new), s, "rekey_ok", m.new), {m})
           /\ UNCHANGED events
        \/ /\ st \notin {"rekeying", "deleting"}
           /\ Commit(p, Send(p, [Establish(x, s, m.new) EXCEPT !.sa[s].job = TRUE],
                             s, "rekey_ok", m.new), {m})
           /\ UNCHANGED events
     /\ UNCHANGED nonce

\* Mutant: any delete during a rekeying counts as that of a replaced IKE_SA.
ReplacedIfRekeying(i) == i.st \in {"rekeyed", "rekeying"}

\* The peer deletes an IKE_SA that it, or we, have replaced.
Replaced(i) == i.st = "rekeyed" \/ (i.st = "rekeying" /\ i.met)

\* Mutant: the peer's rekeying is forgotten when the peer deletes s.
ForgetUndetected(x, s) == x

\* conclude_undetected_collision(): what the peer established replaces s.
ConcludeUndetected(x, s) ==
  IF x.sa[s].met THEN Establish(x, s, x.sa[s].coll) ELSE x

\* process_r() and build_r() of ike_delete, and its collision with an active
\* rekey task: a peer that did not notice our rekeying deletes the IKE_SA it
\* has replaced.  The IKE_SA is destroyed once the response is sent.
ProcessDelete(p, m) ==
  LET s == m.sa
      i == sa[p][s]
      x == Send(p, Me(p), s, "deleted", NoSA)
      y == IF i.task \in {"rekey", "rekdel"} THEN ConcludeUndetected(x, s) ELSE x
  IN /\ m \in net /\ m.to = p /\ m.kind = "delete" /\ Registered(p, s)
     /\ Commit(p, Destroy(IF Replaced(i) THEN y ELSE ReportDown(y, s), s),
               {m})
     /\ UNCHANGED <<nonce, events>>

(***************************************************************************)
(* Responses.                                                               *)
(***************************************************************************)
\* The response to the rekeying in progress of s.
Answers(p, m, kind) ==
  /\ m \in net /\ m.to = p /\ m.kind = kind /\ Registered(p, m.sa)
  /\ kind # "deleted" => sa[p][m.sa].task = "rekey" /\ sa[p][m.sa].new = m.new

\* The peer refused.  An IKE_SA the peer established in a collision is kept,
\* otherwise the rekeying is retried later (or, left out here, replaced by a
\* reauthentication if the peer has NO_ADDITIONAL_SAS).
RekeyFailed(p, m) ==
  LET s == m.sa
      x == IF sa[p][s].met THEN ConcludeUndetected(Me(p), s)
           ELSE [Me(p) EXCEPT !.sa[s].st = "established"]
  IN /\ Answers(p, m, "rekey_failed")
     /\ \E y \in Initiate(p, EndRekey(x, s), s) : Commit(p, y, {m})
     /\ UNCHANGED <<nonce, events>>

\* Mutant: either peer yields to the other.
LostAlways(n, c) == TRUE

\* The exchange with the lower nonce loses.
Lost(n, c) == nonce[n] < nonce[c]

\* The collision is lost: our IKE_SA is redundant and we delete it, the peer's
\* replaces s and the peer deletes s.
RekeyLost(p, m) ==
  LET s == m.sa
      c == sa[p][s].coll
      x == SendDelete(p, [Me(p) EXCEPT !.sa[m.new].st = "rekeying"],
                      m.new, "delete")
  IN /\ Answers(p, m, "rekey_ok") /\ sa[p][s].met /\ Lost(m.new, c)
     /\ \E y \in Initiate(p, EndRekey(Establish(x, s, c), s), s) :
          Commit(p, y, {m})
     /\ UNCHANGED <<nonce, events>>

\* The collision is won or there is none: our IKE_SA replaces s, which we
\* delete; the peer deletes the redundant one, for which a job is scheduled.
RekeyWon(p, m) ==
  LET s == m.sa
      c == sa[p][s].coll
      x == IF ~sa[p][s].met THEN Me(p)
           ELSE [Me(p) EXCEPT !.sa[c] = [sa[p][c] EXCEPT !.st = "rekeyed", !.job = TRUE]]
      y == Establish(x, s, m.new)
  IN /\ Answers(p, m, "rekey_ok")
     /\ sa[p][s].met => ~Lost(m.new, c)
     /\ Commit(p, SendDelete(p, [y EXCEPT !.sa[s] = [y.sa[s] EXCEPT !.new = NoSA,
                                                                   !.coll = NoSA]],
                             s, "rekdel"), {m})
     /\ UNCHANGED <<nonce, events>>

\* process_i() of ike_delete.
DeleteDone(p, m) ==
  LET s == m.sa
      x == IF sa[p][s].rekeyed THEN Me(p) ELSE ReportDown(Me(p), s)
  IN /\ Answers(p, m, "deleted") /\ sa[p][s].task \in {"delete", "rekdel"}
     /\ Commit(p, Destroy(x, s), {m})
     /\ UNCHANGED <<nonce, events>>

\* A packet for an IKE_SA that is gone is dropped.
Drop(m) ==
  /\ sa[m.to][m.sa].st = "gone"
  /\ net' = net \ {m}
  /\ UNCHANGED <<sa, kids, nonce, down, events>>

Receive(m) ==
  \/ \E p \in Peers : \/ ProcessRekey(p, m) \/ ProcessDelete(p, m)
                      \/ RekeyFailed(p, m) \/ RekeyLost(p, m)
                      \/ RekeyWon(p, m) \/ DeleteDone(p, m)
  \/ Drop(m)

Housekeeping ==
  \E p \in Peers, s \in SAs : InitiateTasks(p, s) \/ DeleteJob(p, s) \/ GiveUp(p, s)

Next ==
  \/ \E m \in net : Receive(m)
  \/ Housekeeping
  \/ \E p \in Peers, s \in SAs : Rekey(p, s) \/ Delete(p, s)

Spec == Init /\ [][Next]_vars /\ WF_vars(\E m \in net : Receive(m))
                              /\ WF_vars(Housekeeping)

-----------------------------------------------------------------------------
\* Nobody was told to delete an IKE_SA and nobody gave up on a living peer.
Undisturbed == ~events.disturbed

\* The IKE_SA that has the CHILD_SAs of a peer is never torn down by rekeying.
ChildrenSurvive == Undisturbed => \A p \in Peers : kids[p] # NoSA

Quiet ==
  /\ net = {}
  /\ \A p \in Peers, s \in SAs :
       sa[p][s].task = "none" /\ sa[p][s].queue = {} /\ ~sa[p][s].job

\* Once rekeying has settled, both peers have the same, established IKE_SA,
\* and nothing else.
OneSAInCommon ==
  Quiet /\ Undisturbed =>
    \E s \in SAs : \A p \in Peers :
      /\ kids[p] = s /\ sa[p][s].st = "established"
      /\ \A t \in SAs \ {s} : sa[p][t].st \in {"none", "gone"}

\* A peer never loses its CHILD_SAs with an IKE_SA without reporting it down.
NoSilentLoss ==
  [][\A p \in Peers : kids[p] # NoSA /\ kids'[p] = NoSA
       => kids[p] \in down'[p]]_vars

\* Rekeying settles.
Settles == <>[]Quiet
=============================================================================
