------------------------- MODULE IkeRekeyAgreement --------------------------
(***************************************************************************)
(* Proofs that two peers that rekey their IKE_SA, as often as they like and *)
(* in collision with one another, agree on its successor: as long as nobody *)
(* deletes an IKE_SA or gives up on a living peer, neither loses its        *)
(* CHILD_SAs, and once all is done both have the same IKE_SA.               *)
(***************************************************************************)
EXTENDS IkeRekeyProofs

-----------------------------------------------------------------------------
(* The inductive invariant.                                                  *)

Over == {"rekeyed", "deleting", "gone"}

\* Only the IKE_SA with the CHILD_SAs is in use, and only its task holds back
\* new ones; the others wait for a delete or are gone.
Local(p) ==
  /\ kids[p] \in SAs
  /\ \A t \in SAs :
       /\ "delete" \notin sa[p][t].queue
       /\ sa[p][t].st \in {"established", "rekeying"} <=> t = kids[p]
       /\ sa[p][t].st = "deleting" => sa[p][t].task # "none"
       /\ sa[p][t].st # "deleting" => sa[p][t].task \notin {"delete", "rekdel"}
       /\ sa[p][t].job => sa[p][t].st = "rekeyed"
       /\ sa[p][t].queue # {} => t = kids[p]
       /\ ~sa[p][t].met => sa[p][t].coll = NoSA
       /\ sa[p][t].st = "held" => t \in {sa[p][kids[p]].new, sa[p][kids[p]].coll}

\* What a message on its way tells of the peer that sent it: a delete is sent by
\* a peer that is done with the IKE_SA, a request to rekey by one that still
\* waits for the answer, as long as the receiver may accept it; an answer, by
\* one that has the IKE_SA, and has taken the new one or has not.
Wired(m) ==
  LET q == Other(m.to) IN
  /\ m.kind = "delete" => sa[q][m.sa].st \in {"deleting", "gone"}
  /\ m.kind = "deleted" => sa[q][m.sa].st = "gone"
  /\ m.kind = "rekey" /\ sa[m.to][m.sa].st \notin Over =>
       sa[q][m.sa].st = "rekeying" /\ sa[q][m.sa].new = m.new
  /\ m.kind \in {"rekey_ok", "rekey_failed"} =>
       /\ sa[q][m.sa].st \notin {"none", "held"}
       /\ m.new \in New(m.to) /\ sa[m.to][m.new].st # "none"
  /\ m.kind = "rekey_ok" => sa[q][m.new].st # "none"
  /\ m.kind = "rekey_failed" =>
       sa[q][m.new].st = "none" /\ \A k \in net : k.kind = "rekey" => k.new # m.new

\* A replaced IKE_SA that no job will delete is going to be deleted by the peer.
Left(p) ==
  \A t \in SAs : sa[p][t].st = "rekeyed" /\ ~sa[p][t].job
                   => sa[Other(p)][t].st \in {"rekeying", "deleting"}

Has(p, s, kind, n) == \E k \in net : k.to = p /\ k.sa = s /\ k.kind = kind /\ k.new = n
HasDelete(p, s) == \E k \in net : k.to = p /\ k.sa = s /\ k.kind = "delete"

\* Both peers have the same IKE_SA s: a peer that has met the other's rekeying
\* has told it so, and it has not heard it yet.
Together(p, q, s) ==
  /\ kids[p] = s
  /\ sa[p][s].met => /\ sa[q][s].st = "rekeying" /\ sa[q][s].new = sa[p][s].coll
                     /\ Has(q, s, "rekey_ok", sa[p][s].coll)
  /\ sa[p][s].st = "rekeying" /\ Has(p, s, "rekey_ok", sa[p][s].new) =>
       sa[q][s].met /\ sa[q][s].coll = sa[p][s].new

\* Peer q has replaced s by the IKE_SA n that p proposed and waits for p, whose
\* own one wins if p has met that of q.
Granted(p, q, s, n) ==
  /\ n = sa[p][s].new /\ sa[q][s].st \in {"rekeyed", "gone"}
  /\ Has(p, s, "rekey_ok", n) /\ ~HasDelete(p, s)
  /\ sa[p][s].met => nonce[sa[p][s].coll] < nonce[n]

\* Peer q has replaced s by the IKE_SA n that it has proposed itself and deletes
\* s; that of p loses.
Taken(p, q, s, n) ==
  /\ sa[p][s].met /\ n = sa[p][s].coll /\ sa[q][s].st = "deleting"
  /\ HasDelete(p, s)
  /\ Has(p, s, "rekey_ok", sa[p][s].new) => nonce[sa[p][s].new] < nonce[n]

\* Peer p is behind, with s, and q ahead, with n.
Behind(p, q, s, n) ==
  /\ kids[p] = s /\ kids[q] = n
  /\ sa[p][s].st = "rekeying" /\ ~sa[q][n].met
  /\ Granted(p, q, s, n) \/ Taken(p, q, s, n)

Phase ==
  \/ \E s \in SAs : \A p \in Peers : Together(p, Other(p), s)
  \/ \E p \in Peers, s, n \in SAs : Behind(p, Other(p), s, n)

Nonces ==
  /\ \A s \in SAs \ {First} : nonce[s] \in Nat
  /\ \A s, t \in SAs \ {First} : nonce[s] = nonce[t] => s = t

Calmed ==
  /\ \A p \in Peers : Local(p) /\ Left(p)
  /\ \A m \in net : Wired(m)
  /\ Phase

Agreed == Nonces /\ (Undisturbed => Calmed)

-----------------------------------------------------------------------------
(* What a step of a peer p leaves as it is.                                  *)

\* Peer p takes some messages and sends others; the other peer does nothing.
Moved(p, taken, sent) ==
  /\ sa'[Other(p)] = sa[Other(p)] /\ kids'[Other(p)] = kids[Other(p)] /\ nonce' = nonce
  /\ net' = (net \ taken) \cup sent

\* An IKE_SA only gets older.
Aged(u, v) ==
  /\ u = "gone" => v = "gone"
  /\ u \in {"deleting", "gone"} => v \in {"deleting", "gone"}
  /\ u \in Over => v \in Over
  /\ u \notin {"none", "held"} => v \notin {"none", "held"}
  /\ u # "none" => v # "none"
Ages(p) == \A t \in SAs : Aged(sa[p][t].st, sa'[p][t].st)

\* What p was asked for, it has not taken after refusing it; what it has asked
\* for, it still waits for; what it asks for is new.
KeepsWord(p, taken, sent) ==
  /\ \A k \in net : k.kind = "rekey_failed" /\ k.to = Other(p) => sa'[p][k.new].st = "none"
  /\ \A k \in net \ taken : k.kind = "rekey" /\ k.to = Other(p) /\ sa[Other(p)][k.sa].st \notin Over
       => sa'[p][k.sa].st = "rekeying" /\ sa'[p][k.sa].new = k.new
  /\ \A k \in sent : k.kind = "rekey" =>
       \A f \in net : f.kind = "rekey_failed" => f.new # k.new

LEMMA Travelling ==
  ASSUME Inv, NEW m \in net
  PROVE  /\ m.to \in Peers /\ m.sa \in SAs /\ m.kind \in Kinds
         /\ m.kind = "rekey" => /\ m.new \in New(Other(m.to)) /\ m.new \in SAs
                                /\ sa[m.to][m.new].st = "none"
                                /\ sa[Other(m.to)][m.new].st # "none"
<1>1. m \in Messages
  BY DEF Inv, Fresh
<1>2. m.to \in Peers /\ m.sa \in SAs /\ m.kind \in Kinds
  BY <1>1 DEF Messages
<1>3. m.kind = "rekey" => /\ m.new \in New(Other(m.to)) /\ sa[m.to][m.new].st = "none"
                          /\ sa[Other(m.to)][m.new].st # "none"
  BY DEF Inv, Fresh
<1> QED BY <1>2, <1>3, NewSAs

LEMMA WiredStep ==
  ASSUME Inv, \A m \in net : Wired(m), NEW p \in Peers, NEW taken, NEW sent,
         Moved(p, taken, sent), Ages(p), KeepsWord(p, taken, sent), \A k \in sent : Wired(k)'
  PROVE  \A m \in net' : Wired(m)'
<1>1. PICK q \in Peers : q = Other(p) /\ Other(q) = p /\ q # p /\ \A r \in Peers : r = p \/ r = q
  BY TwoPeers
<1>2. sa'[q] = sa[q] /\ net' = (net \ taken) \cup sent
  BY <1>1 DEF Moved
<1>3. SUFFICES ASSUME NEW m \in net \ taken PROVE Wired(m)'
  BY <1>2
<1>4. m.to \in Peers /\ m.sa \in SAs /\ Wired(m)
  BY Travelling
<1>5. m.kind = "rekey_failed" => \A k \in net' : k.kind = "rekey" => k.new # m.new
  BY <1>2, <1>4 DEF Wired, KeepsWord
<1>6. CASE m.to = p
  <2>1. \A r \in New(p) : r \in SAs
    BY NewSAs
  <2>2. /\ m.kind = "delete" => sa'[q][m.sa].st \in {"deleting", "gone"}
        /\ m.kind = "deleted" => sa'[q][m.sa].st = "gone"
        /\ m.kind \in {"rekey_ok", "rekey_failed"} =>
             sa'[q][m.sa].st \notin {"none", "held"} /\ m.new \in New(p) /\ sa[p][m.new].st # "none"
        /\ m.kind = "rekey_ok" => sa'[q][m.new].st # "none"
        /\ m.kind = "rekey_failed" => sa'[q][m.new].st = "none"
    BY <1>1, <1>2, <1>4, <1>6 DEF Wired
  <2>3. m.kind \in {"rekey_ok", "rekey_failed"} => sa'[p][m.new].st # "none"
    BY <2>1, <2>2 DEF Ages, Aged
  <2>4. m.kind = "rekey" /\ sa'[p][m.sa].st \notin Over =>
          sa'[q][m.sa].st = "rekeying" /\ sa'[q][m.sa].new = m.new
    BY <1>1, <1>2, <1>4, <1>6 DEF Wired, Ages, Aged
  <2> QED BY <1>1, <1>5, <1>6, <2>2, <2>3, <2>4 DEF Wired
<1>7. CASE m.to = q
  <2>1. \A r \in New(q) : r \in SAs
    BY NewSAs
  <2>2. /\ m.kind = "delete" => sa[p][m.sa].st \in {"deleting", "gone"}
        /\ m.kind = "deleted" => sa[p][m.sa].st = "gone"
        /\ m.kind \in {"rekey_ok", "rekey_failed"} =>
             sa[p][m.sa].st \notin {"none", "held"} /\ m.new \in New(q) /\ sa'[q][m.new].st # "none"
        /\ m.kind = "rekey_ok" => sa[p][m.new].st # "none"
    BY <1>1, <1>2, <1>4, <1>7 DEF Wired
  <2>3. /\ m.kind = "delete" => sa'[p][m.sa].st \in {"deleting", "gone"}
        /\ m.kind = "deleted" => sa'[p][m.sa].st = "gone"
        /\ m.kind \in {"rekey_ok", "rekey_failed"} => sa'[p][m.sa].st \notin {"none", "held"}
        /\ m.kind = "rekey_ok" => sa'[p][m.new].st # "none"
    BY <1>4, <2>1, <2>2 DEF Ages, Aged
  <2>4. m.kind = "rekey_failed" => sa'[p][m.new].st = "none"
    BY <1>1, <1>7 DEF KeepsWord
  <2>5. m.kind = "rekey" /\ sa'[q][m.sa].st \notin Over =>
          sa'[p][m.sa].st = "rekeying" /\ sa'[p][m.sa].new = m.new
    BY <1>1, <1>2, <1>7 DEF KeepsWord
  <2> QED BY <1>1, <1>5, <1>7, <2>2, <2>3, <2>4, <2>5 DEF Wired
<1> QED BY <1>1, <1>4, <1>6, <1>7

LEMMA LeftStep ==
  ASSUME \A r \in Peers : Left(r), NEW p \in Peers, NEW q, q = Other(p), sa'[q] = sa[q],
         \A t \in SAs : sa'[p][t].st = "rekeyed" /\ ~sa'[p][t].job =>
           \/ sa[p][t].st = "rekeyed" /\ ~sa[p][t].job
           \/ sa[q][t].st \in {"rekeying", "deleting"},
         \A t \in SAs : /\ sa[q][t].st = "rekeyed" /\ ~sa[q][t].job
                        /\ sa[p][t].st \in {"rekeying", "deleting"}
                        => sa'[p][t].st \in {"rekeying", "deleting"}
  PROVE  \A r \in Peers : Left(r)'
<1>1. q \in Peers /\ Other(q) = p /\ \A r \in Peers : r = p \/ r = q
  BY TwoPeers
<1>2. Left(p)'
  BY DEF Left
<1>3. Left(q)'
  BY <1>1 DEF Left
<1> QED BY <1>1, <1>2, <1>3

LEMMA OtherLocal ==
  ASSUME NEW p \in Peers, NEW q, q = Other(p), Local(q), NEW taken, NEW sent,
         Moved(p, taken, sent)
  PROVE  Local(q)'
  BY DEF Moved, Local

\* Nothing that Phase tells of the messages to r about s changes.
Untouched(r, s, taken, sent) ==
  \A k \in taken \cup sent : ~(k.to = r /\ k.sa = s /\ k.kind \in {"rekey_ok", "delete"})

LEMMA HasSame ==
  ASSUME NEW p, NEW taken, NEW sent, Moved(p, taken, sent), NEW r, NEW s,
         Untouched(r, s, taken, sent)
  PROVE  /\ \A n : Has(r, s, "rekey_ok", n)' <=> Has(r, s, "rekey_ok", n)
         /\ HasDelete(r, s)' <=> HasDelete(r, s)
<1>1. ASSUME NEW k, k.to = r, k.sa = s, k.kind \in {"rekey_ok", "delete"}
      PROVE  k \in net' <=> k \in net
  BY <1>1 DEF Moved, Untouched
<1> QED BY <1>1 DEF Has, HasDelete

\* The IKE_SA that is in use stays as it is, but for its queue.
SameUse(i, j) == j.st = i.st /\ j.new = i.new /\ j.coll = i.coll /\ j.met = i.met

LEMMA PhaseKept ==
  ASSUME Phase, NEW p \in Peers, NEW q, q = Other(p), NEW taken, NEW sent,
         Moved(p, taken, sent), kids'[p] = kids[p],
         SameUse(sa[p][kids[p]], sa'[p][kids[p]]),
         \/ sa'[p][kids[q]].st = sa[p][kids[q]].st
         \/ sa[p][kids[q]].st = "rekeyed" /\ sa'[p][kids[q]].st = "gone",
         Untouched(p, kids[p], taken, sent), Untouched(q, kids[q], taken, sent)
  PROVE  Phase'
<1>1. q \in Peers /\ Other(q) = p /\ q # p /\ \A r \in Peers : r = p \/ r = q
  BY TwoPeers
<1>2. sa'[q] = sa[q] /\ kids'[q] = kids[q] /\ nonce' = nonce
  BY DEF Moved
<1>3. PICK a, b : a = kids[p] /\ b = kids[q]
  OBVIOUS
<1>4. /\ \A n : Has(p, a, "rekey_ok", n)' <=> Has(p, a, "rekey_ok", n)
      /\ HasDelete(p, a)' <=> HasDelete(p, a)
      /\ \A n : Has(q, b, "rekey_ok", n)' <=> Has(q, b, "rekey_ok", n)
      /\ HasDelete(q, b)' <=> HasDelete(q, b)
  BY <1>3, HasSame
<1>5. ASSUME NEW s \in SAs, \A r \in Peers : Together(r, Other(r), s) PROVE Phase'
  <2>1. Together(p, q, s) /\ Together(q, p, s)
    BY <1>1, <1>5
  <2>2. s = a /\ s = b
    BY <1>3, <2>1 DEF Together
  <2>3. Together(p, q, s)'
    BY <1>2, <1>3, <1>4, <2>1, <2>2 DEF Together, Has, SameUse
  <2>4. Together(q, p, s)'
    <3>1. SameUse(sa[p][s], sa'[p][s])
      BY <1>3, <2>2
    <3>2. /\ \A n : Has(p, s, "rekey_ok", n)' <=> Has(p, s, "rekey_ok", n)
          /\ \A n : Has(q, s, "rekey_ok", n)' <=> Has(q, s, "rekey_ok", n)
      BY <1>4, <2>2
    <3> QED BY <1>2, <2>1, <3>1, <3>2 DEF Together, Has, SameUse
  <2> QED BY <1>1, <2>3, <2>4 DEF Phase
<1>6. ASSUME NEW s \in SAs, NEW n \in SAs, Behind(p, q, s, n) PROVE Phase'
  <2>1. s = a /\ n = b
    BY <1>3, <1>6 DEF Behind
  <2>2. Granted(p, q, s, n) => Granted(p, q, s, n)'
    <3>1. SameUse(sa[p][s], sa'[p][s])
      BY <1>3, <2>1
    <3>2. /\ Has(p, s, "rekey_ok", n)' <=> Has(p, s, "rekey_ok", n)
          /\ HasDelete(p, s)' <=> HasDelete(p, s)
      BY <1>4, <2>1
    <3> QED BY <1>2, <3>1, <3>2 DEF Granted, SameUse
  <2>3. Taken(p, q, s, n) => Taken(p, q, s, n)'
    <3>1. SameUse(sa[p][s], sa'[p][s])
      BY <1>3, <2>1
    <3>2. /\ \A k : Has(p, s, "rekey_ok", k)' <=> Has(p, s, "rekey_ok", k)
          /\ HasDelete(p, s)' <=> HasDelete(p, s)
      BY <1>4, <2>1
    <3> QED BY <1>2, <3>1, <3>2 DEF Taken, Has, SameUse
  <2>4. Behind(p, q, s, n)'
    BY <1>2, <1>3, <1>6, <2>1, <2>2, <2>3 DEF Behind, SameUse
  <2> QED BY <2>4 DEF Phase
<1>7. ASSUME NEW s \in SAs, NEW n \in SAs, Behind(q, p, s, n) PROVE Phase'
  <2>1. s = b /\ n = a
    BY <1>3, <1>7 DEF Behind
  <2>2. /\ \A k : Has(q, s, "rekey_ok", k)' <=> Has(q, s, "rekey_ok", k)
        /\ HasDelete(q, s)' <=> HasDelete(q, s)
    BY <1>4, <2>1
  <2>3. Granted(q, p, s, n) => Granted(q, p, s, n)'
    BY <1>2, <1>3, <2>1, <2>2 DEF Granted
  <2>4. Taken(q, p, s, n) => Taken(q, p, s, n)'
    <3>1. PICK k : k = sa[q][s].new /\ k = sa'[q][s].new
      BY <1>2
    <3>2. Has(q, s, "rekey_ok", sa[q][s].new)' <=> Has(q, s, "rekey_ok", k)
      BY <2>2, <3>1 DEF Has
    <3> QED BY <1>2, <1>3, <2>1, <2>2, <3>1, <3>2 DEF Taken
  <2>5. Behind(q, p, s, n)'
    BY <1>2, <1>3, <1>7, <2>1, <2>3, <2>4 DEF Behind, SameUse
  <2> QED BY <1>1, <2>5 DEF Phase
<1> QED BY <1>1, <1>5, <1>6, <1>7 DEF Phase

\* What the tasks of the IKE_SA in use hold.
LEMMA InUse ==
  ASSUME Inv, NEW p \in Peers, Local(p), NEW s, s = kids[p], NEW i, i = sa[p][s]
  PROVE  /\ s \in SAs /\ i.st \in {"established", "rekeying"} /\ i.met \in BOOLEAN
         /\ i.st = "established" => i.new = NoSA /\ i.coll = NoSA /\ ~i.met
         /\ i.st = "rekeying" => /\ i.new \in New(p) /\ i.new \in SAs /\ i.new # s
                                 /\ sa[p][i.new].st = "held" /\ Bare(sa[p][i.new])
         /\ i.met => /\ i.coll \in New(Other(p)) /\ i.coll \in SAs /\ i.coll # s
                     /\ i.coll # i.new /\ i.st = "rekeying"
                     /\ sa[p][i.coll].st = "held" /\ Bare(sa[p][i.coll])
         /\ ~i.met => i.coll = NoSA
<1>1. s \in SAs /\ i.st \in {"established", "rekeying"} /\ (~i.met => i.coll = NoSA)
  BY DEF Local
<1>2. Me(p) \in Side(p) /\ Me(p).sa = sa[p] /\ \A t \in SAs : Fine(sa[p], t)
  BY Start, MeIs
<1>3. PICK x \in Side(p) : x.sa = sa[p]
  BY <1>2
<1>4. /\ i.met \in BOOLEAN
      /\ i.new # NoSA => i.new \in New(p) /\ i.new \in SAs /\ i.new # i.coll
      /\ i.coll # NoSA => i.coll \in New(Other(p)) /\ i.coll \in SAs
  BY <1>1, <1>3, Fields
<1>5. Fine(sa[p], s)
  BY <1>1, <1>2
<1>6. /\ i.met => i.st = "rekeying"
      /\ i.new # NoSA => i.st = "rekeying" /\ sa[p][i.new].st = "held"
      /\ i.coll # NoSA => i.st = "rekeying" /\ sa[p][i.coll].st = "held"
      /\ i.st = "rekeying" => i.new # NoSA /\ (i.met => i.coll # NoSA)
  BY <1>1, <1>5 DEF Fine
<1>7. \A t \in SAs : sa[p][t].st = "held" => Bare(sa[p][t]) /\ t # s
  BY <1>1, <1>2 DEF Fine
<1> QED BY <1>1, <1>4, <1>6, <1>7

-----------------------------------------------------------------------------
(* The steps that leave the IKE_SA in use alone.                             *)

LEMMA CalmedIs ==
  ASSUME Calmed, NEW p \in Peers, NEW q, q = Other(p)
  PROVE  /\ Local(p) /\ Local(q) /\ Left(p) /\ Left(q) /\ \A r \in Peers : Left(r)
         /\ Phase /\ \A m \in net : Wired(m)
         /\ q \in Peers /\ Other(q) = p /\ q # p /\ \A r \in Peers : r = p \/ r = q
  BY TwoPeers DEF Calmed

LEMMA CalmedAgain ==
  ASSUME NEW p \in Peers, NEW q, q = Other(p), Local(q), NEW taken, NEW sent,
         Moved(p, taken, sent), Local(p)', \A r \in Peers : Left(r)', Phase',
         \A m \in net' : Wired(m)'
  PROVE  Calmed'
<1>1. Local(q)'
  BY OtherLocal
<1> QED BY <1>1, TwoPeers DEF Calmed

\* A replaced or deleted IKE_SA t goes.
LEMMA Buried ==
  ASSUME Inv, Calmed, NEW p \in Peers, NEW q, q = Other(p), NEW t \in SAs, t # kids[p],
         sa[p][t].st \in {"rekeyed", "deleting"},
         sa[p][t].st = "deleting" => sa[q][t].st \in {"deleting", "gone"},
         NEW taken, NEW sent, Moved(p, taken, sent), kids'[p] = kids[p],
         sa'[p][t] = GoneSA, \A r \in SAs \ {t} : sa'[p][r] = sa[p][r],
         \A k \in taken : k.to = p /\ k.sa = t,
         \A k \in sent : k.to = q /\ k.sa = t /\ k.kind = "deleted"
  PROVE  Calmed'
<1>1. /\ Local(p) /\ Local(q) /\ \A r \in Peers : Left(r)
      /\ Phase /\ \A m \in net : Wired(m)
      /\ q \in Peers /\ Other(q) = p /\ q # p /\ \A r \in Peers : r = p \/ r = q
  BY CalmedIs
<1>2. sa'[q] = sa[q] /\ kids'[q] = kids[q] /\ net' = (net \ taken) \cup sent
  BY DEF Moved
<1>3. GoneSA.st = "gone" /\ Bare(GoneSA)
  BY GoneIs
<1>4. Local(p)'
  <2>1. kids[p] \in SAs /\ sa'[p][kids[p]] = sa[p][kids[p]]
    BY <1>1 DEF Local
  <2>2. ASSUME NEW r \in SAs \ {t}
        PROVE  /\ "delete" \notin sa'[p][r].queue
               /\ sa'[p][r].st \in {"established", "rekeying"} <=> r = kids'[p]
               /\ sa'[p][r].st = "deleting" => sa'[p][r].task # "none"
               /\ sa'[p][r].st # "deleting" => sa'[p][r].task \notin {"delete", "rekdel"}
               /\ sa'[p][r].job => sa'[p][r].st = "rekeyed"
               /\ sa'[p][r].queue # {} => r = kids'[p]
               /\ ~sa'[p][r].met => sa'[p][r].coll = NoSA
               /\ sa'[p][r].st = "held" => r \in {sa'[p][kids'[p]].new, sa'[p][kids'[p]].coll}
    <3>1. sa'[p][r] = sa[p][r]
      OBVIOUS
    <3> QED BY <1>1, <2>1, <3>1 DEF Local
  <2> QED BY <1>3, <2>1, <2>2 DEF Local, Bare
<1>5. \A r \in Peers : Left(r)'
  <2>1. ASSUME NEW r \in SAs, sa'[p][r].st = "rekeyed", ~sa'[p][r].job
        PROVE  sa[p][r].st = "rekeyed" /\ ~sa[p][r].job
    BY <1>3, <2>1
  <2>2. ASSUME NEW r \in SAs, sa[q][r].st = "rekeyed", sa[p][r].st \in {"rekeying", "deleting"}
        PROVE  sa'[p][r].st \in {"rekeying", "deleting"}
    BY <2>2
  <2> QED BY <1>1, <1>2, <2>1, <2>2, LeftStep
<1>6. \A m \in net' : Wired(m)'
  <2>1. Ages(p)
    BY <1>3 DEF Ages, Aged, Over
  <2>2. KeepsWord(p, taken, sent)
    <3>1. ASSUME NEW k \in net, k.kind = "rekey_failed", k.to = q
          PROVE  sa'[p][k.new].st = "none"
      <4>1. sa[p][k.new].st = "none" /\ k.new \in SAs
        BY <1>1, <3>1, NewSAs DEF Wired
      <4> QED BY <4>1
    <3>2. ASSUME NEW k \in net, k.kind = "rekey", k.to = q, sa[q][k.sa].st \notin Over
          PROVE  sa'[p][k.sa].st = "rekeying" /\ sa'[p][k.sa].new = k.new
      <4>1. sa[p][k.sa].st = "rekeying" /\ sa[p][k.sa].new = k.new /\ k.sa \in SAs
        BY <1>1, <3>2, Travelling DEF Wired
      <4> QED BY <4>1
    <3> QED BY <3>1, <3>2 DEF KeepsWord
  <2>3. ASSUME NEW k \in sent PROVE Wired(k)'
    BY <1>1, <1>3 DEF Wired
  <2> QED BY <1>1, <2>1, <2>2, <2>3, WiredStep
<1>7. Phase'
  <2>1. sa'[p][kids[p]] = sa[p][kids[p]] /\ kids[q] \in SAs
    BY <1>1 DEF Local
  <2>2. SameUse(sa[p][kids[p]], sa'[p][kids[p]])
    BY <2>1 DEF SameUse
  <2>3. Untouched(p, kids[p], taken, sent) /\ Untouched(q, kids[q], taken, sent)
    BY <1>1 DEF Untouched
  <2>4. \/ sa'[p][kids[q]].st = sa[p][kids[q]].st
        \/ sa[p][kids[q]].st = "rekeyed" /\ sa'[p][kids[q]].st = "gone"
    <3>1. CASE kids[q] # t
      BY <2>1, <3>1
    <3>2. CASE kids[q] = t
      <4>1. sa[q][t].st \in {"established", "rekeying"}
        BY <1>1, <3>2 DEF Local
      <4> QED BY <1>3, <3>2, <4>1
    <3> QED BY <3>1, <3>2
  <2> QED BY <1>1, <2>2, <2>3, <2>4, PhaseKept
<1> QED BY <1>1, <1>4, <1>5, <1>6, <1>7, CalmedAgain

\* Nothing but a queue changes.
SameButQueue(i, j) == SameUse(i, j) /\ j.task = i.task /\ j.job = i.job

LEMMA Resting ==
  ASSUME Inv, Calmed, NEW p \in Peers, NEW q, q = Other(p),
         NEW taken, NEW sent, Moved(p, taken, sent), kids'[p] = kids[p],
         \A t \in SAs : SameButQueue(sa[p][t], sa'[p][t]),
         \A t \in SAs : /\ "delete" \notin sa'[p][t].queue
                        /\ sa'[p][t].queue # {} => t = kids[p],
         Untouched(p, kids[p], taken, sent), Untouched(q, kids[q], taken, sent),
         \A k \in sent : k.kind # "rekey" /\ Wired(k)'
  PROVE  Calmed'
<1>1. /\ Local(p) /\ Local(q) /\ \A r \in Peers : Left(r)
      /\ Phase /\ \A m \in net : Wired(m)
      /\ q \in Peers /\ Other(q) = p /\ q # p /\ \A r \in Peers : r = p \/ r = q
  BY CalmedIs
<1>2. sa'[q] = sa[q] /\ kids'[q] = kids[q] /\ net' = (net \ taken) \cup sent
  BY DEF Moved
<1>3. /\ kids[p] \in SAs /\ kids[q] \in SAs
      /\ \A t \in SAs : /\ sa'[p][t].st = sa[p][t].st /\ sa'[p][t].task = sa[p][t].task
                        /\ sa'[p][t].new = sa[p][t].new /\ sa'[p][t].coll = sa[p][t].coll
                        /\ sa'[p][t].met = sa[p][t].met /\ sa'[p][t].job = sa[p][t].job
  BY <1>1 DEF SameButQueue, SameUse, Local
<1>4. Local(p)'
  BY <1>1, <1>3 DEF Local
<1>5. \A r \in Peers : Left(r)'
  BY <1>1, <1>2, <1>3, LeftStep
<1>6. \A m \in net' : Wired(m)'
  <2>1. Ages(p)
    BY <1>3 DEF Ages, Aged
  <2>2. KeepsWord(p, taken, sent)
    <3>1. ASSUME NEW k \in net, k.kind = "rekey_failed", k.to = q
          PROVE  sa'[p][k.new].st = "none"
      <4>1. sa[p][k.new].st = "none" /\ k.new \in SAs
        BY <1>1, <3>1, NewSAs DEF Wired
      <4> QED BY <1>3, <4>1
    <3>2. ASSUME NEW k \in net, k.kind = "rekey", k.to = q, sa[q][k.sa].st \notin Over
          PROVE  sa'[p][k.sa].st = "rekeying" /\ sa'[p][k.sa].new = k.new
      <4>1. sa[p][k.sa].st = "rekeying" /\ sa[p][k.sa].new = k.new /\ k.sa \in SAs
        BY <1>1, <3>2, Travelling DEF Wired
      <4> QED BY <1>3, <4>1
    <3> QED BY <3>1, <3>2 DEF KeepsWord
  <2> QED BY <1>1, <2>1, <2>2, WiredStep
<1>7. Phase'
  BY <1>1, <1>3, PhaseKept DEF SameButQueue
<1> QED BY <1>1, <1>4, <1>5, <1>6, <1>7, CalmedAgain

\* Where the two peers are.
LEMMA Where ==
  ASSUME Phase, NEW p \in Peers, NEW q, q = Other(p), NEW s, s = kids[p]
  PROVE  \/ Together(p, q, s) /\ Together(q, p, s)
         \/ Behind(p, q, s, kids[q])
         \/ Behind(q, p, kids[q], s)
<1>1. q \in Peers /\ Other(q) = p /\ q # p /\ \A r \in Peers : r = p \/ r = q
  BY TwoPeers
<1>2. ASSUME NEW t \in SAs, \A r \in Peers : Together(r, Other(r), t)
      PROVE  Together(p, q, s) /\ Together(q, p, s)
  <2>1. Together(p, q, t) /\ Together(q, p, t)
    BY <1>1, <1>2
  <2>2. t = s
    BY <2>1 DEF Together
  <2> QED BY <2>1, <2>2
<1>3. ASSUME NEW t \in SAs, NEW n \in SAs, Behind(p, q, t, n) PROVE Behind(p, q, s, kids[q])
  <2>1. t = s /\ n = kids[q]
    BY <1>3 DEF Behind
  <2> QED BY <1>3, <2>1
<1>4. ASSUME NEW t \in SAs, NEW n \in SAs, Behind(q, p, t, n) PROVE Behind(q, p, kids[q], s)
  <2>1. t = kids[q] /\ n = s
    BY <1>4 DEF Behind
  <2> QED BY <1>4, <2>1
<1>5. ASSUME NEW r \in Peers, NEW t \in SAs, NEW n \in SAs, Behind(r, Other(r), t, n)
      PROVE  Behind(p, q, s, kids[q]) \/ Behind(q, p, kids[q], s)
  <2>1. CASE r = p
    BY <1>3, <1>5, <2>1
  <2>2. CASE r = q
    BY <1>1, <1>4, <1>5, <2>2
  <2> QED BY <1>1, <2>1, <2>2
<1> QED BY <1>2, <1>5 DEF Phase

\* The peer behind holds back what the other one uses.
LEMMA HeldBehind ==
  ASSUME Inv, NEW p \in Peers, NEW q, Local(p), NEW s, NEW n, Behind(p, q, s, n)
  PROVE  sa[p][n].st = "held" /\ n \in SAs /\ s \in SAs /\ s # n
<1>1. s = kids[p] /\ sa[p][s].st = "rekeying"
  BY DEF Behind
<1>2. n = sa[p][s].new \/ (sa[p][s].met /\ n = sa[p][s].coll)
  BY DEF Behind, Granted, Taken
<1>3. /\ sa[p][sa[p][s].new].st = "held" /\ sa[p][s].new \in SAs /\ sa[p][s].new # s /\ s \in SAs
      /\ sa[p][s].met => /\ sa[p][sa[p][s].coll].st = "held" /\ sa[p][s].coll \in SAs
                         /\ sa[p][s].coll # s
  BY <1>1, InUse
<1> QED BY <1>2, <1>3

-----------------------------------------------------------------------------
(* The steps that keep the IKE_SA in use.                                    *)

Message(to, s, kind, n) == [to |-> to, sa |-> s, kind |-> kind, new |-> n]

LEMMA SendMessage ==
  ASSUME NEW p \in Peers, NEW x \in Side(p), NEW s, NEW kind, NEW n, NEW q, q = Other(p),
         NEW y, y = Send(p, x, s, kind, n)
  PROVE  /\ y.sa = x.sa /\ y.kids = x.kids
         /\ y.sent = x.sent \cup {Message(q, s, kind, n)}
  BY DEF Send, Side, Message

\* No request of p that its peer q may still accept is on its way.
NoRequest(q) == \A k \in net : k.kind = "rekey" /\ k.to = q => sa[q][k.sa].st \in Over

\* Peer p starts to rekey s, with n for a new IKE_SA, or it does not; it has given
\* up what it held for s.
Starts(p, s, n, sent) ==
  /\ kids[p] = s /\ s \in SAs /\ kids'[p] = s /\ ~sa[p][s].met
  /\ ~sa'[p][s].met /\ sa'[p][s].coll = NoSA /\ ~sa'[p][s].job
  /\ "delete" \notin sa'[p][s].queue
  /\ sa'[p][s].task \notin {"delete", "rekdel"}
  /\ \/ sa'[p][s].st = "established" /\ sent = {} /\ n = NoSA
     \/ /\ sa'[p][s].st = "rekeying" /\ sa'[p][s].new = n
        /\ sent = {Message(Other(p), s, "rekey", n)}
        /\ n \in New(p) /\ n # s /\ sa[p][n].st = "none"
        /\ sa'[p][n].st = "held" /\ Bare(sa'[p][n])
  /\ \A t \in SAs \ {s, n} : \/ sa[p][t].st # "held" /\ sa'[p][t] = sa[p][t]
                             \/ sa[p][t].st = "held" /\ sa'[p][t] = GoneSA

LEMMA StartsLocal ==
  ASSUME NEW p \in Peers, NEW s, NEW n, NEW sent, Local(p), Starts(p, s, n, sent)
  PROVE  /\ Local(p)' /\ Ages(p)
         /\ \A t \in SAs : sa'[p][t].st = "rekeyed" /\ ~sa'[p][t].job =>
              sa[p][t].st = "rekeyed" /\ ~sa[p][t].job
         /\ \A t \in SAs : t # s /\ sa[p][t].st \in {"rekeying", "deleting"}
              => sa'[p][t].st = sa[p][t].st
<1>1. GoneSA.st = "gone" /\ Bare(GoneSA)
  BY GoneIs
<1>2. kids[p] = s /\ kids'[p] = s /\ s \in SAs /\ sa[p][s].st \in {"established", "rekeying"}
  BY DEF Starts, Local
<1>3. sa'[p][s].st \in {"established", "rekeying"}
  BY DEF Starts
<1>4. n \in SAs => n # s /\ sa'[p][s].new = n /\ sa[p][n].st = "none" /\ sa'[p][n].st = "held" /\ Bare(sa'[p][n])
  BY NewSAs DEF Starts
<1>5. \A t \in SAs \ {s, n} : \/ sa[p][t].st # "held" /\ sa'[p][t] = sa[p][t]
                              \/ sa[p][t].st = "held" /\ sa'[p][t] = GoneSA
  BY DEF Starts
<1>6. ASSUME NEW t \in SAs
      PROVE  /\ "delete" \notin sa'[p][t].queue
             /\ sa'[p][t].st \in {"established", "rekeying"} <=> t = kids'[p]
             /\ sa'[p][t].st = "deleting" => sa'[p][t].task # "none"
             /\ sa'[p][t].st # "deleting" => sa'[p][t].task \notin {"delete", "rekdel"}
             /\ sa'[p][t].job => sa'[p][t].st = "rekeyed"
             /\ sa'[p][t].queue # {} => t = kids'[p]
             /\ ~sa'[p][t].met => sa'[p][t].coll = NoSA
             /\ sa'[p][t].st = "held" => t \in {sa'[p][kids'[p]].new, sa'[p][kids'[p]].coll}
  <2>1. CASE t = s
    BY <1>2, <1>3, <2>1 DEF Starts
  <2>2. CASE t = n
    BY <1>2, <1>4, <2>2 DEF Bare
  <2>3. CASE t \notin {s, n} /\ sa'[p][t] = sa[p][t] /\ sa[p][t].st # "held"
    BY <1>2, <2>3 DEF Local
  <2>4. CASE t \notin {s, n} /\ sa'[p][t] = GoneSA
    BY <1>1, <1>2, <2>4 DEF Bare
  <2> QED BY <1>5, <2>1, <2>2, <2>3, <2>4
<1>7. Local(p)'
  BY <1>2, <1>6 DEF Local
<1>8. Ages(p)
  BY <1>1, <1>2, <1>3, <1>4, <1>5 DEF Ages, Aged, Over
<1>9. ASSUME NEW t \in SAs, sa'[p][t].st = "rekeyed", ~sa'[p][t].job
      PROVE  sa[p][t].st = "rekeyed" /\ ~sa[p][t].job
  BY <1>1, <1>3, <1>4, <1>5, <1>9
<1>10. ASSUME NEW t \in SAs, t # s, sa[p][t].st \in {"rekeying", "deleting"}
       PROVE  sa'[p][t].st = sa[p][t].st
  BY <1>4, <1>5, <1>10
<1> QED BY <1>7, <1>8, <1>9, <1>10

LEMMA StartsWired ==
  ASSUME Inv, NEW p \in Peers, NEW q, q = Other(p), NEW s, NEW n, NEW taken, NEW sent,
         Local(p), \A m \in net : Wired(m), Starts(p, s, n, sent), Moved(p, taken, sent),
         NoRequest(q)
  PROVE  \A m \in net' : Wired(m)'
<1>1. q \in Peers /\ Other(q) = p /\ q # p
  BY TwoPeers
<1>2. Ages(p)
  BY StartsLocal
<1>3. n \in SAs => n # s /\ sa'[p][s].new = n /\ sa[p][n].st = "none" /\ n \in New(p)
  BY NewSAs DEF Starts
<1>4. ASSUME NEW f \in net, f.kind = "rekey_failed" PROVE f.new # n
  <2>1. f.to \in Peers /\ f.new \in New(f.to) /\ sa[f.to][f.new].st # "none" /\ f.new \in SAs
    BY <1>4, Travelling, NewSAs DEF Wired
  <2> QED BY <1>3, <2>1, NewSAs
<1>5. KeepsWord(p, taken, sent)
  <2>1. ASSUME NEW k \in net, k.kind = "rekey_failed", k.to = q
        PROVE  sa'[p][k.new].st = "none"
    <3>1. sa[p][k.new].st = "none" /\ k.new \in SAs
      BY <1>1, <2>1, NewSAs DEF Wired
    <3>2. k.new # n /\ k.new # s
      BY <1>4, <2>1, <3>1 DEF Starts, Local
    <3> QED BY <3>1, <3>2 DEF Starts
  <2>2. ASSUME NEW k \in net, k.kind = "rekey", k.to = q, sa[q][k.sa].st \notin Over
        PROVE  FALSE
    BY <2>2 DEF NoRequest
  <2>3. \A k \in sent : k.new = n
    BY DEF Starts, Message
  <2> QED BY <1>4, <2>1, <2>2, <2>3 DEF KeepsWord
<1>6. ASSUME NEW k \in sent PROVE Wired(k)'
  <2>1. /\ k.to = q /\ k.sa = s /\ k.kind = "rekey" /\ k.new = n
        /\ sa'[p][s].st = "rekeying" /\ sa'[p][s].new = n
    BY <1>6 DEF Starts, Message
  <2> QED BY <1>1, <2>1 DEF Wired
<1> QED BY <1>2, <1>5, <1>6, WiredStep

LEMMA StartsPhase ==
  ASSUME Inv, NEW p \in Peers, NEW q, q = Other(p), NEW s, NEW n, NEW taken, NEW sent,
         Local(p), Local(q), \A m \in net : Wired(m), Starts(p, s, n, sent),
         Moved(p, taken, sent), \A k \in taken : k.to = p,
         \/ Together(p, q, s) /\ Together(q, p, s) /\ ~sa[q][s].met
         \/ Behind(q, p, kids[q], s)
  PROVE  Phase'
<1>1. q \in Peers /\ Other(q) = p /\ q # p /\ \A r \in Peers : r = p \/ r = q
  BY TwoPeers
<1>2. sa'[q] = sa[q] /\ kids'[q] = kids[q] /\ nonce' = nonce /\ net' = (net \ taken) \cup sent
  BY DEF Moved
<1>3. s \in SAs /\ kids[p] = s /\ kids'[p] = s /\ ~sa'[p][s].met
  BY DEF Starts
<1>4. \A k \in sent : k.kind = "rekey"
  BY DEF Starts, Message
<1>5. CASE Together(p, q, s) /\ Together(q, p, s) /\ ~sa[q][s].met
  <2>1. ASSUME sa'[p][s].st = "rekeying",
               NEW k \in net', k.to = p, k.kind = "rekey_ok", k.new = sa'[p][s].new
        PROVE  FALSE
    <3>1. k \in net
      BY <1>2, <1>4, <2>1
    <3>2. sa[p][k.new].st # "none"
      BY <2>1, <3>1 DEF Wired
    <3>3. sa[p][sa'[p][s].new].st = "none"
      BY <2>1 DEF Starts
    <3> QED BY <2>1, <3>2, <3>3
  <2>2. Together(p, q, s)'
    BY <1>3, <2>1 DEF Together, Has
  <2>3. sa[q][s].st = "rekeying" => ~Has(q, s, "rekey_ok", sa[q][s].new)
    <3>1. ~sa[p][s].met
      BY DEF Starts
    <3> QED BY <1>5, <3>1 DEF Together
  <2>4. sa[q][s].st = "rekeying" => ~Has(q, s, "rekey_ok", sa[q][s].new)'
    BY <1>2, <1>4, <2>3 DEF Has
  <2>5. Together(q, p, s)'
    BY <1>2, <1>5, <2>4 DEF Together, Has
  <2> QED BY <1>1, <1>3, <2>2, <2>5 DEF Phase
<1>6. CASE Behind(q, p, kids[q], s)
  <2>1. PICK b \in SAs : b = kids[q]
    BY DEF Local
  <2>2. Behind(q, p, b, s) /\ b # s
    BY <1>1, <1>6, <2>1, HeldBehind
  <2>3. Untouched(q, b, taken, sent)
    BY <1>1, <1>4 DEF Untouched
  <2>4. /\ \A k : Has(q, b, "rekey_ok", k)' <=> Has(q, b, "rekey_ok", k)
        /\ HasDelete(q, b)' <=> HasDelete(q, b)
    BY <2>3, HasSame
  <2>5. sa[p][b].st \in {"rekeyed", "gone", "deleting"}
    BY <2>2 DEF Behind, Granted, Taken
  <2>6. sa'[p][b] = sa[p][b]
    <3>1. b # n
      <4>1. n \in SAs => sa[p][n].st = "none"
        BY NewSAs DEF Starts
      <4> QED BY <2>5, <4>1
    <3> QED BY <2>1, <2>2, <2>5, <3>1 DEF Starts
  <2>7. Granted(q, p, b, s) => Granted(q, p, b, s)'
    BY <1>2, <2>4, <2>6 DEF Granted
  <2>8. Taken(q, p, b, s) => Taken(q, p, b, s)'
    BY <1>2, <2>4, <2>6 DEF Taken, Has
  <2>9. Behind(q, p, b, s)'
    BY <1>2, <1>3, <2>2, <2>7, <2>8 DEF Behind
  <2> QED BY <1>1, <1>3, <2>1, <2>9 DEF Phase
<1> QED BY <1>5, <1>6

LEMMA Started ==
  ASSUME Inv, Calmed, NEW p \in Peers, NEW q, q = Other(p), NEW s, NEW n, NEW taken, NEW sent,
         Starts(p, s, n, sent), Moved(p, taken, sent), NoRequest(q), \A k \in taken : k.to = p,
         \/ Together(p, q, s) /\ Together(q, p, s) /\ ~sa[q][s].met
         \/ Behind(q, p, kids[q], s)
  PROVE  Calmed'
<1>1. /\ Local(p) /\ Local(q) /\ \A r \in Peers : Left(r)
      /\ Phase /\ \A m \in net : Wired(m)
      /\ q \in Peers /\ Other(q) = p /\ q # p /\ \A r \in Peers : r = p \/ r = q
  BY CalmedIs
<1>2. sa'[q] = sa[q] /\ s \in SAs /\ s = kids[p]
  BY DEF Moved, Starts
<1>3. /\ Local(p)' /\ Ages(p)
      /\ \A t \in SAs : sa'[p][t].st = "rekeyed" /\ ~sa'[p][t].job =>
           sa[p][t].st = "rekeyed" /\ ~sa[p][t].job
      /\ \A t \in SAs : t # s /\ sa[p][t].st \in {"rekeying", "deleting"}
           => sa'[p][t].st = sa[p][t].st
  BY <1>1, StartsLocal
<1>4. sa[q][s].st # "rekeyed"
  <2>1. CASE Together(q, p, s)
    BY <1>1, <1>2, <2>1 DEF Together, Local
  <2>2. CASE Behind(q, p, kids[q], s)
    BY <1>1, <2>2, HeldBehind
  <2> QED BY <2>1, <2>2
<1>5. \A r \in Peers : Left(r)'
  <2>1. \A t \in SAs : /\ sa[q][t].st = "rekeyed" /\ ~sa[q][t].job
                       /\ sa[p][t].st \in {"rekeying", "deleting"}
                       => sa'[p][t].st \in {"rekeying", "deleting"}
    BY <1>3, <1>4
  <2> QED BY <1>1, <1>2, <1>3, <2>1, LeftStep
<1>6. \A m \in net' : Wired(m)'
  BY <1>1, StartsWired
<1>7. Phase'
  BY <1>1, StartsPhase
<1> QED BY <1>1, <1>3, <1>5, <1>6, <1>7, CalmedAgain

\* A request to rekey the IKE_SA in use finds the peer that sent it with the same
\* one, waiting for the answer.
Request(p, m, s, n) ==
  m \in net /\ m.to = p /\ m.kind = "rekey" /\ s = m.sa /\ s = kids[p] /\ n = m.new

Waiting(p, q, s, n) ==
  /\ sa[q][s].st = "rekeying" /\ sa[q][s].new = n /\ kids[q] = s
  /\ Together(p, q, s) /\ Together(q, p, s)
  /\ ~sa[p][s].met
  /\ \A k \in net : k.kind = "rekey_failed" => k.new # n
  /\ n \in New(q) /\ n \in SAs /\ n # s /\ sa[p][n].st = "none" /\ sa[q][n].st # "none"

LEMMA Requested ==
  ASSUME Inv, Calmed, NEW p \in Peers, NEW q, q = Other(p), NEW m, NEW s, NEW n,
         Request(p, m, s, n)
  PROVE  Waiting(p, q, s, n)
<1>0. m \in net /\ m.to = p /\ m.kind = "rekey" /\ s = m.sa /\ s = kids[p] /\ n = m.new
  BY DEF Request
<1>1. /\ Local(p) /\ Local(q) /\ Phase /\ \A k \in net : Wired(k)
      /\ q \in Peers /\ Other(q) = p
  BY CalmedIs
<1>2. /\ s \in SAs /\ n \in New(q) /\ n \in SAs /\ sa[p][n].st = "none" /\ sa[q][n].st # "none"
  BY <1>0, Travelling
<1>3. sa[p][s].st \in {"established", "rekeying"}
  BY <1>0, <1>1, <1>2 DEF Local
<1>4. sa[q][s].st = "rekeying" /\ sa[q][s].new = n
  BY <1>0, <1>1, <1>3 DEF Wired, Over
<1>5. kids[q] = s
  BY <1>1, <1>2, <1>4 DEF Local
<1>6. Together(p, q, s) /\ Together(q, p, s)
  <2>1. ~Behind(p, q, s, kids[q])
    BY <1>1, <1>3, <1>5, HeldBehind
  <2>2. ~Behind(q, p, kids[q], s)
    BY <1>1, <1>4, HeldBehind
  <2> QED BY <1>0, <1>1, <2>1, <2>2, Where
<1>7. ~sa[p][s].met
  <2>1. SUFFICES ASSUME sa[p][s].met PROVE FALSE
    OBVIOUS
  <2>2. sa[p][s].coll = n
    BY <1>4, <1>6, <2>1 DEF Together
  <2>3. sa[p][sa[p][s].coll].st = "held"
    BY <1>0, <1>1, <2>1, InUse
  <2> QED BY <1>2, <2>2, <2>3
<1>8. \A k \in net : k.kind = "rekey_failed" => k.new # n
  BY <1>0, <1>1 DEF Wired
<1> QED BY <1>2, <1>3, <1>4, <1>5, <1>6, <1>7, <1>8 DEF Waiting

\* Peer p, which rekeys s itself, meets the rekeying of the other peer to n.
Meets(p, s, n) ==
  /\ kids'[p] = kids[p] /\ sa[p][s].st = "rekeying"
  /\ sa'[p][s].st = "rekeying" /\ sa'[p][s].new = sa[p][s].new
  /\ sa'[p][s].met /\ sa'[p][s].coll = n
  /\ sa'[p][s].task = sa[p][s].task /\ sa'[p][s].job = sa[p][s].job
  /\ sa'[p][s].queue = sa[p][s].queue
  /\ sa'[p][n].st = "held" /\ Bare(sa'[p][n])
  /\ \A t \in SAs \ {s, n} : sa'[p][t] = sa[p][t]

LEMMA Collided ==
  ASSUME Inv, Calmed, NEW p \in Peers, NEW q, q = Other(p), NEW m, NEW s, NEW n,
         Request(p, m, s, n), Meets(p, s, n), Moved(p, {m}, {Message(q, s, "rekey_ok", n)})
  PROVE  Calmed'
<1>1. /\ Local(p) /\ Local(q) /\ \A r \in Peers : Left(r)
      /\ Phase /\ \A k \in net : Wired(k)
      /\ q \in Peers /\ Other(q) = p /\ q # p /\ \A r \in Peers : r = p \/ r = q
  BY CalmedIs
<1>2. PICK r : r = Message(q, s, "rekey_ok", n)
  OBVIOUS
<1>3. r.to = q /\ r.sa = s /\ r.kind = "rekey_ok" /\ r.new = n
  BY <1>2 DEF Message
<1>4. /\ sa'[q] = sa[q] /\ kids'[q] = kids[q] /\ nonce' = nonce
      /\ net' = (net \ {m}) \cup {r} /\ Moved(p, {m}, {r})
  BY <1>2 DEF Moved
<1>5. /\ sa[q][s].st = "rekeying" /\ sa[q][s].new = n /\ kids[q] = s
      /\ Together(p, q, s) /\ Together(q, p, s) /\ ~sa[p][s].met
      /\ \A k \in net : k.kind = "rekey_failed" => k.new # n
      /\ n \in New(q) /\ n \in SAs /\ n # s /\ sa[p][n].st = "none" /\ sa[q][n].st # "none"
  BY Requested DEF Waiting
<1>6. s \in SAs /\ kids'[p] = s /\ s = kids[p]
  BY <1>1 DEF Local, Meets, Request
<1>7. Local(p)'
  <2>1. ASSUME NEW t \in SAs
        PROVE  /\ "delete" \notin sa'[p][t].queue
               /\ sa'[p][t].st \in {"established", "rekeying"} <=> t = kids'[p]
               /\ sa'[p][t].st = "deleting" => sa'[p][t].task # "none"
               /\ sa'[p][t].st # "deleting" => sa'[p][t].task \notin {"delete", "rekdel"}
               /\ sa'[p][t].job => sa'[p][t].st = "rekeyed"
               /\ sa'[p][t].queue # {} => t = kids'[p]
               /\ ~sa'[p][t].met => sa'[p][t].coll = NoSA
               /\ sa'[p][t].st = "held" => t \in {sa'[p][kids'[p]].new, sa'[p][kids'[p]].coll}
    <3>1. CASE t = s
      BY <1>1, <1>6, <3>1 DEF Local, Meets
    <3>2. CASE t = n
      BY <1>5, <1>6, <3>2 DEF Meets, Bare
    <3>3. CASE t \notin {s, n}
      <4>1. sa'[p][t] = sa[p][t] /\ sa'[p][s].new = sa[p][s].new
        BY <3>3 DEF Meets
      <4>2. sa[p][s].coll = NoSA /\ NoSA \notin SAs
        BY <1>1, <1>5, <1>6, NewSAs DEF Local
      <4> QED BY <1>1, <1>6, <3>3, <4>1, <4>2 DEF Local
    <3> QED BY <3>1, <3>2, <3>3
  <2> QED BY <1>6, <2>1 DEF Local
<1>8. \A u \in Peers : Left(u)'
  <2>1. ASSUME NEW t \in SAs, sa'[p][t].st = "rekeyed", ~sa'[p][t].job
        PROVE  sa[p][t].st = "rekeyed" /\ ~sa[p][t].job
    BY <2>1 DEF Meets
  <2>2. ASSUME NEW t \in SAs, sa[p][t].st \in {"rekeying", "deleting"}
        PROVE  sa'[p][t].st \in {"rekeying", "deleting"}
    BY <1>5, <2>2 DEF Meets
  <2> QED BY <1>1, <1>4, <2>1, <2>2, LeftStep
<1>9. \A k \in net' : Wired(k)'
  <2>1. Ages(p)
    BY <1>5 DEF Ages, Aged, Meets, Over
  <2>2. KeepsWord(p, {m}, {r})
    <3>1. ASSUME NEW k \in net, k.kind = "rekey_failed", k.to = q
          PROVE  sa'[p][k.new].st = "none"
      <4>1. sa[p][k.new].st = "none" /\ k.new \in SAs /\ k.new # n
        BY <1>1, <1>5, <3>1, NewSAs DEF Wired
      <4> QED BY <4>1 DEF Meets
    <3>2. ASSUME NEW k \in net, k.kind = "rekey", k.to = q, sa[q][k.sa].st \notin Over
          PROVE  sa'[p][k.sa].st = "rekeying" /\ sa'[p][k.sa].new = k.new
      <4>1. sa[p][k.sa].st = "rekeying" /\ sa[p][k.sa].new = k.new /\ k.sa \in SAs
        BY <1>1, <3>2, Travelling DEF Wired
      <4>2. k.sa = s
        BY <1>1, <1>6, <4>1 DEF Local
      <4> QED BY <4>1, <4>2 DEF Meets
    <3> QED BY <1>3, <3>1, <3>2 DEF KeepsWord
  <2>3. Wired(r)'
    <3>1. sa'[p][s].st = "rekeying" /\ sa'[p][n].st = "held"
      BY DEF Meets
    <3> QED BY <1>1, <1>3, <1>4, <1>5, <3>1 DEF Wired
  <2> QED BY <1>1, <1>4, <2>1, <2>2, <2>3, WiredStep
<1>10. Phase'
  <2>1. \A a : Has(p, s, "rekey_ok", a)' <=> Has(p, s, "rekey_ok", a)
    BY <1>1, <1>3, <1>4 DEF Has, Request
  <2>2. r \in net'
    BY <1>4
  <2>3. Together(p, q, s)'
    <3>1. Has(q, s, "rekey_ok", n)'
      BY <1>3, <2>2 DEF Has
    <3>2. /\ sa'[p][s].st = "rekeying" /\ sa'[p][s].coll = n /\ sa'[p][s].new = sa[p][s].new
          /\ sa[p][s].st = "rekeying"
      BY DEF Meets
    <3>3. Has(p, s, "rekey_ok", sa[p][s].new) => sa[q][s].met /\ sa[q][s].coll = sa[p][s].new
      BY <1>5, <3>2 DEF Together
    <3>4. (\E k \in net' : k.to = p /\ k.sa = s /\ k.kind = "rekey_ok" /\ k.new = sa'[p][s].new)
             => sa[q][s].met /\ sa[q][s].coll = sa'[p][s].new
      BY <2>1, <3>2, <3>3 DEF Has
    <3> QED BY <1>4, <1>5, <1>6, <3>1, <3>2, <3>4 DEF Together, Has
  <2>4. Together(q, p, s)'
    <3>1. /\ sa'[p][s].st = "rekeying" /\ sa'[p][s].new = sa[p][s].new
          /\ sa'[p][s].coll = n /\ sa'[p][s].met
      BY DEF Meets
    <3> QED BY <1>4, <1>5, <2>1, <3>1 DEF Together, Has
  <2> QED BY <1>1, <1>6, <2>3, <2>4 DEF Phase
<1> QED BY <1>1, <1>4, <1>7, <1>8, <1>9, <1>10, CalmedAgain

-----------------------------------------------------------------------------
(* A new IKE_SA replaces the one in use.                                     *)

\* Done with: what waits for a delete, or is gone.
Closed(i) ==
  /\ i.st \in Over /\ i.queue = {} /\ i.coll = NoSA /\ (i.job => i.st = "rekeyed")
  /\ i.st = "deleting" => i.task # "none"
  /\ i.st # "deleting" => i.task \notin {"delete", "rekdel"}

\* Peer p replaces s by n and holds nothing back any more.
Succeeds(p, s, n) ==
  /\ kids[p] = s /\ kids'[p] = n /\ s \in SAs /\ n \in SAs /\ n # s
  /\ sa[p][n].st \in {"none", "held"} /\ sa'[p][n].st = "established"
  /\ ~sa'[p][n].met /\ sa'[p][n].coll = NoSA /\ ~sa'[p][n].job /\ sa'[p][n].task = "none"
  /\ "delete" \notin sa'[p][n].queue
  /\ \A t \in SAs \ {n} :
       \/ t # s /\ sa[p][t].st # "held" /\ sa'[p][t] = sa[p][t]
       \/ (t = s \/ sa[p][t].st = "held") /\ Closed(sa'[p][t])

LEMMA SucceedsLocal ==
  ASSUME NEW p \in Peers, NEW s, NEW n, Local(p), Succeeds(p, s, n)
  PROVE  Local(p)' /\ Ages(p)
<1>1. kids[p] = s /\ kids'[p] = n /\ s \in SAs /\ n \in SAs /\ n # s
  BY DEF Succeeds
<1>2. sa[p][s].st \in {"established", "rekeying"}
  BY <1>1 DEF Local
<1>3. ASSUME NEW t \in SAs
      PROVE  /\ "delete" \notin sa'[p][t].queue
             /\ sa'[p][t].st \in {"established", "rekeying"} <=> t = kids'[p]
             /\ sa'[p][t].st = "deleting" => sa'[p][t].task # "none"
             /\ sa'[p][t].st # "deleting" => sa'[p][t].task \notin {"delete", "rekdel"}
             /\ sa'[p][t].job => sa'[p][t].st = "rekeyed"
             /\ sa'[p][t].queue # {} => t = kids'[p]
             /\ ~sa'[p][t].met => sa'[p][t].coll = NoSA
             /\ sa'[p][t].st = "held" => t \in {sa'[p][kids'[p]].new, sa'[p][kids'[p]].coll}
             /\ Aged(sa[p][t].st, sa'[p][t].st)
  <2>1. CASE t = n
    BY <1>1, <2>1 DEF Succeeds, Aged, Over
  <2>2. CASE t # n /\ t # s /\ sa[p][t].st # "held" /\ sa'[p][t] = sa[p][t]
    BY <1>1, <2>2 DEF Local, Aged
  <2>3. CASE t # n /\ (t = s \/ sa[p][t].st = "held") /\ Closed(sa'[p][t])
    BY <1>1, <1>2, <2>3 DEF Closed, Aged, Over
  <2> QED BY <2>1, <2>2, <2>3 DEF Succeeds
<1> QED BY <1>1, <1>3 DEF Local, Ages

LEMMA SucceedsWired ==
  ASSUME Inv, NEW p \in Peers, NEW q, q = Other(p), NEW s, NEW n, NEW taken, NEW sent,
         Local(p), \A m \in net : Wired(m), Succeeds(p, s, n), Moved(p, taken, sent),
         NoRequest(q), \A k \in net : k.kind = "rekey_failed" => k.new # n,
         \A k \in sent : k.kind # "rekey" /\ Wired(k)'
  PROVE  \A m \in net' : Wired(m)'
<1>1. q \in Peers /\ Other(q) = p /\ q # p
  BY TwoPeers
<1>2. Ages(p)
  BY SucceedsLocal
<1>3. KeepsWord(p, taken, sent)
  <2>1. ASSUME NEW k \in net, k.kind = "rekey_failed", k.to = q
        PROVE  sa'[p][k.new].st = "none"
    <3>1. sa[p][k.new].st = "none" /\ k.new \in SAs /\ k.new # n
      BY <1>1, <2>1, NewSAs DEF Wired
    <3>2. k.new # s
      BY <3>1 DEF Local, Succeeds
    <3> QED BY <3>1, <3>2 DEF Succeeds
  <2>2. ASSUME NEW k \in net, k.kind = "rekey", k.to = q, sa[q][k.sa].st \notin Over
        PROVE  FALSE
    BY <2>2 DEF NoRequest
  <2> QED BY <2>1, <2>2 DEF KeepsWord
<1> QED BY <1>2, <1>3, WiredStep

LEMMA Succession ==
  ASSUME Inv, Calmed, NEW p \in Peers, NEW q, q = Other(p), NEW s, NEW n, NEW taken, NEW sent,
         Succeeds(p, s, n), Moved(p, taken, sent),
         NoRequest(q), \A k \in net : k.kind = "rekey_failed" => k.new # n,
         \A k \in sent : k.kind # "rekey" /\ Wired(k)',
         \A t \in SAs \ {n} : (t = s \/ sa[p][t].st = "held")
           => \/ sa'[p][t].st # "rekeyed" \/ sa'[p][t].job
              \/ sa[q][t].st \in {"rekeying", "deleting"},
         \/ sa[q][s].st # "rekeyed" \/ sa[p][s].st # "rekeying" \/ sa'[p][s].st = "deleting",
         Phase'
  PROVE  Calmed'
<1>1. /\ Local(p) /\ Local(q) /\ \A r \in Peers : Left(r)
      /\ \A m \in net : Wired(m)
  BY CalmedIs
<1>2. sa'[q] = sa[q]
  BY DEF Moved
<1>3. Local(p)'
  BY <1>1, SucceedsLocal
<1>4. \A r \in Peers : Left(r)'
  <2>1. ASSUME NEW t \in SAs, sa'[p][t].st = "rekeyed", ~sa'[p][t].job
        PROVE  \/ sa[p][t].st = "rekeyed" /\ ~sa[p][t].job
               \/ sa[q][t].st \in {"rekeying", "deleting"}
    BY <2>1 DEF Succeeds
  <2>2. ASSUME NEW t \in SAs, sa[q][t].st = "rekeyed",
               sa[p][t].st \in {"rekeying", "deleting"}
        PROVE  sa'[p][t].st \in {"rekeying", "deleting"}
    <3>1. CASE t = s
      <4>1. sa[p][s].st \in {"established", "rekeying"}
        BY <1>1 DEF Local, Succeeds
      <4> QED BY <2>2, <3>1, <4>1
    <3>2. CASE t # s
      BY <2>2, <3>2 DEF Succeeds
    <3> QED BY <3>1, <3>2
  <2> QED BY <1>1, <1>2, <2>1, <2>2, LeftStep
<1>5. \A m \in net' : Wired(m)'
  BY <1>1, SucceedsWired
<1> QED BY <1>1, <1>3, <1>4, <1>5, CalmedAgain

\* The peer behind catches up.
LEMMA Reunited ==
  ASSUME Inv, NEW p \in Peers, NEW q, q = Other(p), NEW s, NEW n, NEW taken, NEW sent,
         Local(p), Local(q), \A m \in net : Wired(m), Succeeds(p, s, n), Moved(p, taken, sent),
         Behind(p, q, s, n), \A k \in sent : k.kind # "rekey_ok"
  PROVE  Phase'
<1>1. q \in Peers /\ Other(q) = p /\ q # p /\ \A r \in Peers : r = p \/ r = q
  BY TwoPeers
<1>2. sa'[q] = sa[q] /\ kids'[q] = kids[q] /\ net' = (net \ taken) \cup sent
  BY DEF Moved
<1>3. n \in SAs /\ kids'[p] = n /\ sa'[p][n].st = "established" /\ ~sa'[p][n].met
  BY DEF Succeeds
<1>4. Together(p, q, n)'
  BY <1>3 DEF Together
<1>5. kids[q] = n /\ ~sa[q][n].met
  BY DEF Behind
<1>6. ASSUME NEW k \in net', k.to = q, k.sa = n, k.kind = "rekey_ok" PROVE FALSE
  <2>1. k \in net
    BY <1>2, <1>6
  <2>2. sa[p][n].st \notin {"none", "held"}
    BY <1>1, <1>6, <2>1 DEF Wired
  <2> QED BY <2>2 DEF Succeeds
<1>7. Together(q, p, n)'
  BY <1>2, <1>5, <1>6 DEF Together, Has
<1> QED BY <1>1, <1>3, <1>4, <1>7 DEF Phase

\* Peer p, which does not rekey s itself, accepts the request of the other one.
LEMMA Yielded ==
  ASSUME Inv, Calmed, NEW p \in Peers, NEW q, q = Other(p), NEW m, NEW s, NEW n,
         Request(p, m, s, n), sa[p][s].st = "established", Succeeds(p, s, n),
         sa'[p][s].st = "rekeyed", sa'[p][s].job,
         Moved(p, {m}, {Message(q, s, "rekey_ok", n)})
  PROVE  Calmed'
<1>1. /\ Local(p) /\ Local(q) /\ \A k \in net : Wired(k)
      /\ q \in Peers /\ Other(q) = p /\ q # p /\ \A r \in Peers : r = p \/ r = q
  BY CalmedIs
<1>2. PICK r : r = Message(q, s, "rekey_ok", n)
  OBVIOUS
<1>3. r.to = q /\ r.sa = s /\ r.kind = "rekey_ok" /\ r.new = n
  BY <1>2 DEF Message
<1>4. /\ sa'[q] = sa[q] /\ kids'[q] = kids[q] /\ nonce' = nonce
      /\ net' = (net \ {m}) \cup {r} /\ Moved(p, {m}, {r})
  BY <1>2 DEF Moved
<1>5. /\ sa[q][s].st = "rekeying" /\ sa[q][s].new = n /\ kids[q] = s
      /\ Together(p, q, s) /\ Together(q, p, s)
      /\ \A k \in net : k.kind = "rekey_failed" => k.new # n
      /\ n \in New(q) /\ n \in SAs /\ n # s /\ sa[q][n].st # "none"
  BY Requested DEF Waiting
<1>6. s \in SAs /\ kids[p] = s /\ kids'[p] = n /\ sa'[p][n].st = "established" /\ ~sa'[p][n].met
  BY DEF Succeeds
<1>7. \A t \in SAs : sa[p][t].st # "held"
  <2>1. sa[p][s].new = NoSA /\ sa[p][s].coll = NoSA
    BY <1>1, <1>6, InUse
  <2> QED BY <1>1, <1>6, <2>1, NewSAs DEF Local
<1>8. NoRequest(q)
  <2>1. ASSUME NEW k \in net, k.kind = "rekey", k.to = q, sa[q][k.sa].st \notin Over PROVE FALSE
    <3>1. sa[p][k.sa].st = "rekeying" /\ k.sa \in SAs
      BY <1>1, <2>1, Travelling DEF Wired
    <3> QED BY <1>1, <1>6, <3>1 DEF Local
  <2> QED BY <2>1 DEF NoRequest
<1>9. Wired(r)'
  BY <1>1, <1>3, <1>4, <1>5, <1>6 DEF Wired
<1>10. Behind(q, p, s, n)'
  <2>1. ~HasDelete(q, s)
    BY <1>1 DEF HasDelete, Wired
  <2>2. ~HasDelete(q, s)'
    BY <1>3, <1>4, <2>1 DEF HasDelete
  <2>3. Has(q, s, "rekey_ok", n)'
    BY <1>3, <1>4 DEF Has
  <2>4. ~sa[q][s].met
    BY <1>5 DEF Together
  <2>5. Granted(q, p, s, n)'
    BY <1>4, <1>5, <2>2, <2>3, <2>4 DEF Granted
  <2> QED BY <1>4, <1>5, <1>6, <2>5 DEF Behind
<1>11. Phase'
  BY <1>1, <1>5, <1>6, <1>10 DEF Phase
<1> QED BY <1>3, <1>4, <1>5, <1>7, <1>8, <1>9, <1>11, Succession

\* An answer to the request of p to rekey s to a.
Answer(p, m, kind, s, a) ==
  /\ m \in net /\ m.to = p /\ m.kind = kind /\ m.sa = s /\ m.new = a
  /\ s \in SAs /\ sa[p][s].st = "rekeying" /\ sa[p][s].new = a

LEMMA AnswerIs ==
  ASSUME Inv, Calmed, NEW p \in Peers, NEW q, q = Other(p),
         NEW kind \in {"rekey_ok", "rekey_failed"}, NEW m, NEW s, NEW a,
         Answer(p, m, kind, s, a)
  PROVE  /\ kids[p] = s /\ NoRequest(q) /\ sa[q][s].st \notin {"none", "held"}
         /\ (Together(p, q, s) /\ Together(q, p, s)) \/ Behind(p, q, s, kids[q])
<1>1. /\ Local(p) /\ Local(q) /\ Phase /\ \A k \in net : Wired(k)
      /\ q \in Peers /\ Other(q) = p /\ q # p /\ \A r \in Peers : r = p \/ r = q
  BY CalmedIs
<1>2. kids[p] = s
  BY <1>1 DEF Local, Answer
<1>3. /\ sa[q][s].st \notin {"none", "held"}
      /\ kind = "rekey_ok" => sa[q][a].st # "none"
      /\ kind = "rekey_failed" => \A k \in net : k.kind = "rekey" => k.new # a
  BY <1>1 DEF Answer, Wired
<1>4. NoRequest(q)
  <2>1. ASSUME NEW k \in net, k.kind = "rekey", k.to = q, sa[q][k.sa].st \notin Over PROVE FALSE
    <3>1. sa[p][k.sa].st = "rekeying" /\ sa[p][k.sa].new = k.new /\ k.sa \in SAs
          /\ sa[q][k.new].st = "none"
      BY <1>1, <2>1, Travelling DEF Wired
    <3>2. k.sa = s
      BY <1>1, <1>2, <3>1 DEF Local
    <3>3. k.new = a
      BY <3>1, <3>2 DEF Answer
    <3> QED BY <1>3, <2>1, <3>1, <3>3
  <2> QED BY <2>1 DEF NoRequest
<1>5. ~Behind(q, p, kids[q], s)
  BY <1>1, <1>3, HeldBehind
<1>6. \/ Together(p, q, s) /\ Together(q, p, s)
      \/ Behind(p, q, s, kids[q]) \/ Behind(q, p, kids[q], s)
  BY <1>1, <1>2, Where
<1> QED BY <1>2, <1>3, <1>4, <1>5, <1>6

\* Peer p has met the other's rekeying, to c, and its own is of no use: c it is.
\* The other peer then is behind, or has taken c already.
LEMMA Adopted ==
  ASSUME Inv, Calmed, NEW p \in Peers, NEW q, q = Other(p), NEW m, NEW s, NEW a, NEW c,
         NEW sent, s \in SAs, sa[p][s].st = "rekeying", sa[p][s].met, c = sa[p][s].coll,
         a = sa[p][s].new, Succeeds(p, s, c), Moved(p, {m}, sent), m.to = p,
         \A k \in sent : k.kind \notin {"rekey", "rekey_ok"} /\ Wired(k)',
         \A k \in sent : k.sa = s => k.kind # "delete",
         NoRequest(q), sa'[p][a].st # "rekeyed",
         \/ /\ Together(p, q, s) /\ Together(q, p, s) /\ sa'[p][s].st = "rekeyed"
            /\ sa[q][s].met => nonce[a] < nonce[c]
         \/ Taken(p, q, s, kids[q]) /\ Behind(p, q, s, kids[q])
  PROVE  Calmed'
<1>1. /\ Local(p) /\ Local(q) /\ \A k \in net : Wired(k)
      /\ q \in Peers /\ Other(q) = p /\ q # p /\ \A r \in Peers : r = p \/ r = q
  BY CalmedIs
<1>2. /\ sa'[q] = sa[q] /\ kids'[q] = kids[q] /\ nonce' = nonce
      /\ net' = (net \ {m}) \cup sent
  BY DEF Moved
<1>3. s = kids[p] /\ kids'[p] = c /\ c \in SAs /\ sa'[p][c].st = "established" /\ ~sa'[p][c].met
  BY DEF Succeeds
<1>4. c \in New(q) /\ sa[p][c].st = "held" /\ \A t \in SAs : sa[p][t].st = "held" => t \in {a, c}
  <2>1. c \in New(q) /\ sa[p][c].st = "held"
    BY <1>1, <1>3, InUse
  <2>2. \A t \in SAs : sa[p][t].st = "held" => t \in {sa[p][s].new, sa[p][s].coll}
    BY <1>1, <1>3 DEF Local
  <2> QED BY <2>1, <2>2
<1>5. \A k \in net : k.kind = "rekey_failed" => k.new # c
  <2>1. SUFFICES ASSUME NEW k \in net, k.kind = "rekey_failed", k.new = c PROVE FALSE
    OBVIOUS
  <2>2. k.to \in Peers /\ k.new \in New(k.to) /\ sa[Other(k.to)][k.new].st = "none"
    BY <1>1, <2>1, Travelling DEF Wired
  <2>3. k.to = q
    BY <1>1, <1>4, <2>1, <2>2, NewSAs
  <2> QED BY <1>1, <1>4, <2>1, <2>2, <2>3
<1>6. sa[q][s].st \in {"rekeying", "deleting"}
  BY DEF Together, Taken
<1>7. Phase'
  <2>1. CASE /\ Together(p, q, s) /\ Together(q, p, s) /\ sa'[p][s].st = "rekeyed"
             /\ sa[q][s].met => nonce[a] < nonce[c]
    <3>1. /\ sa[q][s].st = "rekeying" /\ sa[q][s].new = c /\ Has(q, s, "rekey_ok", c)
          /\ kids[q] = s
      BY <2>1 DEF Together
    <3>2. sa[q][s].met => sa[q][s].coll = a
      BY <2>1 DEF Together
    <3>3. ~HasDelete(q, s)
      BY <1>1 DEF HasDelete, Wired
    <3>4. ~HasDelete(q, s)'
      BY <1>2, <3>3 DEF HasDelete
    <3>5. Has(q, s, "rekey_ok", c)'
      BY <1>1, <1>2, <3>1 DEF Has
    <3>6. Granted(q, p, s, c)'
      BY <1>2, <2>1, <3>1, <3>2, <3>4, <3>5 DEF Granted
    <3>7. Behind(q, p, s, c)'
      BY <1>2, <1>3, <3>1, <3>6 DEF Behind
    <3> QED BY <1>1, <1>3, <3>7 DEF Phase
  <2>2. CASE Taken(p, q, s, kids[q]) /\ Behind(p, q, s, kids[q])
    <3>1. kids[q] = c
      BY <2>2 DEF Taken
    <3>2. Behind(p, q, s, c)
      BY <2>2, <3>1
    <3> QED BY <1>1, <3>2, Reunited
  <2> QED BY <2>1, <2>2
<1> QED BY <1>4, <1>5, <1>6, <1>7, Succession

LEMMA Refused ==
  ASSUME Inv, Calmed, NEW p \in Peers, NEW q, q = Other(p), NEW m, NEW s, NEW a, NEW c,
         Answer(p, m, "rekey_failed", s, a), sa[p][s].met, c = sa[p][s].coll,
         Succeeds(p, s, c), Moved(p, {m}, {}),
         sa'[p][s].st = "rekeyed", sa'[p][a].st = "gone"
  PROVE  Calmed'
<1>1. Local(p) /\ Local(q) /\ q \in Peers /\ \A k \in net : Wired(k)
  BY CalmedIs
<1>2. /\ m \in net /\ m.to = p /\ s \in SAs /\ sa[p][s].st = "rekeying" /\ a = sa[p][s].new
      /\ sa[q][a].st = "none"
  BY <1>1 DEF Answer, Wired
<1>3. /\ kids[p] = s /\ NoRequest(q)
      /\ (Together(p, q, s) /\ Together(q, p, s)) \/ Behind(p, q, s, kids[q])
  BY AnswerIs
<1>4. Together(q, p, s) => ~sa[q][s].met
  <2>1. SUFFICES ASSUME Together(q, p, s), sa[q][s].met PROVE FALSE
    OBVIOUS
  <2>2. sa[q][s].coll = a /\ kids[q] = s
    BY <1>2, <2>1 DEF Together
  <2>3. sa[q][sa[q][s].coll].st = "held"
    BY <1>1, <2>1, <2>2, InUse
  <2> QED BY <1>2, <2>2, <2>3
<1>5. Behind(p, q, s, kids[q]) => Taken(p, q, s, kids[q])
  <2>1. SUFFICES ASSUME Granted(p, q, s, kids[q]) PROVE FALSE
    BY DEF Behind
  <2>2. kids[q] = a
    BY <1>2, <2>1 DEF Granted
  <2> QED BY <1>1, <1>2, <2>2 DEF Local
<1> QED BY <1>2, <1>3, <1>4, <1>5, Adopted

\* The collision is lost.
LEMMA Beaten ==
  ASSUME Inv, Calmed, Nonces, NEW p \in Peers, NEW q, q = Other(p), NEW m, NEW s, NEW a, NEW c,
         Answer(p, m, "rekey_ok", s, a), sa[p][s].met, c = sa[p][s].coll,
         nonce[a] < nonce[c], Succeeds(p, s, c), Moved(p, {m}, {Message(q, a, "delete", NoSA)}),
         sa'[p][s].st = "rekeyed", sa'[p][a].st = "deleting"
  PROVE  Calmed'
<1>1. Local(p) /\ Local(q) /\ q \in Peers /\ Other(q) = p
  BY CalmedIs
<1>2. m \in net /\ m.to = p /\ s \in SAs /\ sa[p][s].st = "rekeying" /\ a = sa[p][s].new
  BY DEF Answer
<1>3. /\ kids[p] = s /\ NoRequest(q)
      /\ (Together(p, q, s) /\ Together(q, p, s)) \/ Behind(p, q, s, kids[q])
  BY AnswerIs
<1>4. /\ a \in SAs /\ c \in SAs /\ a # First /\ c # First /\ a # s
  BY <1>1, <1>2, <1>3, InUse, NewSAs
<1>5. PICK r : r = Message(q, a, "delete", NoSA)
  OBVIOUS
<1>6. r.to = q /\ r.sa = a /\ r.kind = "delete" /\ Moved(p, {m}, {r})
  BY <1>5 DEF Message
<1>7. Wired(r)'
  BY <1>1, <1>6 DEF Wired
<1>8. Behind(p, q, s, kids[q]) => Taken(p, q, s, kids[q])
  <2>1. SUFFICES ASSUME Granted(p, q, s, kids[q]) PROVE FALSE
    BY DEF Behind
  <2>2. nonce[c] < nonce[a]
    BY <1>2, <2>1 DEF Granted
  <2>3. nonce[c] \in Nat /\ nonce[a] \in Nat
    BY <1>4 DEF Nonces
  <2> QED BY <2>2, <2>3
<1> QED BY <1>2, <1>3, <1>4, <1>6, <1>7, <1>8, Adopted

\* The collision is won, or there was none.
LEMMA Victorious ==
  ASSUME Inv, Calmed, Nonces, NEW p \in Peers, NEW q, q = Other(p), NEW m, NEW s, NEW a, NEW c,
         Answer(p, m, "rekey_ok", s, a), c = sa[p][s].coll,
         sa[p][s].met => ~(nonce[a] < nonce[c]),
         Succeeds(p, s, a), Moved(p, {m}, {Message(q, s, "delete", NoSA)}),
         sa'[p][s].st = "deleting",
         sa[p][s].met => sa'[p][c].job
  PROVE  Calmed'
<1>1. /\ Local(p) /\ Local(q) /\ q \in Peers /\ Other(q) = p /\ q # p
      /\ \A r \in Peers : r = p \/ r = q
      /\ \A k \in net : Wired(k)
  BY CalmedIs
<1>2. /\ m \in net /\ m.to = p /\ m.sa = s /\ m.kind = "rekey_ok" /\ m.new = a
      /\ s \in SAs /\ sa[p][s].st = "rekeying" /\ a = sa[p][s].new
      /\ sa[q][a].st # "none"
  BY <1>1 DEF Answer, Wired
<1>3. /\ kids[p] = s /\ NoRequest(q)
      /\ (Together(p, q, s) /\ Together(q, p, s)) \/ Behind(p, q, s, kids[q])
  BY AnswerIs
<1>4. /\ a \in SAs /\ a \in New(p) /\ a # First /\ a # s
      /\ sa[p][s].met => c \in SAs /\ c # First /\ a # c
      /\ ~sa[p][s].met => c = NoSA
      /\ \A t \in SAs : sa[p][t].st = "held" => t \in {a, c}
  BY <1>1, <1>2, <1>3, InUse, NewSAs DEF Local
<1>5. PICK r : r = Message(q, s, "delete", NoSA)
  OBVIOUS
<1>6. /\ r.to = q /\ r.sa = s /\ r.kind = "delete" /\ Moved(p, {m}, {r})
      /\ sa'[q] = sa[q] /\ kids'[q] = kids[q] /\ nonce' = nonce /\ net' = (net \ {m}) \cup {r}
  BY <1>5 DEF Message, Moved
<1>7. Wired(r)'
  BY <1>1, <1>6 DEF Wired
<1>8. \A k \in net : k.kind = "rekey_failed" => k.new # a
  <2>1. SUFFICES ASSUME NEW k \in net, k.kind = "rekey_failed", k.new = a PROVE FALSE
    OBVIOUS
  <2>2. k.to \in Peers /\ k.new \in New(k.to) /\ sa[Other(k.to)][k.new].st = "none"
    BY <1>1, <2>1, Travelling DEF Wired
  <2>3. k.to = p
    BY <1>1, <1>4, <2>1, <2>2, NewSAs
  <2> QED BY <1>1, <1>2, <2>1, <2>2, <2>3
<1>9. sa[p][s].met => nonce[c] < nonce[a]
  <2>1. SUFFICES ASSUME sa[p][s].met PROVE nonce[c] < nonce[a]
    OBVIOUS
  <2>2. nonce[c] \in Nat /\ nonce[a] \in Nat /\ nonce[a] # nonce[c]
    BY <1>4, <2>1 DEF Nonces
  <2> QED BY <2>1, <2>2
<1>10. Phase'
  <2>1. CASE Together(p, q, s) /\ Together(q, p, s)
    <3>1. Has(p, s, "rekey_ok", a)
      BY <1>2 DEF Has
    <3>2. sa[q][s].met /\ sa[q][s].coll = a /\ kids[q] = s
      BY <1>2, <2>1, <3>1 DEF Together
    <3>3. sa[q][s].st = "rekeying"
      BY <1>1, <3>2, InUse
    <3>4. HasDelete(q, s)'
      BY <1>6 DEF HasDelete
    <3>5. ASSUME Has(q, s, "rekey_ok", sa[q][s].new)' PROVE nonce[sa[q][s].new] < nonce[a]
      <4>1. Has(q, s, "rekey_ok", sa[q][s].new)
        BY <1>6, <3>5 DEF Has
      <4>2. sa[p][s].met /\ c = sa[q][s].new
        BY <2>1, <3>3, <4>1 DEF Together
      <4> QED BY <1>9, <4>2
    <3>6. Taken(q, p, s, a)'
      BY <1>6, <3>2, <3>4, <3>5 DEF Taken, Has
    <3>7. kids'[p] = a /\ ~sa'[p][a].met
      BY DEF Succeeds
    <3>8. Behind(q, p, s, a)'
      BY <1>6, <3>2, <3>3, <3>6, <3>7 DEF Behind
    <3> QED BY <1>1, <1>2, <1>4, <3>8 DEF Phase
  <2>2. CASE Behind(p, q, s, kids[q])
    <3>1. ~Taken(p, q, s, kids[q])
      <4>1. SUFFICES ASSUME Taken(p, q, s, kids[q]) PROVE FALSE
        OBVIOUS
      <4>2. Has(p, s, "rekey_ok", a)
        BY <1>2 DEF Has
      <4> QED BY <1>2, <4>1, <4>2 DEF Taken
    <3>2. kids[q] = a
      BY <1>2, <2>2, <3>1 DEF Behind, Granted
    <3>3. Behind(p, q, s, a)
      BY <2>2, <3>2
    <3> QED BY <1>1, <1>6, <3>3, Reunited
  <2> QED BY <1>3, <2>1, <2>2
<1>11. \A t \in SAs \ {a} : (t = s \/ sa[p][t].st = "held")
           => \/ sa'[p][t].st # "rekeyed" \/ sa'[p][t].job
              \/ sa[q][t].st \in {"rekeying", "deleting"}
  <2>1. NoSA \notin SAs
    BY NewSAs
  <2> QED BY <1>4, <2>1
<1> QED BY <1>3, <1>6, <1>7, <1>8, <1>10, <1>11, Succession

\* The other peer deletes the IKE_SA in use: it has replaced it.
Late(p, q, s) ==
  /\ sa[p][s].st = "rekeying" /\ sa[p][s].met
  /\ NoRequest(q) /\ Behind(p, q, s, kids[q]) /\ Taken(p, q, s, kids[q])

LEMMA Overtaken ==
  ASSUME Inv, Calmed, NEW p \in Peers, NEW q, q = Other(p), NEW m, NEW s,
         m \in net, m.to = p, m.kind = "delete", m.sa = s, s = kids[p]
  PROVE  Late(p, q, s)
<1>1. /\ Local(p) /\ Local(q) /\ q \in Peers /\ Other(q) = p /\ Phase
      /\ \A k \in net : Wired(k)
  BY CalmedIs
<1>2. s \in SAs /\ sa[q][s].st \in {"deleting", "gone"}
  BY <1>1 DEF Local, Wired
<1>3. ~Together(q, p, s)
  BY <1>1, <1>2 DEF Together, Local
<1>4. ~Behind(q, p, kids[q], s)
  BY <1>1, <1>2, HeldBehind
<1>5. Behind(p, q, s, kids[q])
  BY <1>1, <1>3, <1>4, Where
<1>6. ~Granted(p, q, s, kids[q])
  BY DEF Granted, HasDelete
<1>7. Taken(p, q, s, kids[q]) /\ sa[p][s].st = "rekeying"
  BY <1>5, <1>6 DEF Behind
<1>8. sa[p][s].met /\ kids[q] = sa[p][s].coll /\ sa[q][s].st = "deleting"
  BY <1>7 DEF Taken
<1>9. NoRequest(q)
  <2>1. ASSUME NEW k \in net, k.kind = "rekey", k.to = q, sa[q][k.sa].st \notin Over PROVE FALSE
    <3>1. sa[p][k.sa].st = "rekeying" /\ k.sa \in SAs
      BY <1>1, <2>1, Travelling DEF Wired
    <3>2. k.sa = s
      BY <1>1, <3>1 DEF Local
    <3> QED BY <1>8, <2>1, <3>2 DEF Over
  <2> QED BY <2>1 DEF NoRequest
<1> QED BY <1>5, <1>7, <1>8, <1>9 DEF Late

-----------------------------------------------------------------------------
(* The handlers.                                                             *)

LEMMA Queues ==
  ASSUME NEW p \in Peers, NEW i \in Info(p)
  PROVE  /\ \A st : In(i, st).queue = i.queue
         /\ \A task : Deleting(i, task).queue = i.queue \ {"delete"}
         /\ \A n : Asking(i, n).queue = i.queue \ {"rekey"}
         /\ Aside(i).queue = {} /\ Ended(i).queue = i.queue
         /\ \A k : Heir(i, k).queue = k
  BY DEF Info, In, Deleting, Asking, Aside, Ended, Heir

LEMMA Moving ==
  ASSUME Inv, NEW p \in Peers, NEW y, NEW taken, Commit(p, y, taken), nonce' = nonce
  PROVE  sa'[p] = y.sa /\ kids'[p] = y.kids /\ Moved(p, taken, y.sent)
<1>1. Shape /\ Other(p) \in Peers \ {p}
  BY TwoPeers DEF Inv
<1>2. /\ sa'[p] = y.sa /\ kids'[p] = y.kids /\ net' = (net \ taken) \cup y.sent
      /\ \A r \in Peers \ {p} : sa'[r] = sa[r] /\ kids'[r] = kids[r]
  BY <1>1, Committed
<1> QED BY <1>1, <1>2 DEF Moved

\* Peer p may start to rekey s.
Ready(p, x, s) ==
  /\ x \in Side(p) /\ s \in SAs /\ kids[p] = s /\ x.kids = s /\ x.sent = {}
  /\ ~sa[p][s].met /\ x.sa[s].st = "established" /\ ~x.sa[s].met /\ x.sa[s].coll = NoSA
  /\ ~x.sa[s].job /\ x.sa[s].task = "none"
  /\ "delete" \notin x.sa[s].queue
  /\ \A t \in SAs \ {s} : \/ sa[p][t].st # "held" /\ x.sa[t] = sa[p][t]
                          \/ sa[p][t].st = "held" /\ x.sa[t] = GoneSA

LEMMA ReadyStarts ==
  ASSUME Inv, NEW p \in Peers, NEW x, NEW s, Ready(p, x, s), NEW y \in Initiate(p, x, s),
         sa'[p] = y.sa, kids'[p] = y.kids
  PROVE  \E n : Starts(p, s, n, y.sent)
<1>1. /\ x \in Side(p) /\ s \in SAs /\ kids[p] = s /\ x.kids = s /\ x.sent = {}
      /\ ~sa[p][s].met /\ x.sa[s].st = "established" /\ ~x.sa[s].met /\ x.sa[s].coll = NoSA
      /\ ~x.sa[s].job /\ x.sa[s].task = "none"
      /\ "delete" \notin x.sa[s].queue
  BY DEF Ready
<1>2. \A t \in SAs \ {s} : \/ sa[p][t].st # "held" /\ x.sa[t] = sa[p][t]
                           \/ sa[p][t].st = "held" /\ x.sa[t] = GoneSA
  BY DEF Ready
<1>3. CASE y = x
  <2>1. Starts(p, s, NoSA, y.sent)
    BY <1>1, <1>2, <1>3 DEF Starts
  <2> QED BY <2>1
<1>4. ASSUME NEW n \in New(p), x.sa[n].st = "none", y = SendRekey(p, x, s, n)
      PROVE  Starts(p, s, n, y.sent)
  <2>1. n \in SAs /\ n # s
    BY <1>1, <1>4, NewSAs
  <2>2. sa[p][n].st = "none" /\ x.sa[n] = sa[p][n]
    <3>1. GoneSA.st = "gone"
      BY GoneIs
    <3> QED BY <1>2, <1>4, <2>1, <3>1
  <2>3. PICK i, j : i = Asking(x.sa[s], n) /\ j = In(x.sa[n], "held")
    OBVIOUS
  <2>4. /\ y.kids = x.kids /\ Both(x, y, s, i, n, j)
        /\ y.sent = x.sent \cup {[to |-> Other(p), sa |-> s, kind |-> "rekey", new |-> n]}
    BY <1>1, <1>4, <2>1, <2>3, SendRekeyIs
  <2>5. x.sa[s] \in Info(p) /\ x.sa[n] \in Info(p)
    BY <1>1, <2>1, Fields
  <2>6. /\ i.st = "rekeying" /\ i.task = "rekey" /\ i.new = n /\ i.coll = NoSA /\ ~i.met
        /\ ~i.job /\ "delete" \notin i.queue
    BY <1>1, <2>3, <2>5, Becoming, Queues
  <2>7. Fine(sa[p], n)
    BY <2>1, Start
  <2>8. j.st = "held" /\ Bare(j)
    <3>1. Bare(sa[p][n])
      BY <2>2, <2>7 DEF Fine
    <3>2. /\ j.st = "held" /\ j.task = x.sa[n].task /\ j.new = x.sa[n].new
          /\ j.coll = x.sa[n].coll /\ j.met = x.sa[n].met /\ j.job = x.sa[n].job
          /\ j.rekeyed = x.sa[n].rekeyed /\ j.queue = x.sa[n].queue
      BY <2>3, <2>5, Becoming
    <3> QED BY <2>2, <3>1, <3>2 DEF Bare
  <2>9. y.sent = {Message(Other(p), s, "rekey", n)}
    BY <1>1, <2>4 DEF Message
  <2>10. y.sa[s] = i /\ y.sa[n] = j /\ \A t \in SAs \ {s, n} : y.sa[t] = x.sa[t]
    BY <2>4 DEF Both
  <2> QED BY <1>1, <1>2, <2>1, <2>2, <2>4, <2>6, <2>8, <2>9, <2>10 DEF Starts
<1> QED BY <1>1, <1>3, <1>4 DEF Initiate

LEMMA Unheld ==
  ASSUME Inv, NEW p \in Peers, Local(p), sa[p][kids[p]].st = "established"
  PROVE  \A t \in SAs : sa[p][t].st # "held"
<1>1. sa[p][kids[p]].new = NoSA /\ sa[p][kids[p]].coll = NoSA
  BY InUse
<1> QED BY <1>1, NewSAs DEF Local

LEMMA Launched ==
  ASSUME Inv, Calmed, NEW p \in Peers, NEW s, s = kids[p], sa[p][s].st = "established",
         NEW x, Ready(p, x, s), NEW y \in Initiate(p, x, s), Commit(p, y, {}), nonce' = nonce
  PROVE  Calmed'
<1>1. PICK q : q = Other(p)
  OBVIOUS
<1>2. /\ Local(p) /\ Local(q) /\ Phase /\ q \in Peers /\ Other(q) = p
      /\ \A k \in net : Wired(k)
  BY <1>1, CalmedIs
<1>3. sa'[p] = y.sa /\ kids'[p] = y.kids /\ Moved(p, {}, y.sent)
  BY Moving
<1>4. PICK n : Starts(p, s, n, y.sent)
  BY <1>3, ReadyStarts
<1>5. NoRequest(q)
  <2>1. ASSUME NEW k \in net, k.kind = "rekey", k.to = q, sa[q][k.sa].st \notin Over PROVE FALSE
    <3>1. sa[p][k.sa].st = "rekeying" /\ k.sa \in SAs
      BY <1>2, <2>1, Travelling DEF Wired
    <3> QED BY <1>2, <3>1 DEF Local
  <2> QED BY <2>1 DEF NoRequest
<1>6. Together(q, p, s) => ~sa[q][s].met
  BY DEF Together
<1>7. ~Behind(p, q, s, kids[q])
  BY DEF Behind
<1>8. \/ Together(p, q, s) /\ Together(q, p, s)
      \/ Behind(p, q, s, kids[q]) \/ Behind(q, p, kids[q], s)
  BY <1>1, <1>2, Where
<1> QED BY <1>1, <1>3, <1>4, <1>5, <1>6, <1>7, <1>8, Started

LEMMA RekeyCalm ==
  ASSUME Inv, Calmed, NEW p \in Peers, NEW s \in SAs, Rekey(p, s)
  PROVE  Calmed'
<1>1. PICK q : q = Other(p)
  OBVIOUS
<1>2. Local(p) /\ Local(q) /\ q \in Peers /\ nonce' = nonce
  BY <1>1, CalmedIs DEF Rekey
<1>3. sa[p][s].st \in {"established", "rekeying"} /\ s = kids[p]
  BY <1>2 DEF Rekey, Local
<1>4. PICK w \in Side(p) : w = Me(p) /\ w.sa = sa[p] /\ w.kids = kids[p] /\ w.sent = {}
  BY Start, MeIs DEF Me
<1>5. PICK x : x = [w EXCEPT !.sa[s].queue = @ \cup {"rekey"}]
  OBVIOUS
<1>6. PICK y \in Initiate(p, x, s) : Commit(p, y, {})
  BY <1>4, <1>5 DEF Rekey
<1>7. PICK i : i = [w.sa[s] EXCEPT !.queue = @ \cup {"rekey"}]
  OBVIOUS
<1>8. /\ i \in Info(p) /\ i.queue = sa[p][s].queue \cup {"rekey"} /\ SameButQueue(sa[p][s], i)
  BY <1>4, <1>7, Fields DEF Info, SameButQueue, SameUse
<1>9. x = Put(w, s, i)
  BY <1>5, <1>7 DEF Put, Side
<1>10. x \in Side(p) /\ Only(w, x, s, i) /\ x.sent = {}
  BY <1>4, <1>8, <1>9, Updated
<1>11. /\ "delete" \notin i.queue /\ ~i.job
  BY <1>2, <1>3, <1>8 DEF Local, SameButQueue
<1>12. Fine(sa[p], s)
  BY Start
<1>13. CASE sa[p][s].st = "rekeying"
  <2>1. x.sa[s].task = "rekey"
    BY <1>8, <1>10, <1>12, <1>13 DEF Fine, Only, SameButQueue
  <2>2. y = x
    BY <1>6, <2>1 DEF Initiate
  <2>3. sa'[p] = x.sa /\ kids'[p] = kids[p] /\ Moved(p, {}, {})
    BY <1>2, <1>4, <1>6, <1>10, <2>2, Moving DEF Only
  <2>4. sa'[p][s] = i /\ \A t \in SAs \ {s} : sa'[p][t] = sa[p][t]
    BY <1>4, <1>10, <2>3 DEF Only
  <2>5. \A t \in SAs : SameButQueue(sa[p][t], sa'[p][t])
    BY <1>8, <2>4 DEF SameButQueue, SameUse
  <2>6. \A t \in SAs : "delete" \notin sa'[p][t].queue /\ (sa'[p][t].queue # {} => t = kids[p])
    BY <1>2, <1>3, <1>11, <2>4 DEF Local
  <2>7. Untouched(p, kids[p], {}, {}) /\ Untouched(q, kids[q], {}, {})
    BY DEF Untouched
  <2> QED BY <1>1, <2>3, <2>5, <2>6, <2>7, Resting
<1>14. CASE sa[p][s].st = "established"
  <2>1. ~sa[p][s].met /\ sa[p][s].coll = NoSA
    BY <1>2, <1>3, <1>14, InUse
  <2>2. sa[p][s].task = "none"
    <3>1. sa[p][s].task \in Tasks
      BY <1>4, Fields
    <3> QED BY <1>2, <1>3, <1>12, <1>14, <3>1 DEF Fine, Local, Tasks
  <2>3. Ready(p, x, s)
    BY <1>2, <1>3, <1>4, <1>8, <1>10, <1>11, <1>14, <2>1, <2>2, Unheld
       DEF Ready, Only, SameButQueue, SameUse
  <2> QED BY <1>2, <1>3, <1>6, <1>14, <2>3, Launched
<1> QED BY <1>3, <1>13, <1>14

LEMMA InitiateTasksCalm ==
  ASSUME Inv, Calmed, NEW p \in Peers, NEW s \in SAs, InitiateTasks(p, s)
  PROVE  Calmed'
<1>1. PICK y \in Initiate(p, Me(p), s) : Commit(p, y, {})
  BY DEF InitiateTasks
<1>2. Local(p) /\ nonce' = nonce
  BY CalmedIs DEF InitiateTasks
<1>3. s = kids[p] /\ sa[p][s].task = "none"
  BY <1>2 DEF InitiateTasks, Local
<1>4. /\ Me(p) \in Side(p) /\ Me(p).sa = sa[p] /\ Me(p).kids = kids[p] /\ Me(p).sent = {}
      /\ Fine(sa[p], s)
  BY Start, MeIs DEF Me
<1>5. sa[p][s].st = "established"
  BY <1>2, <1>3, <1>4 DEF Local, Fine
<1>6. ~sa[p][s].met /\ sa[p][s].coll = NoSA
  BY <1>2, <1>3, <1>5, InUse
<1>7. Ready(p, Me(p), s)
  BY <1>2, <1>3, <1>4, <1>5, <1>6, Unheld DEF Ready, Local
<1> QED BY <1>1, <1>2, <1>3, <1>5, <1>7, Launched

\* Peer p takes the IKE_SA c of the collision, and is done with its task.
LEMMA Taking ==
  ASSUME Inv, NEW p \in Peers, Local(p), NEW s \in SAs, NEW a, NEW c,
         sa[p][s].st = "rekeying", sa[p][s].met, a = sa[p][s].new, c = sa[p][s].coll,
         NEW x \in Side(p), x.kids = kids[p], \A t \in SAs \ {a} : x.sa[t] = sa[p][t],
         x.sa[a] = sa[p][a] \/ (Closed(x.sa[a]) /\ x.sa[a].st # "held"),
         NEW y \in Initiate(p, EndRekey(Establish(x, s, c), s), s),
         sa'[p] = y.sa, kids'[p] = y.kids
  PROVE  /\ Succeeds(p, s, c) /\ y.sent = x.sent /\ sa'[p][s].st = "rekeyed"
         /\ sa'[p][a] = IF x.sa[a].st = "held" THEN GoneSA ELSE x.sa[a]
<1>1. kids[p] = s /\ ~sa[p][s].job
  BY DEF Local
<1>2. /\ a \in SAs /\ c \in SAs /\ a # s /\ c # s /\ c # a /\ NoSA \notin SAs
      /\ sa[p][a].st = "held" /\ sa[p][c].st = "held" /\ Bare(sa[p][c])
  BY <1>1, InUse, NewSAs
<1>3. x.sa[s] = sa[p][s] /\ x.sa[c] = sa[p][c] /\ x.sa[s] \in Info(p) /\ x.sa[c] \in Info(p)
  BY <1>2, Fields
<1>4. PICK u, e : u = Establish(x, s, c) /\ e = EndRekey(u, s)
  OBVIOUS
<1>5. PICK i, j : i = Aside(x.sa[s]) /\ j = Heir(x.sa[c], x.sa[s].queue)
  OBVIOUS
<1>6. /\ u \in Side(p) /\ u.kids = c /\ u.sent = x.sent
      /\ u.sa[s] = i /\ u.sa[c] = j /\ \A t \in SAs \ {s, c} : u.sa[t] = x.sa[t]
  <2>1. /\ u \in Side(p) /\ u.kids = (IF x.kids = s THEN c ELSE x.kids) /\ u.sent = x.sent
        /\ Both(x, u, s, i, c, j)
    BY <1>2, <1>4, <1>5, EstablishIs
  <2> QED BY <1>1, <2>1 DEF Both
<1>7. /\ i.st = "rekeyed" /\ i.new = a /\ i.coll = c /\ ~i.job /\ i.queue = {}
  BY <1>1, <1>3, <1>5, Becoming, Queues
<1>8. /\ j.st = "established" /\ j.task = "none" /\ j.coll = NoSA /\ ~j.met /\ ~j.job
      /\ j.queue = sa[p][s].queue
  <2>1. PICK o : o = x.sa[c] /\ o \in Info(p) /\ Bare(o)
    BY <1>2, <1>3
  <2>2. /\ j.st = "established" /\ j.task = o.task /\ j.coll = o.coll /\ j.met = o.met
        /\ j.job = o.job /\ j.queue = sa[p][s].queue
    BY <1>3, <1>5, <2>1 DEF Heir, Info
  <2> QED BY <2>1, <2>2 DEF Bare
<1>9. /\ e \in Side(p) /\ e.kids = c /\ e.sent = x.sent
      /\ \A t \in SAs : e.sa[t] = IF t = s THEN Ended(u.sa[s])
                                  ELSE IF t \in HeldBy(u, s) THEN GoneSA ELSE u.sa[t]
  BY <1>4, <1>6, <1>7, EndRekeyIs
<1>10. PICK k : k = Ended(i)
  OBVIOUS
<1>11. /\ k.st = "rekeyed" /\ k.task = "none" /\ k.coll = NoSA /\ ~k.job /\ k.queue = {}
  <2>1. i \in Info(p)
    BY <1>6, Fields
  <2> QED BY <1>7, <1>10, <2>1, Becoming, Queues
<1>12. e.sa[s] = k
  BY <1>6, <1>9, <1>10
<1>13. y = e
  BY <1>4, <1>11, <1>12 DEF Initiate
<1>14. HeldBy(u, s) = {t \in {a, c} : u.sa[t].st = "held"}
  BY <1>2, <1>6, <1>7 DEF HeldBy
<1>15. sa'[p][c] = j
  BY <1>2, <1>6, <1>8, <1>9, <1>13, <1>14
<1>16. sa'[p][a] = IF x.sa[a].st = "held" THEN GoneSA ELSE x.sa[a]
  BY <1>2, <1>6, <1>9, <1>13, <1>14
<1>17. \A t \in SAs \ {s, a, c} : sa'[p][t] = sa[p][t] /\ sa[p][t].st # "held"
  <2>1. ASSUME NEW t \in SAs \ {s, a, c} PROVE sa'[p][t] = sa[p][t] /\ sa[p][t].st # "held"
    <3>1. t \notin HeldBy(u, s)
      BY <1>14
    <3>2. sa'[p][t] = u.sa[t] /\ u.sa[t] = x.sa[t] /\ x.sa[t] = sa[p][t]
      BY <1>6, <1>9, <1>13, <3>1
    <3>3. sa[p][t].st # "held"
      BY <1>1 DEF Local
    <3> QED BY <3>2, <3>3
  <2> QED BY <2>1
<1>18. Closed(sa'[p][s])
  BY <1>11, <1>12, <1>13 DEF Closed, Over
<1>19. Closed(sa'[p][a])
  <2>1. Closed(GoneSA)
    BY GoneIs DEF Closed, Over, Bare
  <2> QED BY <1>2, <1>16, <2>1
<1>20. "delete" \notin sa'[p][c].queue
  BY <1>8, <1>15 DEF Local
<1>21. Succeeds(p, s, c)
  BY <1>1, <1>2, <1>8, <1>9, <1>13, <1>15, <1>17, <1>18, <1>19, <1>20 DEF Succeeds
<1> QED BY <1>9, <1>11, <1>12, <1>13, <1>16, <1>21

LEMMA AnswerOf ==
  ASSUME Inv, NEW p \in Peers, NEW m, NEW kind \in {"rekey_ok", "rekey_failed"},
         Answers(p, m, kind), NEW s, NEW a, s = m.sa, a = m.new
  PROVE  Answer(p, m, kind, s, a)
<1>1. /\ m \in net /\ m.to = p /\ m.kind = kind /\ sa[p][s].task = "rekey"
      /\ sa[p][s].new = a
  BY DEF Answers
<1>2. s \in SAs
  BY <1>1, Travelling
<1>3. Fine(sa[p], s)
  BY <1>2, Start
<1> QED BY <1>1, <1>2, <1>3 DEF Answer, Fine

LEMMA RekeyFailedCalm ==
  ASSUME Inv, Calmed, NEW p \in Peers, NEW m, RekeyFailed(p, m)
  PROVE  Calmed'
<1>1. PICK q, s, a : q = Other(p) /\ s = m.sa /\ a = m.new
  OBVIOUS
<1>2. Local(p) /\ Local(q) /\ q \in Peers /\ nonce' = nonce /\ \A k \in net : Wired(k)
  BY <1>1, CalmedIs DEF RekeyFailed
<1>3. Answer(p, m, "rekey_failed", s, a)
  BY <1>1, AnswerOf DEF RekeyFailed
<1>4. /\ kids[p] = s /\ NoRequest(q)
      /\ (Together(p, q, s) /\ Together(q, p, s)) \/ Behind(p, q, s, kids[q])
  BY <1>1, <1>3, AnswerIs
<1>5. /\ m \in net /\ m.to = p /\ m.kind = "rekey_failed" /\ s \in SAs
      /\ sa[p][s].new = a /\ sa[p][s].st = "rekeying"
  BY <1>3 DEF Answer
<1>6. sa[p][a].st = "held" /\ a # s /\ a \in SAs
  BY <1>2, <1>4, <1>5, InUse
<1>7. PICK w \in Side(p) : w = Me(p) /\ w.sa = sa[p] /\ w.kids = kids[p] /\ w.sent = {}
  BY Start, MeIs DEF Me
<1>8. PICK x : x = IF sa[p][s].met THEN ConcludeUndetected(w, s)
                   ELSE [w EXCEPT !.sa[s].st = "established"]
  OBVIOUS
<1>9. PICK y \in Initiate(p, EndRekey(x, s), s) : Commit(p, y, {m})
  BY <1>1, <1>7, <1>8 DEF RekeyFailed
<1>10. sa'[p] = y.sa /\ kids'[p] = y.kids /\ Moved(p, {m}, y.sent)
  BY <1>2, <1>9, Moving
<1>11. CASE sa[p][s].met
  <2>1. PICK c : c = sa[p][s].coll
    OBVIOUS
  <2>2. x = Establish(w, s, c)
    BY <1>7, <1>8, <1>11, <2>1 DEF ConcludeUndetected
  <2>3. /\ Succeeds(p, s, c) /\ y.sent = w.sent /\ sa'[p][s].st = "rekeyed"
        /\ sa'[p][a] = IF w.sa[a].st = "held" THEN GoneSA ELSE w.sa[a]
    BY <1>2, <1>4, <1>5, <1>6, <1>7, <1>9, <1>10, <1>11, <2>1, <2>2, Taking
  <2>4. sa'[p][a].st = "gone" /\ Moved(p, {m}, {})
    BY <1>4, <1>5, <1>6, <1>7, <1>10, <2>3, GoneIs
  <2> QED BY <1>1, <1>3, <1>11, <2>1, <2>3, <2>4, Refused
<1>12. CASE ~sa[p][s].met
  <2>1. PICK i : i = In(w.sa[s], "established")
    OBVIOUS
  <2>2. w.sa[s] \in Info(p) /\ i \in Info(p)
    BY <1>4, <1>5, <1>6, <1>7, <2>1, Fields, Becomes DEF States
  <2>3. x = Put(w, s, i)
    BY <1>8, <1>12, <2>1 DEF Put, In, Side
  <2>4. x \in Side(p) /\ Only(w, x, s, i) /\ x.sent = {}
    BY <1>4, <1>5, <1>6, <1>7, <2>2, <2>3, Updated
  <2>5. /\ i.st = "established" /\ i.new = a /\ i.coll = sa[p][s].coll /\ i.job = sa[p][s].job
        /\ i.queue = sa[p][s].queue
    BY <1>4, <1>5, <1>6, <1>7, <2>1, <2>2, Becoming
  <2>6. PICK e, k : e = EndRekey(x, s) /\ k = Ended(i)
    OBVIOUS
  <2>7. /\ e \in Side(p) /\ e.kids = s /\ e.sent = {}
        /\ \A t \in SAs : e.sa[t] = IF t = s THEN k
                                    ELSE IF t \in HeldBy(x, s) THEN GoneSA ELSE x.sa[t]
    BY <1>4, <1>5, <1>6, <1>7, <2>4, <2>5, <2>6, EndRekeyIs DEF Only
  <2>8. /\ k.st = "established" /\ k.task = "none" /\ k.coll = NoSA /\ ~k.met
        /\ k.job = sa[p][s].job /\ k.queue = sa[p][s].queue
    BY <2>2, <2>5, <2>6, Becoming, Queues
  <2>9. sa[p][s].coll = NoSA /\ ~sa[p][s].job /\ "delete" \notin sa[p][s].queue
    BY <1>2, <1>4, <1>5, <1>6, <1>12 DEF Local
  <2>10. HeldBy(x, s) = {a}
    BY <1>4, <1>5, <1>6, <1>7, <2>4, <2>5, <2>9, NewSAs DEF HeldBy, Only
  <2>11. ASSUME NEW t \in SAs \ {s}
         PROVE  \/ sa[p][t].st # "held" /\ e.sa[t] = sa[p][t]
                \/ sa[p][t].st = "held" /\ e.sa[t] = GoneSA
    <3>1. x.sa[t] = sa[p][t]
      BY <1>7, <2>4 DEF Only
    <3>2. sa[p][t].st = "held" => t = a
      BY <1>2, <1>4, <1>5, <1>6, <2>9, NewSAs DEF Local
    <3> QED BY <1>4, <1>5, <1>6, <2>7, <2>10, <3>1, <3>2
  <2>12. Ready(p, e, s)
    BY <1>4, <1>5, <1>6, <1>12, <2>7, <2>8, <2>9, <2>11 DEF Ready
  <2>13. PICK n : Starts(p, s, n, y.sent)
    BY <1>9, <1>10, <2>6, <2>12, ReadyStarts
  <2>14. sa[q][a].st = "none"
    BY <1>1, <1>2, <1>4, <1>5, <1>6 DEF Wired
  <2>15. ~Behind(p, q, s, kids[q])
    <3>1. SUFFICES ASSUME Behind(p, q, s, kids[q]) PROVE FALSE
      OBVIOUS
    <3>2. kids[q] = a
      BY <1>4, <1>5, <1>6, <1>12, <3>1 DEF Behind, Granted, Taken
    <3> QED BY <1>2, <1>4, <1>5, <1>6, <2>14, <3>2 DEF Local
  <2>16. ~sa[q][s].met
    <3>1. SUFFICES ASSUME sa[q][s].met PROVE FALSE
      OBVIOUS
    <3>2. sa[q][s].coll = a /\ kids[q] = s
      BY <1>4, <1>5, <1>6, <2>15, <3>1 DEF Together
    <3>3. sa[q][sa[q][s].coll].st = "held"
      BY <1>2, <3>1, <3>2, InUse
    <3> QED BY <2>14, <3>2, <3>3
  <2> QED BY <1>1, <1>4, <1>5, <1>10, <2>13, <2>15, <2>16, Started
<1> QED BY <1>11, <1>12

LEMMA RekeyLostCalm ==
  ASSUME Inv, Calmed, Nonces, NEW p \in Peers, NEW m, RekeyLost(p, m)
  PROVE  Calmed'
<1>1. PICK q, s, a, c : q = Other(p) /\ s = m.sa /\ a = m.new /\ c = sa[p][s].coll
  OBVIOUS
<1>2. Local(p) /\ nonce' = nonce
  BY CalmedIs DEF RekeyLost
<1>3. Answer(p, m, "rekey_ok", s, a)
  BY <1>1, AnswerOf DEF RekeyLost
<1>4. kids[p] = s
  BY <1>1, <1>3, AnswerIs
<1>5. s \in SAs /\ sa[p][s].new = a /\ sa[p][s].st = "rekeying"
  BY <1>3 DEF Answer
<1>6. sa[p][s].met /\ nonce[a] < nonce[c]
  BY <1>1 DEF RekeyLost, Lost
<1>7. sa[p][a].st = "held" /\ Bare(sa[p][a]) /\ a # s /\ a \in SAs
  BY <1>2, <1>4, <1>5, InUse
<1>8. PICK w \in Side(p) : w = Me(p) /\ w.sa = sa[p] /\ w.kids = kids[p] /\ w.sent = {}
  BY Start, MeIs DEF Me
<1>9. PICK u : u = [w EXCEPT !.sa[a].st = "rekeying"]
  OBVIOUS
<1>10. PICK x : x = SendDelete(p, u, a, "delete")
  OBVIOUS
<1>11. PICK y \in Initiate(p, EndRekey(Establish(x, s, c), s), s) : Commit(p, y, {m})
  BY <1>1, <1>8, <1>9, <1>10 DEF RekeyLost
<1>12. sa'[p] = y.sa /\ kids'[p] = y.kids /\ Moved(p, {m}, y.sent)
  BY <1>2, <1>11, Moving
<1>13. PICK i : i = In(w.sa[a], "rekeying")
  OBVIOUS
<1>14. i \in Info(p) /\ w.sa[a] \in Info(p)
  BY <1>7, <1>8, <1>13, Fields, Becomes DEF States
<1>15. u = Put(w, a, i)
  BY <1>9, <1>13 DEF Put, In, Side
<1>16. u \in Side(p) /\ Only(w, u, a, i) /\ u.sent = {}
  BY <1>7, <1>8, <1>14, <1>15, Updated
<1>17. PICK j : j = Deleting(i, "delete")
  OBVIOUS
<1>18. /\ x \in Side(p) /\ Only(u, x, a, j)
       /\ x.sent = {[to |-> Other(p), sa |-> a, kind |-> "delete", new |-> NoSA]}
  <2>1. u.sa[a] = i /\ "delete" \in Tasks
    BY <1>16 DEF Only, Tasks
  <2> QED BY <1>7, <1>10, <1>16, <1>17, <2>1, SendDeleteIs
<1>19. j.st = "deleting" /\ Closed(j)
  <2>1. i.queue = {} /\ i.coll = NoSA /\ ~i.job
    BY <1>7, <1>8, <1>13, <1>14, Becoming DEF Bare
  <2>2. j.st = "deleting" /\ j.task = "delete" /\ j.coll = NoSA /\ ~j.job /\ j.queue = {}
    BY <1>14, <1>17, <2>1, Becoming, Queues
  <2> QED BY <2>2 DEF Closed, Over
<1>20. /\ x.kids = kids[p] /\ x.sa[a] = j /\ \A t \in SAs \ {a} : x.sa[t] = sa[p][t]
  BY <1>8, <1>16, <1>18 DEF Only
<1>21. /\ Succeeds(p, s, c) /\ y.sent = x.sent /\ sa'[p][s].st = "rekeyed"
       /\ sa'[p][a] = IF x.sa[a].st = "held" THEN GoneSA ELSE x.sa[a]
  <2>1. Closed(x.sa[a]) /\ x.sa[a].st # "held"
    BY <1>19, <1>20
  <2> QED BY <1>1, <1>2, <1>5, <1>6, <1>11, <1>12, <1>18, <1>20, <2>1, Taking
<1>22. sa'[p][a].st = "deleting" /\ Moved(p, {m}, {Message(q, a, "delete", NoSA)})
  BY <1>1, <1>12, <1>18, <1>19, <1>20, <1>21 DEF Message
<1> QED BY <1>1, <1>3, <1>6, <1>21, <1>22, Beaten

LEMMA RekeyWonCalm ==
  ASSUME Inv, Calmed, Nonces, NEW p \in Peers, NEW m, RekeyWon(p, m)
  PROVE  Calmed'
<1>1. PICK q, s, a, c : q = Other(p) /\ s = m.sa /\ a = m.new /\ c = sa[p][s].coll
  OBVIOUS
<1>2. Local(p) /\ nonce' = nonce
  BY CalmedIs DEF RekeyWon
<1>3. Answer(p, m, "rekey_ok", s, a)
  BY <1>1, AnswerOf DEF RekeyWon
<1>4. kids[p] = s
  BY <1>1, <1>3, AnswerIs
<1>5. s \in SAs /\ sa[p][s].new = a /\ sa[p][s].st = "rekeying"
  BY <1>3 DEF Answer
<1>6. sa[p][s].met => ~(nonce[a] < nonce[c])
  BY <1>1 DEF RekeyWon, Lost
<1>7. /\ sa[p][a].st = "held" /\ Bare(sa[p][a]) /\ a # s /\ a \in SAs
      /\ sa[p][s].met => /\ c \in SAs /\ c # s /\ c # a
                         /\ sa[p][c].st = "held" /\ Bare(sa[p][c])
      /\ ~sa[p][s].met => c = NoSA
      /\ ~sa[p][s].job
  BY <1>1, <1>2, <1>4, <1>5, InUse DEF Local
<1>8. PICK w \in Side(p) : w = Me(p) /\ w.sa = sa[p] /\ w.kids = kids[p] /\ w.sent = {}
  BY Start, MeIs DEF Me
<1>9. PICK d : d = [sa[p][c] EXCEPT !.st = "rekeyed", !.job = TRUE]
  OBVIOUS
<1>10. PICK x : x = IF ~sa[p][s].met THEN w ELSE [w EXCEPT !.sa[c] = d]
  OBVIOUS
<1>11. PICK y : y = Establish(x, s, a)
  OBVIOUS
<1>12. PICK v : v = [y EXCEPT !.sa[s] = [y.sa[s] EXCEPT !.new = NoSA, !.coll = NoSA]]
  OBVIOUS
<1>13. PICK z : z = SendDelete(p, v, s, "rekdel")
  OBVIOUS
<1>14. Commit(p, z, {m})
  BY <1>1, <1>8, <1>9, <1>10, <1>11, <1>12, <1>13 DEF RekeyWon
<1>15. sa'[p] = z.sa /\ kids'[p] = z.kids /\ Moved(p, {m}, z.sent)
  BY <1>2, <1>14, Moving
<1>16. /\ x \in Side(p) /\ x.kids = s /\ x.sent = {}
       /\ sa[p][s].met => x.sa[c] = d /\ Closed(d) /\ d.job
       /\ \A t \in SAs \ {c} : x.sa[t] = sa[p][t]
  <2>1. CASE ~sa[p][s].met
    BY <1>4, <1>8, <1>10, <2>1
  <2>2. CASE sa[p][s].met
    <3>1. w.sa[c] \in Info(p) /\ sa[p][c] = w.sa[c]
      BY <1>7, <1>8, <2>2, Fields
    <3>2. d \in Info(p)
      BY <1>9, <3>1 DEF Info, States
    <3>3. /\ d.st = "rekeyed" /\ d.job /\ d.queue = sa[p][c].queue /\ d.coll = sa[p][c].coll
          /\ d.task = sa[p][c].task
      BY <1>9, <3>1 DEF Info
    <3>4. Closed(d)
      BY <1>7, <2>2, <3>3 DEF Closed, Over, Bare
    <3>5. x = Put(w, c, d)
      BY <1>10, <2>2 DEF Put
    <3>6. x \in Side(p) /\ Only(w, x, c, d) /\ x.sent = w.sent
      BY <1>7, <2>2, <3>2, <3>5, Updated
    <3> QED BY <1>4, <1>8, <3>3, <3>4, <3>6 DEF Only
  <2> QED BY <2>1, <2>2
<1>17. x.sa[s] = sa[p][s] /\ x.sa[a] = sa[p][a] /\ x.sa[s] \in Info(p) /\ x.sa[a] \in Info(p)
  <2>1. s # c /\ a # c
    BY <1>5, <1>7, NewSAs
  <2> QED BY <1>5, <1>7, <1>16, <2>1, Fields
<1>18. PICK i, j : i = Aside(x.sa[s]) /\ j = Heir(x.sa[a], x.sa[s].queue)
  OBVIOUS
<1>19. /\ y \in Side(p) /\ y.kids = a /\ y.sent = {}
       /\ y.sa[s] = i /\ y.sa[a] = j /\ \A t \in SAs \ {s, a} : y.sa[t] = x.sa[t]
  <2>1. /\ y \in Side(p) /\ y.kids = (IF x.kids = s THEN a ELSE x.kids) /\ y.sent = x.sent
        /\ Both(x, y, s, i, a, j)
    BY <1>5, <1>7, <1>11, <1>16, <1>18, EstablishIs
  <2> QED BY <1>16, <2>1 DEF Both
<1>20. /\ i \in Info(p) /\ i.st = "rekeyed" /\ ~i.job /\ i.queue = {}
  BY <1>5, <1>7, <1>17, <1>18, <1>19, Becoming, Queues, Fields
<1>21. /\ j.st = "established" /\ j.task = "none" /\ j.coll = NoSA /\ ~j.met /\ ~j.job
       /\ j.queue = sa[p][s].queue
  BY <1>7, <1>17, <1>18, Becoming, Queues DEF Bare
<1>22. PICK k : k = [i EXCEPT !.new = NoSA, !.coll = NoSA]
  OBVIOUS
<1>23. /\ k \in Info(p) /\ k.st = "rekeyed" /\ ~k.job /\ k.queue = {} /\ k.coll = NoSA
  BY <1>20, <1>22 DEF Info
<1>24. /\ v \in Side(p) /\ Only(y, v, s, k) /\ v.sent = {}
  <2>1. v = Put(y, s, k)
    BY <1>12, <1>19, <1>22 DEF Put
  <2> QED BY <1>5, <1>19, <1>23, <2>1, Updated
<1>25. PICK f : f = Deleting(k, "rekdel")
  OBVIOUS
<1>26. /\ z \in Side(p) /\ Only(v, z, s, f)
       /\ z.sent = {[to |-> Other(p), sa |-> s, kind |-> "delete", new |-> NoSA]}
  <2>1. v.sa[s] = k /\ "rekdel" \in Tasks
    BY <1>24 DEF Only, Tasks
  <2> QED BY <1>5, <1>13, <1>24, <1>25, <2>1, SendDeleteIs
<1>27. f.st = "deleting" /\ Closed(f)
  <2>1. f.st = "deleting" /\ f.task = "rekdel" /\ f.coll = NoSA /\ ~f.job /\ f.queue = {}
    BY <1>23, <1>25, Becoming, Queues
  <2> QED BY <2>1 DEF Closed, Over
<1>28. /\ kids'[p] = a /\ sa'[p][s] = f /\ sa'[p][a] = j
       /\ \A t \in SAs \ {s, a} : sa'[p][t] = x.sa[t]
  BY <1>7, <1>15, <1>19, <1>24, <1>26 DEF Only
<1>29. ASSUME NEW t \in SAs \ {a}
       PROVE  \/ t # s /\ sa[p][t].st # "held" /\ sa'[p][t] = sa[p][t]
              \/ (t = s \/ sa[p][t].st = "held") /\ Closed(sa'[p][t])
  <2>1. CASE t = s
    BY <1>27, <1>28, <2>1
  <2>2. CASE t # s /\ t = c
    <3>1. sa[p][s].met
      BY <1>7, <2>2, NewSAs
    <3> QED BY <1>7, <1>16, <1>28, <2>2, <3>1
  <2>3. CASE t # s /\ t # c
    <3>1. sa'[p][t] = sa[p][t]
      BY <1>16, <1>28, <2>3
    <3>2. sa[p][t].st # "held"
      BY <1>1, <1>2, <1>4, <1>5, <2>3 DEF Local
    <3> QED BY <2>3, <3>1, <3>2
  <2> QED BY <2>1, <2>2, <2>3
<1>30. "delete" \notin j.queue
  BY <1>2, <1>5, <1>21 DEF Local
<1>31. Succeeds(p, s, a)
  BY <1>4, <1>5, <1>7, <1>21, <1>28, <1>29, <1>30 DEF Succeeds
<1>32. sa'[p][s].st = "deleting" /\ (sa[p][s].met => sa'[p][c].job)
  BY <1>7, <1>16, <1>27, <1>28
<1>33. Moved(p, {m}, {Message(q, s, "delete", NoSA)})
  BY <1>1, <1>15, <1>26 DEF Message
<1> QED BY <1>1, <1>3, <1>6, <1>31, <1>32, <1>33, Victorious

\* An IKE_SA t that is not in use is destroyed.
LEMMA DestroyOther ==
  ASSUME NEW p \in Peers, NEW x \in Side(p), NEW t \in SAs, t # kids[p], x.kids = kids[p],
         x.sa[t].new = NoSA, x.sa[t].coll = NoSA,
         \A r \in SAs \ {t} : x.sa[r] = sa[p][r], NEW y, y = Destroy(x, t)
  PROVE  /\ y.kids = kids[p] /\ y.sent = x.sent
         /\ y.sa[t] = GoneSA /\ \A r \in SAs \ {t} : y.sa[r] = sa[p][r]
<1>1. /\ y.kids = (IF x.kids = t THEN NoSA ELSE x.kids) /\ y.sent = x.sent
      /\ \A r \in SAs : y.sa[r] = IF r = t \/ r \in HeldBy(x, t) THEN GoneSA ELSE x.sa[r]
  BY DestroyIs
<1>2. HeldBy(x, t) = {}
  BY DEF HeldBy
<1> QED BY <1>1, <1>2

\* The IKE_SAs not in use have no task that holds anything back.
LEMMA NotInUse ==
  ASSUME Inv, NEW p \in Peers, Local(p), NEW t \in SAs, t # kids[p]
  PROVE  /\ sa[p][t].new = NoSA /\ sa[p][t].coll = NoSA /\ sa[p][t].task # "rekey"
         /\ Registered(p, t) => sa[p][t].st \in {"rekeyed", "deleting"}
<1>1. sa[p][t].st \notin {"established", "rekeying"}
  BY DEF Local
<1>2. Fine(sa[p], t) /\ sa[p][t] \in Info(p)
  BY Start
<1>3. sa[p][t].st \in States
  BY <1>2 DEF Info
<1> QED BY <1>1, <1>2, <1>3 DEF Fine, Registered, States

LEMMA DeleteDoneCalm ==
  ASSUME Inv, Calmed, NEW p \in Peers, NEW m, DeleteDone(p, m)
  PROVE  Calmed'
<1>1. PICK q, s : q = Other(p) /\ s = m.sa
  OBVIOUS
<1>2. Local(p) /\ nonce' = nonce /\ \A k \in net : Wired(k)
  BY CalmedIs DEF DeleteDone
<1>3. /\ m \in net /\ m.to = p /\ m.kind = "deleted" /\ sa[p][s].task \in {"delete", "rekdel"}
  BY <1>1 DEF DeleteDone, Answers
<1>4. s \in SAs /\ sa[q][s].st = "gone"
  BY <1>1, <1>2, <1>3, Travelling DEF Wired
<1>5. sa[p][s].st = "deleting" /\ s # kids[p]
  BY <1>2, <1>3, <1>4 DEF Local
<1>6. PICK w \in Side(p) : w = Me(p) /\ w.sa = sa[p] /\ w.kids = kids[p] /\ w.sent = {}
  BY Start, MeIs DEF Me
<1>7. PICK x : x = IF sa[p][s].rekeyed THEN w ELSE ReportDown(w, s)
  OBVIOUS
<1>8. x \in Side(p) /\ x.sa = sa[p] /\ x.kids = kids[p] /\ x.sent = {}
  BY <1>4, <1>6, <1>7 DEF ReportDown, Side
<1>9. PICK y : y = Destroy(x, s)
  OBVIOUS
<1>10. Commit(p, y, {m})
  BY <1>1, <1>6, <1>7, <1>9 DEF DeleteDone
<1>11. /\ y.kids = kids[p] /\ y.sent = {}
       /\ y.sa[s] = GoneSA /\ \A r \in SAs \ {s} : y.sa[r] = sa[p][r]
  BY <1>2, <1>4, <1>5, <1>8, <1>9, NotInUse, DestroyOther
<1>12. sa'[p] = y.sa /\ kids'[p] = y.kids /\ Moved(p, {m}, {})
  BY <1>2, <1>10, <1>11, Moving
<1> QED BY <1>1, <1>3, <1>4, <1>5, <1>11, <1>12, Buried

LEMMA DeleteJobCalm ==
  ASSUME Inv, Calmed, NEW p \in Peers, NEW s \in SAs, DeleteJob(p, s)
  PROVE  Calmed'
<1>1. PICK q : q = Other(p)
  OBVIOUS
<1>2. Local(p) /\ nonce' = nonce
  BY CalmedIs DEF DeleteJob
<1>3. sa[p][s].st = "rekeyed" /\ s # kids[p]
  BY <1>2 DEF Local, DeleteJob
<1>4. PICK w \in Side(p) : w = Me(p) /\ w.sa = sa[p] /\ w.kids = kids[p] /\ w.sent = {}
  BY Start, MeIs DEF Me
<1>5. PICK u : u = [w EXCEPT !.sa[s].job = FALSE]
  OBVIOUS
<1>6. PICK i : i = [w.sa[s] EXCEPT !.job = FALSE]
  OBVIOUS
<1>7. i \in Info(p) /\ i.st = "rekeyed" /\ i.new = sa[p][s].new /\ i.coll = sa[p][s].coll
  <2>1. w.sa[s] \in Info(p)
    BY Fields
  <2> QED BY <1>3, <1>4, <1>6, <2>1 DEF Info
<1>8. u \in Side(p) /\ Only(w, u, s, i) /\ u.sent = {}
  <2>1. u = Put(w, s, i)
    BY <1>5, <1>6 DEF Put, Side
  <2> QED BY <1>4, <1>7, <2>1, Updated
<1>9. PICK y \in Deleted(p, u, s) : Commit(p, y, {})
  BY <1>4, <1>5 DEF DeleteJob
<1>10. PICK x : x = ReportDown(u, s)
  OBVIOUS
<1>11. y = Destroy(x, s)
  <2>1. u.sa[s].st = "rekeyed"
    BY <1>7, <1>8 DEF Only
  <2> QED BY <1>9, <1>10, <2>1 DEF Deleted
<1>12. x \in Side(p) /\ x.sa = u.sa /\ x.kids = u.kids /\ x.sent = {}
  BY <1>8, <1>10 DEF ReportDown, Side
<1>13. /\ y.kids = kids[p] /\ y.sent = {}
       /\ y.sa[s] = GoneSA /\ \A r \in SAs \ {s} : y.sa[r] = sa[p][r]
  <2>1. /\ x.kids = kids[p] /\ x.sa[s].new = NoSA /\ x.sa[s].coll = NoSA
        /\ \A r \in SAs \ {s} : x.sa[r] = sa[p][r]
    BY <1>2, <1>3, <1>4, <1>7, <1>8, <1>12, NotInUse DEF Only
  <2> QED BY <1>3, <1>11, <1>12, <2>1, DestroyOther
<1>14. sa'[p] = y.sa /\ kids'[p] = y.kids /\ Moved(p, {}, {})
  BY <1>2, <1>9, <1>13, Moving
<1> QED BY <1>1, <1>3, <1>13, <1>14, Buried

LEMMA GiveUpCalm ==
  ASSUME Inv, Calmed, NEW p \in Peers, NEW s \in SAs, GiveUp(p, s), Undisturbed'
  PROVE  Calmed'
<1>1. PICK q : q = Other(p)
  OBVIOUS
<1>2. Local(p) /\ Local(q) /\ q \in Peers /\ Phase /\ nonce' = nonce
  BY <1>1, CalmedIs DEF GiveUp
<1>3. Registered(p, s) /\ Hopeless(p, s)
  <2>1. SUFFICES ASSUME ~Hopeless(p, s) PROVE FALSE
    BY DEF GiveUp
  <2>2. events' = [left |-> events.left - 1, disturbed |-> events.disturbed \/ TRUE]
    BY <2>1 DEF GiveUp, Event
  <2> QED BY <2>2 DEF Undisturbed
<1>4. /\ sa[q][s].st = "gone"
      /\ \A k \in net : k.to = p /\ k.sa = s => k.kind \in {"rekey", "delete"}
  BY <1>1, <1>3 DEF Hopeless
<1>5. s # kids[p]
  <2>1. SUFFICES ASSUME s = kids[p] PROVE FALSE
    OBVIOUS
  <2>2. ~Together(q, p, s)
    BY <1>2, <1>4 DEF Together, Local
  <2>3. ~Behind(q, p, kids[q], s)
    BY <1>2, <1>4, HeldBehind
  <2>4. ~Behind(p, q, s, kids[q])
    BY <1>4 DEF Behind, Granted, Taken, Has
  <2> QED BY <1>1, <1>2, <2>1, <2>2, <2>3, <2>4, Where
<1>6. PICK w \in Side(p) : w = Me(p) /\ w.sa = sa[p] /\ w.kids = kids[p] /\ w.sent = {}
  BY Start, MeIs DEF Me
<1>7. PICK x : x = ReportDown(w, s)
  OBVIOUS
<1>8. x \in Side(p) /\ x.sa = sa[p] /\ x.kids = kids[p] /\ x.sent = {}
  BY <1>6, <1>7 DEF ReportDown, Side
<1>9. PICK y : y = Destroy(x, s)
  OBVIOUS
<1>10. Commit(p, y, {})
  BY <1>6, <1>7, <1>9 DEF GiveUp
<1>11. sa[p][s].new = NoSA /\ sa[p][s].coll = NoSA /\ sa[p][s].st \in {"rekeyed", "deleting"}
  BY <1>2, <1>3, <1>5, NotInUse
<1>12. /\ y.kids = kids[p] /\ y.sent = {}
       /\ y.sa[s] = GoneSA /\ \A r \in SAs \ {s} : y.sa[r] = sa[p][r]
  BY <1>5, <1>8, <1>9, <1>11, DestroyOther
<1>13. sa'[p] = y.sa /\ kids'[p] = y.kids /\ Moved(p, {}, {})
  BY <1>2, <1>10, <1>12, Moving
<1> QED BY <1>1, <1>4, <1>5, <1>11, <1>12, <1>13, Buried

LEMMA DropCalm ==
  ASSUME Inv, Calmed, NEW m \in net, Drop(m)
  PROVE  Calmed'
<1>1. PICK p, q : p = m.to /\ q = Other(p)
  OBVIOUS
<1>2. p \in Peers /\ q # p /\ m.sa \in SAs
  BY <1>1, Travelling, TwoPeers
<1>3. Local(p)
  BY <1>2, CalmedIs
<1>4. m.sa # kids[p] /\ sa' = sa /\ kids' = kids /\ nonce' = nonce
  BY <1>1, <1>2, <1>3 DEF Drop, Local
<1>5. Moved(p, {m}, {})
  BY <1>4 DEF Moved, Drop
<1>6. \A t \in SAs : SameButQueue(sa[p][t], sa'[p][t])
  BY <1>4 DEF SameButQueue, SameUse
<1>7. \A t \in SAs : "delete" \notin sa'[p][t].queue /\ (sa'[p][t].queue # {} => t = kids[p])
  BY <1>3, <1>4 DEF Local
<1>8. Untouched(p, kids[p], {m}, {}) /\ Untouched(q, kids[q], {m}, {})
  BY <1>1, <1>2, <1>4 DEF Untouched
<1> QED BY <1>1, <1>2, <1>4, <1>5, <1>6, <1>7, <1>8, Resting

LEMMA ProcessDeleteCalm ==
  ASSUME Inv, Calmed, NEW p \in Peers, NEW m, ProcessDelete(p, m)
  PROVE  Calmed'
<1>1. PICK q, s, i : q = Other(p) /\ s = m.sa /\ i = sa[p][s]
  OBVIOUS
<1>2. /\ Local(p) /\ nonce' = nonce /\ q \in Peers /\ Other(q) = p /\ \A k \in net : Wired(k)
  BY <1>1, CalmedIs DEF ProcessDelete
<1>3. m \in net /\ m.to = p /\ m.kind = "delete" /\ Registered(p, s)
  BY <1>1 DEF ProcessDelete
<1>4. s \in SAs /\ sa[q][s].st \in {"deleting", "gone"}
  BY <1>1, <1>2, <1>3, Travelling DEF Wired
<1>5. PICK w \in Side(p) : w = Me(p) /\ w.sa = sa[p] /\ w.kids = kids[p] /\ w.sent = {}
  BY Start, MeIs DEF Me
<1>6. PICK x : x = Send(p, w, s, "deleted", NoSA)
  OBVIOUS
<1>7. /\ x \in Side(p) /\ x.sa = sa[p] /\ x.kids = kids[p]
      /\ x.sent = {Message(q, s, "deleted", NoSA)}
  <2>1. "deleted" \in Kinds /\ NoSA \in SAs \cup {NoSA}
    BY DEF Kinds
  <2> QED BY <1>1, <1>4, <1>5, <1>6, <2>1, SendIs DEF Message
<1>8. PICK y : y = IF i.task \in {"rekey", "rekdel"} THEN ConcludeUndetected(x, s) ELSE x
  OBVIOUS
<1>9. PICK v : v = IF Replaced(i) THEN y ELSE ReportDown(y, s)
  OBVIOUS
<1>10. PICK z : z = Destroy(v, s)
  OBVIOUS
<1>11. Commit(p, z, {m})
  BY <1>1, <1>5, <1>6, <1>8, <1>9, <1>10 DEF ProcessDelete
<1>12. sa'[p] = z.sa /\ kids'[p] = z.kids /\ Moved(p, {m}, z.sent)
  BY <1>2, <1>11, Moving
<1>13. PICK r : r = Message(q, s, "deleted", NoSA)
  OBVIOUS
<1>14. r.to = q /\ r.sa = s /\ r.kind = "deleted"
  BY <1>13 DEF Message
<1>15. CASE s # kids[p]
  <2>1. /\ i.new = NoSA /\ i.coll = NoSA /\ i.task # "rekey" /\ i.st \in {"rekeyed", "deleting"}
    BY <1>1, <1>2, <1>3, <1>4, <1>15, NotInUse
  <2>2. y = x
    BY <1>1, <1>7, <1>8, <2>1 DEF ConcludeUndetected, Establish
  <2>3. v \in Side(p) /\ v.sa = sa[p] /\ v.kids = kids[p] /\ v.sent = {r}
    BY <1>4, <1>7, <1>9, <1>13, <2>2 DEF ReportDown, Side
  <2>4. /\ z.kids = kids[p] /\ z.sent = {r}
        /\ z.sa[s] = GoneSA /\ \A t \in SAs \ {s} : z.sa[t] = sa[p][t]
    BY <1>1, <1>4, <1>10, <1>15, <2>1, <2>3, DestroyOther
  <2> QED BY <1>1, <1>3, <1>4, <1>12, <1>14, <1>15, <2>1, <2>4, Buried
<1>16. CASE s = kids[p]
  <2>1. PICK a, c : a = sa[p][s].new /\ c = sa[p][s].coll
    OBVIOUS
  <2>2. /\ i.st = "rekeying" /\ i.met /\ NoRequest(q) /\ Behind(p, q, s, kids[q])
        /\ Taken(p, q, s, kids[q])
    <3>1. m.sa = s
      BY <1>1
    <3>2. Late(p, q, s)
      BY <1>1, <1>3, <1>16, <3>1, Overtaken
    <3> QED BY <1>1, <3>2 DEF Late
  <2>3. /\ a \in SAs /\ c \in SAs /\ a # s /\ c # s /\ c # a /\ NoSA \notin SAs
        /\ sa[p][a].st = "held" /\ sa[p][c].st = "held" /\ Bare(sa[p][c])
    BY <1>1, <1>2, <1>16, <2>1, <2>2, InUse, NewSAs
  <2>4. i.task = "rekey"
    <3>1. Fine(sa[p], s)
      BY <1>4, Start
    <3> QED BY <1>1, <2>2, <3>1 DEF Fine
  <2>5. y = Establish(x, s, c) /\ v = y
    BY <1>1, <1>7, <1>8, <1>9, <2>1, <2>2, <2>4 DEF ConcludeUndetected, Replaced
  <2>6. PICK d, j : d = Aside(x.sa[s]) /\ j = Heir(x.sa[c], x.sa[s].queue)
    OBVIOUS
  <2>7. /\ y \in Side(p) /\ y.kids = c /\ y.sent = {r}
        /\ y.sa[s] = d /\ y.sa[c] = j /\ \A t \in SAs \ {s, c} : y.sa[t] = sa[p][t]
    <3>1. /\ y \in Side(p) /\ y.kids = (IF x.kids = s THEN c ELSE x.kids) /\ y.sent = x.sent
          /\ Both(x, y, s, d, c, j)
      <4>1. x \in Side(p) /\ c \in SAs /\ c # s /\ y = Establish(x, s, c)
        BY <1>7, <2>3, <2>5
      <4> QED BY <1>4, <2>6, <4>1, EstablishIs
    <3> QED BY <1>7, <1>13, <1>16, <3>1 DEF Both
  <2>8. d.new = a /\ d.coll = c
    <3>1. x.sa[s] \in Info(p)
      BY <1>4, <1>7, Fields
    <3> QED BY <1>7, <2>1, <2>6, <3>1, Becoming
  <2>9. /\ j.st = "established" /\ j.task = "none" /\ j.coll = NoSA /\ ~j.met /\ ~j.job
        /\ j.queue = sa[p][s].queue
    <3>1. x.sa[c] \in Info(p) /\ x.sa[c] = sa[p][c] /\ x.sa[s] = sa[p][s]
      BY <1>7, <2>3, Fields
    <3> QED BY <2>3, <2>6, <3>1, Becoming, Queues DEF Bare
  <2>10. /\ z.kids = c /\ z.sent = {r}
         /\ \A t \in SAs : z.sa[t] = IF t = s \/ t \in HeldBy(y, s) THEN GoneSA ELSE y.sa[t]
    <3>1. z = Destroy(y, s) /\ y \in Side(p)
      BY <1>10, <2>5, <2>7
    <3>2. /\ z.kids = (IF y.kids = s THEN NoSA ELSE y.kids) /\ z.sent = y.sent
          /\ \A t \in SAs : z.sa[t] = IF t = s \/ t \in HeldBy(y, s) THEN GoneSA ELSE y.sa[t]
      BY <1>4, <3>1, DestroyIs
    <3> QED BY <2>3, <2>7, <3>2
  <2>11. HeldBy(y, s) = {a}
    BY <2>3, <2>7, <2>8, <2>9 DEF HeldBy
  <2>12. /\ kids'[p] = c /\ sa'[p][s] = GoneSA /\ sa'[p][a] = GoneSA /\ sa'[p][c] = j
         /\ \A t \in SAs \ {s, a, c} : sa'[p][t] = sa[p][t]
    BY <1>4, <1>12, <2>3, <2>7, <2>10, <2>11
  <2>13. Closed(GoneSA) /\ GoneSA.st = "gone"
    BY GoneIs DEF Closed, Over, Bare
  <2>14. ASSUME NEW t \in SAs \ {c}
         PROVE  \/ t # s /\ sa[p][t].st # "held" /\ sa'[p][t] = sa[p][t]
                \/ (t = s \/ sa[p][t].st = "held") /\ Closed(sa'[p][t])
    <3>1. CASE t \in {s, a}
      BY <2>3, <2>12, <2>13, <3>1
    <3>2. CASE t \notin {s, a}
      <4>1. sa[p][t].st # "held"
        BY <1>2, <1>16, <2>1, <3>2 DEF Local
      <4> QED BY <2>12, <3>2, <4>1
    <3> QED BY <3>1, <3>2
  <2>15. "delete" \notin j.queue
    BY <1>2, <1>4, <2>9 DEF Local
  <2>16. Succeeds(p, s, c)
    BY <1>4, <1>16, <2>3, <2>9, <2>12, <2>14, <2>15 DEF Succeeds
  <2>17. Wired(r)'
    BY <1>2, <1>14, <2>12, <2>13 DEF Wired
  <2>18. Moved(p, {m}, {r}) /\ sa'[p][a].st # "rekeyed"
    BY <1>12, <2>10, <2>12, <2>13
  <2> QED BY <1>1, <1>3, <1>4, <1>14, <2>1, <2>2, <2>16, <2>17, <2>18, Adopted
<1> QED BY <1>15, <1>16

LEMMA ProcessRekeyCalm ==
  ASSUME Inv, Calmed, NEW p \in Peers, NEW m, ProcessRekey(p, m)
  PROVE  Calmed'
<1>1. PICK q, s, n : q = Other(p) /\ s = m.sa /\ n = m.new
  OBVIOUS
<1>2. /\ Local(p) /\ nonce' = nonce /\ q \in Peers /\ q # p /\ Other(q) = p
      /\ \A k \in net : Wired(k)
  BY <1>1, CalmedIs DEF ProcessRekey
<1>3. /\ m \in net /\ m.to = p /\ m.kind = "rekey" /\ Registered(p, s)
      /\ sa[p][s].st # "rekeyed"
  BY <1>1 DEF ProcessRekey
<1>4. /\ s \in SAs /\ n \in New(q) /\ n \in SAs
      /\ sa[p][n].st = "none" /\ sa[q][n].st # "none"
  BY <1>1, <1>3, Travelling
<1>5. n # s /\ sa[p][s].st \in {"established", "rekeying", "deleting"}
  <2>1. sa[p][s] \in Info(p)
    BY <1>4, Start
  <2> QED BY <1>3, <1>4, <2>1 DEF Registered, Info, States
<1>6. PICK w \in Side(p) : w = Me(p) /\ w.sa = sa[p] /\ w.kids = kids[p] /\ w.sent = {}
  BY Start, MeIs DEF Me
<1>7. PICK x : x = Hear(w, n)
  OBVIOUS
<1>8. PICK h : h = In(w.sa[n], "held")
  OBVIOUS
<1>9. /\ x \in Side(p) /\ x.kids = kids[p] /\ x.sent = {} /\ x.sa[n] = h /\ h \in Info(p)
      /\ \A t \in SAs \ {n} : x.sa[t] = sa[p][t]
  <2>1. h \in Info(p)
    BY <1>4, <1>6, <1>8, Fields, Becomes DEF States
  <2>2. x = Put(w, n, h)
    BY <1>7, <1>8 DEF Hear, Put, In, Side
  <2> QED BY <1>4, <1>6, <2>1, <2>2, Updated DEF Only
<1>10. h.st = "held" /\ Bare(h)
  <2>1. Fine(sa[p], n) /\ w.sa[n] \in Info(p)
    BY <1>4, <1>6, Start
  <2>2. Bare(w.sa[n])
    BY <1>4, <1>6, <2>1 DEF Fine
  <2> QED BY <1>8, <2>1, <2>2, Becoming DEF Bare
<1>11. CASE Commit(p, Send(p, w, s, "rekey_failed", n), {m})
  <2>1. PICK y : y = Send(p, w, s, "rekey_failed", n)
    OBVIOUS
  <2>2. PICK r : r = Message(q, s, "rekey_failed", n)
    OBVIOUS
  <2>3. r.to = q /\ r.sa = s /\ r.kind = "rekey_failed" /\ r.new = n
    BY <2>2 DEF Message
  <2>4. y.sa = sa[p] /\ y.kids = kids[p] /\ y.sent = {r}
    <3>1. "rekey_failed" \in Kinds /\ n \in SAs \cup {NoSA}
      BY <1>4 DEF Kinds
    <3> QED BY <1>1, <1>4, <1>6, <2>1, <2>2, <3>1, SendIs DEF Message
  <2>5. sa'[p] = sa[p] /\ kids'[p] = kids[p] /\ Moved(p, {m}, {r})
    BY <1>2, <1>11, <2>1, <2>4, Moving
  <2>6. Wired(r)'
    <3>1. sa'[q] = sa[q] /\ net' = (net \ {m}) \cup {r}
      BY <1>1, <2>5 DEF Moved
    <3>2. \A k \in net' : k.kind = "rekey" => k.new # n
      BY <1>1, <1>3, <2>3, <3>1 DEF Inv, Fresh
    <3> QED BY <1>2, <1>4, <1>5, <2>3, <2>5, <3>1, <3>2 DEF Wired
  <2>7. \A t \in SAs : SameButQueue(sa[p][t], sa'[p][t])
    BY <2>5 DEF SameButQueue, SameUse
  <2>8. \A t \in SAs : "delete" \notin sa'[p][t].queue /\ (sa'[p][t].queue # {} => t = kids[p])
    BY <1>2, <2>5 DEF Local
  <2>9. Untouched(p, kids[p], {m}, {r}) /\ Untouched(q, kids[q], {m}, {r})
    BY <1>3, <2>3 DEF Untouched
  <2> QED BY <1>1, <2>3, <2>5, <2>6, <2>7, <2>8, <2>9, Resting
<1>12. ASSUME NEW v \in Side(p), v.sent = {}, Commit(p, Send(p, v, s, "rekey_ok", n), {m})
       PROVE  /\ sa'[p] = v.sa /\ kids'[p] = v.kids
              /\ Moved(p, {m}, {Message(q, s, "rekey_ok", n)})
  <2>1. PICK y : y = Send(p, v, s, "rekey_ok", n)
    OBVIOUS
  <2>2. y.sa = v.sa /\ y.kids = v.kids /\ y.sent = {Message(q, s, "rekey_ok", n)}
    <3>1. /\ y.sa = v.sa /\ y.kids = v.kids
          /\ y.sent = v.sent \cup {Message(q, s, "rekey_ok", n)}
      BY <1>1, <1>12, <2>1, SendMessage
    <3> QED BY <1>12, <3>1
  <2> QED BY <1>2, <1>12, <2>1, <2>2, Moving
<1>13. CASE /\ sa[p][s].st = "rekeying"
            /\ Commit(p, Send(p, Collide(x, s, n), s, "rekey_ok", n), {m})
  <2>1. Request(p, m, s, n)
    BY <1>1, <1>2, <1>3, <1>4, <1>13 DEF Request, Local
  <2>2. ~sa[p][s].met
    BY <1>1, <2>1, Requested DEF Waiting
  <2>3. x.sa[s] = sa[p][s] /\ x.sa[s].coll = NoSA /\ x.sa[s] \in Info(p)
    BY <1>2, <1>4, <1>5, <1>9, <2>2, Fields DEF Local
  <2>4. PICK i : i = [x.sa[s] EXCEPT !.coll = n, !.met = TRUE]
    OBVIOUS
  <2>5. /\ i \in Info(p) /\ i.st = "rekeying" /\ i.new = sa[p][s].new /\ i.met /\ i.coll = n
        /\ i.task = sa[p][s].task /\ i.job = sa[p][s].job /\ i.queue = sa[p][s].queue
    BY <1>1, <1>4, <1>13, <2>3, <2>4 DEF Info
  <2>6. PICK v : v = Put(x, s, i)
    OBVIOUS
  <2>7. v = Collide(x, s, n)
    BY <2>3, <2>4, <2>6 DEF Put, Collide
  <2>8. v \in Side(p) /\ Only(x, v, s, i) /\ v.sent = {}
    BY <1>4, <1>9, <2>5, <2>6, Updated
  <2>9. /\ sa'[p] = v.sa /\ kids'[p] = v.kids /\ Moved(p, {m}, {Message(q, s, "rekey_ok", n)})
    BY <1>12, <1>13, <2>7, <2>8
  <2>10. Meets(p, s, n)
    BY <1>4, <1>5, <1>9, <1>10, <1>13, <2>5, <2>8, <2>9 DEF Meets, Only
  <2> QED BY <1>1, <2>1, <2>9, <2>10, Collided
<1>14. CASE /\ sa[p][s].st \notin {"rekeying", "deleting"}
            /\ Commit(p, Send(p, Yield(x, s, n), s, "rekey_ok", n), {m})
  <2>1. sa[p][s].st = "established" /\ s = kids[p]
    BY <1>2, <1>4, <1>5, <1>14 DEF Local
  <2>2. Request(p, m, s, n)
    BY <1>1, <1>3, <2>1 DEF Request
  <2>3. x.sa[s] = sa[p][s] /\ x.sa[s] \in Info(p) /\ ~sa[p][s].met /\ sa[p][s].coll = NoSA
    BY <1>2, <1>4, <1>5, <1>9, <2>1, Fields, InUse
  <2>4. PICK e, i, j : /\ e = Establish(x, s, n) /\ i = Aside(x.sa[s])
                       /\ j = Heir(x.sa[n], x.sa[s].queue)
    OBVIOUS
  <2>5. /\ e \in Side(p) /\ e.kids = n /\ e.sent = {}
        /\ e.sa[s] = i /\ e.sa[n] = j /\ \A t \in SAs \ {s, n} : e.sa[t] = sa[p][t]
    <3>1. /\ e \in Side(p) /\ e.kids = (IF x.kids = s THEN n ELSE x.kids) /\ e.sent = x.sent
          /\ Both(x, e, s, i, n, j)
      BY <1>4, <1>5, <1>9, <2>4, EstablishIs
    <3> QED BY <1>9, <2>1, <3>1 DEF Both
  <2>6. /\ i \in Info(p) /\ i.st = "rekeyed" /\ i.task = sa[p][s].task /\ i.coll = NoSA
        /\ i.queue = {}
    BY <1>4, <2>3, <2>4, <2>5, Becoming, Queues, Fields
  <2>7. /\ j.st = "established" /\ j.task = "none" /\ j.coll = NoSA /\ ~j.met /\ ~j.job
        /\ j.queue = sa[p][s].queue
    BY <1>9, <1>10, <2>3, <2>4, Becoming, Queues DEF Bare
  <2>8. PICK k : k = [i EXCEPT !.job = TRUE]
    OBVIOUS
  <2>9. /\ k \in Info(p) /\ k.st = "rekeyed" /\ k.task = sa[p][s].task /\ k.coll = NoSA
        /\ k.queue = {} /\ k.job
    BY <2>6, <2>8 DEF Info
  <2>10. PICK v : v = Put(e, s, k)
    OBVIOUS
  <2>11. v = Yield(x, s, n)
    BY <2>4, <2>5, <2>8, <2>10 DEF Yield, Put, Side
  <2>12. v \in Side(p) /\ Only(e, v, s, k) /\ v.sent = {}
    BY <1>4, <2>5, <2>9, <2>10, Updated
  <2>13. /\ sa'[p] = v.sa /\ kids'[p] = v.kids /\ Moved(p, {m}, {Message(q, s, "rekey_ok", n)})
    BY <1>12, <1>14, <2>11, <2>12
  <2>14. /\ kids'[p] = n /\ sa'[p][s] = k /\ sa'[p][n] = j
         /\ \A t \in SAs \ {s, n} : sa'[p][t] = sa[p][t]
    BY <1>4, <1>5, <2>5, <2>12, <2>13 DEF Only
  <2>15. Closed(k)
    <3>1. sa[p][s].task \notin {"delete", "rekdel"}
      BY <1>2, <1>4, <2>1 DEF Local
    <3> QED BY <2>9, <3>1 DEF Closed, Over
  <2>16. "delete" \notin j.queue
    BY <1>2, <1>4, <2>7 DEF Local
  <2>17. \A t \in SAs : sa[p][t].st # "held"
    BY <1>2, <2>1, Unheld
  <2>18. Succeeds(p, s, n)
    BY <1>4, <1>5, <2>1, <2>7, <2>14, <2>15, <2>16, <2>17 DEF Succeeds
  <2>19. sa'[p][s].st = "rekeyed" /\ sa'[p][s].job
    BY <2>9, <2>14
  <2> QED BY <1>1, <2>1, <2>2, <2>13, <2>18, <2>19, Yielded
<1> QED BY <1>1, <1>6, <1>7, <1>11, <1>13, <1>14 DEF ProcessRekey, Hear, Yield

-----------------------------------------------------------------------------
(* The invariant, and what it says.                                          *)

LEMMA CalmStep ==
  ASSUME Inv, Calmed, Nonces, Next, Undisturbed'
  PROVE  Calmed'
<1>1. ASSUME NEW m \in net, Receive(m) PROVE Calmed'
  BY <1>1, ProcessRekeyCalm, ProcessDeleteCalm, RekeyFailedCalm, RekeyLostCalm,
     RekeyWonCalm, DeleteDoneCalm, DropCalm DEF Receive
<1>2. ASSUME Housekeeping PROVE Calmed'
  BY <1>2, InitiateTasksCalm, DeleteJobCalm, GiveUpCalm DEF Housekeeping
<1>3. ASSUME NEW p \in Peers, NEW s \in SAs, Rekey(p, s) PROVE Calmed'
  BY <1>3, RekeyCalm
<1>4. ASSUME NEW p \in Peers, NEW s \in SAs, Delete(p, s) PROVE FALSE
  <2>1. events' = [left |-> events.left - 1, disturbed |-> events.disturbed \/ TRUE]
    BY <1>4 DEF Delete, Event
  <2> QED BY <2>1 DEF Undisturbed
<1> QED BY <1>1, <1>2, <1>3, <1>4 DEF Next

\* What has been disturbed stays disturbed, and the nonces stay what they are.
LEMMA Lasting ==
  ASSUME Next
  PROVE  nonce' = nonce /\ (Undisturbed' => Undisturbed)
<1>1. ASSUME NEW d \in BOOLEAN, Event(d) PROVE Undisturbed' => Undisturbed
  BY <1>1 DEF Event, Undisturbed
<1>2. (UNCHANGED events) => (Undisturbed' => Undisturbed)
  BY DEF Undisturbed
<1>3. ASSUME NEW m \in net, Receive(m) PROVE nonce' = nonce /\ (Undisturbed' => Undisturbed)
  BY <1>1, <1>2, <1>3 DEF Receive, ProcessRekey, ProcessDelete, RekeyFailed, RekeyLost,
     RekeyWon, DeleteDone, Drop
<1>4. ASSUME Housekeeping PROVE nonce' = nonce /\ (Undisturbed' => Undisturbed)
  BY <1>1, <1>2, <1>4 DEF Housekeeping, InitiateTasks, DeleteJob, GiveUp
<1>5. ASSUME NEW p \in Peers, NEW s \in SAs, Rekey(p, s) \/ Delete(p, s)
      PROVE  nonce' = nonce /\ (Undisturbed' => Undisturbed)
  BY <1>1, <1>2, <1>5 DEF Rekey, Delete
<1> QED BY <1>3, <1>4, <1>5 DEF Next

LEMMA AgreedStep ==
  ASSUME Inv, Agreed, Next
  PROVE  Agreed'
<1>1. Nonces /\ nonce' = nonce /\ (Undisturbed' => Undisturbed)
  BY Lasting DEF Agreed
<1>2. Nonces'
  BY <1>1 DEF Nonces
<1>3. Undisturbed' => Calmed'
  BY <1>1, CalmStep DEF Agreed
<1> QED BY <1>2, <1>3 DEF Agreed

LEMMA AgreedSame ==
  ASSUME Agreed, UNCHANGED vars
  PROVE  Agreed'
<1>1. /\ sa' = sa /\ kids' = kids /\ net' = net /\ nonce' = nonce /\ events' = events
  BY DEF vars
<1>2. Nonces' /\ (Undisturbed' => Undisturbed)
  BY <1>1 DEF Nonces, Undisturbed, Agreed
<1>3. ASSUME Calmed PROVE Calmed'
  <2>1. \A p \in Peers : Local(p)' /\ Left(p)'
    BY <1>1, <1>3 DEF Calmed, Local, Left
  <2>2. \A m \in net' : Wired(m)'
    BY <1>1, <1>3 DEF Calmed, Wired
  <2>3. Phase'
    BY <1>1, <1>3 DEF Calmed, Phase, Together, Behind, Granted, Taken, Has, HasDelete
  <2> QED BY <2>1, <2>2, <2>3 DEF Calmed
<1> QED BY <1>2, <1>3 DEF Agreed

LEMMA AgreedInitially ==
  ASSUME Init
  PROVE  Agreed
<1>1. Nonces
  BY DEF Init, Nonces
<1>2. Blank.st = "none" /\ Bare(Blank)
  BY DEF Blank, Bare
<1>3. PICK e : e = [Blank EXCEPT !.st = "established"]
  OBVIOUS
<1>4. /\ e.st = "established" /\ e.task = "none" /\ e.new = NoSA /\ e.coll = NoSA /\ ~e.met
      /\ ~e.job /\ e.queue = {}
  BY <1>3 DEF Blank
<1>5. \A p \in Peers : \A s \in SAs : sa[p][s] = IF s = First THEN e ELSE Blank
  BY <1>3 DEF Init
<1>6. First \in SAs /\ net = {} /\ \A p \in Peers : kids[p] = First
  BY NewSAs, PeersAssumption DEF Init
<1>7. \A p \in Peers : Local(p) /\ Left(p)
  BY <1>2, <1>4, <1>5, <1>6 DEF Local, Left, Bare
<1>8. \A p \in Peers : Together(p, Other(p), First)
  BY <1>4, <1>5, <1>6 DEF Together
<1>9. Phase
  BY <1>6, <1>8 DEF Phase
<1> QED BY <1>1, <1>6, <1>7, <1>9 DEF Agreed, Calmed

LEMMA AlwaysAgreed == Spec => [](Inv /\ Agreed)
<1>1. Init => Inv /\ Agreed
  BY Initially, AgreedInitially
<1>2. Inv /\ Agreed /\ [Next]_vars => (Inv /\ Agreed)'
  <2>1. ASSUME Inv, Agreed, Next PROVE Inv' /\ Agreed'
    BY <2>1, NextStep, AgreedStep
  <2>2. ASSUME Inv, Agreed, UNCHANGED vars PROVE Inv' /\ Agreed'
    BY <2>2, Stuttering, AgreedSame
  <2> QED BY <2>1, <2>2
<1> QED BY <1>1, <1>2, PTL DEF Spec

\* The CHILD_SAs survive any number of rekeyings, by either peer, in any order and
\* colliding in any way, noticed or not: as long as nobody was told to delete an
\* IKE_SA and nobody gave up on a living peer, both peers have an IKE_SA with their
\* CHILD_SAs (establish_new(), conclude_undetected_collision()).
THEOREM ChildrenAlwaysSurvive == Spec => []ChildrenSurvive
<1>1. Inv /\ Agreed => ChildrenSurvive
  <2>1. SUFFICES ASSUME Calmed, NEW p \in Peers PROVE kids[p] # NoSA
    BY DEF Agreed, ChildrenSurvive
  <2>2. kids[p] \in SAs
    BY <2>1 DEF Calmed, Local
  <2> QED BY <2>2, NewSAs
<1> QED BY <1>1, AlwaysAgreed, PTL

\* Nothing is under way: the two peers have the same IKE_SA, and no other.
LEMMA Settled ==
  ASSUME Inv, Calmed, Quiet
  PROVE  \E s \in SAs : \A p \in Peers :
           /\ kids[p] = s /\ sa[p][s].st = "established"
           /\ \A t \in SAs \ {s} : sa[p][t].st \in {"none", "gone"}
<1>1. ASSUME NEW p \in Peers, NEW t \in SAs
      PROVE  /\ sa[p][t].st \notin {"rekeying", "deleting"} /\ ~sa[p][t].job
             /\ sa[p][t].st \in States
  <2>1. sa[p][t].task = "none" /\ ~sa[p][t].job
    BY DEF Quiet
  <2>2. Fine(sa[p], t) /\ sa[p][t] \in Info(p)
    BY Start
  <2>3. sa[p][t].st # "deleting"
    BY <2>1 DEF Calmed, Local
  <2> QED BY <2>1, <2>2, <2>3 DEF Fine, Info
<1>2. \A p \in Peers : Local(p) /\ Left(p) /\ kids[p] \in SAs
  BY DEF Calmed, Local
<1>3. PICK s \in SAs : \A p \in Peers : kids[p] = s
  <2>1. ASSUME NEW p \in Peers, NEW s \in SAs, NEW n \in SAs, Behind(p, Other(p), s, n)
        PROVE  FALSE
    BY <1>1, <2>1 DEF Behind
  <2>2. PICK s \in SAs : \A p \in Peers : Together(p, Other(p), s)
    BY <2>1 DEF Calmed, Phase
  <2> QED BY <2>2 DEF Together
<1>4. ASSUME NEW p \in Peers PROVE sa[p][s].st = "established"
  BY <1>1, <1>2, <1>3 DEF Local
<1>5. ASSUME NEW p \in Peers, NEW t \in SAs \ {s} PROVE sa[p][t].st \in {"none", "gone"}
  <2>1. sa[p][t].st \notin {"established", "rekeying"}
    BY <1>2, <1>3 DEF Local
  <2>2. sa[p][t].st # "held"
    BY <1>2, <1>3, <1>4, Unheld
  <2>3. sa[p][t].st # "rekeyed"
    <3>1. Other(p) \in Peers
      BY TwoPeers
    <3> QED BY <1>1, <1>2, <3>1 DEF Left
  <2> QED BY <1>1, <2>1, <2>2, <2>3 DEF States
<1> QED BY <1>3, <1>4, <1>5

\* Once rekeying has settled, whatever collided with what and whichever answer came
\* first, both peers have the same, established IKE_SA for their CHILD_SAs and every
\* redundant or replaced one is gone (the nonces decide a collision the same way on
\* both sides: process_i() of ike_rekey, and the delete jobs behind it).
THEOREM PeersAgree == Spec => []OneSAInCommon
<1>1. Inv /\ Agreed => OneSAInCommon
  BY Settled DEF Agreed, OneSAInCommon
<1> QED BY <1>1, AlwaysAgreed, PTL
=============================================================================
