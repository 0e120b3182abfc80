------------------------------ MODULE Exchange ------------------------------
(***************************************************************************)
(* What the exchanges of an IKE_SA promise the tasks that use them, however *)
(* the network treats the packets: every request of a peer is served at     *)
(* most once and in the order it was asked, a peer concludes an exchange    *)
(* only with the answer to the very request it has outstanding, and there   *)
(* is at most one such request per peer.  Nothing is promised to a peer     *)
(* whose SA has been closed.                                                *)
(*                                                                          *)
(* TaskManager implements this specification with message IDs, stored       *)
(* responses and retransmissions.                                           *)
(***************************************************************************)
EXTENDS Naturals, Sequences

CONSTANTS Peers,      \* the two ends of the IKE_SA
          Other,      \* Other[p] is the peer of p
          Requests    \* what a request may ask

VARIABLES asked,      \* asked[p]:  the requests p has sent out, in order
          served,     \* served[p]: the requests of its peer that p has served
          done,       \* done[p]:   the requests of p whose answer p has taken
          open        \* open[p]:   p still has the SA

vars == <<asked, served, done, open>>

Init ==
  /\ asked = [p \in Peers |-> <<>>]
  /\ served = [p \in Peers |-> <<>>]
  /\ done = [p \in Peers |-> <<>>]
  /\ open = [p \in Peers |-> TRUE]

\* p sends another request, whatever it asks.
Sends(p) ==
  /\ Len(asked'[p]) = Len(asked[p]) + 1
  /\ asked'[p][Len(asked[p]) + 1] \in Requests
  /\ asked' = [asked EXCEPT ![p] = Append(@, asked'[p][Len(@) + 1])]

\* p sends its next request: none of its earlier ones is unanswered.
Ask(p) ==
  /\ open[p] /\ Len(asked[p]) = Len(done[p])
  /\ Sends(p)
  /\ UNCHANGED <<served, done, open>>

\* p serves the first request of its peer that it has not served yet, and may
\* close the SA with it.
Serve(p) ==
  /\ open[p] /\ Len(served[p]) < Len(asked[Other[p]])
  /\ served' = [served EXCEPT
                 ![p] = Append(@, asked[Other[p]][Len(@) + 1])]
  /\ \E b \in BOOLEAN : open' = [open EXCEPT ![p] = b]
  /\ UNCHANGED <<asked, done>>

\* p takes the answer to its outstanding request, which its peer has served,
\* and either stops there, sends its next request, or closes the SA.
Conclude(p) ==
  /\ open[p] /\ Len(done[p]) < Len(asked[p])
  /\ Len(done[p]) < Len(served[Other[p]])
  /\ done' = [done EXCEPT ![p] = Append(@, served[Other[p]][Len(@) + 1])]
  /\ \/ UNCHANGED <<asked, open>>
     \/ Sends(p) /\ UNCHANGED open
     \/ open' = [open EXCEPT ![p] = FALSE] /\ UNCHANGED asked
  /\ UNCHANGED served

\* p starts over with another first request, while nothing was concluded and
\* its peer has served nothing else.
Restart(p) ==
  /\ open[p] /\ done[p] = <<>>
  /\ Len(asked'[p]) = 1 /\ asked'[p][1] \in Requests
  /\ asked' = [asked EXCEPT ![p] = <<asked'[p][1]>>]
  /\ served[Other[p]] \in {<<>>, asked'[p]}
  /\ UNCHANGED <<served, done, open>>

\* p closes the SA: it gave up, failed or was told to.
Close(p) ==
  /\ open[p]
  /\ open' = [open EXCEPT ![p] = FALSE]
  /\ UNCHANGED <<asked, served, done>>

Next ==
  \E p \in Peers :
    Ask(p) \/ Serve(p) \/ Conclude(p) \/ Restart(p) \/ Close(p)

Spec == Init /\ [][Next]_vars
=============================================================================
