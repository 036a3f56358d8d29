-------------------------- MODULE ReliableChannel ---------------------------
(***************************************************************************)
(* What the reliability layer promises its user: each endpoint's messages  *)
(* form a stream, and its peer receives a growing prefix of that stream.   *)
(* Nothing is repeated, skipped or reordered.                              *)
(***************************************************************************)
EXTENDS Naturals, Sequences

CONSTANT Endpoints, Peer(_)

VARIABLES queued,     \* number of messages each endpoint has queued
          delivered   \* the payloads each endpoint has received

Init == /\ queued = [e \in Endpoints |-> 0]
        /\ delivered = [e \in Endpoints |-> <<>>]

Queue(e) == /\ queued' = [queued EXCEPT ![e] = @ + 1]
            /\ UNCHANGED delivered

\* One call may release several messages: the next n of the peer's stream.
Deliver(e) ==
  \E n \in 1 .. queued[Peer(e)] - Len(delivered[e]) :
    /\ delivered' = [delivered EXCEPT ![e] =
                       @ \o [i \in 1 .. n |-> Len(@) + i - 1]]
    /\ UNCHANGED queued

Next == \E e \in Endpoints : Queue(e) \/ Deliver(e)

Spec == Init /\ [][Next]_<<queued, delivered>>
=============================================================================
