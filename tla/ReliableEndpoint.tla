-------------------------- MODULE ReliableEndpoint --------------------------
(***************************************************************************)
(* The reliability layer of a connection (net/reliability.h, .cpp): two    *)
(* ReliableEndpoints exchanging datagrams over a network that loses,       *)
(* duplicates and reorders them.  Every packet carries a sequence number,  *)
(* the newest sequence received and a bitfield of the AckBits before it;   *)
(* reliable messages ride in packets until a packet carrying them is       *)
(* acknowledged, and are released to the application in id order.          *)
(*                                                                         *)
(* A message's payload is its position in the stream its sender queued, so *)
(* that in-order, exactly-once delivery is a statement about payloads.     *)
(***************************************************************************)
EXTENDS SequenceBuffer, Sequences, FiniteSets

CONSTANTS Senders,       \* the endpoints whose application queues messages
          MaxPerPacket,  \* kMaxReliablePerPacket
          AckBits,       \* width of the ack bitfield (32)
          MaxMessages,   \* bound: messages an application queues
          MaxPackets,    \* bound: packets each endpoint sends, 0 for no bound
          MaxAge,        \* bound: packets a datagram may be overtaken by
          MaxSilence     \* bound: packets sent with none of them arriving

Endpoints == {"client", "server"}

\* The packets of a window carry fewer messages than half the ids (8 * 1024 of
\* 2^16), so that no packet is acked when its ids are in use again.
ASSUME ReliableAssumption == /\ Senders \subseteq Endpoints
                             /\ MaxPerPacket \in Nat \ {0}
                             /\ MaxPerPacket * Capacity <= Half
                             /\ AckBits \in Nat
                             /\ MaxMessages \in Nat
                             /\ MaxPackets \in [Endpoints -> Nat]
                             /\ MaxAge \in Nat
                             /\ MaxSilence \in 0 .. Half - 1
                             /\ MaxSilence + MaxAge + 2 < SeqMod

Peer(e) == IF e = "client" THEN "server" ELSE "client"

VARIABLES sequence,             \* sequence_
          next_message_id,      \* next_message_id_
          expected_message_id,  \* expected_message_id_
          packets_sent,         \* packets sent, counted while MaxPackets bounds them
          sent,                 \* sent_: acked flag and message ids per packet
          received,             \* received_
          unacked,              \* unacked_, a deque in payload order
          reorder_buffer,       \* reorder_buffer_
          highest_received,     \* highest_received_
          has_received,         \* has_received_
          net,                  \* datagrams that can still arrive
          queued,               \* messages accepted from the application
          delivered,            \* payloads handed to the application, in order
          zero_carried          \* payloads ever carried by a packet numbered 0

sendVars == <<sequence, packets_sent, next_message_id, sent, unacked, queued,
              zero_carried>>
recvVars == <<expected_message_id, received, reorder_buffer, highest_received,
              has_received, delivered>>
vars == <<sendVars, recvVars, net>>

Message == [id : SeqNum, payload : Nat]

\* A ReceivedPacket holds only statistics.
ReceivedPacket == "received"

-----------------------------------------------------------------------------
(* reset() *)
Init ==
  /\ sequence = [e \in Endpoints |-> 0]
  /\ packets_sent = [e \in Endpoints |-> 0]
  /\ next_message_id = [e \in Endpoints |-> 0]
  /\ expected_message_id = [e \in Endpoints |-> 0]
  /\ sent = [e \in Endpoints |-> EmptyBuffer]
  /\ received = [e \in Endpoints |-> EmptyBuffer]
  /\ unacked = [e \in Endpoints |-> {}]
  /\ reorder_buffer = [e \in Endpoints |-> {}]
  /\ highest_received = [e \in Endpoints |-> 0]
  /\ has_received = [e \in Endpoints |-> FALSE]
  /\ net = {}
  /\ queued = [e \in Endpoints |-> 0]
  /\ delivered = [e \in Endpoints |-> <<>>]
  /\ zero_carried = [e \in Endpoints |-> {}]

\* Mutant: the message is put into the deque twice, under two ids.
queue_reliable_twice(e) ==
  /\ e \in Senders /\ queued[e] < MaxMessages
  /\ unacked' = [unacked EXCEPT ![e] = @ \cup
                   {[id |-> Wrap(next_message_id[e] + i), payload |-> queued[e] + i] : i \in 0 .. 1}]
  /\ next_message_id' = [next_message_id EXCEPT ![e] = Wrap(@ + 2)]
  /\ queued' = [queued EXCEPT ![e] = @ + 2]
  /\ UNCHANGED <<sequence, packets_sent, sent, zero_carried, recvVars, net>>

\* The code bounds neither the stream nor the number of undelivered messages;
\* ids are comparable only while fewer than Half messages are outstanding.
queue_reliable(e) ==
  /\ e \in Senders
  /\ queued[e] < MaxMessages
  /\ queued[e] - Len(delivered[Peer(e)]) < Half
  /\ unacked' = [unacked EXCEPT ![e] =
                   @ \cup {[id |-> next_message_id[e], payload |-> queued[e]]}]
  /\ next_message_id' = [next_message_id EXCEPT ![e] = Wrap(@ + 1)]
  /\ queued' = [queued EXCEPT ![e] = @ + 1]
  /\ UNCHANGED <<sequence, packets_sent, sent, zero_carried, recvVars, net>>

-----------------------------------------------------------------------------
ack_of(e) == IF has_received[e] THEN highest_received[e] ELSE 0

ack_bits_of(e) ==
  IF has_received[e]
  THEN {i \in 0 .. AckBits - 1 : exists(received[e], Wrap(highest_received[e] - (i + 1)))}
  ELSE {}

\* A datagram lives for seconds, the 2^16 numbers last for half an hour.  Seen
\* from e as it sends: its own datagrams overtaken by more than MaxAge later ones
\* never arrive, nor do those of its peer whose ack is that far in the past.
TooLate(e, p) == \/ p.src = e /\ Wrap(sequence[e] - p.seq) > MaxAge
                 \/ p.src # e /\ Wrap(sequence[e] - p.ack) > MaxSilence + MaxAge + 1

\* A peer that hears nothing for the connection timeout is dropped.  On a live
\* connection, then, e's numbers lap neither those the peer has seen nor the ack
\* of the peer's newest datagram.
LinkAlive(e) ==
  LET peer == Peer(e)
  IN  /\ IF has_received[peer]
         THEN Wrap(sequence[e] - highest_received[peer]) <= MaxSilence
         ELSE sequence[e] < MaxSilence
      /\ \A p \in net : p.src = peer /\ p.seq = Wrap(sequence[peer] - 1)
                          => ~TooLate(e, p)

\* The messages a packet may carry: the first of the deque, as many as fit
\* beside the unreliable payload (whose size is not modelled).
Batches(e) ==
  {batch \in SUBSET unacked[e] :
     /\ Cardinality(batch) <= MaxPerPacket
     /\ \A m \in batch, later \in unacked[e] \ batch : m.payload < later.payload}

write_packet(e, batch) ==
  LET record == [acked |-> FALSE, message_ids |-> {m.id : m \in batch}]
      packet == [src |-> e, seq |-> sequence[e], ack |-> ack_of(e),
                 ack_bits |-> ack_bits_of(e), messages |-> batch]
  IN  /\ LinkAlive(e)
      /\ \/ MaxPackets[e] = 0 /\ UNCHANGED packets_sent
         \/ /\ packets_sent[e] < MaxPackets[e]
            /\ packets_sent' = [packets_sent EXCEPT ![e] = @ + 1]
      /\ sequence' = [sequence EXCEPT ![e] = Wrap(@ + 1)]
      /\ sent' = [sent EXCEPT ![e] = Insert(@, sequence[e], record)]
      /\ zero_carried' = [zero_carried EXCEPT ![e] =
                            IF sequence[e] = 0
                            THEN @ \cup {m.payload : m \in batch} ELSE @]
      /\ net' = {p \in net : ~TooLate(e, p)} \cup {packet}
      /\ UNCHANGED <<next_message_id, unacked, queued, recvVars>>

\* A tick's payload packet: snapshot or input bytes leave room for some of the
\* pending messages, or for none.
send_payload(e) == \E batch \in Batches(e) : write_packet(e, batch)

\* flush: an empty payload, sent for a keepalive or while messages are pending,
\* leaves room for as many as a packet may carry.
flush(e) ==
  \E batch \in Batches(e) :
    /\ batch = unacked[e] \/ Cardinality(batch) = MaxPerPacket
    /\ write_packet(e, batch)

-----------------------------------------------------------------------------
\* process_acks: the sequences a packet acknowledges, acked one by one by
\* on_packet_acked when the sent record is still there and not yet acked.
AckedBy(p) == {p.ack} \cup {Wrap(p.ack - (i + 1)) : i \in p.ack_bits}

NewlyAcked(e, p) ==
  {s \in AckedBy(p) : exists(sent[e], s) /\ ~Value(sent[e], s).acked}

AckedMessageIds(e, p) ==
  UNION {Value(sent[e], s).message_ids : s \in NewlyAcked(e, p)}

on_packet_acked(e, p) ==
  LET acked == NewlyAcked(e, p)
      ids == AckedMessageIds(e, p)
  IN  /\ sent' = [sent EXCEPT ![e].slots =
                    [i \in Slots |->
                       IF \E s \in acked : s % Capacity = i
                       THEN [@[i] EXCEPT !.value.acked = TRUE] ELSE @[i]]]
      /\ unacked' = [unacked EXCEPT ![e] = {m \in @ : m.id \notin ids}]

\* Mutant: the awaited id taken for an old one.
already_delivered_awaited(e, id) == ~sequence_greater(id, expected_message_id[e])

already_delivered(e, id) == /\ ~sequence_greater(id, expected_message_id[e])
                            /\ id # expected_message_id[e]

\* The reorder buffer once the messages of p are in it; an id already present
\* keeps its entry.
Buffered(e, p) ==
  reorder_buffer[e] \cup
    {m \in p.messages : /\ ~already_delivered(e, m.id)
                        /\ \A held \in reorder_buffer[e] : held.id # m.id}

\* deliver_in_order: how many consecutive ids from expected_message_id_ on the
\* buffer holds.
RunLength(buffer, expected) ==
  CHOOSE n \in 0 .. SeqMod :
    /\ \A i \in 0 .. n - 1 : \E m \in buffer : m.id = Wrap(expected + i)
    /\ ~ \E m \in buffer : m.id = Wrap(expected + n)

\* Mutant: releases whatever the buffer holds, in id order, gaps or not.
deliver_in_order_gaps(e, buffer) ==
  LET n == Cardinality(buffer)
      rank(m) == Cardinality({k \in buffer : k.payload < m.payload})
      out == [i \in 1 .. n |-> (CHOOSE m \in buffer : rank(m) = i - 1).payload]
  IN  /\ delivered' = [delivered EXCEPT ![e] = @ \o out]
      /\ reorder_buffer' = [reorder_buffer EXCEPT ![e] = {}]
      /\ expected_message_id' = [expected_message_id EXCEPT ![e] = Wrap(@ + n)]

deliver_in_order(e, buffer) ==
  LET expected == expected_message_id[e]
      n == RunLength(buffer, expected)
      released == {m \in buffer : \E i \in 0 .. n - 1 : m.id = Wrap(expected + i)}
      out == [i \in 1 .. n |->
                (CHOOSE m \in buffer : m.id = Wrap(expected + i - 1)).payload]
  IN  /\ delivered' = [delivered EXCEPT ![e] = @ \o out]
      /\ reorder_buffer' = [reorder_buffer EXCEPT ![e] = buffer \ released]
      /\ expected_message_id' = [expected_message_id EXCEPT ![e] = Wrap(@ + n)]

\* The network never holds a datagram back while Half further messages are
\* delivered (32768 events, at a few per minute).
Fresh(p) == \A m \in p.messages : Len(delivered[Peer(p.src)]) - m.payload < Half

\* read_packet.  The datagram stays in the network: it may arrive again.
read_packet(e, p) ==
  /\ p \in net /\ p.src = Peer(e) /\ Fresh(p)
  /\ ~exists(received[e], p.seq)
  /\ ~TooOld(received[e], p.seq)
  /\ received' = [received EXCEPT ![e] = Insert(@, p.seq, ReceivedPacket)]
  /\ LET newest == ~has_received[e] \/ sequence_greater(p.seq, highest_received[e])
     IN  highest_received' = [highest_received EXCEPT ![e] =
                                IF newest THEN p.seq ELSE @]
  /\ has_received' = [has_received EXCEPT ![e] = TRUE]
  /\ on_packet_acked(e, p)
  /\ deliver_in_order(e, Buffered(e, p))
  /\ UNCHANGED <<sequence, packets_sent, next_message_id, queued, zero_carried, net>>

Next ==
  \E e \in Endpoints :
    \/ queue_reliable(e)
    \/ send_payload(e)
    \/ \E p \in net : read_packet(e, p)

Spec == Init /\ [][Next]_vars

\* A connection whose payloads always leave room for the pending messages.
FlushNext ==
  \E e \in Endpoints : \/ queue_reliable(e)
                       \/ flush(e)
                       \/ \E p \in net : read_packet(e, p)

\* Both sides run a fixed tick and flush in every one of them; the link is
\* lossy but fair, to packets in general and to those carrying messages.
Fairness ==
  /\ \A e \in Endpoints : /\ SF_vars(flush(e))
                          /\ SF_vars(\E p \in net : read_packet(e, p))
  /\ \A e \in Senders :
       SF_vars(\E p \in net : p.messages # {} /\ read_packet(Peer(e), p))

FairSpec == Init /\ [][FlushNext]_vars /\ Fairness

-----------------------------------------------------------------------------
Packet == [src : Endpoints, seq : SeqNum, ack : SeqNum,
           ack_bits : SUBSET (0 .. AckBits - 1), messages : SUBSET Message]

SentPacket == [acked : BOOLEAN, message_ids : SUBSET SeqNum]

Buffer(values) ==
  [slots : [Slots -> {EmptySlot} \cup [key : SeqNum, value : values]],
   latest : SeqNum, has_latest : BOOLEAN]

\* Type invariant of both endpoints and the network.
TypeOK ==
  /\ sequence \in [Endpoints -> SeqNum]
  /\ packets_sent \in [Endpoints -> Nat]
  /\ next_message_id \in [Endpoints -> SeqNum]
  /\ expected_message_id \in [Endpoints -> SeqNum]
  /\ sent \in [Endpoints -> Buffer(SentPacket)]
  /\ received \in [Endpoints -> Buffer({ReceivedPacket})]
  /\ unacked \in [Endpoints -> SUBSET Message]
  /\ reorder_buffer \in [Endpoints -> SUBSET Message]
  /\ highest_received \in [Endpoints -> SeqNum]
  /\ has_received \in [Endpoints -> BOOLEAN]
  /\ net \in SUBSET Packet
  /\ queued \in [Endpoints -> Nat]
  /\ delivered \in [Endpoints -> Seq(Nat)]
  /\ zero_carried \in [Endpoints -> SUBSET Nat]

\* What read_packet's `out_messages` promises: whatever the network loses,
\* repeats or reorders, and across the wrap of message ids, the application has
\* received exactly the first messages its peer queued, once each and in order.
InOrderExactlyOnce ==
  \A e \in Endpoints :
    /\ Len(delivered[e]) <= queued[Peer(e)]
    /\ \A i \in 1 .. Len(delivered[e]) : delivered[e][i] = i - 1

\* m is a message of s's stream under the id queue_reliable gave it.
OfStream(m, s) == m.payload < queued[s] /\ m.id = Wrap(m.payload)

\* Why ids that wrap are still enough: every copy of a message, wherever it is,
\* carries its stream position modulo SeqMod; the reorder buffer only holds
\* positions not yet delivered; and positions in play span at most Half.
StreamInv ==
  /\ \A s \in Endpoints : /\ next_message_id[s] = Wrap(queued[s])
                          /\ \A m \in unacked[s] : OfStream(m, s)
  /\ \A p \in net : \A m \in p.messages : OfStream(m, p.src)
  /\ \A e \in Endpoints :
       LET n == Len(delivered[e])
       IN  /\ expected_message_id[e] = Wrap(n)
           /\ n <= queued[Peer(e)] /\ queued[Peer(e)] <= n + Half
           /\ \A i \in 1 .. n : delivered[e][i] = i - 1
           /\ \A m \in reorder_buffer[e] : OfStream(m, Peer(e)) /\ n <= m.payload

\* Payloads of e's stream that e will still retransmit, and those its peer has.
Retained(e) == {m.payload : m \in unacked[e]}
Arrived(e) == {delivered[Peer(e)][i] : i \in DOMAIN delivered[Peer(e)]}
                \cup {m.payload : m \in reorder_buffer[Peer(e)]}
Lost(e) == (0 .. queued[e] - 1) \ (Retained(e) \cup Arrived(e))

\* queue_reliable's promise of guaranteed delivery: a message leaves unacked_
\* only once the peer holds it.
NeverLost == \A e \in Endpoints : Lost(e) = {}

\* What the code does guarantee: a message leaves unacked_ without having
\* arrived only if a packet numbered 0 carried it (a peer that has received
\* nothing acknowledges packet 0).
LostOnlyWithPacketZero == \A e \in Endpoints : Lost(e) \subseteq zero_carried[e]

\* Retransmission makes progress: every queued message is eventually delivered,
\* unless a message at or before it was lost with packet 0.
EventuallyDelivered ==
  \A e \in Senders : \A k \in 0 .. MaxMessages - 1 :
    queued[e] > k ~> \/ Len(delivered[Peer(e)]) > k
                     \/ \E j \in Lost(e) \cap zero_carried[e] : j <= k

\* The service the layer implements: two FIFO streams.
Channel == INSTANCE ReliableChannel
             WITH Endpoints <- Endpoints, Peer <- Peer, queued <- queued, delivered <- delivered
ImplementsChannel == Channel!Spec
=============================================================================
