----------------------- MODULE ReliableEndpointProofs -----------------------
(***************************************************************************)
(* Proofs about ReliableEndpoint for every modulus, window, batch size and *)
(* bound: type correctness, in-order exactly-once delivery across the wrap *)
(* of message ids, and the refinement of ReliableChannel.                  *)
(***************************************************************************)
EXTENDS ReliableEndpoint, TLAPS, WellFoundedInduction, SequenceTheorems

-----------------------------------------------------------------------------
(* Arithmetic of wrapping numbers. *)

\* A nonempty set of naturals has a least element.
LEMMA LeastNatural ==
  ASSUME NEW T \in SUBSET Nat, T # {}
  PROVE  \E n \in T : \A k \in 0 .. n - 1 : k \notin T
<1>1. PICK n \in T : \A y \in T : ~(<<y, n>> \in OpToRel(<, Nat))
  BY NatLessThanWellFounded, WFMin, Zenon
<1>2. \A y \in T : ~(y < n)
  BY <1>1 DEF OpToRel
<1>. QED  BY <1>2

\* The modulus of u16 arithmetic is positive and even.
LEMMA SeqModPositive == /\ SeqMod \in Nat /\ SeqMod > 0
                        /\ Half \in Nat /\ Half > 0 /\ SeqMod = 2 * Half
  BY SeqModAssumption

\* Division with remainder.
LEMMA Euclid ==
  ASSUME NEW a \in Int, NEW m \in Nat, m > 0
  PROVE  /\ a \div m \in Int
         /\ a % m \in 0 .. m - 1
         /\ a = m * (a \div m) + (a % m)
  OBVIOUS

\* static_cast<u16> yields a sequence number.
LEMMA WrapType == ASSUME NEW a \in Int PROVE Wrap(a) \in SeqNum
  BY SeqModPositive, Euclid DEF Wrap, SeqNum

\* A multiple of m strictly between -2m and 2m is -m, 0 or m.
LEMMA LapBound ==
  ASSUME NEW m \in Nat, m > 0, NEW d \in Int, NEW x \in Int,
         x = m * d, -(2 * m) < x, x < 2 * m
  PROVE  x \in {-m, 0, m}
<1>1. CASE d >= 2
  <2>1. m * d >= m * 2  BY <1>1
  <2>. QED  BY <2>1
<1>2. CASE d <= -2
  <2>1. m * d <= m * (-2)  BY <1>2
  <2>. QED  BY <2>1
<1>3. CASE d \in {-1, 0, 1}  BY <1>3
<1>. QED  BY <1>1, <1>2, <1>3

\* Numbers less than one lap apart: wrapping shifts their difference by a lap.
LEMMA WrapDifference ==
  ASSUME NEW a \in Int, NEW b \in Int, a - b < SeqMod, b - a < SeqMod
  PROVE  /\ Wrap(a) \in 0 .. SeqMod - 1 /\ Wrap(b) \in 0 .. SeqMod - 1
         /\ (a - b) - (Wrap(a) - Wrap(b)) \in {-SeqMod, 0, SeqMod}
<1>. DEFINE qa == a \div SeqMod
            qb == b \div SeqMod
            x == (a - b) - (Wrap(a) - Wrap(b))
<1>1. /\ qa \in Int /\ Wrap(a) \in 0 .. SeqMod - 1 /\ a = SeqMod * qa + Wrap(a)
      /\ qb \in Int /\ Wrap(b) \in 0 .. SeqMod - 1 /\ b = SeqMod * qb + Wrap(b)
  BY SeqModPositive, Euclid DEF Wrap
<1>. HIDE DEF qa, qb
<1>2. SeqMod * (qa - qb) = (a - b) - (Wrap(a) - Wrap(b))
  BY <1>1, SeqModPositive
<1>3. x \in Int /\ qa - qb \in Int /\ -(2 * SeqMod) < x /\ x < 2 * SeqMod
  BY <1>1, SeqModPositive
<1>. HIDE DEF x
<1>4. x = SeqMod * (qa - qb)
  BY <1>2 DEF x
<1>5. x \in {-SeqMod, 0, SeqMod}
  BY <1>3, <1>4, LapBound, SeqModPositive
<1>. QED  BY <1>1, <1>5 DEF x

\* sequence_greater orders numbers less than half a lap apart.
LEMMA WrapCompare ==
  ASSUME NEW a \in Int, NEW b \in Int, a - b < Half, b - a < Half
  PROVE  sequence_greater(Wrap(a), Wrap(b)) <=> a > b
<1>1. a - b < SeqMod /\ b - a < SeqMod
  BY SeqModPositive
<1>2. /\ Wrap(a) \in 0 .. SeqMod - 1 /\ Wrap(b) \in 0 .. SeqMod - 1
      /\ (a - b) - (Wrap(a) - Wrap(b)) \in {-SeqMod, 0, SeqMod}
  BY <1>1, WrapDifference
<1>. QED  BY <1>2, SeqModPositive DEF sequence_greater

\* Numbers less than one lap apart that wrap to the same value are equal.
LEMMA WrapInjective ==
  ASSUME NEW a \in Int, NEW b \in Int, a - b < SeqMod, b - a < SeqMod,
         Wrap(a) = Wrap(b)
  PROVE  a = b
<1>1. (a - b) - (Wrap(a) - Wrap(b)) \in {-SeqMod, 0, SeqMod}
  BY WrapDifference
<1>2. Wrap(a) - Wrap(b) = 0
  BY WrapDifference
<1>. QED  BY <1>1, <1>2, SeqModPositive

\* Adding to a wrapped number and wrapping again loses nothing.
LEMMA WrapAdd ==
  ASSUME NEW a \in Int, NEW i \in Int
  PROVE  Wrap(Wrap(a) + i) = Wrap(a + i)
<1>. DEFINE q == a \div SeqMod
            r == (Wrap(a) + i) \div SeqMod
            t == (a + i) \div SeqMod
            x == Wrap(a + i) - Wrap(Wrap(a) + i)
<1>1. q \in Int /\ Wrap(a) \in 0 .. SeqMod - 1 /\ a = SeqMod * q + Wrap(a)
  BY SeqModPositive, Euclid DEF Wrap
<1>2. /\ r \in Int /\ Wrap(Wrap(a) + i) \in 0 .. SeqMod - 1
      /\ Wrap(a) + i = SeqMod * r + Wrap(Wrap(a) + i)
  <2>1. Wrap(a) + i \in Int  BY <1>1
  <2>. QED  BY <2>1, SeqModPositive, Euclid DEF Wrap
<1>3. /\ t \in Int /\ Wrap(a + i) \in 0 .. SeqMod - 1
      /\ a + i = SeqMod * t + Wrap(a + i)
  <2>1. a + i \in Int  OBVIOUS
  <2>. QED  BY <2>1, SeqModPositive, Euclid DEF Wrap
<1>. HIDE DEF q, r, t
<1>4. x = SeqMod * (q + r - t)
  BY <1>1, <1>2, <1>3, SeqModPositive
<1>5. x \in Int /\ q + r - t \in Int /\ -SeqMod < x /\ x < SeqMod
  BY <1>1, <1>2, <1>3, SeqModPositive
<1>. HIDE DEF x
<1>6. x \in {-SeqMod, 0, SeqMod}
  BY <1>4, <1>5, LapBound, SeqModPositive
<1>7. x = 0  BY <1>5, <1>6, SeqModPositive
<1>. QED  BY <1>7, <1>2, <1>3 DEF x

-----------------------------------------------------------------------------
(* Type correctness. *)

\* Inserting a sequence number keeps a buffer a buffer.
LEMMA InsertType ==
  ASSUME NEW V, NEW buf \in Buffer(V), NEW s \in SeqNum, NEW v \in V
  PROVE  Insert(buf, s, v) \in Buffer(V)
<1>. DEFINE S == {EmptySlot} \cup [key : SeqNum, value : V]
            begin == IF buf.has_latest THEN Wrap(buf.latest + 1) ELSE s
            newer == ~buf.has_latest \/ sequence_greater(s, buf.latest)
            kept == IF newer THEN remove_range(buf.slots, begin, s) ELSE buf.slots
<1>1. buf.slots \in [Slots -> S] /\ buf.latest \in SeqNum
  BY DEF Buffer
<1>2. remove_range(buf.slots, begin, s) \in [Slots -> S]
  BY <1>1 DEF remove_range
<1>3. kept \in [Slots -> S]
  BY <1>1, <1>2
<1>4. [kept EXCEPT ![s % Capacity] = [key |-> s, value |-> v]] \in [Slots -> S]
  BY <1>3
<1>5. Insert(buf, s, v)
        = [slots |-> [kept EXCEPT ![s % Capacity] = [key |-> s, value |-> v]],
           latest |-> IF newer THEN s ELSE buf.latest, has_latest |-> TRUE]
  BY Zenon DEF Insert
<1>. QED  BY <1>1, <1>4, <1>5 DEF Buffer

\* The initial buffer is empty and therefore well typed.
LEMMA EmptyBufferType == ASSUME NEW V PROVE EmptyBuffer \in Buffer(V)
<1>1. 0 \in SeqNum  BY SeqModPositive DEF SeqNum
<1>. QED  BY <1>1 DEF EmptyBuffer, Buffer

-----------------------------------------------------------------------------
(* In-order exactly-once delivery. *)

\* TypeOK is needed for StreamInv and the other way round: that deliver_in_order
\* finds the end of its run depends on the ids in the reorder buffer.
IInv == TypeOK /\ StreamInv

\* Each endpoint has a peer, and is its peer's peer.
LEMMA PeerType ==
  ASSUME NEW e \in Endpoints PROVE Peer(e) \in Endpoints /\ Peer(Peer(e)) = e
  BY DEF Endpoints, Peer

\* What read_packet leaves in the reorder buffer are undelivered messages of the
\* peer's stream: already_delivered recognises the others across the wrap.
LEMMA BufferedInv ==
  ASSUME IInv, NEW e \in Endpoints, NEW p \in net, p.src = Peer(e), Fresh(p),
         NEW m \in Buffered(e, p)
  PROVE  m \in Message /\ OfStream(m, Peer(e)) /\ Len(delivered[e]) <= m.payload
<1>. DEFINE n == Len(delivered[e])
<1>1. /\ n \in Nat /\ expected_message_id[e] = Wrap(n) /\ queued[Peer(e)] \in Nat
      /\ queued[Peer(e)] <= n + Half
  BY PeerType DEF IInv, TypeOK, StreamInv
<1>2. CASE m \in reorder_buffer[e]
  BY <1>2 DEF IInv, TypeOK, StreamInv
<1>3. CASE m \in p.messages /\ ~already_delivered(e, m.id)
  <2>1. m \in Message /\ OfStream(m, Peer(e))
    BY <1>3 DEF IInv, TypeOK, StreamInv, Packet
  <2>2. m.payload \in Nat /\ m.payload < queued[Peer(e)] /\ m.id = Wrap(m.payload)
    BY <2>1 DEF Message, OfStream
  <2>3. n - m.payload < Half
    BY <1>3, PeerType DEF Fresh
  <2>4. m.payload - n < Half
    BY <1>1, <2>2, SeqModPositive
  <2>5. CASE m.id = expected_message_id[e]
    <3>1. Wrap(m.payload) = Wrap(n)  BY <2>5, <2>2, <1>1
    <3>2. m.payload - n < SeqMod /\ n - m.payload < SeqMod
      BY <2>2, <2>3, <2>4, <1>1, SeqModPositive
    <3>3. m.payload \in Int /\ n \in Int  BY <2>2, <1>1
    <3>4. m.payload = n
      <4>. HIDE DEF n
      <4>. QED  BY <3>1, <3>2, <3>3, WrapInjective
    <3>. QED  BY <3>4, <2>1, <1>1
  <2>6. CASE sequence_greater(m.id, expected_message_id[e])
    <3>1. m.payload \in Int /\ n \in Int  BY <2>2, <1>1
    <3>2. m.payload > n
      <4>. HIDE DEF n
      <4>. QED  BY <3>1, <2>2, <2>3, <2>4, <2>6, <1>1, WrapCompare
    <3>. QED  BY <3>2, <2>1, <2>2, <1>1
  <2>. QED  BY <1>3, <2>5, <2>6 DEF already_delivered
<1>. QED  BY <1>2, <1>3 DEF Buffered

\* In such a buffer an id near the expected one determines the message, and the
\* run that starts at the expected id ends before the end of the stream.
LEMMA RunInv ==
  ASSUME NEW n \in Nat, NEW total \in Nat, total <= n + Half, n <= total,
         NEW buffer \in SUBSET Message,
         \A m \in buffer : m.payload < total /\ m.id = Wrap(m.payload) /\ n <= m.payload
  PROVE  LET k == RunLength(buffer, Wrap(n))
         IN  /\ k \in 0 .. Half
             /\ n + k <= total
             /\ \A i \in 0 .. k - 1 : \E m \in buffer : m.id = Wrap(Wrap(n) + i)
             /\ \A m \in buffer, i \in 0 .. Half :
                  m.id = Wrap(Wrap(n) + i) => m.payload = n + i
<1>. DEFINE Holds(i) == \E m \in buffer : m.id = Wrap(Wrap(n) + i)
            IsRun(j) == (\A i \in 0 .. j - 1 : Holds(i)) /\ ~Holds(j)
            k == RunLength(buffer, Wrap(n))
<1>1. ASSUME NEW m \in buffer, NEW i \in 0 .. Half, m.id = Wrap(Wrap(n) + i)
      PROVE  m.payload = n + i
  <2>1. i \in Int /\ n + i \in Int /\ m.payload \in Int
    BY SeqModPositive DEF Message
  <2>2. Wrap(m.payload) = Wrap(n + i)
    BY <1>1, <2>1, WrapAdd
  <2>3. m.payload - (n + i) < SeqMod /\ (n + i) - m.payload < SeqMod
    BY <2>1, SeqModPositive
  <2>. QED  BY <2>1, <2>2, <2>3, WrapInjective
<1>2. ~Holds(Half)
  <2>. SUFFICES ASSUME NEW m \in buffer, m.id = Wrap(Wrap(n) + Half) PROVE FALSE
    OBVIOUS
  <2>1. m.payload = n + Half
    BY <1>1, SeqModPositive
  <2>. QED  BY <2>1, SeqModPositive
<1>3. \E j \in 0 .. Half : IsRun(j)
  <2>. DEFINE T == {j \in 0 .. Half : ~Holds(j)}
  <2>1. T \in SUBSET Nat /\ T # {}
    <3>1. Half \in T
      <4>. HIDE DEF Holds
      <4>. QED  BY <1>2, SeqModPositive
    <3>2. T \subseteq 0 .. Half  OBVIOUS
    <3>. HIDE DEF T
    <3>. QED  BY <3>1, <3>2, SeqModPositive
  <2>2. PICK j \in T : \A i \in 0 .. j - 1 : i \notin T
    <3>. HIDE DEF T
    <3>. QED  BY <2>1, LeastNatural
  <2>3. \A i \in 0 .. j - 1 : Holds(i)
    <3>. HIDE DEF Holds
    <3>. QED  BY <2>2, SeqModPositive
  <2>. QED  BY <2>2, <2>3
<1>4. ASSUME NEW j \in 0 .. SeqMod, IsRun(j) PROVE j \in 0 .. Half
  <2>. HIDE DEF Holds
  <2>. QED  BY <1>2, <1>4, SeqModPositive
<1>5. k \in 0 .. SeqMod /\ IsRun(k)
  <2>1. \E j \in 0 .. SeqMod : IsRun(j)
    <3>. HIDE DEF IsRun
    <3>. QED  BY <1>3, SeqModPositive
  <2>2. k = CHOOSE j \in 0 .. SeqMod : IsRun(j)
    BY DEF RunLength
  <2>. HIDE DEF IsRun, k
  <2>. QED  BY <2>1, <2>2
<1>6. k \in 0 .. Half
  <2>. HIDE DEF IsRun, k
  <2>. QED  BY <1>4, <1>5
<1>. HIDE DEF k
<1>7. n + k <= total
  <2>1. CASE k = 0  BY <2>1
  <2>2. CASE k > 0
    <3>1. k - 1 \in 0 .. k - 1 /\ k - 1 \in 0 .. Half
      BY <2>2, <1>6, SeqModPositive
    <3>2. PICK m \in buffer : m.id = Wrap(Wrap(n) + (k - 1))
      BY <3>1, <1>5
    <3>3. m.payload = n + (k - 1)
      BY <3>1, <3>2, <1>1
    <3>. QED  BY <3>3, <1>6, SeqModPositive
  <2>. QED  BY <2>1, <2>2, <1>6
<1>8. \A i \in 0 .. k - 1 : Holds(i)
  BY <1>5
<1>. QED  BY <1>1, <1>6, <1>7, <1>8 DEF k

\* The initial state satisfies the invariant.
LEMMA InitInv == Init => IInv
<1>. SUFFICES ASSUME Init PROVE IInv
  OBVIOUS
<1>1. 0 \in SeqNum /\ Wrap(0) = 0
  BY SeqModPositive DEF SeqNum, Wrap
<1>2. TypeOK
  BY <1>1, EmptyBufferType DEF Init, TypeOK
<1>3. StreamInv
  BY <1>1, SeqModPositive, PeerType DEF Init, StreamInv
<1>. QED  BY <1>2, <1>3 DEF IInv

\* Queueing a message preserves the invariant.
LEMMA QueueInv ==
  ASSUME IInv, NEW e \in Endpoints, queue_reliable(e)
  PROVE  IInv'
<1>. DEFINE new == [id |-> next_message_id[e], payload |-> queued[e]]
<1>1. TypeOK /\ StreamInv
  BY DEF IInv
<1>2. /\ queued[e] \in Nat /\ next_message_id[e] = Wrap(queued[e])
      /\ Len(delivered[Peer(e)]) \in Nat
      /\ queued[e] < Len(delivered[Peer(e)]) + Half
  BY <1>1, PeerType, SeqModPositive DEF TypeOK, StreamInv, queue_reliable
<1>3. new \in Message
  BY <1>1 DEF TypeOK, Message
<1>4. Wrap(next_message_id[e] + 1) \in SeqNum /\ Wrap(next_message_id[e] + 1) = Wrap(queued[e] + 1)
  <2>1. next_message_id[e] + 1 \in Int /\ queued[e] \in Int /\ queued[e] + 1 \in Int
    BY <1>1, <1>2 DEF TypeOK, SeqNum
  <2>2. Wrap(Wrap(queued[e]) + 1) = Wrap(queued[e] + 1)
    <3>1. 1 \in Int  OBVIOUS
    <3>. QED  BY <2>1, <3>1, WrapAdd, Zenon
  <2>3. Wrap(queued[e] + 1) \in SeqNum
    BY <2>1, WrapType
  <2>. QED  BY <1>2, <2>2, <2>3
<1>5. TypeOK'
  <2>1. unacked' \in [Endpoints -> SUBSET Message]
    BY <1>1, <1>3 DEF TypeOK, queue_reliable
  <2>2. next_message_id' \in [Endpoints -> SeqNum]
    BY <1>1, <1>4 DEF TypeOK, queue_reliable
  <2>3. queued' \in [Endpoints -> Nat]
    BY <1>1, <1>2 DEF TypeOK, queue_reliable
  <2>. QED  BY <1>1, <2>1, <2>2, <2>3 DEF TypeOK, queue_reliable, recvVars
<1>6. \A s \in Endpoints : /\ queued'[s] \in Nat /\ queued[s] \in Nat
                           /\ queued[s] <= queued'[s]
                           /\ queued'[s] = IF s = e THEN queued[s] + 1 ELSE queued[s]
  BY <1>1 DEF TypeOK, queue_reliable
<1>7. \A s \in Endpoints : \A m \in Message : OfStream(m, s) => OfStream(m, s)'
  BY <1>6 DEF OfStream, Message
<1>8. \A s \in Endpoints : /\ next_message_id'[s] = Wrap(queued'[s])
                           /\ \A m \in unacked'[s] : OfStream(m, s)'
  <2>. SUFFICES ASSUME NEW s \in Endpoints
                PROVE  /\ next_message_id'[s] = Wrap(queued'[s])
                       /\ \A m \in unacked'[s] : OfStream(m, s)'
    OBVIOUS
  <2>1. next_message_id'[s] = Wrap(queued'[s])
    BY <1>1, <1>4, <1>6 DEF TypeOK, StreamInv, queue_reliable
  <2>2. ASSUME NEW m \in unacked'[s] PROVE OfStream(m, s)'
    <3>1. m \in unacked[s] \/ (s = e /\ m = new)
      BY <1>1 DEF TypeOK, queue_reliable
    <3>2. CASE m \in unacked[s]
      BY <3>2, <1>1, <1>7 DEF TypeOK, StreamInv
    <3>3. CASE s = e /\ m = new
      BY <3>3, <1>2, <1>6 DEF OfStream
    <3>. QED  BY <3>1, <3>2, <3>3
  <2>. QED  BY <2>1, <2>2
<1>9. \A p \in net' : \A m \in p.messages : OfStream(m, p.src)'
  BY <1>1, <1>7 DEF TypeOK, StreamInv, Packet, queue_reliable
<1>10. ASSUME NEW r \in Endpoints
       PROVE  LET n == Len(delivered'[r])
              IN  /\ expected_message_id'[r] = Wrap(n)
                  /\ n <= queued'[Peer(r)] /\ queued'[Peer(r)] <= n + Half
                  /\ \A i \in 1 .. n : delivered'[r][i] = i - 1
                  /\ \A m \in reorder_buffer'[r] :
                       OfStream(m, Peer(r))' /\ n <= m.payload
  <2>1. /\ delivered' = delivered /\ reorder_buffer' = reorder_buffer
        /\ expected_message_id' = expected_message_id
    BY DEF queue_reliable, recvVars
  <2>2. Len(delivered[r]) \in Nat /\ Peer(r) \in Endpoints
    BY <1>1, PeerType DEF TypeOK
  <2>3. queued'[Peer(r)] <= Len(delivered[r]) + Half
    <3>1. CASE Peer(r) = e
      <4>1. Peer(e) = r  BY <3>1, PeerType
      <4>. QED  BY <4>1, <3>1, <1>2, <1>6, SeqModPositive
    <3>2. CASE Peer(r) # e
      BY <3>2, <1>1, <1>6, <2>2 DEF StreamInv
    <3>. QED  BY <3>1, <3>2
  <2>4. Len(delivered[r]) <= queued'[Peer(r)]
    BY <1>1, <1>6, <2>2 DEF StreamInv
  <2>5. \A m \in reorder_buffer[r] : OfStream(m, Peer(r))' /\ Len(delivered[r]) <= m.payload
    BY <1>1, <1>7, <2>2 DEF TypeOK, StreamInv
  <2>. QED  BY <1>1, <2>1, <2>3, <2>4, <2>5 DEF StreamInv
<1>11. StreamInv'
  BY <1>8, <1>9, <1>10 DEF StreamInv
<1>. QED  BY <1>5, <1>11 DEF IInv

\* Sending a packet preserves the invariant: it carries messages of unacked_.
LEMMA WriteInv ==
  ASSUME IInv, NEW e \in Endpoints, NEW batch \in Batches(e), write_packet(e, batch)
  PROVE  IInv'
<1>. DEFINE record == [acked |-> FALSE, message_ids |-> {m.id : m \in batch}]
            packet == [src |-> e, seq |-> sequence[e], ack |-> ack_of(e),
                       ack_bits |-> ack_bits_of(e), messages |-> batch]
<1>1. TypeOK /\ StreamInv
  BY DEF IInv
<1>2. batch \subseteq unacked[e] /\ batch \subseteq Message
  BY <1>1 DEF Batches, TypeOK
<1>3. sequence[e] \in SeqNum /\ Wrap(sequence[e] + 1) \in SeqNum
  <2>1. sequence[e] \in SeqNum /\ sequence[e] + 1 \in Int
    BY <1>1 DEF TypeOK, SeqNum
  <2>. QED  BY <2>1, WrapType
<1>4. packet \in Packet
  <2>1. ack_of(e) \in SeqNum
    BY <1>1, SeqModPositive DEF TypeOK, ack_of, SeqNum
  <2>2. ack_bits_of(e) \in SUBSET (0 .. AckBits - 1)
    BY DEF ack_bits_of
  <2>. QED  BY <1>2, <1>3, <2>1, <2>2 DEF Packet
<1>5. record \in SentPacket
  BY <1>2 DEF SentPacket, Message
<1>6. TypeOK'
  <2>1. sequence' \in [Endpoints -> SeqNum]
    BY <1>1, <1>3 DEF TypeOK, write_packet
  <2>2. packets_sent' \in [Endpoints -> Nat]
    <3>1. packets_sent \in [Endpoints -> Nat] /\ packets_sent[e] + 1 \in Nat
      BY <1>1 DEF TypeOK
    <3>2. packets_sent' \in {packets_sent, [packets_sent EXCEPT ![e] = @ + 1]}
      BY DEF write_packet
    <3>. QED  BY <3>1, <3>2
  <2>3. sent' \in [Endpoints -> Buffer(SentPacket)]
    <3>1. Insert(sent[e], sequence[e], record) \in Buffer(SentPacket)
      BY <1>1, <1>3, <1>5, InsertType DEF TypeOK
    <3>2. sent' = [sent EXCEPT ![e] = Insert(sent[e], sequence[e], record)]
      BY DEF write_packet
    <3>. QED  BY <1>1, <3>1, <3>2 DEF TypeOK
  <2>4. net' \in SUBSET Packet
    BY <1>1, <1>4 DEF TypeOK, write_packet
  <2>5. zero_carried' \in [Endpoints -> SUBSET Nat]
    BY <1>1, <1>2, SMTT(30) DEF TypeOK, write_packet, Message
  <2>. QED  BY <1>1, <2>1, <2>2, <2>3, <2>4, <2>5 DEF TypeOK, write_packet, recvVars
<1>7. \A p \in net' : \A m \in p.messages : OfStream(m, p.src)
  BY <1>1, <1>2, SMTT(30) DEF StreamInv, write_packet
<1>8. StreamInv'
  BY <1>1, <1>7 DEF StreamInv, OfStream, write_packet, recvVars
<1>. QED  BY <1>6, <1>8 DEF IInv

\* What read_packet does to the receiving stream, for the run of length k it
\* releases.
LEMMA ReadStream ==
  ASSUME IInv, NEW e \in Endpoints, NEW p \in net, read_packet(e, p)
  PROVE  \E k \in Nat :
           /\ Len(delivered[e]) + k <= queued[Peer(e)]
           /\ delivered' = [delivered EXCEPT ![e] =
                              @ \o [i \in 1 .. k |-> Len(@) + i - 1]]
           /\ expected_message_id' = [expected_message_id EXCEPT ![e] =
                                        Wrap(Len(delivered[e]) + k)]
           /\ reorder_buffer' \in [Endpoints -> SUBSET Message]
           /\ \A r \in Endpoints \ {e} : reorder_buffer'[r] = reorder_buffer[r]
           /\ \A m \in reorder_buffer'[e] : /\ OfStream(m, Peer(e))
                                            /\ Len(delivered[e]) + k <= m.payload
<1>. DEFINE n == Len(delivered[e])
            buffer == Buffered(e, p)
            k == RunLength(buffer, Wrap(n))
            Id(i) == Wrap(Wrap(n) + i)
<1>1. TypeOK /\ StreamInv
  BY DEF IInv
<1>2. /\ n \in Nat /\ queued[Peer(e)] \in Nat /\ expected_message_id[e] = Wrap(n)
      /\ n <= queued[Peer(e)] /\ queued[Peer(e)] <= n + Half
  BY <1>1, PeerType, SMTT(30) DEF TypeOK, StreamInv
<1>3. \A m \in buffer : m \in Message /\ OfStream(m, Peer(e)) /\ n <= m.payload
  BY BufferedInv DEF read_packet
<1>4. /\ k \in 0 .. Half
      /\ n + k <= queued[Peer(e)]
      /\ \A i \in 0 .. k - 1 : \E m \in buffer : m.id = Id(i)
      /\ \A m \in buffer, i \in 0 .. Half : m.id = Id(i) => m.payload = n + i
  <2>1. buffer \in SUBSET Message
    BY <1>3
  <2>2. \A m \in buffer : /\ m.payload < queued[Peer(e)] /\ m.id = Wrap(m.payload)
                          /\ n <= m.payload
    BY <1>3 DEF OfStream
  <2>. HIDE DEF n, buffer
  <2>. QED  BY <1>2, <2>1, <2>2, RunInv
<1>. DEFINE released == {m \in buffer : \E i \in 0 .. k - 1 : m.id = Id(i)}
            out == [i \in 1 .. k |->
                      (CHOOSE m \in buffer : m.id = Wrap(Wrap(n) + i - 1)).payload]
<1>5. /\ delivered' = [delivered EXCEPT ![e] = @ \o out]
      /\ reorder_buffer' = [reorder_buffer EXCEPT ![e] = buffer \ released]
      /\ expected_message_id' = [expected_message_id EXCEPT ![e] = Wrap(@ + k)]
  <2>. DEFINE Run(x) == RunLength(buffer, x)
              Delivers(x) ==
                /\ delivered' = [delivered EXCEPT ![e] = @ \o
                     [i \in 1 .. Run(x) |->
                        (CHOOSE m \in buffer : m.id = Wrap(x + i - 1)).payload]]
                /\ reorder_buffer' = [reorder_buffer EXCEPT ![e] = buffer \
                     {m \in buffer : \E i \in 0 .. Run(x) - 1 : m.id = Wrap(x + i)}]
                /\ expected_message_id' = [expected_message_id EXCEPT ![e] = Wrap(@ + Run(x))]
  <2>1. Delivers(expected_message_id[e])
    BY Zenon DEF read_packet, deliver_in_order
  <2>2. Delivers(Wrap(n))
    <3>. HIDE DEF Delivers, n
    <3>. QED  BY <1>2, <2>1, Zenon
  <2>. QED  BY <2>2, Zenon
<1>6. out = [i \in 1 .. k |-> n + i - 1]
  <2>. SUFFICES ASSUME NEW i \in 1 .. k
                PROVE  (CHOOSE m \in buffer : m.id = Wrap(Wrap(n) + i - 1)).payload
                         = n + i - 1
    <3>. HIDE DEF n, buffer, k
    <3>. QED  OBVIOUS
  <2>1. Wrap(n) \in Int
    BY <1>2, WrapType DEF SeqNum
  <2>. HIDE DEF n, buffer, k
  <2>2. /\ i - 1 \in 0 .. k - 1 /\ i - 1 \in 0 .. Half
        /\ Wrap(n) + (i - 1) = Wrap(n) + i - 1 /\ n + (i - 1) = n + i - 1
    BY <1>2, <1>4, <2>1, SeqModPositive
  <2>3. \E m \in buffer : m.id = Wrap(Wrap(n) + i - 1)
    BY <1>4, <2>2
  <2>4. \A m \in buffer : m.id = Wrap(Wrap(n) + i - 1) => m.payload = n + i - 1
    BY <1>4, <2>2
  <2>. QED  BY <2>3, <2>4
<1>7. Wrap(expected_message_id[e] + k) = Wrap(n + k)
  <2>1. n \in Int /\ k \in Int
    BY <1>2, <1>4, SeqModPositive
  <2>. HIDE DEF n, k
  <2>. QED  BY <1>2, <2>1, WrapAdd
<1>8. ASSUME NEW m \in buffer \ released
      PROVE  OfStream(m, Peer(e)) /\ n + k <= m.payload
  <2>1. OfStream(m, Peer(e)) /\ m.payload \in Nat /\ n <= m.payload /\ m.id = Wrap(m.payload)
    BY <1>3 DEF OfStream, Message
  <2>2. ASSUME m.payload < n + k PROVE FALSE
    <3>. DEFINE i == m.payload - n
    <3>1. i \in 0 .. k - 1 /\ i \in Int /\ n \in Int /\ m.payload = n + i
      BY <1>2, <1>4, <2>1, <2>2, SeqModPositive
    <3>2. m.id = Id(i)
      <4>. HIDE DEF n, i
      <4>. QED  BY <3>1, <2>1, WrapAdd
    <3>3. m \in released
      <4>. HIDE DEF n, i, k, buffer
      <4>. QED  BY <3>1, <3>2
    <3>. QED  BY <3>3
  <2>. QED  BY <2>1, <2>2, <1>2, <1>4, SeqModPositive
<1>9. k \in Nat
  BY <1>4, SeqModPositive
<1>10. /\ reorder_buffer' \in [Endpoints -> SUBSET Message]
       /\ \A r \in Endpoints \ {e} : reorder_buffer'[r] = reorder_buffer[r]
       /\ reorder_buffer'[e] = buffer \ released
  <2>1. buffer \ released \in SUBSET Message
    BY <1>3
  <2>2. reorder_buffer \in [Endpoints -> SUBSET Message]
    BY <1>1 DEF TypeOK
  <2>. HIDE DEF buffer, released
  <2>. QED  BY <1>5, <2>1, <2>2
<1>11. delivered' = [delivered EXCEPT ![e] = @ \o [i \in 1 .. k |-> Len(@) + i - 1]]
  BY <1>5, <1>6
<1>12. expected_message_id' = [expected_message_id EXCEPT ![e] = Wrap(n + k)]
  BY <1>5, <1>7
<1>. HIDE DEF k, released, buffer
<1>. QED  BY <1>4, <1>8, <1>9, <1>10, <1>11, <1>12

\* Reading a packet preserves types.
LEMMA ReadType ==
  ASSUME IInv, NEW e \in Endpoints, NEW p \in net, read_packet(e, p)
  PROVE  TypeOK'
<1>1. TypeOK /\ p \in Packet /\ p.seq \in SeqNum
  BY DEF IInv, TypeOK, Packet
<1>2. PICK k \in Nat :
        /\ delivered' = [delivered EXCEPT ![e] =
                           @ \o [i \in 1 .. k |-> Len(@) + i - 1]]
        /\ expected_message_id' = [expected_message_id EXCEPT ![e] =
                                     Wrap(Len(delivered[e]) + k)]
        /\ reorder_buffer' \in [Endpoints -> SUBSET Message]
  BY ReadStream
<1>3. delivered' \in [Endpoints -> Seq(Nat)]
  <2>1. delivered[e] \in Seq(Nat) /\ Len(delivered[e]) \in Nat
    BY <1>1 DEF TypeOK
  <2>2. [i \in 1 .. k |-> Len(delivered[e]) + i - 1] \in Seq(Nat)
    BY <2>1
  <2>3. delivered[e] \o [i \in 1 .. k |-> Len(delivered[e]) + i - 1] \in Seq(Nat)
    BY <2>1, <2>2, ConcatProperties
  <2>. QED  BY <1>1, <1>2, <2>3 DEF TypeOK
<1>4. expected_message_id' \in [Endpoints -> SeqNum]
  <2>1. Len(delivered[e]) + k \in Int
    BY <1>1 DEF TypeOK
  <2>2. Wrap(Len(delivered[e]) + k) \in SeqNum
    BY <2>1, WrapType
  <2>. QED  BY <1>1, <1>2, <2>2 DEF TypeOK
<1>5. received' \in [Endpoints -> Buffer({ReceivedPacket})]
  <2>1. Insert(received[e], p.seq, ReceivedPacket) \in Buffer({ReceivedPacket})
    BY <1>1, InsertType DEF TypeOK
  <2>2. received' = [received EXCEPT ![e] = Insert(received[e], p.seq, ReceivedPacket)]
    BY DEF read_packet
  <2>. QED  BY <1>1, <2>1, <2>2 DEF TypeOK
<1>6. highest_received' \in [Endpoints -> SeqNum] /\ has_received' \in [Endpoints -> BOOLEAN]
  BY <1>1 DEF TypeOK, read_packet
<1>7. unacked' \in [Endpoints -> SUBSET Message]
  BY <1>1 DEF TypeOK, read_packet, on_packet_acked
<1>8. sent' \in [Endpoints -> Buffer(SentPacket)]
  <2>. DEFINE Slot == {EmptySlot} \cup [key : SeqNum, value : SentPacket]
              old == sent[e].slots
              new == [i \in Slots |->
                        IF \E s \in NewlyAcked(e, p) : s % Capacity = i
                        THEN [old[i] EXCEPT !.value.acked = TRUE] ELSE old[i]]
  <2>1. sent[e] \in Buffer(SentPacket) /\ old \in [Slots -> Slot]
    BY <1>1 DEF TypeOK, Buffer
  <2>2. ASSUME NEW i \in Slots, NEW s \in NewlyAcked(e, p), s % Capacity = i
        PROVE  [old[i] EXCEPT !.value.acked = TRUE] \in Slot
    <3>1. s \in SeqNum
      <4>1. p.ack \in SeqNum /\ \A i_1 \in p.ack_bits : p.ack - (i_1 + 1) \in Int
        BY <1>1, ReliableAssumption DEF Packet, SeqNum
      <4>. QED  BY <4>1, WrapType DEF NewlyAcked, AckedBy
    <3>2. old[i].key = s /\ s # Empty
      BY <2>2, <3>1 DEF NewlyAcked, exists, SeqNum, Empty
    <3>3. old[i] \in [key : SeqNum, value : SentPacket]
      BY <2>1, <3>2 DEF EmptySlot
    <3>. QED  BY <3>3 DEF SentPacket
  <2>3. new \in [Slots -> Slot]
    BY <2>1, <2>2
  <2>4. [sent[e] EXCEPT !.slots = new] \in Buffer(SentPacket)
    BY <2>1, <2>3 DEF Buffer
  <2>5. sent' = [sent EXCEPT ![e] = [sent[e] EXCEPT !.slots = new]]
    BY DEF read_packet, on_packet_acked
  <2>. HIDE DEF new
  <2>. QED  BY <1>1, <2>4, <2>5 DEF TypeOK
<1>. QED  BY <1>1, <1>2, <1>3, <1>4, <1>5, <1>6, <1>7, <1>8 DEF TypeOK, read_packet

\* Reading a packet preserves the stream invariant.
LEMMA ReadInv ==
  ASSUME IInv, NEW e \in Endpoints, NEW p \in net, read_packet(e, p)
  PROVE  IInv'
<1>1. TypeOK /\ StreamInv /\ TypeOK'
  BY ReadType DEF IInv
<1>2. UNCHANGED <<queued, next_message_id, net>>
  BY DEF read_packet
<1>3. \A m, s : OfStream(m, s)' <=> OfStream(m, s)
  BY <1>2 DEF OfStream
<1>4. PICK k \in Nat :
        /\ Len(delivered[e]) + k <= queued[Peer(e)]
        /\ delivered' = [delivered EXCEPT ![e] =
                           @ \o [i \in 1 .. k |-> Len(@) + i - 1]]
        /\ expected_message_id' = [expected_message_id EXCEPT ![e] =
                                     Wrap(Len(delivered[e]) + k)]
        /\ \A r \in Endpoints \ {e} : reorder_buffer'[r] = reorder_buffer[r]
        /\ \A m \in reorder_buffer'[e] : /\ OfStream(m, Peer(e))
                                         /\ Len(delivered[e]) + k <= m.payload
  BY ReadStream
<1>5. \A s \in Endpoints : unacked'[s] \subseteq unacked[s]
  BY <1>1 DEF TypeOK, read_packet, on_packet_acked
<1>6. ASSUME NEW r \in Endpoints
      PROVE  LET n == Len(delivered'[r])
             IN  /\ expected_message_id'[r] = Wrap(n)
                 /\ n <= queued'[Peer(r)] /\ queued'[Peer(r)] <= n + Half
                 /\ \A i \in 1 .. n : delivered'[r][i] = i - 1
                 /\ \A m \in reorder_buffer'[r] :
                      OfStream(m, Peer(r))' /\ n <= m.payload
  <2>1. CASE r # e
    <3>1. /\ delivered'[r] = delivered[r] /\ reorder_buffer'[r] = reorder_buffer[r]
          /\ expected_message_id'[r] = expected_message_id[r]
      BY <1>1, <1>4, <2>1 DEF TypeOK
    <3>. QED  BY <1>1, <1>2, <1>3, <3>1 DEF StreamInv
  <2>2. CASE r = e
    <3>. DEFINE old == delivered[e]
                out == [i \in 1 .. k |-> Len(old) + i - 1]
    <3>1. old \in Seq(Nat) /\ Len(old) \in Nat
      BY <1>1 DEF TypeOK
    <3>2. out \in Seq(Nat) /\ Len(out) = k /\ \A i \in 1 .. k : out[i] = Len(old) + i - 1
      BY <3>1
    <3>3. delivered'[e] = old \o out /\ expected_message_id'[e] = Wrap(Len(old) + k)
      BY <1>1, <1>4 DEF TypeOK
    <3>. HIDE DEF out, old
    <3>4. /\ Len(delivered'[e]) = Len(old) + k
          /\ \A i \in 1 .. Len(old) + k :
               delivered'[e][i] = IF i <= Len(old) THEN old[i] ELSE out[i - Len(old)]
      <4>1. /\ Len(old \o out) = Len(old) + Len(out)
            /\ \A i \in 1 .. Len(old) + Len(out) :
                 (old \o out)[i] = IF i <= Len(old) THEN old[i] ELSE out[i - Len(old)]
        BY <3>1, <3>2, ConcatProperties
      <4>. QED  BY <3>2, <3>3, <4>1
    <3>5. /\ \A i \in 1 .. Len(old) : old[i] = i - 1
          /\ queued[Peer(e)] <= Len(old) + Half /\ queued[Peer(e)] \in Nat
      BY <1>1, PeerType DEF StreamInv, TypeOK, old
    <3>6. \A i \in 1 .. Len(old) + k : delivered'[e][i] = i - 1
      <4>. SUFFICES ASSUME NEW i \in 1 .. Len(old) + k PROVE delivered'[e][i] = i - 1
        OBVIOUS
      <4>1. CASE i <= Len(old)
        BY <3>1, <3>4, <3>5, <4>1
      <4>2. CASE i > Len(old)
        <5>1. i - Len(old) \in 1 .. k  BY <3>1, <4>2
        <5>2. out[i - Len(old)] = Len(old) + (i - Len(old)) - 1  BY <5>1, <3>2
        <5>. QED  BY <3>1, <3>4, <4>2, <5>2
      <4>. QED  BY <3>1, <4>1, <4>2, SMTT(30)
    <3>7. queued[Peer(e)] <= Len(old) + k + Half
      BY <3>1, <3>5, SeqModPositive
    <3>. QED  BY <2>2, <1>2, <1>3, <1>4, <3>3, <3>4, <3>6, <3>7 DEF old
  <2>. QED  BY <2>1, <2>2
<1>7. StreamInv'
  <2>1. \A s \in Endpoints : /\ next_message_id'[s] = Wrap(queued'[s])
                             /\ \A m \in unacked'[s] : OfStream(m, s)'
    BY <1>1, <1>2, <1>3, <1>5 DEF StreamInv
  <2>2. \A q \in net' : \A m \in q.messages : OfStream(m, q.src)'
    BY <1>1, <1>2, <1>3 DEF StreamInv
  <2>. QED  BY <2>1, <2>2, <1>6 DEF StreamInv
<1>. QED  BY <1>1, <1>7 DEF IInv

\* Every step of Spec, stuttering included, preserves the invariant.
LEMMA StepInv == IInv /\ [Next]_vars => IInv'
<1>. SUFFICES ASSUME IInv, [Next]_vars PROVE IInv'
  OBVIOUS
<1>1. ASSUME NEW e \in Endpoints, queue_reliable(e) PROVE IInv'
  BY <1>1, QueueInv
<1>2. ASSUME NEW e \in Endpoints, send_payload(e) PROVE IInv'
  BY <1>2, WriteInv DEF send_payload
<1>3. ASSUME NEW e \in Endpoints, NEW p \in net, read_packet(e, p) PROVE IInv'
  BY <1>3, ReadInv
<1>4. CASE UNCHANGED vars
  BY <1>4 DEF IInv, TypeOK, StreamInv, OfStream, vars, sendVars, recvVars
<1>. QED  BY <1>1, <1>2, <1>3, <1>4 DEF Next

\* Both endpoints and the network stay well typed: in particular every sequence
\* number and message id stays a u16.
THEOREM TypeCorrect == Spec => []TypeOK
<1>1. IInv => TypeOK
  BY DEF IInv
<1>. QED  BY InitInv, StepInv, <1>1, PTL DEF Spec

\* Every copy of a message keeps its place in the stream (StreamInv).
THEOREM StreamInvariant == Spec => []StreamInv
<1>1. IInv => StreamInv
  BY DEF IInv
<1>. QED  BY InitInv, StepInv, <1>1, PTL DEF Spec

\* read_packet hands the application its peer's messages once each and in order,
\* whatever the network loses, repeats or reorders and however often ids wrap.
THEOREM InOrderDelivery == Spec => []InOrderExactlyOnce
<1>1. IInv => InOrderExactlyOnce
  BY PeerType DEF IInv, TypeOK, StreamInv, InOrderExactlyOnce
<1>. QED  BY InitInv, StepInv, <1>1, PTL DEF Spec

\* The layer implements two FIFO streams (ReliableChannel): a step of either
\* endpoint queues a message, extends a delivered prefix, or changes neither.
THEOREM Refinement == Spec => ImplementsChannel
<1>1. Init => Channel!Init
  BY DEF Init, Channel!Init
<1>2. ASSUME IInv, [Next]_vars
      PROVE  [Channel!Next]_<<queued, delivered>>
  <2>1. ASSUME NEW e \in Endpoints, queue_reliable(e) PROVE Channel!Queue(e)
    BY <2>1 DEF queue_reliable, recvVars, Channel!Queue
  <2>2. ASSUME NEW e \in Endpoints, send_payload(e) PROVE UNCHANGED <<queued, delivered>>
    BY <2>2 DEF send_payload, write_packet, recvVars
  <2>3. ASSUME NEW e \in Endpoints, NEW p \in net, read_packet(e, p)
        PROVE  Channel!Deliver(e) \/ UNCHANGED <<queued, delivered>>
    <3>1. PICK k \in Nat :
            /\ Len(delivered[e]) + k <= queued[Peer(e)]
            /\ delivered' = [delivered EXCEPT ![e] =
                               @ \o [i \in 1 .. k |-> Len(@) + i - 1]]
      BY <1>2, <2>3, ReadStream
    <3>2. /\ queued' = queued /\ queued[Peer(e)] \in Nat /\ delivered[e] \in Seq(Nat)
          /\ Len(delivered[e]) \in Nat /\ delivered \in [Endpoints -> Seq(Nat)]
      BY <1>2, <2>3, PeerType DEF IInv, TypeOK, read_packet
    <3>3. CASE k = 0
      <4>1. [i \in 1 .. k |-> Len(delivered[e]) + i - 1] = <<>>
        BY <3>3
      <4>2. delivered[e] \o <<>> = delivered[e]
        BY <3>2, ConcatEmptySeq
      <4>. QED  BY <3>1, <3>2, <4>1, <4>2
    <3>4. CASE k > 0
      <4>1. k \in 1 .. queued[Peer(e)] - Len(delivered[e])
        BY <3>1, <3>2, <3>4
      <4>. QED  BY <3>1, <3>2, <4>1, Zenon DEF Channel!Deliver
    <3>. QED  BY <3>3, <3>4
  <2>4. CASE UNCHANGED vars
    BY <2>4 DEF vars, sendVars, recvVars
  <2>. QED  BY <1>2, <2>1, <2>2, <2>3, <2>4 DEF Next, Channel!Next
<1>. QED  BY <1>1, <1>2, InitInv, StepInv, PTL DEF Spec, ImplementsChannel, Channel!Spec

=============================================================================
