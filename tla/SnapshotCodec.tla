--------------------------- MODULE SnapshotCodec ---------------------------
(* The bits of a snapshot: the second half of ReplicationState::encode and  *)
(* decode_snapshot (src/proto/snapshot.cpp), one snapshot at a time.  How   *)
(* baselines are kept and acknowledged, and how priorities choose between   *)
(* entities, is in Snapshot; here any choice of the right size is possible. *)
(*                                                                          *)
(* A frame maps the ids in it to their quantized states.  An entity's kind  *)
(* never changes.                                                           *)
EXTENDS BitStream, FiniteSetsExt

CONSTANTS Ids, Viewer,                  \* entities, and the one whose snapshot it is
          States,                       \* [px, py, vx, vy] an entity may be in
          Budgets,                      \* sizes of a snapshot in bytes
          WordBits,                     \* of ticks and input sequences, 32
          kUpdateCountBits, kPositionBits, kVelocityBits, kKindBits,
          kSmallDeltaMin, kSmallDeltaMax,
          None                          \* no frame, no snapshot

ASSUME CodecAssumption ==
  /\ Viewer \in Ids /\ Ids \subseteq 1 .. Group ^ VarintBytes - 1
  /\ Cardinality(Ids) < 2 ^ kUpdateCountBits
  /\ kSmallDeltaMin < 0 /\ kSmallDeltaMax >= 0

VARIABLES base,       \* the baseline of shard and client, or None
          current,    \* scratch_current_: what the viewer sees
          packet,     \* the bytes encode returned, None before and for 0
          recorded,   \* the frame encode recorded with them
          midway,     \* the writer overflowed inside a record
          applied,    \* the client has read the packet
          decoded     \* what the client made of the packet

vars == <<base, current, packet, recorded, midway, applied, decoded>>

\* These stand for any tick, the baseline's, and any input sequence.
Tick == 2 ^ WordBits - 1
BaselineTick == 2 ^ WordBits - 2
InputSequence == 2

\* An EntityWireState: the state, and the kind an id has once and for all.
EntityWireState(id, s) ==
  [px |-> s.px, py |-> s.py, vx |-> s.vx, vy |-> s.vy, kind |-> id % 2 ^ kKindBits]

Frames == {[id \in DOMAIN f |-> EntityWireState(id, f[id])] :
             f \in UNION {[ids -> States] : ids \in SUBSET Ids}}

Init ==
  /\ base \in Frames \cup {None}
  /\ current \in {frame \in Frames : Viewer \in DOMAIN frame}
  /\ packet = None /\ recorded = None /\ midway = FALSE /\ applied = FALSE /\ decoded = None

Sorted(ids) == SetToSortSeq(ids, <)

-----------------------------------------------------------------------------
(* encode.                                                                  *)

Before == IF base = None THEN {} ELSE DOMAIN base

\* Mutant: the kind, which only new entities carry, is not budgeted for.
kWorstCaseEntityBits_known ==
  VarintBytes * ByteBits + 1 + 1 + 1 + 2 * kPositionBits + 2 * kVelocityBits

kWorstCaseEntityBits ==
  VarintBytes * ByteBits + 1 + 1 + 1 + 2 * kPositionBits + 2 * kVelocityBits + kKindBits

\* Ids go in order, as the gaps between them.
write_entity_id(ids, i) == write_varint(ids[i] - (IF i = 1 THEN 0 ELSE ids[i - 1]))

write_header(removed) ==
  write_bits(Tick, WordBits) \o write_bool(base = None)
  \o (IF base = None THEN <<>> ELSE write_bits(BaselineTick, WordBits))
  \o write_bits(InputSequence, WordBits) \o write_varint(Viewer) \o write_varint(Len(removed))
  \o FoldLeft(LAMBDA out, i : out \o write_entity_id(removed, i), <<>>, Upto(Len(removed)))

fits(available) == IF available <= kUpdateCountBits THEN 0
                   ELSE (available - kUpdateCountBits) \div kWorstCaseEntityBits

candidates == {id \in DOMAIN current : id \in Before => current[id] # base[id]}

Chosen(available) == IF Cardinality(candidates) <= fits(available) THEN {candidates}
                     ELSE kSubset(fits(available), candidates)

write_pair(x, y, bits) == write_bits(x, bits) \o write_bits(y, bits)

\* Mutant: the upper end of the range is let past.
Small_inclusive(d) == d >= kSmallDeltaMin /\ d <= kSmallDeltaMax + 1

Small(d) == d >= kSmallDeltaMin /\ d <= kSmallDeltaMax

write_position(now, dx, dy) ==
  IF Small(dx) /\ Small(dy)
  THEN write_bool(TRUE) \o write_ranged(dx, kSmallDeltaMin, kSmallDeltaMax)
                        \o write_ranged(dy, kSmallDeltaMin, kSmallDeltaMax)
  ELSE write_bool(FALSE) \o write_pair(now.px, now.py, kPositionBits)

write_new(now) ==
  write_pair(now.px, now.py, kPositionBits) \o write_pair(now.vx, now.vy, kVelocityBits)
  \o write_bits(now.kind, kKindBits)

write_update(now, then) ==
  (IF now.px # then.px \/ now.py # then.py
   THEN write_bool(TRUE) \o write_position(now, now.px - then.px, now.py - then.py)
   ELSE write_bool(FALSE))
  \o (IF now.vx # then.vx \/ now.vy # then.vy
      THEN write_bool(TRUE) \o write_pair(now.vx, now.vy, kVelocityBits)
      ELSE write_bool(FALSE))

write_record(id) ==
  IF id \in Before THEN write_bool(FALSE) \o write_update(current[id], base[id])
  ELSE write_bool(TRUE) \o write_new(current[id])

write_records(ids) ==
  FoldLeft(LAMBDA out, i : out \o write_entity_id(ids, i) \o write_record(ids[i]),
           write_bits(Len(ids), kUpdateCountBits), Upto(Len(ids)))

\* The frame both sides are to hold: what was not sent stays as it was.
Recorded(selected) ==
  [id \in {i \in DOMAIN current : i \in selected \cup Before} |->
     IF id \in selected THEN current[id] ELSE base[id]]

\* It returns 0, and changes nothing, if the header overflows or the rest does.
encode(budget) ==
  LET header == write_header(Sorted(Before \ DOMAIN current))
  IN  /\ packet = None /\ recorded = None /\ ~midway /\ ~overflowed(header, budget)
      /\ \E selected \in Chosen(bits_remaining(header, budget)) :
           LET writer == header \o write_records(Sorted(selected))
               overflow == overflowed(writer, budget)
           IN  /\ packet' = IF overflow THEN None ELSE bytes_written(writer)
               /\ recorded' = IF overflow THEN None ELSE Recorded(selected)
               /\ midway' = (overflow /\ selected # {})
      /\ UNCHANGED <<base, current, applied, decoded>>

-----------------------------------------------------------------------------
(* decode_snapshot, against the same baseline.  Each step takes and returns *)
(* the reader with what was read so far.                                    *)

\* The ids removed, as a set.
read_removed(count) ==
  FoldLeft(LAMBDA v, i : LET gap == read_varint(v.reader)
                         IN  [reader |-> gap, id |-> v.id + gap.value,
                              removed |-> v.removed \cup {v.id + gap.value}],
           [reader |-> count, id |-> 0, removed |-> {}], Upto(count.value))

\* static_cast<u16> of the sum.
Moved(p, d) == (p + d) % 2 ^ kPositionBits

read_small(r, state) ==
  LET dx == read_ranged(r, kSmallDeltaMin, kSmallDeltaMax)
      dy == read_ranged(dx, kSmallDeltaMin, kSmallDeltaMax)
  IN  [reader |-> dy, state |-> [state EXCEPT !.px = Moved(@, dx.value), !.py = Moved(@, dy.value)]]

read_pair(r, bits) == read_all(r, <<bits, bits>>)

read_absolute(p, state) ==
  [reader |-> p.reader, state |-> [state EXCEPT !.px = p.values[1], !.py = p.values[2]]]

read_position(small, state) ==
  IF small.value = 1 THEN read_small(small, state)
  ELSE read_absolute(read_pair(small, kPositionBits), state)

read_velocity(turned, state) ==
  IF turned.value = 0 THEN [reader |-> turned, state |-> state]
  ELSE LET v == read_pair(turned, kVelocityBits)
       IN  [reader |-> v.reader, state |-> [state EXCEPT !.vx = v.values[1], !.vy = v.values[2]]]

read_new(r) ==
  LET new == read_all(r, <<kPositionBits, kPositionBits, kVelocityBits, kVelocityBits, kKindBits>>)
      n == new.values
  IN  [reader |-> new.reader,
       state |-> [px |-> n[1], py |-> n[2], vx |-> n[3], vy |-> n[4], kind |-> n[5]]]

read_update(moved, state) ==
  LET v == IF moved.value = 1 THEN read_position(read_bits(moved, 1), state)
           ELSE [reader |-> moved, state |-> state]
  IN  read_velocity(read_bits(v.reader, 1), v.state)

\* The record of id goes into the frame.
Inserted(frame, id, record) ==
  [reader |-> record.reader, id |-> id, ok |-> ~record.reader.overflow,
   frame |-> [i \in DOMAIN frame \cup {id} |-> IF i = id THEN record.state ELSE frame[i]]]

\* An update of an entity that is not there fails.
read_body(v, is_new, id) ==
  IF is_new.value = 1 THEN Inserted(v.frame, id, read_new(is_new))
  ELSE IF id \notin DOMAIN v.frame THEN [v EXCEPT !.ok = FALSE]
  ELSE Inserted(v.frame, id, read_update(read_bits(is_new, 1), v.frame[id]))

read_record(v) ==
  LET gap == read_varint(v.reader) IN read_body(v, read_bits(gap, 1), v.id + gap.value)

read_records(count, frame) ==
  FoldLeft(LAMBDA v, i : IF v.ok THEN read_record(v) ELSE v,
           [reader |-> count, id |-> 0, ok |-> TRUE, frame |-> frame], Upto(count.value))

\* The states kept of the baseline, updated.
Decoded(out, count, kept) ==
  LET result == read_records(count, [id \in kept |-> base[id]])
  IN  IF count.overflow \/ ~result.ok THEN None ELSE out @@ [frame |-> result.frame]

Kept(out, full, removal) ==
  IF removal.reader.overflow THEN None
  ELSE Decoded(out, read_bits(removal.reader, kUpdateCountBits),
               IF full THEN {} ELSE Before \ removal.removed)

\* start is the tick and the flag; the baseline's tick follows unless full.
read_header(start, full) ==
  LET rest == read_all(start.reader, <<IF full THEN 0 ELSE WordBits, WordBits>>)
      viewer == read_varint(rest.reader)
  IN  IF \/ viewer.overflow
         \/ ~full /\ (base = None \/ rest.values[1] # BaselineTick)
      THEN None
      ELSE Kept([tick |-> start.values[1], last_input_sequence |-> rest.values[2],
                 viewer |-> viewer.value],
                full, read_removed(read_varint(viewer)))

\* None where it returns false.
decode_snapshot(bytes) ==
  LET start == read_all(BitReader(bytes), <<WordBits, 1>>)
  IN  read_header(start, start.values[2] = 1)

apply_snapshot ==
  /\ packet # None /\ ~applied /\ applied' = TRUE
  /\ decoded' = decode_snapshot(packet)
  /\ UNCHANGED <<base, current, packet, recorded, midway>>

Next == (\E budget \in Budgets : encode(budget)) \/ apply_snapshot

Spec == Init /\ [][Next]_vars

-----------------------------------------------------------------------------
\* The client decodes every snapshot to the frame the shard recorded for it, bit
\* for bit: over varint gaps of any length, deltas at both ends of the small
\* range, absolute positions, entities deferred for want of room and removals.
DecodesAsRecorded ==
  applied => /\ decoded # None /\ decoded.frame = recorded
             /\ decoded.tick = Tick /\ decoded.last_input_sequence = InputSequence
             /\ decoded.viewer = Viewer

\* snapshot.cpp on kWorstCaseEntityBits: "Selection budgets against this so the
\* writer can never overflow midway through a record."  A snapshot whose header
\* fits is never given up once a record was begun, whatever the records hold.
NeverMidway == ~midway

=============================================================================
