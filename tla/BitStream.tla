----------------------------- MODULE BitStream -----------------------------
(* The bit writer and reader of src/proto/bitstream.h.  A buffer is the     *)
(* sequence of its bits, least significant first in every byte.  Bytes have *)
(* ByteBits bits and a varint at most VarintBytes bytes, 8 and 5 in the     *)
(* code.                                                                    *)
EXTENDS Integers, SequencesExt

CONSTANTS ByteBits, VarintBytes

ASSUME BitStreamAssumption == ByteBits \in Nat \ {0, 1} /\ VarintBytes \in Nat \ {0}

Upto(n) == [i \in 1 .. n |-> i]

-----------------------------------------------------------------------------
(* BitWriter: what each call appends to the buffer.  A call that does not   *)
(* fit sets the flag, so it is set when the calls do not fit together.      *)

write_bits(value, bits) == [i \in 1 .. bits |-> (value \div 2 ^ (i - 1)) % 2]

bits_remaining(written, capacity) == capacity * ByteBits - Len(written)

overflowed(written, capacity) == bits_remaining(written, capacity) < 0

\* bytes_written: the last byte is filled up with zeroes.
bytes_written(written) == written \o write_bits(0, (-Len(written)) % ByteBits)

write_bool(value) == write_bits(IF value THEN 1 ELSE 0, 1)

\* The position of the highest bit of max - min.
bits_required(min, max) == CHOOSE n \in 1 .. max - min + 1 :
                             /\ max - min < 2 ^ n
                             /\ n = 1 \/ max - min >= 2 ^ (n - 1)

write_ranged(value, min, max) ==
  write_bits((IF value < min THEN min ELSE IF value > max THEN max ELSE value) - min,
             bits_required(min, max))

\* ByteBits - 1 bits of the value to a byte, whose high bit says that more follow.
Group == 2 ^ (ByteBits - 1)
VarintLength(value) == CHOOSE n \in 1 .. VarintBytes :
                         value < Group ^ n /\ (n = 1 \/ value >= Group ^ (n - 1))

write_varint(value) ==
  FoldLeft(LAMBDA out, i : out \o write_bits(value \div Group ^ (i - 1), ByteBits - 1)
                               \o write_bool(i < VarintLength(value)),
           <<>>, Upto(VarintLength(value)))

-----------------------------------------------------------------------------
(* BitReader: value is what the last call returned.                         *)

BitReader(buffer) == [buffer |-> buffer, bit_pos |-> 0, overflow |-> FALSE, value |-> 0]

\* Past the end: zero and the flag.
read_bits(r, bits) ==
  IF r.bit_pos + bits > Len(r.buffer) THEN [r EXCEPT !.overflow = TRUE, !.value = 0]
  ELSE [r EXCEPT !.bit_pos = @ + bits,
                 !.value = FoldLeft(LAMBDA sum, i : sum + r.buffer[r.bit_pos + i] * 2 ^ (i - 1),
                                    0, Upto(bits))]

\* Several calls in a row, and what each returned.
read_all(r, widths) ==
  FoldLeft(LAMBDA v, bits : LET read == read_bits(v.reader, bits)
                            IN  [reader |-> read, values |-> Append(v.values, read.value)],
           [reader |-> r, values |-> <<>>], widths)

read_ranged(r, min, max) ==
  LET read == read_bits(r, bits_required(min, max)) IN [read EXCEPT !.value = @ + min]

\* Bytes are read until one does not say that more follow.
read_varint(r) ==
  FoldLeft(LAMBDA v, i :
             IF ~v.more THEN v
             ELSE LET read == read_bits(v.reader, ByteBits)
                      sum == v.sum + (read.value % Group) * Group ^ (i - 1)
                  IN  [more |-> read.value >= Group, sum |-> sum,
                       reader |-> [read EXCEPT !.value = sum]],
           [more |-> TRUE, sum |-> 0, reader |-> r], Upto(VarintBytes)).reader

=============================================================================
