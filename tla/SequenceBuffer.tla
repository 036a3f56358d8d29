--------------------------- MODULE SequenceBuffer ---------------------------
(***************************************************************************)
(* Wrapping sequence numbers (core/types.h) and SequenceBuffer<T,Capacity> *)
(* (net/sequence_buffer.h): a fixed array of slots indexed by sequence     *)
(* modulo Capacity, in which entries age out as sequences advance.         *)
(* SeqMod is 2^16 and Capacity is kAckWindowSize = 1024 in the code.       *)
(***************************************************************************)
EXTENDS Integers

CONSTANTS SeqMod,    \* number of distinct sequence numbers (2^16 for u16)
          Capacity   \* number of slots of a buffer

Half == SeqMod \div 2

\* u16 arithmetic has an even modulus, and the buffer asserts a power-of-two
\* capacity, which therefore divides the modulus.
ASSUME SeqModAssumption == /\ SeqMod \in Nat
                           /\ Half \in Nat \ {0}
                           /\ SeqMod = 2 * Half

ASSUME CapacityAssumption == /\ Capacity \in 1 .. Half
                             /\ SeqMod % Capacity = 0

SeqNum == 0 .. SeqMod - 1

Empty == -1          \* kEmpty, a key no sequence number equals

\* static_cast<u16>(n)
Wrap(n) == n % SeqMod

sequence_greater(a, b) == \/ a > b /\ a - b <= Half
                          \/ a < b /\ b - a > Half

Slots == 0 .. Capacity - 1

\* keys_ and values_ together; the value behind an empty key cannot be read.
EmptySlot == [key |-> Empty]

EmptyBuffer == [slots |-> [i \in Slots |-> EmptySlot],
                latest |-> 0, has_latest |-> FALSE]

exists(buf, s) == buf.slots[s % Capacity].key = s

\* find, for a sequence that exists.
Value(buf, s) == buf.slots[s % Capacity].value

\* The early return of insert: a sequence too old for the window.
TooOld(buf, s) == /\ buf.has_latest
                  /\ sequence_greater(buf.latest, s)
                  /\ Wrap(buf.latest - s) >= Capacity

\* Mutant: sequences skipped by a jump keep the entries of the previous lap.
remove_range_nothing(slots, begin, end) == slots

remove_range(slots, begin, end) ==
  LET span == Wrap(end - begin)
      skipped == {Wrap(begin + d) % Capacity : d \in 0 .. span}
  IN  [i \in Slots |->
         IF span >= Capacity \/ i \in skipped THEN EmptySlot ELSE slots[i]]

\* insert, for a sequence that is not TooOld.
Insert(buf, s, value) ==
  LET newer == ~buf.has_latest \/ sequence_greater(s, buf.latest)
      begin == IF buf.has_latest THEN Wrap(buf.latest + 1) ELSE s
      kept  == IF newer THEN remove_range(buf.slots, begin, s) ELSE buf.slots
  IN  [slots |-> [kept EXCEPT ![s % Capacity] = [key |-> s, value |-> value]],
       latest |-> IF newer THEN s ELSE buf.latest,
       has_latest |-> TRUE]
=============================================================================
