------------------------------- MODULE Morton -------------------------------
(* The Z-order code of src/spatial/morton.h, with the shifts and masks of   *)
(* the source, against the interleaving of bits it stands for.              *)
EXTENDS Integers, FiniteSetsExt, Bitwise

\* Each step doubles the gaps; the masks are 00ff00ff, 0f0f0f0f, 33333333, 55555555.
spread_bits(value) ==
  LET a == (value | (value * 2^8)) & 16711935
      b == (a | (a * 2^4)) & 252645135
      c == (b | (b * 2^2)) & 858993459
  IN  (c | (c * 2)) & 1431655765

compact_bits(value) ==
  LET a == value & 1431655765
      b == (a | (a \div 2)) & 858993459
      c == (b | (b \div 2^2)) & 252645135
      d == (c | (c \div 2^4)) & 16711935
  IN  (d | (d \div 2^8)) & 65535

morton_encode(cell_x, cell_y) == spread_bits(cell_x) | (spread_bits(cell_y) * 2)

morton_decode(code) == <<compact_bits(code), compact_bits(code \div 2)>>

\* The reference: bit k of x at 2k and bit k of y at 2k + 1.
Bit(v, k) == (v \div 2^k) % 2
InterleavedBits(x, y) == MapThenSumSet(LAMBDA k : 4^k * (Bit(x, k) + 2 * Bit(y, k)), 0 .. 9)

\* The small coordinates and, for every bit of one below 1024, those around it.
Coordinates == 0 .. 7 \cup {2^k : k \in 3 .. 9} \cup {2^k - 1 : k \in 4 .. 10}
               \cup {2^k + 1 : k \in 3 .. 9} \cup {341, 682}

\* Evaluated by TLC before every run over this module: morton_encode interleaves
\* the bits, so the codes of a grid of 2^m cells per axis are exactly the indices
\* of its cell_start_ array, and morton_decode gives the cell back.
ASSUME CodesInterleave ==
  \A x, y \in Coordinates : /\ morton_encode(x, y) = InterleavedBits(x, y)
                             /\ morton_decode(morton_encode(x, y)) = <<x, y>>
=============================================================================
