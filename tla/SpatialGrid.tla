---------------------------- MODULE SpatialGrid ----------------------------
(* The uniform grid of src/spatial/grid.h: a counting sort of entity        *)
(* indices by the Morton code of their cell, a neighbourhood query and the  *)
(* half-neighbourhood walk over close pairs.  Positions are integers; entity*)
(* indices count from 0 as in the source, sequences hold entity i at i + 1. *)
EXTENDS Morton, SequencesExt

CONSTANTS CellsPerAxis, CellSize

ASSUME GridAssumption == /\ CellsPerAxis \in {2^m : m \in 0 .. 10}
                         /\ CellSize \in Nat \ {0}

Axis == 0 .. CellsPerAxis - 1
Cells == CellsPerAxis * CellsPerAxis

Code == [x \in Axis, y \in Axis |-> morton_encode(x, y)]

cell_x_of(x) ==
  LET cell == x \div CellSize
  IN  IF cell < 0 THEN 0 ELSE IF cell >= CellsPerAxis THEN CellsPerAxis - 1 ELSE cell

cell_of(p) == Code[cell_x_of(p.x), cell_x_of(p.y)]

\* The prefix sums: the first slot of each cell, and one past the last.
Starts(codes) ==
  LET Count(c) == Cardinality({i \in DOMAIN codes : codes[i] = c})
      start[c \in 0 .. Cells] == IF c = 0 THEN 0 ELSE start[c - 1] + Count(c - 1)
  IN  start

\* The scatter pass: entity i goes to its cell's cursor, which moves on.
Scatter(codes, start) ==
  FoldLeft(LAMBDA acc, i : [acc EXCEPT !.sorted[acc.cursor[codes[i]]] = i - 1,
                                       !.cursor[codes[i]] = @ + 1],
           [cursor |-> start, sorted |-> [k \in 0 .. Len(codes) - 1 |-> 0]],
           [i \in 1 .. Len(codes) |-> i]).sorted

build(positions) ==
  LET codes == [i \in DOMAIN positions |-> cell_of(positions[i])]
      start == Starts(codes)
  IN  [cell_start |-> start, sorted |-> Scatter(codes, start)]

Slots(grid, code) == grid.cell_start[code] .. grid.cell_start[code + 1] - 1

\* Mutant: the cells right of and below the centre are not walked.
query_radius_half(grid, eye, radius) ==
  LET xs == cell_x_of(eye.x - radius) .. cell_x_of(eye.x)
      ys == cell_x_of(eye.y - radius) .. cell_x_of(eye.y)
  IN  UNION {{<<x, y>>} \X Slots(grid, Code[x, y]) : x \in xs, y \in ys}

\* The calls of fn for a circle: the cell walked and the slot.  Callers check the
\* range themselves.
query_radius(grid, eye, radius) ==
  LET xs == cell_x_of(eye.x - radius) .. cell_x_of(eye.x + radius)
      ys == cell_x_of(eye.y - radius) .. cell_x_of(eye.y + radius)
  IN  UNION {{<<x, y>>} \X Slots(grid, Code[x, y]) : x \in xs, y \in ys}

distance_sq(p, q) == (p.x - q.x) * (p.x - q.x) + (p.y - q.y) * (p.y - q.y)

\* Mutant: the anti-diagonal neighbour is missing.
kOffsets_three == {<<1, 0>>, <<0, 1>>, <<1, 1>>}

kOffsets == {<<1, 0>>, <<-1, 1>>, <<0, 1>>, <<1, 1>>}

\* The calls of fn: the cell walked, the offset, and the two slots.
for_each_pair(grid, positions, radius) ==
  LET Near(i, j) == distance_sq(positions[grid.sorted[i] + 1],
                                positions[grid.sorted[j] + 1]) <= radius * radius
      Within(x, y) == {<<x, y, <<0, 0>>, i, j>> : i, j \in Slots(grid, Code[x, y])}
      Across(x, y, o) == {<<x, y, o, i, j>> : i \in Slots(grid, Code[x, y]),
                                              j \in Slots(grid, Code[x + o[1], y + o[2]])}
      InGrid(x, y, o) == x + o[1] \in Axis /\ y + o[2] \in Axis
  IN  UNION {{v \in Within(x, y) : v[4] < v[5] /\ Near(v[4], v[5])} : x, y \in Axis}
      \cup UNION {{v \in Across(t[1], t[2], t[3]) : Near(v[4], v[5])} :
                    t \in {s \in Axis \X Axis \X kOffsets : InGrid(s[1], s[2], s[3])}}

=============================================================================
