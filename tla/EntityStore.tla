---------------------------- MODULE EntityStore ----------------------------
(* The entities of a shard's world over its ticks: the arrays of            *)
(* src/sim/world.cpp with removal by swapping in the last entity, the grid  *)
(* rebuilt in step from the integrated positions, the collision pass that   *)
(* moves entities after the grid was built, and replication, which queries  *)
(* it by index.                                                             *)
EXTENDS SpatialGrid

CONSTANTS MaxEntities,  \* entities ever spawned
          Positions,    \* where entities can be
          Diameter,     \* 2 * player_radius
          AoiRadius,    \* aoi_radius
          Drift         \* how far the collision pass moves an entity along an axis:
                        \* assumed, the code has no bound for an entity in a crowd

\* World::configure checks the diameter.
ASSUME EntityAssumption == /\ MaxEntities \in Nat /\ Drift \in Nat /\ AoiRadius \in Nat
                           /\ Diameter \in 0 .. CellSize

VARIABLES id, position,   \* EntityStore::id, ::position
          index_of,       \* EntityStore::index_of
          next_entity,    \* World::next_entity_
          grid,           \* World::grid_
          built,          \* history: the positions the grid was built from
          phase           \* "open" to changes, or "stepped" and to be replicated

vars == <<id, position, index_of, next_entity, grid, built, phase>>

Init ==
  /\ id = <<>> /\ position = <<>> /\ index_of = <<>>
  /\ next_entity = 1 /\ grid = build(<<>>) /\ built = <<>> /\ phase = "open"

add(p) ==
  /\ phase = "open" /\ next_entity <= MaxEntities
  /\ id' = Append(id, next_entity) /\ position' = Append(position, p)
  /\ index_of' = [e \in DOMAIN index_of \cup {next_entity} |->
                    IF e = next_entity THEN Len(id) ELSE index_of[e]]
  /\ next_entity' = next_entity + 1
  /\ UNCHANGED <<grid, built, phase>>

\* Mutant: the entity swapped in keeps its old index.
remove_stale(e) ==
  /\ phase = "open" /\ e \in DOMAIN index_of
  /\ LET i == index_of[e] + 1
         Swapped(s) == [k \in 1 .. Len(s) - 1 |-> IF k = i THEN s[Len(s)] ELSE s[k]]
     IN  /\ id' = Swapped(id) /\ position' = Swapped(position)
         /\ index_of' = [f \in DOMAIN index_of \ {e} |-> index_of[f]]
  /\ UNCHANGED <<next_entity, grid, built, phase>>

\* The last entity takes the place of the one removed.
remove(e) ==
  /\ phase = "open" /\ e \in DOMAIN index_of
  /\ LET i == index_of[e] + 1
         Swapped(s) == [k \in 1 .. Len(s) - 1 |-> IF k = i THEN s[Len(s)] ELSE s[k]]
     IN  /\ id' = Swapped(id) /\ position' = Swapped(position)
         /\ index_of' = [f \in DOMAIN index_of \ {e} |->
                           IF f = id[Len(id)] THEN i - 1 ELSE index_of[f]]
  /\ UNCHANGED <<next_entity, grid, built, phase>>

\* The positions after the movement pass.  In a tick one entity moves, to any place.
integrate(s) == {s} \cup {[s EXCEPT ![k] = p] : k \in DOMAIN s, p \in Positions}

\* The positions after the collision pass, which pushes both entities of a pair,
\* and an entity of several pairs several times: any places at most Drift away along
\* an axis.  Which pairs collide is decided on positions the pass has moved already.
resolve_collisions(s) ==
  LET Pushed(p) == {q \in Positions : /\ q.x - p.x \in -Drift .. Drift
                                      /\ q.y - p.y \in -Drift .. Drift}
  IN  {moved \in [DOMAIN s -> Positions] : \A k \in DOMAIN s : moved[k] \in Pushed(s[k])}

step ==
  /\ phase = "open" /\ phase' = "stepped"
  /\ \E moved \in integrate(position) : /\ built' = moved /\ grid' = build(moved)
                                        /\ position' \in resolve_collisions(moved)
  /\ UNCHANGED <<id, index_of, next_entity>>

\* replicate queries the grid; connects, migrations and timeouts follow.
replicate ==
  /\ phase = "stepped" /\ phase' = "open"
  /\ UNCHANGED <<id, position, index_of, next_entity, grid, built>>

Next == \/ \E p \in Positions : add(p)
        \/ \E e \in 1 .. MaxEntities : remove(e)
        \/ step \/ replicate

Spec == Init /\ [][Next]_vars

-----------------------------------------------------------------------------
Pair(v) == {grid.sorted[v[4]], grid.sorted[v[5]]}

\* The parallel arrays of the world have one length, and index_of has a key for
\* every entity in them and for no other.
TypeOK == /\ phase \in {"open", "stepped"} /\ Len(id) = Len(position)
          /\ ToSet(position) \subseteq Positions /\ DOMAIN index_of = ToSet(id)

\* After any order of spawns and removals, index_of finds every entity where the
\* arrays have it.
IndexConsistent == \A k \in DOMAIN id : id[k] \in DOMAIN index_of /\ index_of[id[k]] = k - 1

\* The counting sort leaves every entity in exactly one slot, that of its cell.
SortedByCell ==
  phase = "stepped" =>
    \A k \in DOMAIN built :
      \E s \in Slots(grid, cell_of(built[k])) :
        {t \in DOMAIN grid.sorted : grid.sorted[t] = k - 1} = {s}

\* grid.h: for_each_pair visits each pair within the radius exactly once, across
\* cell borders and at the edge of the world, while nobody moves: of the pairs the
\* collision pass itself moves during its walk it says nothing.
PairsOnce ==
  phase = "stepped" =>
    LET visits == for_each_pair(grid, built, Diameter)
    IN  \A k, l \in DOMAIN built : k < l =>
          Cardinality({v \in visits : Pair(v) = {k - 1, l - 1}})
            = IF distance_sq(built[k], built[l]) <= Diameter * Diameter THEN 1 ELSE 0

\* Replication queries a grid older than the positions.  A viewer still finds,
\* once each, all entities nearer than the interest radius less what the
\* collision pass can have moved them.
QueryComplete ==
  phase = "stepped" =>
    \A eye, k \in DOMAIN position :
      distance_sq(position[eye], position[k]) <= (AoiRadius - Drift) * (AoiRadius - Drift) =>
        Cardinality({v \in query_radius(grid, position[eye], AoiRadius) :
                       grid.sorted[v[2]] = k - 1}) = 1

=============================================================================
