--------------------------- MODULE MCEntityStore ---------------------------
(* Instances of EntityStore for TLC.                                        *)
EXTENDS EntityStore

\* The corners of four cells, and a place in the last column from which an entity
\* pushed from (3, 4) to (4, 4) is just within reach.
MCPositions == [x : {3, 4}, y : {3, 4}] \cup {[x |-> 6, y |-> 4]}

=============================================================================
