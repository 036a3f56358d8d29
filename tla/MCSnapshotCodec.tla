-------------------------- MODULE MCSnapshotCodec --------------------------
(* Instances of SnapshotCodec for TLC.                                      *)
EXTENDS SnapshotCodec

State(x, y, u, v) == [px |-> x, py |-> y, vx |-> u, vy |-> v]

\* Differences of 3 and 4 either way, the ends of the small range and one above
\* it, and of the whole axis.
MCStates == {State(0, 0, 0, 0), State(3, 0, 0, 1), State(4, 0, 3, 0), State(15, 4, 0, 0)}
MCSmallDeltaMin == -4

=============================================================================
