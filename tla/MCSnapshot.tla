----------------------------- MODULE MCSnapshot -----------------------------
(* Snapshot for TLC.                                                         *)
EXTENDS Snapshot

CONSTANTS e1, e2, e3

Scenario(entities, wire_states, budget, max_closeness, max_tick, max_in_flight, max_acks,
         previous_ticks, renders) ==
  [entities |-> entities, wire_states |-> wire_states, budget |-> budget,
   max_closeness |-> max_closeness, max_tick |-> max_tick,
   max_in_flight |-> max_in_flight, max_acks |-> max_acks,
   previous_ticks |-> previous_ticks, renders |-> renders]

\* Deltas against changing states in a packet too small for both entities.
Changing == Scenario({Viewer, e1}, 2, 1, 0, 4, 2, 2, {0}, FALSE)
\* Removals that fill or overflow the packet.
Removing == Scenario({Viewer, e1, e2}, 1, 1, 0, 5, 2, 2, {0}, FALSE)
\* Long enough to come to rest after any losses, with every ring gone round.
Settling == Scenario({Viewer, e1}, 1, 1, 0, 7, 2, 2, {0, 2}, FALSE)
\* Three entities of changing closeness compete for one place.
Crowded == Scenario({Viewer, e1, e2, e3}, 1, 2, 2, 10, 0, 0, {0}, FALSE)

\* A client drawing frames while snapshots are lost and late.
Rendering == Scenario({Viewer}, 1, 1, 0, 6, 2, 0, {0}, TRUE)

MCScenarios == {Rendering, Changing, Removing, Settling, Crowded}
=============================================================================
