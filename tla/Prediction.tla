----------------------------- MODULE Prediction -----------------------------
(***************************************************************************)
(* One player's commands: GameClient::send_input and the prediction and    *)
(* reconciliation of sim/client_view.cpp, the redundant input packets, the *)
(* command queue of sim/world.cpp on the shard, the snapshots that confirm *)
(* commands, and what becomes of them when the player is handed to another *)
(* shard or comes back after a drop.                                       *)
(*                                                                         *)
(* A command is its sequence number.  The state of an avatar is its path:  *)
(* the commands it has been moved by, in order.  Both sides integrate with *)
(* the same step_movement, so equal paths are equal states; a step without *)
(* a command (coasting) adds nothing to the path.                          *)
(***************************************************************************)
EXTENDS Integers, FiniteSets, Sequences, Functions

CONSTANTS
  InputRedundancy,   \* packets a command is sent in (kInputRedundancy)
  MaxQueuedInputs,   \* kMaxQueuedInputs
  InputRepeatTicks,  \* kInputRepeatTicks
  InputHistory,      \* ClientViewConfig::input_history
  StartTicks,        \* ticks a shard's world may be at when the player comes
  MaxInputs,         \* bound on the commands of a client process
  MaxTick,           \* bound on a world's tick
  MaxInFlight,       \* bound on the datagrams in flight each way
  MaxMoves           \* bound on handoffs and drops together

ASSUME PredictionAssumption ==
  /\ InputRedundancy \in Nat \ {0}
  /\ MaxQueuedInputs \in Nat \ {0}
  /\ InputRepeatTicks \in Nat
  /\ InputHistory \in Nat
  /\ StartTicks \subseteq Nat
  /\ MaxInputs \in Nat

VARIABLES
  next_input_sequence, input_history, last_acknowledged_input,  \* ClientView
  predicted,                  \* ClientView::predicted_
  tick,                       \* World::tick_
  pending, highest_received_sequence, last_applied_sequence,    \* PlayerSlot
  has_applied,                \* PlayerSlot::has_applied
  path,                       \* the entity's position and velocity
  last_input_sequence,        \* WorldPlayer::last_input_sequence
  stage,                      \* where the player is between two shards
  carried,                    \* MigrationTicket or GhostState: path and sequence
  packets, snapshots,         \* datagrams in flight
  handoffs, drops,            \* how many of each so far
  queued,                     \* history: commands a shard has queued
  heard,                      \* history: packets that brought a shard something new
  starved                     \* history: ticks since a command was last taken from the queue

clientVars == <<next_input_sequence, input_history, last_acknowledged_input, predicted>>
slotVars == <<pending, highest_received_sequence, last_applied_sequence, has_applied>>
shardVars == <<tick, slotVars, path, last_input_sequence, starved>>
netVars == <<packets, snapshots>>
countVars == <<handoffs, drops>>
seenVars == <<queued, heard>>
vars == <<clientVars, shardVars, stage, carried, netVars, countVars, seenVars>>

Stages == {"playing", "redirected", "joining", "dropped"}
Nowhere == [path |-> <<>>, last_input_sequence |-> 0]

larger(a, b) == IF a > b THEN a ELSE b

\* The numbers from a to b.
Run(a, b) == [i \in 1 .. b - a + 1 |-> a + i - 1]

\* The newest n elements: what a deque keeps that drops from the front.
Newest(s, n) == SubSeq(s, larger(1, Len(s) - n + 1), Len(s))

Init ==
  /\ next_input_sequence = 1
  /\ input_history = <<>>
  /\ last_acknowledged_input = 0
  /\ predicted = <<>>
  /\ tick \in StartTicks
  /\ pending = <<>>
  /\ highest_received_sequence = 0
  /\ last_applied_sequence = 0
  /\ has_applied = FALSE
  /\ path = <<>>
  /\ last_input_sequence = 0
  /\ stage = "playing"
  /\ carried = Nowhere
  /\ packets = {}
  /\ snapshots = {}
  /\ handoffs = 0
  /\ drops = 0
  /\ queued = {}
  /\ heard = {}
  /\ starved = 0

-----------------------------------------------------------------------------
\* The client

\* A client that sends a command in one packet fewer than it means to.
input_window_short(n) ==
  [first |-> larger(1, n - InputRedundancy + 2), last |-> n]

\* The packet sent with command n repeats the ones before it.
input_window(n) ==
  [first |-> larger(1, n - InputRedundancy + 1), last |-> n]

\* push_input: number the command, move by it at once, keep it for the replay.
send_input ==
  LET n == next_input_sequence
  IN  /\ stage \in {"playing", "redirected"}
      /\ n <= MaxInputs
      /\ next_input_sequence' = n + 1
      /\ predicted' = Append(predicted, n)
      /\ input_history' = Newest(Append(input_history, n), InputHistory)
      /\ packets' \in {packets, packets \cup {input_window(n)}}
      /\ Cardinality(packets') <= MaxInFlight
      /\ UNCHANGED <<last_acknowledged_input, shardVars, stage, carried, snapshots,
                     countVars, seenVars>>

\* Reconciliation that keeps the command the snapshot confirms for the replay.
Confirmed_off_by_one(snapshot) ==
  CHOOSE k \in 0 .. Len(input_history) :
    /\ \A i \in 1 .. k : input_history[i] < snapshot.last_input_sequence
    /\ k < Len(input_history) => input_history[k + 1] >= snapshot.last_input_sequence

\* How many commands leave the front of the history: as long as there is one and
\* the snapshot confirms it.
Confirmed(snapshot) ==
  CHOOSE k \in 0 .. Len(input_history) :
    /\ \A i \in 1 .. k : input_history[i] <= snapshot.last_input_sequence
    /\ k < Len(input_history) => input_history[k + 1] > snapshot.last_input_sequence

Unconfirmed(snapshot) ==
  SubSeq(input_history, Confirmed(snapshot) + 1, Len(input_history))

\* A snapshot that confirms less than an earlier one is dropped; any other is
\* adopted and the unconfirmed commands are replayed on it.  One without the local
\* entity returns early and changes nothing here, like one that is lost.
reconcile(snapshot) ==
  /\ snapshot \in snapshots
  /\ snapshots' = snapshots \ {snapshot}
  /\ IF snapshot.last_input_sequence < last_acknowledged_input
     THEN UNCHANGED clientVars
     ELSE /\ last_acknowledged_input' = snapshot.last_input_sequence
          /\ input_history' = Unconfirmed(snapshot)
          /\ predicted' = snapshot.path \o Unconfirmed(snapshot)
          /\ UNCHANGED next_input_sequence
  /\ UNCHANGED <<shardVars, stage, carried, packets, countVars, seenVars>>

-----------------------------------------------------------------------------
\* The shard

\* A queue that takes every command of a packet again.
Fresh_all(packet) ==
  Run(packet.first, packet.last)

\* queue_input over the commands of a packet: what is not newer than everything
\* received is a duplicate or out of order.
Fresh(packet) ==
  Run(larger(packet.first, highest_received_sequence + 1), packet.last)

\* A shard that has handed the player over does not listen any more.
on_payload(packet) ==
  /\ packet \in packets
  /\ packets' = packets \ {packet}
  /\ IF stage = "playing"
     THEN /\ pending' = Newest(pending \o Fresh(packet), MaxQueuedInputs)
          /\ highest_received_sequence' = larger(highest_received_sequence, packet.last)
          /\ last_input_sequence' = larger(last_input_sequence, packet.last)
          /\ queued' = queued \cup Range(Fresh(packet))
          /\ heard' = IF Fresh(packet) = <<>> THEN heard ELSE heard \cup {packet.last}
     ELSE UNCHANGED <<pending, highest_received_sequence, last_input_sequence, seenVars>>
  /\ UNCHANGED <<clientVars, tick, last_applied_sequence, has_applied, path, stage,
                 carried, snapshots, countVars, starved>>

\* The client's tick is not in the packet: a decoded command is of tick 0.
DecodedTick == 0

\* A shard that goes on with the last command until the next one comes.
Repeats_forever == has_applied

Repeats == has_applied /\ tick - DecodedTick <= InputRepeatTicks

\* One command a tick; without one the last is repeated or the avatar coasts.
apply_inputs ==
  IF pending # <<>>
  THEN /\ path' = Append(path, Head(pending))
       /\ last_applied_sequence' = Head(pending)
       /\ has_applied' = TRUE
       /\ pending' = Tail(pending)
       /\ starved' = 0
  ELSE /\ path' = IF Repeats THEN Append(path, last_applied_sequence) ELSE path
       /\ starved' = starved + 1
       /\ UNCHANGED <<pending, last_applied_sequence, has_applied>>

\* World::step and replicate: the snapshot confirms the newest command received.
\* After the handoff the source goes on simulating but tells nobody.
step ==
  /\ stage \in {"playing", "redirected"}
  /\ tick < MaxTick
  /\ tick' = tick + 1
  /\ apply_inputs
  /\ LET snapshot == [last_input_sequence |-> last_input_sequence, path |-> path']
     IN  IF stage = "playing"
         THEN snapshots' \in {snapshots, snapshots \cup {snapshot}}
         ELSE UNCHANGED snapshots
  /\ Cardinality(snapshots') <= MaxInFlight
  /\ UNCHANGED <<clientVars, highest_received_sequence, last_input_sequence, stage,
                 carried, packets, countVars, seenVars>>

-----------------------------------------------------------------------------
\* Handoff, drop and return

\* check_migrations: the ticket takes the state and the newest command received.
check_migrations ==
  /\ stage = "playing"
  /\ handoffs + drops < MaxMoves
  /\ stage' = "redirected"
  /\ carried' = [path |-> path, last_input_sequence |-> last_input_sequence]
  /\ handoffs' = handoffs + 1
  /\ UNCHANGED <<clientVars, shardVars, netVars, drops, seenVars>>

\* The client forgets its replay and turns to the new shard under a new salt, which
\* no datagram of the old connection passes.
apply_redirect ==
  /\ stage = "redirected"
  /\ stage' = "joining"
  /\ input_history' = <<>>
  /\ packets' = {}
  /\ snapshots' = {}
  /\ UNCHANGED <<next_input_sequence, last_acknowledged_input, predicted, shardVars,
                 carried, countVars, seenVars>>

\* on_disconnect without a redirect keeps a ghost: the entity's state and the last
\* command applied to it.
on_disconnect ==
  /\ stage = "playing"
  /\ handoffs + drops < MaxMoves
  /\ stage' = "dropped"
  /\ carried' = [path |-> path, last_input_sequence |-> last_applied_sequence]
  /\ drops' = drops + 1
  /\ packets' = {}
  /\ snapshots' = {}
  /\ UNCHANGED <<clientVars, shardVars, handoffs, seenVars>>

\* GameClient::start of a new process: the view is reset, numbering included, and
\* the packet window is empty.
start ==
  /\ stage = "dropped"
  /\ stage' = "joining"
  /\ next_input_sequence' = 1
  /\ input_history' = <<>>
  /\ last_acknowledged_input' = 0
  /\ predicted' = <<>>
  /\ UNCHANGED <<shardVars, carried, netVars, countVars, seenVars>>

adopt_entity(c) ==
  /\ pending' = <<>>
  /\ highest_received_sequence' = c.last_input_sequence
  /\ last_applied_sequence' = c.last_input_sequence
  /\ has_applied' = FALSE
  /\ path' = c.path

\* on_connect with a ticket, or with the ghost of the dropped session.
on_connect ==
  /\ stage = "joining"
  /\ stage' = "playing"
  /\ tick' \in StartTicks
  /\ adopt_entity(carried)
  /\ last_input_sequence' = carried.last_input_sequence
  /\ starved' = 0
  /\ UNCHANGED <<clientVars, carried, netVars, countVars, seenVars>>

Next ==
  \/ send_input
  \/ \E snapshot \in snapshots : reconcile(snapshot)
  \/ \E packet \in packets : on_payload(packet)
  \/ step
  \/ check_migrations
  \/ apply_redirect
  \/ on_disconnect
  \/ start
  \/ on_connect

Spec == Init /\ [][Next]_vars

-----------------------------------------------------------------------------
\* Properties

Paths == Seq(1 .. MaxInputs)
Confirmation == [path : Paths, last_input_sequence : 0 .. MaxInputs]

\* The queue keeps its bound, and every path consists of commands that were given.
TypeOK ==
  /\ next_input_sequence \in 1 .. MaxInputs + 1
  /\ input_history \in Paths /\ Len(input_history) <= InputHistory
  /\ last_acknowledged_input \in 0 .. MaxInputs
  /\ predicted \in Paths
  /\ tick \in Nat
  /\ pending \in Paths /\ Len(pending) <= MaxQueuedInputs
  /\ highest_received_sequence \in 0 .. MaxInputs
  /\ last_applied_sequence \in 0 .. MaxInputs
  /\ has_applied \in BOOLEAN
  /\ path \in Paths
  /\ last_input_sequence \in 0 .. MaxInputs
  /\ stage \in Stages
  /\ carried \in Confirmation
  /\ packets \subseteq [first : 1 .. MaxInputs, last : 1 .. MaxInputs]
  /\ snapshots \subseteq Confirmation
  /\ handoffs \in Nat /\ drops \in Nat
  /\ queued \subseteq 1 .. MaxInputs
  /\ heard \subseteq 1 .. MaxInputs
  /\ starved \in Nat

InOrder(s) == \A i, j \in DOMAIN s : i < j => s[i] < s[j]

\* Commands repeated while the queue is empty stand next to each other.
MovedInOrder(s) == \A i, j \in DOMAIN s : i < j => s[i] <= s[j]

\* A command moves the avatar once and after the commands before it, through
\* redundant, reordered and late packets and over handoffs and returns: the queue
\* is in order, is newer than what was applied, and the path never steps back.
AppliedOnce ==
  /\ InOrder(pending)
  /\ MovedInOrder(path)
  /\ \A i \in DOMAIN path, j \in DOMAIN pending : path[i] < pending[j]

\* The replay of a client that has not been restarted counts no command twice:
\* what it replays is newer than everything in the state it replays on.
ReplayedOnce ==
  drops = 0 =>
    /\ MovedInOrder(predicted)
    /\ \A i, j \in DOMAIN predicted :
         i < j /\ predicted[j] \in Range(input_history) => predicted[i] < predicted[j]

\* messages.h: commands are re-sent "so a single dropped datagram does not leave a
\* gap".  A command is missed only if none of the packets that carried it was the
\* newest when it arrived, the packets a redirecting shard ignored among them.
\* A restarted client numbers from 1 again and has no such promise: the shard takes
\* its commands up to the ghost's for old ones.
LossTolerated ==
  drops = 0 =>
    \A n \in 1 .. highest_received_sequence :
      n \notin queued => heard \cap (n .. n + InputRedundancy - 1) = {}

\* An avatar whose client falls silent, or whose packets are lost or ignored, is
\* let coast: over stalls, handoffs and returns no command moves it more often
\* than once and InputRepeatTicks times again.
RepeatsEnd ==
  \A i, j \in DOMAIN path : path[i] = path[j] => j - i <= InputRepeatTicks

\* PROTOCOL.md on reconciliation: "discard inputs the server has already applied".
\* A queued command that has been confirmed has moved the avatar.
\* The code does not have it: README.md, Divergences.
ConfirmedIsApplied ==
  \A n \in queued : n <= last_acknowledged_input => n \in Range(path)

\* movement.h: the sequence is echoed "so the client knows how much of its
\* predicted history has been confirmed".  Nothing is confirmed or refused as old
\* that a client which has not been restarted has yet to send.
ConfirmedWasSent ==
  drops = 0 =>
    /\ last_acknowledged_input < next_input_sequence
    /\ stage = "playing" => highest_received_sequence < next_input_sequence

\* world.cpp: "A client that stops sending gets its last command repeated for this
\* long before the entity is allowed to coast."
\* The code does not have it: README.md, Divergences.
RepeatsBeforeCoasting ==
  [][ tick' = tick + 1 /\ pending = <<>> /\ has_applied /\ starved < InputRepeatTicks
        => path' = Append(path, last_applied_sequence) ]_vars

=============================================================================
