------------------------------ MODULE Snapshot ------------------------------
(***************************************************************************)
(* Delta replication of one viewer's surroundings: ReplicationState of     *)
(* proto/snapshot.cpp on the shard, the baselines of sim/client_view.cpp   *)
(* on the client, and the input packets that carry the client's            *)
(* acknowledgements back.  Datagrams are lost and reordered; the           *)
(* reliability layer below drops duplicates.                               *)
(*                                                                         *)
(* A wire state is a number: a new entity is sent with it, a known one     *)
(* with the difference to the baseline, so decoding against another        *)
(* baseline than the encoder's shows.  The byte budget of a snapshot is    *)
(* counted in entries, removals and updates alike.                         *)
(***************************************************************************)
EXTENDS Integers, FiniteSets, FiniteSetsExt

CONSTANTS
  Scenarios,        \* worlds considered, see the operators below for the fields
  Viewer,           \* the viewer's entity
  BaselineHistory,  \* frames the shard keeps (InterestConfig::baseline_history)
  SnapshotHistory,  \* frames the client keeps (ClientViewConfig::snapshot_history)
  Unit,             \* resolution of the render clock: parts of a tick
  InterpolationDelay, \* ClientViewConfig::interpolation_delay_ticks
  RenderClockSnap,  \* kRenderClockSnapTicks
  CatchupPercent,   \* kRenderClockCatchupRate, in hundredths
  Jitter,           \* units a tick is early or late at most, as the client sees it
  FrameTimes,       \* times between two updates of the client, in units
  CalmBound,        \* calm ticks after which the client must see the world
  WaitBound,        \* encodes an entity may be deferred in a row
  None              \* no entity, no frame

ASSUME SnapshotAssumption ==
  /\ \A s \in Scenarios : /\ Viewer \in s.entities /\ s.wire_states \in Nat \ {0}
                          /\ s.budget \in Nat /\ s.max_closeness \in Nat
                          /\ s.max_tick \in Nat
                          /\ s.max_in_flight \in Nat /\ s.max_acks \in Nat
                          /\ s.previous_ticks \subseteq Nat /\ s.renders \in BOOLEAN
  /\ BaselineHistory \in Nat \ {0}
  /\ SnapshotHistory \in Nat \ {0}
  /\ Unit \in Nat \ {0} /\ FrameTimes \subseteq 1 .. Unit /\ Jitter \in 0 .. Unit
  /\ None \notin Nat

VARIABLES
  scenario,             \* one of Scenarios, chosen at the start and kept
  tick,                 \* World::tick_
  visible,              \* wire state of every entity in the area of interest
  history,              \* ReplicationState::history_
  last_acked_tick,      \* ReplicationState::last_acked_tick_, 0 without has_acked_
  priority,             \* ReplicationState::priority_, 0 for what is not carried
  acked_snapshot_tick,  \* WorldPlayer::acked_snapshot_tick
  baselines,            \* ClientView::baselines_
  latest_tick,          \* ClientView::latest_tick_
  has_snapshot,         \* ClientView::has_snapshot_
  frames,               \* ClientView::frames_, by tick
  render_tick,          \* ClientView::render_tick_, in units
  render_clock_started, \* ClientView::render_clock_started_
  shown,                \* ticks of the frames render_ was built between
  local_entity,         \* whether GameClient::local_entity_ is known
  snapshots,            \* snapshots in flight
  acks,                 \* acknowledged ticks of the input packets in flight
  waited,               \* history: encodes each entity was deferred in a row
  calm,                 \* history: ticks in a row in which nothing was disturbed
  elapsed,              \* history: time the client has advanced by
  on_time               \* history: no update came with two snapshots missing

Entities == scenario.entities          \* of the world, the viewer's own included
WireStates == scenario.wire_states     \* number of quantized states of an entity
Budget == scenario.budget              \* entries that fit a snapshot
MaxCloseness == scenario.max_closeness \* in units of a priority's constant term
MaxTick == scenario.max_tick           \* bound on the ticks of a behaviour
MaxInFlight == scenario.max_in_flight  \* bound on the snapshots in flight
MaxAcks == scenario.max_acks           \* bound on the input packets in flight
Renders == scenario.renders            \* whether the client's updates are looked at

shard == <<history, last_acked_tick, priority, acked_snapshot_tick>>
clock == <<render_tick, render_clock_started, shown, elapsed, on_time>>
view == <<baselines, frames, latest_tick, has_snapshot, local_entity, clock>>
vars == <<scenario, tick, visible, shard, view, snapshots, acks, waited, calm>>

WireState == 0 .. WireStates - 1
States == [Entities -> WireState \cup {None}]
Nothing == [e \in Entities |-> None]
Frame == [tick : Nat, states : States]

\* What may stand around the viewer; encode() returns 0 when the viewer is gone.
Surroundings == {s \in States : s[Viewer] # None}

Init ==
  /\ scenario \in Scenarios
  /\ tick = 0
  /\ visible = [Nothing EXCEPT ![Viewer] = 0]
  /\ history = [i \in 0 .. BaselineHistory - 1 |-> None]
  /\ last_acked_tick = 0
  /\ priority = [e \in Entities |-> 0]
  /\ acked_snapshot_tick = 0
  /\ baselines = [i \in 0 .. SnapshotHistory - 1 |-> None]
  /\ latest_tick \in scenario.previous_ticks  \* what a client brings from another shard
  /\ has_snapshot = FALSE
  /\ frames = [t \in {} |-> Nothing]
  /\ render_tick = 0 /\ render_clock_started = FALSE
  /\ shown = [older |-> None, newer |-> None]
  /\ elapsed = 0 /\ on_time = TRUE
  /\ local_entity = FALSE
  /\ snapshots = {}
  /\ acks = {}
  /\ waited = [e \in Entities |-> 0]
  /\ calm = 0

-----------------------------------------------------------------------------
\* SnapshotHistory

\* A history that trusts the slot without comparing the tick.
get_unchecked(ring, capacity, t) ==
  ring[t % capacity]

get(ring, capacity, t) ==
  LET frame == ring[t % capacity]
  IN  IF frame # None => frame.tick = t THEN frame ELSE None

put(ring, capacity, t, states) ==
  [ring EXCEPT ![t % capacity] = [tick |-> t, states |-> states]]

-----------------------------------------------------------------------------
\* The shard: ReplicationState::encode

\* The frame a delta at tick t is taken against.  One that shares its slot with
\* the frame about to be written is refused.
baseline(t) ==
  LET acked == IF last_acked_tick = 0 THEN None
               ELSE get(history, BaselineHistory, last_acked_tick)
  IN  IF acked # None => acked.tick % BaselineHistory = t % BaselineHistory
      THEN None ELSE acked

StatesOf(frame) ==
  IF frame = None THEN Nothing ELSE frame.states

removed(previous, now) ==
  {e \in Entities : previous[e] # None /\ now[e] = None}

candidates(previous, now) ==
  {e \in Entities : now[e] # None /\ now[e] # previous[e]}

\* The viewer's own bonus outweighs any credit the others can carry.
SelfPriority == (MaxCloseness + 1) * (MaxTick + 1)

candidate_priority(closeness) ==
  [e \in Entities |-> priority[e] + closeness[e] + 1
                      + (IF e = Viewer THEN SelfPriority ELSE 0)]

\* Every set nth_element may leave in front: ties are broken either way.
selections(cands, fits, prio) ==
  IF Cardinality(cands) <= fits THEN {cands}
  ELSE {chosen \in kSubset(fits, cands) :
          \A a \in chosen, b \in cands \ chosen : prio[a] >= prio[b]}

update_of(previous, now, e) ==
  IF previous[e] = None THEN [is_new |-> TRUE, value |-> now[e]]
                        ELSE [is_new |-> FALSE, value |-> now[e] - previous[e]]

recorded(previous, now, selected) ==
  [e \in Entities |-> IF e \in selected \/ now[e] = None THEN now[e] ELSE previous[e]]

\* A shard whose deferred entities do not gather credit.
carried_flat(cands, selected, prio) ==
  [e \in Entities |-> IF e \in cands \ selected THEN 1 ELSE 0]

carried(cands, selected, prio) ==
  [e \in Entities |-> IF e \in cands \ selected THEN prio[e] ELSE 0]

\* The world steps; nothing of the client's has to be in flight, and the world has
\* to stand still, for the tick to be calm.  An acknowledgement of a tick yet to
\* come is of the client's former shard and disturbs until the tick has passed it.
Undisturbed(now, sent) ==
  /\ sent
  /\ now = visible
  /\ last_acked_tick <= tick
  /\ snapshots = {} /\ acks = {}
  /\ acked_snapshot_tick = latest_tick

\* The client's clock and the shard's run at one rate but for the jitter.
world_step(now) ==
  /\ tick < MaxTick
  /\ Renders => elapsed >= (tick + 1) * Unit - Jitter
  /\ tick' = tick + 1
  /\ visible' = now

\* World::step followed by replicate(): the snapshot may be lost on its way.
replicate ==
  \E now \in Surroundings :
  \E closeness \in [{e \in Entities \ {Viewer} : now[e] # None} -> 0 .. MaxCloseness] :
    LET base == baseline(tick + 1)
        previous == StatesOf(base)
        gone == removed(previous, now)
        cands == candidates(previous, now)
        prio == candidate_priority([e \in Entities |->
                  IF e \in DOMAIN closeness THEN closeness[e] ELSE MaxCloseness])
    IN  /\ world_step(now)
        /\ Cardinality(gone) <= Budget
        /\ \E selected \in selections(cands, Budget - Cardinality(gone), prio) :
             LET frame == recorded(previous, now, selected)
                 snapshot == [tick |-> tick + 1, full |-> base = None,
                              baseline_tick |-> IF base = None THEN 0 ELSE base.tick,
                              removed |-> gone,
                              updates |-> [e \in selected |-> update_of(previous, now, e)],
                              sent_as |-> frame]
             IN  /\ history' = put(history, BaselineHistory, tick + 1, frame)
                 /\ priority' = carried(cands, selected, prio)
                 /\ waited' = [e \in Entities |->
                                 IF e \in cands \ selected THEN waited[e] + 1 ELSE 0]
                 /\ snapshots' \in {snapshots, snapshots \cup {snapshot}}
                 /\ Cardinality(snapshots') <= MaxInFlight
                 /\ calm' = IF Undisturbed(now, snapshots' # snapshots) THEN calm + 1 ELSE 0
        /\ UNCHANGED <<last_acked_tick, acked_snapshot_tick, view, acks>>

\* The removals alone overflow the header: nothing is sent and nothing recorded.
header_overflows ==
  \E now \in Surroundings :
    /\ world_step(now)
    /\ Cardinality(removed(StatesOf(baseline(tick + 1)), now)) > Budget
    /\ calm' = 0
    /\ UNCHANGED <<shard, view, snapshots, acks, waited>>

acknowledge(t) ==
  IF last_acked_tick = 0 \/ t > last_acked_tick THEN t ELSE last_acked_tick

\* The end of on_payload: 0 acknowledges nothing, a repetition changes nothing.
on_payload(t) ==
  /\ t \in acks
  /\ acks' = acks \ {t}
  /\ IF t # 0 /\ t # acked_snapshot_tick
     THEN acked_snapshot_tick' = t /\ last_acked_tick' = acknowledge(t)
     ELSE UNCHANGED <<acked_snapshot_tick, last_acked_tick>>
  /\ UNCHANGED <<tick, visible, history, priority, view, snapshots, waited, calm>>

-----------------------------------------------------------------------------
\* The client

\* The world-config event: repeated in packets of its own until it is
\* acknowledged, so it may come before any snapshot.
world_config ==
  /\ tick > 0 /\ ~local_entity
  /\ local_entity' = TRUE
  /\ UNCHANGED <<tick, visible, shard, baselines, frames, latest_tick, has_snapshot,
                 clock, snapshots, acks, waited, calm>>

BaseOf(m) == IF m.full THEN None ELSE get(baselines, SnapshotHistory, m.baseline_tick)

decodable(m, base) ==
  /\ m.full \/ base # None
  /\ \A e \in DOMAIN m.updates :
       m.updates[e].is_new \/ (e \notin m.removed /\ StatesOf(base)[e] # None)

decode_snapshot(m, base) ==
  [e \in Entities |->
     IF e \in DOMAIN m.updates
     THEN m.updates[e].value + (IF m.updates[e].is_new THEN 0 ELSE StatesOf(base)[e])
     ELSE IF e \in m.removed THEN None ELSE StatesOf(base)[e]]

\* A client that acknowledges the first snapshot it saw for ever.
newest_first(t) ==
  IF has_snapshot THEN latest_tick ELSE t

newest(t) ==
  IF ~has_snapshot \/ t > latest_tick THEN t ELSE latest_tick

\* frames_ is sorted by tick and loses its oldest frame when it is full.
with_frame(t, states) ==
  LET ticks == DOMAIN frames \cup {t}
  IN  [k \in {k \in ticks : Cardinality({j \in ticks : j > k}) < SnapshotHistory} |->
         IF k = t THEN states ELSE frames[k]]

apply_snapshot(m) ==
  /\ m \in snapshots
  /\ decodable(m, BaseOf(m))
  /\ snapshots' = snapshots \ {m}
  /\ baselines' = put(baselines, SnapshotHistory, m.tick, decode_snapshot(m, BaseOf(m)))
  /\ frames' = with_frame(m.tick, decode_snapshot(m, BaseOf(m)))
  /\ latest_tick' = newest(m.tick)
  /\ has_snapshot' = TRUE
  /\ UNCHANGED <<tick, visible, shard, local_entity, clock, acks, waited, calm>>

reject_snapshot(m) ==
  /\ m \in snapshots
  /\ ~decodable(m, BaseOf(m))
  /\ snapshots' = snapshots \ {m}
  /\ UNCHANGED <<tick, visible, shard, view, acks, waited, calm>>

\* Every input packet names the newest snapshot, once the client has an entity.
send_input ==
  /\ local_entity
  /\ Cardinality(acks) < MaxAcks
  /\ acks' = acks \cup {latest_tick}
  /\ UNCHANGED <<tick, visible, shard, view, snapshots, waited, calm>>

-----------------------------------------------------------------------------
\* The render clock of the client

frame_at_or_before(t) ==
  LET before == {k \in DOMAIN frames : k * Unit <= t}
  IN  IF before = {} THEN None ELSE Max(before)

frame_after(t) ==
  LET after == {k \in DOMAIN frames : k * Unit > t}
  IN  IF after = {} THEN None ELSE Min(after)

\* drift * kRenderClockCatchupRate, rounded to units either way.
catchup(drift) ==
  LET x == drift * CatchupPercent
  IN  {x \div 100, -((-x) \div 100)}

Target == (latest_tick - InterpolationDelay) * Unit

\* A clock that only follows the time and never the snapshots.
advanced_freely(dt) ==
  IF ~render_clock_started THEN {Target} ELSE {render_tick + dt}

\* The clock moves on with the time and a little toward its place behind the newest
\* snapshot, or jumps there when it is far off.
advanced(dt) ==
  LET moved == render_tick + dt
      drift == Target - moved
  IN  IF ~render_clock_started \/ drift \notin -RenderClockSnap * Unit .. RenderClockSnap * Unit
      THEN {Target} ELSE {moved + c : c \in catchup(drift)}

\* GameClient::update and rebuild_render_list.
advance(dt) ==
  /\ Renders
  /\ elapsed + dt <= (tick + 1) * Unit + Jitter
  /\ elapsed' = elapsed + dt
  /\ IF has_snapshot
     THEN /\ render_tick' \in advanced(dt)
          /\ render_clock_started' = TRUE
          /\ on_time' = (on_time /\ latest_tick >= tick - 1)
     ELSE UNCHANGED <<render_tick, render_clock_started, on_time>>
  /\ shown' = [older |-> frame_at_or_before(render_tick'), newer |-> frame_after(render_tick')]
  /\ UNCHANGED <<tick, visible, shard, baselines, frames, latest_tick, has_snapshot,
                 local_entity, snapshots, acks, waited, calm>>

Next ==
  /\ \/ replicate
     \/ \E dt \in FrameTimes : advance(dt)
     \/ header_overflows
     \/ \E t \in acks : on_payload(t)
     \/ world_config
     \/ \E m \in snapshots : apply_snapshot(m) \/ reject_snapshot(m)
     \/ send_input
  /\ UNCHANGED scenario

Spec == Init /\ [][Next]_vars

-----------------------------------------------------------------------------
\* Properties

\* Every frame on either side holds wire states, whatever deltas it was made from,
\* and credit is carried by exactly the entities the last encode deferred.
TypeOK ==
  /\ tick \in 0 .. MaxTick
  /\ visible \in Surroundings
  /\ history \in [0 .. BaselineHistory - 1 -> Frame \cup {None}]
  /\ last_acked_tick \in Nat
  /\ priority \in [Entities -> Nat]
  /\ acked_snapshot_tick \in Nat
  /\ baselines \in [0 .. SnapshotHistory - 1 -> Frame \cup {None}]
  /\ latest_tick \in Nat
  /\ has_snapshot \in BOOLEAN
  /\ local_entity \in BOOLEAN
  /\ \A m \in snapshots :
       /\ m.tick \in 1 .. MaxTick /\ m.baseline_tick \in 0 .. m.tick - 1
       /\ m.full \in BOOLEAN /\ m.removed \subseteq Entities
       /\ DOMAIN m.updates \subseteq Entities \ m.removed
       /\ m.sent_as \in States
  /\ acks \subseteq Nat
  /\ waited \in [Entities -> Nat]
  /\ \A e \in Entities : priority[e] # 0 <=> waited[e] # 0
  /\ calm \in Nat

\* Shard and client agree on every frame both still hold, and a snapshot whose
\* baseline the client holds decodes to exactly the frame the shard recorded for
\* it, deferred entities included: otherwise an entity that never changes again
\* would be shown wrong for ever.
FramesAgree ==
  /\ \A i \in DOMAIN baselines :
       baselines[i] # None =>
         LET sent == get(history, BaselineHistory, baselines[i].tick)
         IN  sent # None => sent.states = baselines[i].states
  /\ \A m \in snapshots :
       (m.full \/ BaseOf(m) # None) =>
         /\ decodable(m, BaseOf(m))
         /\ decode_snapshot(m, BaseOf(m)) = m.sent_as

\* snapshot.h on acknowledge(): "Records that the client received the snapshot for
\* `tick`, making it the new delta baseline."  When the last acknowledgement is of
\* a tick of this shard, the baseline is that snapshot or a later one of its own.
\* The code does not have it: README.md, Divergences.
AckedIsBaseline ==
  acked_snapshot_tick \in 1 .. tick => last_acked_tick \in acked_snapshot_tick .. tick

\* client_view.h: rendering two ticks behind is "enough to ride out a single dropped
\* snapshot without extrapolating".  Unless two snapshots in a row were missing at
\* an update, there is a later frame to interpolate toward at every update, over
\* losses, late arrivals, jitter of the client's clock and the clock's catching up.
RidesOutOneLoss ==
  on_time /\ render_clock_started => shown.newer # None

\* The client sees the world once it has stood still for CalmBound ticks with
\* nothing lost, whatever was lost, deferred, reordered or rejected before.
Converges ==
  calm >= CalmBound =>
    LET seen == get(baselines, SnapshotHistory, latest_tick)
    IN  seen # None /\ seen.states = visible

\* snapshot.h: an entity that loses the race for several ticks "eventually
\* outranks closer ones and cannot be starved indefinitely".  The viewer's own
\* entity always goes first, so there has to be room for one beside it.
NoStarvation ==
  Budget > 1 => \A e \in Entities : waited[e] <= WaitBound
=============================================================================
