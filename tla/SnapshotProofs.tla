--------------------------- MODULE SnapshotProofs ---------------------------
(***************************************************************************)
(* Snapshot keeps the frames of the shard and of the client in agreement,  *)
(* for every scenario, history length and packet size: TypeOK and          *)
(* FramesAgree.                                                            *)
(***************************************************************************)
EXTENDS Snapshot, TLAPS

FrameOf(m) == [tick |-> m.tick, states |-> m.sent_as]

\* Everything that says what a frame held: the two histories and the snapshots in
\* flight.
Recorded ==
  ({history[i] : i \in 0 .. BaselineHistory - 1} \ {None})
  \cup ({baselines[i] : i \in 0 .. SnapshotHistory - 1} \ {None})
  \cup {FrameOf(m) : m \in snapshots}

\* A snapshot decodes against a frame to what the shard recorded.
Decodes(m, frame) == decodable(m, frame) /\ decode_snapshot(m, frame) = m.sent_as

\* No frame is of a tick to come.
Past == \A f \in Recorded : f.tick \in 1 .. tick /\ f.states \in States

\* There is one frame to a tick, whoever holds it.
OneFrame == \A f, g \in Recorded : f.tick = g.tick => f.states = g.states

\* A snapshot decodes against whatever frame of its baseline's tick is left or
\* still to come: the client may get that frame after the shard has dropped it.
Deltas ==
  \A m \in snapshots :
    IF m.full THEN Decodes(m, None)
    ELSE /\ m.baseline_tick \in 1 .. m.tick - 1
         /\ \A f \in Recorded \ {None} : f.tick = m.baseline_tick => Decodes(m, f)

Frames ==
  /\ scenario \in Scenarios
  /\ tick \in Nat
  /\ history \in [0 .. BaselineHistory - 1 -> Frame \cup {None}]
  /\ baselines \in [0 .. SnapshotHistory - 1 -> Frame \cup {None}]
  /\ Past
  /\ OneFrame
  /\ Deltas

-----------------------------------------------------------------------------
\* The encoder and the decoder

\* What the decoder does with a snapshot depends on the states of the frame alone.
LEMMA SameStates ==
  ASSUME NEW m, NEW f, NEW g, f # None, g # None, f.states = g.states, Decodes(m, f)
  PROVE  Decodes(m, g)
  BY DEF Decodes, decodable, decode_snapshot, StatesOf

\* A snapshot made against a frame decodes against it to what was recorded, the
\* deferred entities with their old states.
LEMMA DecodesAsRecorded ==
  ASSUME NEW base, NEW now \in States, NEW selected, NEW m,
         StatesOf(base) \in States,
         selected \subseteq candidates(StatesOf(base), now),
         m.full <=> base = None,
         m.removed = removed(StatesOf(base), now),
         m.updates = [e \in selected |-> update_of(StatesOf(base), now, e)],
         m.sent_as = recorded(StatesOf(base), now, selected),
         WireStates \in Nat
  PROVE  Decodes(m, base) /\ m.sent_as \in States
<1> DEFINE previous == StatesOf(base)
<1>1. /\ now \in [Entities -> WireState \cup {None}]
      /\ previous \in [Entities -> WireState \cup {None}]
      /\ WireState \subseteq Int
  BY DEF States, WireState
<1>2. \A e \in selected : /\ e \in Entities /\ now[e] \in WireState
                          /\ now[e] # None
                          /\ previous[e] # None => previous[e] \in WireState
  BY <1>1 DEF candidates
<1>3. decodable(m, base)
  BY <1>1, <1>2 DEF decodable, update_of, removed
<1>4. ASSUME NEW e \in Entities
      PROVE  decode_snapshot(m, base)[e] = m.sent_as[e]
  <2>1. CASE e \in selected
    <3>1. DOMAIN m.updates = selected /\ m.updates[e] = update_of(previous, now, e)
      BY <2>1
    <3>2. /\ m.updates[e].is_new <=> previous[e] = None
          /\ m.updates[e].value = IF previous[e] = None THEN now[e] ELSE now[e] - previous[e]
      BY <3>1 DEF update_of
    <3>3. decode_snapshot(m, base)[e] =
            m.updates[e].value + (IF m.updates[e].is_new THEN 0 ELSE previous[e])
      BY <2>1, <3>1 DEF decode_snapshot
    <3>4. m.sent_as[e] = now[e]
      BY <2>1 DEF recorded
    <3>5. now[e] \in Int /\ (previous[e] # None => previous[e] \in Int)
      BY <1>1, <1>2, <2>1
    <3> HIDE DEF previous
    <3> QED  BY <3>2, <3>3, <3>4, <3>5
  <2>2. CASE e \notin selected
    BY <1>1, <2>2 DEF decode_snapshot, recorded, removed
  <2> QED  BY <2>1, <2>2
<1>5. m.sent_as \in States
  BY <1>1 DEF recorded, States
<1>6. decode_snapshot(m, base) = m.sent_as
  BY <1>4 DEF decode_snapshot, recorded
<1> QED  BY <1>3, <1>5, <1>6 DEF Decodes

-----------------------------------------------------------------------------
\* Steps that add no frame

\* A step that records no frame keeps the frames in agreement.
LEMMA FramesKept ==
  ASSUME Frames, scenario' = scenario, tick' \in Nat, tick <= tick',
         history' \in [0 .. BaselineHistory - 1 -> Frame \cup {None}],
         baselines' \in [0 .. SnapshotHistory - 1 -> Frame \cup {None}],
         snapshots' \subseteq snapshots, Recorded' \subseteq Recorded
  PROVE  Frames'
<1>1. States' = States /\ Frame' = Frame
  BY DEF States, Frame, WireState, WireStates, Entities
<1>2. Past'
  BY <1>1 DEF Frames, Past
<1>3. OneFrame'
  BY DEF Frames, OneFrame
<1>4. ASSUME NEW m, NEW f
      PROVE  Decodes(m, f)' <=> Decodes(m, f)
  BY DEF Decodes, decodable, decode_snapshot, StatesOf, Nothing, Entities
<1>5. Deltas'
  BY <1>4 DEF Frames, Deltas
<1> QED  BY <1>1, <1>2, <1>3, <1>5 DEF Frames

\* Everything but the encoder and the decoder.
LEMMA Otherwise ==
  ASSUME Frames, scenario' = scenario, tick' \in Nat, tick <= tick',
         UNCHANGED <<history, baselines>>, snapshots' \subseteq snapshots
  PROVE  Frames'
<1>1. Recorded' \subseteq Recorded
  BY DEF Recorded
<1>2. /\ history' \in [0 .. BaselineHistory - 1 -> Frame \cup {None}]
      /\ baselines' \in [0 .. SnapshotHistory - 1 -> Frame \cup {None}]
  BY DEF Frames
<1> QED  BY <1>1, <1>2, FramesKept

\* The decoder: the frame the client stores is the one the shard recorded.
LEMMA ApplySnapshot ==
  ASSUME Frames, scenario' = scenario, NEW m \in snapshots, apply_snapshot(m)
  PROVE  Frames'
<1> DEFINE base == BaseOf(m)
           states == decode_snapshot(m, base)
           i == m.tick % SnapshotHistory
<1>1. /\ decodable(m, base)
      /\ snapshots' \subseteq snapshots
      /\ baselines' = [baselines EXCEPT ![i] = [tick |-> m.tick, states |-> states]]
      /\ tick' = tick /\ history' = history
  BY DEF apply_snapshot, put, shard
<1>2. FrameOf(m) \in Recorded /\ FrameOf(m).tick = m.tick /\ FrameOf(m).states = m.sent_as
  BY DEF Recorded, FrameOf
<1>3. m.tick \in Nat /\ m.sent_as \in States
  BY <1>2 DEF Frames, Past
<1>4. states = m.sent_as
  <2>1. CASE m.full
    BY <2>1 DEF Frames, Deltas, Decodes, BaseOf
  <2>2. CASE ~m.full
    <3>1. base # None /\ base = get(baselines, SnapshotHistory, m.baseline_tick)
      BY <1>1, <2>2 DEF decodable, BaseOf
    <3>2. base = baselines[m.baseline_tick % SnapshotHistory] /\ base.tick = m.baseline_tick
      BY <3>1 DEF get
    <3>3. m.baseline_tick % SnapshotHistory \in 0 .. SnapshotHistory - 1
      <4>1. m.baseline_tick \in Nat
        BY <1>3, <2>2 DEF Frames, Deltas
      <4> QED  BY <4>1, SnapshotAssumption
    <3>4. base \in Recorded
      BY <3>1, <3>2, <3>3 DEF Recorded
    <3> QED  BY <2>2, <3>1, <3>2, <3>4 DEF Frames, Deltas, Decodes
  <2> QED  BY <2>1, <2>2
<1>5. [tick |-> m.tick, states |-> states] = FrameOf(m)
  BY <1>4 DEF FrameOf
<1>6. FrameOf(m) \in Frame
  BY <1>3 DEF FrameOf, Frame
<1>7. baselines' \in [0 .. SnapshotHistory - 1 -> Frame \cup {None}]
  BY <1>1, <1>5, <1>6 DEF Frames
<1>8. \A j \in 0 .. SnapshotHistory - 1 : baselines'[j] \in {baselines[j], FrameOf(m)}
  BY <1>1, <1>5 DEF Frames
<1>9. Recorded' \subseteq Recorded
  BY <1>1, <1>2, <1>8 DEF Recorded, FrameOf
<1> QED  BY <1>1, <1>7, <1>9, FramesKept DEF Frames

-----------------------------------------------------------------------------
\* The encoder

\* The frame and the snapshot of an encode.
Written(now, selected) == recorded(StatesOf(baseline(tick + 1)), now, selected)
Made(now, selected) ==
  LET base == baseline(tick + 1)
  IN  [tick |-> tick + 1, full |-> base = None,
       baseline_tick |-> IF base = None THEN 0 ELSE base.tick,
       removed |-> removed(StatesOf(base), now),
       updates |-> [e \in selected |-> update_of(StatesOf(base), now, e)],
       sent_as |-> Written(now, selected)]

\* What an encode does, whichever entities it selects.
LEMMA ReplicateEffect ==
  ASSUME Frames, replicate
  PROVE  \E now, given, selected :
           /\ now \in Surroundings
           /\ tick < MaxTick /\ tick' = tick + 1 /\ visible' = now
           /\ selected \subseteq candidates(StatesOf(baseline(tick + 1)), now)
           /\ \A e \in Entities : given[e] \in 0 .. MaxCloseness
           /\ history' = put(history, BaselineHistory, tick + 1, Written(now, selected))
           /\ snapshots' \subseteq snapshots \cup {Made(now, selected)}
           /\ priority' = carried(candidates(StatesOf(baseline(tick + 1)), now), selected,
                                  candidate_priority(given))
           /\ waited' = [e \in Entities |->
                           IF e \in candidates(StatesOf(baseline(tick + 1)), now) \ selected
                           THEN waited[e] + 1 ELSE 0]
           /\ calm' \in {calm + 1, 0}
           /\ UNCHANGED <<last_acked_tick, acked_snapshot_tick, view, acks>>
<1> DEFINE base == baseline(tick + 1)
           previous == StatesOf(base)
           given(c) == [e \in Entities |-> IF e \in DOMAIN c THEN c[e] ELSE MaxCloseness]
           snapshot(now, selected) ==
             [tick |-> tick + 1, full |-> base = None,
              baseline_tick |-> IF base = None THEN 0 ELSE base.tick,
              removed |-> removed(previous, now),
              updates |-> [e \in selected |-> update_of(previous, now, e)],
              sent_as |-> recorded(previous, now, selected)]
           Chosen(now, c) == selections(candidates(previous, now),
                                        Budget - Cardinality(removed(previous, now)),
                                        candidate_priority(given(c)))
           Encodes(now, c, selected) ==
             /\ history' = put(history, BaselineHistory, tick + 1, recorded(previous, now, selected))
             /\ priority' = carried(candidates(previous, now), selected,
                                    candidate_priority(given(c)))
             /\ waited' = [e \in Entities |-> IF e \in candidates(previous, now) \ selected
                                              THEN waited[e] + 1 ELSE 0]
             /\ snapshots' \in {snapshots, snapshots \cup {snapshot(now, selected)}}
             /\ Cardinality(snapshots') <= MaxInFlight
             /\ calm' = IF Undisturbed(now, snapshots' # snapshots) THEN calm + 1 ELSE 0
           Replicates(now, c) ==
             /\ world_step(now)
             /\ Cardinality(removed(previous, now)) <= Budget
             /\ \E selected \in Chosen(now, c) : Encodes(now, c, selected)
             /\ UNCHANGED <<last_acked_tick, acked_snapshot_tick, view, acks>>
           Closeness(now) == [{e \in Entities \ {Viewer} : now[e] # None} -> 0 .. MaxCloseness]
<1>0. \E now \in Surroundings : \E closeness \in Closeness(now) : Replicates(now, closeness)
  BY Zenon DEF replicate
<1> HIDE DEF Replicates
<1>1. PICK now \in Surroundings : \E closeness \in Closeness(now) : Replicates(now, closeness)
  BY <1>0, Zenon
<1>10. PICK closeness \in Closeness(now) : Replicates(now, closeness)
  BY <1>1, Zenon
<1> HIDE DEF Encodes, Chosen
<1>11. /\ world_step(now) /\ UNCHANGED <<last_acked_tick, acked_snapshot_tick, view, acks>>
       /\ \E selected \in Chosen(now, closeness) : Encodes(now, closeness, selected)
  BY <1>10, Zenon DEF Replicates
<1>2. PICK selected \in Chosen(now, closeness) : Encodes(now, closeness, selected)
  BY <1>11, Zenon
<1> HIDE DEF snapshot
<1> USE DEF Encodes
<1>3. selected \subseteq candidates(previous, now)
  <2>1. \A c, n, p : selections(c, n, p) \subseteq SUBSET c
    BY DEF selections, kSubset
  <2> QED  BY <1>2, <2>1 DEF Chosen
<1>4. \A e \in Entities : given(closeness)[e] \in 0 .. MaxCloseness
  BY <1>10, SnapshotAssumption DEF Frames, MaxCloseness
<1>5. snapshot(now, selected) = Made(now, selected)
  BY DEF snapshot, Made, Written
<1>6. calm' \in {calm + 1, 0}
  BY <1>2
<1>7. tick < MaxTick /\ tick' = tick + 1 /\ visible' = now
  BY <1>11 DEF world_step
<1>8. snapshots' \subseteq snapshots \cup {Made(now, selected)}
  BY <1>2, <1>5
<1> HIDE DEF given
<1> DEFINE g == given(closeness)
<1>9. /\ now \in Surroundings
      /\ tick < MaxTick /\ tick' = tick + 1 /\ visible' = now
      /\ selected \subseteq candidates(StatesOf(baseline(tick + 1)), now)
      /\ \A e \in Entities : g[e] \in 0 .. MaxCloseness
      /\ history' = put(history, BaselineHistory, tick + 1, Written(now, selected))
      /\ snapshots' \subseteq snapshots \cup {Made(now, selected)}
      /\ priority' = carried(candidates(StatesOf(baseline(tick + 1)), now), selected,
                             candidate_priority(g))
      /\ waited' = [e \in Entities |->
                      IF e \in candidates(StatesOf(baseline(tick + 1)), now) \ selected
                      THEN waited[e] + 1 ELSE 0]
      /\ calm' \in {calm + 1, 0}
      /\ UNCHANGED <<last_acked_tick, acked_snapshot_tick, view, acks>>
  BY <1>1, <1>2, <1>3, <1>4, <1>6, <1>7, <1>8, <1>11, Zenon DEF Written
<1> HIDE DEF g
<1> WITNESS now, g, selected
<1> QED  BY <1>9, Zenon

\* The frame of an encode is of a tick of its own, and the snapshot decodes against
\* every frame of the baseline's tick.
LEMMA Replicate ==
  ASSUME TypeOK, Frames, scenario' = scenario, replicate
  PROVE  Frames'
<1> DEFINE base == baseline(tick + 1)
           previous == StatesOf(base)
<1>1. PICK now, selected :
        /\ now \in Surroundings
        /\ tick' = tick + 1 /\ baselines' = baselines
        /\ selected \subseteq candidates(previous, now)
        /\ history' = put(history, BaselineHistory, tick + 1, Written(now, selected))
        /\ snapshots' \subseteq snapshots \cup {Made(now, selected)}
  BY ReplicateEffect, Zenon DEF view
<1> DEFINE shot == Made(now, selected)
           new == [tick |-> tick + 1, states |-> shot.sent_as]
           i == (tick + 1) % BaselineHistory
<1>0. /\ shot.tick = tick + 1 /\ (shot.full <=> base = None)
      /\ shot.baseline_tick = IF base = None THEN 0 ELSE base.tick
      /\ shot.removed = removed(previous, now)
      /\ shot.updates = [e \in selected |-> update_of(previous, now, e)]
      /\ shot.sent_as = recorded(previous, now, selected)
      /\ Written(now, selected) = shot.sent_as
  BY DEF Made, Written
<1> HIDE DEF shot
<1>2. tick \in Nat /\ WireStates \in Nat /\ i \in 0 .. BaselineHistory - 1
  BY SnapshotAssumption DEF Frames, WireStates
<1>3. base # None => base \in Recorded
  <2>1. SUFFICES ASSUME base # None
                 PROVE  base \in Recorded
    OBVIOUS
  <2>2. base = get(history, BaselineHistory, last_acked_tick)
    BY <2>1 DEF baseline
  <2>3. base = history[last_acked_tick % BaselineHistory]
    BY <2>1, <2>2 DEF get
  <2>4. last_acked_tick % BaselineHistory \in 0 .. BaselineHistory - 1
    BY SnapshotAssumption DEF TypeOK
  <2> QED  BY <2>1, <2>3, <2>4 DEF Recorded
<1>4. previous \in States
  <2>1. Nothing \in States
    BY DEF Nothing, States
  <2> QED  BY <1>3, <2>1 DEF StatesOf, Frames, Past
<1>5. Decodes(shot, base) /\ shot.sent_as \in States
  <2>1. now \in States
    BY <1>1 DEF Surroundings
  <2> HIDE DEF base
  <2> QED  BY <1>0, <1>1, <1>2, <1>4, <2>1, DecodesAsRecorded
<1>6. new \in Frame /\ FrameOf(shot) = new
  BY <1>0, <1>2, <1>5 DEF FrameOf, Frame
<1>7. /\ history' \in [0 .. BaselineHistory - 1 -> Frame \cup {None}]
      /\ \A j \in 0 .. BaselineHistory - 1 : history'[j] \in {history[j], new}
  BY <1>0, <1>1, <1>2, <1>6 DEF Frames, put
<1>8. Recorded' \subseteq Recorded \cup {new}
  BY <1>1, <1>6, <1>7, SMTT(30) DEF Recorded, FrameOf, shot
<1>9. States' = States /\ Frame' = Frame
  BY DEF States, Frame, WireState, WireStates, Entities
<1>10. \A f \in Recorded : f.tick # tick + 1
  BY <1>2 DEF Frames, Past
<1>11. Past'
  BY <1>1, <1>2, <1>5, <1>8, <1>9 DEF Frames, Past
<1>12. OneFrame'
  BY <1>8, <1>10 DEF Frames, OneFrame
<1>13. ASSUME NEW m, NEW f
       PROVE  Decodes(m, f)' <=> Decodes(m, f)
  BY DEF Decodes, decodable, decode_snapshot, StatesOf, Nothing, Entities
<1>14. Deltas'
  <2> SUFFICES ASSUME NEW m \in snapshots'
               PROVE  IF m.full THEN Decodes(m, None)
                      ELSE /\ m.baseline_tick \in 1 .. m.tick - 1
                           /\ \A f \in Recorded' \ {None} : f.tick = m.baseline_tick => Decodes(m, f)
    BY <1>13 DEF Deltas
  <2>1. CASE m \in snapshots
    <3>1. FrameOf(m) \in Recorded /\ FrameOf(m).tick = m.tick
      BY <2>1 DEF Recorded, FrameOf
    <3>2. m.tick \in 1 .. tick
      BY <3>1 DEF Frames, Past
    <3>3. ~m.full => m.baseline_tick # tick + 1
      BY <1>2, <2>1, <3>2 DEF Frames, Deltas
    <3> QED  BY <1>8, <2>1, <3>3 DEF Frames, Deltas
  <2>2. CASE m = shot
    <3>1. CASE base = None
      BY <1>0, <1>5, <2>2, <3>1
    <3>2. CASE base # None
      <4>1. ~m.full /\ m.baseline_tick = base.tick /\ m.tick = tick + 1
        BY <1>0, <2>2, <3>2
      <4>2. base.tick \in 1 .. tick
        BY <1>3, <3>2 DEF Frames, Past
      <4>3. ASSUME NEW f \in Recorded' \ {None}, f.tick = base.tick
            PROVE  Decodes(m, f)
        <5>1. f \in Recorded
          BY <1>2, <1>8, <4>2, <4>3
        <5>2. f.states = base.states
          BY <1>3, <3>2, <4>3, <5>1 DEF Frames, OneFrame
        <5> QED  BY <1>5, <2>2, <3>2, <5>2, SameStates
      <4> QED  BY <1>2, <4>1, <4>2, <4>3
    <3> QED  BY <3>1, <3>2
  <2> QED  BY <1>1, <2>1, <2>2 DEF shot
<1> QED  BY <1>1, <1>2, <1>7, <1>9, <1>11, <1>12, <1>14 DEF Frames

-----------------------------------------------------------------------------
\* Types

\* What TypeOK says of a snapshot in flight.
Typed(m) ==
  /\ m.tick \in 1 .. MaxTick /\ m.baseline_tick \in 0 .. m.tick - 1
  /\ m.full \in BOOLEAN /\ m.removed \subseteq Entities
  /\ DOMAIN m.updates \subseteq Entities \ m.removed
  /\ m.sent_as \in States

\* The scenario gives every set its extent.
LEMMA SameWorld ==
  ASSUME scenario' = scenario
  PROVE  /\ Entities' = Entities /\ MaxTick' = MaxTick /\ States' = States
         /\ Surroundings' = Surroundings /\ Frame' = Frame
         /\ \A m : Typed(m)' <=> Typed(m)
  BY DEF Entities, MaxTick, States, Surroundings, Frame, WireState, WireStates, Typed

\* Steps of neither the encoder nor the world.
LEMMA OthersTyped ==
  ASSUME TypeOK, scenario' = scenario, Frames',
         UNCHANGED <<tick, visible, priority, waited, calm>>,
         last_acked_tick' \in Nat, acked_snapshot_tick' \in Nat, latest_tick' \in Nat,
         has_snapshot' \in BOOLEAN, local_entity' \in BOOLEAN,
         snapshots' \subseteq snapshots, acks' \subseteq Nat
  PROVE  TypeOK'
<1>1. \A m \in snapshots' : Typed(m)'
  BY SameWorld DEF TypeOK, Typed
<1>2. /\ tick' \in 0 .. MaxTick' /\ visible' \in Surroundings'
      /\ priority' \in [Entities' -> Nat] /\ waited' \in [Entities' -> Nat]
      /\ \A e \in Entities' : priority'[e] # 0 <=> waited'[e] # 0
      /\ calm' \in Nat
  BY SameWorld DEF TypeOK
<1> QED  BY <1>1, <1>2 DEF TypeOK, Typed, Frames

\* A snapshot whose header overflows keeps types.
LEMMA OverflowTyped ==
  ASSUME TypeOK, Frames, scenario' = scenario, Frames', header_overflows
  PROVE  TypeOK'
<1>1. /\ tick < MaxTick /\ tick' = tick + 1 /\ visible' \in Surroundings /\ calm' = 0
      /\ UNCHANGED <<shard, view, snapshots, acks, waited>>
  BY DEF header_overflows, world_step
<1>2. tick' \in 0 .. MaxTick'
  <2>1. MaxTick \in Nat
    BY SnapshotAssumption DEF Frames, MaxTick
  <2> QED  BY <1>1, <2>1, SameWorld DEF Frames
<1>3. \A m \in snapshots' : Typed(m)'
  BY <1>1, SameWorld DEF TypeOK, Typed
<1>4. /\ visible' \in Surroundings'
      /\ priority' \in [Entities' -> Nat] /\ waited' \in [Entities' -> Nat]
      /\ \A e \in Entities' : priority'[e] # 0 <=> waited'[e] # 0
      /\ calm' \in Nat
  BY <1>1, SameWorld DEF TypeOK, shard
<1> QED  BY <1>1, <1>2, <1>3, <1>4 DEF TypeOK, Typed, Frames, shard, view

\* What a deferred entity carries is at least 1, so it is told from what is not carried.
LEMMA CreditPositive ==
  ASSUME TypeOK, Frames, NEW given, \A e \in Entities : given[e] \in 0 .. MaxCloseness,
         NEW e \in Entities
  PROVE  candidate_priority(given)[e] \in Nat \ {0}
<1>1. MaxCloseness \in Nat /\ MaxTick \in Nat
  BY SnapshotAssumption DEF Frames, MaxCloseness, MaxTick
<1>2. SelfPriority \in Nat
  <2>1. ASSUME NEW a \in Nat, NEW b \in Nat
        PROVE  a * b \in Nat
    OBVIOUS
  <2>2. MaxCloseness + 1 \in Nat /\ MaxTick + 1 \in Nat
    BY <1>1
  <2> QED  BY <2>1, <2>2 DEF SelfPriority
<1>3. priority[e] \in Nat /\ given[e] \in Nat
  BY <1>1 DEF TypeOK
<1>4. candidate_priority(given)[e] =
        priority[e] + given[e] + 1 + (IF e = Viewer THEN SelfPriority ELSE 0)
  BY DEF candidate_priority
<1> QED  BY <1>2, <1>3, <1>4

\* So does one that is sent.
LEMMA ReplicateTyped ==
  ASSUME TypeOK, Frames, scenario' = scenario, Frames', replicate
  PROVE  TypeOK'
<1> DEFINE base == baseline(tick + 1)
           previous == StatesOf(base)
<1>1. PICK now, given, selected :
        /\ now \in Surroundings
        /\ tick < MaxTick /\ tick' = tick + 1 /\ visible' = now
        /\ selected \subseteq candidates(previous, now)
        /\ \A e \in Entities : given[e] \in 0 .. MaxCloseness
        /\ snapshots' \subseteq snapshots \cup {Made(now, selected)}
        /\ priority' = carried(candidates(previous, now), selected, candidate_priority(given))
        /\ waited' = [e \in Entities |-> IF e \in candidates(previous, now) \ selected
                                         THEN waited[e] + 1 ELSE 0]
        /\ calm' \in {calm + 1, 0}
        /\ UNCHANGED <<last_acked_tick, acked_snapshot_tick, view, acks>>
  BY ReplicateEffect, Zenon
<1> DEFINE late == candidates(previous, now) \ selected
           shot == Made(now, selected)
<1>2. tick' \in 0 .. MaxTick' /\ MaxTick \in Nat /\ tick \in Nat /\ tick + 1 \in 1 .. MaxTick
  <2>1. MaxTick \in Nat
    BY SnapshotAssumption DEF Frames, MaxTick
  <2>2. MaxTick' = MaxTick
    BY <1>1, SameWorld, Zenon
  <2>3. tick < MaxTick /\ tick' = tick + 1 /\ tick \in 0 .. MaxTick
    BY <1>1, Zenon DEF TypeOK
  <2> HIDE DEF late, shot
  <2> QED  BY <2>1, <2>2, <2>3
<1>3. /\ priority' \in [Entities -> Nat] /\ waited' \in [Entities -> Nat]
      /\ \A e \in Entities : priority'[e] # 0 <=> waited'[e] # 0
  <2>1. \A e \in Entities : candidate_priority(given)[e] \in Nat \ {0}
    BY <1>1, CreditPositive
  <2>2. priority' = [e \in Entities |-> IF e \in late THEN candidate_priority(given)[e] ELSE 0]
    BY <1>1 DEF carried
  <2>3. \A e \in Entities : waited[e] \in Nat
    BY DEF TypeOK
  <2> HIDE DEF late
  <2>4. \A e \in Entities : waited'[e] = IF e \in late THEN waited[e] + 1 ELSE 0
    BY <1>1 DEF late
  <2>5. waited' \in [Entities -> Nat]
    BY <1>1, <2>3 DEF late
  <2> QED  BY <2>1, <2>2, <2>3, <2>4, <2>5
<1>4. shot \in snapshots' => Typed(shot)
  <2>1. SUFFICES ASSUME shot \in snapshots'
                 PROVE  Typed(shot)
    OBVIOUS
  <2>2. /\ shot.tick = tick + 1 /\ shot.full \in BOOLEAN
        /\ shot.removed = removed(previous, now)
        /\ DOMAIN shot.updates = selected
    BY DEF Made
  <2>3. shot.baseline_tick = 0 \/ (~shot.full /\ shot.baseline_tick = base.tick)
    BY DEF Made
  <2>4. shot.baseline_tick \in 0 .. tick
    BY <1>2, <2>1, <2>2, <2>3 DEF Frames, Deltas
  <2>5. shot.sent_as \in States
    <3>1. FrameOf(shot) \in Recorded'
      BY <2>1 DEF Recorded, FrameOf
    <3> QED  BY <3>1, SameWorld DEF Frames, Past, FrameOf
  <2>6. shot.removed \subseteq Entities /\ DOMAIN shot.updates \subseteq Entities \ shot.removed
    BY <1>1, <2>2 DEF removed, candidates
  <2> HIDE DEF shot
  <2> QED  BY <1>2, <2>2, <2>4, <2>5, <2>6 DEF Typed
<1>5. \A m \in snapshots' : Typed(m)'
  BY <1>1, <1>4, SameWorld DEF TypeOK, Typed
<1>6. /\ last_acked_tick' \in Nat /\ acked_snapshot_tick' \in Nat /\ latest_tick' \in Nat
      /\ has_snapshot' \in BOOLEAN /\ local_entity' \in BOOLEAN /\ acks' \subseteq Nat
      /\ calm' \in Nat
  <2>1. /\ UNCHANGED <<last_acked_tick, acked_snapshot_tick, view, acks>>
        /\ calm' \in {calm + 1, 0}
    BY <1>1, Zenon
  <2>2. /\ last_acked_tick \in Nat /\ acked_snapshot_tick \in Nat /\ latest_tick \in Nat
        /\ has_snapshot \in BOOLEAN /\ local_entity \in BOOLEAN /\ acks \subseteq Nat
        /\ calm \in Nat
    BY Zenon DEF TypeOK
  <2> HIDE DEF late, shot
  <2> QED  BY <2>1, <2>2 DEF view
<1> QED  BY <1>1, <1>2, <1>3, <1>5, <1>6, SameWorld DEF TypeOK, Typed, Frames

-----------------------------------------------------------------------------
\* The inductive invariant

IInv == TypeOK /\ Frames

\* The invariant holds before the first frame.
LEMMA Initial ==
  ASSUME Init
  PROVE  IInv
<1>1. /\ scenario \in Scenarios /\ MaxTick \in Nat /\ WireStates \in Nat \ {0}
      /\ Viewer \in Entities /\ scenario.previous_ticks \subseteq Nat
  BY SnapshotAssumption DEF Init, MaxTick, WireStates, Entities
<1>2. Recorded = {}
  BY DEF Init, Recorded
<1>3. Frames
  BY <1>1, <1>2 DEF Init, Frames, Past, OneFrame, Deltas
<1>4. visible \in Surroundings
  <2>1. 0 \in WireState
    BY <1>1 DEF WireState
  <2>2. visible \in States
    BY <2>1 DEF Init, Nothing, States
  <2>3. visible[Viewer] = 0
    BY <1>1 DEF Init, Nothing
  <2> QED  BY <2>2, <2>3, SnapshotAssumption DEF Surroundings
<1>5. tick \in 0 .. MaxTick /\ latest_tick \in Nat
  BY <1>1 DEF Init
<1>6. /\ priority \in [Entities -> Nat] /\ waited \in [Entities -> Nat]
      /\ \A e \in Entities : priority[e] # 0 <=> waited[e] # 0
  BY DEF Init
<1> QED  BY <1>3, <1>4, <1>5, <1>6 DEF Init, IInv, TypeOK, Frames

\* Every step keeps it: one case per action.
LEMMA Inductive ==
  ASSUME IInv, [Next]_vars
  PROVE  IInv'
<1> USE DEF IInv
<1>1. scenario' = scenario
  BY DEF Next, vars
<1>2. CASE replicate
  <2>1. Frames'
    BY <1>1, <1>2, Replicate
  <2> QED  BY <1>1, <1>2, <2>1, ReplicateTyped
<1>3. CASE header_overflows
  <2>1. tick' \in Nat /\ tick <= tick' /\ UNCHANGED <<history, baselines, snapshots>>
    BY <1>3 DEF header_overflows, world_step, shard, view, Frames
  <2>2. Frames'
    BY <1>1, <2>1, Otherwise
  <2> QED  BY <1>1, <1>3, <2>2, OverflowTyped
<1>4. ASSUME NEW m \in snapshots, apply_snapshot(m)
      PROVE  IInv'
  <2>1. Frames'
    BY <1>1, <1>4, ApplySnapshot
  <2>2. m.tick \in Nat
    BY DEF TypeOK
  <2>3. /\ UNCHANGED <<tick, visible, priority, waited, calm, last_acked_tick,
                       acked_snapshot_tick, local_entity, acks>>
        /\ snapshots' \subseteq snapshots /\ has_snapshot' = TRUE /\ latest_tick' \in Nat
    BY <1>4, <2>2 DEF apply_snapshot, shard, newest, TypeOK
  <2> QED  BY <1>1, <2>1, <2>3, OthersTyped DEF TypeOK
<1>5. ASSUME \/ \E dt \in FrameTimes : advance(dt)
             \/ \E t \in acks : on_payload(t)
             \/ world_config
             \/ \E m \in snapshots : reject_snapshot(m)
             \/ send_input
             \/ UNCHANGED vars
      PROVE  IInv'
  <2>1. /\ UNCHANGED <<tick, visible, history, priority, baselines, latest_tick, has_snapshot,
                       waited, calm>>
        /\ snapshots' \subseteq snapshots
    BY <1>5
    DEF advance, on_payload, world_config, reject_snapshot, send_input, vars, shard, view
  <2>2. acks' \subseteq Nat
    BY <1>5 DEF advance, on_payload, world_config, reject_snapshot, send_input, vars, TypeOK
  <2>3. last_acked_tick' \in Nat /\ acked_snapshot_tick' \in Nat
    BY <1>5 DEF advance, on_payload, world_config, reject_snapshot, send_input, vars, shard,
                acknowledge, TypeOK
  <2>4. local_entity' \in BOOLEAN
    BY <1>5 DEF advance, on_payload, world_config, reject_snapshot, send_input, vars, view,
                TypeOK
  <2>5. Frames'
    BY <1>1, <2>1, Otherwise DEF Frames
  <2> QED  BY <1>1, <2>1, <2>2, <2>3, <2>4, <2>5, OthersTyped DEF TypeOK
<1> QED  BY <1>2, <1>3, <1>4, <1>5 DEF Next

\* The invariant says what FramesAgree does of the frames both sides hold now.
LEMMA Agreement ==
  ASSUME IInv
  PROVE  FramesAgree
<1>1. ASSUME NEW i \in DOMAIN baselines, baselines[i] # None,
             get(history, BaselineHistory, baselines[i].tick) # None
      PROVE  get(history, BaselineHistory, baselines[i].tick).states = baselines[i].states
  <2> DEFINE mine == baselines[i]
             sent == get(history, BaselineHistory, mine.tick)
  <2>1. mine \in Recorded
    BY <1>1 DEF IInv, Frames, Recorded
  <2>2. mine.tick % BaselineHistory \in 0 .. BaselineHistory - 1
    BY <2>1, SnapshotAssumption DEF IInv, Frames, Past
  <2>3. sent = history[mine.tick % BaselineHistory] /\ sent.tick = mine.tick
    BY <1>1 DEF get
  <2>4. sent \in Recorded
    BY <1>1, <2>2, <2>3 DEF Recorded
  <2> QED  BY <2>1, <2>3, <2>4 DEF IInv, Frames, OneFrame
<1>2. ASSUME NEW m \in snapshots, m.full \/ BaseOf(m) # None
      PROVE  Decodes(m, BaseOf(m))
  <2>1. CASE m.full
    BY <2>1 DEF IInv, Frames, Deltas, BaseOf
  <2>2. CASE ~m.full
    <3> DEFINE base == BaseOf(m)
    <3>1. base # None /\ base = baselines[m.baseline_tick % SnapshotHistory]
          /\ base.tick = m.baseline_tick
      BY <1>2, <2>2 DEF BaseOf, get
    <3>2. m.baseline_tick % SnapshotHistory \in 0 .. SnapshotHistory - 1
      BY SnapshotAssumption DEF IInv, TypeOK
    <3>3. base \in Recorded
      BY <3>1, <3>2 DEF Recorded
    <3> QED  BY <2>2, <3>1, <3>3 DEF IInv, Frames, Deltas
  <2> QED  BY <2>1, <2>2
<1> QED  BY <1>1, <1>2 DEF FramesAgree, Decodes

\* So it holds throughout.
LEMMA Invariance == Spec => []IInv
<1>1. Init => IInv
  BY Initial
<1>2. IInv /\ [Next]_vars => IInv'
  BY Inductive
<1> QED  BY <1>1, <1>2, PTL DEF Spec

-----------------------------------------------------------------------------
\* What is proved

\* Every frame on either side holds wire states, whatever deltas it was made from
\* (decode_entity_update adds the difference to the baseline's value), every snapshot's
\* baseline is older than itself, and credit is carried by exactly the entities the
\* last encode deferred.
THEOREM TypeCorrect == Spec => []TypeOK
<1>1. IInv => TypeOK
  BY DEF IInv
<1> QED  BY <1>1, Invariance, PTL

\* Over lost, late and reordered snapshots and acknowledgements, for every length of
\* the two histories and every packet size: shard and client agree on each frame both
\* hold, and what decode_snapshot makes of a snapshot is what encode recorded for it.
THEOREM FramesInAgreement == Spec => []FramesAgree
<1>1. IInv => FramesAgree
  BY Agreement
<1> QED  BY <1>1, Invariance, PTL
=============================================================================
