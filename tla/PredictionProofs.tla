-------------------------- MODULE PredictionProofs --------------------------
(***************************************************************************)
(* What Prediction promises of a player's commands, for every redundancy,  *)
(* queue length, history length and number of repeats: TypeOK,             *)
(* AppliedOnce, ReplayedOnce, LossTolerated and RepeatsEnd.                *)
(***************************************************************************)
EXTENDS Prediction, TLAPS

\* A path goes no further than the command it is recorded with.
UpTo(s, n) == \A i \in DOMAIN s : s[i] <= n

\* No command stands in a path more often than it may be repeated.
Bounded(s) == \A i, j \in DOMAIN s : s[i] = s[j] => j - i <= InputRepeatTicks

\* The slot of World and the player of WorldServer: everything applied is older
\* than everything queued, and both have seen the same newest command.
Slot ==
  /\ last_input_sequence = highest_received_sequence
  /\ last_applied_sequence <= highest_received_sequence
  /\ UpTo(path, last_applied_sequence)
  /\ UpTo(pending, highest_received_sequence)
  /\ \A j \in DOMAIN pending : last_applied_sequence < pending[j]
  /\ InOrder(pending)
  /\ MovedInOrder(path)

\* The repeats of the last command are the end of the path, and there are fewer of
\* them than the world has ticks.
LastRepeats ==
  /\ Bounded(path)
  /\ has_applied =>
       /\ 0 < tick /\ 0 < last_applied_sequence
       /\ \A i \in DOMAIN path : path[i] = last_applied_sequence => Len(path) - i < tick

\* A ticket, a ghost and a snapshot confirm all the commands of the path they bring.
Confirming ==
  /\ Bounded(carried.path)
  /\ \A c \in snapshots \cup {carried} :
       MovedInOrder(c.path) /\ UpTo(c.path, c.last_input_sequence)

\* A packet repeats as many commands as there are and the redundancy has room for.
Windows == \A p \in packets : p.first = larger(1, p.last - InputRedundancy + 1)

\* The replay is the newest commands given, none left out.
Consecutive ==
  \A i \in DOMAIN input_history :
    input_history[i] = next_input_sequence - 1 - Len(input_history) + i

\* While the client has not been restarted, nobody has seen a command it has not
\* given, and a shard that takes the player over goes on from the newest received.
Sent ==
  /\ stage # "dropped"
  /\ stage \in {"redirected", "joining"} =>
       carried.last_input_sequence = highest_received_sequence
  /\ highest_received_sequence < next_input_sequence
  /\ \A p \in packets : p.last < next_input_sequence
  /\ \A s \in snapshots : s.last_input_sequence < next_input_sequence
  /\ UpTo(predicted, next_input_sequence - 1)
  /\ highest_received_sequence # 0 => highest_received_sequence \in heard
  /\ \A n \in heard : n <= highest_received_sequence

IInv ==
  /\ TypeOK
  /\ Slot
  /\ LastRepeats
  /\ Confirming
  /\ Windows
  /\ Consecutive
  /\ drops = 0 => Sent
  /\ ReplayedOnce
  /\ LossTolerated

-----------------------------------------------------------------------------
\* Sequences

\* A sequence over a set is one over a larger set.
LEMMA SeqWidens ==
  ASSUME NEW S, NEW T, S \subseteq T, NEW s \in Seq(S)
  PROVE  s \in Seq(T)
<1>1. Len(s) \in Nat /\ s \in [1 .. Len(s) -> T]
  OBVIOUS
<1> QED  BY <1>1

\* What a deque that drops from the front keeps: the end of the sequence.
LEMMA NewestFacts ==
  ASSUME NEW S, NEW s \in Seq(S), NEW n \in Nat
  PROVE  /\ Newest(s, n) \in Seq(S)
         /\ Len(Newest(s, n)) = IF Len(s) <= n THEN Len(s) ELSE n
         /\ \A i \in DOMAIN Newest(s, n) :
              Newest(s, n)[i] = s[Len(s) - Len(Newest(s, n)) + i]
<1>1. CASE Len(s) <= n
  <2>1. larger(1, Len(s) - n + 1) = 1
    BY <1>1 DEF larger
  <2>2. SubSeq(s, 1, Len(s)) = s
    OBVIOUS
  <2>3. Newest(s, n) = s
    BY <2>1, <2>2 DEF Newest
  <2> QED  BY <1>1, <2>3
<1>2. CASE n < Len(s)
  <2>1. larger(1, Len(s) - n + 1) = Len(s) - n + 1
    BY <1>2 DEF larger
  <2>2. /\ SubSeq(s, Len(s) - n + 1, Len(s)) \in Seq(S)
        /\ Len(SubSeq(s, Len(s) - n + 1, Len(s))) = n
        /\ \A i \in 1 .. n : SubSeq(s, Len(s) - n + 1, Len(s))[i] = s[Len(s) - n + i]
    BY <1>2
  <2>3. Newest(s, n) = SubSeq(s, Len(s) - n + 1, Len(s))
    BY <2>1 DEF Newest
  <2> QED  BY <1>2, <2>2, <2>3
<1> QED  BY <1>1, <1>2

\* The commands of a packet, in order.
LEMMA RunFacts ==
  ASSUME NEW a \in Nat \ {0}, NEW b \in Nat
  PROVE  /\ Run(a, b) \in Seq(a .. b)
         /\ Len(Run(a, b)) = IF a <= b THEN b - a + 1 ELSE 0
         /\ \A i \in DOMAIN Run(a, b) : Run(a, b)[i] = a + i - 1
         /\ Range(Run(a, b)) = a .. b
<1>1. Run(a, b) \in Seq(a .. b) /\ Len(Run(a, b)) = IF a <= b THEN b - a + 1 ELSE 0
  <2>1. CASE a <= b
    BY <2>1 DEF Run
  <2>2. CASE b < a
    <3>1. 1 .. b - a + 1 = 1 .. 0
      BY <2>2
    <3>2. Run(a, b) = [i \in 1 .. 0 |-> a + i - 1]
      BY <3>1 DEF Run
    <3> QED  BY <2>2, <3>2
  <2> QED  BY <2>1, <2>2
<1>2. \A i \in DOMAIN Run(a, b) : Run(a, b)[i] = a + i - 1
  BY DEF Run
<1>3. Range(Run(a, b)) = a .. b
  <2>1. \A k \in a .. b : k - a + 1 \in DOMAIN Run(a, b) /\ Run(a, b)[k - a + 1] = k
    BY DEF Run
  <2>2. \A i \in DOMAIN Run(a, b) : Run(a, b)[i] \in a .. b
    BY DEF Run
  <2> QED  BY <2>1, <2>2 DEF Range
<1> QED  BY <1>1, <1>2, <1>3

\* A queue in order stays so without its oldest and behind what is newer.
LEMMA NewestInOrder ==
  ASSUME NEW s \in Seq(Nat), NEW n \in Nat, InOrder(s)
  PROVE  InOrder(Newest(s, n))
<1>1. /\ Newest(s, n) \in Seq(Nat)
      /\ Len(Newest(s, n)) <= Len(s)
      /\ \A i \in DOMAIN Newest(s, n) : Newest(s, n)[i] = s[Len(s) - Len(Newest(s, n)) + i]
  BY NewestFacts
<1>2. \A i \in DOMAIN Newest(s, n) : Len(s) - Len(Newest(s, n)) + i \in DOMAIN s
  BY <1>1
<1>3. SUFFICES ASSUME NEW i \in DOMAIN Newest(s, n), NEW j \in DOMAIN Newest(s, n), i < j
               PROVE  Newest(s, n)[i] < Newest(s, n)[j]
  BY DEF InOrder
<1> DEFINE d == Len(s) - Len(Newest(s, n))
<1>4. d \in Int /\ i \in Int /\ j \in Int
  BY <1>1, SMTT(30)
<1>5. d + i < d + j /\ d + i \in DOMAIN s /\ d + j \in DOMAIN s
  BY <1>2, <1>3, <1>4
<1>6. s[d + i] < s[d + j]
  BY <1>5 DEF InOrder
<1>7. Newest(s, n)[i] = s[d + i] /\ Newest(s, n)[j] = s[d + j]
  BY <1>1
<1> QED  BY <1>6, <1>7

\* Two ordered sequences, all of the second beyond the first, make an ordered
\* one.
LEMMA QueuedInOrder ==
  ASSUME NEW s \in Seq(Nat), NEW t \in Seq(Nat), NEW m \in Nat,
         InOrder(s), InOrder(t), UpTo(s, m), \A j \in DOMAIN t : m < t[j]
  PROVE  InOrder(s \o t)
  BY SMTT(30) DEF InOrder, UpTo

\* The history after push_input.
Pushed(s, e) == Newest(Append(s, e), InputHistory)

\* push_back with the oldest dropped: what remains are the newest elements.
LEMMA PushedFacts ==
  ASSUME NEW S, NEW s \in Seq(S), NEW e \in S, InputHistory \in Nat
  PROVE  LET t == Pushed(s, e) IN
         /\ t \in Seq(S)
         /\ Len(t) <= InputHistory /\ Len(t) <= Len(s) + 1
         /\ \A i \in DOMAIN t : i # Len(t) =>
              Len(s) + 1 - Len(t) + i \in DOMAIN s /\ t[i] = s[Len(s) + 1 - Len(t) + i]
         /\ Len(t) > 0 => t[Len(t)] = e
         /\ Range(t) \subseteq Range(s) \cup {e}
<1> DEFINE a == Append(s, e)
           t == Pushed(s, e)
<1>1. /\ a \in Seq(S) /\ Len(a) = Len(s) + 1 /\ a[Len(s) + 1] = e
      /\ \A i \in 1 .. Len(s) : a[i] = s[i]
  OBVIOUS
<1> HIDE DEF a, t
<1>2. /\ t \in Seq(S) /\ Len(t) = IF Len(a) <= InputHistory THEN Len(a) ELSE InputHistory
      /\ \A i \in DOMAIN t : t[i] = a[Len(a) - Len(t) + i]
  <2>1. t = Newest(a, InputHistory)
    BY DEF a, t, Pushed
  <2> QED  BY <1>1, <2>1, NewestFacts
<1> DEFINE l == Len(s)
           k == Len(t)
<1>0. l \in Nat /\ k \in Nat /\ DOMAIN t = 1 .. k /\ DOMAIN s = 1 .. l
  BY <1>2
<1>3. k <= InputHistory /\ k <= l + 1 /\ \A i \in 1 .. k : t[i] = a[l + 1 - k + i]
  <2>1. Len(a) = l + 1 /\ k = IF Len(a) <= InputHistory THEN Len(a) ELSE InputHistory
    BY <1>1, <1>2
  <2>2. \A i \in 1 .. k : t[i] = a[Len(a) - k + i]
    BY <1>0, <1>2, Zenon
  <2> HIDE DEF l, k
  <2> QED  BY <1>0, <2>1, <2>2
<1>4. a[l + 1] = e /\ \A i \in 1 .. l : a[i] = s[i]
  BY <1>1
<1> HIDE DEF l, k
<1>5. \A i \in DOMAIN t : i # k => l + 1 - k + i \in DOMAIN s /\ t[i] = s[l + 1 - k + i]
  BY <1>0, <1>3, <1>4
<1>6. k > 0 => t[k] = e
  <2>1. l + 1 - k + k = l + 1
    BY <1>0
  <2> QED  BY <1>0, <1>3, <1>4, <2>1
<1>7. Range(t) \subseteq Range(s) \cup {e}
  BY <1>0, <1>5, <1>6 DEF Range
<1> QED  BY <1>2, <1>3, <1>5, <1>6, <1>7, Zenon DEF l, k, t

\* A path that goes on by a command it has at its end for at most t steps, or not
\* at all.
LEMMA AppendMoves ==
  ASSUME NEW s \in Seq(Nat), NEW n \in Nat, NEW t \in Nat, InputRepeatTicks \in Nat,
         MovedInOrder(s), Bounded(s), UpTo(s, n), t <= InputRepeatTicks,
         \A i \in DOMAIN s : s[i] = n => Len(s) - i < t
  PROVE  LET q == Append(s, n) IN
         /\ MovedInOrder(q) /\ Bounded(q) /\ UpTo(q, n)
         /\ \A i \in DOMAIN q : q[i] = n => Len(q) - i < t + 1
<1> DEFINE q == Append(s, n)
           l == Len(s)
<1>1. /\ l \in Nat /\ Len(q) = l + 1
      /\ DOMAIN q = 1 .. l + 1 /\ DOMAIN s = 1 .. l
      /\ q[l + 1] = n
  OBVIOUS
<1>2. \A i \in 1 .. l : q[i] = s[i] /\ s[i] \in Nat
  OBVIOUS
<1>3. \A i \in 1 .. l : s[i] = n => l - i < t
  BY <1>1
<1> HIDE DEF q, l
<1>4. UpTo(q, n)
  BY <1>1, <1>2 DEF UpTo
<1>5. MovedInOrder(q)
  BY <1>1, <1>2 DEF UpTo, MovedInOrder
<1>6. \A i \in DOMAIN q : q[i] = n => l + 1 - i < t + 1
  BY <1>1, <1>2, <1>3
<1>7. Bounded(q)
  <2> SUFFICES ASSUME NEW i \in DOMAIN q, NEW j \in DOMAIN q, q[i] = q[j]
               PROVE  j - i <= InputRepeatTicks
    BY DEF Bounded
  <2>1. CASE j = l + 1
    BY <1>1, <1>6, <2>1
  <2>2. CASE j # l + 1 /\ i # l + 1
    <3>1. i \in DOMAIN s /\ j \in DOMAIN s /\ s[i] = s[j]
      BY <1>1, <1>2, <2>2
    <3> QED  BY <3>1 DEF Bounded
  <2>3. CASE j # l + 1 /\ i = l + 1
    BY <1>1, <2>3
  <2> QED  BY <2>1, <2>2, <2>3
<1> QED  BY <1>1, <1>4, <1>5, <1>6, <1>7 DEF q

-----------------------------------------------------------------------------
\* The client

\* The client numbers, predicts, records and sends a command.
LEMMA SendInput ==
  ASSUME IInv, send_input
  PROVE  IInv'
<1> DEFINE n == next_input_sequence
           kept == Pushed(input_history, n)
<1>1. /\ n \in 1 .. MaxInputs
      /\ MaxInputs \in Nat /\ InputHistory \in Nat /\ InputRedundancy \in Nat \ {0}
      /\ next_input_sequence' = n + 1
      /\ predicted' = Append(predicted, n)
      /\ input_history' = kept
      /\ packets' \subseteq packets \cup {input_window(n)}
      /\ UNCHANGED <<last_acknowledged_input, shardVars, stage, carried, snapshots,
                     countVars, seenVars>>
  BY PredictionAssumption DEF IInv, TypeOK, send_input, Pushed
<1>2. input_history \in Seq(1 .. MaxInputs) /\ predicted \in Seq(1 .. MaxInputs)
  BY DEF IInv, TypeOK, Paths
<1>3. /\ kept \in Paths
      /\ Len(kept) <= InputHistory
      /\ \A i \in DOMAIN kept : i # Len(kept) =>
           /\ Len(input_history) + 1 - Len(kept) + i \in DOMAIN input_history
           /\ kept[i] = input_history[Len(input_history) + 1 - Len(kept) + i]
      /\ Len(kept) > 0 => kept[Len(kept)] = n
      /\ Range(kept) \subseteq Range(input_history) \cup {n}
  <2> DEFINE S == 1 .. MaxInputs
  <2>1. input_history \in Seq(S) /\ n \in S /\ InputHistory \in Nat
    BY <1>1, <1>2
  <2> HIDE DEF S, n
  <2>2. /\ kept \in Seq(S)
        /\ Len(kept) <= InputHistory
        /\ \A i \in DOMAIN kept : i # Len(kept) =>
             /\ Len(input_history) + 1 - Len(kept) + i \in DOMAIN input_history
             /\ kept[i] = input_history[Len(input_history) + 1 - Len(kept) + i]
        /\ Len(kept) > 0 => kept[Len(kept)] = n
        /\ Range(kept) \subseteq Range(input_history) \cup {n}
    BY <2>1, PushedFacts
  <2> QED  BY <2>2 DEF S, n, Paths
<1> HIDE DEF kept
<1>4. TypeOK'
  <2>1. predicted' \in Paths
    BY <1>1, <1>2 DEF Paths
  <2>2. input_window(n) \in [first : 1 .. MaxInputs, last : 1 .. MaxInputs]
    BY <1>1 DEF input_window, larger
  <2> QED  BY <1>1, <1>3, <2>1, <2>2
           DEF IInv, TypeOK, Paths, shardVars, slotVars, countVars, seenVars
<1>5. Slot' /\ LastRepeats' /\ Confirming'
  BY <1>1 DEF IInv, Slot, LastRepeats, Confirming, UpTo, Bounded, InOrder, MovedInOrder,
              shardVars, slotVars
<1>6. Windows'
  BY <1>1 DEF IInv, Windows, input_window
<1>7. Consecutive'
  <2>1. \A i \in DOMAIN kept : kept[i] = n - Len(kept) + i
    <3> DEFINE l == Len(input_history)
               k == Len(kept)
    <3>1. l \in Nat /\ k \in Nat /\ DOMAIN kept = 1 .. k
      BY <1>2, <1>3 DEF Paths
    <3>2. \A i \in DOMAIN input_history : input_history[i] = n - 1 - l + i
      BY DEF IInv, Consecutive
    <3> HIDE DEF l
    <3>3. \A i \in DOMAIN kept : i # k =>
            l + 1 - k + i \in DOMAIN input_history /\ kept[i] = input_history[l + 1 - k + i]
      BY <1>3 DEF l
    <3>4. k > 0 => kept[k] = n
      BY <1>3
    <3> HIDE DEF k
    <3>5. ASSUME NEW i \in DOMAIN kept
          PROVE  kept[i] = n - k + i
      BY <1>1, <3>1, <3>2, <3>3, <3>4
    <3> QED  BY <3>5 DEF k
  <2>2. Len(kept) \in Nat /\ n \in Nat /\ DOMAIN kept \subseteq Nat
    BY <1>1, <1>3 DEF Paths
  <2> QED  BY <1>1, <2>1, <2>2 DEF Consecutive
<1>8. (drops = 0 => Sent)'
  <2>1. drops = 0 => UpTo(predicted, n - 1) /\ UpTo(Append(predicted, n), n)
    BY <1>1, <1>2, SMTT(30) DEF IInv, Sent, UpTo
  <2>2. \A p \in packets : p.last \in Nat
    BY DEF IInv, TypeOK
  <2>3. \A s \in snapshots : s.last_input_sequence \in Nat
    BY DEF IInv, TypeOK, Confirmation
  <2>4. highest_received_sequence \in Nat
    BY DEF IInv, TypeOK
  <2>5. input_window(n).last = n
    BY DEF input_window
  <2> QED  BY <1>1, <2>1, <2>2, <2>3, <2>4, <2>5
           DEF IInv, Sent, shardVars, slotVars, countVars, seenVars
<1>9. ReplayedOnce'
  <2> SUFFICES ASSUME drops = 0
               PROVE  /\ MovedInOrder(predicted')
                      /\ \A i, j \in DOMAIN predicted' :
                           i < j /\ predicted'[j] \in Range(input_history')
                             => predicted'[i] < predicted'[j]
    BY <1>1 DEF ReplayedOnce, countVars
  <2>1. UpTo(predicted, n - 1) /\ MovedInOrder(predicted)
    BY DEF IInv, Sent, ReplayedOnce
  <2>2. MovedInOrder(Append(predicted, n))
    BY <1>1, <1>2, <2>1 DEF MovedInOrder, UpTo
  <2>3. ASSUME NEW i \in DOMAIN Append(predicted, n), NEW j \in DOMAIN Append(predicted, n),
               i < j, Append(predicted, n)[j] \in Range(kept)
        PROVE  Append(predicted, n)[i] < Append(predicted, n)[j]
    <3>1. CASE j = Len(predicted) + 1
      BY <1>1, <1>2, <2>1, <2>3, <3>1 DEF UpTo
    <3>2. CASE j # Len(predicted) + 1
      <4>1. i \in DOMAIN predicted /\ j \in DOMAIN predicted
        BY <1>2, <2>3, <3>2
      <4>2. Append(predicted, n)[i] = predicted[i] /\ Append(predicted, n)[j] = predicted[j]
        BY <1>1, <1>2, <4>1
      <4>3. predicted[j] \in Nat
        BY <1>1, <1>2, <4>1
      <4>4. predicted[j] # n
        BY <1>1, <2>1, <4>1, <4>3 DEF UpTo
      <4> QED  BY <1>3, <2>3, <4>1, <4>2, <4>4 DEF IInv, ReplayedOnce
    <3> QED  BY <3>1, <3>2
  <2> QED  BY <1>1, <2>2, <2>3
<1>10. LossTolerated'
  BY <1>1 DEF IInv, LossTolerated, shardVars, slotVars, countVars, seenVars
<1> QED  BY <1>4, <1>5, <1>6, <1>7, <1>8, <1>9, <1>10 DEF IInv

\* The commands a snapshot confirms are the oldest of the history, and the loop
\* that drops them ends.
LEMMA ConfirmedFacts ==
  ASSUME TypeOK, Consecutive, NEW s \in snapshots
  PROVE  LET k == Confirmed(s)
         IN  /\ k \in 0 .. Len(input_history)
             /\ \A i \in 1 .. k : input_history[i] <= s.last_input_sequence
             /\ \A i \in k + 1 .. Len(input_history) :
                  input_history[i] > s.last_input_sequence
<1> DEFINE l == Len(input_history)
           q == s.last_input_sequence
           f == next_input_sequence - 1 - l
           Stop(k) == /\ \A i \in 1 .. k : input_history[i] <= q
                      /\ k < l => input_history[k + 1] > q
<1>1. /\ l \in Nat /\ q \in Nat /\ f \in Int
      /\ \A i \in 1 .. l : input_history[i] = f + i
  BY SMTT(30) DEF TypeOK, Consecutive, Paths, Confirmation
<1> HIDE DEF l, q, f
<1>2. \E k \in 0 .. l : Stop(k)
  <2>1. CASE q - f < 0
    BY <1>1, <2>1
  <2>2. CASE q - f \in 0 .. l
    <3>1. Stop(q - f)
      BY <1>1, <2>2
    <3> QED  BY <2>2, <3>1
  <2>3. CASE q - f > l
    BY <1>1, <2>3
  <2> QED  BY <1>1, <2>1, <2>2, <2>3
<1>3. Confirmed(s) \in 0 .. l /\ Stop(Confirmed(s))
  BY <1>2 DEF Confirmed, l, q
<1> QED  BY <1>1, <1>3 DEF l, q

\* A snapshot confirms commands; the client replays the others.
LEMMA Reconcile ==
  ASSUME IInv, NEW s \in snapshots, reconcile(s)
  PROVE  IInv'
<1> USE DEF shardVars, slotVars, countVars, seenVars
<1> DEFINE rest == Unconfirmed(s)
           l == Len(input_history)
           k == Confirmed(s)
<1>1. /\ snapshots' = snapshots \ {s}
      /\ UNCHANGED <<next_input_sequence, shardVars, stage, carried, packets, countVars, seenVars>>
  BY DEF reconcile, clientVars
<1>2. Slot' /\ LastRepeats' /\ Confirming' /\ Windows' /\ LossTolerated'
  BY <1>1 DEF IInv, Slot, LastRepeats, Confirming, Windows, LossTolerated, UpTo, Bounded,
              InOrder, MovedInOrder
<1>3. CASE UNCHANGED clientVars
  BY <1>1, <1>2, <1>3 DEF IInv, TypeOK, Consecutive, Sent, ReplayedOnce, UpTo, MovedInOrder,
                          clientVars
<1>4. CASE /\ last_acknowledged_input' = s.last_input_sequence
           /\ input_history' = rest
           /\ predicted' = s.path \o rest
  <2>1. /\ MaxInputs \in Nat
        /\ input_history \in Seq(1 .. MaxInputs) /\ Len(input_history) <= InputHistory
        /\ next_input_sequence \in Nat
        /\ s.path \in Seq(1 .. MaxInputs) /\ s.last_input_sequence \in 0 .. MaxInputs
    BY PredictionAssumption DEF IInv, TypeOK, Paths, Confirmation
  <2>2. /\ k \in 0 .. l
        /\ \A i \in k + 1 .. l : input_history[i] > s.last_input_sequence
    BY ConfirmedFacts DEF IInv
  <2>3. rest = SubSeq(input_history, k + 1, l)
    BY DEF Unconfirmed
  <2>4. /\ rest \in Seq(1 .. MaxInputs) /\ Len(rest) = l - k
        /\ \A i \in 1 .. l - k : rest[i] = input_history[k + i]
    <3> HIDE DEF k, rest
    <3> QED  BY <2>1, <2>2, <2>3
  <2> HIDE DEF rest, k
  <2>5. l \in Nat /\ k \in Nat /\ DOMAIN rest = 1 .. l - k /\ Len(rest) <= InputHistory
    BY <2>1, <2>2, <2>4, PredictionAssumption
  <2>6. \A i \in DOMAIN rest : /\ rest[i] = next_input_sequence - 1 - Len(rest) + i
                               /\ rest[i] > s.last_input_sequence
    <3>1. \A i \in 1 .. l : input_history[i] = next_input_sequence - 1 - l + i
      BY <2>1 DEF IInv, Consecutive
    <3>2. Len(rest) = l - k
      BY <2>4
    <3>3. ASSUME NEW i \in 1 .. l - k
          PROVE  /\ rest[i] = next_input_sequence - 1 - Len(rest) + i
                 /\ rest[i] > s.last_input_sequence
      <4> HIDE DEF l
      <4>1. rest[i] = input_history[k + i] /\ k + i \in k + 1 .. l /\ k + i \in 1 .. l
        BY <2>4, <2>5
      <4> QED  BY <2>1, <2>2, <2>5, <3>1, <3>2, <4>1
    <3> QED  BY <2>5, <3>3
  <2>7. s.path \o rest \in Seq(1 .. MaxInputs)
    BY <2>1, <2>4
  <2>8. TypeOK'
    BY <1>1, <1>4, <2>1, <2>4, <2>5, <2>7, Zenon DEF IInv, TypeOK, Paths
  <2>9. Consecutive'
    BY <1>1, <1>4, <2>6 DEF Consecutive
  <2>10. (drops = 0 => Sent)'
    <3> SUFFICES ASSUME drops = 0
                 PROVE  Sent'
      BY <1>1
    <3>1. UpTo(s.path, next_input_sequence - 1)
      BY <2>1 DEF IInv, Sent, Confirming, UpTo
    <3>2. UpTo(rest, next_input_sequence - 1)
      BY <2>1, <2>4, <2>6 DEF UpTo
    <3>3. UpTo(s.path \o rest, next_input_sequence - 1)
      BY <2>1, <2>4, <3>1, <3>2, SMTT(30) DEF UpTo
    <3> QED  BY <1>1, <1>4, <3>3 DEF IInv, Sent
  <2>11. ReplayedOnce'
    <3>1. MovedInOrder(s.path) /\ UpTo(s.path, s.last_input_sequence)
      BY DEF IInv, Confirming
    <3>2. \A i, j \in DOMAIN rest : i < j => rest[i] < rest[j]
      BY <2>1, <2>4, <2>6
    <3> DEFINE p == s.path
               q == p \o rest
               m == Len(p)
    <3>3. /\ m \in Nat /\ DOMAIN q = 1 .. m + (l - k) /\ DOMAIN p = 1 .. m
          /\ \A i \in 1 .. m : q[i] = p[i]
          /\ \A i \in m + 1 .. m + (l - k) : q[i] = rest[i - m]
      <4> DEFINE S == 1 .. MaxInputs
      <4>1. p \in Seq(S) /\ rest \in Seq(S) /\ Len(rest) = l - k /\ l - k \in Nat
        BY <2>1, <2>2, <2>4, <2>5
      <4> HIDE DEF p, S
      <4>2. /\ DOMAIN q = 1 .. m + Len(rest) /\ DOMAIN p = 1 .. m
            /\ \A i \in 1 .. m : q[i] = p[i]
            /\ \A i \in m + 1 .. m + Len(rest) : q[i] = rest[i - m]
            /\ m \in Nat
        BY <4>1
      <4> QED  BY <4>1, <4>2
    <3> HIDE DEF q
    <3>4. \A i \in DOMAIN q : q[i] \in Nat
      <4>1. q \in Seq(1 .. MaxInputs)
        BY <2>7 DEF q
      <4> QED  BY <2>1, <4>1
    <3>0. l - k \in Nat
      BY <2>2, <2>5
    <3> HIDE DEF m, l
    <3>5. \A i \in DOMAIN q : i <= m => q[i] <= s.last_input_sequence
      BY <2>5, <3>1, <3>3 DEF UpTo
    <3>6. \A i \in DOMAIN q : i > m => i - m \in DOMAIN rest /\ q[i] = rest[i - m]
      BY <2>5, <3>3
    <3>7. \A i \in DOMAIN q : i > m => q[i] > s.last_input_sequence
      BY <2>6, <3>6
    <3>8. ASSUME NEW i \in DOMAIN q, NEW j \in DOMAIN q, i < j
          PROVE  /\ q[i] <= q[j]
                 /\ j > m => q[i] < q[j]
      <4>1. CASE j <= m
        BY <3>0, <3>1, <3>3, <3>8, <4>1 DEF MovedInOrder
      <4>2. CASE i <= m /\ m < j
        BY <2>1, <3>3, <3>4, <3>5, <3>7, <4>2
      <4>3. CASE m < i /\ m < j
        <5>1. i - m \in DOMAIN rest /\ j - m \in DOMAIN rest /\ i - m < j - m
          BY <2>5, <3>3, <3>6, <3>8, <4>3
        <5> QED  BY <3>2, <3>4, <3>6, <4>3, <5>1
      <4> QED  BY <2>5, <3>3, <3>8, <4>1, <4>2, <4>3
    <3>9. \A j \in DOMAIN q : q[j] \in Range(rest) => j > m
      <4>1. \A i \in DOMAIN rest : rest[i] > s.last_input_sequence
        BY <2>6
      <4>2. \A j \in DOMAIN q : j \in Int /\ q[j] \in Int
        BY <3>0, <3>3, <3>4
      <4>3. s.last_input_sequence \in Int /\ m \in Int
        BY <2>1, <3>3
      <4>4. \A e \in Range(rest) : e > s.last_input_sequence
        BY <4>1 DEF Range
      <4> QED  BY <3>5, <4>2, <4>3, <4>4
    <3> QED  BY <1>1, <1>4, <3>8, <3>9 DEF ReplayedOnce, MovedInOrder, q
  <2> QED  BY <1>2, <2>8, <2>9, <2>10, <2>11 DEF IInv
<1> QED  BY <1>3, <1>4 DEF reconcile

-----------------------------------------------------------------------------
\* The shard

\* What queue_input takes of a packet is newer than everything received.
LEMMA FreshFacts ==
  ASSUME TypeOK, NEW p \in packets
  PROVE  LET h == highest_received_sequence
             a == larger(p.first, h + 1)
         IN  /\ Fresh(p) \in Seq(1 .. MaxInputs)
             /\ InOrder(Fresh(p))
             /\ \A i \in DOMAIN Fresh(p) : h < Fresh(p)[i] /\ Fresh(p)[i] <= p.last
             /\ Range(Fresh(p)) = a .. p.last
             /\ Fresh(p) = <<>> <=> p.last < a
<1> DEFINE a == larger(p.first, highest_received_sequence + 1)
           b == p.last
<1>1. /\ p.first \in 1 .. MaxInputs /\ b \in 1 .. MaxInputs
      /\ highest_received_sequence \in Nat /\ MaxInputs \in Nat
  BY PredictionAssumption DEF TypeOK
<1>2. a \in Nat \ {0} /\ b \in Nat /\ highest_received_sequence < a /\ a .. b \subseteq 1 .. MaxInputs
  BY <1>1 DEF larger
<1>3. Fresh(p) = Run(a, b)
  BY DEF Fresh
<1> HIDE DEF a, b
<1>4. /\ Run(a, b) \in Seq(a .. b)
      /\ Len(Run(a, b)) = IF a <= b THEN b - a + 1 ELSE 0
      /\ \A i \in DOMAIN Run(a, b) : Run(a, b)[i] = a + i - 1
      /\ Range(Run(a, b)) = a .. b
  BY <1>2, RunFacts, Zenon
<1>5. Run(a, b) \in Seq(1 .. MaxInputs) /\ DOMAIN Run(a, b) = 1 .. Len(Run(a, b))
  <2> DEFINE S == a .. b
             T == 1 .. MaxInputs
  <2>1. Run(a, b) \in Seq(S) /\ S \subseteq T
    BY <1>2, <1>4
  <2> HIDE DEF S, T
  <2>2. Run(a, b) \in Seq(T)
    BY <2>1, SeqWidens
  <2> QED  BY <2>1, <2>2 DEF T
<1>6. Run(a, b) = <<>> <=> b < a
  <2>1. Run(a, b) = <<>> <=> Len(Run(a, b)) = 0
    BY <1>4
  <2> QED  BY <1>2, <1>4, <2>1
<1>7. \A i \in DOMAIN Run(a, b) :
        highest_received_sequence < Run(a, b)[i] /\ Run(a, b)[i] <= b
  BY <1>1, <1>2, <1>4, <1>5
<1>8. InOrder(Run(a, b))
  BY <1>2, <1>4, <1>5 DEF InOrder
<1> QED  BY <1>3, <1>4, <1>5, <1>6, <1>7, <1>8 DEF a, b

\* The queue after queue_input: in order, newer than what was applied, in its bound.
LEMMA QueueFacts ==
  ASSUME TypeOK, Slot, NEW p \in packets,
         pending' = Newest(pending \o Fresh(p), MaxQueuedInputs)
  PROVE  /\ pending' \in Seq(1 .. MaxInputs) /\ Len(pending') <= MaxQueuedInputs
         /\ InOrder(pending')
         /\ UpTo(pending', larger(highest_received_sequence, p.last))
         /\ \A j \in DOMAIN pending' : last_applied_sequence < pending'[j]
<1> DEFINE h == highest_received_sequence
           fresh == Fresh(p)
           all == pending \o fresh
           S == 1 .. MaxInputs
<1>1. /\ pending \in Seq(S) /\ h \in Nat /\ MaxQueuedInputs \in Nat /\ MaxInputs \in Nat
      /\ p.last \in Nat /\ last_applied_sequence \in Nat
  BY PredictionAssumption DEF TypeOK, Paths
<1>2. /\ fresh \in Seq(S) /\ InOrder(fresh)
      /\ \A i \in DOMAIN fresh : h < fresh[i] /\ fresh[i] <= p.last
  BY FreshFacts
<1>3. /\ last_applied_sequence <= h /\ UpTo(pending, h) /\ InOrder(pending)
      /\ \A j \in DOMAIN pending : last_applied_sequence < pending[j]
  BY DEF Slot
<1> HIDE DEF h, fresh, S
<1>4. S \subseteq Nat
  BY <1>1 DEF S
<1>5. pending \in Seq(Nat) /\ fresh \in Seq(Nat) /\ all \in Seq(S) /\ all \in Seq(Nat)
  <2>1. pending \in Seq(Nat)
    BY <1>1, <1>4, SeqWidens, Zenon
  <2>2. fresh \in Seq(Nat)
    BY <1>2, <1>4, SeqWidens, Zenon
  <2> QED  BY <1>1, <1>2, <2>1, <2>2
<1>6. InOrder(all)
  BY <1>1, <1>2, <1>3, <1>5, QueuedInOrder
<1>7. \A i \in DOMAIN all : last_applied_sequence < all[i] /\ all[i] <= larger(h, p.last)
  <2>1. \A i \in DOMAIN pending :
          last_applied_sequence < pending[i] /\ pending[i] <= larger(h, p.last)
    BY <1>1, <1>3, <1>5 DEF UpTo, larger
  <2>2. \A i \in DOMAIN fresh :
          last_applied_sequence < fresh[i] /\ fresh[i] <= larger(h, p.last)
    BY <1>1, <1>2, <1>3, <1>5 DEF larger
  <2> QED  BY <1>5, <2>1, <2>2
<1>8. pending' = Newest(all, MaxQueuedInputs)
  BY DEF fresh
<1> HIDE DEF all
<1>9. InOrder(pending')
  BY <1>1, <1>5, <1>6, <1>8, NewestInOrder
<1>10. /\ pending' \in Seq(S)
       /\ Len(pending') = IF Len(all) <= MaxQueuedInputs THEN Len(all) ELSE MaxQueuedInputs
       /\ \A i \in DOMAIN pending' : pending'[i] = all[Len(all) - Len(pending') + i]
  <2>1. all \in Seq(S) /\ MaxQueuedInputs \in Nat
    BY <1>1, <1>5
  <2> HIDE DEF all
  <2> QED  BY <2>1, <1>8, NewestFacts
<1>11. \A i \in DOMAIN pending' : Len(all) - Len(pending') + i \in DOMAIN all
  BY <1>1, <1>5, <1>10
<1>12. Len(pending') <= MaxQueuedInputs
  BY <1>1, <1>5, <1>10
<1>13. \A i \in DOMAIN pending' :
         last_applied_sequence < pending'[i] /\ pending'[i] <= larger(h, p.last)
  BY <1>7, <1>10, <1>11
<1> QED  BY <1>9, <1>10, <1>12, <1>13 DEF UpTo, h, S

\* The shard queues the commands of a packet that are new to it.
LEMMA OnPayload ==
  ASSUME IInv, NEW p \in packets, on_payload(p)
  PROVE  IInv'
<1> DEFINE h == highest_received_sequence
           a == larger(p.first, h + 1)
<1>1. /\ packets' = packets \ {p}
      /\ UNCHANGED <<clientVars, tick, last_applied_sequence, has_applied, path, stage,
                     carried, snapshots, countVars, starved>>
  BY DEF on_payload
<1>2. LastRepeats' /\ Confirming' /\ Windows' /\ Consecutive' /\ ReplayedOnce'
  BY <1>1
  DEF IInv, LastRepeats, Confirming, Windows, Consecutive, ReplayedOnce, UpTo, Bounded,
              MovedInOrder, clientVars, countVars
<1>3. CASE UNCHANGED <<pending, highest_received_sequence, last_input_sequence, seenVars>>
  BY <1>1, <1>2, <1>3
  DEF IInv, TypeOK, Slot, Sent, LossTolerated, UpTo, InOrder, MovedInOrder,
                          clientVars, countVars, seenVars
<1>4. CASE /\ stage = "playing"
           /\ pending' = Newest(pending \o Fresh(p), MaxQueuedInputs)
           /\ highest_received_sequence' = larger(highest_received_sequence, p.last)
           /\ last_input_sequence' = larger(last_input_sequence, p.last)
           /\ queued' = queued \cup Range(Fresh(p))
           /\ heard' = IF Fresh(p) = <<>> THEN heard ELSE heard \cup {p.last}
  <2>1. /\ p.first \in 1 .. MaxInputs /\ p.last \in 1 .. MaxInputs
        /\ p.first = larger(1, p.last - InputRedundancy + 1)
        /\ h \in 0 .. MaxInputs /\ MaxInputs \in Nat /\ InputRedundancy \in Nat \ {0}
        /\ last_applied_sequence \in Nat
        /\ queued \subseteq 1 .. MaxInputs /\ heard \subseteq 1 .. MaxInputs
    BY PredictionAssumption DEF IInv, TypeOK, Windows
  <2>2. /\ pending' \in Seq(1 .. MaxInputs) /\ Len(pending') <= MaxQueuedInputs
        /\ InOrder(pending')
        /\ UpTo(pending', larger(h, p.last))
        /\ \A j \in DOMAIN pending' : last_applied_sequence < pending'[j]
    BY <1>4, QueueFacts DEF IInv
  <2>3. Range(Fresh(p)) = a .. p.last /\ (Fresh(p) = <<>> <=> p.last < a)
    BY FreshFacts DEF IInv
  <2>4. /\ queued' = queued \cup (a .. p.last)
        /\ heard' = IF p.last <= h THEN heard ELSE heard \cup {p.last}
    <3>1. p.last < a <=> p.last <= h
      BY <2>1 DEF larger
    <3> QED  BY <1>4, <2>3, <3>1
  <2>5. TypeOK'
    <3>1. larger(h, p.last) \in 0 .. MaxInputs /\ a .. p.last \subseteq 1 .. MaxInputs
      BY <2>1 DEF larger
    <3>2. last_input_sequence' \in 0 .. MaxInputs
      BY <1>4, <3>1 DEF IInv, Slot
    <3> QED  BY <1>1, <1>4, <2>1, <2>2, <2>4, <3>1, <3>2, Zenon
             DEF IInv, TypeOK, Paths, clientVars, countVars
  <2>6. Slot'
    <3>1. last_applied_sequence <= larger(h, p.last)
      BY <2>1 DEF IInv, Slot, larger
    <3> QED  BY <1>1, <1>4, <2>2, <3>1 DEF IInv, Slot, UpTo, MovedInOrder
  <2>7. (drops = 0 => Sent)'
    <3> SUFFICES ASSUME drops = 0
                 PROVE  Sent'
      BY <1>1 DEF countVars
    <3>1. /\ larger(h, p.last) < next_input_sequence
          /\ larger(h, p.last) # 0 => larger(h, p.last) \in heard'
          /\ \A n \in heard' : n <= larger(h, p.last)
      BY <2>1, <2>4 DEF IInv, Sent, larger
    <3> QED  BY <1>1, <1>4, <3>1 DEF IInv, Sent, UpTo, clientVars
  <2>8. LossTolerated'
    <3> SUFFICES ASSUME drops = 0, h < p.last,
                        NEW n \in 1 .. larger(h, p.last), n \notin queued'
                 PROVE  heard' \cap (n .. n + InputRedundancy - 1) = {}
      BY <1>1, <1>4, <2>1, <2>4, SMTT(30) DEF IInv, LossTolerated, larger, countVars
    <3>1. /\ \A m \in heard : m <= h
          /\ h # 0 => h \in heard
      BY DEF IInv, Sent
    <3>2. CASE n <= h
      <4>1. heard \cap (n .. n + InputRedundancy - 1) = {}
        BY <2>1, <2>4, <3>2 DEF IInv, LossTolerated
      <4>2. n + InputRedundancy - 1 < h
        BY <2>1, <3>1, <3>2, <4>1
      <4> QED  BY <2>1, <2>4, <4>1, <4>2
    <3>3. CASE h < n
      <4>1. n < a /\ p.last = larger(h, p.last)
        BY <2>1, <2>4, <3>3 DEF larger
      <4>2. n + InputRedundancy - 1 < p.last
        BY <2>1, <3>3, <4>1 DEF larger
      <4> QED  BY <2>1, <2>4, <3>1, <3>3, <4>2
    <3> QED  BY <2>1, <3>2, <3>3
  <2> QED  BY <1>2, <2>5, <2>6, <2>7, <2>8 DEF IInv
<1> QED  BY <1>3, <1>4 DEF on_payload

\* The path after World::apply_inputs: the next command, a repeat, or neither.
LEMMA ApplyInputs ==
  ASSUME IInv, apply_inputs, tick' = tick + 1,
         UNCHANGED <<highest_received_sequence, last_input_sequence>>
  PROVE  /\ pending' \in Paths /\ Len(pending') <= MaxQueuedInputs
         /\ path' \in Paths
         /\ last_applied_sequence' \in 0 .. MaxInputs
         /\ has_applied' \in BOOLEAN /\ starved' \in Nat
         /\ Slot' /\ LastRepeats'
<1> DEFINE h == highest_received_sequence
           l == last_applied_sequence
<1>1. /\ MaxInputs \in Nat /\ MaxQueuedInputs \in Nat /\ InputRepeatTicks \in Nat
      /\ tick \in Nat
      /\ h \in 0 .. MaxInputs /\ l \in 0 .. MaxInputs
      /\ pending \in Seq(1 .. MaxInputs) /\ Len(pending) <= MaxQueuedInputs
      /\ path \in Seq(1 .. MaxInputs)
      /\ has_applied \in BOOLEAN /\ starved \in Nat
  BY PredictionAssumption DEF IInv, TypeOK, Paths
<1>2. /\ last_input_sequence = h /\ l <= h /\ UpTo(path, l) /\ UpTo(pending, h)
      /\ \A j \in DOMAIN pending : l < pending[j]
      /\ InOrder(pending) /\ MovedInOrder(path) /\ Bounded(path)
  BY DEF IInv, Slot, LastRepeats
<1>6. path \in Seq(Nat)
  <2>1. 1 .. MaxInputs \subseteq Nat
    BY <1>1
  <2> QED  BY <1>1, <2>1, SeqWidens
<1>3. CASE pending # <<>>
  <2> DEFINE e == Head(pending)
             q == Append(path, e)
  <2>1. /\ path' = q /\ last_applied_sequence' = e /\ has_applied' = TRUE
        /\ pending' = Tail(pending) /\ starved' = 0
    BY <1>3 DEF apply_inputs
  <2>2. /\ e = pending[1] /\ e \in 1 .. MaxInputs /\ 1 \in DOMAIN pending
        /\ pending' \in Seq(1 .. MaxInputs) /\ Len(pending') = Len(pending) - 1
        /\ \A i \in DOMAIN pending' : i + 1 \in DOMAIN pending /\ pending'[i] = pending[i + 1]
    BY <1>1, <1>3, <2>1
  <2>3. l < e /\ e <= h
    BY <1>2, <2>2 DEF UpTo
  <2> HIDE DEF e
  <2>4. /\ DOMAIN pending' \subseteq Nat \ {0} /\ Len(pending) \in Nat
        /\ \A i \in DOMAIN pending' : pending'[i] \in Nat
    <3>1. pending' \in Seq(1 .. MaxInputs) /\ Len(pending) \in Nat
      BY <1>1, <2>2
    <3>2. DOMAIN pending' \subseteq Nat \ {0}
      BY <3>1
    <3>3. \A i \in DOMAIN pending' : pending'[i] \in Nat
      BY <1>1, <3>1
    <3> QED  BY <3>1, <3>2, <3>3
  <2>5. /\ InOrder(pending') /\ UpTo(pending', h)
        /\ \A i \in DOMAIN pending' : e < pending'[i]
    <3>1. InOrder(pending')
      BY <1>2, <2>2, <2>4, SMTT(30) DEF InOrder
    <3>2. UpTo(pending', h)
      BY <1>2, <2>2 DEF UpTo
    <3>3. ASSUME NEW i \in DOMAIN pending'
          PROVE  e < pending'[i]
      BY <1>2, <2>2, <2>4 DEF InOrder
    <3> QED  BY <3>1, <3>2, <3>3
  <2>6. q \in Seq(1 .. MaxInputs)
    BY <1>1, <2>2
  <2>7. /\ UpTo(path, e) /\ \A i \in DOMAIN path : path[i] = e => Len(path) - i < 0
    BY <1>1, <1>2, <2>2, <2>3, SMTT(30) DEF UpTo
  <2>8. /\ UpTo(q, e) /\ MovedInOrder(q) /\ Bounded(q)
        /\ \A i \in DOMAIN q : q[i] = e => Len(q) - i < 0 + 1
    <3>1. path \in Seq(Nat) /\ e \in Nat /\ 0 \in Nat /\ 0 <= InputRepeatTicks
      BY <1>1, <1>6, <2>2
    <3> QED  BY <1>1, <1>2, <2>7, <3>1, AppendMoves, Zenon
  <2>9. Bounded(q)
    BY <2>8
  <2>10. \A i \in DOMAIN q : q[i] = e => Len(q) - i < tick + 1
    <3>1. Len(q) \in Nat /\ DOMAIN q \subseteq Nat
      BY <2>6
    <3> HIDE DEF q
    <3> QED  BY <1>1, <2>8, <3>1
  <2> HIDE DEF q
  <2>11. Slot'
    BY <1>1, <1>2, <2>1, <2>2, <2>3, <2>5, <2>8 DEF Slot
  <2>12. LastRepeats'
    BY <1>1, <2>1, <2>2, <2>9, <2>10 DEF LastRepeats
  <2>13. Len(pending') <= MaxQueuedInputs
    BY <1>1, <2>2, <2>4
  <2> QED  BY <1>1, <2>1, <2>2, <2>6, <2>11, <2>12, <2>13 DEF Paths
<1>4. CASE pending = <<>> /\ ~Repeats
  <2>1. path' = path /\ starved' = starved + 1
        /\ UNCHANGED <<pending, last_applied_sequence, has_applied>>
    BY <1>4 DEF apply_inputs
  <2>2. Slot'
    BY <2>1 DEF IInv, Slot, UpTo, InOrder, MovedInOrder
  <2>3. LastRepeats'
    <3>1. Len(path) \in Nat /\ DOMAIN path \subseteq Nat
      BY <1>1
    <3> QED  BY <1>1, <2>1, <3>1 DEF IInv, LastRepeats, Bounded
  <2> QED  BY <1>1, <2>1, <2>2, <2>3 DEF Paths
<1>5. CASE pending = <<>> /\ Repeats
  <2> DEFINE q == Append(path, l)
  <2>1. /\ path' = q /\ starved' = starved + 1
        /\ UNCHANGED <<pending, last_applied_sequence, has_applied>>
    BY <1>5 DEF apply_inputs
  <2>2. /\ has_applied /\ tick <= InputRepeatTicks /\ 0 < tick /\ 0 < l
        /\ \A i \in DOMAIN path : path[i] = l => Len(path) - i < tick
    BY <1>1, <1>5 DEF IInv, LastRepeats, Repeats, DecodedTick
  <2>3. q \in Seq(1 .. MaxInputs)
    BY <1>1, <2>2
  <2>4. /\ UpTo(q, l) /\ MovedInOrder(q) /\ Bounded(q)
        /\ \A i \in DOMAIN q : q[i] = l => Len(q) - i < tick + 1
    <3>1. l \in Nat
      BY <1>1
    <3> QED  BY <1>1, <1>2, <1>6, <2>2, <3>1, AppendMoves, Zenon
  <2> HIDE DEF q
  <2>7. Slot'
    BY <1>1, <1>2, <2>1, <2>4 DEF Slot, UpTo, InOrder
  <2>8. LastRepeats'
    BY <1>1, <2>1, <2>2, <2>4 DEF LastRepeats
  <2> QED  BY <1>1, <2>1, <2>3, <2>7, <2>8 DEF Paths
<1> QED  BY <1>3, <1>4, <1>5

\* A tick applies the next command, repeats the last one, or coasts.
LEMMA Step ==
  ASSUME IInv, step
  PROVE  IInv'
<1> DEFINE shot == [last_input_sequence |-> last_input_sequence, path |-> path']
<1>1. /\ tick' = tick + 1
      /\ apply_inputs
      /\ snapshots' \subseteq snapshots \cup {shot}
      /\ UNCHANGED <<clientVars, highest_received_sequence, last_input_sequence, stage,
                     carried, packets, countVars, seenVars>>
  BY DEF step
<1>2. /\ pending' \in Paths /\ Len(pending') <= MaxQueuedInputs
      /\ path' \in Paths
      /\ last_applied_sequence' \in 0 .. MaxInputs
      /\ has_applied' \in BOOLEAN /\ starved' \in Nat
      /\ Slot' /\ LastRepeats'
  BY <1>1, ApplyInputs
<1>3. shot \in Confirmation
  BY <1>2 DEF Confirmation, IInv, TypeOK
<1>4. TypeOK'
  BY <1>1, <1>2, <1>3 DEF IInv, TypeOK, clientVars, countVars, seenVars
<1>5. Confirming'
  <2>1. MovedInOrder(path') /\ UpTo(path', last_applied_sequence')
        /\ last_applied_sequence' <= last_input_sequence
    BY <1>1, <1>2 DEF Slot
  <2>2. path' \in Seq(Nat) /\ last_applied_sequence' \in Nat /\ last_input_sequence \in Nat
    <3>1. MaxInputs \in Nat /\ 1 .. MaxInputs \subseteq Nat
      BY PredictionAssumption
    <3> QED  BY <1>2, <3>1, SeqWidens DEF Paths, IInv, TypeOK
  <2>3. UpTo(path', last_input_sequence)
    BY <2>1, <2>2 DEF UpTo
  <2> QED  BY <1>1, <2>1, <2>3 DEF IInv, Confirming
<1>6. Windows' /\ Consecutive' /\ ReplayedOnce' /\ LossTolerated'
  BY <1>1 DEF IInv, Windows, Consecutive, ReplayedOnce, LossTolerated, MovedInOrder,
              clientVars, countVars, seenVars
<1>7. (drops = 0 => Sent)'
  BY <1>1 DEF IInv, Slot, Sent, UpTo, clientVars, countVars, seenVars
<1> QED  BY <1>2, <1>4, <1>5, <1>6, <1>7 DEF IInv

-----------------------------------------------------------------------------
\* Handoff, drop and return

\* The source puts path and numbering into the ticket.
LEMMA CheckMigrations ==
  ASSUME IInv, check_migrations
  PROVE  IInv'
<1> USE DEF clientVars, shardVars, slotVars, netVars, seenVars
<1>1. TypeOK'
  BY DEF IInv, TypeOK, Confirmation, Stages, check_migrations
<1>2. Slot' /\ LastRepeats' /\ Windows' /\ Consecutive' /\ ReplayedOnce' /\ LossTolerated'
  BY DEF IInv, check_migrations, Slot, LastRepeats, Windows, Consecutive, ReplayedOnce,
         LossTolerated, UpTo, Bounded, InOrder, MovedInOrder
<1>3. Confirming'
  <2>1. UpTo(path, last_input_sequence)
    <3>1. /\ path \in Seq(1 .. MaxInputs) /\ MaxInputs \in Nat
          /\ last_applied_sequence \in Nat /\ last_input_sequence \in Nat
      BY PredictionAssumption DEF IInv, TypeOK, Paths
    <3> QED  BY <3>1 DEF IInv, Slot, UpTo
  <2> QED  BY <2>1 DEF IInv, check_migrations, Slot, LastRepeats, Confirming
<1>4. (drops = 0 => Sent)'
  BY DEF IInv, check_migrations, Slot, Sent, UpTo
<1> QED  BY <1>1, <1>2, <1>3, <1>4 DEF IInv

\* The client leaves the source for the destination.
LEMMA ApplyRedirect ==
  ASSUME IInv, apply_redirect
  PROVE  IInv'
<1> USE DEF clientVars, shardVars, slotVars, netVars, countVars, seenVars
<1>1. TypeOK'
  BY PredictionAssumption DEF IInv, TypeOK, Paths, Stages, apply_redirect
<1>2. Slot' /\ LastRepeats' /\ LossTolerated'
  BY DEF IInv, apply_redirect, Slot, LastRepeats, LossTolerated, UpTo, Bounded, InOrder,
         MovedInOrder
<1>3. Confirming' /\ Windows' /\ Consecutive'
  <2>1. Confirming'
    BY DEF IInv, apply_redirect, Confirming, UpTo
  <2>2. Windows'
    BY DEF IInv, apply_redirect, Windows, UpTo, Bounded
  <2>3. Consecutive'
    BY DEF IInv, apply_redirect, Consecutive, UpTo, MovedInOrder
  <2> QED  BY <2>1, <2>2, <2>3
<1>4. (drops = 0 => Sent)'
  BY DEF IInv, apply_redirect, Sent, UpTo
<1>5. ReplayedOnce'
  <2>1. Range(input_history') = {}
    BY DEF apply_redirect, Range
  <2> QED  BY <2>1 DEF IInv, apply_redirect, ReplayedOnce, MovedInOrder
<1> QED  BY <1>1, <1>2, <1>3, <1>4, <1>5 DEF IInv

\* The shard keeps a ghost of a client it has lost.
LEMMA OnDisconnect ==
  ASSUME IInv, on_disconnect
  PROVE  IInv'
<1> USE DEF clientVars, shardVars, slotVars, seenVars
<1>1. TypeOK'
  BY DEF IInv, TypeOK, Confirmation, Stages, on_disconnect
<1>2. Slot' /\ LastRepeats' /\ Confirming' /\ Windows' /\ Consecutive'
  <2>1. Slot' /\ LastRepeats'
    BY DEF IInv, on_disconnect, Slot, LastRepeats, UpTo, Bounded, InOrder, MovedInOrder
  <2>2. Confirming'
    BY DEF IInv, on_disconnect, Slot, LastRepeats, Confirming, UpTo, Bounded, InOrder,
           MovedInOrder
  <2>3. Windows' /\ Consecutive'
    BY DEF IInv, on_disconnect, Windows, Consecutive
  <2> QED  BY <2>1, <2>2, <2>3
<1>3. drops' # 0
  BY DEF IInv, TypeOK, on_disconnect
<1> QED  BY <1>1, <1>2, <1>3 DEF IInv, ReplayedOnce, LossTolerated

\* A new client process numbers from 1.
LEMMA Start ==
  ASSUME IInv, start
  PROVE  IInv'
<1> USE DEF shardVars, slotVars, netVars, countVars, seenVars
<1>1. TypeOK'
  BY PredictionAssumption DEF IInv, TypeOK, Paths, Stages, start
<1>2. Slot' /\ LastRepeats' /\ Confirming' /\ Windows' /\ Consecutive'
  <2>1. Slot' /\ LastRepeats'
    BY DEF IInv, start, Slot, LastRepeats, UpTo, Bounded, InOrder, MovedInOrder
  <2>2. Confirming'
    BY DEF IInv, start, Slot, LastRepeats, Confirming, UpTo, Bounded, InOrder, MovedInOrder
  <2>3. Windows' /\ Consecutive'
    BY DEF IInv, start, Windows, Consecutive
  <2> QED  BY <2>1, <2>2, <2>3
<1>3. drops' # 0
  BY DEF IInv, Sent, start
<1> QED  BY <1>1, <1>2, <1>3 DEF IInv, ReplayedOnce, LossTolerated

\* The shard takes the player over from a ticket or a ghost.
LEMMA OnConnect ==
  ASSUME IInv, on_connect
  PROVE  IInv'
<1> USE DEF clientVars, netVars, countVars, seenVars, adopt_entity
<1>1. /\ carried.path \in Paths /\ carried.last_input_sequence \in 0 .. MaxInputs
      /\ MovedInOrder(carried.path) /\ Bounded(carried.path)
      /\ UpTo(carried.path, carried.last_input_sequence)
  BY DEF IInv, TypeOK, Confirmation, Confirming
<1>2. TypeOK'
  <2>1. pending' \in Paths /\ Len(pending') <= MaxQueuedInputs /\ tick' \in Nat
    BY PredictionAssumption DEF Paths, on_connect
  <2> QED  BY <1>1, <2>1, Zenon DEF IInv, TypeOK, Stages, on_connect
<1>3. Slot'
  <2>1. carried.last_input_sequence <= carried.last_input_sequence
    BY <1>1, PredictionAssumption
  <2> QED  BY <1>1, <2>1, SMTT(30) DEF on_connect, Slot, UpTo, InOrder
<1>4. LastRepeats'
  BY <1>1 DEF on_connect, LastRepeats
<1>5. Confirming' /\ Windows' /\ Consecutive' /\ ReplayedOnce'
  BY Zenon
  DEF IInv, on_connect, Confirming, Windows, Consecutive, ReplayedOnce, UpTo, Bounded,
         MovedInOrder
<1>6. (drops = 0 => Sent)' /\ LossTolerated'
  BY DEF IInv, on_connect, Sent, LossTolerated, UpTo
<1> QED  BY <1>2, <1>3, <1>4, <1>5, <1>6 DEF IInv

-----------------------------------------------------------------------------
\* The invariant holds before the first command.
LEMMA InitIInv == Init => IInv
<1> SUFFICES ASSUME Init
             PROVE  IInv
  OBVIOUS
<1>1. TypeOK
  <2>1. /\ <<>> \in Paths /\ Len(<<>>) = 0 /\ tick \in Nat
        /\ InputHistory \in Nat /\ MaxQueuedInputs \in Nat /\ MaxInputs \in Nat
    BY PredictionAssumption DEF Init, Paths
  <2>2. Nowhere \in Confirmation
    BY <2>1 DEF Nowhere, Confirmation
  <2>3. /\ input_history \in Paths /\ Len(input_history) <= InputHistory
        /\ pending \in Paths /\ Len(pending) <= MaxQueuedInputs
        /\ predicted \in Paths /\ path \in Paths
    BY <2>1 DEF Init
  <2>4. next_input_sequence \in 1 .. MaxInputs + 1 /\ 0 \in 0 .. MaxInputs
    BY <2>1 DEF Init
  <2>5. carried \in Confirmation /\ packets = {} /\ snapshots = {} /\ queued = {} /\ heard = {}
    BY <2>2 DEF Init
  <2> QED  BY <2>1, <2>3, <2>4, <2>5, Zenon DEF Init, TypeOK, Stages
<1>2. Slot /\ LastRepeats /\ Confirming /\ Windows /\ Consecutive
  BY PredictionAssumption DEF Init, Slot, LastRepeats, Confirming, Windows, Consecutive,
     Nowhere, UpTo, Bounded, InOrder, MovedInOrder
<1>3. (drops = 0 => Sent) /\ ReplayedOnce /\ LossTolerated
  BY DEF Init, Sent, ReplayedOnce, LossTolerated, Nowhere, UpTo, MovedInOrder
<1> QED  BY <1>1, <1>2, <1>3 DEF IInv

\* Every step keeps it: one case per action.
LEMMA StepIInv == IInv /\ [Next]_vars => IInv'
<1> SUFFICES ASSUME IInv, [Next]_vars
             PROVE  IInv'
  OBVIOUS
<1>1. CASE send_input
  BY <1>1, SendInput
<1>2. CASE \E s \in snapshots : reconcile(s)
  BY <1>2, Reconcile
<1>3. CASE \E p \in packets : on_payload(p)
  BY <1>3, OnPayload
<1>4. CASE step
  BY <1>4, Step
<1>5. CASE check_migrations
  BY <1>5, CheckMigrations
<1>6. CASE apply_redirect
  BY <1>6, ApplyRedirect
<1>7. CASE on_disconnect
  BY <1>7, OnDisconnect
<1>8. CASE start
  BY <1>8, Start
<1>9. CASE on_connect
  BY <1>9, OnConnect
<1>10. CASE UNCHANGED vars
  <2> USE <1>10 DEF vars, clientVars, shardVars, slotVars, netVars, countVars, seenVars
  <2>1. TypeOK'
    BY DEF IInv, TypeOK
  <2>2. Slot' /\ LastRepeats' /\ Confirming' /\ Windows' /\ Consecutive'
    BY
    DEF IInv, Slot, LastRepeats, Confirming, Windows, Consecutive, UpTo, Bounded, InOrder,
           MovedInOrder
  <2>3. (drops = 0 => Sent)' /\ ReplayedOnce' /\ LossTolerated'
    BY DEF IInv, Sent, ReplayedOnce, LossTolerated, UpTo, MovedInOrder
  <2> QED  BY <2>1, <2>2, <2>3 DEF IInv
<1> QED  BY <1>1, <1>2, <1>3, <1>4, <1>5, <1>6, <1>7, <1>8, <1>9, <1>10 DEF Next

\* So it holds throughout.
LEMMA Inductive == Spec => []IInv
  BY InitIInv, StepIInv, PTL DEF Spec

-----------------------------------------------------------------------------
\* The deques of the client and of the shard keep their bounds, and every path, in
\* the world, in a ticket or a ghost, in a snapshot and in the prediction, consists
\* of commands the client gave.
THEOREM TypeCorrect == Spec => []TypeOK
<1>1. IInv => TypeOK
  BY DEF IInv
<1> QED  BY <1>1, Inductive, PTL

\* World::queue_input and World::apply_inputs take a command once and in order,
\* however often it is sent, late or reordered, and over handoffs and returns.
THEOREM CommandsAppliedOnce == Spec => []AppliedOnce
<1>1. IInv => AppliedOnce
  <2> SUFFICES ASSUME IInv
               PROVE  \A i \in DOMAIN path, j \in DOMAIN pending : path[i] < pending[j]
    BY DEF IInv, Slot, AppliedOnce
  <2>1. /\ path \in Seq(1 .. MaxInputs) /\ pending \in Seq(1 .. MaxInputs)
        /\ MaxInputs \in Nat /\ last_applied_sequence \in Nat
    BY PredictionAssumption DEF IInv, TypeOK, Paths
  <2> QED  BY <2>1 DEF IInv, Slot, UpTo
<1> QED  BY <1>1, Inductive, PTL

\* ClientView::reconcile replays on an adopted snapshot only commands that are not
\* in it: a client that has not been restarted predicts no command twice.
THEOREM CommandsReplayedOnce == Spec => []ReplayedOnce
<1>1. IInv => ReplayedOnce
  BY DEF IInv
<1> QED  BY <1>1, Inductive, PTL

\* encode_input_packet repeats the commands before the newest: one that never
\* reached the queue was in none of the packets that were the newest on arrival.
THEOREM RedundancyHelps == Spec => []LossTolerated
<1>1. IInv => LossTolerated
  BY DEF IInv
<1> QED  BY <1>1, Inductive, PTL

\* World::apply_inputs repeats a command no more than kInputRepeatTicks times.
THEOREM RepeatsAreBounded == Spec => []RepeatsEnd
<1>1. IInv => RepeatsEnd
  BY DEF IInv, LastRepeats, Bounded, RepeatsEnd
<1> QED  BY <1>1, Inductive, PTL

=============================================================================
