----------------------------- MODULE Histogram -----------------------------
(* The lock-free histogram of src/metrics/histogram.h and registry.cpp:     *)
(* threads record samples with relaxed atomic operations while one thread   *)
(* exposes it, an atomic load at a time.                                    *)
(*                                                                          *)
(* A sample is a natural number, the growth factor 2 and the first bound 1. *)
(* A quantile is the bucket it is interpolated in.                          *)
EXTENDS Integers, Sequences, FiniteSetsExt

CONSTANTS Recorders,     \* threads that record
          BucketCount,   \* kBucketCount
          NoMinimum      \* kNoMinimum, above every sample

ASSUME HistogramAssumption == {BucketCount, NoMinimum} \subseteq Nat \ {0}

VARIABLES buckets, count, sum, max, min,
          value,         \* per recorder, the argument of record
          todo,          \* per recorder, the operations of record to come
          loaded,        \* per recorder and cell, what the compare-exchange expects
          reader,        \* the local variables of expose and quantile
          relaxed,       \* whether the hardware reorders relaxed operations
          recorded       \* history: the samples handed to record, as a bag

cells == <<buckets, count, sum, max, min>>
recorderVars == <<value, todo, loaded, recorded>>
histogramVars == <<cells, recorderVars, reader, relaxed>>

Index == 0 .. BucketCount - 1
Swapped == {"sum", "max", "min"}
Order == <<"bucket", "count", "sum", "max", "min">>
Operations == {Order[i] : i \in DOMAIN Order}
Nothing == -1
Quantiles == <<50, 95, 99>>

\* kFirstBound * kGrowthFactor ^ index
bucket_upper_bound(i) == 2 ^ i

\* The logarithm rounded down, plus one: a sample on a bound goes above it.
bucket_of(v) ==
  IF v <= 1 THEN 0
  ELSE Min({BucketCount - 1, 1 + Max({i \in 0 .. v : bucket_upper_bound(i) <= v})})

Idle == [at |-> "idle", i |-> 0, cumulative |-> 0, total |-> 0, found |-> <<>>]

HistogramInit ==
  /\ buckets = [i \in Index |-> 0] /\ count = 0 /\ sum = 0 /\ max = 0 /\ min = NoMinimum
  /\ value = [t \in Recorders |-> 0] /\ todo = [t \in Recorders |-> {}]
  /\ loaded = [t \in Recorders |-> [c \in Swapped |-> Nothing]]
  /\ reader = Idle
  /\ recorded = [v \in 0 .. NoMinimum - 1 |-> 0]

-----------------------------------------------------------------------------
(* record.                                                                  *)

record(t, v) ==
  /\ todo[t] = {}
  /\ value' = [value EXCEPT ![t] = v] /\ todo' = [todo EXCEPT ![t] = Operations]
  /\ recorded' = [recorded EXCEPT ![v] = @ + 1]
  /\ UNCHANGED <<cells, loaded, reader, relaxed>>

Earlier(op) == {Order[i] : i \in {j \in DOMAIN Order : \E k \in DOMAIN Order : Order[k] = op /\ j < k}}

\* Mutant: the sample is counted before it is in its bucket.
Ready_swapped(t, op) ==
  /\ op \in todo[t]
  /\ \/ relaxed \/ op = "count"
     \/ todo[t] \cap (Earlier(op) \cup {"count"}) = {}

\* The operations of record are on different atomics: in order, or relaxed in any.
Ready(t, op) == op \in todo[t] /\ (relaxed \/ todo[t] \cap Earlier(op) = {})

Done(t, op) == todo' = [todo EXCEPT ![t] = @ \ {op}]

count_sample(t) ==
  /\ \/ /\ Ready(t, "bucket") /\ Done(t, "bucket")
        /\ buckets' = [buckets EXCEPT ![bucket_of(value[t])] = @ + 1] /\ UNCHANGED count
     \/ /\ Ready(t, "count") /\ Done(t, "count")
        /\ count' = count + 1 /\ UNCHANGED buckets
  /\ UNCHANGED <<sum, max, min, value, loaded, recorded, reader, relaxed>>

Cell(c) == CASE c = "sum" -> sum [] c = "max" -> max [] c = "min" -> min

load(t, c) ==
  /\ Ready(t, c) /\ loaded[t][c] = Nothing
  /\ loaded' = [loaded EXCEPT ![t][c] = Cell(c)]
  /\ UNCHANGED <<cells, value, todo, recorded, reader, relaxed>>

\* The loops of max and min end without an exchange when there is nothing to gain.
Wanted(t, c) ==
  CASE c = "sum" -> TRUE
    [] c = "max" -> value[t] > loaded[t][c]
    [] c = "min" -> value[t] < loaded[t][c]

\* Mutant: a plain store instead of compare_exchange_weak.
Exchanged_blindly(t, c) == TRUE

\* compare_exchange_weak succeeds if the cell is as it was loaded.
Exchanged(t, c) == Cell(c) = loaded[t][c]

compare_exchange(t, c) ==
  /\ Ready(t, c) /\ loaded[t][c] # Nothing
  /\ LET new == IF c = "sum" THEN loaded[t][c] + value[t] ELSE value[t]
         put == Wanted(t, c) /\ Exchanged(t, c)
     IN  /\ sum' = IF put /\ c = "sum" THEN new ELSE sum
         /\ max' = IF put /\ c = "max" THEN new ELSE max
         /\ min' = IF put /\ c = "min" THEN new ELSE min
         /\ IF put \/ ~Wanted(t, c)
            THEN loaded' = [loaded EXCEPT ![t][c] = Nothing] /\ Done(t, c)
            ELSE loaded' = [loaded EXCEPT ![t][c] = Cell(c)] /\ UNCHANGED todo
  /\ UNCHANGED <<buckets, count, value, recorded, reader, relaxed>>

Record(t) == count_sample(t) \/ \E c \in Swapped : load(t, c) \/ compare_exchange(t, c)

-----------------------------------------------------------------------------
(* expose: the buckets, the count and the sum, then three quantiles.        *)

expose ==
  /\ reader.at = "idle"
  /\ reader' = [Idle EXCEPT !.at = "buckets"]
  /\ UNCHANGED <<cells, recorderVars, relaxed>>

\* The lines of the buckets, le="+Inf", _sum and _count.
expose_cells ==
  /\ \/ /\ reader.at = "buckets"
        /\ reader' = [reader EXCEPT !.i = @ + 1, !.cumulative = @ + buckets[reader.i],
                                    !.at = IF reader.i + 1 = BucketCount THEN "inf" ELSE @]
     \/ reader.at = "inf" /\ reader' = [reader EXCEPT !.at = "quantile"]
  /\ UNCHANGED <<cells, recorderVars, relaxed>>

Answer(i) ==
  [reader EXCEPT !.found = Append(@, i), !.i = 0, !.cumulative = 0,
                 !.at = IF Len(reader.found) + 1 = Len(Quantiles) THEN "idle" ELSE "quantile"]

\* quantile loads count first; with nothing counted it answers 0.
quantile ==
  /\ reader.at = "quantile"
  /\ reader' = IF count = 0 THEN Answer(Nothing)
               ELSE [reader EXCEPT !.at = "scan", !.i = 0, !.cumulative = 0, !.total = count]
  /\ UNCHANGED <<cells, recorderVars, relaxed>>

\* The first bucket up to which there are q percent of the total; none, and the
\* answer is the last bound.
quantile_scan ==
  /\ reader.at = "scan"
  /\ LET bucket == buckets[reader.i]
         q == Quantiles[Len(reader.found) + 1]
     IN  reader' = IF bucket # 0 /\ 100 * (reader.cumulative + bucket) >= q * reader.total
                   THEN Answer(reader.i)
                   ELSE IF reader.i + 1 = BucketCount THEN Answer(BucketCount - 1)
                   ELSE [reader EXCEPT !.i = @ + 1, !.cumulative = @ + bucket]
  /\ UNCHANGED <<cells, recorderVars, relaxed>>

Expose == expose_cells \/ quantile \/ quantile_scan

-----------------------------------------------------------------------------
Samples == {v \in DOMAIN recorded : recorded[v] > 0}

\* test_metrics.cpp: "concurrent_recording_loses_no_samples".  When no call of
\* record is under way the cells are those of the samples recorded one by one,
\* however the calls overlapped and the hardware ordered them.
NoSampleLost ==
  (\A t \in Recorders : todo[t] = {}) =>
    /\ count = MapThenSumSet(LAMBDA v : recorded[v], Samples)
    /\ sum = MapThenSumSet(LAMBDA v : v * recorded[v], Samples)
    /\ \A i \in Index :
         buckets[i] = MapThenSumSet(LAMBDA v : recorded[v], {v \in Samples : bucket_of(v) = i})
    /\ Samples # {} => max = Max(Samples) /\ min = Min(Samples)

\* A quantile exposed while samples are recorded falls in the bucket of one of
\* them, if the operations take effect in order: quantile loads the count before
\* the buckets, and record counts a sample after it is in its bucket.
QuantileIsSampled ==
  ~relaxed => \A i \in DOMAIN reader.found :
    reader.found[i] = Nothing \/ \E v \in Samples : bucket_of(v) = reader.found[i]

\* registry.cpp writes le="+Inf" from the count, and test_metrics.cpp expects no
\* line below the one before.  The code does not have it while it records:
\* README.md, Divergences.
InfIsLast == reader.at = "inf" => reader.cumulative <= count

=============================================================================
