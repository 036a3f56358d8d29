---------------------------- MODULE PresenceStore ----------------------------
(***************************************************************************)
(* What Redis holds about one player and about the shards: the presence    *)
(* record and the two Lua scripts that change it conditionally             *)
(* (cluster/presence.cpp), and the region map every process derives from a *)
(* list of live shards (sim/region.h).  Shard ids are numbers, so that     *)
(* sorting the ids is the order of the numbers.                            *)
(***************************************************************************)
EXTENDS Naturals, FiniteSets

CONSTANTS Shards,       \* shard ids, a finite set of numbers
          RegionCount,  \* region_count()
          None          \* no record, no owner, nothing pending

Regions == 0 .. RegionCount - 1

\* A token is nonzero; a record written by a transfer alone has no session.
NoSession == 0

PresenceRecord == [shard : Shards, region : Regions, session : Nat]

ASSUME PresenceAssumption == /\ IsFiniteSet(Shards) /\ Shards \subseteq Nat
                             /\ RegionCount \in Nat \ {0}
                             /\ None \notin Shards \cup PresenceRecord

\* set_presence overwrites the record, whatever it says.
set_presence(shard, region, session) ==
  [shard |-> shard, region |-> region, session |-> session]

-----------------------------------------------------------------------------
(* kTransferScript: the record moves only while it still names the source;  *)
(* an absent record passes.                                                 *)
transfer_takes(presence, from) == presence # None => presence.shard = from

transferred(presence, to, region) ==
  [shard |-> to, region |-> region,
   session |-> IF presence = None THEN NoSession ELSE presence.session]

\* kClaimScript: a record that names another shard wins over the claim.
claim_takes(presence, shard) == presence # None => presence.shard = shard

-----------------------------------------------------------------------------
\* The shard at position i (from 0) of the sorted list of ids.
Sorted(ids, i) == CHOOSE s \in ids : Cardinality({t \in ids : t < s}) = i

assign_regions(ids) ==
  [r \in Regions |-> IF ids = {} THEN None ELSE Sorted(ids, r % Cardinality(ids))]

\* The matchmaker's placement: the chosen shard's first region, or region 0
\* when there are fewer regions than shards and it has none.
first_region(ids, shard) ==
  LET owned == {r \in Regions : assign_regions(ids)[r] = shard}
  IN  IF owned = {} THEN 0 ELSE CHOOSE r \in owned : \A q \in owned : r <= q
=============================================================================
