----------------------------- MODULE Membership -----------------------------
(***************************************************************************)
(* Shard membership and region ownership: ClusterRegistry's registrations  *)
(* in Redis (cluster/presence.cpp) and the refresh every shard derives its *)
(* region map from (cluster/shard.cpp).  Nothing is elected: a shard is a  *)
(* member while its hash has not expired, and whoever lists the members    *)
(* prunes the ones whose hash has.  Redis executes the commands of all     *)
(* processes in any order, and those of a pipeline whose sender has given  *)
(* up waiting, or has died, at any later time or never.                    *)
(*                                                                         *)
(* Time passes in intervals, each long enough for a refresh to begin and   *)
(* to end in it.  Nothing makes one do so: an interval passes whatever the *)
(* processes are in the middle of.                                         *)
(***************************************************************************)
EXTENDS PresenceStore

CONSTANTS Matchmaker,  \* the matchmaker, which lists and prunes too
          HeartbeatTtl, \* heartbeat_ttl_ms in intervals
          MaxFaults,   \* bound on crashes, stops, starts, failed heartbeats and
                       \* intervals that pass in the middle of something
          SettleTime,  \* intervals after which the shards must agree
          SteadyTime   \* intervals after which a shard must be known to all

\* A hash outlives the interval it was written in (heartbeat_ttl_ms is 4000,
\* refresh_interval_ms 1000).
ASSUME MembershipAssumption ==
  /\ HeartbeatTtl \in Nat \ {0, 1}
  /\ Matchmaker \notin Shards
  /\ MaxFaults \in Nat
  /\ SteadyTime \in Nat \ {0, 1, 2}
  /\ SettleTime \in Nat /\ SettleTime >= HeartbeatTtl /\ SettleTime >= SteadyTime

VARIABLES
  members,    \* the set of shard ids
  expires,    \* intervals a shard's hash has left, 0 when there is none
  late,       \* commands on their way that nobody waits for
  up,         \* shard processes running
  doing,      \* what each process is in the middle of
  ids,        \* live_shards: ids not looked up yet
  live,       \* live_shards: ids found alive
  dead,       \* live_shards: ids to prune
  known,      \* ShardCoordinator::members_
  faults,     \* faults so far: what MaxFaults bounds
  begun,      \* history: shards that began a refresh in this interval
  refreshed,  \* history: shards that began and completed one
  steady      \* history: intervals each shard has been steadily up, or down

registry == <<members, expires>>
listing == <<ids, live, dead>>
refresh == <<begun, refreshed>>
history == <<faults, steady>>
vars == <<registry, late, up, doing, listing, known, refresh, history>>

Processes == Shards \cup {Matchmaker}
Commands == {"HSET", "SADD", "DEL", "SREM"} \X Shards
Running(p) == p \in up \cup {Matchmaker}

\* Redis may hold what shards that ended earlier left there.
Init ==
  /\ members \in SUBSET Shards
  /\ expires \in [Shards -> 0 .. HeartbeatTtl]
  /\ late = {}
  /\ up \in SUBSET Shards
  /\ doing = [p \in Processes |-> "nothing"]
  /\ ids = [p \in Processes |-> {}]
  /\ live = [p \in Processes |-> {}]
  /\ dead = [p \in Processes |-> {}]
  /\ known = [s \in Shards |-> {}]
  /\ begun = {}
  /\ refreshed = {}
  /\ faults = 0
  /\ steady = [s \in Shards |-> 0]

-----------------------------------------------------------------------------
(* What Redis executes.  HSET stands for the HSET and PEXPIRE of a heartbeat,*)
(* next to each other in one pipeline.                                       *)

HSET(s) == expires' = [expires EXCEPT ![s] = HeartbeatTtl] /\ UNCHANGED members
SADD(s) == members' = members \cup {s} /\ UNCHANGED expires
DEL(s) == expires' = [expires EXCEPT ![s] = 0] /\ UNCHANGED members
SREM(s) == members' = members \ {s} /\ UNCHANGED expires

\* A command nobody waits for is executed, perhaps not for the last time: both
\* attempts of a flush send it.
executes(s) ==
  /\ \/ <<"HSET", s>> \in late /\ HSET(s) /\ late' \in {late, late \ {<<"HSET", s>>}}
     \/ <<"SADD", s>> \in late /\ SADD(s) /\ late' \in {late, late \ {<<"SADD", s>>}}
     \/ <<"DEL", s>> \in late /\ DEL(s) /\ late' \in {late, late \ {<<"DEL", s>>}}
     \/ <<"SREM", s>> \in late /\ SREM(s) /\ late' \in {late, late \ {<<"SREM", s>>}}
  /\ UNCHANGED <<up, doing, listing, known, refresh, history>>

\* Or it is lost with its connection.
lost(c) ==
  /\ c \in late
  /\ late' = late \ {c}
  /\ UNCHANGED <<registry, up, doing, listing, known, refresh, history>>

-----------------------------------------------------------------------------
Fault == faults < MaxFaults /\ faults' = faults + 1

\* refresh, at most one an interval, begins with heartbeat_shard: HSET of the hash,
\* then SADD of the id.
heartbeat_hash(s) ==
  /\ s \in up \ begun /\ doing[s] = "nothing"
  /\ doing' = [doing EXCEPT ![s] = "heartbeat"]
  /\ HSET(s)
  /\ begun' = begun \cup {s}
  /\ UNCHANGED <<late, up, listing, known, refreshed, history>>

\* A heartbeat that adds the id only the first time.
heartbeat_member_once(s) ==
  /\ doing[s] = "heartbeat"
  /\ doing' = [doing EXCEPT ![s] = "listing"]
  /\ IF steady[s] = 0 THEN SADD(s) ELSE UNCHANGED registry
  /\ UNCHANGED <<late, up, listing, known, refresh, history>>

heartbeat_member(s) ==
  /\ doing[s] = "heartbeat"
  /\ doing' = [doing EXCEPT ![s] = "listing"]
  /\ SADD(s)
  /\ UNCHANGED <<late, up, listing, known, refresh, history>>

\* An attempt to flush fails with the commands sent: flush tries once more, or
\* refresh returns.
heartbeat_fails(s) ==
  /\ \/ s \in up \ begun /\ doing[s] = "nothing"
     \/ doing[s] = "heartbeat"
  /\ doing' = [doing EXCEPT ![s] = "nothing"]
  /\ begun' = begun \ {s}
  /\ late' = late \cup {<<"HSET", s>>, <<"SADD", s>>}
  /\ Fault
  /\ UNCHANGED <<registry, up, listing, known, refreshed, steady>>

\* live_shards: SMEMBERS, an HGETALL for every id, then the prune.
live_shards(p) ==
  /\ IF p = Matchmaker THEN doing[p] = "nothing" ELSE doing[p] = "listing"
  /\ doing' = [doing EXCEPT ![p] = "reading"]
  /\ ids' = [ids EXCEPT ![p] = members]
  /\ UNCHANGED <<registry, late, up, live, dead, known, refresh, history>>

read_hash(p, s) ==
  /\ doing[p] = "reading" /\ s \in ids[p]
  /\ ids' = [ids EXCEPT ![p] = @ \ {s}]
  /\ IF expires[s] > 0
     THEN live' = [live EXCEPT ![p] = @ \cup {s}] /\ UNCHANGED dead
     ELSE dead' = [dead EXCEPT ![p] = @ \cup {s}] /\ UNCHANGED live
  /\ UNCHANGED <<registry, late, up, doing, known, refresh, history>>

\* SMEMBERS or the HGETALLs fail: no list, and no prune.
listing_fails(p) ==
  /\ doing[p] \in {"listing", "reading"}
  /\ doing' = [doing EXCEPT ![p] = "nothing"]
  /\ ids' = [ids EXCEPT ![p] = {}]
  /\ live' = [live EXCEPT ![p] = {}]
  /\ dead' = [dead EXCEPT ![p] = {}]
  /\ UNCHANGED <<registry, late, up, known, refresh, history>>

\* The prune is sent.  Whether its flush succeeds is not looked at, so the rest of
\* the refresh may come before the SREMs are executed, as well as after.
prune(p) ==
  /\ doing[p] = "reading" /\ ids[p] = {} /\ dead[p] # {}
  /\ late' = late \cup {<<"SREM", s>> : s \in dead[p]}
  /\ dead' = [dead EXCEPT ![p] = {}]
  /\ UNCHANGED <<registry, up, doing, ids, live, known, refresh, history>>

\* A shard that adds what it finds to what it knew.
learned_union(s) ==
  known[s] \cup live[s]

\* An empty list is an error and leaves the members as they were.
learned(s) ==
  IF live[s] = {} THEN known[s] ELSE live[s]

\* The end of refresh: the new members and the region map that follows from them.
listed(p) ==
  /\ doing[p] = "reading" /\ ids[p] = {} /\ dead[p] = {}
  /\ doing' = [doing EXCEPT ![p] = "nothing"]
  /\ live' = [live EXCEPT ![p] = {}]
  /\ known' = IF p = Matchmaker THEN known ELSE [known EXCEPT ![p] = learned(p)]
  /\ refreshed' = IF p \in begun THEN refreshed \cup {p} ELSE refreshed
  /\ UNCHANGED <<registry, late, up, ids, dead, begun, history>>

\* recompute_ownership; no code sets draining.
region_owner(s) == assign_regions(known[s])

-----------------------------------------------------------------------------
\* The process and all it knows are gone.
Ends(s) ==
  /\ Fault /\ s \in up
  /\ up' = up \ {s}
  /\ doing' = [doing EXCEPT ![s] = "nothing"]
  /\ ids' = [ids EXCEPT ![s] = {}]
  /\ live' = [live EXCEPT ![s] = {}]
  /\ dead' = [dead EXCEPT ![s] = {}]
  /\ known' = [known EXCEPT ![s] = {}]
  /\ begun' = begun \ {s}
  /\ refreshed' = refreshed \ {s}
  /\ steady' = [steady EXCEPT ![s] = 0]
  /\ UNCHANGED registry

\* The process dies wherever it is.
crash(s) == Ends(s) /\ UNCHANGED late

\* ShardCoordinator::stop sends the DEL and SREM of remove_shard; the process ends
\* whether they have been executed or not.
stop(s) ==
  /\ doing[s] = "nothing" /\ Ends(s)
  /\ late' = late \cup {<<"DEL", s>>, <<"SREM", s>>}

\* ShardCoordinator::start, which begins a refresh at once.
start(s) ==
  /\ Fault /\ s \notin up
  /\ up' = up \cup {s}
  /\ steady' = [steady EXCEPT ![s] = 0]
  /\ UNCHANGED <<registry, late, doing, listing, known, refresh>>

\* A command that takes the registration of s away is on its way, or about to be.
Threatened(s) ==
  \/ {<<"DEL", s>>, <<"SREM", s>>} \cap late # {}
  \/ \E p \in Processes : s \in dead[p]

\* In this interval s has refreshed and is not threatened; or it is down and not
\* about to be registered.
Settled(s) ==
  IF s \in up THEN s \in refreshed /\ ~Threatened(s) ELSE <<"HSET", s>> \notin late

\* Everybody is done with the interval.
Punctual == refreshed = up /\ late = {} /\ \A p \in Processes : doing[p] = "nothing"

\* An interval passes, whatever anybody is in the middle of.
pass ==
  /\ IF Punctual THEN UNCHANGED faults ELSE Fault
  /\ begun' = {} /\ refreshed' = {}
  /\ expires' = [s \in Shards |-> IF expires[s] = 0 THEN 0 ELSE expires[s] - 1]
  /\ steady' = [s \in Shards |-> IF ~Settled(s) THEN 0
                                 ELSE IF steady[s] < SettleTime THEN steady[s] + 1
                                 ELSE steady[s]]
  /\ UNCHANGED <<members, late, up, doing, listing, known>>

Next ==
  \/ \E s \in Shards : executes(s)
  \/ \E c \in Commands : lost(c)
  \/ \E s \in Shards : heartbeat_hash(s) \/ heartbeat_member(s) \/ heartbeat_fails(s)
  \/ \E p \in Processes : live_shards(p) \/ listing_fails(p) \/ prune(p) \/ listed(p)
  \/ \E p \in Processes, s \in Shards : read_hash(p, s)
  \/ \E s \in Shards : crash(s) \/ stop(s) \/ start(s)
  \/ pass

Spec == Init /\ [][Next]_vars

-----------------------------------------------------------------------------
\* Properties

\* Everything read from the registry is a shard, and only running processes read.
TypeOK ==
  /\ members \subseteq Shards
  /\ expires \in [Shards -> 0 .. HeartbeatTtl]
  /\ late \subseteq Commands
  /\ up \subseteq Shards
  /\ doing \in [Processes -> {"nothing", "heartbeat", "listing", "reading"}]
  /\ \A p \in Processes : doing[p] # "nothing" => Running(p)
  /\ ids \in [Processes -> SUBSET Shards]
  /\ live \in [Processes -> SUBSET Shards]
  /\ dead \in [Processes -> SUBSET Shards]
  /\ known \in [Shards -> SUBSET Shards]
  /\ begun \subseteq up /\ refreshed \subseteq begun

\* shard.h: "all of them agree without a consensus round, and a dead shard's
\* regions are simply reassigned by the next refresh".  Once every shard has for
\* SettleTime intervals been steadily up or steadily down, all that have refreshed
\* since have the same owner for each region, and the owner is running.
OwnersAgree ==
  (\A s \in Shards : steady[s] = SettleTime) =>
    \A s, t \in refreshed, r \in Regions :
      /\ region_owner(s)[r] = region_owner(t)[r]
      /\ region_owner(s)[r] \in up

\* A shard that refreshes in every interval stays known to every shard that does,
\* whoever crashes, restarts, lists or prunes in the meantime, from SteadyTime
\* intervals after the last time a prune or removal decided on earlier was still on
\* its way to take its id away: the regions it owns change for no other reason.
SteadyKnown ==
  \A s, t \in up :
    steady[s] >= SteadyTime /\ t \in refreshed => s \in known[t]

=============================================================================
