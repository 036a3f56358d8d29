-------------------------- MODULE MembershipProofs --------------------------
(***************************************************************************)
(* Proofs about Membership for any number of shards and regions, any time  *)
(* to live of two intervals or more, and any number of crashes, starts,    *)
(* failures, and intervals that refreshes, listings and belated commands   *)
(* reach across: the shards come to agree on the owner of every region.    *)
(***************************************************************************)
EXTENDS Membership, FiniteSetTheorems, WellFoundedInduction, TLAPS

-----------------------------------------------------------------------------
(* The inductive invariant.                                                 *)

Counts ==
  steady \in [Shards -> 0 .. SettleTime]

\* Lists are empty but in the middle of a listing, and a shard that has refreshed
\* is in the middle of nothing.
Listing ==
  /\ \A p \in Processes : doing[p] # "reading" => ids[p] = {} /\ live[p] = {} /\ dead[p] = {}
  /\ \A s \in refreshed : doing[s] = "nothing"

\* Nothing registers a shard that is steadily down, and its hash runs out.
Down ==
  \A s \in Shards \ up :
    /\ steady[s] >= 1 => <<"HSET", s>> \notin late
    /\ expires[s] = 0 \/ expires[s] + steady[s] <= HeartbeatTtl

\* After one steady interval nobody deletes the hash of a shard, so that after a
\* second it never expires.
Beating ==
  \A s \in up :
    /\ steady[s] >= 1 => <<"DEL", s>> \notin late
    /\ steady[s] >= 1 /\ s \in begun /\ (s \in refreshed \/ doing[s] # "nothing")
         => expires[s] = HeartbeatTtl
    /\ steady[s] >= 2 => expires[s] >= HeartbeatTtl - 1

\* So nobody prunes it from then on.
Spared ==
  \A s \in up :
    steady[s] >= 2 => <<"SREM", s>> \notin late /\ \A p \in Processes : s \notin dead[p]

\* A prune may have taken its id away after the second heartbeat; with the third
\* it is a member for good.
Member ==
  \A s \in up :
    /\ steady[s] >= 2 /\ s \in begun /\ (s \in refreshed \/ doing[s] \in {"listing", "reading"})
         => s \in members
    /\ steady[s] >= 3 => s \in members

\* From then on every listing that begins finds it.
Found ==
  \A s \in up :
    steady[s] >= 3 => /\ \A t \in begun : doing[t] = "reading" => s \in ids[t] \cup live[t]
                      /\ \A t \in refreshed : s \in known[t]

\* A listing that begins when the hash of a shard has run out does not find it.
Buried ==
  \A s \in Shards \ up :
    steady[s] >= HeartbeatTtl =>
      /\ \A t \in begun : s \notin live[t]
      /\ \A t \in refreshed : steady[t] >= 3 => s \notin known[t]

Inv == Listing /\ Down /\ Beating /\ Spared /\ Member /\ Found /\ Buried

IInv == TypeOK /\ Counts /\ Inv

-----------------------------------------------------------------------------
(* One lemma for each step.                                                 *)

\* Redis executes a command nobody waits for: a HSET or SADD helps, and a DEL or SREM
\* is not of a shard that has been up steadily.
LEMMA ExecuteStep ==
  ASSUME IInv, NEW s \in Shards, executes(s)
  PROVE  IInv'
<1> USE MembershipAssumption DEF IInv, TypeOK, Counts, Processes, listing, refresh, history
<1>1. PICK c \in {"HSET", "SADD", "DEL", "SREM"} :
        /\ <<c, s>> \in late /\ late' \in {late, late \ {<<c, s>>}}
        /\ \/ c = "HSET" /\ HSET(s)
           \/ c = "SADD" /\ SADD(s)
           \/ c = "DEL" /\ DEL(s)
           \/ c = "SREM" /\ SREM(s)
  BY DEF executes
<1>2. UNCHANGED <<up, doing, ids, live, dead, known, begun, refreshed, faults, steady>>
  BY DEF executes
<1> USE <1>2 DEF HSET, SADD, DEL, SREM
<1>3. TypeOK' /\ Counts'
  BY <1>1 DEF Running, Commands
<1>4. Listing' /\ Down'
  BY <1>1 DEF Inv, Listing, Down
<1>5. Beating' /\ Spared'
  BY <1>1 DEF Inv, Beating, Spared
<1>6. Member'
  BY <1>1 DEF Inv, Member, Spared
<1>7. Found' /\ Buried'
  BY DEF Inv, Found, Buried
<1> QED  BY <1>3, <1>4, <1>5, <1>6, <1>7 DEF Inv

\* A command that is lost threatens nobody any more.
LEMMA LostStep ==
  ASSUME IInv, NEW c \in Commands, lost(c)
  PROVE  IInv'
<1> USE MembershipAssumption DEF IInv, TypeOK, Counts, Processes, lost, registry, listing, refresh, history
<1>1. TypeOK' /\ Counts'
  BY DEF Running, Commands
<1>2. Listing' /\ Down'
  BY DEF Inv, Listing, Down
<1>3. Beating'
  BY DEF Inv, Beating, Listing
<1>4. Spared'
  BY DEF Inv, Spared, Beating, Listing
<1>5. Member'
  BY DEF Inv, Member, Spared, Listing
<1>6. Found'
  BY DEF Inv, Found, Member, Spared, Beating, Listing
<1>7. Buried'
  BY DEF Inv, Buried, Found, Down, Listing
<1> QED  BY <1>1, <1>2, <1>3, <1>4, <1>5, <1>6, <1>7 DEF Inv

\* The HSET of a heartbeat: the hash has its whole time to live again.
LEMMA HashStep ==
  ASSUME IInv, NEW s \in Shards, heartbeat_hash(s)
  PROVE  IInv'
<1> USE MembershipAssumption DEF IInv, TypeOK, Counts, Processes, heartbeat_hash, HSET, listing, history
<1>1. TypeOK' /\ Counts'
  BY DEF Running, Commands
<1>2. Listing' /\ Down'
  BY DEF Inv, Listing, Down
<1>3. Beating'
  <2> SUFFICES ASSUME NEW u \in up
               PROVE  /\ steady[u] >= 1 => <<"DEL", u>> \notin late
                      /\ steady[u] >= 1 /\ u \in begun' /\ (u \in refreshed \/ doing'[u] # "nothing")
                           => expires'[u] = HeartbeatTtl
                      /\ steady[u] >= 2 => expires'[u] >= HeartbeatTtl - 1
    BY DEF Beating
  <2>1. CASE u = s
    BY <2>1 DEF Inv, Beating
  <2>2. CASE u # s
    BY <2>2 DEF Inv, Beating
  <2> QED  BY <2>1, <2>2
<1>4. Spared'
  BY DEF Inv, Spared, Beating, Listing
<1>5. Member'
  BY DEF Inv, Member, Spared, Listing
<1>6. Found'
  BY DEF Inv, Found, Member, Spared, Beating, Listing
<1>7. Buried'
  BY DEF Inv, Buried, Found, Down, Listing
<1> QED  BY <1>1, <1>2, <1>3, <1>4, <1>5, <1>6, <1>7 DEF Inv

\* The SADD of a heartbeat: the shard is a member from here on, but for a prune
\* decided on earlier.
LEMMA MemberStep ==
  ASSUME IInv, NEW s \in Shards, heartbeat_member(s)
  PROVE  IInv'
<1> USE MembershipAssumption DEF IInv, TypeOK, Counts, Processes, heartbeat_member, SADD, listing, refresh, history
<1>1. TypeOK' /\ Counts'
  BY DEF Running, Commands
<1>2. Listing' /\ Down'
  BY DEF Inv, Listing, Down
<1>3. Beating'
  BY DEF Inv, Beating, Listing
<1>4. Spared'
  BY DEF Inv, Spared, Beating, Listing
<1>5. Member'
  BY DEF Inv, Member, Spared, Listing
<1>6. Found'
  BY DEF Inv, Found, Member, Spared, Beating, Listing
<1>7. Buried'
  BY DEF Inv, Buried, Found, Down, Listing
<1> QED  BY <1>1, <1>2, <1>3, <1>4, <1>5, <1>6, <1>7 DEF Inv

\* A heartbeat that fails is one of a running shard.
LEMMA FailStep ==
  ASSUME IInv, NEW s \in Shards, heartbeat_fails(s)
  PROVE  IInv'
<1> USE MembershipAssumption DEF IInv, TypeOK, Counts, Processes, heartbeat_fails, registry, listing
<1>0. s \in up /\ s \notin refreshed
  BY DEF Running, Inv, Listing
<1> USE <1>0
<1>1. TypeOK' /\ Counts'
  <2>1. late' \subseteq Commands
    BY DEF Commands
  <2> QED  BY <2>1 DEF Running
<1>2. Listing' /\ Down'
  BY DEF Inv, Listing, Down
<1>3. Beating'
  BY DEF Inv, Beating, Listing
<1>4. Spared'
  BY DEF Inv, Spared, Beating, Listing
<1>5. Member'
  BY DEF Inv, Member, Spared, Listing
<1>6. Found'
  BY DEF Inv, Found, Member, Spared, Beating, Listing
<1>7. Buried'
  BY DEF Inv, Buried, Found, Down, Listing
<1> QED  BY <1>1, <1>2, <1>3, <1>4, <1>5, <1>6, <1>7 DEF Inv

\* The SMEMBERS of live_shards: a member is among the ids to look up.
LEMMA LiveStep ==
  ASSUME IInv, NEW p \in Processes, live_shards(p)
  PROVE  IInv'
<1> USE MembershipAssumption DEF IInv, TypeOK, Counts, Processes, live_shards, registry, refresh, history
<1>1. TypeOK' /\ Counts'
  BY DEF Running, Commands
<1>2. Listing' /\ Down'
  BY DEF Inv, Listing, Down
<1>3. Beating'
  BY DEF Inv, Beating, Listing
<1>4. Spared'
  BY DEF Inv, Spared, Beating, Listing
<1>5. Member'
  BY DEF Inv, Member, Spared, Listing
<1>6. Found'
  BY DEF Inv, Found, Member, Spared, Beating, Listing
<1>7. Buried'
  BY DEF Inv, Buried, Found, Down, Listing
<1> QED  BY <1>1, <1>2, <1>3, <1>4, <1>5, <1>6, <1>7 DEF Inv

\* An HGETALL of live_shards: a hash that has not expired is found, one that has
\* is to be pruned.
LEMMA ReadStep ==
  ASSUME IInv, NEW p \in Processes, NEW s \in Shards, read_hash(p, s)
  PROVE  IInv'
<1>0. expires[s] \in 0 .. HeartbeatTtl /\ steady[s] \in 0 .. SettleTime
  BY DEF IInv, TypeOK, Counts
<1>a. s \in up /\ steady[s] >= 2 => expires[s] > 0
  <2>1. s \in up /\ steady[s] >= 2 => expires[s] >= HeartbeatTtl - 1
    BY DEF IInv, Inv, Beating
  <2> QED  BY <1>0, <2>1, MembershipAssumption
<1>b. s \notin up /\ steady[s] >= HeartbeatTtl => expires[s] = 0
  <2>1. s \notin up => expires[s] = 0 \/ expires[s] + steady[s] <= HeartbeatTtl
    BY DEF IInv, Inv, Down
  <2> QED  BY <1>0, <2>1, MembershipAssumption
<1> USE MembershipAssumption DEF IInv, TypeOK, Counts, Processes, read_hash, registry, refresh, history
<1>1. TypeOK' /\ Counts'
  BY DEF Running, Commands
<1>2. Listing' /\ Down'
  BY DEF Inv, Listing, Down
<1>3. Beating'
  BY DEF Inv, Beating, Listing
<1>4. Spared'
  BY <1>a DEF Inv, Spared
<1>5. Member'
  BY DEF Inv, Member, Spared, Listing
<1>6. Found'
  BY <1>a DEF Inv, Found
<1>7. Buried'
  BY <1>b DEF Inv, Buried
<1> QED  BY <1>1, <1>2, <1>3, <1>4, <1>5, <1>6, <1>7 DEF Inv

\* A listing that fails neither finds nor prunes.
LEMMA ListingFailStep ==
  ASSUME IInv, NEW p \in Processes, listing_fails(p)
  PROVE  IInv'
<1> USE MembershipAssumption DEF IInv, TypeOK, Counts, Processes, listing_fails, registry, refresh, history
<1>1. TypeOK' /\ Counts'
  BY DEF Running, Commands
<1>2. Listing' /\ Down'
  BY DEF Inv, Listing, Down
<1>3. Beating'
  BY DEF Inv, Beating, Listing
<1>4. Spared'
  BY DEF Inv, Spared, Beating, Listing
<1>5. Member'
  BY DEF Inv, Member, Spared, Listing
<1>6. Found'
  BY DEF Inv, Found, Member, Spared, Beating, Listing
<1>7. Buried'
  BY DEF Inv, Buried, Found, Down, Listing
<1> QED  BY <1>1, <1>2, <1>3, <1>4, <1>5, <1>6, <1>7 DEF Inv

\* A prune is of shards whose hash had expired, never of one that has been up
\* steadily.
LEMMA PruneStep ==
  ASSUME IInv, NEW p \in Processes, prune(p)
  PROVE  IInv'
<1> USE MembershipAssumption DEF IInv, TypeOK, Counts, Processes, prune, registry, refresh, history
<1>1. TypeOK' /\ Counts'
  BY DEF Running, Commands
<1>2. Listing' /\ Down'
  BY DEF Inv, Listing, Down
<1>3. Beating'
  BY DEF Inv, Beating, Listing
<1>4. Spared'
  BY DEF Inv, Spared, Beating, Listing
<1>5. Member'
  BY DEF Inv, Member, Spared, Listing
<1>6. Found'
  BY DEF Inv, Found, Member, Spared, Beating, Listing
<1>7. Buried'
  BY DEF Inv, Buried, Found, Down, Listing
<1> QED  BY <1>1, <1>2, <1>3, <1>4, <1>5, <1>6, <1>7 DEF Inv

\* The end of refresh: the shard knows whom the listing found.
LEMMA ListedStep ==
  ASSUME IInv, NEW p \in Processes, listed(p)
  PROVE  IInv'
<1> USE MembershipAssumption DEF IInv, TypeOK, Counts, Processes, listed, learned, registry, history
<1>1. TypeOK' /\ Counts'
  BY DEF Running, Commands
<1>2. Listing' /\ Down'
  BY DEF Inv, Listing, Down
<1>3. Beating'
  BY DEF Inv, Beating, Listing
<1>4. Spared'
  BY DEF Inv, Spared, Beating, Listing
<1>5. Member'
  BY DEF Inv, Member, Spared, Listing
<1>6. Found'
  BY DEF Inv, Found, Member, Spared, Beating, Listing
<1>7. Buried'
  BY DEF Inv, Buried, Found, Down, Listing
<1> QED  BY <1>1, <1>2, <1>3, <1>4, <1>5, <1>6, <1>7 DEF Inv

\* A process that ends, with or without having its registration deleted.
LEMMA EndStep ==
  ASSUME IInv, NEW s \in Shards, crash(s) \/ stop(s)
  PROVE  IInv'
<1> USE MembershipAssumption DEF IInv, TypeOK, Counts, Processes
<1>1. Ends(s) /\ late' \in {late, late \cup {<<"DEL", s>>, <<"SREM", s>>}}
  BY DEF crash, stop
<1> USE <1>1 DEF Ends, registry
<1>2. TypeOK' /\ Counts'
  BY DEF Running, Commands
<1>3. Listing'
  BY DEF Inv, Listing
<1>4. Down'
  <2> SUFFICES ASSUME NEW u \in Shards \ up'
               PROVE  /\ steady'[u] >= 1 => <<"HSET", u>> \notin late'
                      /\ expires[u] = 0 \/ expires[u] + steady'[u] <= HeartbeatTtl
    BY DEF Down
  <2>1. CASE u = s
    BY <2>1
  <2>2. CASE u # s
    BY <2>2 DEF Inv, Down
  <2> QED  BY <2>1, <2>2
<1>5. Beating' /\ Spared'
  BY DEF Inv, Beating, Spared
<1>6. Member'
  BY DEF Inv, Member
<1>7. Found'
  BY DEF Inv, Found
<1>8. Buried'
  BY DEF Inv, Buried
<1> QED  BY <1>2, <1>3, <1>4, <1>5, <1>6, <1>7, <1>8 DEF Inv

\* A shard that starts has neither heartbeat nor list, and has yet to be steady.
LEMMA StartStep ==
  ASSUME IInv, NEW s \in Shards, start(s)
  PROVE  IInv'
<1>a. steady'[s] = 0 /\ \A u \in Shards : u # s => steady'[u] = steady[u]
  BY DEF IInv, Counts, start
<1>b. /\ up' = up \cup {s} /\ up \subseteq Shards /\ Beating
      /\ UNCHANGED <<late, begun, refreshed, doing, expires>>
  BY DEF IInv, TypeOK, Inv, start, registry, refresh
<1>3. Beating'
  <2> SUFFICES ASSUME NEW u \in up \cup {s}
               PROVE  /\ steady'[u] >= 1 => <<"DEL", u>> \notin late
                      /\ steady'[u] >= 1 /\ u \in begun /\ (u \in refreshed \/ doing[u] # "nothing")
                           => expires[u] = HeartbeatTtl
                      /\ steady'[u] >= 2 => expires[u] >= HeartbeatTtl - 1
    BY <1>b DEF Beating
  <2>1. CASE u = s
    BY <1>a, <2>1
  <2>2. CASE u # s
    <3>1. u \in up /\ steady'[u] = steady[u]
      BY <1>a, <1>b, <2>2
    <3> QED  BY <1>b, <3>1 DEF Beating
  <2> QED  BY <2>1, <2>2
<1> USE MembershipAssumption DEF IInv, TypeOK, Counts, Processes, start, registry, listing, refresh
<1>1. TypeOK' /\ Counts'
  BY DEF Running, Commands
<1>2. Listing' /\ Down'
  BY DEF Inv, Listing, Down
<1>4. Spared'
  BY DEF Inv, Spared, Beating, Listing
<1>5. Member'
  BY DEF Inv, Member, Spared, Listing
<1>6. Found'
  BY DEF Inv, Found, Member, Spared, Beating, Listing
<1>7. Buried'
  BY DEF Inv, Buried, Found, Down, Listing
<1> QED  BY <1>1, <1>2, <1>3, <1>4, <1>5, <1>6, <1>7 DEF Inv

\* Nobody has begun a refresh in the new interval, and a steady shard has completed
\* one in the old.
LEMMA PassStep ==
  ASSUME IInv, pass
  PROVE  IInv'
<1>1. TypeOK' /\ Counts'
  BY MembershipAssumption DEF IInv, TypeOK, Counts, Running, pass, listing
<1>2. Listing'
  BY DEF IInv, TypeOK, Inv, Listing, pass, listing
<1>3. /\ up' = up /\ late' = late /\ dead' = dead /\ members' = members
      /\ begun' = {} /\ refreshed' = {} /\ doing' = doing
  BY DEF pass, listing
<1>4. ASSUME NEW s \in Shards
      PROVE  /\ expires[s] \in 0 .. HeartbeatTtl /\ steady[s] \in 0 .. SettleTime
             /\ expires'[s] = IF expires[s] = 0 THEN 0 ELSE expires[s] - 1
             /\ steady'[s] >= 1 => Settled(s)
             /\ \/ steady'[s] = 0
                \/ steady'[s] = steady[s] + 1
                \/ steady'[s] = SettleTime /\ steady[s] = SettleTime
  BY MembershipAssumption DEF IInv, TypeOK, Counts, pass
<1>5. \A s \in up : s \in Shards
  BY DEF IInv, TypeOK
<1>6. \A s \in up : steady'[s] >= 1 =>
        /\ s \in refreshed /\ s \in begun
        /\ <<"DEL", s>> \notin late /\ <<"SREM", s>> \notin late
        /\ \A p \in Processes : s \notin dead[p]
  BY <1>4, <1>5 DEF IInv, TypeOK, Settled, Threatened
<1>7. Down'
  <2> SUFFICES ASSUME NEW s \in Shards \ up
               PROVE  /\ steady'[s] >= 1 => <<"HSET", s>> \notin late
                      /\ expires'[s] = 0 \/ expires'[s] + steady'[s] <= HeartbeatTtl
    BY <1>3 DEF Down
  <2>1. steady'[s] >= 1 => <<"HSET", s>> \notin late
    BY <1>4 DEF Settled
  <2>2. expires[s] = 0 \/ expires[s] + steady[s] <= HeartbeatTtl
    BY DEF IInv, Inv, Down
  <2> QED  BY <1>4, <2>1, <2>2, MembershipAssumption
<1>8. Beating'
  <2> SUFFICES ASSUME NEW s \in up
               PROVE  /\ steady'[s] >= 1 => <<"DEL", s>> \notin late
                      /\ steady'[s] >= 2 => expires'[s] >= HeartbeatTtl - 1
    BY <1>3 DEF Beating
  <2>1. steady[s] >= 1 /\ s \in begun /\ s \in refreshed => expires[s] = HeartbeatTtl
    BY DEF IInv, Inv, Beating
  <2>2. s \in Shards /\ HeartbeatTtl \in Nat \ {0, 1} /\ SettleTime \in Nat \ {0, 1, 2}
    BY <1>5, MembershipAssumption
  <2>3. steady'[s] >= 2 => steady'[s] >= 1 /\ steady[s] >= 1
    BY <1>4, <2>2
  <2>4. steady'[s] >= 2 => expires[s] = HeartbeatTtl
    BY <1>6, <2>1, <2>3
  <2>5. steady'[s] >= 2 => expires'[s] >= HeartbeatTtl - 1
    BY <1>4, <2>2, <2>4
  <2> QED  BY <1>6, <2>5
<1>9. Spared'
  <2> SUFFICES ASSUME NEW s \in up, steady'[s] >= 2
               PROVE  <<"SREM", s>> \notin late /\ \A p \in Processes : s \notin dead[p]
    BY <1>3 DEF Spared
  <2>1. steady'[s] >= 1
    BY <1>4, <1>5, MembershipAssumption
  <2> QED  BY <1>6, <2>1
<1>10. Member'
  <2> SUFFICES ASSUME NEW s \in up, steady'[s] >= 3
               PROVE  s \in members
    BY <1>3 DEF Member
  <2>1. steady'[s] >= 1 /\ steady[s] >= 2
    BY <1>4, <1>5, MembershipAssumption
  <2> QED  BY <1>6, <2>1 DEF IInv, Inv, Member
<1>11. Found' /\ Buried'
  BY <1>3 DEF Found, Buried
<1> QED  BY <1>1, <1>2, <1>7, <1>8, <1>9, <1>10, <1>11 DEF IInv, Inv

\* The invariant holds when all shards that are up have just started.
LEMMA Initial ==
  ASSUME Init
  PROVE  IInv
<1> USE MembershipAssumption DEF Init
<1>1. TypeOK /\ Counts
  BY DEF TypeOK, Counts, Processes
<1>2. Listing /\ Down /\ Beating /\ Spared /\ Member /\ Found /\ Buried
  BY DEF Listing, Down, Beating, Spared, Member, Found, Buried, Processes
<1> QED  BY <1>1, <1>2 DEF IInv, Inv

\* Every step keeps it: one case per action.
LEMMA Inductive == IInv /\ [Next]_vars => IInv'
<1> SUFFICES ASSUME IInv, [Next]_vars PROVE IInv'
  OBVIOUS
<1>1. CASE Next
  BY <1>1, ExecuteStep, LostStep, HashStep, MemberStep, FailStep, LiveStep, ReadStep,
     ListingFailStep, PruneStep, ListedStep, EndStep, StartStep, PassStep
  DEF Next
<1>2. CASE UNCHANGED vars
  BY <1>2
  DEF vars, registry, listing, refresh, history, IInv, TypeOK, Running, Counts, Inv,
      Listing, Down, Beating, Spared, Member, Found, Buried
<1> QED  BY <1>1, <1>2

\* So it holds throughout.
LEMMA Invariance == Spec => []IInv
  BY Initial, Inductive, PTL DEF Spec

-----------------------------------------------------------------------------
(* The region map.                                                          *)

\* A nonempty set of naturals has a least element.
LEMMA LeastNatural ==
  ASSUME NEW T \in SUBSET Nat, T # {}
  PROVE  \E n \in T : \A m \in T : n <= m
<1>1. PICK n \in T : \A m \in T : ~(<<m, n>> \in OpToRel(<, Nat))
  BY NatLessThanWellFounded, WFMin, Zenon
<1>2. \A m \in T : ~(m < n)
  BY <1>1, Zenon DEF OpToRel
<1> QED  BY <1>2

\* The sorted list of ids has a shard at every position up to its length.
LEMMA EveryRankTaken ==
  ASSUME NEW T \in SUBSET Nat, IsFiniteSet(T), NEW i \in 0 .. Cardinality(T) - 1
  PROVE  \E s \in T : Cardinality({t \in T : t < s}) = i
<1> DEFINE n == Cardinality(T)
           Below(s) == {t \in T : t < s}
           Free == {k \in 0 .. n - 1 : \A s \in T : Cardinality(Below(s)) # k}
<1>0. \A t \in T : t \in Nat
  OBVIOUS
<1>1. n \in Nat /\ Free \in SUBSET Nat
  BY FS_CardinalityType
<1>2. SUFFICES ASSUME Free # {} PROVE FALSE
  OBVIOUS
<1>3. PICK b \in Free : \A k \in Free : b <= k
  BY <1>1, <1>2, LeastNatural
<1> HIDE DEF n, Free
<1>4. \A s \in T : IsFiniteSet(Below(s)) /\ s \notin Below(s)
  BY FS_Subset
<1>5. \A s \in T : Cardinality(Below(s) \cup {s}) = Cardinality(Below(s)) + 1
  BY <1>4, FS_AddElement
<1>6. CASE b = 0
  <2>1. T # {}
    BY <1>1, <1>3, FS_EmptySet DEF n, Free
  <2>2. PICK m \in T : \A t \in T : m <= t
    BY <2>1, LeastNatural
  <2>3. Below(m) = {}
    <3>1. \A t \in T : ~(t < m)
      BY <1>0, <2>2
    <3> QED  BY <3>1, Zenon
  <2>4. Cardinality(Below(m)) = 0
    BY <2>3, FS_EmptySet
  <2> QED  BY <1>3, <1>6, <2>4 DEF Free
<1>7. CASE b # 0
  <2>1. b - 1 \in 0 .. n - 1 /\ b - 1 \notin Free /\ b \in 1 .. n - 1
    BY <1>1, <1>3, <1>7 DEF Free
  <2>2. PICK s \in T : Cardinality(Below(s)) = b - 1
    BY <2>1 DEF Free
  <2>3. Cardinality(Below(s) \cup {s}) = b
    BY <1>5, <2>1, <2>2
  <2>4. {t \in T : t > s} # {}
    <3>1. SUFFICES ASSUME {t \in T : t > s} = {} PROVE FALSE
      OBVIOUS
    <3>2. T = Below(s) \cup {s}
      <4>1. \A t \in T : t < s \/ t = s
        BY <1>0, <3>1
      <4> QED  BY <4>1, Zenon
    <3> QED  BY <2>1, <2>3, <3>2 DEF n
  <2>5. PICK u \in {t \in T : t > s} : \A t \in {t \in T : t > s} : u <= t
    BY <2>4, LeastNatural
  <2>6. Below(u) = Below(s) \cup {s}
    <3>1. \A t \in T : t < u <=> t < s \/ t = s
      BY <1>0, <2>5
    <3> QED  BY <3>1, Zenon
  <2> QED  BY <1>3, <2>3, <2>5, <2>6 DEF Free
<1> QED  BY <1>6, <1>7

\* Every region has an owner among the ids, however many there are.
LEMMA OwnerAmong ==
  ASSUME NEW T \in SUBSET Shards, T # {}, NEW r \in Regions
  PROVE  assign_regions(T)[r] \in T
<1>1. IsFiniteSet(T) /\ T \in SUBSET Nat
  BY PresenceAssumption, FS_Subset
<1>2. Cardinality(T) \in Nat \ {0}
  BY <1>1, FS_CardinalityType, FS_EmptySet
<1>3. r \in Nat
  BY PresenceAssumption DEF Regions
<1> DEFINE n == Cardinality(T)
<1>4. r % n \in 0 .. n - 1
  BY <1>2, <1>3
<1>5. assign_regions(T)[r] = Sorted(T, r % n)
  BY DEF assign_regions
<1>6. \E s \in T : Cardinality({t \in T : t < s}) = r % n
  BY <1>1, <1>4, EveryRankTaken
<1>7. Sorted(T, r % n) \in T
  BY <1>6 DEF Sorted
<1> QED  BY <1>5, <1>7

-----------------------------------------------------------------------------
(* What is proved.                                                          *)

\* Everything a listing reads is a shard, and only running processes list.
THEOREM TypeCorrect == Spec => []TypeOK
<1>1. IInv => TypeOK
  BY DEF IInv
<1> QED  BY <1>1, Invariance, PTL

\* A shard that refreshes in every interval is in the list of every shard that does,
\* from three intervals after the last prune or removal of it was on its way: however
\* long refreshes, listings and prunes take, whoever crashes, restarts or prunes.
THEOREM SteadyShardsKnown == Spec => []SteadyKnown
<1>1. IInv => SteadyKnown
  BY MembershipAssumption DEF IInv, TypeOK, Counts, Inv, Found, SteadyKnown
<1> QED  BY <1>1, Invariance, PTL

\* "All of them agree without a consensus round" (shard.h): when every shard has been
\* steadily up or down for the time to live, all that refresh have the same owner for
\* each region, a running one.
THEOREM RegionsAgree == Spec => []OwnersAgree
<1>1. ASSUME IInv, \A s \in Shards : steady[s] = SettleTime, NEW t \in refreshed
      PROVE  known[t] = up
  <2>1. t \in Shards /\ steady[t] >= 3 /\ known[t] \in SUBSET Shards
    BY <1>1, MembershipAssumption DEF IInv, TypeOK
  <2>2. \A s \in up : s \in known[t]
    BY <1>1, MembershipAssumption DEF IInv, TypeOK, Inv, Found
  <2>3. \A s \in Shards \ up : s \notin known[t]
    BY <1>1, <2>1, MembershipAssumption DEF IInv, Inv, Buried
  <2> QED  BY <1>1, <2>1, <2>2, <2>3 DEF IInv, TypeOK
<1>2. ASSUME IInv PROVE OwnersAgree
  <2> SUFFICES ASSUME \A s \in Shards : steady[s] = SettleTime,
                      NEW s \in refreshed, NEW t \in refreshed, NEW r \in Regions
               PROVE  /\ region_owner(s)[r] = region_owner(t)[r]
                      /\ region_owner(s)[r] \in up
    BY DEF OwnersAgree
  <2>1. known[s] = up /\ known[t] = up
    BY <1>1, <1>2
  <2>2. up \in SUBSET Shards /\ up # {}
    BY <1>2 DEF IInv, TypeOK
  <2>3. assign_regions(up)[r] \in up
    BY <2>2, OwnerAmong
  <2> QED  BY <2>1, <2>3 DEF region_owner
<1>3. IInv => OwnersAgree
  BY <1>2
<1> QED  BY <1>3, Invariance, PTL
=============================================================================
