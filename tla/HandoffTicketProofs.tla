------------------------ MODULE HandoffTicketProofs ------------------------
(***************************************************************************)
(* Proofs about Handoff for any number of shards, regions, processes,      *)
(* tokens and crashes: the types of its records, that a ticket brings the  *)
(* player into one shard at most, and the first of the steps that keep a   *)
(* player whose processes follow one another on one shard; the others are  *)
(* in HandoffHomeProofs.                                                   *)
(***************************************************************************)
EXTENDS Handoff, WellFoundedInduction, TLAPS

-----------------------------------------------------------------------------
(* The inductive invariant.                                                 *)

Tickets == [token : Nat, to : Shards, region : Regions]
Residents == [client : Clients, region : Regions, session : Nat, redirecting : BOOLEAN]
Admits == [client : Clients, region : Regions, token : Nat, has_ticket : BOOLEAN]
Ghosts == [region : Regions, session : Nat]
Redirects == [client : Clients, from : Shards, ticket : Tickets]

ClientStates ==
  [state : {"idle", "asking", "gone"}]
    \cup [state : {"joining", "connected"}, shard : Shards]
    \cup [state : {"connecting"}, shard : Shards, kind : {"session", "ticket"}, token : Nat]

AssignStates ==
  [step : {"idle"}] \cup [step : {"lookup", "clear", "claim"}, live : SUBSET Shards]
    \cup [step : {"write_back"}, existing : PresenceRecord]
    \cup [step : {"owned"}, winner : Shards]

RedisTypes ==
  /\ presence \in PresenceRecord \cup {None} /\ tokens \in Nat
  /\ tickets \subseteq Tickets /\ registered \subseteq Shards /\ up \subseteq Shards

ShardTypes ==
  /\ players \in [Shards -> SUBSET Residents] /\ ghosts \in [Shards -> Ghosts \cup {None}]
  /\ redeemed_tickets \in [Shards -> SUBSET Tickets]
  /\ admitting \in [Shards -> Admits \cup {None}]

ClientTypes ==
  /\ client \in [Clients -> ClientStates] /\ assigning \in [Clients -> AssignStates]
  /\ redirects \subseteq Redirects

Types == RedisTypes /\ ShardTypes /\ ClientTypes

\* A token names one ticket, and none that is yet to be drawn; a ticket that was
\* redeemed is not stored any more.
TicketInv ==
  /\ \A t \in tickets : t.token \in 1 .. tokens
  /\ \A t, u \in tickets : t.token = u.token => t = u
  /\ \A r \in redemptions : r[1] \in 1 .. tokens
  /\ TicketSpawnsOnce

TicketIInv == deployment \in Deployments /\ Types /\ TicketInv

-----------------------------------------------------------------------------
(* Facts about regions.                                                     *)

\* A nonempty set of regions has a least one, which CHOOSE finds.
LEMMA LeastRegion ==
  ASSUME NEW T \in SUBSET Regions, T # {}
  PROVE  (CHOOSE q \in T : \A o \in T : q <= o) \in T
<1>1. T \subseteq Nat  BY PresenceAssumption DEF Regions
<1>2. PICK n \in T : \A y \in T : ~(<<y, n>> \in OpToRel(<, Nat))
  BY <1>1, NatLessThanWellFounded, WFMin, Zenon
<1>3. \A y \in T : ~(y < n)  BY <1>1, <1>2, Zenon DEF OpToRel
<1>4. \A y \in T : n <= y  BY <1>1, <1>3
<1>. QED  BY <1>4, Zenon

\* The matchmaker places a player in a region of the map.
LEMMA FirstRegionType ==
  ASSUME NEW ids, NEW shard
  PROVE  first_region(ids, shard) \in Regions
<1>. DEFINE owned == {r \in Regions : assign_regions(ids)[r] = shard}
<1>1. owned \in SUBSET Regions  OBVIOUS
<1>2. CASE owned = {}
  <2>1. first_region(ids, shard) = 0  BY <1>2 DEF first_region
  <2>. QED  BY <2>1, PresenceAssumption DEF Regions
<1>3. CASE owned # {}
  <2>1. (CHOOSE r \in owned : \A q \in owned : r <= q) \in owned
    BY <1>1, <1>3, LeastRegion, Zenon
  <2>2. first_region(ids, shard) = CHOOSE r \in owned : \A q \in owned : r <= q
    BY <1>3 DEF first_region
  <2>. QED  BY <2>1, <2>2
<1>. QED  BY <1>2, <1>3

\* So does a shard.
LEMMA OwnRegionType ==
  ASSUME NEW s, NEW r \in Regions
  PROVE  OwnRegion(s, r) \in Regions
<1>. DEFINE owned == {q \in Regions : region_owner[s][q] = s}
<1>1. owned \in SUBSET Regions  OBVIOUS
<1>2. CASE r \in owned \/ owned = {}
  BY <1>2 DEF OwnRegion
<1>3. CASE ~(r \in owned \/ owned = {})
  <2>1. (CHOOSE q \in owned : \A o \in owned : q <= o) \in owned
    BY <1>1, <1>3, LeastRegion, Zenon
  <2>2. OwnRegion(s, r) = CHOOSE q \in owned : \A o \in owned : q <= o
    BY <1>3 DEF OwnRegion
  <2>. QED  BY <2>1, <2>2
<1>. QED  BY <1>2, <1>3

-----------------------------------------------------------------------------
(* Types.                                                                   *)

\* The list of live shards an assignment starts with is one of shards.
LEMMA StartAssignTypes ==
  ASSUME Types, NEW c \in Clients, assign_live_shards(c)
  PROVE  Types'
<1>. USE DEF Types, ClientTypes
<1>1. client' \in [Clients -> ClientStates]
  BY DEF assign_live_shards, ClientStates, Gone
<1>2. assigning' \in [Clients -> AssignStates]
  BY DEF assign_live_shards, Proceed, AssignStates, RedisTypes
<1>. QED
  BY <1>1, <1>2 DEF assign_live_shards, redisVars, shardVars, RedisTypes, ShardTypes

\* A claimed record names a shard, a region and a session.
LEMMA ClaimTypes ==
  ASSUME Types, NEW c \in Clients, assign_claim(c)
  PROVE  Types'
<1>. USE DEF Types, RedisTypes, ClientTypes
<1>1. assigning[c].live \subseteq Shards
  BY DEF assign_claim, At, AssignStates
<1>2. PICK chosen \in assigning[c].live :
        \/ /\ presence' = set_presence(chosen, first_region(assigning[c].live, chosen), FreshToken)
           /\ tokens' = FreshToken /\ Grant(c, chosen, FreshToken)
           /\ UNCHANGED <<tickets, registered>>
        \/ /\ presence # None /\ presence.shard \in assigning[c].live
           /\ Proceed(c, [step |-> "owned", winner |-> presence.shard])
           /\ UNCHANGED <<client, redisVars>>
        \/ Answer(c, Gone) /\ UNCHANGED redisVars
  BY DEF assign_claim, claim_takes
<1>3. UNCHANGED <<shardVars, redirects>>
  BY DEF assign_claim
<1>4. FreshToken \in Nat
  BY DEF FreshToken
<1>5. RedisTypes'
  BY <1>1, <1>2, <1>3, <1>4, FirstRegionType
  DEF set_presence, PresenceRecord, redisVars, shardVars
<1>6. client' \in [Clients -> ClientStates]
  BY <1>1, <1>2, <1>4 DEF Grant, Answer, ClientStates, Connecting, Gone
<1>7. assigning' \in [Clients -> AssignStates]
  BY <1>1, <1>2 DEF Grant, Answer, Proceed, NoAssign, AssignStates
<1>. QED
  BY <1>3, <1>5, <1>6, <1>7 DEF shardVars, ShardTypes

\* What a disconnected entry leaves behind is the ghost of an entry, or the one
\* that was there.
LEMMA GhostType ==
  ASSUME ShardTypes, NEW s \in Shards, NEW gone \in SUBSET players[s]
  PROVE  GhostOf(s, gone) \in Ghosts \cup {None}
<1>. DEFINE left == {p \in gone : ~p.redirecting}
            Left == {[region |-> p.region, session |-> p.session] : p \in left}
<1>1. CASE left = {}  BY <1>1 DEF GhostOf, ShardTypes
<1>2. CASE left # {}
  <2>1. Left # {}  BY <1>2, Zenon
  <2>2. (CHOOSE g \in Left : TRUE) \in Left  BY <2>1, Zenon
  <2>3. Left \subseteq Ghosts  BY DEF ShardTypes, Residents, Ghosts
  <2>4. GhostOf(s, gone) = CHOOSE g \in Left : TRUE  BY <1>2, Zenon DEF GhostOf
  <2>. QED  BY <2>2, <2>3, <2>4
<1>. QED  BY <1>1, <1>2

\* on_connect replaces what the shard holds of the player by one entry, and says
\* so to the presence record.
LEMMA ConnectEffect ==
  ASSUME Types, NEW s \in Shards, on_connect(s)
  PROVE  /\ admitting[s] # None /\ admitting' = [admitting EXCEPT ![s] = None]
         /\ \E region \in Regions, g \in Ghosts \cup {None} :
              /\ players' = [players EXCEPT ![s] =
                   {[client |-> admitting[s].client, region |-> region,
                     session |-> admitting[s].token, redirecting |-> FALSE]}]
              /\ presence' = [shard |-> s, region |-> region, session |-> admitting[s].token]
              /\ ghosts' = [ghosts EXCEPT ![s] = g]
<1>. DEFINE ghost == GhostOf(s, Stale(s))
            resumes == ~admitting[s].has_ticket /\ ghost # None /\ ghost.session = admitting[s].token
            region == IF resumes THEN ghost.region ELSE admitting[s].region
            g == IF resumes THEN None ELSE ghost
<1>. HIDE DEF ghost
<1>1. ghost \in Ghosts \cup {None}
  BY GhostType DEF Types, Stale, ghost
<1>2. admitting[s] \in Admits
  BY DEF Types, ShardTypes, on_connect
<1>3. region \in Regions /\ g \in Ghosts \cup {None}
  BY <1>1, <1>2 DEF Ghosts, Admits
<1>4. players[s] \ Stale(s) = {}
  BY DEF Stale
<1>5. /\ players' = [players EXCEPT ![s] = (@ \ Stale(s)) \cup
           {[client |-> admitting[s].client, region |-> region,
             session |-> admitting[s].token, redirecting |-> FALSE]}]
      /\ presence' = [shard |-> s, region |-> region, session |-> admitting[s].token]
      /\ ghosts' = [ghosts EXCEPT ![s] = g]
  BY DEF on_connect, set_presence, ghost
<1>6. players' = [players EXCEPT ![s] =
         {[client |-> admitting[s].client, region |-> region,
           session |-> admitting[s].token, redirecting |-> FALSE]}]
  BY <1>4, <1>5, Zenon
<1>. QED  BY <1>3, <1>5, <1>6, Zenon DEF on_connect

\* A client that connects with a session keeps its place well typed.
LEMMA ConnectTypes ==
  ASSUME Types, NEW s \in Shards, on_connect(s)
  PROVE  Types'
<1>1. admitting[s] \in Admits
  BY DEF Types, ShardTypes, on_connect
<1>2. PICK region \in Regions, g \in Ghosts \cup {None} :
        /\ players' = [players EXCEPT ![s] =
             {[client |-> admitting[s].client, region |-> region,
               session |-> admitting[s].token, redirecting |-> FALSE]}]
        /\ presence' = [shard |-> s, region |-> region, session |-> admitting[s].token]
        /\ ghosts' = [ghosts EXCEPT ![s] = g]
  BY ConnectEffect
<1>3. [client |-> admitting[s].client, region |-> region, session |-> admitting[s].token,
       redirecting |-> FALSE] \in Residents
  BY <1>1 DEF Residents, Admits
<1>4. presence' \in PresenceRecord
  BY <1>1, <1>2 DEF PresenceRecord, Admits
<1>5. RedisTypes'
  BY <1>4 DEF Types, RedisTypes, on_connect
<1>6. players' \in [Shards -> SUBSET Residents] /\ ghosts' \in [Shards -> Ghosts \cup {None}]
  BY <1>2, <1>3 DEF Types, ShardTypes
<1>7. ShardTypes'
  BY <1>6 DEF Types, ShardTypes, on_connect
<1>. QED  BY <1>5, <1>7 DEF on_connect, Types, ClientTypes, clientVars

\* So does one that a shard admits, with a session or a ticket.
LEMMA AdmittedTypes ==
  ASSUME Types, NEW s \in Shards, NEW c \in Clients, NEW region \in Regions,
         NEW token \in Nat, NEW has_ticket \in BOOLEAN,
         Admitted(c, s, region, token, has_ticket)
  PROVE  /\ admitting' \in [Shards -> Admits \cup {None}]
         /\ client' \in [Clients -> ClientStates]
<1>1. OwnRegion(s, region) \in Regions
  BY OwnRegionType
<1>. QED
  BY <1>1 DEF Admitted, Joining, Admits, ClientStates, Types, ShardTypes, ClientTypes

\* Admission by session keeps types.
LEMMA AdmitSessionTypes ==
  ASSUME Types, NEW s \in Shards, NEW c \in Clients, admit_session(c, s)
  PROVE  Types'
<1>1. client[c].token \in Nat
  BY DEF Types, ClientTypes, ClientStates, admit_session, Knocking
<1>2. /\ admitting' \in [Shards -> Admits \cup {None}]
      /\ client' \in [Clients -> ClientStates]
  <2>1. CASE /\ presence # None
             /\ Admitted(c, s, presence.region, client[c].token, FALSE)
    <3>1. presence.region \in Regions  BY <2>1 DEF Types, RedisTypes, PresenceRecord
    <3>. QED  BY <1>1, <2>1, <3>1, AdmittedTypes, Zenon
  <2>2. CASE Denied(c) /\ UNCHANGED admitting
    BY <2>2 DEF Denied, Gone, Types, ClientTypes, ClientStates, ShardTypes
  <2>. QED  BY <2>1, <2>2, Zenon DEF admit_session
<1>. QED
  BY <1>2 DEF admit_session, Types, RedisTypes, ShardTypes, ClientTypes, redisVars

\* Either a ticket that the shard knows, or that was stored for it, admits the
\* process, or the process is turned away.
LEMMA AdmitTicketEffect ==
  ASSUME Types, NEW s \in Shards, NEW c \in Clients, admit_ticket(c, s)
  PROVE  \/ \E t \in Tickets :
              /\ Admitted(c, s, t.region, t.token, TRUE)
              /\ \/ UNCHANGED <<tickets, redeemed_tickets, redemptions>>
                 \/ /\ t \in tickets /\ tickets' = {u \in tickets : u.token # t.token}
                    /\ redeemed_tickets' = [redeemed_tickets EXCEPT ![s] = @ \cup {t}]
                    /\ redemptions' = redemptions \cup {<<t.token, s>>}
         \/ /\ Denied(c) /\ tickets' \subseteq tickets
            /\ UNCHANGED <<admitting, redeemed_tickets, redemptions>>
<1>. DEFINE cached == {t \in redeemed_tickets[s] : t.token = client[c].token}
            stored == {t \in tickets : t.token = client[c].token}
<1>0. cached \subseteq Tickets /\ stored \subseteq Tickets
  BY DEF Types, RedisTypes, ShardTypes
<1>1. CASE cached # {}
  BY <1>0, <1>1, Zenon DEF admit_ticket
<1>2. CASE cached = {}
  <2>1. tickets' = tickets \ stored
    BY <1>2, Zenon DEF admit_ticket, redeem
  <2>2. CASE \E t \in stored :
               /\ Admitted(c, s, t.region, t.token, TRUE)
               /\ redeemed_tickets' = [redeemed_tickets EXCEPT ![s] = @ \cup {t}]
               /\ redemptions' = redemptions \cup {<<t.token, s>>}
    <3>1. PICK t \in stored :
               /\ Admitted(c, s, t.region, t.token, TRUE)
               /\ redeemed_tickets' = [redeemed_tickets EXCEPT ![s] = @ \cup {t}]
               /\ redemptions' = redemptions \cup {<<t.token, s>>}
      BY <2>2, Zenon
    <3>2. tickets' = {u \in tickets : u.token # t.token}
      BY <2>1
    <3>. QED  BY <1>0, <3>1, <3>2, Zenon
  <2>3. CASE Denied(c) /\ UNCHANGED <<admitting, redeemed_tickets, redemptions>>
    BY <2>1, <2>3, Zenon
  <2>. QED  BY <1>2, <2>2, <2>3, Zenon DEF admit_ticket, accept_handoff
<1>. QED  BY <1>1, <1>2, Zenon

\* Admission by ticket keeps types: the ticket read was one that was stored.
LEMMA AdmitTicketTypes ==
  ASSUME Types, NEW s \in Shards, NEW c \in Clients, admit_ticket(c, s)
  PROVE  Types'
<1>1. /\ admitting' \in [Shards -> Admits \cup {None}]
      /\ client' \in [Clients -> ClientStates]
  <2>1. CASE \E t \in Tickets : Admitted(c, s, t.region, t.token, TRUE)
    BY <2>1, AdmittedTypes, Zenon DEF Tickets
  <2>2. CASE Denied(c) /\ UNCHANGED admitting
    BY <2>2 DEF Denied, Gone, Types, ClientTypes, ClientStates, ShardTypes
  <2>. QED  BY <2>1, <2>2, AdmitTicketEffect, Zenon
<1>2. tickets' \subseteq Tickets
  BY AdmitTicketEffect, Zenon DEF Types, RedisTypes
<1>3. redeemed_tickets' \in [Shards -> SUBSET Tickets]
  <2>1. CASE \E t \in Tickets : redeemed_tickets' = [redeemed_tickets EXCEPT ![s] = @ \cup {t}]
    BY <2>1 DEF Types, ShardTypes
  <2>2. CASE UNCHANGED redeemed_tickets
    BY <2>2 DEF Types, ShardTypes
  <2>. QED  BY <2>1, <2>2, AdmitTicketEffect, Zenon
<1>. QED
  BY <1>1, <1>2, <1>3 DEF admit_ticket, Types, RedisTypes, ShardTypes, ClientTypes

\* check_migrations moves the entry to the region entered when the shard owns that
\* one too, and otherwise hands the player to the owner.
LEMMA MigrateEffect ==
  ASSUME Types, NEW s \in Shards, NEW p \in players[s], NEW target \in Regions,
         check_migrations(s, p, target)
  PROVE  /\ p \in Residents /\ ~p.redirecting /\ admitting[s] = None
         /\ \E q \in Residents :
              /\ q.client = p.client
              /\ \/ /\ players' = [players EXCEPT ![s] = (@ \ {p}) \cup {q}]
                    /\ UNCHANGED <<presence, tickets, tokens, redirects>>
                 \/ \E t \in Tickets :
                      /\ t.token = tokens + 1 /\ tokens' = tokens + 1
                      /\ tickets' = tickets \cup {t}
                      /\ presence' \in PresenceRecord /\ presence'.shard = t.to
                      /\ \/ /\ q.redirecting
                            /\ players' = [players EXCEPT ![s] = (@ \ {p}) \cup {q}]
                            /\ redirects' = redirects \cup
                                 {[client |-> p.client, from |-> s, ticket |-> t]}
                         \/ ReplyLoss /\ UNCHANGED <<players, redirects>>
<1>1. p \in Residents /\ ~p.redirecting /\ admitting[s] = None
  BY DEF Types, ShardTypes, check_migrations, Ready
<1>2. CASE region_owner[s][target] = s
  <2>. DEFINE q == [p EXCEPT !.region = target]
  <2>1. q \in Residents /\ q.client = p.client
    BY <1>1 DEF Residents
  <2>2. /\ players' = [players EXCEPT ![s] = (@ \ {p}) \cup {q}]
        /\ UNCHANGED <<presence, tickets, tokens, redirects>>
    BY <1>2 DEF check_migrations
  <2>. QED  BY <1>1, <2>1, <2>2, Zenon
<1>3. CASE region_owner[s][target] # s
  <2>. DEFINE t == plan_handoff(s, target)
              q == Redirected(p)
  <2>1. q \in Residents /\ q.client = p.client /\ q.redirecting
    BY <1>1, Zenon DEF Residents, Redirected
  <2>2. t \in Tickets /\ t.token = tokens + 1 /\ t.region = target
    BY <1>3 DEF plan_handoff, FreshToken, Tickets, check_migrations, Types, RedisTypes
  <2>3. presence' = transferred(presence, t.to, t.region) /\ tickets' = tickets \cup {t}
    BY <1>3 DEF check_migrations, publish_and_transfer
  <2>4. presence' \in PresenceRecord /\ presence'.shard = t.to
    BY <2>2, <2>3 DEF transferred, Tickets, PresenceRecord, Types, RedisTypes, NoSession
  <2>5. /\ tokens' = tokens + 1
        /\ \/ /\ players' = [players EXCEPT ![s] = (@ \ {p}) \cup {q}]
              /\ redirects' = redirects \cup {[client |-> p.client, from |-> s, ticket |-> t]}
           \/ ReplyLoss /\ UNCHANGED <<players, redirects>>
    BY <1>3 DEF check_migrations, FreshToken
  <2>. HIDE DEF t, q
  <2>. QED  BY <1>1, <2>1, <2>2, <2>3, <2>4, <2>5
<1>. QED  BY <1>2, <1>3

\* Publishing a ticket and moving the record keep types.
LEMMA MigrateTypes ==
  ASSUME Types, NEW s \in Shards, NEW p \in players[s], NEW target \in Regions,
         check_migrations(s, p, target)
  PROVE  Types'
<1>1. RedisTypes'
  BY MigrateEffect DEF Types, RedisTypes, check_migrations
<1>2. players' \in [Shards -> SUBSET Residents]
  <2>1. PICK q \in Residents :
          players' = [players EXCEPT ![s] = (@ \ {p}) \cup {q}] \/ UNCHANGED players
    BY MigrateEffect
  <2>. QED  BY <2>1 DEF Types, ShardTypes
<1>3. redirects' \subseteq Redirects
  BY MigrateEffect DEF Types, ClientTypes, Redirects, Residents
<1>. QED
  BY <1>1, <1>2, <1>3 DEF check_migrations, Types, ShardTypes, ClientTypes

-----------------------------------------------------------------------------
(* The inductive step.                                                      *)

\* The matchmaker's steps keep types.
LEMMA MatchmakingTypes == ASSUME Types, Matchmaking PROVE Types'
<1>. USE DEF Types, RedisTypes, ShardTypes, ClientTypes, ClientStates, AssignStates,
             PresenceRecord, redisVars, shardVars, clientVars
<1>1. CASE release  BY <1>1 DEF release, clear_presence
<1>2. ASSUME NEW c \in Clients, request_session(c) PROVE Types'
  BY <1>2 DEF request_session, Asking
<1>3. ASSUME NEW c \in Clients, assign_get_presence(c) PROVE Types'
  BY <1>3 DEF assign_get_presence, At, Proceed
<1>4. ASSUME NEW c \in Clients, assign_write_back(c) PROVE Types'
  BY <1>4 DEF assign_write_back, At, Proceed, Grant, Answer, Connecting, Gone, NoAssign
<1>5. ASSUME NEW c \in Clients, assign_clear_presence(c) PROVE Types'
  BY <1>5 DEF assign_clear_presence, At, Proceed, clear_presence
<1>6. ASSUME NEW c \in Clients, assign_full(c) PROVE Types'
  BY <1>6 DEF assign_full, Proceed, Answer, Gone, NoAssign
<1>7. ASSUME NEW c \in Clients, assign_get_owned(c) PROVE Types'
  BY <1>7
  DEF assign_get_owned, At, Proceed, Grant, Answer, Connecting, Gone, NoAssign, NoSession
<1>. QED
  BY <1>1, <1>2, <1>3, <1>4, <1>5, <1>6, <1>7, StartAssignTypes, ClaimTypes, Zenon
  DEF Matchmaking

\* The steps of connecting keep types.
LEMMA AdmissionTypes == ASSUME Types, Admission PROVE Types'
<1>1. ASSUME NEW c \in Clients, NEW s \in Shards, admit_full(c, s) PROVE Types'
  BY <1>1 DEF admit_full, Denied, Gone, Types, RedisTypes, ShardTypes, ClientTypes,
              ClientStates, redisVars, shardVars
<1>. QED  BY <1>1, ConnectTypes, AdmitSessionTypes, AdmitTicketTypes, Zenon DEF Admission

\* The steps of a serving shard keep types.
LEMMA ServingTypes == ASSUME Types, Serving PROVE Types'
<1>. USE DEF Types, RedisTypes, ShardTypes, ClientTypes, redisVars, shardVars, clientVars
<1>1. ASSUME NEW s \in Shards, refresh_presence(s) PROVE Types'
  <2>1. PICK p \in players[s] : presence' = set_presence(s, p.region, p.session)
    BY <1>1 DEF refresh_presence
  <2>2. presence' \in PresenceRecord  BY <2>1 DEF set_presence, PresenceRecord, Residents
  <2>. QED  BY <1>1, <2>2 DEF refresh_presence
<1>2. ASSUME NEW s \in Shards, expire_ghosts(s) PROVE Types'
  BY <1>2 DEF expire_ghosts
<1>3. ASSUME NEW s \in Shards, refresh(s) \/ restart(s) \/ registration_expires(s) PROVE Types'
  BY <1>3 DEF refresh, restart, registration_expires
<1>4. ASSUME NEW s \in Shards, crash(s) PROVE Types'
  BY <1>4 DEF crash
<1>5. ASSUME NEW s \in Shards, NEW p \in players[s], remove_connection(s, p) PROVE Types'
  BY <1>5, GhostType DEF remove_connection
<1>. QED  BY <1>1, <1>2, <1>3, <1>4, <1>5, MigrateTypes, Zenon DEF Serving

\* Every step keeps types.
LEMMA TypesStep == ASSUME Types, Next PROVE Types'
<1>. USE DEF Types, RedisTypes, ShardTypes, ClientTypes, redisVars, shardVars, clientVars
<1>1. CASE presence_expires \/ ticket_expires
  BY <1>1 DEF presence_expires, ticket_expires
<1>2. ASSUME NEW c \in Clients, connection_accepted(c) PROVE Types'
  BY <1>2 DEF connection_accepted, Joined, ClientStates
<1>3. ASSUME NEW c \in Clients, apply_redirect(c) PROVE Types'
  <2>1. PICK r \in redirects :
          client' = [client EXCEPT ![c] = Connecting(r.ticket.to, "ticket", r.ticket.token)]
    BY <1>3, Zenon DEF apply_redirect
  <2>2. r.ticket.to \in Shards /\ r.ticket.token \in Nat  BY DEF Redirects, Tickets
  <2>3. client' \in [Clients -> ClientStates]  BY <2>1, <2>2 DEF Connecting, ClientStates
  <2>. QED  BY <1>3, <2>3 DEF apply_redirect
<1>4. ASSUME NEW c \in Clients, client_gone(c) PROVE Types'
  BY <1>4 DEF client_gone, Gone, ClientStates
<1>. QED
  BY <1>1, <1>2, <1>3, <1>4, MatchmakingTypes, AdmissionTypes, ServingTypes, Zenon DEF Next

\* The actions that draw a token, store a ticket or take one.
LEMMA TicketStep == ASSUME Types, TicketInv, Next PROVE TicketInv'
<1>1. ASSUME NEW c \in Clients, NEW s \in Shards, admit_ticket(c, s) PROVE TicketInv'
  <2>1. UNCHANGED tokens  BY <1>1 DEF admit_ticket
  <2>2. CASE tickets' \subseteq tickets /\ UNCHANGED redemptions
    BY <2>1, <2>2 DEF TicketInv, TicketSpawnsOnce
  <2>3. CASE \E t \in tickets : /\ tickets' = {u \in tickets : u.token # t.token}
                                /\ redemptions' = redemptions \cup {<<t.token, s>>}
    BY <2>1, <2>3 DEF TicketInv, TicketSpawnsOnce
  <2>. QED  BY <1>1, <2>2, <2>3, AdmitTicketEffect, Zenon
<1>2. ASSUME NEW s \in Shards, NEW p \in players[s], NEW target \in Regions,
             check_migrations(s, p, target)
      PROVE  TicketInv'
  BY <1>2, MigrateEffect
  DEF TicketInv, TicketSpawnsOnce, check_migrations, Types, RedisTypes, Tickets
<1>3. CASE ticket_expires
  BY <1>3 DEF ticket_expires, TicketInv, TicketSpawnsOnce, shardVars
<1>4. CASE UNCHANGED <<tickets, redemptions>> /\ tokens' \in Nat /\ tokens' >= tokens
  BY <1>4 DEF TicketInv, TicketSpawnsOnce, Types, RedisTypes
<1>. USE DEF redisVars, shardVars, Types, RedisTypes
<1>5. CASE Matchmaking
  <2>1. UNCHANGED <<tickets, redemptions>> /\ tokens' \in {tokens, tokens + 1}
    BY <1>5, Zenon DEF Matchmaking, release, request_session, assign_live_shards,
      assign_get_presence, assign_write_back, assign_clear_presence, assign_full, assign_claim,
      assign_get_owned, FreshToken
  <2>. QED  BY <1>4, <2>1
<1>6. ASSUME NEW s \in Shards,
             \/ on_connect(s) \/ refresh_presence(s) \/ expire_ghosts(s) \/ refresh(s)
             \/ crash(s) \/ restart(s) \/ registration_expires(s)
      PROVE  TicketInv'
  <2>1. UNCHANGED <<tickets, redemptions, tokens>>
    BY <1>6 DEF on_connect, refresh_presence, expire_ghosts, refresh, crash, restart,
      registration_expires
  <2>. QED  BY <1>4, <2>1
<1>7. ASSUME NEW c \in Clients, NEW s \in Shards, admit_full(c, s) \/ admit_session(c, s)
      PROVE  TicketInv'
  <2>1. UNCHANGED <<tickets, redemptions, tokens>>
    BY <1>7, Zenon DEF admit_full, admit_session
  <2>. QED  BY <1>4, <2>1
<1>8. ASSUME NEW s \in Shards, NEW p \in players[s], remove_connection(s, p) PROVE TicketInv'
  BY <1>4, <1>8 DEF remove_connection
<1>9. CASE presence_expires
  BY <1>4, <1>9 DEF presence_expires
<1>10. ASSUME NEW c \in Clients, connection_accepted(c) \/ apply_redirect(c) \/ client_gone(c)
       PROVE  TicketInv'
  BY <1>4, <1>10, SMTT(30) DEF connection_accepted, apply_redirect, client_gone
<1>. QED
  BY <1>1, <1>2, <1>3, <1>5, <1>6, <1>7, <1>8, <1>9, <1>10, Zenon
  DEF Next, Admission, Serving

\* At the start there are no tickets.
LEMMA InitTickets == Init => TicketIInv
<1>. SUFFICES ASSUME Init PROVE TicketIInv
  OBVIOUS
<1>. USE DEF Init
<1>1. RedisTypes  BY DEF RedisTypes
<1>2. ShardTypes  BY DEF ShardTypes
<1>3. ClientTypes  BY DEF ClientTypes, ClientStates, AssignStates, Idle, NoAssign
<1>4. TicketInv  BY DEF TicketInv, TicketSpawnsOnce
<1>. QED  BY <1>1, <1>2, <1>3, <1>4 DEF TicketIInv, Types

\* Every step keeps tokens fresh and redemptions unique.
LEMMA StepTickets == TicketIInv /\ [Next]_vars => TicketIInv'
<1>1. ASSUME TicketIInv, Next PROVE TicketIInv'
  BY <1>1, TypesStep, TicketStep, Zenon DEF TicketIInv, Next
<1>2. ASSUME TicketIInv, UNCHANGED vars PROVE TicketIInv'
  BY <1>2 DEF TicketIInv, Types, RedisTypes, ShardTypes, ClientTypes, TicketInv,
    TicketSpawnsOnce, vars, systemVars, redisVars, shardVars, clientVars
<1>. QED  BY <1>1, <1>2

\* So they are throughout.
LEMMA TicketsInductive == Spec => []TicketIInv
  BY InitTickets, StepTickets, PTL DEF Spec

-----------------------------------------------------------------------------
\* GETDEL redemption: however often a ticket is presented, to whichever shards, and
\* whatever crashes, expires or loses its reply, it brings the player into at most
\* one shard, and once it has it is not stored any more.
THEOREM TicketsRedeemedOnce == Spec => []TicketSpawnsOnce
<1>1. TicketIInv => TicketSpawnsOnce  BY DEF TicketIInv, TicketInv
<1>. QED  BY <1>1, TicketsInductive, PTL
-----------------------------------------------------------------------------
(* One process after the other.                                             *)

\* The shards that simulate the player or are about to.
Homes == {s \in Shards : ResidentOn(s) \/ admitting[s] # None}

\* The processes the matchmaker is busy with.
Assigning == {c \in Clients : assigning[c].step # "idle"}

\* The processes on their way to the shard a ticket names.
Followers == {c \in Clients : client[c].state = "connecting" /\ client[c].kind = "ticket"}

\* A process that joins shard s, or plays there.
With(c, s) == client[c].state \in {"joining", "connected"} /\ client[c].shard = s

\* At most one process plays, and none while the matchmaker is busy: one that asks
\* then waits.
OneAtATime ==
  /\ \A c, d \in Clients : \/ c = d \/ client[c].state \in {"idle", "gone"}
                           \/ client[d].state \in {"idle", "gone"}
  /\ \A c, d \in Assigning : c = d
  /\ \A c \in Assigning, d \in Clients : client[d].state \in {"idle", "asking", "gone"}

\* A shard holds one entry at most, and is up while it is a home.
Entries ==
  /\ up \subseteq registered /\ Homes \subseteq up
  /\ \A s \in Shards : \A p, q \in players[s] : p = q

\* Whom a shard holds has not gone elsewhere.
Stays ==
  /\ \A s \in Shards : \A p \in players[s] :
       p.redirecting \/ client[p.client].state = "gone" \/ With(p.client, s)
  /\ \A s \in Shards : admitting[s] # None =>
       client[admitting[s].client].state = "gone" \/ With(admitting[s].client, s)

\* A home is where the presence record says the player is.
HomeIsPresence ==
  \A s \in Homes : presence # None /\ presence.shard = s

\* What the matchmaker has read may be stale, but no home came up behind its back.
ReadsHold ==
  \A c \in Assigning :
    /\ assigning[c].step = "lookup" => Homes \subseteq assigning[c].live
    /\ assigning[c].step \in {"clear", "claim"} => Homes = {}
    /\ assigning[c].step = "write_back" => Homes \subseteq {assigning[c].existing.shard}

\* A player that was handed over, and whose process has yet to follow, is nowhere,
\* and is expected by the shard the ticket names.
Expected ==
  /\ \A c \in Followers :
       Homes = {} /\ presence # None /\ presence.shard = client[c].shard
  /\ \A r \in redirects :
       \/ client[r.client].state = "gone"
       \/ With(r.client, r.from) /\ Homes = {} /\ presence # None /\ presence.shard = r.ticket.to

HomeInv == OneAtATime /\ Entries /\ Stays /\ HomeIsPresence /\ ReadsHold /\ Expected

-----------------------------------------------------------------------------
(* Facts used by every step.                                                *)

\* A step that leaves the tables alone moves no home.
LEMMA HomesKept ==
  ASSUME UNCHANGED <<players, admitting>>
  PROVE  Homes' = Homes
  BY DEF Homes, ResidentOn

-----------------------------------------------------------------------------
(* Who can be where.                                                        *)

\* While the matchmaker is busy nobody plays, and no redirect is waited for.
LEMMA Busy ==
  ASSUME Types, HomeInv, NEW c \in Assigning
  PROVE  /\ \A d \in Clients : client[d].state \in {"idle", "asking", "gone"}
         /\ Followers = {} /\ \A r \in redirects : client[r.client].state = "gone"
<1>1. \A d \in Clients : client[d].state \in {"idle", "asking", "gone"}
  BY DEF HomeInv, OneAtATime
<1>. QED  BY <1>1 DEF HomeInv, Expected, Followers, With, Types, ClientTypes, Redirects

\* There is one home, where the presence record says, and nobody is expected elsewhere.
LEMMA Simulated ==
  ASSUME HomeInv, NEW s \in Homes
  PROVE  /\ Homes = {s} /\ presence # None /\ presence.shard = s
         /\ Followers = {} /\ \A r \in redirects : client[r.client].state = "gone"
  BY DEF HomeInv, HomeIsPresence, Expected

\* While a process knocks, the matchmaker is idle and no redirect is waited for.
LEMMA Knocks ==
  ASSUME Types, HomeInv, NEW c \in Clients, client[c].state = "connecting"
  PROVE  /\ Assigning = {} /\ \A r \in redirects : client[r.client].state = "gone"
         /\ \A d \in Clients \ {c} : client[d].state \in {"idle", "gone"}
<1>1. Assigning = {} /\ \A d \in Clients \ {c} : client[d].state \in {"idle", "gone"}
  BY DEF HomeInv, OneAtATime
<1>. QED  BY <1>1 DEF HomeInv, Expected, With, Types, ClientTypes, Redirects

\* A process that was with no shard, or ends, or stays with its shard, breaks no tie.
LEMMA StaysMoved ==
  ASSUME Types, Stays, UNCHANGED <<players, admitting>>, NEW c \in Clients, NEW next,
         client' = [client EXCEPT ![c] = next],
         client[c].state = "gone" => next.state = "gone",
         \A s \in Shards : With(c, s) =>
           \/ next.state = "gone"
           \/ next.state \in {"joining", "connected"} /\ next.shard = s
  PROVE  Stays'
<1>1. \A d \in Clients, s \in Shards : client[d].state = "gone" \/ With(d, s)
        => client'[d].state = "gone" \/ With(d, s)'
  BY DEF With, Types, ClientTypes
<1>. QED
  BY <1>1, SMTT(30) DEF Stays, Types, ShardTypes, Residents, Admits

-----------------------------------------------------------------------------
(* The steps, one process after the other.                                  *)

\* Steps that concern neither the player's entries, nor its record, nor a process.
LEMMA AsideHome ==
  ASSUME HomeInv, UNCHANGED <<presence, players, admitting, client, redirects, assigning>>,
         up \subseteq up', up' \subseteq registered'
  PROVE  HomeInv'
<1>1. Homes' = Homes  BY HomesKept
<1>2. Assigning' = Assigning /\ Followers' = Followers  BY DEF Assigning, Followers
<1>3. Entries'  BY <1>1 DEF HomeInv, Entries
<1>. QED
  BY <1>1, <1>2, <1>3
  DEF HomeInv, OneAtATime, Stays, HomeIsPresence, ReadsHold, Expected, With

\* Steps that take entries away.
LEMMA FewerHome ==
  ASSUME Types, HomeInv, UNCHANGED <<presence, registered, client, redirects, assigning>>,
         \A t \in Shards : players'[t] \subseteq players[t] /\ admitting'[t] \in {None, admitting[t]},
         up' \subseteq up, Homes' \subseteq up'
  PROVE  HomeInv'
<1>1. Homes' \subseteq Homes  BY DEF Homes, ResidentOn
<1>2. Assigning' = Assigning /\ Followers' = Followers  BY DEF Assigning, Followers
<1>3. OneAtATime'  BY <1>2 DEF HomeInv, OneAtATime
<1>4. Entries'  BY DEF HomeInv, Entries
<1>5. Stays'  BY DEF HomeInv, Stays, With
<1>6. HomeIsPresence'  BY <1>1 DEF HomeInv, HomeIsPresence
<1>7. ReadsHold'  BY <1>1, <1>2 DEF HomeInv, ReadsHold
<1>8. Expected'  BY <1>1, <1>2 DEF HomeInv, Expected, With
<1>. QED  BY <1>3, <1>4, <1>5, <1>6, <1>7, <1>8 DEF HomeInv

\* A player removed from its shard leaves a home behind, and takes none.
LEMMA RemoveHome ==
  ASSUME Types, HomeInv, NEW s \in Shards, NEW p \in players[s], remove_connection(s, p)
  PROVE  HomeInv'
<1>1. \A t \in Shards : players'[t] \subseteq players[t] /\ admitting'[t] = admitting[t]
  BY DEF remove_connection, Types, ShardTypes
<1>2. Homes' \subseteq Homes  BY <1>1 DEF Homes, ResidentOn
<1>. QED
  BY <1>1, <1>2, FewerHome DEF remove_connection, redisVars, clientVars, HomeInv, Entries

\* A crash empties the homes of one shard.
LEMMA CrashHome ==
  ASSUME Types, HomeInv, NEW s \in Shards, crash(s)
  PROVE  HomeInv'
<1>1. /\ \A t \in Shards : players'[t] \subseteq players[t] /\ admitting'[t] \in {None, admitting[t]}
      /\ players'[s] = {} /\ admitting'[s] = None
  BY DEF crash, Types, ShardTypes
<1>2. Homes' \subseteq Homes \ {s}  BY <1>1 DEF Homes, ResidentOn
<1>. QED
  BY <1>1, <1>2, FewerHome DEF crash, redisVars, clientVars, HomeInv, Entries

\* A process ends.
LEMMA EndsHome ==
  ASSUME Types, HomeInv, NEW c \in Clients, client' = [client EXCEPT ![c] = Gone],
         redirects' \subseteq redirects,
         UNCHANGED <<presence, registered, up, players, admitting, assigning>>
  PROVE  HomeInv'
<1>1. Homes' = Homes /\ Assigning' = Assigning  BY HomesKept DEF Assigning
<1>2. client'[c].state = "gone" /\ \A d \in Clients \ {c} : client'[d] = client[d]
  BY DEF Gone, Types, ClientTypes
<1>3. OneAtATime'
  BY <1>1, <1>2 DEF HomeInv, OneAtATime
<1>4. Stays'
  <2>1. Gone.state = "gone"  BY DEF Gone
  <2>. QED  BY <2>1, StaysMoved, Zenon DEF HomeInv
<1>5. Expected'
  <2>1. Followers' \subseteq Followers \ {c}  BY <1>2 DEF Followers
  <2>2. \A d \in Clients : \A s : With(d, s) => client'[d].state = "gone" \/ With(d, s)'
    BY <1>2 DEF With
  <2>3. \A r \in redirects : r.client \in Clients  BY DEF Types, ClientTypes, Redirects
  <2>4. \A d \in Followers' : d \in Followers /\ client'[d] = client[d]
    BY <1>2, <2>1 DEF Followers
  <2>. QED  BY <1>1, <1>2, <2>2, <2>3, <2>4 DEF HomeInv, Expected
<1>. QED  BY <1>1, <1>3, <1>4, <1>5 DEF HomeInv, Entries, HomeIsPresence, ReadsHold

\* A client asks for a session only when no other plays.
LEMMA RequestHome ==
  ASSUME Types, OneByOne, HomeInv, NEW c \in Clients, request_session(c)
  PROVE  HomeInv'
<1>1. Homes' = Homes /\ Assigning' = Assigning
  BY HomesKept DEF request_session, shardVars, Assigning
<1>2. /\ client[c].state = "idle" /\ client'[c].state = "asking"
      /\ \A d \in Clients \ {c} : client'[d] = client[d] /\ client[d].state \in {"idle", "gone"}
  BY DEF request_session, OneByOne, Idle, Gone, Asking, Types, ClientTypes
<1>3. OneAtATime'
  BY <1>1, <1>2 DEF HomeInv, OneAtATime
<1>4. Stays'
  <2>1. \A t \in Shards : ~With(c, t)  BY <1>2 DEF With
  <2>. QED  BY <1>2, <2>1, StaysMoved, Zenon DEF HomeInv, request_session, shardVars
<1>5. Expected'
  <2>1. Followers' = {}  BY <1>2 DEF Followers
  <2>2. \A r \in redirects : r.client \in Clients /\ client'[r.client].state = "gone"
    BY <1>2 DEF HomeInv, Expected, With, Types, ClientTypes, Redirects
  <2>. QED  BY <2>1, <2>2 DEF Expected, request_session
<1>. QED
  BY <1>1, <1>3, <1>4, <1>5
  DEF HomeInv, Entries, HomeIsPresence, ReadsHold, request_session, redisVars, shardVars

\* A client whose connection is accepted stays with its shard.
LEMMA AcceptedHome ==
  ASSUME Types, HomeInv, NEW c \in Clients, connection_accepted(c)
  PROVE  HomeInv'
<1>1. Homes' = Homes /\ Assigning' = Assigning
  BY HomesKept DEF connection_accepted, shardVars, Assigning
<1>2. /\ client[c].state = "joining" /\ client'[c].state = "connected"
      /\ client'[c].shard = client[c].shard
      /\ \A d \in Clients \ {c} : client'[d] = client[d]
  BY DEF connection_accepted, Joined, Types, ClientTypes
<1>3. OneAtATime'
  BY <1>1, <1>2 DEF HomeInv, OneAtATime
<1>4. \A d \in Clients : \A s : /\ With(d, s) => With(d, s)'
                                /\ client[d].state = "gone" => client'[d].state = "gone"
  BY <1>2 DEF With
<1>5. Stays'
  BY <1>4, SMTT(30)
  DEF HomeInv, Stays, connection_accepted, shardVars, Types, ShardTypes, Residents, Admits
<1>6. Expected'
  <2>1. Followers' = Followers /\ \A d \in Followers : client'[d] = client[d]
    BY <1>2 DEF Followers
  <2>. QED
    BY <1>1, <1>4, <2>1
    DEF HomeInv, Expected, connection_accepted, redisVars, Types, ClientTypes, Redirects
<1>. QED
  BY <1>1, <1>3, <1>5, <1>6
  DEF HomeInv, Entries, HomeIsPresence, ReadsHold, connection_accepted, redisVars, shardVars

\* The matchmaker goes on to its next round trip for c.
LEMMA ProceedHome ==
  ASSUME Types, HomeInv, NEW c \in Clients, Assigning \subseteq {c},
         \A d \in Clients : client[d].state \in {"idle", "asking", "gone"},
         NEW next, Proceed(c, next), HomeIsPresence',
         next.step = "lookup" => Homes \subseteq next.live,
         next.step \in {"clear", "claim"} => Homes = {},
         next.step = "write_back" => Homes \subseteq {next.existing.shard},
         UNCHANGED <<registered, up, players, admitting, client, redirects>>
  PROVE  HomeInv'
<1>1. Homes' = Homes  BY HomesKept
<1>2. assigning'[c] = next /\ \A d \in Clients \ {c} : assigning'[d] = assigning[d]
  BY DEF Proceed, Types, ClientTypes
<1>3. Assigning' \subseteq {c}  BY <1>2 DEF Assigning
<1>4. OneAtATime'  BY <1>3 DEF HomeInv, OneAtATime
<1>5. ReadsHold'  BY <1>1, <1>2, <1>3 DEF ReadsHold
<1>6. Expected'
  <2>1. Followers' = {}  BY DEF Followers
  <2>2. \A r \in redirects : client[r.client].state = "gone"
    BY DEF HomeInv, Expected, With, Types, ClientTypes, Redirects
  <2>. QED  BY <2>1, <2>2 DEF Expected
<1>7. Stays'  BY DEF HomeInv, Stays, With
<1>. QED  BY <1>1, <1>4, <1>5, <1>6, <1>7 DEF HomeInv, Entries

\* assign reads the record: if there is none, or its shard is dead, the player is
\* at home nowhere.
LEMMA LookupHome ==
  ASSUME Types, HomeInv, NEW c \in Clients, assign_get_presence(c)
  PROVE  HomeInv'
<1>. DEFINE live == assigning[c].live
            next == IF presence = None THEN [step |-> "claim", live |-> live]
                    ELSE IF presence.shard \in live
                    THEN [step |-> "write_back", existing |-> presence]
                    ELSE [step |-> "clear", live |-> live]
<1>1. c \in Assigning /\ Assigning \subseteq {c}
  BY DEF Assigning, assign_get_presence, At, HomeInv, OneAtATime
<1>2. Homes \subseteq live
  BY <1>1 DEF HomeInv, ReadsHold, assign_get_presence, At
<1>3. /\ next.step \in {"claim", "clear"} => Homes = {}
      /\ next.step = "write_back" => Homes \subseteq {next.existing.shard}
      /\ next.step # "lookup"
  <2>1. CASE presence = None  BY <2>1 DEF HomeInv, HomeIsPresence
  <2>2. CASE presence # None /\ presence.shard \in live  BY <2>2 DEF HomeInv, HomeIsPresence
  <2>3. CASE presence # None /\ presence.shard \notin live
    BY <1>2, <2>3 DEF HomeInv, HomeIsPresence
  <2>. QED  BY <2>1, <2>2, <2>3
<1>4. UNCHANGED <<presence, registered, up, players, admitting, client, redirects>>
  BY DEF assign_get_presence, redisVars, shardVars, clientVars
<1>5. HomeIsPresence'  BY <1>4, HomesKept DEF HomeInv, HomeIsPresence
<1>6. Proceed(c, next)  BY DEF assign_get_presence
<1>. HIDE DEF next
<1>. QED  BY <1>1, <1>3, <1>4, <1>5, <1>6, Busy, ProceedHome

\* assign clears a record whose shard is dead, which is nobody's home.
LEMMA ClearHome ==
  ASSUME Types, HomeInv, NEW c \in Clients, assign_clear_presence(c)
  PROVE  HomeInv'
<1>1. c \in Assigning /\ Assigning \subseteq {c}
  BY DEF Assigning, assign_clear_presence, At, HomeInv, OneAtATime
<1>2. Homes = {}  BY <1>1 DEF HomeInv, ReadsHold, assign_clear_presence, At
<1>3. UNCHANGED <<registered, up, players, admitting, client, redirects>>
  BY DEF assign_clear_presence, shardVars, clientVars
<1>4. HomeIsPresence'  BY <1>2, <1>3, HomesKept DEF HomeIsPresence
<1>. DEFINE next == [step |-> "claim", live |-> assigning[c].live]
<1>5. next.step = "claim"  OBVIOUS
<1>6. Proceed(c, next)  BY DEF assign_clear_presence
<1>. HIDE DEF next
<1>. QED  BY <1>1, <1>2, <1>3, <1>4, <1>5, <1>6, Busy, ProceedHome

\* The matchmaker's answer ends a request, or sends the process to a shard.
LEMMA AnswerHome ==
  ASSUME Types, HomeInv, NEW c \in Assigning, NEW next,
         next.state = "gone" \/ (next.state = "connecting" /\ next.kind = "session"),
         Answer(c, next), HomeIsPresence',
         UNCHANGED <<registered, up, players, admitting, redirects>>
  PROVE  HomeInv'
<1>1. Homes' = Homes  BY HomesKept
<1>2. c \in Clients  BY DEF Assigning
<1>3. /\ Assigning' = {}
      /\ \/ client' = client
         \/ client[c].state = "asking" /\ client' = [client EXCEPT ![c] = next]
  <2>1. assigning'[c].step = "idle" /\ \A d \in Clients \ {c} : assigning'[d] = assigning[d]
    BY <1>2 DEF Answer, Proceed, NoAssign, Types, ClientTypes
  <2>2. \A d \in Assigning : d = c
    BY DEF HomeInv, OneAtATime
  <2>3. Assigning' = {}
    BY <2>1, <2>2 DEF Assigning
  <2>4. CASE client[c] = Asking
    BY <2>3, <2>4 DEF Answer, Asking
  <2>5. CASE client[c] # Asking
    <3>1. client' = [client EXCEPT ![c] = client[c]]  BY <2>5 DEF Answer
    <3>2. client' = client  BY <1>2, <3>1 DEF Types, ClientTypes
    <3>. QED  BY <2>3, <3>2
  <2>. QED  BY <2>4, <2>5
<1>4. CASE client' = client
  <2>1. OneAtATime'  BY <1>3, <1>4 DEF HomeInv, OneAtATime
  <2>2. Stays'  BY <1>4 DEF HomeInv, Stays, With
  <2>3. Expected'  BY <1>4, Busy DEF Expected, Followers
  <2>. QED  BY <1>1, <1>3, <2>1, <2>2, <2>3 DEF HomeInv, Entries, ReadsHold
<1>5. CASE client[c].state = "asking" /\ client' = [client EXCEPT ![c] = next]
  <2>1. client'[c] = next /\ \A d \in Clients \ {c} : client'[d] = client[d]
    BY <1>2, <1>5 DEF Types, ClientTypes
  <2>2. \A d \in Clients \ {c} : client[d].state \in {"idle", "gone"}
    BY <1>2, <1>5 DEF HomeInv, OneAtATime
  <2>3. OneAtATime'
    BY <1>3, <2>1, <2>2 DEF OneAtATime
  <2>4. Stays'
    <3>1. \A t \in Shards : ~With(c, t)  BY <1>5 DEF With
    <3>. QED  BY <1>2, <1>5, <3>1, StaysMoved, Zenon DEF HomeInv
  <2>5. Expected'
    <3>1. Followers' = {}  BY <2>1, <2>2 DEF Followers
    <3>2. \A r \in redirects : r.client \in Clients /\ r.client # c
      BY <1>5, Busy DEF Types, ClientTypes, Redirects
    <3>. QED  BY <2>1, <3>1, <3>2, Busy DEF Expected
  <2>. QED  BY <1>1, <1>3, <2>3, <2>4, <2>5 DEF HomeInv, Entries, ReadsHold
<1>. QED  BY <1>3, <1>4, <1>5
=============================================================================
