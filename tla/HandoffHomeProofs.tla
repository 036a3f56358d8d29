------------------------- MODULE HandoffHomeProofs -------------------------
(***************************************************************************)
(* Proofs about Handoff, continued: a player whose processes follow one    *)
(* another is simulated by one shard at most.                              *)
(***************************************************************************)
EXTENDS HandoffTicketProofs, FiniteSetTheorems

-----------------------------------------------------------------------------
(* The steps of the matchmaker.                                             *)

\* With one matchmaker, a process whose turn it is finds it free.
LEMMA MatchmakerFree ==
  ASSUME OneByOne, deployment \in Deployments,
         Cardinality({d \in Clients : ~At(d, "idle")}) < Matchmakers
  PROVE  Assigning = {}
<1>1. Assigning = {d \in Clients : ~At(d, "idle")}  BY DEF Assigning, At
<1>2. IsFiniteSet(Assigning)  BY FS_Subset, HandoffAssumption DEF Assigning
<1>3. Cardinality(Assigning) \in Nat  BY <1>2, FS_CardinalityType
<1>4. Cardinality(Assigning) = 0
  BY <1>1, <1>3, HandoffAssumption DEF OneByOne, Matchmakers
<1>. QED  BY <1>2, <1>4, FS_EmptySet

\* assign's first step lists the live shards: a home is registered, so it is
\* among them.
LEMMA LiveShardsHome ==
  ASSUME Types, OneByOne, deployment \in Deployments, HomeInv, NEW c \in Clients,
         assign_live_shards(c)
  PROVE  HomeInv'
<1>1. CASE client' = [client EXCEPT ![c] = Gone] /\ UNCHANGED assigning
  BY <1>1, EndsHome, Zenon DEF assign_live_shards, redisVars, shardVars
<1>2. CASE Proceed(c, [step |-> "lookup", live |-> registered]) /\ UNCHANGED client
  <2>1. Assigning = {}  BY MatchmakerFree DEF assign_live_shards
  <2>2. \A d \in Clients : client[d].state \in {"idle", "asking", "gone"}
    BY DEF assign_live_shards, Asking, HomeInv, OneAtATime
  <2>3. Homes \subseteq registered  BY DEF HomeInv, Entries
  <2>4. UNCHANGED <<presence, registered, up, players, admitting, client, redirects>>
    BY <1>2 DEF assign_live_shards, redisVars, shardVars
  <2>5. HomeIsPresence'  BY <2>4, HomesKept DEF HomeInv, HomeIsPresence
  <2>. DEFINE next == [step |-> "lookup", live |-> registered]
  <2>6. next.step = "lookup" /\ next.live = registered  OBVIOUS
  <2>. HIDE DEF next
  <2>. QED  BY <1>2, <2>1, <2>2, <2>3, <2>4, <2>5, <2>6, ProceedHome DEF next
<1>. QED  BY <1>1, <1>2 DEF assign_live_shards

\* A grant ends an assignment and sends the client to the shard it names.
LEMMA GrantHome ==
  ASSUME Types, HomeInv, NEW c \in Assigning, NEW s, NEW session, Grant(c, s, session),
         HomeIsPresence', UNCHANGED <<registered, up, players, admitting, redirects>>
  PROVE  HomeInv'
<1>. DEFINE next == IF session = NoSession THEN Gone ELSE Connecting(s, "session", session)
<1>1. next.state = "gone" \/ (next.state = "connecting" /\ next.kind = "session")
  <2>1. Gone.state = "gone"  BY DEF Gone
  <2>2. /\ Connecting(s, "session", session).state = "connecting"
        /\ Connecting(s, "session", session).kind = "session"
    BY DEF Connecting
  <2>. QED  BY <2>1, <2>2
<1>2. Answer(c, next)  BY DEF Grant
<1>. HIDE DEF next
<1>. QED  BY <1>1, <1>2, AnswerHome

\* assign sends a player with a record back to the shard it was read from, the
\* only home there may be.
LEMMA WriteBackHome ==
  ASSUME Types, HomeInv, NEW c \in Clients, assign_write_back(c)
  PROVE  HomeInv'
<1>1. Homes' = Homes  BY HomesKept DEF assign_write_back, shardVars
<1>2. c \in Assigning  BY DEF Assigning, assign_write_back, At
<1>3. HomeIsPresence'
  <2>1. assigning[c].existing \in PresenceRecord
    BY DEF Types, ClientTypes, AssignStates, assign_write_back, At
  <2>2. Homes \subseteq {assigning[c].existing.shard}
    BY <1>2 DEF HomeInv, ReadsHold, assign_write_back, At
  <2>. QED  BY <1>1, <2>1, <2>2, PresenceAssumption DEF HomeIsPresence, assign_write_back
<1>. QED  BY <1>2, <1>3, GrantHome DEF assign_write_back, shardVars

\* assign claims a record for a player that is at home nowhere.
LEMMA ClaimHome ==
  ASSUME Types, HomeInv, NEW c \in Clients, assign_claim(c)
  PROVE  HomeInv'
<1>1. Homes' = Homes  BY HomesKept DEF assign_claim, shardVars
<1>2. c \in Assigning  BY DEF Assigning, assign_claim, At
<1>3. HomeIsPresence'
  <2>1. Homes = {}  BY <1>2 DEF HomeInv, ReadsHold, assign_claim, At
  <2>. QED  BY <1>1, <2>1 DEF HomeIsPresence
<1>4. UNCHANGED <<registered, up, players, admitting, redirects>>
  BY DEF assign_claim, shardVars, redisVars
<1>5. CASE \E s, session : Grant(c, s, session)
  BY <1>2, <1>3, <1>4, <1>5, GrantHome
<1>6. CASE Answer(c, Gone)
  <2>1. Gone.state = "gone"  BY DEF Gone
  <2>. QED  BY <1>2, <1>3, <1>4, <1>6, <2>1, AnswerHome
<1>7. CASE \E s : Proceed(c, [step |-> "owned", winner |-> s]) /\ UNCHANGED client
  <2>1. PICK s : Proceed(c, [step |-> "owned", winner |-> s]) /\ UNCHANGED client
    BY <1>7, Zenon
  <2>. DEFINE next == [step |-> "owned", winner |-> s]
  <2>2. next.step = "owned"  OBVIOUS
  <2>3. Assigning \subseteq {c}  BY <1>2 DEF HomeInv, OneAtATime
  <2>. HIDE DEF next
  <2>. QED  BY <1>2, <1>3, <1>4, <2>1, <2>2, <2>3, Busy, ProceedHome DEF next
<1>. QED  BY <1>5, <1>6, <1>7 DEF assign_claim

\* A lost claim follows the winner's record, and a full cluster turns the client
\* away.
LEMMA OwnedHome ==
  ASSUME Types, HomeInv, NEW c \in Clients, assign_get_owned(c) \/ assign_full(c)
  PROVE  HomeInv'
<1>1. Homes' = Homes  BY HomesKept DEF assign_get_owned, assign_full, shardVars
<1>2. c \in Assigning  BY DEF Assigning, assign_get_owned, assign_full, At
<1>3. HomeIsPresence'
  BY <1>1 DEF HomeInv, HomeIsPresence, assign_get_owned, assign_full, redisVars
<1>4. UNCHANGED <<registered, up, players, admitting, redirects>>
  BY DEF assign_get_owned, assign_full, shardVars, redisVars
<1>5. CASE assign_get_owned(c)
  BY <1>2, <1>3, <1>4, <1>5, GrantHome DEF assign_get_owned
<1>6. CASE assign_full(c)
  <2>1. Gone.state = "gone"  BY DEF Gone
  <2>. QED  BY <1>2, <1>3, <1>4, <1>6, <2>1, AnswerHome DEF assign_full
<1>. QED  BY <1>5, <1>6

\* A session connects: the shard admits it and becomes a home.
LEMMA ConnectHome ==
  ASSUME Types, HomeInv, NEW s \in Shards, on_connect(s)
  PROVE  HomeInv'
<1>1. s \in Homes  BY DEF on_connect, Homes
<1>2. Homes' \subseteq Homes  BY <1>1 DEF Homes, ResidentOn, Types, ShardTypes, on_connect
<1>3. PICK region \in Regions :
        /\ players' = [players EXCEPT ![s] =
             {[client |-> admitting[s].client, region |-> region,
               session |-> admitting[s].token, redirecting |-> FALSE]}]
        /\ presence' = [shard |-> s, region |-> region, session |-> admitting[s].token]
  BY ConnectEffect
<1>4. presence' # None
  <2>1. admitting[s] \in Admits  BY DEF Types, ShardTypes, on_connect
  <2>2. presence' \in PresenceRecord  BY <1>3, <2>1 DEF Admits, PresenceRecord
  <2>. QED  BY <2>2, PresenceAssumption
<1>5. OneAtATime'
  BY DEF HomeInv, OneAtATime, Assigning, on_connect, clientVars
<1>6. Entries'
  <2>1. \A t \in Shards : \A p, q \in players'[t] : p = q
    BY <1>3, Zenon DEF HomeInv, Entries, Types, ShardTypes
  <2>. QED  BY <1>2, <2>1 DEF HomeInv, Entries, on_connect
<1>7. Stays'
  <2>1. \A d, t : With(d, t)' <=> With(d, t)
    BY DEF With, on_connect, clientVars
  <2>2. client[admitting[s].client].state = "gone" \/ With(admitting[s].client, s)
    BY DEF HomeInv, Stays, on_connect
  <2>3. \A t \in Shards : \A p \in players'[t] :
          p.redirecting \/ client[p.client].state = "gone" \/ With(p.client, t)
    BY <1>3, <2>2 DEF HomeInv, Stays, Types, ShardTypes
  <2>4. \A t \in Shards : admitting'[t] # None => admitting'[t] = admitting[t]
    BY DEF on_connect, Types, ShardTypes
  <2>. QED  BY <2>1, <2>3, <2>4 DEF HomeInv, Stays, on_connect, clientVars
<1>8. HomeIsPresence'
  BY <1>1, <1>2, <1>3, <1>4, Simulated DEF HomeIsPresence
<1>9. ReadsHold'
  BY <1>2 DEF HomeInv, ReadsHold, Assigning, on_connect
<1>10. Expected'
  BY <1>1, Simulated, Zenon DEF Expected, Followers, With, on_connect, clientVars
<1>. QED  BY <1>5, <1>6, <1>7, <1>8, <1>9, <1>10 DEF HomeInv

\* A process that is let in where the presence record says the player is.
LEMMA AdmittedHome ==
  ASSUME Types, HomeInv, NEW c \in Clients, NEW s \in Shards, Knocking(c, s),
         NEW region, NEW token, NEW has_ticket, Admitted(c, s, region, token, has_ticket),
         presence # None, presence.shard = s,
         UNCHANGED <<presence, registered, up, players, assigning, redirects>>
  PROVE  HomeInv'
<1>1. Homes' \subseteq {s}
  BY DEF HomeInv, HomeIsPresence, Homes, ResidentOn, Admitted, Types, ShardTypes
<1>2. client[c].state = "connecting" /\ s \in up  BY DEF Knocking, Ready
<1>3. Assigning' = {}  BY <1>2, Knocks DEF Assigning
<1>4. OneAtATime'
  BY <1>2, <1>3, Knocks DEF OneAtATime, Admitted, Joining, Types, ClientTypes
<1>5. Entries'
  BY <1>1, <1>2 DEF HomeInv, Entries
<1>6. Stays'
  <2>1. /\ client'[c].state = "joining" /\ client'[c].shard = s
        /\ \A d \in Clients \ {c} : client'[d] = client[d]
    BY DEF Admitted, Joining, Types, ClientTypes
  <2>2. /\ admitting'[s].client = c
        /\ \A t \in Shards \ {s} : admitting'[t] = admitting[t]
    BY DEF Admitted, Types, ShardTypes
  <2>3. \A d \in Clients, t \in Shards : client[d].state = "gone" \/ With(d, t)
          => client'[d].state = "gone" \/ With(d, t)'
    BY <1>2, <2>1 DEF With
  <2>4. With(c, s)'
    BY <2>1 DEF With
  <2>5. \A t \in Shards : \A p \in players[t] : p.client \in Clients
    BY DEF Types, ShardTypes, Residents
  <2>6. \A t \in Shards : admitting[t] # None => admitting[t].client \in Clients
    BY DEF Types, ShardTypes, Admits
  <2>. QED  BY <2>2, <2>3, <2>4, <2>5, <2>6, Zenon DEF HomeInv, Stays
<1>7. HomeIsPresence'
  BY <1>1 DEF HomeIsPresence
<1>8. ReadsHold'
  BY <1>3 DEF ReadsHold
<1>9. Expected'
  <2>1. /\ client'[c].state = "joining"
        /\ \A d \in Clients \ {c} : client'[d] = client[d]
    BY DEF Admitted, Joining, Types, ClientTypes
  <2>2. Followers' = {}
    BY <1>2, <2>1, Knocks DEF Followers
  <2>3. \A r \in redirects : r.client \in Clients
    BY DEF Types, ClientTypes, Redirects
  <2>. QED  BY <1>2, <2>1, <2>2, <2>3, Knocks DEF Expected
<1>. QED  BY <1>4, <1>5, <1>6, <1>7, <1>8, <1>9 DEF HomeInv

\* on_connect makes the admitted client a resident of the same home.
LEMMA AdmitHome ==
  ASSUME Types, HomeInv, NEW c \in Clients, NEW s \in Shards,
         admit_full(c, s) \/ admit_session(c, s) \/ admit_ticket(c, s)
  PROVE  HomeInv'
<1>1. CASE admit_full(c, s)
  BY <1>1, EndsHome, Zenon DEF admit_full, Denied, redisVars, shardVars
<1>2. CASE admit_session(c, s)
  BY <1>2, EndsHome, AdmittedHome, Zenon DEF admit_session, Denied, redisVars
<1>3. CASE admit_ticket(c, s)
  <2>1. Knocking(c, s) /\ UNCHANGED <<presence, registered, up, players, assigning, redirects>>
    BY <1>3 DEF admit_ticket
  <2>2. c \in Followers
    BY <1>3 DEF Followers, admit_ticket, Knocking
  <2>3. presence # None /\ presence.shard = s
    BY <2>1, <2>2 DEF HomeInv, Expected, Knocking
  <2>4. CASE Denied(c) /\ UNCHANGED admitting
    BY <2>1, <2>4, EndsHome, Zenon DEF Denied
  <2>5. CASE \E t \in Tickets : Admitted(c, s, t.region, t.token, TRUE)
    BY <2>1, <2>3, <2>5, AdmittedHome, Zenon
  <2>. QED  BY <1>3, <2>4, <2>5, AdmitTicketEffect, Zenon
<1>. QED  BY <1>1, <1>2, <1>3

\* refresh_presence writes the record of a resident, which is where it was.
LEMMA TouchHome ==
  ASSUME Types, HomeInv, NEW s \in Shards, refresh_presence(s)
  PROVE  HomeInv'
<1>1. Homes' = Homes  BY HomesKept DEF refresh_presence, shardVars
<1>2. s \in Homes  BY DEF refresh_presence, Homes, ResidentOn
<1>3. HomeIsPresence'
  <2>1. presence' \in PresenceRecord /\ presence'.shard = s
    BY DEF refresh_presence, set_presence, PresenceRecord, Types, ShardTypes, Residents
  <2>. QED  BY <1>1, <1>2, <2>1, Simulated, PresenceAssumption DEF HomeIsPresence
<1>4. UNCHANGED <<registered, up, players, admitting, client, redirects, assigning>>
  BY DEF refresh_presence, shardVars, clientVars
<1>5. Assigning' = Assigning /\ Followers' = Followers  BY <1>4 DEF Assigning, Followers
<1>6. Expected'  BY <1>2, <1>4, <1>5, Simulated DEF Expected
<1>7. Stays'  BY <1>4 DEF HomeInv, Stays, With
<1>. QED
  BY <1>1, <1>3, <1>4, <1>5, <1>6, <1>7 DEF HomeInv, OneAtATime, Entries, ReadsHold

\* The migrate script moves the record as the source starts to redirect: the
\* player has no home until the client follows.
LEMMA MigrateHome ==
  ASSUME Types, OneByOne, HomeInv, NEW s \in Shards, NEW p \in players[s],
         NEW target \in Regions, check_migrations(s, p, target)
  PROVE  HomeInv'
<1>1. s \in Homes  BY DEF check_migrations, Homes, ResidentOn
<1>0. ~ReplyLoss  BY DEF OneByOne
<1>2. PICK q \in Residents :
        /\ q.client = p.client
        /\ players' = [players EXCEPT ![s] = (@ \ {p}) \cup {q}]
        /\ \/ UNCHANGED <<presence, tickets, tokens, redirects>>
           \/ /\ q.redirecting
              /\ \E t \in Tickets :
                   /\ presence' \in PresenceRecord /\ presence'.shard = t.to
                   /\ redirects' = redirects \cup
                        {[client |-> p.client, from |-> s, ticket |-> t]}
  <2>1. PICK q \in Residents :
          /\ q.client = p.client
          /\ \/ /\ players' = [players EXCEPT ![s] = (@ \ {p}) \cup {q}]
                /\ UNCHANGED <<presence, tickets, tokens, redirects>>
             \/ \E t \in Tickets :
                  /\ presence' \in PresenceRecord /\ presence'.shard = t.to
                  /\ q.redirecting
                  /\ players' = [players EXCEPT ![s] = (@ \ {p}) \cup {q}]
                  /\ redirects' = redirects \cup
                       {[client |-> p.client, from |-> s, ticket |-> t]}
    BY <1>0, MigrateEffect
  <2>. QED  BY <2>1
<1>3. /\ p \in Residents /\ ~p.redirecting /\ admitting[s] = None
      /\ UNCHANGED <<registered, up, admitting, assigning, client>>
  BY MigrateEffect DEF check_migrations
<1>4. players'[s] = {q} /\ \A t \in Shards \ {s} : players'[t] = players[t]
  BY <1>2 DEF HomeInv, Entries, Types, ShardTypes
<1>5. Homes' \subseteq Homes
  BY <1>1, <1>3, <1>4 DEF Homes, ResidentOn
<1>6. client[p.client].state = "gone" \/ With(p.client, s)
  BY <1>3 DEF HomeInv, Stays
<1>7. OneAtATime'
  BY <1>3 DEF HomeInv, OneAtATime, Assigning
<1>8. Entries'
  <2>1. \A t \in Shards : \A a, b \in players'[t] : a = b
    BY <1>4 DEF HomeInv, Entries
  <2>. QED  BY <1>3, <1>5, <2>1 DEF HomeInv, Entries
<1>9. Stays'
  <2>1. \A d, t : With(d, t)' <=> With(d, t)
    BY <1>3 DEF With
  <2>2. \A t \in Shards : \A a \in players'[t] :
          a.redirecting \/ client[a.client].state = "gone" \/ With(a.client, t)
    BY <1>2, <1>4, <1>6 DEF HomeInv, Stays
  <2>. QED  BY <1>3, <2>1, <2>2 DEF HomeInv, Stays
<1>10. CASE UNCHANGED <<presence, tickets, tokens, redirects>>
  <2>1. HomeIsPresence' /\ ReadsHold' /\ Expected'
    BY <1>1, <1>3, <1>5, <1>10, Simulated
    DEF HomeInv, HomeIsPresence, ReadsHold, Assigning, Expected, Followers, With
  <2>. QED  BY <1>7, <1>8, <1>9, <2>1 DEF HomeInv
<1>11. CASE /\ q.redirecting
            /\ \E t \in Tickets :
                 /\ presence' \in PresenceRecord /\ presence'.shard = t.to
                 /\ redirects' = redirects \cup
                      {[client |-> p.client, from |-> s, ticket |-> t]}
  <2>1. Homes' = {}
    <3>1. s \notin Homes'  BY <1>3, <1>4, <1>11 DEF Homes, ResidentOn
    <3>2. Homes = {s}  BY <1>1, Simulated
    <3>. QED  BY <1>5, <3>1, <3>2
  <2>2. HomeIsPresence' /\ ReadsHold'
    BY <2>1 DEF HomeIsPresence, ReadsHold
  <2>3. Expected'
    <3>1. Followers' = {}  BY <1>1, <1>3, Simulated DEF Followers
    <3>2. \A d, t : With(d, t)' <=> With(d, t)  BY <1>3 DEF With
    <3>3. presence' # None  BY <1>11, PresenceAssumption
    <3>4. PICK t \in Tickets :
            /\ presence'.shard = t.to
            /\ redirects' = redirects \cup {[client |-> p.client, from |-> s, ticket |-> t]}
      BY <1>11
    <3>5. ASSUME NEW r \in redirects'
          PROVE  \/ client[r.client].state = "gone"
                 \/ With(r.client, r.from) /\ presence'.shard = r.ticket.to
      <4>1. CASE r \in redirects  BY <1>1, <4>1, Simulated
      <4>2. CASE r = [client |-> p.client, from |-> s, ticket |-> t]
        BY <1>6, <3>4, <4>2
      <4>. QED  BY <3>4, <4>1, <4>2
    <3>. QED  BY <1>3, <2>1, <3>1, <3>2, <3>3, <3>5 DEF Expected
  <2>. QED  BY <1>7, <1>8, <1>9, <2>2, <2>3 DEF HomeInv
<1>. QED  BY <1>2, <1>10, <1>11

\* A client that follows its redirect is expected where it goes.
LEMMA FollowHome ==
  ASSUME Types, HomeInv, NEW c \in Clients, apply_redirect(c)
  PROVE  HomeInv'
<1>1. Homes' = Homes  BY HomesKept DEF apply_redirect, shardVars
<1>2. PICK r \in redirects :
        /\ client[c].state = "connected" /\ r.client = c /\ r.from = client[c].shard
        /\ client' = [client EXCEPT ![c] = Connecting(r.ticket.to, "ticket", r.ticket.token)]
  BY Zenon DEF apply_redirect
<1>3. Homes = {} /\ presence # None /\ presence.shard = r.ticket.to
  BY <1>2 DEF HomeInv, Expected
<1>4. /\ client'[c].state = "connecting" /\ client'[c].shard = r.ticket.to
      /\ \A d \in Clients \ {c} : client'[d] = client[d] /\ client[d].state \in {"idle", "gone"}
  BY <1>2 DEF Connecting, Types, ClientTypes, HomeInv, OneAtATime
<1>5. OneAtATime'
  <2>1. Assigning' = {}  BY <1>2 DEF HomeInv, OneAtATime, Assigning, apply_redirect
  <2>. QED  BY <1>4, <2>1 DEF OneAtATime
<1>6. Stays'
  <2>1. \A s \in Shards : admitting[s] = None /\ \A p \in players[s] : p.redirecting
    BY <1>3 DEF Homes, ResidentOn
  <2>. QED  BY <2>1 DEF Stays, apply_redirect, shardVars
<1>7. Expected'
  <2>1. Followers' \subseteq {c}  BY <1>4 DEF Followers
  <2>2. \A q \in redirects' : client'[q.client].state = "gone"
    <3>. SUFFICES ASSUME NEW q \in redirects' PROVE client'[q.client].state = "gone"
      OBVIOUS
    <3>1. q \in redirects /\ q.client # c  BY DEF apply_redirect
    <3>2. q.client \in Clients  BY <3>1 DEF Types, ClientTypes, Redirects
    <3>. QED  BY <1>4, <3>1, <3>2 DEF HomeInv, Expected, With
  <2>3. UNCHANGED presence  BY DEF apply_redirect, redisVars
  <2>. QED  BY <1>1, <1>3, <1>4, <2>1, <2>2, <2>3 DEF Expected
<1>. QED
  BY <1>1, <1>5, <1>6, <1>7
  DEF HomeInv, Entries, HomeIsPresence, ReadsHold, Assigning, apply_redirect, redisVars,
      shardVars

\* A record expires only while no shard touches it.
LEMMA PresenceHome ==
  ASSUME Types, HomeInv, presence_expires
  PROVE  HomeInv'
<1>1. Homes' = {} /\ Homes = {}  BY DEF Homes, ResidentOn, presence_expires, shardVars
<1>2. UNCHANGED <<players, admitting, client, redirects, assigning, up, registered>>
  BY DEF presence_expires, shardVars, clientVars
<1>3. \A d \in Clients : client[d].state \in {"idle", "asking", "gone"}
  BY DEF presence_expires, Idle, Asking, Gone
<1>4. Expected'
  <2>1. Followers' = {}  BY <1>2, <1>3 DEF Followers
  <2>2. \A r \in redirects : client[r.client].state = "gone"
    BY <1>3 DEF HomeInv, Expected, With, Types, ClientTypes, Redirects
  <2>. QED  BY <1>2, <2>1, <2>2 DEF Expected
<1>5. OneAtATime' /\ Stays'
  BY <1>2, SMTT(30) DEF HomeInv, OneAtATime, Assigning, Stays, With
<1>6. Entries' /\ HomeIsPresence' /\ ReadsHold'
  BY <1>1, <1>2 DEF HomeInv, Entries, HomeIsPresence, ReadsHold, Assigning
<1>. QED  BY <1>4, <1>5, <1>6 DEF HomeInv

-----------------------------------------------------------------------------
(* The inductive step.                                                      *)

\* Every step of a sequential deployment keeps the invariant: one case per
\* action.
LEMMA HomeStep ==
  ASSUME Types, deployment \in Deployments, OneByOne, HomeInv, Next
  PROVE  HomeInv'
<1>1. ~release  BY DEF release, OneByOne
<1>2. CASE Matchmaking
  BY <1>1, <1>2, RequestHome, LiveShardsHome, LookupHome, WriteBackHome, ClearHome,
     ClaimHome,
     OwnedHome, Zenon DEF Matchmaking
<1>3. CASE Admission
  BY <1>3, ConnectHome, AdmitHome, Zenon DEF Admission
<1>4. CASE Serving
  <2>1. ASSUME NEW s \in Shards,
               expire_ghosts(s) \/ refresh(s) \/ restart(s) \/ registration_expires(s)
        PROVE  HomeInv'
    <3>1. UNCHANGED <<presence, players, admitting, client, redirects, assigning>>
      BY <2>1
      DEF expire_ghosts, refresh, restart, registration_expires, redisVars, shardVars,
                  clientVars
    <3>2. up \subseteq up' /\ up' \subseteq registered'
      BY <2>1
      DEF expire_ghosts, refresh, restart, registration_expires, redisVars, shardVars,
                  HomeInv, Entries
    <3>. QED  BY <3>1, <3>2, AsideHome
  <2>. QED  BY <1>4, <2>1, TouchHome, CrashHome, RemoveHome, MigrateHome, Zenon DEF Serving
<1>5. CASE ticket_expires
  BY <1>5, AsideHome DEF ticket_expires, shardVars, clientVars, HomeInv, Entries
<1>6. ASSUME NEW c \in Clients, client_gone(c) PROVE HomeInv'
  BY <1>6, EndsHome, Zenon DEF client_gone, redisVars, shardVars
<1>. QED
  BY <1>2, <1>3, <1>4, <1>5, <1>6, PresenceHome, AcceptedHome, FollowHome, Zenon DEF Next

\* Nobody is at home at the start.
LEMMA InitHome == ASSUME Init PROVE HomeInv
<1>. USE DEF Init
<1>1. Homes = {}  BY DEF Homes, ResidentOn
<1>2. Assigning = {}  BY DEF Assigning, NoAssign
<1>3. Followers = {}  BY DEF Followers, Idle
<1>. QED
  BY <1>1, <1>2, <1>3
  DEF HomeInv, OneAtATime, Entries, Stays, HomeIsPresence, ReadsHold, Expected, Idle

\* The circumstances are chosen at the start, so the invariant may assume them.
SequentialInv == OneByOne => HomeInv

\* The invariant, and with it the premise that processes follow one another, is
\* kept.
LEMMA StepHome == TicketIInv /\ SequentialInv /\ [Next]_vars => SequentialInv'
<1>1. ASSUME TicketIInv, SequentialInv, Next PROVE SequentialInv'
  <2>1. OneByOne' => OneByOne
    BY <1>1 DEF Next, OneByOne, Overlap, ReplyLoss, Matchmakers
  <2>. QED  BY <1>1, <2>1, HomeStep DEF SequentialInv, TicketIInv
<1>2. ASSUME SequentialInv, UNCHANGED vars PROVE SequentialInv'
  <2>. USE <1>2 DEF vars, systemVars, redisVars, shardVars, clientVars
  <2>1. OneByOne' => OneByOne  BY DEF OneByOne, Overlap, ReplyLoss, Matchmakers
  <2>2. HomeInv => HomeInv'  BY AsideHome DEF HomeInv, Entries
  <2>. QED  BY <2>1, <2>2 DEF SequentialInv
<1>. QED  BY <1>1, <1>2

\* So it holds throughout.
LEMMA HomeInductive == Spec => []SequentialInv
<1>1. Init => SequentialInv  BY InitHome DEF SequentialInv
<1>. QED  BY <1>1, StepHome, TicketsInductive, PTL DEF Spec

-----------------------------------------------------------------------------
\* A player whose processes follow one another, served by one matchmaker and a
\* Redis whose replies arrive, is authoritative on at most one shard, through any
\* number of handoffs, reconnects, crashes, restarts and expiries.
THEOREM OneResident == Spec => []SequentialSingleResident
<1>1. SequentialInv => SequentialSingleResident
  BY DEF SequentialInv, HomeInv, HomeIsPresence, Homes, SequentialSingleResident,
         SingleResident
<1>. QED  BY <1>1, HomeInductive, PTL
=============================================================================
