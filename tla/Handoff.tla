------------------------------- MODULE Handoff -------------------------------
(***************************************************************************)
(* Where one player is: the matchmaker that places it, the shards that     *)
(* admit it, hand it to one another and lose it, the client processes that *)
(* play it, and the presence record and tickets in Redis through which     *)
(* they coordinate (cluster/matchmaker.cpp, cluster/shard.cpp,             *)
(* cluster/migration.cpp, app/world_server.cpp, app/game_client.cpp).      *)
(*                                                                         *)
(* Every Redis round trip is a step of its own.  A world server is one     *)
(* thread: between admit, which reads Redis, and the touch_presence at the *)
(* end of on_connect, which writes it, that shard does nothing else.       *)
(***************************************************************************)
EXTENDS PresenceStore

CONSTANTS Clients,     \* client processes of this player, one socket each
          Deployments  \* the circumstances considered, with the bounds for each

ASSUME HandoffAssumption ==
  /\ IsFiniteSet(Clients)
  /\ \A d \in Deployments :
       /\ d.overlap \in BOOLEAN /\ d.reply_loss \in BOOLEAN /\ d.matchmakers \in Nat
       /\ d.max_tokens \in Nat /\ d.max_crashes \in Nat

VARIABLES deployment,   \* one of Deployments, chosen at the start and kept
          presence,     \* the player's presence record in Redis
          tickets,      \* unredeemed tickets in Redis
          registered,   \* shards whose registration has not expired
          up,           \* shards whose process runs
          region_owner, \* region_owner_, per shard
          players,      \* players_: this player's entries, per shard
          ghosts,       \* ghosts_: this player's ghost, per shard
          redeemed_tickets,  \* redeemed_tickets_, per shard
          admitting,    \* per shard, the admitted connection not yet set up
          assigning,    \* per process, the matchmaker's assign in progress
          client,       \* per process: what it is doing and with whom
          redirects,    \* redirect events sent and not yet acted on
          tokens,       \* tokens drawn so far
          crashes,      \* shard crashes so far
          redemptions   \* history: which shard redeemed which ticket

Overlap == deployment.overlap         \* may a process start while another is playing
ReplyLoss == deployment.reply_loss    \* may a pipeline run and its reply be lost
Matchmakers == deployment.matchmakers \* processes, each serving one request at a time
MaxTokens == deployment.max_tokens    \* bound: session and ticket tokens drawn
MaxCrashes == deployment.max_crashes  \* bound: shard crashes

redisVars == <<presence, tickets, registered, tokens>>
shardVars == <<up, region_owner, players, ghosts, redeemed_tickets, admitting,
               crashes, redemptions>>
clientVars == <<client, redirects>>
systemVars == <<redisVars, shardVars, assigning, clientVars>>
vars == <<deployment, systemVars>>

Token == 1 .. MaxTokens
Ticket == [token : Token, to : Shards, region : Regions]
Player == [client : Clients, region : Regions, session : Token, redirecting : BOOLEAN]
Ghost == [region : Regions, session : Token]
Admit == [client : Clients, region : Regions, token : Token, has_ticket : BOOLEAN]

\* A process has not started, waits for the matchmaker, runs the handshake
\* with a shard, plays there, or is over: denied, timed out, disconnected, killed.
Idle == [state |-> "idle"]
Asking == [state |-> "asking"]
Gone == [state |-> "gone"]
Connecting(s, kind, token) ==
  [state |-> "connecting", shard |-> s, kind |-> kind, token |-> token]
Joining(s) == [state |-> "joining", shard |-> s]
Joined(s) == [state |-> "connected", shard |-> s]

NoAssign == [step |-> "idle"]

Init ==
  /\ deployment \in Deployments
  /\ presence = None /\ tickets = {}
  /\ registered = Shards /\ up = Shards
  /\ region_owner = [s \in Shards |-> assign_regions(Shards)]
  /\ players = [s \in Shards |-> {}]
  /\ ghosts = [s \in Shards |-> None]
  /\ redeemed_tickets = [s \in Shards |-> {}]
  /\ admitting = [s \in Shards |-> None]
  /\ assigning = [c \in Clients |-> NoAssign]
  /\ client = [c \in Clients |-> Idle]
  /\ redirects = {} /\ tokens = 0 /\ crashes = 0 /\ redemptions = {}

Ready(s) == s \in up /\ admitting[s] = None
EntriesOf(c, s) == {p \in players[s] : p.client = c}
FreshToken == tokens + 1

-----------------------------------------------------------------------------
(* Matchmaker::assign, on behalf of process c.  Matchmakers keep no state   *)
(* and several may run, each under its own mutex; what one reads can be     *)
(* stale by the time it writes.                                             *)

clear_presence == presence' = None

At(c, step) == assigning[c].step = step
Proceed(c, next) == assigning' = [assigning EXCEPT ![c] = next]

\* GameClient::start: a player's next process, or (Overlap) a second one.
request_session(c) ==
  /\ client[c] = Idle
  /\ Overlap \/ \A d \in Clients \ {c} : client[d] \in {Idle, Gone}
  /\ client' = [client EXCEPT ![c] = Asking]
  /\ UNCHANGED <<redisVars, shardVars, assigning, redirects>>

assign_live_shards(c) ==
  /\ client[c] = Asking /\ At(c, "idle")
  /\ Cardinality({d \in Clients : ~At(d, "idle")}) < Matchmakers
  /\ IF registered = {}
     THEN client' = [client EXCEPT ![c] = Gone] /\ UNCHANGED assigning
     ELSE Proceed(c, [step |-> "lookup", live |-> registered]) /\ UNCHANGED client
  /\ UNCHANGED <<redisVars, shardVars, redirects>>

assign_get_presence(c) ==
  /\ At(c, "lookup")
  /\ LET live == assigning[c].live
     IN  Proceed(c, IF presence = None THEN [step |-> "claim", live |-> live]
                    ELSE IF presence.shard \in live
                    THEN [step |-> "write_back", existing |-> presence]
                    ELSE [step |-> "clear", live |-> live])
  /\ UNCHANGED <<redisVars, shardVars, clientVars>>

\* The answer reaches the process if it is still waiting for it.  A session
\* token of 0 is a failed request.
Answer(c, next) ==
  /\ Proceed(c, NoAssign)
  /\ client' = [client EXCEPT ![c] = IF @ = Asking THEN next ELSE @]

Grant(c, s, session) ==
  Answer(c, IF session = NoSession THEN Gone ELSE Connecting(s, "session", session))

assign_write_back(c) ==
  /\ At(c, "write_back")
  /\ LET existing == assigning[c].existing
     IN  presence' = existing /\ Grant(c, existing.shard, existing.session)
  /\ UNCHANGED <<tickets, registered, tokens, shardVars, redirects>>

assign_clear_presence(c) ==
  /\ At(c, "clear")
  /\ clear_presence
  /\ Proceed(c, [step |-> "claim", live |-> assigning[c].live])
  /\ UNCHANGED <<tickets, registered, tokens, shardVars, clientVars>>

\* pick_shard goes by the load the shards last reported: any live shard, or none
\* when all are full.
assign_full(c) ==
  /\ At(c, "claim")
  /\ Answer(c, Gone)
  /\ UNCHANGED <<redisVars, shardVars, redirects>>

assign_claim(c) ==
  /\ At(c, "claim")
  /\ \E chosen \in assigning[c].live :
       IF claim_takes(presence, chosen)
       THEN /\ FreshToken \in Token
            /\ presence' = set_presence(chosen, first_region(assigning[c].live, chosen), FreshToken)
            /\ tokens' = FreshToken
            /\ Grant(c, chosen, FreshToken)
            /\ UNCHANGED <<tickets, registered>>
       ELSE /\ IF presence.shard \in assigning[c].live
               THEN Proceed(c, [step |-> "owned", winner |-> presence.shard])
                    /\ UNCHANGED client
               ELSE Answer(c, Gone)
            /\ UNCHANGED redisVars
  /\ UNCHANGED <<shardVars, redirects>>

\* The winner's record is read after the claim was lost to it.
assign_get_owned(c) ==
  /\ At(c, "owned")
  /\ Grant(c, assigning[c].winner, IF presence = None THEN NoSession ELSE presence.session)
  /\ UNCHANGED <<redisVars, shardVars, redirects>>

\* DELETE /session: whoever asks, the record goes; no client of ours asks.
release ==
  /\ Overlap /\ presence # None /\ clear_presence
  /\ UNCHANGED <<tickets, registered, tokens, shardVars, assigning, clientVars>>

-----------------------------------------------------------------------------
(* WorldServer: admission.                                                  *)

\* The handshake of c reaches the admit decision of s: c speaks to s and s has
\* no connection from its address.
Knocking(c, s) == /\ client[c].state = "connecting" /\ client[c].shard = s
                  /\ Ready(s) /\ EntriesOf(c, s) = {}

Denied(c) == client' = [client EXCEPT ![c] = Gone]

\* A region this shard does not own is replaced by the first it owns, if any.
OwnRegion(s, r) ==
  LET owned == {q \in Regions : region_owner[s][q] = s}
  IN  IF r \in owned \/ owned = {} THEN r ELSE CHOOSE q \in owned : \A o \in owned : q <= o

Admitted(c, s, region, token, has_ticket) ==
  /\ admitting' = [admitting EXCEPT ![s] = [client |-> c, region |-> OwnRegion(s, region),
                                            token |-> token, has_ticket |-> has_ticket]]
  /\ client' = [client EXCEPT ![c] = Joining(s)]

\* The shard is full of other players.
admit_full(c, s) ==
  /\ Knocking(c, s)
  /\ Denied(c)
  /\ UNCHANGED <<redisVars, shardVars, assigning, redirects>>

admit_session(c, s) ==
  /\ Knocking(c, s) /\ client[c].kind = "session"
  /\ IF presence # None /\ presence.session = client[c].token /\ presence.shard = s
     THEN Admitted(c, s, presence.region, client[c].token, FALSE)
     ELSE Denied(c) /\ UNCHANGED admitting
  /\ UNCHANGED <<redisVars, up, region_owner, players, ghosts, redeemed_tickets,
                 crashes, redemptions, assigning, redirects>>

\* Mutant: the ticket is read, not taken.
admit_ticket_get(c, s) ==
  /\ Knocking(c, s) /\ client[c].kind = "ticket"
  /\ LET stored == {t \in tickets : t.token = client[c].token /\ t.to = s}
     IN  IF stored = {}
         THEN Denied(c) /\ UNCHANGED <<admitting, redeemed_tickets, redemptions>>
         ELSE \E t \in stored :
                /\ Admitted(c, s, t.region, t.token, TRUE)
                /\ redeemed_tickets' = [redeemed_tickets EXCEPT ![s] = @ \cup {t}]
                /\ redemptions' = redemptions \cup {<<t.token, s>>}
  /\ UNCHANGED <<redisVars, up, region_owner, players, ghosts, crashes, assigning,
                 redirects>>

\* redeem is a GETDEL: the ticket is gone whether or not this shard was its
\* destination, and even if the reply never arrives (the retry finds nothing).
redeem(stored) == tickets' = tickets \ stored

\* accept_handoff turns down a ticket addressed to another shard.
accept_handoff(s, stored) == {t \in stored : t.to = s}

admit_ticket(c, s) ==
  /\ Knocking(c, s) /\ client[c].kind = "ticket"
  /\ LET Known(t) == t.token = client[c].token
         cached == {t \in redeemed_tickets[s] : Known(t)}
         stored == {t \in tickets : Known(t)}
     IN  IF cached # {}
         THEN /\ \E t \in cached : Admitted(c, s, t.region, t.token, TRUE)
              /\ UNCHANGED <<tickets, redeemed_tickets, redemptions>>
         ELSE /\ redeem(stored)
              /\ \/ \E t \in accept_handoff(s, stored) :
                      /\ Admitted(c, s, t.region, t.token, TRUE)
                      /\ redeemed_tickets' = [redeemed_tickets EXCEPT ![s] = @ \cup {t}]
                      /\ redemptions' = redemptions \cup {<<t.token, s>>}
                 \/ /\ ReplyLoss \/ accept_handoff(s, stored) = {}
                    /\ Denied(c)
                    /\ UNCHANGED <<admitting, redeemed_tickets, redemptions>>
  /\ UNCHANGED <<presence, registered, tokens, up, region_owner, players, ghosts,
                 crashes, assigning, redirects>>

\* on_disconnect: an entry that is not being handed over leaves a ghost.
GhostOf(s, gone) ==
  LET left == {p \in gone : ~p.redirecting}
  IN  IF left = {} THEN ghosts[s]
      ELSE CHOOSE g \in {[region |-> p.region, session |-> p.session] : p \in left} : TRUE

\* The entry by_player_id_ names, disconnected when a newer session arrives.
Stale(s) == players[s]

\* on_connect: the stale session is dropped (its ghost may be the one resumed),
\* the player is placed, and presence is written whatever it says by now.
on_connect(s) ==
  /\ admitting[s] # None
  /\ LET a == admitting[s]
         ghost == GhostOf(s, Stale(s))
         resumes == ~a.has_ticket /\ ghost # None /\ ghost.session = a.token
         region == IF resumes THEN ghost.region ELSE a.region
         entry == [client |-> a.client, region |-> region, session |-> a.token,
                   redirecting |-> FALSE]
     IN  /\ players' = [players EXCEPT ![s] = (@ \ Stale(s)) \cup {entry}]
         /\ ghosts' = [ghosts EXCEPT ![s] = IF resumes THEN None ELSE ghost]
         /\ presence' = set_presence(s, region, a.token)
  /\ admitting' = [admitting EXCEPT ![s] = None]
  /\ UNCHANGED <<tickets, registered, tokens, up, region_owner, redeemed_tickets,
                 crashes, redemptions, assigning, clientVars>>

\* The accepted datagram, repeated on every repeated response, reaches c.
connection_accepted(c) ==
  /\ client[c].state = "joining"
  /\ EntriesOf(c, client[c].shard) # {}
  /\ client' = [client EXCEPT ![c] = Joined(client[c].shard)]
  /\ UNCHANGED <<redisVars, shardVars, assigning, redirects>>

-----------------------------------------------------------------------------
(* WorldServer: the player walks, leaves, and is heard of.                  *)

\* Mutant: the source goes on simulating the player it handed over.
Redirected_resident(p) == p

\* An entry that has been handed over is no longer simulated as the player's.
Redirected(p) == [p EXCEPT !.redirecting = TRUE]

\* The ticket for the owner, as this shard's list has it, of the region entered.
plan_handoff(s, target) ==
  [token |-> FreshToken, to |-> region_owner[s][target], region |-> target]

\* SET NX of the ticket and the transfer script, in one pipeline.  When the
\* transfer is refused the ticket is discarded again and nothing has changed.
publish_and_transfer(s, ticket) ==
  /\ transfer_takes(presence, s)
  /\ tickets' = tickets \cup {ticket}
  /\ presence' = transferred(presence, ticket.to, ticket.region)

\* check_migrations for the entry p, whose player has walked into target.
check_migrations(s, p, target) ==
  /\ Ready(s) /\ p \in players[s] /\ ~p.redirecting /\ target # p.region
  /\ LET owner == region_owner[s][target]
         Becomes(q) == players' = [players EXCEPT ![s] = (@ \ {p}) \cup {q}]
         ticket == plan_handoff(s, target)
     IN  IF owner = s
         THEN /\ Becomes([p EXCEPT !.region = target])
              /\ UNCHANGED <<presence, tickets, tokens, redirects>>
         \* The region has an owner, and the owner an endpoint.
         ELSE /\ owner \in Shards /\ FreshToken \in Token
              /\ publish_and_transfer(s, ticket)
              /\ tokens' = FreshToken
              /\ \/ /\ Becomes(Redirected(p))
                    /\ redirects' = redirects \cup
                         {[client |-> p.client, from |-> s, ticket |-> ticket]}
                 \* The pipeline ran but its reply was lost: the retry's SET NX
                 \* is refused and the player stays, presence already moved.
                 \/ ReplyLoss /\ UNCHANGED <<players, redirects>>
  /\ UNCHANGED <<registered, up, region_owner, ghosts, redeemed_tickets, admitting,
                 crashes, redemptions, assigning, client>>

\* Mutant: only silent clients are dropped, not redirected ones.
remove_connection_silent(s, p) ==
  /\ Ready(s) /\ p \in players[s] /\ ~p.redirecting
  /\ players' = [players EXCEPT ![s] = @ \ {p}]
  /\ ghosts' = [ghosts EXCEPT ![s] = GhostOf(s, {p})]
  /\ UNCHANGED <<redisVars, up, region_owner, redeemed_tickets, admitting, crashes,
                 redemptions, assigning, clientVars>>

\* remove_connection: the redirect deadline has passed, or the client timed out
\* or said goodbye.
remove_connection(s, p) ==
  /\ Ready(s) /\ p \in players[s]
  /\ players' = [players EXCEPT ![s] = @ \ {p}]
  /\ ghosts' = [ghosts EXCEPT ![s] = GhostOf(s, {p})]
  /\ UNCHANGED <<redisVars, up, region_owner, redeemed_tickets, admitting, crashes,
                 redemptions, assigning, clientVars>>

\* Mutant: only renews a record that still names this shard.
refresh_presence_renews(s) ==
  /\ Ready(s) /\ presence # None /\ presence.shard = s
  /\ \E p \in players[s] :
       /\ ~p.redirecting
       /\ presence' = set_presence(s, p.region, p.session)
  /\ UNCHANGED <<tickets, registered, tokens, shardVars, assigning, clientVars>>

\* refresh_cluster, every kPresenceRefreshMs: the residents are touched and what
\* has expired is dropped.
refresh_presence(s) ==
  /\ Ready(s)
  /\ \E p \in players[s] :
       /\ ~p.redirecting
       /\ presence' = set_presence(s, p.region, p.session)
  /\ UNCHANGED <<tickets, registered, tokens, shardVars, assigning, clientVars>>

\* Ghosts and cached tickets each have a deadline of their own.
expire_ghosts(s) ==
  /\ Ready(s)
  /\ \E ghost \in {ghosts[s], None}, kept \in SUBSET redeemed_tickets[s] :
       /\ ghosts' = [ghosts EXCEPT ![s] = ghost]
       /\ redeemed_tickets' = [redeemed_tickets EXCEPT ![s] = kept]
  /\ UNCHANGED <<redisVars, up, region_owner, players, admitting, crashes, redemptions,
                 assigning, clientVars>>

\* ShardCoordinator::refresh: heartbeat, then ownership from the live shards.
refresh(s) ==
  /\ Ready(s)
  /\ registered' = registered \cup {s}
  /\ region_owner' = [region_owner EXCEPT ![s] = assign_regions(registered')]
  /\ UNCHANGED <<presence, tickets, tokens, up, players, ghosts, redeemed_tickets,
                 admitting, crashes, redemptions, assigning, clientVars>>

\* A shard process dies with its memory.
crash(s) ==
  /\ s \in up /\ crashes < MaxCrashes
  /\ up' = up \ {s} /\ crashes' = crashes + 1
  /\ players' = [players EXCEPT ![s] = {}]
  /\ ghosts' = [ghosts EXCEPT ![s] = None]
  /\ redeemed_tickets' = [redeemed_tickets EXCEPT ![s] = {}]
  /\ admitting' = [admitting EXCEPT ![s] = None]
  /\ UNCHANGED <<redisVars, region_owner, redemptions, assigning, clientVars>>

\* start ends in a refresh.
restart(s) ==
  /\ s \notin up
  /\ up' = up \cup {s}
  /\ registered' = registered \cup {s}
  /\ region_owner' = [region_owner EXCEPT ![s] = assign_regions(registered')]
  /\ UNCHANGED <<presence, tickets, tokens, players, ghosts, redeemed_tickets, admitting,
                 crashes, redemptions, assigning, clientVars>>

-----------------------------------------------------------------------------
(* Redis expiry.                                                            *)

\* Shards heartbeat four times per TTL while they run.
registration_expires(s) ==
  /\ s \in registered \ up
  /\ registered' = registered \ {s}
  /\ UNCHANGED <<presence, tickets, tokens, shardVars, assigning, clientVars>>

\* A record lives for 15 s and a resident is touched every 2 s; a process that
\* hears nothing gives up after 5 s.
presence_expires ==
  /\ presence # None
  /\ \A s \in Shards : players[s] = {} /\ admitting[s] = None
  /\ \A c \in Clients : client[c] \in {Idle, Asking, Gone}
  /\ presence' = None
  /\ UNCHANGED <<tickets, registered, tokens, shardVars, assigning, clientVars>>

ticket_expires ==
  /\ \E t \in tickets : tickets' = tickets \ {t}
  /\ UNCHANGED <<presence, registered, tokens, shardVars, assigning, clientVars>>

-----------------------------------------------------------------------------
(* Client processes.                                                        *)

\* apply_redirect: the same socket, a new salt, the ticket as credential.
apply_redirect(c) ==
  /\ client[c].state = "connected"
  /\ \E r \in redirects :
       /\ r.client = c /\ r.from = client[c].shard
       /\ client' = [client EXCEPT ![c] = Connecting(r.ticket.to, "ticket", r.ticket.token)]
  /\ redirects' = {r \in redirects : r.client # c}
  /\ UNCHANGED <<redisVars, shardVars, assigning>>

client_gone(c) ==
  /\ client[c] \notin {Idle, Gone}
  /\ client' = [client EXCEPT ![c] = Gone]
  /\ redirects' = {r \in redirects : r.client # c}
  /\ UNCHANGED <<redisVars, shardVars, assigning>>

Matchmaking ==
  \/ release
  \/ \E c \in Clients :
       \/ request_session(c) \/ assign_live_shards(c) \/ assign_get_presence(c)
       \/ assign_write_back(c) \/ assign_clear_presence(c)
       \/ assign_full(c) \/ assign_claim(c) \/ assign_get_owned(c)

Admission ==
  \E s \in Shards :
    \/ on_connect(s)
    \/ \E c \in Clients : admit_full(c, s) \/ admit_session(c, s) \/ admit_ticket(c, s)

Serving ==
  \E s \in Shards :
    \/ refresh_presence(s) \/ expire_ghosts(s) \/ refresh(s) \/ crash(s) \/ restart(s)
    \/ registration_expires(s)
    \/ \E p \in players[s] : \/ remove_connection(s, p)
                             \/ \E r \in Regions : check_migrations(s, p, r)

Next ==
  /\ \/ Matchmaking \/ Admission \/ Serving \/ presence_expires \/ ticket_expires
     \/ \E c \in Clients : connection_accepted(c) \/ apply_redirect(c) \/ client_gone(c)
  /\ UNCHANGED deployment

Spec == Init /\ [][Next]_vars

\* A running shard keeps ticking: it finishes what it began, touches its
\* residents on a timer and drops redirected entries at their deadline.
FairSpec ==
  /\ Spec
  /\ \A s \in Shards :
       /\ WF_systemVars(on_connect(s)) /\ WF_systemVars(refresh_presence(s))
       /\ WF_systemVars(\E p \in players[s] : p.redirecting /\ remove_connection(s, p))

-----------------------------------------------------------------------------
\* Type invariant: the Redis records, the shards' tables and the processes.
TypeOK ==
  /\ presence \in PresenceRecord \cup {None}
  /\ tickets \subseteq Ticket
  /\ registered \subseteq Shards /\ up \subseteq Shards
  /\ region_owner \in [Shards -> [Regions -> Shards \cup {None}]]
  /\ players \in [Shards -> SUBSET Player]
  /\ ghosts \in [Shards -> Ghost \cup {None}]
  /\ redeemed_tickets \in [Shards -> SUBSET Ticket]
  /\ admitting \in [Shards -> Admit \cup {None}]
  /\ \A c \in Clients :
       \/ client[c] \in {Idle, Asking, Gone}
       \/ \E s \in Shards : \/ client[c] \in {Joining(s), Joined(s)}
                            \/ \E k \in {"session", "ticket"}, t \in Token :
                                 client[c] = Connecting(s, k, t)
  /\ redirects \subseteq [client : Clients, from : Shards, ticket : Ticket]
  /\ tokens \in 0 .. MaxTokens /\ crashes \in 0 .. MaxCrashes
  /\ redemptions \subseteq Token \X Shards

\* The shards that simulate the player and would hand it over.
ResidentOn(s) == \E p \in players[s] : ~p.redirecting

\* test_load.cpp: "A player being handed over must never be authoritative on two
\* shards at once."
\* In general it can be: README.md, Divergences.
SingleResident == \A s, t \in Shards : ResidentOn(s) /\ ResidentOn(t) => s = t

OneByOne == ~Overlap /\ ~ReplyLoss /\ Matchmakers <= 1

\* It is not, through handoffs, reconnects, crashes and expiry, while the player's
\* processes follow one another, one matchmaker serves them and every reply of Redis
\* arrives: what the presence record, the tickets and the redirecting flag are for.
\* A second matchmaker could write back a record it read before a handoff.
SequentialSingleResident == OneByOne => SingleResident

\* Atomic redemption: a ticket brings the player into at most one shard, and once it
\* has, Redis holds it no more, whatever replies are lost and flushes repeated.
TicketSpawnsOnce ==
  /\ \A r, q \in redemptions : r[1] = q[1] => r = q
  /\ \A r \in redemptions : \A t \in tickets : t.token # r[1]

\* Whatever stale write-backs, lost replies, releases and second sessions do to
\* the record, a player that stays on one shard is always found there again.
PresenceConverges ==
  \A s \in Shards :
    <>[](\A t \in Shards : ResidentOn(t) <=> t = s)
      => []<>(presence # None /\ presence.shard = s)

\* A handed-over entity does not linger: the source drops it at the deadline
\* even if the client never follows its redirect.
RedirectedLeave ==
  \A s \in Shards : (\E p \in players[s] : p.redirecting)
                      ~> (\A p \in players[s] : ~p.redirecting)
=============================================================================
