----------------------------- MODULE Connection -----------------------------
(***************************************************************************)
(* The handshake and the life of connections between one ConnectionServer  *)
(* and the clients of its shard (net/connection.cpp), over a network that  *)
(* loses, duplicates, reorders and delays datagrams.  A client keeps its   *)
(* address across attempts (a redirect away and back reuses the socket),   *)
(* so datagrams of an earlier attempt can arrive during a later one.       *)
(* Besides Clients, whose datagrams are modelled one by one, players come  *)
(* and go that matter only for the places they take.                       *)
(*                                                                         *)
(* Salts are drawn fresh, so the xor of two salts is the pair of them.     *)
(***************************************************************************)
EXTENDS Naturals, FiniteSets

CONSTANTS Clients,         \* client addresses
          None,            \* no connection, no pending handshake, no salt
          MaxConnections,  \* max_connections
          Capacity,        \* players a world server admits
          MaxAttempts,     \* bound: connection attempts of a client
          MaxServerSalts   \* bound: server salts drawn

ASSUME ConnectionAssumption == /\ IsFiniteSet(Clients)
                               /\ None \notin Nat \cup (Nat \X Nat)
                               /\ MaxConnections \in Nat /\ Capacity \in Nat
                               /\ MaxAttempts \in Nat /\ MaxServerSalts \in Nat

VARIABLES state,         \* ClientState
          client_salt,   \* client_salt_, the number of the attempt
          server_salt,   \* server_salt_
          pending,       \* pending_
          connections,   \* connections_: the salt of each
          others,        \* connections_ of players that are not in Clients
          salts,         \* server salts drawn
          net,           \* datagrams that can arrive
          admits,        \* history: handshakes put to on_admit_ and the decision
          made,          \* history: Connections made for each client
          heard          \* history: whose payloads reached whom: a client, the
                         \* number of an attempt and of a Connection

clientVars == <<state, client_salt, server_salt>>
serverVars == <<pending, connections, others, salts, admits, made>>
vars == <<clientVars, serverVars, net, heard>>

Xor(a, b) == <<a, b>>
ClientXor(c) == Xor(client_salt[c], server_salt[c])

Init ==
  /\ state = [c \in Clients |-> "disconnected"]
  /\ client_salt = [c \in Clients |-> 0]
  /\ server_salt = [c \in Clients |-> None]
  /\ pending = [c \in Clients |-> None]
  /\ connections = [c \in Clients |-> None]
  /\ made = [c \in Clients |-> 0]
  /\ others = 0 /\ salts = 0 /\ net = {} /\ admits = {} /\ heard = {}

\* Datagrams between c and the server; a kDisconnect goes either way.
ToServer(c, type, salt) == [client |-> c, to |-> "server", type |-> type, salt |-> salt]
ToClient(c, type, salt) == [client |-> c, to |-> "client", type |-> type, salt |-> salt]
\* The salt is all a kPayload says of the reliability endpoint that wrote it.
Payload(c, to, salt, writer) ==
  [client |-> c, to |-> to, type |-> "payload", salt |-> salt, writer |-> writer]
\* Lost on the way, or there to arrive at any time and any number of times.
Send(m) == net' \in {net, net \cup {m}}
Arrives(m, c, to, type) == m \in net /\ m.client = c /\ m.to = to /\ m.type = type

Connected == {c \in Clients : connections[c] # None}
Players == Cardinality(Connected) + others

-----------------------------------------------------------------------------
(* ClientConnection.                                                        *)

\* start, or redirect back to this server: a new salt on the same socket.
start(c) ==
  /\ state[c] \in {"disconnected", "connected", "denied", "timed_out"}
  /\ client_salt[c] < MaxAttempts
  /\ client_salt' = [client_salt EXCEPT ![c] = @ + 1]
  /\ server_salt' = [server_salt EXCEPT ![c] = None]
  /\ state' = [state EXCEPT ![c] = "sending_request"]
  /\ UNCHANGED <<serverVars, net, heard>>

\* update: the request or the response is repeated, a connected client sends
\* payloads.
update(c) ==
  /\ \/ state[c] = "sending_request" /\ Send(ToServer(c, "request", client_salt[c]))
     \/ state[c] = "sending_response" /\ Send(ToServer(c, "response", ClientXor(c)))
     \/ state[c] = "connected" /\ Send(Payload(c, "server", ClientXor(c), client_salt[c]))
  /\ UNCHANGED <<clientVars, serverVars, heard>>

client_times_out(c) ==
  /\ state[c] \in {"sending_request", "sending_response", "connected"}
  /\ state' = [state EXCEPT ![c] = "timed_out"]
  /\ UNCHANGED <<client_salt, server_salt, serverVars, net, heard>>

client_disconnects(c) ==
  /\ state[c] = "connected"
  /\ state' = [state EXCEPT ![c] = "disconnected"]
  /\ Send(ToServer(c, "disconnect", ClientXor(c)))
  /\ UNCHANGED <<client_salt, server_salt, serverVars, heard>>

\* update reads the socket only while the client is trying or connected.
Listening(c) == state[c] \in {"sending_request", "sending_response", "connected"}

receive_challenge(c, m) ==
  /\ Listening(c) /\ Arrives(m, c, "client", "challenge")
  /\ m.salt[1] = client_salt[c]
  /\ state[c] = "sending_request"
  /\ server_salt' = [server_salt EXCEPT ![c] = m.salt[2]]
  /\ state' = [state EXCEPT ![c] = "sending_response"]
  /\ Send(ToServer(c, "response", m.salt))
  /\ UNCHANGED <<client_salt, serverVars, heard>>

\* Mutant: the salt of the acceptance is not compared.
receive_accepted_any(c, m) ==
  /\ Listening(c) /\ Arrives(m, c, "client", "accepted")
  /\ state[c] = "sending_response"
  /\ state' = [state EXCEPT ![c] = "connected"]
  /\ UNCHANGED <<client_salt, server_salt, serverVars, net, heard>>

receive_accepted(c, m) ==
  /\ Listening(c) /\ Arrives(m, c, "client", "accepted")
  /\ m.salt = ClientXor(c)
  /\ state[c] = "sending_response"
  /\ state' = [state EXCEPT ![c] = "connected"]
  /\ UNCHANGED <<client_salt, server_salt, serverVars, net, heard>>

\* A denial names no salt and is believed in every state.
receive_denied(c, m) ==
  /\ Listening(c) /\ Arrives(m, c, "client", "denied")
  /\ state' = [state EXCEPT ![c] = "denied"]
  /\ UNCHANGED <<client_salt, server_salt, serverVars, net, heard>>

receive_disconnect(c, m) ==
  /\ Listening(c) /\ Arrives(m, c, "client", "disconnect")
  /\ m.salt = ClientXor(c)
  /\ state' = [state EXCEPT ![c] = "disconnected"]
  /\ UNCHANGED <<client_salt, server_salt, serverVars, net, heard>>

\* Mutant: payloads are taken from the right address, whatever their salt.
Genuine_address(m, salt) == TRUE

\* A payload's salt against the salt of the endpoint it would be fed to.
Genuine(m, salt) == m.salt = salt

\* A reliability endpoint reads a packet: that of the client's attempt n and that
\* of the k-th Connection made for it have exchanged something.
read_packet(c, n, k) == heard' = heard \cup {<<c, n, k>>}

client_receives_payload(c, m) ==
  /\ Listening(c) /\ Arrives(m, c, "client", "payload")
  /\ Genuine(m, ClientXor(c))
  /\ state[c] = "connected"
  /\ read_packet(c, client_salt[c], m.writer)
  /\ UNCHANGED <<clientVars, serverVars, net>>

-----------------------------------------------------------------------------
(* ConnectionServer.                                                        *)

handle_connection_request(c, m) ==
  /\ Arrives(m, c, "server", "request")
  /\ \/ /\ c \in Connected
        /\ Send(ToClient(c, "accepted", connections[c]))
        /\ UNCHANGED <<pending, salts>>
     \/ /\ c \notin Connected /\ Players >= MaxConnections
        /\ Send(ToClient(c, "denied", None))
        /\ UNCHANGED <<pending, salts>>
     \/ /\ c \notin Connected /\ Players < MaxConnections
        /\ LET known == pending[c] # None /\ pending[c][1] = m.salt
               now == IF known THEN pending[c] ELSE Xor(m.salt, salts + 1)
           IN  /\ ~known => salts < MaxServerSalts
               /\ salts' = IF known THEN salts ELSE salts + 1
               /\ pending' = [pending EXCEPT ![c] = now]
               /\ Send(ToClient(c, "challenge", now))
  /\ UNCHANGED <<clientVars, connections, others, admits, made, heard>>

\* WorldServer::admit as the handshake sees it: it refuses when the shard is full
\* of players, and for reasons of its own.
Admits(c) == Players < Capacity

\* Mutant: the pending handshake is left for the timeout to collect.
handle_challenge_response_keeps(c, m) ==
  /\ Arrives(m, c, "server", "response")
  /\ \/ /\ c \in Connected /\ connections[c] = m.salt
        /\ Send(ToClient(c, "accepted", m.salt))
        /\ UNCHANGED <<connections, admits, made>>
     \/ /\ c \notin Connected /\ pending[c] = m.salt /\ Admits(c)
        /\ connections' = [connections EXCEPT ![c] = m.salt]
        /\ admits' = admits \cup {<<c, m.salt, "admitted">>}
        /\ made' = [made EXCEPT ![c] = @ + 1]
        /\ Send(ToClient(c, "accepted", m.salt))
  /\ UNCHANGED <<clientVars, pending, others, salts, heard>>

\* The response of a connected client is answered again; otherwise it must match
\* the pending handshake, which it uses up whatever the decision.
handle_challenge_response(c, m) ==
  /\ Arrives(m, c, "server", "response")
  /\ \/ /\ c \in Connected /\ connections[c] = m.salt
        /\ Send(ToClient(c, "accepted", m.salt))
        /\ UNCHANGED <<pending, connections, admits, made>>
     \/ /\ c \notin Connected /\ pending[c] = m.salt
        /\ pending' = [pending EXCEPT ![c] = None]
        /\ \/ /\ Admits(c)
              /\ connections' = [connections EXCEPT ![c] = m.salt]
              /\ admits' = admits \cup {<<c, m.salt, "admitted">>}
              /\ made' = [made EXCEPT ![c] = @ + 1]
              /\ Send(ToClient(c, "accepted", m.salt))
           \/ /\ admits' = admits \cup {<<c, m.salt, "denied">>}
              /\ Send(ToClient(c, "denied", None))
              /\ UNCHANGED <<connections, made>>
  /\ UNCHANGED <<clientVars, others, salts, heard>>

handle_payload(c, m) ==
  /\ Arrives(m, c, "server", "payload")
  /\ c \in Connected
  /\ Genuine(m, connections[c])
  /\ read_packet(c, m.writer, made[c])
  /\ UNCHANGED <<clientVars, serverVars, net>>

handle_disconnect(c, m) ==
  /\ Arrives(m, c, "server", "disconnect")
  /\ c \in Connected /\ connections[c] = m.salt
  /\ connections' = [connections EXCEPT ![c] = None]
  /\ UNCHANGED <<clientVars, pending, others, salts, admits, made, net, heard>>

send_payload(c) ==
  /\ c \in Connected
  /\ Send(Payload(c, "client", connections[c], made[c]))
  /\ UNCHANGED <<clientVars, serverVars, heard>>

\* timeout_connections says nothing to the client.
timeout_connections(c) ==
  /\ c \in Connected
  /\ connections' = [connections EXCEPT ![c] = None]
  /\ UNCHANGED <<clientVars, pending, others, salts, admits, made, net, heard>>

disconnect(c) ==
  /\ c \in Connected
  /\ Send(ToClient(c, "disconnect", connections[c]))
  /\ connections' = [connections EXCEPT ![c] = None]
  /\ UNCHANGED <<clientVars, pending, others, salts, admits, made, heard>>

\* The end of receive: a handshake not completed in time is forgotten.
pending_expires(c) ==
  /\ pending[c] # None
  /\ pending' = [pending EXCEPT ![c] = None]
  /\ UNCHANGED <<clientVars, connections, others, salts, admits, made, net, heard>>

\* Other players' responses are put to the same admit (their requests may have
\* been checked long before), and they leave.
other_connects ==
  /\ Players < Capacity
  /\ others' = others + 1
  /\ UNCHANGED <<clientVars, pending, connections, salts, admits, made, net, heard>>

other_leaves ==
  /\ others > 0
  /\ others' = others - 1
  /\ UNCHANGED <<clientVars, pending, connections, salts, admits, made, net, heard>>

-----------------------------------------------------------------------------
Next ==
  \/ other_connects \/ other_leaves
  \/ \E c \in Clients :
       \/ start(c) \/ update(c)
       \/ client_times_out(c) \/ client_disconnects(c)
       \/ send_payload(c) \/ timeout_connections(c) \/ disconnect(c) \/ pending_expires(c)
       \/ \E m \in net : \/ receive_challenge(c, m) \/ receive_accepted(c, m)
                         \/ handle_connection_request(c, m) \/ handle_challenge_response(c, m)
                         \/ receive_denied(c, m) \/ receive_disconnect(c, m)
                         \/ client_receives_payload(c, m)
                         \/ handle_payload(c, m) \/ handle_disconnect(c, m)

Spec == Init /\ [][Next]_vars

-----------------------------------------------------------------------------
Salt == (1 .. MaxAttempts) \X (1 .. MaxServerSalts)

\* Type invariant of the client and server tables and of the datagrams.
TypeOK ==
  /\ state \in [Clients -> {"disconnected", "sending_request", "sending_response",
                            "connected", "denied", "timed_out"}]
  /\ client_salt \in [Clients -> 0 .. MaxAttempts]
  /\ server_salt \in [Clients -> 1 .. MaxServerSalts \cup {None}]
  /\ pending \in [Clients -> Salt \cup {None}]
  /\ connections \in [Clients -> Salt \cup {None}]
  /\ \A m \in net : /\ m.client \in Clients
                    /\ m.type = "request" => m.salt \in 1 .. MaxAttempts
                    /\ m.type = "denied" => m.salt = None
                    /\ m.type \notin {"request", "denied"} => m.salt \in Salt
                    /\ m.type = "payload" => m.writer \in Nat
  /\ others \in 0 .. Capacity
  /\ made \in [Clients -> Nat]
  /\ heard \subseteq Clients \X Nat \X Nat
  /\ admits \subseteq Clients \X Salt \X {"admitted", "denied"}

\* A handshake makes at most one connection, and none once it was refused: a
\* duplicated or late response revives nothing that is over.
DecidedOnce ==
  [][\A c \in Clients :
        connections'[c] \notin {None, connections[c]}
          => \A d \in {"admitted", "denied"} : <<c, connections'[c], d>> \notin admits]_vars

\* A client counts itself connected only with a salt the server admitted, and
\* while both sides hold a connection it is the same one, whatever datagrams of
\* earlier attempts arrive.
SameConnection ==
  \A c \in Clients :
    state[c] = "connected" =>
      /\ <<c, ClientXor(c), "admitted">> \in admits
      /\ c \in Connected => connections[c] = ClientXor(c)

\* The reliability endpoints of both sides start fresh, the client's with every
\* attempt and the server's with every Connection.  Each hears at most one endpoint
\* of the other side and is heard by at most that one: their sequence numbers and
\* acks mean the same to both, whatever payloads of earlier attempts still arrive.
EndpointsPaired ==
  \A d, e \in heard : d[1] = e[1] => (d[2] = e[2] <=> d[3] = e[3])

\* "The shard allocates nothing until the response proves the client received
\* the challenge."
\* The code does not have it: README.md, Divergences.
NothingBeforeResponse == \A c \in Clients : pending[c] # None => c \in Connected
=============================================================================
