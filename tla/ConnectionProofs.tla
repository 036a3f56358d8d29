-------------------------- MODULE ConnectionProofs --------------------------
(***************************************************************************)
(* Proofs about Connection for any number of clients, attempts, salts and  *)
(* places: the handshake's safety properties over a network that loses,    *)
(* repeats, reorders and delays datagrams.                                 *)
(***************************************************************************)
EXTENDS Connection, FiniteSetTheorems, TLAPS

Trying == {"sending_request", "sending_response", "connected"}
Challenged == {"sending_response", "connected"}

\* Per client, the salts put to on_admit_; those the client has responded with as
\* well; and all that the server has drawn in answer to its requests.
Decided == {<<a[1], a[2]>> : a \in admits}
Responses == {<<m.client, m.salt>> : m \in {n \in net : n.type = "response"}}
Challenges == {<<m.client, m.salt>> : m \in {n \in net : n.type = "challenge"}}
Responded == Decided \cup Responses
Drawn == Responded \cup Challenges \cup {<<c, pending[c]>> : c \in {d \in Clients : pending[d] # None}}

-----------------------------------------------------------------------------
(* The inductive invariant.                                                 *)

\* Nothing is from the future: client salts count up to client_salt, server salts
\* up to salts, and a client has the salts its state needs.
Past ==
  /\ salts \in 0 .. MaxServerSalts
  /\ \A m \in net : m.type = "request" => m.salt <= client_salt[m.client]
  /\ \A c \in Clients : /\ state[c] \in Trying => client_salt[c] >= 1
                        /\ state[c] \in Challenged => server_salt[c] \in 1 .. salts
  /\ \A c \in Clients, x \in Salt :
       <<c, x>> \in Drawn => x[1] <= client_salt[c] /\ x[2] <= salts

\* What a client answers is a challenge it was sent.
Answered ==
  \A c \in Clients : state[c] \in Challenged => <<c, ClientXor(c)>> \in Challenges

\* A client answers one challenge per attempt, and while the attempt lasts: what
\* the server draws for a later attempt is newer than any response to an earlier.
OneResponse ==
  \A c \in Clients, x \in Salt :
    <<c, x>> \in Responded =>
      /\ x[1] = client_salt[c] => state[c] # "sending_request" /\ x = ClientXor(c)
      /\ \A y \in Salt : <<c, y>> \in Responded /\ x[1] = y[1] => x = y
      /\ \A y \in Salt : <<c, y>> \in Drawn /\ x[1] < y[1] => x[2] < y[2]

\* The server decides handshakes in the order it draws their salts: a pending one
\* is newer than all that were decided, a connection is the newest of these.
NewestDecided ==
  \A c \in Clients :
    /\ pending[c] # None => \A x \in Salt : <<c, x>> \in Decided => x[2] < pending[c][2]
    /\ c \in Connected =>
         /\ <<c, connections[c], "admitted">> \in admits
         /\ \A x \in Salt : <<c, x>> \in Decided => x[2] <= connections[c][2]

\* Only an admitted handshake is accepted.
AcceptedAdmitted ==
  \A m \in net : m.type = "accepted" => <<m.client, m.salt, "admitted">> \in admits

\* The endpoints of the client's attempt n and of the k-th Connection made for it
\* have exchanged a payload, or may still do so.
Link(c, n, k) ==
  \/ <<c, n, k>> \in heard
  \/ \E m \in net : /\ Arrives(m, c, "client", "payload")
                    /\ m.salt[1] = n /\ m.writer = k
  \/ c \in Connected /\ connections[c][1] = n /\ made[c] = k

\* Such pairs are one to one, and of attempts whose handshake was decided: a new
\* Connection is the first for its attempt.
Linked ==
  /\ \A m \in net : m.type = "payload" /\ m.to = "server" => m.writer = m.salt[1]
  /\ \A c \in Clients, n, k, i, j \in Nat :
       Link(c, n, k) /\ Link(c, i, j) => (n = i <=> k = j)
  /\ \A c \in Clients, n, k \in Nat :
       Link(c, n, k) => /\ k <= made[c]
                        /\ \E x \in Salt : <<c, x>> \in Decided /\ x[1] = n

IInv == /\ TypeOK /\ Past /\ Answered /\ OneResponse
        /\ NewestDecided /\ AcceptedAdmitted /\ SameConnection /\ Linked

-----------------------------------------------------------------------------
(* Facts used by every step.                                                *)

\* The places taken are counted by a natural number.
LEMMA PlacesCounted == IsFiniteSet(Connected) /\ Cardinality(Connected) \in Nat
<1>1. Connected \subseteq Clients  BY DEF Connected
<1>2. IsFiniteSet(Connected)  BY <1>1, FS_Subset, ConnectionAssumption
<1>. QED  BY <1>2, FS_CardinalityType

\* A salt is a pair of numbers.
LEMMA SaltPair ==
  ASSUME NEW x \in Salt
  PROVE  x[1] \in 1 .. MaxAttempts /\ x[2] \in 1 .. MaxServerSalts /\ x = <<x[1], x[2]>>
  BY ConnectionAssumption DEF Salt

\* A pair of salts is not the mark of an absent one.
LEMMA SaltIsSome == None \notin Salt
  BY ConnectionAssumption DEF Salt

\* A handshake put to on_admit_ is decided.
LEMMA AdmitDecides ==
  ASSUME NEW c, NEW x, NEW d, <<c, x, d>> \in admits
  PROVE  <<c, x>> \in Decided
<1>. DEFINE a == <<c, x, d>>
<1>1. <<a[1], a[2]>> \in Decided  BY DEF Decided
<1>. QED  BY <1>1

\* Challenges that were sent stay sent.
LEMMA ChallengesStay == ASSUME net \subseteq net' PROVE Challenges \subseteq Challenges'
  BY DEF Challenges

\* What a datagram may hold, as TypeOK has it.
Datagram(m) == /\ m.client \in Clients
               /\ m.type = "request" => m.salt \in 1 .. MaxAttempts
               /\ m.type = "denied" => m.salt = None
               /\ m.type \notin {"request", "denied"} => m.salt \in Salt
               /\ m.type = "payload" => m.writer \in Nat

\* Only the datagram that is sent is new.
LEMMA Sent == ASSUME NEW m, Send(m) PROVE net \subseteq net' /\ net' \subseteq net \cup {m}
  BY DEF Send

\* What can arrive stays well formed when what is sent is.
LEMMA NetTyped ==
  ASSUME IInv, \A n \in net' \ net : Datagram(n)
  PROVE  \A n \in net' : Datagram(n)
  BY DEF IInv, TypeOK, Datagram

\* Datagrams that are no challenge and no response draw and answer nothing.
LEMMA NothingDrawn ==
  ASSUME \A n \in net' \ net : n.type \notin {"challenge", "response"},
         UNCHANGED admits, \A c \in Clients : pending'[c] \in {pending[c], None}
  PROVE  Responded' \subseteq Responded /\ Drawn' \subseteq Drawn
<1>1. Responses' \subseteq Responses  BY DEF Responses
<1>2. Challenges' \subseteq Challenges  BY DEF Challenges
<1>3. Decided' = Decided  BY DEF Decided
<1>. QED  BY <1>1, <1>2, <1>3 DEF Responded, Drawn

\* A response answers one challenge.
LEMMA ResponseDrawn ==
  ASSUME NEW m, net' \subseteq net \cup {m}, m.type = "response", UNCHANGED <<admits, pending>>
  PROVE  /\ Responded' \subseteq Responded \cup {<<m.client, m.salt>>}
         /\ Drawn' \subseteq Drawn \cup {<<m.client, m.salt>>}
<1>1. Responses' \subseteq Responses \cup {<<m.client, m.salt>>}  BY DEF Responses
<1>2. Challenges' \subseteq Challenges  BY DEF Challenges
<1>3. Decided' = Decided  BY DEF Decided
<1>. QED  BY <1>1, <1>2, <1>3 DEF Responded, Drawn

\* A step of the client that leaves its attempt and the server alone.
LEMMA ServerStays ==
  ASSUME IInv, UNCHANGED serverVars  PROVE NewestDecided'
  BY DEF IInv, NewestDecided, Decided, Connected, serverVars

\* No response is new and what is drawn is drawn afresh: the responses keep
\* their order.
LEMMA NoResponse ==
  ASSUME IInv, UNCHANGED <<client_salt, server_salt>>, Responded' \subseteq Responded,
         \A c \in Clients : state'[c] = "sending_request" => state[c] = "sending_request",
         \A c \in Clients, x \in Salt : <<c, x>> \in Drawn' \ Drawn => x[2] > salts
  PROVE  OneResponse'
<1>. SUFFICES ASSUME NEW c \in Clients, NEW x \in Salt, <<c, x>> \in Responded
              PROVE  /\ x[1] = client_salt[c] => state'[c] # "sending_request" /\ x = ClientXor(c)
                     /\ \A y \in Salt : <<c, y>> \in Responded /\ x[1] = y[1] => x = y
                     /\ \A y \in Salt : <<c, y>> \in Drawn' /\ x[1] < y[1] => x[2] < y[2]
  BY DEF OneResponse, ClientXor
<1>1. <<c, x>> \in Drawn  BY DEF Drawn
<1>2. x[2] <= salts /\ salts \in Nat  BY <1>1, ConnectionAssumption DEF IInv, Past
<1>3. ASSUME NEW y \in Salt, <<c, y>> \in Drawn', x[1] < y[1]
      PROVE  x[2] < y[2]
  <2>1. CASE <<c, y>> \in Drawn  BY <1>3, <2>1 DEF IInv, OneResponse
  <2>2. CASE <<c, y>> \notin Drawn
    <3>1. y[2] > salts  BY <1>3, <2>2
    <3>. QED  BY <1>2, <3>1, SaltPair, ConnectionAssumption
  <2>. QED  BY <2>1, <2>2
<1>. QED  BY <1>3 DEF IInv, OneResponse

\* No pair of endpoints is new.
LEMMA NoLink ==
  ASSUME IInv, UNCHANGED made, Decided \subseteq Decided',
         \A m \in net' \ net : m.type = "payload" /\ m.to = "server" => m.writer = m.salt[1],
         \A c \in Clients, n, k \in Nat : Link(c, n, k)' => Link(c, n, k)
  PROVE  Linked'
<1>1. \A c \in Clients, n, k, i, j \in Nat :
        Link(c, n, k)' /\ Link(c, i, j)' => (n = i <=> k = j)
  BY DEF IInv, Linked
<1>2. \A c \in Clients, n, k \in Nat :
        Link(c, n, k)' => k <= made'[c] /\ \E x \in Salt : <<c, x>> \in Decided' /\ x[1] = n
  <2>. SUFFICES ASSUME NEW c \in Clients, NEW n \in Nat, NEW k \in Nat, Link(c, n, k)
                PROVE  k <= made[c] /\ \E x \in Salt : <<c, x>> \in Decided' /\ x[1] = n
    OBVIOUS
  <2>1. k <= made[c]  BY DEF IInv, Linked
  <2>2. PICK x \in Salt : <<c, x>> \in Decided /\ x[1] = n  BY DEF IInv, Linked
  <2>. QED  BY <2>1, <2>2
<1>. QED  BY <1>1, <1>2 DEF IInv, Linked

\* No connection is made, no payload sent to a client and none read.
LEMMA NoPayload ==
  ASSUME IInv, UNCHANGED <<made, admits, heard>>,
         \A c \in Clients : connections'[c] \in {connections[c], None},
         \A m \in net' \ net : m.type = "payload" => m.to = "server" /\ m.writer = m.salt[1]
  PROVE  Linked'
<1>1. ASSUME NEW c \in Clients, NEW n \in Nat, NEW k \in Nat, Link(c, n, k)'
      PROVE  Link(c, n, k)
  BY <1>1 DEF Link, Arrives, Connected
<1>. QED  BY <1>1, NoLink DEF Decided

\* The client gives up, is denied or is disconnected.
LEMMA EndsInv ==
  ASSUME IInv, NEW c \in Clients,
         \/ client_times_out(c) \/ client_disconnects(c)
         \/ \E m \in net : receive_denied(c, m) \/ receive_disconnect(c, m)
  PROVE  IInv'
<1>1. /\ UNCHANGED <<client_salt, server_salt, serverVars, heard>>
      /\ \E z \in {"timed_out", "disconnected", "denied"} : state' = [state EXCEPT ![c] = z]
  BY DEF client_times_out, client_disconnects, receive_denied, receive_disconnect
<1>2. \A n \in net' \ net : Datagram(n) /\ n.type = "disconnect"
  <2>. DEFINE q == ToServer(c, "disconnect", ClientXor(c))
  <2>1. q.client = c /\ q.type = "disconnect" /\ q.salt = ClientXor(c)  BY DEF ToServer
  <2>2. CASE client_disconnects(c)
    <3>1. ClientXor(c) \in Salt
      BY <2>2, ConnectionAssumption
      DEF IInv, TypeOK, Past, Trying, Challenged, ClientXor, Xor, Salt, client_disconnects
    <3>2. Datagram(q)  BY <2>1, <3>1 DEF Datagram
    <3>3. net' \subseteq net \cup {q}  BY <2>2, Sent DEF client_disconnects
    <3>. HIDE DEF q
    <3>. QED  BY <2>1, <3>2, <3>3
  <2>3. CASE net' = net  BY <2>3
  <2>. QED  BY <2>2, <2>3 DEF client_times_out, receive_denied, receive_disconnect
<1>3. Responded' \subseteq Responded /\ Drawn' \subseteq Drawn
  BY <1>1, <1>2, NothingDrawn DEF serverVars
<1>4. \A d \in Clients : state'[d] \in Trying => state'[d] = state[d]
  BY <1>1 DEF IInv, TypeOK, Trying
<1>5. TypeOK' /\ Past'
  <2>1. \A n \in net' : Datagram(n)  BY <1>2, NetTyped
  <2>2. TypeOK'  BY <1>1, <2>1 DEF IInv, TypeOK, Datagram, serverVars
  <2>3. Past'  BY <1>1, <1>2, <1>3, <1>4 DEF IInv, Past, Trying, Challenged, serverVars
  <2>. QED  BY <2>2, <2>3
<1>6. Linked' /\ OneResponse'
  BY <1>1, <1>2, <1>3, <1>4, NoPayload, NoResponse DEF Trying, serverVars
<1>7. NewestDecided'
  BY <1>1, ServerStays
<1>8. AcceptedAdmitted' /\ SameConnection'
  BY <1>1, <1>2, <1>4
  DEF IInv, AcceptedAdmitted, SameConnection, Connected, ClientXor, Trying, serverVars
<1>9. Answered'
  BY ChallengesStay
  DEF IInv, Answered, Challenged, client_times_out, client_disconnects,
     receive_denied, receive_disconnect, TypeOK, Send,
     ClientXor, Xor, clientVars
<1>. QED  BY <1>5, <1>6, <1>7, <1>8, <1>9 DEF IInv

\* Payloads are sent and delivered.
LEMMA PayloadInv ==
  ASSUME IInv, NEW c \in Clients,
         \/ send_payload(c)
         \/ \E m \in net : client_receives_payload(c, m) \/ handle_payload(c, m)
  PROVE  IInv'
<1>0. \A n \in net' \ net : Datagram(n) /\ n.type = "payload" /\ n.to = "client"
  BY DEF IInv, TypeOK, Datagram, send_payload, client_receives_payload, handle_payload, Send,
     Payload, Connected
<1>2. UNCHANGED <<clientVars, serverVars>>
  BY DEF send_payload, client_receives_payload, handle_payload
<1>1. TypeOK'
  <2>1. heard' \subseteq Clients \X Nat \X Nat
    BY ConnectionAssumption
    DEF IInv, TypeOK, send_payload, client_receives_payload, handle_payload, read_packet, Arrives
  <2>2. \A n \in net' : Datagram(n)  BY <1>0, NetTyped
  <2>. QED  BY <1>2, <2>1, <2>2 DEF IInv, TypeOK, Datagram, clientVars, serverVars
<1>3. Responded' \subseteq Responded /\ Drawn' \subseteq Drawn
  BY <1>0, <1>2, NothingDrawn DEF serverVars
<1>4. Past'
  BY <1>0, <1>2, <1>3 DEF IInv, Past, clientVars, serverVars
<1>6. OneResponse'
  BY <1>2, <1>3, NoResponse DEF clientVars
<1>7. NewestDecided'
  BY <1>2, ServerStays
<1>8. UNCHANGED <<state, client_salt, server_salt, connections, admits>>
  BY <1>2 DEF clientVars, serverVars
<1>9. AcceptedAdmitted' /\ SameConnection'
  BY <1>0, <1>8 DEF IInv, AcceptedAdmitted, SameConnection, Connected, ClientXor
<1>10. Linked'
  <2>1. UNCHANGED made  BY DEF send_payload, client_receives_payload, handle_payload, serverVars
  <2>2. ASSUME NEW d \in Clients, NEW n \in Nat, NEW k \in Nat, Link(d, n, k)'
        PROVE  Link(d, n, k)
    <3>1. CASE send_payload(c)
      BY <1>8, <2>1, <2>2, <3>1 DEF Link, Arrives, Connected, send_payload, Send, Payload
    <3>2. ASSUME NEW m \in net, client_receives_payload(c, m)  PROVE Link(d, n, k)
      BY <1>8, <2>1, <2>2, <3>2
      DEF Link, Arrives, Connected, client_receives_payload, read_packet, Genuine, ClientXor, Xor
    <3>3. ASSUME NEW m \in net, handle_payload(c, m)  PROVE Link(d, n, k)
      BY <1>8, <2>1, <2>2, <3>3
      DEF IInv, Linked, Link, Arrives, Connected, handle_payload, read_packet, Genuine
    <3>. QED  BY <3>1, <3>2, <3>3
  <2>3. \A m \in net' \ net : m.type = "payload" /\ m.to = "server" => m.writer = m.salt[1]
    BY <1>0
  <2>. QED  BY <1>8, <2>1, <2>2, <2>3, NoLink DEF Decided
<1>11. Answered'
  BY ChallengesStay
  DEF IInv, Answered, Challenged, send_payload, client_receives_payload,
     handle_payload, TypeOK, Send,
     ClientXor, Xor, clientVars
<1>. QED  BY <1>1, <1>4, <1>6, <1>7, <1>9, <1>10, <1>11 DEF IInv

\* The server forgets a connection or a handshake.
LEMMA DropInv ==
  ASSUME IInv, NEW c \in Clients,
         \/ timeout_connections(c) \/ disconnect(c) \/ pending_expires(c)
         \/ \E m \in net : handle_disconnect(c, m)
  PROVE  IInv'
<1>1. /\ UNCHANGED <<clientVars, others, salts, admits, made, heard>>
      /\ connections' \in [Clients -> Salt \cup {None}]
      /\ pending' \in [Clients -> Salt \cup {None}]
      /\ \A d \in Clients : /\ connections'[d] \in {connections[d], None}
                           /\ pending'[d] \in {pending[d], None}
  BY DEF IInv, TypeOK, timeout_connections, disconnect, pending_expires, handle_disconnect
<1>2. \A n \in net' \ net : Datagram(n) /\ n.type = "disconnect"
  <2>. DEFINE q == ToClient(c, "disconnect", connections[c])
  <2>1. q.client = c /\ q.type = "disconnect" /\ q.salt = connections[c]  BY DEF ToClient
  <2>2. CASE disconnect(c)
    <3>1. Datagram(q)  BY <2>1, <2>2 DEF IInv, TypeOK, Datagram, disconnect, Connected
    <3>2. net' \subseteq net \cup {q}  BY <2>2, Sent DEF disconnect
    <3>. HIDE DEF q
    <3>. QED  BY <2>1, <3>1, <3>2
  <2>3. CASE net' = net  BY <2>3
  <2>. QED  BY <2>2, <2>3 DEF timeout_connections, pending_expires, handle_disconnect
<1>3. Responded' \subseteq Responded /\ Drawn' \subseteq Drawn
  BY <1>1, <1>2, NothingDrawn
<1>4. TypeOK'
  <2>1. \A n \in net' : Datagram(n)  BY <1>2, NetTyped
  <2>. QED  BY <1>1, <2>1 DEF IInv, TypeOK, Datagram, clientVars
<1>5. Past'
  BY <1>1, <1>2, <1>3 DEF IInv, Past, clientVars
<1>6. Linked' /\ OneResponse'
  BY <1>1, <1>2, <1>3, NoPayload, NoResponse DEF clientVars
<1>7. NewestDecided'
  <2>1. Decided' = Decided  BY <1>1 DEF Decided
  <2>. QED  BY <1>1, <2>1 DEF IInv, NewestDecided, Connected
<1>8. AcceptedAdmitted' /\ SameConnection'
  BY <1>1, <1>2
  DEF IInv, AcceptedAdmitted, SameConnection, Connected, ClientXor, clientVars
<1>9. Answered'
  BY ChallengesStay
  DEF IInv, Answered, Challenged, timeout_connections, disconnect, pending_expires,
     handle_disconnect, TypeOK, Send,
     ClientXor, Xor, clientVars
<1>. QED  BY <1>4, <1>5, <1>6, <1>7, <1>8, <1>9 DEF IInv

\* The client is accepted: had the server gone on to another connection, that one
\* would be newer, and an answer to a later attempt.
LEMMA AcceptedInv ==
  ASSUME IInv, NEW c \in Clients,
         NEW m \in net, receive_accepted(c, m)
  PROVE  IInv'
<1>1. /\ UNCHANGED <<client_salt, server_salt, serverVars, net, heard>>
      /\ state[c] = "sending_response" /\ state' = [state EXCEPT ![c] = "connected"]
  BY DEF receive_accepted
<1>2. Linked' /\ NewestDecided'
  BY <1>1, NoPayload, ServerStays DEF serverVars
<1>3. Responded' \subseteq Responded /\ Drawn' \subseteq Drawn
  BY <1>1, NothingDrawn DEF serverVars
<1>4. TypeOK'
  BY <1>1 DEF IInv, TypeOK, serverVars
<1>5. Past'
  BY <1>1, <1>3 DEF IInv, TypeOK, Past, Trying, Challenged, serverVars
<1>6. OneResponse'
  BY <1>1, <1>3, NoResponse DEF IInv, TypeOK
<1>8. c \in Connected => connections[c] = ClientXor(c)
  <2>. SUFFICES ASSUME c \in Connected, connections[c] # ClientXor(c)  PROVE FALSE
    OBVIOUS
  <2>. DEFINE x == connections[c]
              y == ClientXor(c)
  <2>1. x \in Salt /\ y \in Salt /\ y[1] = client_salt[c] /\ client_salt[c] \in Nat
    BY ConnectionAssumption
    DEF IInv, receive_accepted, Arrives, TypeOK, Connected, ClientXor, Xor
  <2>2. <<c, x, "admitted">> \in admits /\ <<c, y, "admitted">> \in admits
    BY DEF IInv, receive_accepted, Arrives, NewestDecided, AcceptedAdmitted
  <2>. /\ <<c, x>> \in Decided /\ <<c, y>> \in Decided
    BY <2>2, AdmitDecides
  <2>3. <<c, x>> \in Responded /\ <<c, x>> \in Drawn /\ <<c, y>> \in Drawn
    BY DEF Responded, Drawn
  <2>4. x[1] < y[1]
    BY <2>1, <2>3, SaltPair, ConnectionAssumption DEF IInv, Past, OneResponse
  <2>5. x[2] < y[2]  BY <2>1, <2>3, <2>4 DEF IInv, OneResponse
  <2>6. y[2] <= x[2]  BY <2>1 DEF IInv, NewestDecided
  <2>. QED  BY <2>1, <2>5, <2>6, SaltPair, ConnectionAssumption
<1>9. AcceptedAdmitted' /\ SameConnection'
  <2>1. <<c, ClientXor(c), "admitted">> \in admits
    BY DEF IInv, receive_accepted, Arrives, AcceptedAdmitted
  <2>. QED
    BY <1>1, <1>8, <2>1
    DEF IInv, TypeOK, AcceptedAdmitted, SameConnection, Connected, ClientXor, serverVars
<1>10. Answered'
  BY ChallengesStay
  DEF IInv, Answered, Challenged, receive_accepted, TypeOK, Send,
     ClientXor, Xor, clientVars
<1>. QED  BY <1>2, <1>4, <1>5, <1>6, <1>9, <1>10 DEF IInv

\* The server answers a request; the salt it may draw is newer than all before.
LEMMA RequestInv ==
  ASSUME IInv, NEW c \in Clients,
         NEW m \in net, handle_connection_request(c, m)
  PROVE  IInv'
<1>0. /\ UNCHANGED <<clientVars, connections, others, admits, made, heard>>
      /\ m.type = "request" /\ m.client = c /\ m.salt \in 1 .. MaxAttempts
      /\ m.salt <= client_salt[c] /\ salts \in 0 .. MaxServerSalts /\ salts \in Nat
  BY ConnectionAssumption
  DEF IInv, TypeOK, Past, handle_connection_request, Arrives
<1>. DEFINE fresh == <<m.salt, salts + 1>>
            Answer(q) == net \subseteq net' /\ net' \subseteq net \cup {q}
\* The request is answered with the connection or a refusal; or a handshake is
\* pending, the one that was or a fresh one, and a challenge sent.
<1>1. \/ /\ UNCHANGED <<pending, salts>>
         /\ \E q : /\ Answer(q) /\ Datagram(q) /\ q.client = c
                  /\ \/ c \in Connected /\ q.type = "accepted" /\ q.salt = connections[c]
                     \/ q.type = "denied"
      \/ \E x \in Salt :
           /\ c \notin Connected
           /\ pending' = [pending EXCEPT ![c] = x]
           /\ \/ x = pending[c] /\ salts' = salts
              \/ x = fresh /\ salts' = salts + 1 /\ salts < MaxServerSalts
           /\ \E q : /\ Answer(q) /\ Datagram(q)
                    /\ q.client = c /\ q.type = "challenge" /\ q.salt = x
  <2>1. CASE /\ c \in Connected /\ Send(ToClient(c, "accepted", connections[c]))
             /\ UNCHANGED <<pending, salts>>
    <3>. DEFINE q == ToClient(c, "accepted", connections[c])
    <3>1. q.client = c /\ q.type = "accepted" /\ q.salt = connections[c]  BY DEF ToClient
    <3>2. Datagram(q)  BY <2>1, <3>1 DEF IInv, TypeOK, Datagram, Connected
    <3>3. Answer(q)  BY <2>1, Sent
    <3>. HIDE DEF q, Answer
    <3>. QED  BY <2>1, <3>1, <3>2, <3>3
  <2>2. CASE Send(ToClient(c, "denied", None)) /\ UNCHANGED <<pending, salts>>
    <3>. DEFINE q == ToClient(c, "denied", None)
    <3>1. q.client = c /\ q.type = "denied" /\ q.salt = None  BY DEF ToClient
    <3>2. Datagram(q)  BY <3>1 DEF Datagram
    <3>3. Answer(q)  BY <2>2, Sent
    <3>. HIDE DEF q, Answer
    <3>. QED  BY <2>2, <3>1, <3>2, <3>3
  <2>3. ASSUME NEW x, c \notin Connected, pending' = [pending EXCEPT ![c] = x],
               \/ x = pending[c] /\ x # None /\ salts' = salts
               \/ x = fresh /\ salts' = salts + 1 /\ salts < MaxServerSalts,
               Send(ToClient(c, "challenge", x))
        PROVE  /\ x \in Salt
               /\ \E q : /\ Answer(q) /\ Datagram(q)
                        /\ q.client = c /\ q.type = "challenge" /\ q.salt = x
    <3>. DEFINE q == ToClient(c, "challenge", x)
    <3>1. x \in Salt
      BY <1>0, <2>3, ConnectionAssumption DEF IInv, TypeOK, Salt
    <3>2. q.client = c /\ q.type = "challenge" /\ q.salt = x  BY DEF ToClient
    <3>3. Datagram(q)  BY <3>1, <3>2 DEF Datagram
    <3>4. Answer(q)  BY <2>3, Sent
    <3>. HIDE DEF q, Answer
    <3>. QED  BY <3>1, <3>2, <3>3, <3>4
  <2>4. \/ /\ c \in Connected /\ Send(ToClient(c, "accepted", connections[c]))
           /\ UNCHANGED <<pending, salts>>
        \/ Send(ToClient(c, "denied", None)) /\ UNCHANGED <<pending, salts>>
        \/ \E x : /\ c \notin Connected /\ pending' = [pending EXCEPT ![c] = x]
                 /\ \/ x = pending[c] /\ x # None /\ salts' = salts
                    \/ x = fresh /\ salts' = salts + 1 /\ salts < MaxServerSalts
                 /\ Send(ToClient(c, "challenge", x))
    BY DEF handle_connection_request, Xor
  <2>. HIDE DEF Answer
  <2>. QED  BY <2>1, <2>2, <2>3, <2>4
<1>2. PICK q : /\ net \subseteq net' /\ net' \subseteq net \cup {q} /\ Datagram(q)
               /\ q.type \in {"accepted", "denied", "challenge"} /\ q.client = c
               /\ q.type = "accepted" => c \in Connected /\ q.salt = connections[c]
               /\ q.type = "challenge" =>
                    /\ q.salt \in Salt /\ c \notin Connected
                    /\ pending' = [pending EXCEPT ![c] = q.salt]
                    /\ \/ q.salt = pending[c] /\ salts' = salts
                       \/ q.salt = fresh /\ salts' = salts + 1 /\ salts < MaxServerSalts
               /\ q.type # "challenge" => UNCHANGED <<pending, salts>>
  BY <1>1
<1>3. /\ Responded' \subseteq Responded
      /\ \/ Drawn' \subseteq Drawn /\ salts' = salts
         \/ Drawn' \subseteq Drawn \cup {<<c, fresh>>} /\ salts' = salts + 1 /\ salts < MaxServerSalts
  <2>1. CASE q.type # "challenge"
    BY <1>0, <1>2, <2>1, NothingDrawn
  <2>2. CASE q.type = "challenge"
    <3>1. Responses' \subseteq Responses  BY <1>2, <2>2 DEF Responses
    <3>2. Challenges' \subseteq Challenges \cup {<<c, q.salt>>}  BY <1>2, <2>2 DEF Challenges
    <3>3. Decided' = Decided  BY <1>0 DEF Decided
    <3>4. Drawn' \subseteq Drawn \cup {<<c, q.salt>>}
      BY <1>2, <2>2, <3>1, <3>2, <3>3 DEF Drawn, Responded, IInv, TypeOK
    <3>5. q.salt = pending[c] => <<c, q.salt>> \in Drawn
      BY <1>2, <2>2, SaltIsSome DEF Drawn
    <3>. QED  BY <1>2, <2>2, <3>1, <3>3, <3>4, <3>5 DEF Responded
  <2>. QED  BY <2>1, <2>2
<1>4. Past'
  <2>1. salts' \in 0 .. MaxServerSalts /\ salts <= salts'
    BY <1>0, <1>3, ConnectionAssumption
  <2>2. \A n \in net' : n.type = "request" => n.salt <= client_salt[n.client]
    BY <1>2 DEF IInv, Past
  <2>3. \A d \in Clients : state[d] \in Challenged => server_salt[d] \in 1 .. salts'
    BY <1>0, <2>1, ConnectionAssumption DEF IInv, Past
  <2>4. \A d \in Clients, x \in Salt :
          <<d, x>> \in Drawn' => x[1] <= client_salt[d] /\ x[2] <= salts'
    BY <1>0, <1>3, SaltPair DEF IInv, Past
  <2>. QED  BY <1>0, <2>1, <2>2, <2>3, <2>4 DEF IInv, Past, clientVars
<1>5. \A d \in Clients, x \in Salt : <<d, x>> \in Drawn' \ Drawn => x[2] > salts
  <2>1. \A d \in Clients, x \in Salt : <<d, x>> \in Drawn' \ Drawn => x = fresh
    BY <1>3
  <2>. QED  BY <1>0, <2>1
<1>6. Linked' /\ OneResponse'
  BY <1>0, <1>2, <1>3, <1>5, NoResponse, NoPayload DEF clientVars
<1>7. NewestDecided'
  <2>1. \A d \in Clients, x \in Salt : <<d, x>> \in Decided => x[2] <= salts
    BY DEF IInv, Past, Drawn, Responded
  <2>2. Decided' = Decided
    BY <1>0 DEF Decided
  <2>3. ASSUME NEW d \in Clients, pending'[d] # None, NEW x \in Salt, <<d, x>> \in Decided
        PROVE  x[2] < pending'[d][2]
    <3>1. CASE pending'[d] = pending[d]  BY <2>3, <3>1 DEF IInv, NewestDecided
    <3>2. CASE d = c /\ pending'[d] = fresh
      BY <1>0, <2>1, <2>3, <3>2, SaltPair
    <3>. QED  BY <1>2, <3>1, <3>2 DEF IInv, TypeOK
  <2>. QED  BY <1>0, <2>2, <2>3 DEF IInv, NewestDecided, Connected
<1>8. TypeOK' /\ AcceptedAdmitted' /\ SameConnection'
  <2>1. \A n \in net' : Datagram(n)  BY <1>2, NetTyped
  <2>2. pending' \in [Clients -> Salt \cup {None}]  BY <1>2 DEF IInv, TypeOK
  <2>3. TypeOK'  BY <1>0, <2>1, <2>2 DEF IInv, TypeOK, Datagram, clientVars
  <2>4. AcceptedAdmitted'
    BY <1>0, <1>2 DEF IInv, AcceptedAdmitted, NewestDecided
  <2>. QED
    BY <1>0, <2>3, <2>4 DEF IInv, SameConnection, Connected, ClientXor, clientVars
<1>9. Answered'
  BY ChallengesStay
  DEF IInv, Answered, Challenged, handle_connection_request, TypeOK, Send,
     ClientXor, Xor, clientVars
<1>. QED  BY <1>4, <1>6, <1>7, <1>8, <1>9 DEF IInv

\* The server decides a handshake.  The one it decides is newer than all decided
\* before, so it is the one the client holds if that was admitted.
LEMMA ResponseInv ==
  ASSUME IInv, NEW c \in Clients,
         NEW m \in net, handle_challenge_response(c, m)
  PROVE  IInv'
<1>0. /\ UNCHANGED <<clientVars, others, salts, heard>>
      /\ m.salt \in Salt /\ <<c, m.salt>> \in Responded
  BY DEF IInv, TypeOK, handle_challenge_response, Arrives, Responded, Responses
\* The connection is confirmed, made or refused.
<1>1. \/ /\ c \in Connected /\ connections[c] = m.salt
         /\ UNCHANGED <<pending, connections, admits, made>>
         /\ Send(ToClient(c, "accepted", m.salt))
      \/ /\ c \notin Connected /\ pending[c] = m.salt
         /\ pending' = [pending EXCEPT ![c] = None]
         /\ \/ /\ connections' = [connections EXCEPT ![c] = m.salt]
               /\ made' = [made EXCEPT ![c] = @ + 1]
               /\ admits' = admits \cup {<<c, m.salt, "admitted">>}
               /\ Send(ToClient(c, "accepted", m.salt))
            \/ /\ UNCHANGED <<connections, made>>
               /\ admits' = admits \cup {<<c, m.salt, "denied">>}
               /\ Send(ToClient(c, "denied", None))
  BY DEF handle_challenge_response
<1>3. Responded' \subseteq Responded /\ Drawn' \subseteq Drawn
  <2>1. \A n \in net' \ net : n.type \notin {"challenge", "response"}
    <3>1. \E q : q.type \in {"accepted", "denied"} /\ net' \subseteq net \cup {q}
      BY <1>1, Sent DEF ToClient
    <3>. QED  BY <3>1
  <2>2. Responses' \subseteq Responses  BY <2>1 DEF Responses
  <2>3. Challenges' \subseteq Challenges  BY <2>1 DEF Challenges
  <2>4. Decided' \subseteq Decided \cup {<<c, m.salt>>}  BY <1>1 DEF Decided
  <2>5. \A d \in Clients : pending'[d] \in {pending[d], None}  BY <1>1 DEF IInv, TypeOK
  <2>6. Responded' \subseteq Responded  BY <1>0, <2>2, <2>4 DEF Responded
  <2>. QED  BY <2>3, <2>5, <2>6 DEF Drawn
<1>4. \A n \in net' \ net :
        /\ Datagram(n) /\ n.type \in {"accepted", "denied"}
        /\ n.type = "accepted" => n.client = c /\ n.salt = m.salt
                                  /\ <<c, m.salt, "admitted">> \in admits'
  <2>1. CASE Send(ToClient(c, "accepted", m.salt)) /\ <<c, m.salt, "admitted">> \in admits'
    <3>. DEFINE q == ToClient(c, "accepted", m.salt)
    <3>1. q.client = c /\ q.type = "accepted" /\ q.salt = m.salt  BY DEF ToClient
    <3>2. Datagram(q)  BY <1>0, <3>1 DEF Datagram
    <3>3. net' \subseteq net \cup {q}  BY <2>1, Sent
    <3>. HIDE DEF q
    <3>. QED  BY <2>1, <3>1, <3>2, <3>3
  <2>2. CASE Send(ToClient(c, "denied", None))
    <3>. DEFINE q == ToClient(c, "denied", None)
    <3>1. q.client = c /\ q.type = "denied" /\ q.salt = None  BY DEF ToClient
    <3>2. Datagram(q)  BY <3>1 DEF Datagram
    <3>3. net' \subseteq net \cup {q}  BY <2>2, Sent
    <3>. HIDE DEF q
    <3>. QED  BY <3>1, <3>2, <3>3
  <2>3. c \in Connected => <<c, connections[c], "admitted">> \in admits
    BY DEF IInv, NewestDecided
  <2>. QED  BY <1>1, <2>1, <2>2, <2>3
<1>5. TypeOK' /\ Past'
  <2>1. \A n \in net' : Datagram(n)  BY <1>4, NetTyped
  <2>2. /\ connections' \in [Clients -> Salt \cup {None}]
        /\ pending' \in [Clients -> Salt \cup {None}]
        /\ made' \in [Clients -> Nat]
    BY <1>0, <1>1 DEF IInv, TypeOK
  <2>3. admits' \subseteq Clients \X Salt \X {"admitted", "denied"}
    BY <1>0, <1>1 DEF IInv, TypeOK
  <2>4. TypeOK'
    BY <1>0, <2>1, <2>2, <2>3 DEF IInv, TypeOK, Datagram, clientVars
  <2>5. Past'
    BY <1>0, <1>3, <1>4 DEF IInv, Past, clientVars
  <2>. QED  BY <2>4, <2>5
<1>6. OneResponse'
  BY <1>0, <1>3, NoResponse DEF clientVars
<1>7. NewestDecided'
  <2>1. m.salt \in Salt /\ m.salt # None
    BY SaltIsSome DEF IInv, TypeOK, handle_challenge_response, Arrives
  <2>2. CASE c \in Connected
    BY <2>2 DEF IInv, NewestDecided, Decided, handle_challenge_response, Connected
  <2>3. CASE c \notin Connected
    <3>1. /\ pending[c] = m.salt /\ pending' = [pending EXCEPT ![c] = None]
          /\ Decided' \subseteq Decided \cup {<<c, m.salt>>}
          /\ \/ UNCHANGED connections
             \/ /\ connections' = [connections EXCEPT ![c] = m.salt]
                /\ <<c, m.salt, "admitted">> \in admits'
          /\ admits \subseteq admits'
      BY <1>1, <2>3 DEF Decided
    <3>2. \A x \in Salt : <<c, x>> \in Decided => x[2] < m.salt[2]
      BY <2>1, <3>1 DEF IInv, NewestDecided
    <3>. QED
      BY <2>1, <2>3, <3>1, <3>2, SaltPair DEF IInv, NewestDecided, TypeOK, Connected
  <2>. QED  BY <2>2, <2>3
<1>2. Linked'
  <2>1. CASE UNCHANGED <<made, connections>>
    <3>1. Decided \subseteq Decided'  BY DEF Decided, handle_challenge_response
    <3>2. net \subseteq net' /\ \A b \in net' \ net : b.type # "payload"
      BY DEF handle_challenge_response, Send, ToClient
    <3>3. ASSUME NEW d \in Clients, NEW n \in Nat, NEW k \in Nat, Link(d, n, k)'
          PROVE  Link(d, n, k)
      BY <2>1, <3>2, <3>3 DEF Link, Arrives, Connected, handle_challenge_response
    <3>. QED  BY <2>1, <3>1, <3>2, <3>3, NoLink
  <2>2. CASE /\ c \notin Connected /\ pending[c] = m.salt
             /\ connections' = [connections EXCEPT ![c] = m.salt]
             /\ made' = [made EXCEPT ![c] = @ + 1]
             /\ admits' = admits \cup {<<c, m.salt, "admitted">>}
    <3>. DEFINE y == m.salt
    <3>1. y \in Salt /\ y # None /\ y[1] \in Nat /\ made[c] \in Nat
      BY SaltIsSome, SaltPair DEF IInv, TypeOK, handle_challenge_response, Arrives
    <3>2. net \subseteq net' /\ heard' = heard /\ \A b \in net' \ net : b.type # "payload"
      BY DEF handle_challenge_response, Send, ToClient
    <3>3. Decided \subseteq Decided' /\ <<c, y>> \in Decided'
      <4>1. <<c, y, "admitted">> \in admits'  BY <2>2
      <4>. DEFINE a == <<c, y, "admitted">>
      <4>2. <<a[1], a[2]>> \in Decided'  BY <4>1 DEF Decided
      <4>. QED  BY <2>2, <4>2 DEF Decided
    <3>4. ASSUME NEW d \in Clients, NEW n \in Nat, NEW k \in Nat, Link(d, n, k)'
          PROVE  Link(d, n, k) \/ (d = c /\ n = y[1] /\ k = made[c] + 1)
      BY <2>2, <3>2, <3>4 DEF IInv, TypeOK, Link, Arrives, Connected
    <3>5. ASSUME NEW n \in Nat, NEW k \in Nat, Link(c, n, k)
          PROVE  k # made[c] + 1 /\ n # y[1]
      <4>1. PICK x \in Salt : <<c, x>> \in Decided /\ x[1] = n
        BY <3>5 DEF IInv, Linked
      <4>2. x[2] < y[2]
        BY <2>2, <3>1, <4>1 DEF IInv, NewestDecided
      <4>3. <<c, x>> \in Responded /\ <<c, x>> \in Drawn /\ <<c, y>> \in Responded
            /\ <<c, y>> \in Drawn
        BY <4>1 DEF IInv, Responded, Drawn, Responses, handle_challenge_response, Arrives
      <4>4. x # y  BY <4>2, <3>1, SaltPair
      <4>5. x[1] # y[1]
        BY <3>1, <4>3, <4>4 DEF IInv, OneResponse
      <4>6. k <= made[c]  BY <3>5 DEF IInv, Linked
      <4>. QED  BY <3>1, <4>1, <4>5, <4>6
    <3>6. \A d \in Clients, n, k, i, j \in Nat :
            Link(d, n, k)' /\ Link(d, i, j)' => (n = i <=> k = j)
      <4>. SUFFICES ASSUME NEW d \in Clients, NEW n \in Nat, NEW k \in Nat, NEW i \in Nat,
                           NEW j \in Nat, Link(d, n, k)', Link(d, i, j)'
                    PROVE  n = i <=> k = j
        OBVIOUS
      <4>1. /\ Link(d, n, k) \/ (d = c /\ n = y[1] /\ k = made[c] + 1)
            /\ Link(d, i, j) \/ (d = c /\ i = y[1] /\ j = made[c] + 1)
        BY <3>4
      <4>2. CASE Link(d, n, k) /\ Link(d, i, j)  BY <4>2 DEF IInv, Linked
      <4>. QED  BY <3>5, <4>1, <4>2
    <3>7. ASSUME NEW d \in Clients, NEW n \in Nat, NEW k \in Nat, Link(d, n, k)'
          PROVE  k <= made'[d] /\ \E x \in Salt : <<d, x>> \in Decided' /\ x[1] = n
      <4>1. made[d] \in Nat /\ made'[d] = IF d = c THEN made[c] + 1 ELSE made[d]
        BY <2>2 DEF IInv, TypeOK
      <4>2. CASE Link(d, n, k)
        <5>1. k <= made[d] /\ \E x \in Salt : <<d, x>> \in Decided /\ x[1] = n
          BY <4>2 DEF IInv, Linked
        <5>2. k <= made'[d]  BY <4>1, <5>1
        <5>. QED  BY <3>3, <5>1, <5>2
      <4>3. CASE d = c /\ n = y[1] /\ k = made[c] + 1
        <5>1. k <= made'[d]  BY <3>1, <4>1, <4>3
        <5>. QED  BY <3>1, <3>3, <4>3, <5>1
      <4>. QED  BY <3>4, <3>7, <4>2, <4>3
    <3>. QED  BY <3>2, <3>6, <3>7 DEF IInv, Linked
  <2>. QED  BY <2>1, <2>2 DEF handle_challenge_response
<1>8. AcceptedAdmitted'
  BY <1>1, <1>4 DEF IInv, AcceptedAdmitted
<1>9. ASSUME c \notin Connected, pending[c] = m.salt, state[c] = "connected"
      PROVE  m.salt = ClientXor(c)
  <2>. DEFINE x == m.salt
              y == ClientXor(c)
  <2>1. x \in Salt /\ y \in Salt /\ y[1] = client_salt[c]
    BY <1>9, ConnectionAssumption DEF IInv, SameConnection, handle_challenge_response,
     TypeOK, Salt, Send, Arrives, ToServer, ToClient, Connected, ClientXor, Xor,
     clientVars, serverVars
  <2>2. <<c, x>> \in Responded /\ <<c, x>> \in Drawn
    BY DEF IInv, Responded, Drawn, Responses, handle_challenge_response, Arrives
  <2>3. <<c, y>> \in Decided /\ <<c, y>> \in Drawn
    BY <1>9, AdmitDecides DEF IInv, SameConnection, Responded, Drawn
  <2>4. y[2] < x[2]
    BY <1>9, <2>1, <2>3, SaltIsSome DEF IInv, NewestDecided
  <2>. /\ x[1] \in Nat /\ x[2] \in Nat /\ y[1] \in Nat /\ y[2] \in Nat
    BY <2>1, SaltPair
  <2>5. ~(x[1] < y[1])
    BY <2>1, <2>2, <2>3, <2>4 DEF IInv, OneResponse
  <2>6. x[1] = client_salt[c]
    BY <2>1, <2>2, <2>5 DEF IInv, Past
  <2>. QED  BY <2>1, <2>2, <2>6 DEF IInv, OneResponse
<1>10. SameConnection'
  <2>1. /\ admits \subseteq admits' /\ \A d \in Clients : ClientXor(d)' = ClientXor(d)
        /\ UNCHANGED state
    BY <1>0, <1>1 DEF ClientXor, clientVars
  <2>2. \A d \in Clients : connections'[d] = connections[d]
                           \/ (/\ d = c /\ c \notin Connected /\ pending[c] = m.salt
                               /\ connections'[d] = m.salt)
    BY <1>1 DEF IInv, TypeOK
  <2>. QED  BY <1>9, <2>1, <2>2 DEF IInv, SameConnection, Connected
<1>11. Answered'
  BY ChallengesStay
  DEF IInv, Answered, Challenged, handle_challenge_response, TypeOK, Send,
     ClientXor, Xor, clientVars
<1>. QED  BY <1>2, <1>5, <1>6, <1>7, <1>8, <1>10, <1>11 DEF IInv

\* A new attempt: no response to it has been sent.
LEMMA StartInv ==
  ASSUME IInv, NEW c \in Clients,
         start(c)
  PROVE  IInv'
<1>1. /\ UNCHANGED <<serverVars, net, heard>> /\ client_salt[c] < MaxAttempts
      /\ state' = [state EXCEPT ![c] = "sending_request"]
      /\ client_salt' = [client_salt EXCEPT ![c] = client_salt[c] + 1]
      /\ server_salt' = [server_salt EXCEPT ![c] = None]
  BY DEF start
<1>2. Linked'
  BY <1>1, NoPayload DEF serverVars
<1>3. Responded' = Responded /\ Drawn' = Drawn
  BY <1>1 DEF Responded, Drawn, Responses, Challenges, Decided, serverVars
<1>4. \A d \in Clients : /\ client_salt[d] \in Nat /\ client_salt'[d] \in Nat
                         /\ client_salt[d] <= client_salt'[d]
  BY <1>1, ConnectionAssumption DEF IInv, TypeOK
<1>5. \A x \in Salt : <<c, x>> \in Drawn => x[1] < client_salt'[c]
  BY <1>1, <1>4, SaltPair DEF IInv, Past, TypeOK
<1>6. Past'
  <2>1. \A n \in net : n.type = "request" => n.salt <= client_salt'[n.client]
    <3>1. \A n \in net : n.type = "request" => n.salt \in Nat /\ n.client \in Clients
      BY ConnectionAssumption DEF IInv, TypeOK
    <3>2. \A n \in net : n.type = "request" => n.salt <= client_salt[n.client]
      BY DEF IInv, Past
    <3>. QED  BY <1>4, <3>1, <3>2
  <2>2. \A d \in Clients : /\ state'[d] \in Trying => client_salt'[d] >= 1
                           /\ state'[d] \in Challenged => server_salt'[d] \in 1 .. salts
    BY <1>1, <1>4 DEF IInv, Past, TypeOK, Challenged, Trying
  <2>3. \A d \in Clients, x \in Salt :
          <<d, x>> \in Drawn => x[1] <= client_salt'[d] /\ x[2] <= salts
    <3>. SUFFICES ASSUME NEW d \in Clients, NEW x \in Salt, <<d, x>> \in Drawn
                  PROVE  x[1] <= client_salt'[d] /\ x[2] <= salts
      OBVIOUS
    <3>1. x[1] <= client_salt[d] /\ x[2] <= salts  BY DEF IInv, Past
    <3>. QED  BY <1>4, <3>1, SaltPair
  <2>. QED  BY <1>1, <1>3, <2>1, <2>2, <2>3 DEF IInv, Past, serverVars
<1>7. TypeOK' /\ OneResponse' /\ NewestDecided' /\ AcceptedAdmitted' /\ SameConnection'
  <2>1. client_salt' \in [Clients -> 0 .. MaxAttempts]
    BY <1>1, <1>4, ConnectionAssumption DEF IInv, TypeOK
  <2>2. TypeOK'
    BY <1>1, <2>1 DEF IInv, TypeOK, serverVars
  <2>3. \A d \in Clients \ {c} : /\ ClientXor(d)' = ClientXor(d) /\ state'[d] = state[d]
                                 /\ client_salt'[d] = client_salt[d]
    BY <1>1 DEF IInv, TypeOK, ClientXor, Xor
  <2>4. \A x \in Salt : <<c, x>> \in Responded => x[1] # client_salt'[c]
    BY <1>4, <1>5, SaltPair DEF Drawn
  <2>5. OneResponse'
    BY <1>3, <2>3, <2>4 DEF IInv, OneResponse
  <2>6. NewestDecided'
    BY <1>1, ServerStays
  <2>7. state'[c] # "connected"
    BY <1>1 DEF IInv, TypeOK
  <2>8. AcceptedAdmitted' /\ SameConnection'
    BY <1>1, <2>3, <2>7 DEF IInv, AcceptedAdmitted, SameConnection, Connected, serverVars
  <2>. QED  BY <2>2, <2>5, <2>6, <2>8
<1>8. Answered'
  BY ChallengesStay
  DEF IInv, Answered, Challenged, start, TypeOK, Send,
     ClientXor, Xor, clientVars
<1>. QED  BY <1>2, <1>6, <1>7, <1>8 DEF IInv

\* The client repeats its request or its response, or sends a payload.
LEMMA UpdateInv ==
  ASSUME IInv, NEW c \in Clients,
         update(c)
  PROVE  IInv'
<1>0. \A n \in net' \ net :
        /\ Datagram(n) /\ n.client = c /\ n.type \in {"request", "response", "payload"}
        /\ n.type = "request" => n.salt = client_salt[c]
        /\ n.type = "response" => n.salt = ClientXor(c) /\ state[c] = "sending_response"
        /\ n.type = "payload" => n.to = "server" /\ n.writer = n.salt[1]
  <2>1. CASE state[c] = "sending_request" /\ Send(ToServer(c, "request", client_salt[c]))
    <3>. DEFINE q == ToServer(c, "request", client_salt[c])
    <3>1. q.client = c /\ q.type = "request" /\ q.salt = client_salt[c]  BY DEF ToServer
    <3>2. client_salt[c] \in 1 .. MaxAttempts
      BY <2>1, ConnectionAssumption DEF IInv, TypeOK, Past, Trying
    <3>3. Datagram(q)  BY <3>1, <3>2 DEF Datagram
    <3>4. net' \subseteq net \cup {q}  BY <2>1, Sent
    <3>. HIDE DEF q
    <3>. QED  BY <3>1, <3>3, <3>4
  <2>2. state[c] \in Challenged => /\ ClientXor(c) \in Salt /\ client_salt[c] \in Nat
                                   /\ ClientXor(c)[1] = client_salt[c]
    BY ConnectionAssumption DEF IInv, TypeOK, Past, Trying, Challenged, ClientXor, Xor, Salt
  <2>3. CASE state[c] = "sending_response" /\ Send(ToServer(c, "response", ClientXor(c)))
    <3>. DEFINE q == ToServer(c, "response", ClientXor(c))
    <3>1. q.client = c /\ q.type = "response" /\ q.salt = ClientXor(c)  BY DEF ToServer
    <3>2. Datagram(q)  BY <2>2, <2>3, <3>1 DEF Datagram, Challenged
    <3>3. net' \subseteq net \cup {q}  BY <2>3, Sent
    <3>. HIDE DEF q
    <3>. QED  BY <2>3, <3>1, <3>2, <3>3
  <2>4. CASE /\ state[c] = "connected"
             /\ Send(Payload(c, "server", ClientXor(c), client_salt[c]))
    <3>. DEFINE q == Payload(c, "server", ClientXor(c), client_salt[c])
    <3>1. /\ q.client = c /\ q.type = "payload" /\ q.to = "server"
          /\ q.salt = ClientXor(c) /\ q.writer = client_salt[c]
      BY DEF Payload
    <3>2. Datagram(q) /\ q.writer = q.salt[1]  BY <2>2, <2>4, <3>1 DEF Datagram, Challenged
    <3>3. net' \subseteq net \cup {q}  BY <2>4, Sent
    <3>. HIDE DEF q
    <3>. QED  BY <3>1, <3>2, <3>3
  <2>. QED  BY <2>1, <2>3, <2>4 DEF update
<1>1. UNCHANGED <<clientVars, serverVars, heard>>
  BY DEF update
<1>2. Linked'
  BY <1>0, <1>1, NoPayload DEF serverVars
<1>3. \/ Responded' \subseteq Responded /\ Drawn' \subseteq Drawn
      \/ /\ Responded' \subseteq Responded \cup {<<c, ClientXor(c)>>}
         /\ Drawn' \subseteq Drawn \cup {<<c, ClientXor(c)>>}
         /\ state[c] = "sending_response"
  <2>1. CASE \A n \in net' \ net : n.type # "response"
    BY <1>0, <1>1, <2>1, NothingDrawn DEF serverVars
  <2>2. ASSUME NEW n \in net' \ net, n.type = "response"
        PROVE  /\ Responded' \subseteq Responded \cup {<<c, ClientXor(c)>>}
               /\ Drawn' \subseteq Drawn \cup {<<c, ClientXor(c)>>}
               /\ state[c] = "sending_response"
    <3>1. net' \subseteq net \cup {n}  BY DEF update, Send
    <3>. QED  BY <1>0, <1>1, <2>2, <3>1, ResponseDrawn DEF serverVars
  <2>. QED  BY <2>1, <2>2
<1>4. Past'
  <2>1. \A n \in net' : n.type = "request" => n.salt <= client_salt[n.client]
    <3>1. client_salt[c] \in Nat  BY ConnectionAssumption DEF IInv, TypeOK
    <3>. QED  BY <1>0, <3>1 DEF IInv, Past
  <2>2. \A d \in Clients, x \in Salt :
          <<d, x>> \in Drawn' => x[1] <= client_salt[d] /\ x[2] <= salts
    <3>1. state[c] = "sending_response" => <<c, ClientXor(c)>> \in Drawn
      BY DEF IInv, Answered, Challenged, Drawn
    <3>. QED  BY <1>3, <3>1 DEF IInv, Past
  <2>. QED  BY <1>1, <2>1, <2>2 DEF IInv, Past, clientVars, serverVars
<1>5. UNCHANGED <<state, client_salt, server_salt>>
  BY <1>1 DEF clientVars
<1>6. OneResponse'
  <2>1. CASE Responded' \subseteq Responded /\ Drawn' \subseteq Drawn
    BY <1>5, <2>1, NoResponse
  <2>2. CASE /\ Responded' \subseteq Responded \cup {<<c, ClientXor(c)>>}
             /\ Drawn' \subseteq Drawn \cup {<<c, ClientXor(c)>>}
             /\ state[c] = "sending_response"
    <3>1. ClientXor(c)[1] = client_salt[c] /\ ClientXor(c)' = ClientXor(c)
      BY <1>5 DEF ClientXor, Xor
    <3>2. \A y \in Salt : <<c, y>> \in Drawn' => y[1] <= client_salt[c]
      BY <1>4, <1>5 DEF Past
    <3>3. client_salt[c] \in Nat
      BY ConnectionAssumption DEF IInv, TypeOK
    <3>4. <<c, ClientXor(c)>> \in Drawn
      BY <2>2 DEF IInv, Answered, Challenged, Drawn
    <3>5. ASSUME NEW d \in Clients, NEW x \in Salt, NEW y \in Salt,
                 <<d, x>> \in Responded', <<d, y>> \in Drawn', x[1] < y[1]
          PROVE  <<d, x>> \in Responded /\ <<d, y>> \in Drawn
      <4>1. <<d, y>> \in Drawn  BY <2>2, <3>4, <3>5
      <4>2. <<d, x>> # <<c, ClientXor(c)>>  BY <3>1, <3>2, <3>3, <3>5, SaltPair
      <4>. QED  BY <2>2, <3>5, <4>1, <4>2
    <3>6. \A x \in Salt : <<c, x>> \in Responded' /\ x[1] = client_salt[c] => x = ClientXor(c)
      BY <2>2 DEF IInv, OneResponse
    <3>7. ASSUME NEW d \in Clients, NEW x \in Salt, NEW y \in Salt,
                 <<d, x>> \in Responded', <<d, y>> \in Responded', x[1] = y[1]
          PROVE  x = y
      <4>1. CASE <<d, x>> \in Responded /\ <<d, y>> \in Responded
        BY <3>7, <4>1 DEF IInv, OneResponse
      <4>2. CASE d = c /\ x[1] = client_salt[c]  BY <3>6, <3>7, <4>2
      <4>. QED  BY <2>2, <3>1, <3>7, <4>1, <4>2
    <3>8. ASSUME NEW d \in Clients, NEW x \in Salt, <<d, x>> \in Responded', x[1] = client_salt[d]
          PROVE  state[d] # "sending_request" /\ x = ClientXor(d)
      <4>1. CASE <<d, x>> \in Responded  BY <3>8, <4>1 DEF IInv, OneResponse
      <4>. QED  BY <2>2, <3>8, <4>1
    <3>9. \A d \in Clients : ClientXor(d)' = ClientXor(d)
      BY <1>5 DEF ClientXor
    <3>10. ASSUME NEW d \in Clients, NEW x \in Salt, NEW y \in Salt,
                  <<d, x>> \in Responded', <<d, y>> \in Drawn', x[1] < y[1]
           PROVE  x[2] < y[2]
      BY <3>5, <3>10 DEF IInv, OneResponse
    <3>. QED  BY <1>5, <3>7, <3>8, <3>9, <3>10 DEF OneResponse
  <2>. QED  BY <1>3, <2>1, <2>2
<1>7. NewestDecided'
  BY <1>1, ServerStays
<1>8. TypeOK' /\ AcceptedAdmitted' /\ SameConnection'
  <2>1. \A n \in net' : Datagram(n)  BY <1>0, NetTyped
  <2>2. TypeOK'  BY <1>1, <2>1 DEF IInv, TypeOK, Datagram, clientVars, serverVars
  <2>3. AcceptedAdmitted'
    BY <1>0, <1>1 DEF IInv, AcceptedAdmitted, serverVars
  <2>. QED
    BY <1>1, <2>2, <2>3 DEF IInv, SameConnection, Connected, ClientXor, clientVars, serverVars
<1>9. Answered'
  BY ChallengesStay
  DEF IInv, Answered, Challenged, update, TypeOK, Send,
     ClientXor, Xor, clientVars
<1>. QED  BY <1>2, <1>4, <1>6, <1>7, <1>8, <1>9 DEF IInv

\* The client responds to the first challenge of its attempt.
LEMMA ChallengeInv ==
  ASSUME IInv, NEW c \in Clients,
         NEW m \in net, receive_challenge(c, m)
  PROVE  IInv'
<1>0. /\ m.client = c /\ m.type = "challenge" /\ m.salt \in Salt
      /\ m.salt[1] = client_salt[c] /\ state[c] = "sending_request"
      /\ <<c, m.salt>> \in Challenges /\ <<c, m.salt>> \in Drawn
  BY DEF IInv, TypeOK, receive_challenge, Arrives, Challenges, Drawn
<1>1. /\ \A n \in net' \ net : /\ Datagram(n) /\ n.type = "response"
                               /\ n.client = c /\ n.salt = m.salt
      /\ net' = net \/ \E n : net' = net \cup {n}
      /\ UNCHANGED <<client_salt, serverVars, heard>>
  <2>. DEFINE q == ToServer(c, "response", m.salt)
  <2>1. q.client = c /\ q.type = "response" /\ q.salt = m.salt  BY DEF ToServer
  <2>2. Datagram(q)  BY <1>0, <2>1 DEF Datagram
  <2>3. net' = net \/ net' = net \cup {q}  BY DEF receive_challenge, Send
  <2>4. UNCHANGED <<client_salt, serverVars, heard>>  BY DEF receive_challenge
  <2>. HIDE DEF q
  <2>. QED  BY <2>1, <2>2, <2>3, <2>4
<1>2. Linked'
  BY <1>1, NoPayload DEF serverVars
<1>3. Responded' \subseteq Responded \cup {<<c, m.salt>>} /\ Drawn' \subseteq Drawn
  <2>1. CASE net' = net
    BY <1>1, <2>1, NothingDrawn DEF serverVars
  <2>2. ASSUME NEW n \in net' \ net, net' = net \cup {n}
        PROVE  Responded' \subseteq Responded \cup {<<c, m.salt>>} /\ Drawn' \subseteq Drawn
    <3>1. n.type = "response" /\ n.client = c /\ n.salt = m.salt  BY <1>1
    <3>2. net' \subseteq net \cup {n} /\ UNCHANGED <<admits, pending>>
      BY <1>1, <2>2 DEF serverVars
    <3>. QED  BY <1>0, <3>1, <3>2, ResponseDrawn
  <2>. QED  BY <1>1, <2>1, <2>2
<1>4. Past'
  <2>1. m.salt[2] \in 1 .. salts
    BY <1>0, SaltPair, ConnectionAssumption DEF IInv, Past
  <2>2. \A d \in Clients : state'[d] \in Trying => client_salt[d] >= 1
    BY <1>0, SaltPair DEF IInv, Past, TypeOK, Trying, receive_challenge
  <2>3. \A d \in Clients : state'[d] \in Challenged => server_salt'[d] \in 1 .. salts
    BY <1>0, <2>1 DEF IInv, Past, TypeOK, Challenged, receive_challenge
  <2>. QED  BY <1>1, <1>3, <2>2, <2>3 DEF IInv, Past, serverVars
<1>5. OneResponse'
  <2>1. \A y \in Salt : <<c, y>> \in Drawn' => y[1] <= client_salt[c]
    BY <1>1, <1>4 DEF Past
  <2>2. ClientXor(c)' = m.salt
    BY <1>0, SaltPair DEF IInv, TypeOK, receive_challenge, ClientXor, Xor
  <2>3. \A d \in Clients \ {c} : ClientXor(d)' = ClientXor(d) /\ state'[d] = state[d]
    BY DEF IInv, TypeOK, receive_challenge, ClientXor, Xor
  <2>4. state'[c] = "sending_response"
    BY DEF IInv, TypeOK, receive_challenge
  <2>5. \A x \in Salt : <<c, x>> \in Responded => x[1] # client_salt[c]
    BY <1>0 DEF IInv, OneResponse
  <2>6. client_salt[c] \in Nat
    BY <1>0, SaltPair
  <2>7. ASSUME NEW x \in Salt, <<c, x>> \in Responded'
        PROVE  /\ x[1] = client_salt[c] => x = m.salt
               /\ \A y \in Salt : <<c, y>> \in Responded' /\ x[1] = y[1] => x = y
               /\ \A y \in Salt : <<c, y>> \in Drawn' /\ x[1] < y[1] => x[2] < y[2]
    <3>1. CASE x = m.salt
      BY <1>0, <1>3, <2>1, <2>5, <2>6, <3>1, SaltPair
    <3>2. CASE x # m.salt
      <4>1. <<c, x>> \in Responded  BY <1>3, <2>7, <3>2
      <4>. QED  BY <1>0, <1>3, <2>5, <4>1 DEF IInv, OneResponse
    <3>. QED  BY <3>1, <3>2
  <2>8. ASSUME NEW d \in Clients \ {c}, NEW x \in Salt, <<d, x>> \in Responded'
        PROVE  /\ x[1] = client_salt[d] => state'[d] # "sending_request" /\ x = ClientXor(d)'
               /\ \A y \in Salt : <<d, y>> \in Responded' /\ x[1] = y[1] => x = y
               /\ \A y \in Salt : <<d, y>> \in Drawn' /\ x[1] < y[1] => x[2] < y[2]
    BY <1>3, <2>3, <2>8 DEF IInv, OneResponse
  <2>. QED  BY <1>1, <2>2, <2>4, <2>7, <2>8 DEF OneResponse
<1>6. NewestDecided'
  BY <1>1, ServerStays
<1>7. TypeOK' /\ AcceptedAdmitted' /\ SameConnection'
  <2>1. \A n \in net' : Datagram(n)  BY <1>1, NetTyped
  <2>2. /\ state' = [state EXCEPT ![c] = "sending_response"]
        /\ server_salt' = [server_salt EXCEPT ![c] = m.salt[2]]
    BY DEF receive_challenge
  <2>3. TypeOK'
    BY <1>0, <1>1, <2>1, <2>2, SaltPair DEF IInv, TypeOK, Datagram, serverVars
  <2>4. AcceptedAdmitted'
    BY <1>1 DEF IInv, AcceptedAdmitted, serverVars
  <2>5. SameConnection'
    BY <1>1, <2>2 DEF IInv, TypeOK, SameConnection, Connected, ClientXor, Xor, serverVars
  <2>. QED  BY <2>3, <2>4, <2>5
<1>8. Answered'
  <2>1. <<c, m.salt>> \in Challenges /\ m.salt \in Salt /\ m.salt[1] = client_salt[c]
    BY DEF IInv, TypeOK, Challenges, receive_challenge, Arrives
  <2>2. ClientXor(c)' = m.salt
    BY <2>1, SaltPair DEF IInv, TypeOK, receive_challenge, ClientXor, Xor
  <2>3. \A d \in Clients \ {c} : ClientXor(d)' = ClientXor(d) /\ state'[d] = state[d]
    BY DEF IInv, TypeOK, receive_challenge, ClientXor, Xor
  <2>. QED
    BY <2>1, <2>2, <2>3, ChallengesStay DEF IInv, Answered, receive_challenge, Send
<1>. QED  BY <1>2, <1>4, <1>5, <1>6, <1>7, <1>8 DEF IInv

\* Other players come, as long as there is a place, and go.
LEMMA OthersInv ==
  ASSUME IInv, other_connects \/ other_leaves
  PROVE  IInv'
<1>1. /\ Connected' = Connected /\ Responded' = Responded /\ Drawn' = Drawn /\ Decided' = Decided
      /\ UNCHANGED <<clientVars, pending, connections, salts, admits, made, net, heard>>
  BY DEF other_connects, other_leaves, Connected, Responded, Responses, Challenges, Drawn,
         Decided
<1>2. others' \in 0 .. Capacity
  BY <1>1, PlacesCounted, ConnectionAssumption
  DEF IInv, TypeOK, Players, other_connects, other_leaves
<1>3. TypeOK'
  BY <1>1, <1>2 DEF IInv, TypeOK, clientVars
<1>4. Past' /\ Answered' /\ OneResponse'
  BY <1>1 DEF IInv, Past, Answered, OneResponse, Challenges, ClientXor, clientVars
<1>5. NewestDecided' /\ AcceptedAdmitted' /\ SameConnection'
  BY <1>1 DEF IInv, NewestDecided, AcceptedAdmitted, SameConnection, ClientXor, clientVars
<1>6. Linked'
  BY <1>1, NoPayload
<1>. QED  BY <1>3, <1>4, <1>5, <1>6 DEF IInv

-----------------------------------------------------------------------------
(* The theorems.                                                            *)

\* The invariant holds before the first attempt.
LEMMA InitInv == Init => IInv
<1>. SUFFICES ASSUME Init  PROVE IInv
  OBVIOUS
<1>1. Connected = {}
  BY DEF Init, Connected
<1>3. Drawn = {} /\ Responded = {} /\ Decided = {}
  BY DEF Init, Drawn, Responded, Decided, Responses, Challenges
<1>4. TypeOK
  BY ConnectionAssumption DEF Init, TypeOK
<1>5. Past /\ Answered /\ OneResponse
  BY <1>3, ConnectionAssumption DEF Init, Past, Answered, OneResponse, Trying, Challenged
<1>6. NewestDecided /\ AcceptedAdmitted /\ SameConnection
  BY <1>1 DEF Init, NewestDecided, AcceptedAdmitted, SameConnection
<1>7. Linked
  <2>1. \A c \in Clients, n, k \in Nat : ~Link(c, n, k)
    BY <1>1 DEF Init, Link
  <2>. QED  BY <2>1 DEF Init, Linked
<1>. QED  BY <1>4, <1>5, <1>6, <1>7 DEF IInv

\* Every step keeps it: one case per action of client, server and network.
LEMMA StepInv == IInv /\ [Next]_vars => IInv'
<1>. SUFFICES ASSUME IInv, [Next]_vars  PROVE IInv'
  OBVIOUS
<1>1. CASE other_connects \/ other_leaves
  BY <1>1, OthersInv
<1>2. ASSUME NEW c \in Clients, start(c)  PROVE IInv'
  BY <1>2, StartInv
<1>3. ASSUME NEW c \in Clients, update(c)  PROVE IInv'
  BY <1>3, UpdateInv
<1>4. ASSUME NEW c \in Clients,
             \/ client_times_out(c) \/ client_disconnects(c)
             \/ \E m \in net : receive_denied(c, m) \/ receive_disconnect(c, m)
      PROVE  IInv'
  BY <1>4, EndsInv
<1>5. ASSUME NEW c \in Clients,
             \/ send_payload(c)
             \/ \E m \in net : client_receives_payload(c, m) \/ handle_payload(c, m)
      PROVE  IInv'
  BY <1>5, PayloadInv
<1>6. ASSUME NEW c \in Clients,
             \/ timeout_connections(c) \/ disconnect(c) \/ pending_expires(c)
             \/ \E m \in net : handle_disconnect(c, m)
      PROVE  IInv'
  BY <1>6, DropInv
<1>7. ASSUME NEW c \in Clients, NEW m \in net,
             \/ receive_challenge(c, m) \/ receive_accepted(c, m)
             \/ handle_connection_request(c, m) \/ handle_challenge_response(c, m)
      PROVE  IInv'
  BY <1>7, ChallengeInv, AcceptedInv, RequestInv, ResponseInv
<1>8. CASE UNCHANGED vars
  <2>1. UNCHANGED <<clientVars, serverVars, net, heard>>
    BY <1>8 DEF vars
  <2>2. /\ Connected' = Connected /\ Responded' = Responded /\ Drawn' = Drawn
        /\ Decided' = Decided
    BY <2>1 DEF clientVars, serverVars, Connected, Responded, Responses, Challenges, Drawn,
                Decided
  <2>3. Linked'
    BY <2>1, NoPayload DEF serverVars
  <2>. QED
    BY <2>1, <2>2, <2>3
    DEF clientVars, serverVars, IInv, TypeOK, Past, Answered, Challenges,
       OneResponse, NewestDecided, AcceptedAdmitted, SameConnection, ClientXor
<1>. QED  BY <1>1, <1>2, <1>3, <1>4, <1>5, <1>6, <1>7, <1>8 DEF Next

\* So it holds throughout.
LEMMA Inductive == Spec => []IInv
  BY InitInv, StepInv, PTL DEF Spec

\* The tables of both sides and the datagrams keep their types, and the others
\* their number within the capacity.
THEOREM TypeCorrect == Spec => []TypeOK
<1>1. IInv => TypeOK  BY DEF IInv
<1>. QED  BY <1>1, Inductive, PTL

\* A client counts itself connected only with an admitted salt, and both sides that
\* hold a connection hold the same one, whatever datagrams of earlier attempts
\* arrive and however often.
THEOREM ConnectionsMatch == Spec => []SameConnection
<1>1. IInv => SameConnection  BY DEF IInv
<1>. QED  BY <1>1, Inductive, PTL

\* Every reliability endpoint hears one endpoint of the other side and is heard by
\* that one only, however many Connections are made for a client, and whatever
\* payloads of earlier ones arrive.
THEOREM PeersMatch == Spec => []EndpointsPaired
<1>1. IInv => EndpointsPaired
  <2>. SUFFICES ASSUME IInv, NEW d \in heard, NEW e \in heard, d[1] = e[1]
                PROVE  d[2] = e[2] <=> d[3] = e[3]
    BY DEF EndpointsPaired
  <2>1. /\ d[1] \in Clients /\ d[2] \in Nat /\ d[3] \in Nat /\ d = <<d[1], d[2], d[3]>>
        /\ e[2] \in Nat /\ e[3] \in Nat /\ e = <<e[1], e[2], e[3]>>
    BY DEF IInv, TypeOK
  <2>2. Link(d[1], d[2], d[3]) /\ Link(d[1], e[2], e[3])
    BY <2>1 DEF Link
  <2>. QED  BY <2>1, <2>2 DEF IInv, Linked
<1>. QED  BY <1>1, Inductive, PTL

\* A handshake is decided at most once: no late or repeated response makes a second
\* connection of it or revives one that was refused.
THEOREM HandshakesDecidedOnce == Spec => DecidedOnce
<1>. DEFINE Once == \A c \in Clients :
                      connections'[c] \notin {None, connections[c]}
                        => \A d \in {"admitted", "denied"} : <<c, connections'[c], d>> \notin admits
<1>1. IInv /\ [Next]_vars => [Once]_vars
  <2>. SUFFICES ASSUME IInv, Next, NEW c \in Clients,
                       connections'[c] \notin {None, connections[c]},
                       NEW d \in {"admitted", "denied"}, <<c, connections'[c], d>> \in admits
                PROVE  FALSE
    OBVIOUS
  <2>0. PICK b \in Clients :
          \/ timeout_connections(b) \/ disconnect(b)
          \/ \E m \in net : handle_challenge_response(b, m) \/ handle_disconnect(b, m)
    <3>1. connections' # connections
      BY DEF IInv, TypeOK
    <3>2. ~other_connects /\ ~other_leaves
      BY <3>1 DEF other_connects, other_leaves
    <3>3. ASSUME NEW b \in Clients
          PROVE  /\ ~start(b) /\ ~update(b) /\ ~client_times_out(b) /\ ~client_disconnects(b)
                 /\ ~send_payload(b) /\ ~pending_expires(b)
      BY <3>1 DEF serverVars, start, update, client_times_out, client_disconnects,
         send_payload, pending_expires
    <3>4. ASSUME NEW b \in Clients, NEW m \in net
          PROVE  /\ ~receive_challenge(b, m) /\ ~receive_accepted(b, m)
                 /\ ~handle_connection_request(b, m) /\ ~receive_denied(b, m)
                 /\ ~receive_disconnect(b, m) /\ ~client_receives_payload(b, m)
                 /\ ~handle_payload(b, m)
      BY <3>1
      DEF serverVars, receive_challenge, receive_accepted, handle_connection_request,
         receive_denied, receive_disconnect, client_receives_payload, handle_payload
    <3>. QED  BY <3>2, <3>3, <3>4, Zenon DEF Next
  <2>1. PICK m \in net : /\ handle_challenge_response(c, m) /\ c \notin Connected
                         /\ pending[c] = m.salt /\ connections'[c] = m.salt
    <3>1. ~timeout_connections(b) /\ ~disconnect(b)
      BY DEF IInv, TypeOK, timeout_connections, disconnect
    <3>2. \A m \in net : ~handle_disconnect(b, m)
      BY DEF IInv, TypeOK, handle_disconnect
    <3>3. PICK m \in net : handle_challenge_response(b, m)
      BY <2>0, <3>1, <3>2
    <3>4. /\ b \notin Connected /\ pending[b] = m.salt
          /\ connections' = [connections EXCEPT ![b] = m.salt]
      BY <3>3 DEF IInv, TypeOK, handle_challenge_response
    <3>5. b = c  BY <3>4 DEF IInv, TypeOK
    <3>. QED  BY <3>3, <3>4, <3>5 DEF IInv, TypeOK
  <2>2. m.salt \in Salt /\ m.salt # None
    BY <2>1, SaltIsSome DEF IInv, TypeOK, handle_challenge_response, Arrives
  <2>3. <<c, m.salt>> \in Decided
    BY <2>1, AdmitDecides
  <2>4. m.salt[2] < m.salt[2]
    BY <2>1, <2>2, <2>3 DEF IInv, NewestDecided
  <2>. QED  BY <2>2, <2>4, SaltPair
<1>2. [][IInv /\ [Next]_vars]_vars => [][Once]_vars
  BY <1>1, PTL
<1>. QED  BY <1>1, Inductive, PTL DEF Spec, DecidedOnce
====
