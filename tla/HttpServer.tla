----------------------------- MODULE HttpServer -----------------------------
(* The HTTP server of src/net/http.cpp: one background thread that accepts  *)
(* a client, reads its request, runs the handler and sends the answer       *)
(* before it looks at the next, over blocking sockets.                      *)
(*                                                                          *)
(* A request comes in RequestParts pieces.  Prompt clients send all of it   *)
(* with the connection, as http_fetch does; the others when they like.      *)
(* Deaf clients do not read, and the answer exceeds their socket's buffer.  *)
EXTENDS Integers, Sequences

CONSTANTS HttpClients, Prompt, Deaf, RequestParts, NoClient

ASSUME HttpAssumption ==
  /\ Prompt \subseteq HttpClients /\ Deaf \subseteq HttpClients /\ Prompt \cap Deaf = {}
  /\ RequestParts \in Nat \ {0} /\ NoClient \notin HttpClients

VARIABLES http_running,  \* running_, atomic
          http_pc,       \* the thread's place in serve and handle_client
          serving,       \* client_fd
          received,      \* pieces in handle_client's buffer
          backlog,       \* connections the kernel accepted
          conn,          \* per client, its connection
          sent           \* per client, pieces sent

clientVars == <<conn, sent>>
httpVars == <<http_running, http_pc, serving, received, backlog, clientVars>>

HttpInit ==
  /\ http_running = TRUE /\ http_pc = "poll" /\ serving = NoClient /\ received = 0
  /\ backlog = <<>> /\ conn = [c \in HttpClients |-> "none"] /\ sent = [c \in HttpClients |-> 0]

-----------------------------------------------------------------------------
(* The clients.                                                             *)

connect(c) ==
  /\ http_running /\ conn[c] = "none"
  /\ conn' = [conn EXCEPT ![c] = "open"] /\ backlog' = Append(backlog, c)
  /\ sent' = [sent EXCEPT ![c] = IF c \in Prompt THEN RequestParts ELSE 0]
  /\ UNCHANGED <<http_running, http_pc, serving, received>>

send_part(c) ==
  /\ conn[c] = "open" /\ sent[c] < RequestParts
  /\ sent' = [sent EXCEPT ![c] = @ + 1]
  /\ UNCHANGED <<http_running, http_pc, serving, received, backlog, conn>>

\* The client gives up, as http_fetch does after its timeout.
leave(c) ==
  /\ conn[c] = "open" /\ conn' = [conn EXCEPT ![c] = "left"]
  /\ UNCHANGED <<http_running, http_pc, serving, received, backlog, sent>>

-----------------------------------------------------------------------------
(* The thread.                                                              *)

\* poll and accept; the flag is tested on both sides of the poll.
accept ==
  /\ http_pc = "poll" /\ http_running /\ backlog # <<>>
  /\ http_pc' = "recv" /\ serving' = Head(backlog) /\ received' = 0
  /\ backlog' = Tail(backlog)
  /\ UNCHANGED <<http_running, clientVars>>

serve_returns ==
  /\ http_pc = "poll" /\ ~http_running /\ http_pc' = "returned"
  /\ UNCHANGED <<http_running, serving, received, backlog, clientVars>>

recv ==
  /\ http_pc = "recv" /\ received < sent[serving]
  /\ received' \in received + 1 .. sent[serving]
  /\ http_pc' = IF received' = RequestParts THEN "dispatch" ELSE "recv"
  /\ UNCHANGED <<http_running, serving, backlog, clientVars>>

\* The client is closed and the next one looked for.
Close(as) ==
  /\ http_pc' = "poll" /\ serving' = NoClient
  /\ conn' = [conn EXCEPT ![serving] = IF @ = "open" THEN as ELSE @]
  /\ UNCHANGED <<http_running, received, backlog, sent>>

\* Mutant: recv is called without the poll, and waits for ever.
recv_gives_up_never ==
  /\ http_pc = "recv" /\ received = sent[serving] /\ conn[serving] = "left"
  /\ Close("closed")

\* Nothing within kClientTimeoutMs, or the end of the stream.
recv_gives_up ==
  /\ http_pc = "recv" /\ received = sent[serving]
  /\ Close("closed")

\* The handler has returned; send blocks for a client that does not read, until
\* it goes away.
respond ==
  /\ http_pc = "send" /\ (serving \in Deaf => conn[serving] = "left")
  /\ Close("answered")

\* stop: the listener is closed with what is in its backlog; then join.
http_stop ==
  /\ http_running /\ http_running' = FALSE
  /\ backlog' = <<>>
  /\ conn' = [c \in HttpClients |->
                IF conn[c] = "open" /\ \E i \in DOMAIN backlog : backlog[i] = c
                THEN "closed" ELSE conn[c]]
  /\ UNCHANGED <<http_pc, serving, received, sent>>

-----------------------------------------------------------------------------
\* docker-compose.yml and the fleet ask /health and /session of one thread: a
\* client that sends its request gets its answer, although others stop half way
\* through theirs, if those that do not read go away in the end.
Answered ==
  \A c \in Prompt : conn[c] = "open" ~> conn[c] \in {"answered", "left"} \/ ~http_running

=============================================================================
