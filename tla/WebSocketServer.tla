-------------------------- MODULE WebSocketServer --------------------------
(* The viewer feed of src/net/websocket.cpp: the tick thread publishes      *)
(* frames into a bounded queue, one background thread hands them to every   *)
(* viewer over non-blocking sockets with bounded send buffers.              *)
(*                                                                          *)
(* A frame is its number; one the kernel took in part counts as unsent.     *)
(* Keen viewers always have room in their socket, the others take what they *)
(* like, down to nothing.                                                   *)
EXTENDS Integers, SequencesExt

CONSTANTS Viewers, Keen,
          MaxClients,        \* config.max_clients
          MaxQueuedFrames,   \* config.max_queued_frames
          MaxOutgoing,       \* kMaxOutgoingBytes, in units of the small frame
          MaxFrames,         \* frames published in all
          BigFrames          \* those of twice the size

ASSUME WebSocketAssumption ==
  Keen \subseteq Viewers /\ {MaxClients, MaxQueuedFrames, MaxOutgoing, MaxFrames} \subseteq Nat \ {0}

VARIABLES queue,             \* queue_, under queue_mutex_
          clients,           \* clients_, atomic
          viewer_running,    \* running_, atomic
          publishing,        \* the tick thread is past publish's checks
          phase, frames, visiting,   \* the thread's place in serve and its locals
          peers, closing, outgoing,  \* peers_
          published,         \* frames published so far
          got,               \* per viewer, what its socket took
          dropped, missed    \* frames counted in frames_dropped_: from queue_, per viewer

threadVars == <<phase, frames, visiting, peers, closing, outgoing, got, missed, clients>>
viewerVars == <<queue, viewer_running, publishing, published, dropped, threadVars>>

Last_n(s, n) == IF Len(s) <= n THEN s ELSE SubSeq(s, Len(s) - n + 1, Len(s))

ViewerInit ==
  /\ queue = <<>> /\ clients = 0 /\ viewer_running \in BOOLEAN /\ publishing = FALSE
  /\ phase = (IF viewer_running THEN "accept" ELSE "stopped") /\ frames = <<>> /\ visiting = {}
  /\ peers = {} /\ closing = {} /\ outgoing = [v \in Viewers |-> <<>>]
  /\ published = 0 /\ got = [v \in Viewers |-> <<>>]
  /\ dropped = {} /\ missed = [v \in Viewers |-> {}]

-----------------------------------------------------------------------------
(* The tick thread.                                                         *)

\* The checks of publish_viewer_state and publish; clients may change after.
publish_checks ==
  /\ viewer_running /\ ~publishing /\ published < MaxFrames /\ clients # 0
  /\ publishing' = TRUE /\ published' = published + 1
  /\ UNCHANGED <<queue, viewer_running, dropped, threadVars>>

\* Mutant: what falls out of the queue is not counted.
publish_uncounted ==
  /\ publishing /\ publishing' = FALSE
  /\ queue' = Last_n(Append(queue, published), MaxQueuedFrames)
  /\ UNCHANGED <<viewer_running, published, dropped, threadVars>>

\* Push under the mutex, then pop the oldest over the limit.
publish ==
  /\ publishing /\ publishing' = FALSE
  /\ queue' = Last_n(Append(queue, published), MaxQueuedFrames)
  /\ dropped' = dropped \cup (ToSet(Append(queue, published)) \ ToSet(queue'))
  /\ UNCHANGED <<viewer_running, published, threadVars>>

\* stop: the flag, then (the thread joined) everything is closed and cleared.
viewer_stop ==
  /\ viewer_running /\ ~publishing /\ viewer_running' = FALSE
  /\ UNCHANGED <<queue, publishing, published, dropped, threadVars>>

viewer_stopped ==
  /\ ~viewer_running /\ phase = "done" /\ phase' = "stopped"
  /\ peers' = {} /\ clients' = 0 /\ queue' = <<>>
  /\ UNCHANGED <<viewer_running, publishing, published, dropped, frames, visiting, closing,
                 outgoing, got, missed>>

-----------------------------------------------------------------------------
(* The thread in serve.                                                     *)

tickVars == <<viewer_running, publishing, published, dropped>>

\* accept_peer; the handshake may take a while, and the tick thread goes on.
accept_peer(v) ==
  /\ phase = "accept" /\ phase' = "take"
  /\ v \notin peers /\ Cardinality(peers) < MaxClients
  /\ peers' = peers \cup {v} /\ clients' = Cardinality(peers')
  /\ outgoing' = [outgoing EXCEPT ![v] = <<>>] /\ got' = [got EXCEPT ![v] = <<>>]
  /\ missed' = [missed EXCEPT ![v] = {}]
  /\ UNCHANGED <<queue, tickVars, frames, visiting, closing>>

\* Nobody asks, the server is full or the handshake fails.
accept_nobody ==
  /\ phase = "accept" /\ phase' = "take"
  /\ UNCHANGED <<queue, tickVars, frames, visiting, peers, closing, outgoing, got, missed,
                 clients>>

take_frames ==
  /\ phase = "take" /\ phase' = "visit"
  /\ frames' = queue /\ queue' = <<>> /\ visiting' = peers
  /\ UNCHANGED <<tickVars, peers, closing, outgoing, got, missed, clients>>

\* drain saw a close or an error.
drain_closes(v) ==
  /\ phase = "visit" /\ v \in visiting
  /\ visiting' = visiting \ {v} /\ closing' = closing \cup {v}
  /\ UNCHANGED <<queue, tickVars, phase, frames, peers, outgoing, got, missed, clients>>

Size(f) == IF f \in BigFrames THEN 2 ELSE 1
Bytes(buffer) == FoldLeft(LAMBDA sum, f : sum + Size(f), 0, buffer)

\* A frame that would overflow the buffer is dropped, even if a later one fits.
Buffered(v) ==
  FoldLeft(LAMBDA buffer, f : IF Bytes(buffer) + Size(f) > MaxOutgoing THEN buffer
                              ELSE Append(buffer, f),
           outgoing[v], frames)

\* What send takes in pump's loop.
Taken(v, buffer) == IF v \in Keen THEN {Len(buffer)} ELSE 0 .. Len(buffer)

\* Mutant: the sockets block until all is sent.
serve_peer_blocks(v) ==
  /\ phase = "visit" /\ v \in visiting
  /\ visiting' = visiting \ {v}
  /\ v \in Keen \/ Buffered(v) = <<>>
  /\ got' = [got EXCEPT ![v] = @ \o Buffered(v)]
  /\ outgoing' = [outgoing EXCEPT ![v] = <<>>]
  /\ UNCHANGED <<queue, tickVars, phase, frames, peers, closing, missed, clients>>

serve_peer(v) ==
  /\ phase = "visit" /\ v \in visiting
  /\ visiting' = visiting \ {v}
  /\ LET buffer == Buffered(v)
     IN  /\ \E n \in Taken(v, buffer) :
              /\ got' = [got EXCEPT ![v] = @ \o SubSeq(buffer, 1, n)]
              /\ outgoing' = [outgoing EXCEPT ![v] = SubSeq(buffer, n + 1, Len(buffer))]
         /\ missed' = [missed EXCEPT ![v] = @ \cup (ToSet(frames) \ ToSet(buffer))]
  /\ UNCHANGED <<queue, tickVars, phase, frames, peers, closing, clients>>

\* pump's send failed: the frames were buffered, the peer goes.
pump_fails(v) ==
  /\ phase = "visit" /\ v \in visiting
  /\ visiting' = visiting \ {v} /\ closing' = closing \cup {v}
  /\ LET buffer == Buffered(v)
     IN  /\ buffer # <<>> /\ outgoing' = [outgoing EXCEPT ![v] = buffer]
         /\ missed' = [missed EXCEPT ![v] = @ \cup (ToSet(frames) \ ToSet(buffer))]
  /\ UNCHANGED <<queue, tickVars, phase, frames, peers, got, clients>>

\* The end of an iteration; the loop tests running_ again.
sweep ==
  /\ phase = "visit" /\ visiting = {}
  /\ phase' = IF viewer_running THEN "accept" ELSE "done"
  /\ peers' = peers \ closing /\ closing' = {} /\ clients' = Cardinality(peers')
  /\ frames' = <<>>
  /\ UNCHANGED <<queue, tickVars, visiting, outgoing, got, missed>>

Serve == accept_nobody \/ take_frames \/ sweep \/ \E v \in Viewers : serve_peer(v)

Viewer(v) == accept_peer(v) \/ drain_closes(v) \/ pump_fails(v)

-----------------------------------------------------------------------------
\* The state of the feed: the queue of frames and every viewer's send buffer keep
\* within max_queued_frames and kMaxOutgoingBytes.
ViewerTypeOK ==
  /\ Len(queue) <= MaxQueuedFrames /\ clients \in 0 .. MaxClients
  /\ peers \subseteq Viewers /\ closing \subseteq peers /\ visiting \subseteq peers
  /\ \A v \in Viewers : Bytes(outgoing[v]) <= MaxOutgoing
  /\ published \in 0 .. MaxFrames /\ dropped \subseteq 1 .. MaxFrames
  /\ phase \in {"accept", "take", "visit", "done", "stopped"}

Stream(v) == got[v] \o outgoing[v]

\* From the first frame a connected viewer was given, every frame published is
\* with it, still on its way to it, or counted in frames_dropped_.
NoSilentLoss ==
  \A v \in peers \ closing : Stream(v) # <<>> =>
    \A f \in Stream(v)[1] .. published :
      \/ f \in ToSet(Stream(v)) \cup ToSet(queue) \cup dropped \cup missed[v]
      \/ v \in visiting /\ f \in ToSet(frames)
      \/ publishing /\ f = published

\* websocket.h: a viewer that cannot keep up does not stall the world: whatever
\* the viewers do, queued frames are taken by the thread or cleared by stop.
NeverStalls == queue # <<>> ~> queue = <<>>

\* websocket.h: "A viewer that cannot keep up has its oldest queued frames
\* dropped": no frame kept for a viewer is older than one dropped for it.
\* The code does not have it: README.md, Divergences.
OldestDropped ==
  \A v \in peers : \A f \in missed[v] : \A i \in DOMAIN outgoing[v] : outgoing[v][i] > f

=============================================================================
