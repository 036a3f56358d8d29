------------------------------ MODULE TickLoop ------------------------------
(* The tick thread of a shard: WorldServer::run, drain_until and tick, with *)
(* ConnectionServer::receive and timeout_connections as they read the clock.*)
(*                                                                          *)
(* Time passes in whole units, anywhere: due, age, since and quiet say how  *)
(* far a moment is from now.  One connected client is followed, and all     *)
(* datagrams are its.  A unit is longer than drain_until's 1500 us and      *)
(* 2000 us, which are not told apart.                                       *)
EXTENDS UdpSocket

CONSTANTS TickUs,        \* tick_us
          TimeoutUs,     \* config.connection_timeout_us
          MaxLate        \* how late the thread ever is

ASSUME TickLoopAssumption == {TickUs, TimeoutUs, MaxLate} \subseteq Nat \ {0}

VARIABLES pc,            \* the next step of the tick thread
          running,       \* running_, atomic
          due,           \* next - now
          since,         \* now - the time the current call was given
          then,          \* where receive returns to
          connected,     \* the client is in connections_
          age,           \* now - last_receive_us of the client
          ticks,         \* stats_.ticks
          quiet,         \* history: since a datagram of the client was queued
          quiet_at_tick, \* history: its value when the tick began
          stuck,         \* history: some call of receive took time
          level          \* history: time's worth of ticks begun ahead of the clock

loopVars == <<pc, running, due, since, then, connected, age, ticks, quiet, quiet_at_tick,
              stuck, level>>
clockVars == <<due, age, quiet, stuck>>

LoopInit ==
  /\ pc = "loop" /\ running = TRUE /\ due = 0 /\ since = 0 /\ then = "wait"
  /\ connected \in BOOLEAN /\ age = 0 /\ ticks = 0
  /\ quiet = 0 /\ quiet_at_tick = 0 /\ stuck = FALSE /\ level = 0

Goto(here, there) == pc = here /\ pc' = there

-----------------------------------------------------------------------------
(* run and drain_until.                                                     *)

\* The loop test of run.
run ==
  /\ Goto("loop", IF running THEN "drain" ELSE "returned")
  /\ UNCHANGED <<running, since, then, connected, ticks, quiet_at_tick, level, clockVars, socketVars>>

\* Before the deadline: receive, then wait_readable.
drain_until ==
  /\ Goto("drain", "receive") /\ due > 0
  /\ then' = "wait" /\ since' = 0
  /\ UNCHANGED <<running, connected, ticks, quiet_at_tick, level, clockVars, socketVars>>

\* It returns on a datagram or after the slice.
wait_readable ==
  /\ Goto("wait", "drain")
  /\ UNCHANGED <<running, since, then, connected, ticks, quiet_at_tick, level, clockVars, socketVars>>

FlushPending == IF send_pending = <<>> THEN UNCHANGED socketVars ELSE flush_sends

\* At the deadline flush_sends, and tick(now_us()) begins.
begin_tick ==
  /\ Goto("drain", "receive") /\ due <= 0
  /\ FlushPending
  /\ then' = "step" /\ since' = 0 /\ quiet_at_tick' = quiet /\ level' = level + TickUs
  /\ UNCHANGED <<running, connected, ticks, clockVars>>

-----------------------------------------------------------------------------
(* ConnectionServer::receive(now_us) reads until the socket is empty.       *)

\* Whenever it is read, a datagram counts as received when the call began.
receive_datagram ==
  /\ pc = "receive" /\ receive /\ age' = since
  /\ UNCHANGED <<pc, running, due, since, then, connected, ticks, quiet, quiet_at_tick, stuck, level>>

receive_returns ==
  /\ Goto("receive", then) /\ recv_batch = <<>> /\ kernel = <<>>
  /\ UNCHANGED <<running, since, then, connected, ticks, quiet_at_tick, level, clockVars, socketVars>>

-----------------------------------------------------------------------------
(* The rest of tick.                                                        *)

\* world_.step, replicate and check_migrations: a snapshot is batched.
step ==
  /\ Goto("step", "timeouts")
  /\ IF connected /\ queued < MaxSends THEN send_batched ELSE UNCHANGED socketVars
  /\ UNCHANGED <<running, since, then, connected, ticks, quiet_at_tick, level, clockVars>>

\* Mutant: the age is taken against the present.
Expired_late == age > TimeoutUs

\* now_us - last_receive_us > timeout_us, with the tick's now_us.
Expired == age - since > TimeoutUs

timeout_connections ==
  /\ Goto("timeouts", "flush")
  /\ connected' = (connected /\ ~Expired)
  /\ UNCHANGED <<running, since, then, ticks, quiet_at_tick, level, clockVars, socketVars>>

\* flush, whose keep-alives are sends like step's, and refresh_cluster;
\* publish_viewer_state comes next.
flush ==
  /\ Goto("flush", "publish") /\ FlushPending
  /\ UNCHANGED <<running, since, then, connected, ticks, quiet_at_tick, level, clockVars>>

\* ++stats_.ticks, coming from here.
Counted(here) ==
  /\ Goto(here, "record") /\ ticks' = ticks + 1
  /\ UNCHANGED <<running, since, then, connected, quiet_at_tick, level, clockVars, socketVars>>

\* Mutant: the schedule is never given up.
Paced_always == due + TickUs

\* next += tick_us; more than four ticks late, the schedule starts again.
Paced == IF -(due + TickUs) > 4 * TickUs THEN 0 ELSE due + TickUs

pace ==
  /\ Goto("pace", "loop") /\ due' = Paced
  /\ UNCHANGED <<running, since, then, connected, age, ticks, quiet, quiet_at_tick, stuck, level,
                 socketVars>>

-----------------------------------------------------------------------------
request_stop ==
  /\ running /\ running' = FALSE
  /\ UNCHANGED <<pc, since, then, connected, ticks, quiet_at_tick, level, clockVars, socketVars>>

\* A datagram of the client is queued, is dropped by the full queue or is lost.
Arrival ==
  \/ datagram_arrives /\ quiet' = 0
  \/ (datagram_dropped \/ UNCHANGED socketVars) /\ quiet' = quiet + 1

\* A unit of time passes.  What passes while a sample is recorded passes just
\* before or after.
elapse ==
  /\ due > -MaxLate /\ pc \notin {"recording", "returned", "disconnected", "stopped"}
  /\ due' = due - 1 /\ since' = since + 1
  /\ IF connected THEN age' = age + 1 /\ Arrival
     ELSE UNCHANGED <<age, quiet, socketVars>>
  /\ stuck' = (stuck \/ pc = "receive") /\ level' = IF level = 0 THEN 0 ELSE level - 1
  /\ UNCHANGED <<pc, running, then, connected, ticks, quiet_at_tick>>

TickThread == run \/ drain_until \/ wait_readable \/ begin_tick \/ receive_datagram
              \/ receive_returns \/ step \/ timeout_connections \/ flush \/ pace

-----------------------------------------------------------------------------
\* timeout_connections drops only the silent: however long the thread stood
\* still, a client whose datagram reached the queue within the timeout before
\* the tick began stays until the shard stops, as long as no call of receive took
\* time itself (a slow Redis behind admit).
HeardIsKept ==
  [][connected /\ ~connected' /\ pc # "returned" /\ ~stuck => quiet_at_tick > TimeoutUs]_connected

\* run makes up for lost ticks, but not for more than it may be late: over any
\* stretch of time it begins at most six ticks more than fit into it.
BoundedBurst == level <= 6 * TickUs

=============================================================================
