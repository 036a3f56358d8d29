---------------------------- MODULE RedisClient ----------------------------
(* The RESP client of src/cluster/redis.cpp: commands are queued, sent in   *)
(* one write and their replies read back by position.  A transport failure  *)
(* closes the socket and the batch is sent once more on a new one.          *)
(*                                                                          *)
(* A command is its number, and so is the reply to it.  Redis answers each  *)
(* connection in order, but works off what a connection sent even after the *)
(* client has closed it, and may be slow, restart or be out of reach.       *)
EXTENDS Integers, Sequences, Functions

CONSTANTS MaxCommands,   \* commands the callers issue
          MaxSockets,    \* connections opened
          MaxFaults,     \* faults are counted up to here
          None

\* One fault and more than one are told apart.
ASSUME RedisAssumption ==
  /\ MaxCommands \in Nat /\ MaxSockets \in Nat \ {0} /\ MaxFaults \in Nat \ {0, 1}
  /\ None \notin [step : {"send", "read"}, payload : Seq(Nat), attempt : 0 .. 1, replies : Seq(Nat)]

VARIABLES pipeline,      \* pipeline_: queued commands
          fd,            \* fd_: the open socket, 0 when closed
          sockets,       \* per socket ever opened: sent, not executed; replies, not read
          flushing,      \* the locals of flush while it runs
          result,        \* what the last flush returned
          issued,        \* commands issued so far
          executed,      \* the commands Redis ran, in its order (history)
          abandoned,     \* commands of an attempt that was given up (history)
          faults         \* restarts, timeouts and refused connections (history)

vars == <<pipeline, fd, sockets, flushing, result, issued, executed, abandoned, faults>>

Attempts == 0 .. 1
Command == 1 .. MaxCommands
Batch == {s \in UNION {[1 .. n -> Command] : n \in 0 .. MaxCommands} :
            \A i, j \in DOMAIN s : i < j => s[i] < s[j]}
Fresh == [unread |-> <<>>, sent |-> <<>>, broken |-> FALSE]

\* connect opens the first socket.
Init ==
  /\ pipeline = <<>> /\ fd = 1 /\ sockets = <<Fresh>>
  /\ flushing = None /\ result = None
  /\ issued = 0 /\ executed = <<>> /\ abandoned = {} /\ faults = 0

Fault == faults' = IF faults < MaxFaults THEN faults + 1 ELSE faults

\* Mutant: a queued command goes before the others.
queue_front ==
  /\ flushing = None /\ issued < MaxCommands
  /\ pipeline' = <<issued + 1>> \o pipeline /\ issued' = issued + 1
  /\ UNCHANGED <<fd, sockets, flushing, result, executed, abandoned, faults>>

queue ==
  /\ flushing = None /\ issued < MaxCommands
  /\ pipeline' = Append(pipeline, issued + 1) /\ issued' = issued + 1
  /\ UNCHANGED <<fd, sockets, flushing, result, executed, abandoned, faults>>

\* flush takes the whole pipeline.
flush ==
  /\ flushing = None /\ pipeline # <<>>
  /\ flushing' = [step |-> "send", payload |-> pipeline, attempt |-> 0, replies |-> <<>>]
  /\ pipeline' = <<>>
  /\ UNCHANGED <<fd, sockets, result, issued, executed, abandoned, faults>>

\* command returns the first reply of the flush it makes; its callers have
\* flushed whatever they queued before.
command ==
  /\ flushing = None /\ pipeline = <<>> /\ issued < MaxCommands
  /\ flushing' = [step |-> "send", payload |-> <<issued + 1>>, attempt |-> 0, replies |-> <<>>]
  /\ issued' = issued + 1
  /\ UNCHANGED <<pipeline, fd, sockets, result, executed, abandoned, faults>>

Return(ok) ==
  /\ flushing' = None
  /\ result' = [payload |-> flushing.payload, ok |-> ok,
                replies |-> IF ok THEN flushing.replies ELSE <<>>]

At(step) == flushing # None /\ flushing.step = step

open_socket ==
  /\ At("send") /\ fd = 0 /\ Len(sockets) < MaxSockets
  /\ sockets' = Append(sockets, Fresh) /\ fd' = Len(sockets')
  /\ UNCHANGED <<pipeline, flushing, result, issued, executed, abandoned, faults>>

\* No connection: the loop is left at once.
open_socket_fails ==
  /\ At("send") /\ fd = 0
  /\ Return(FALSE) /\ Fault
  /\ UNCHANGED <<pipeline, fd, sockets, issued, executed, abandoned>>

\* What is written to a connection Redis has lost goes nowhere.
Write(n) ==
  sockets' = [sockets EXCEPT ![fd].sent =
                IF sockets[fd].broken THEN @ ELSE @ \o SubSeq(flushing.payload, 1, n)]

send_all ==
  /\ At("send") /\ fd # 0
  /\ Write(Len(flushing.payload))
  /\ flushing' = [flushing EXCEPT !.step = "read", !.replies = <<>>]
  /\ UNCHANGED <<pipeline, fd, result, issued, executed, abandoned, faults>>

\* Mutant: the batch is not sent again.
close_and_retry_once ==
  /\ abandoned' = abandoned \cup Range(flushing.payload)
  /\ fd' = 0
  /\ Return(FALSE)

\* Mutant: a socket that is only late is used again.
close_and_retry_reuses ==
  /\ abandoned' = abandoned \cup Range(flushing.payload)
  /\ fd' = IF sockets[fd].broken THEN 0 ELSE fd
  /\ IF flushing.attempt = 0
     THEN /\ flushing' = [flushing EXCEPT !.step = "send", !.attempt = 1]
          /\ UNCHANGED result
     ELSE Return(FALSE)

\* The tail of flush's loop: close, forget what was buffered, try once more.
close_and_retry ==
  /\ abandoned' = abandoned \cup Range(flushing.payload)
  /\ fd' = 0
  /\ IF flushing.attempt = 0
     THEN /\ flushing' = [flushing EXCEPT !.step = "send", !.attempt = 1]
          /\ UNCHANGED result
     ELSE Return(FALSE)

FaultUnlessBroken == IF sockets[fd].broken THEN UNCHANGED faults ELSE Fault

\* The write stops short: only a prefix of the commands is complete.
send_all_fails ==
  /\ At("send") /\ fd # 0
  /\ \E n \in 0 .. Len(flushing.payload) - 1 : Write(n)
  /\ close_and_retry /\ FaultUnlessBroken
  /\ UNCHANGED <<pipeline, issued, executed>>

Complete == Len(flushing.replies) = Len(flushing.payload)

read_reply ==
  /\ At("read") /\ ~Complete /\ sockets[fd].unread # <<>>
  /\ flushing' = [flushing EXCEPT !.replies = Append(@, Head(sockets[fd].unread))]
  /\ sockets' = [sockets EXCEPT ![fd].unread = Tail(@)]
  /\ UNCHANGED <<pipeline, fd, result, issued, executed, abandoned, faults>>

flush_complete ==
  /\ At("read") /\ Complete
  /\ Return(TRUE)
  /\ UNCHANGED <<pipeline, fd, sockets, issued, executed, abandoned, faults>>

\* Mutant: no receive timeout; only a lost connection ends the wait.
read_reply_fails_closed ==
  /\ At("read") /\ ~Complete /\ sockets[fd].broken
  /\ close_and_retry /\ FaultUnlessBroken
  /\ UNCHANGED <<pipeline, sockets, issued, executed>>

\* recv times out or the connection is lost, or the reply is not RESP.
read_reply_fails ==
  /\ At("read") /\ ~Complete
  /\ close_and_retry /\ FaultUnlessBroken
  /\ UNCHANGED <<pipeline, sockets, issued, executed>>

-----------------------------------------------------------------------------
(* Redis.                                                                   *)

redis_executes(k) ==
  /\ sockets[k].sent # <<>>
  /\ LET c == Head(sockets[k].sent)
     IN  /\ executed' = Append(executed, c)
         /\ sockets' = [sockets EXCEPT ![k] = [unread |-> Append(@.unread, c),
                                               sent |-> Tail(@.sent), broken |-> @.broken]]
  /\ UNCHANGED <<pipeline, fd, flushing, result, issued, abandoned, faults>>

\* A restart loses every connection, with what was on the way in both directions.
redis_restarts ==
  /\ faults < MaxFaults /\ Fault
  /\ sockets' = [k \in DOMAIN sockets |-> [unread |-> <<>>, sent |-> <<>>, broken |-> TRUE]]
  /\ UNCHANGED <<pipeline, fd, flushing, result, issued, executed, abandoned>>

ClientStep == flush \/ open_socket \/ open_socket_fails \/ send_all \/ send_all_fails
              \/ read_reply \/ flush_complete \/ read_reply_fails

Next == \/ queue \/ command \/ ClientStep \/ redis_restarts
        \/ \E k \in DOMAIN sockets : redis_executes(k)

Spec == Init /\ [][Next]_vars

\* The thread in flush keeps running; Redis owes nothing.
FairSpec == Spec /\ WF_vars(ClientStep)

-----------------------------------------------------------------------------
\* The state of the client and of its connections; a broken connection holds
\* nothing of the client's any more, and a flush is on its first or second attempt.
TypeOK ==
  /\ pipeline \in Batch /\ fd \in 0 .. Len(sockets) /\ Len(sockets) \in 1 .. MaxSockets
  /\ \A k \in DOMAIN sockets : sockets[k].broken => sockets[k].sent = <<>>
  /\ flushing # None => /\ flushing.payload \in Batch /\ flushing.attempt \in Attempts
                        /\ flushing.step \in {"send", "read"}
  /\ issued \in 0 .. MaxCommands /\ faults \in 0 .. MaxFaults

\* Replies are matched with commands by position alone: a flush that succeeds
\* returns the replies to its own commands, in their order, whatever was left
\* unread by attempts before it.
RepliesMatch == result # None => (result.ok => result.replies = result.payload)

\* Redis runs the commands in the order they were queued, over any number of
\* connections, but for those of an attempt that timed out or was cut: what the
\* abandoned connection still held may run after commands of later flushes.
OrderKept ==
  \A i, j \in DOMAIN executed :
    i < j /\ executed[i] > executed[j] => executed[j] \in abandoned

\* redis.h: traffic survives one Redis restart, slow reply or dropped link without
\* the callers retrying.
SurvivesRestart == faults <= 1 => (result # None => result.ok)

\* The tick thread is blocked in flush for a bounded time only, even when Redis
\* never answers.
FlushReturns == []<>(flushing = None)

=============================================================================
