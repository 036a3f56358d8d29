------------------------- MODULE RedisClientProofs -------------------------
(***************************************************************************)
(* Proofs about RedisClient for any number of commands, sockets and        *)
(* faults: replies belong to their commands, commands run in order but for *)
(* those given up, and one fault is survived.                              *)
(***************************************************************************)
EXTENDS RedisClient, TLAPS

Socket == [unread : Seq(Nat), sent : Seq(Nat), broken : BOOLEAN]
Flushing == [step : {"send", "read"}, payload : Seq(Nat), attempt : 0 .. 1, replies : Seq(Nat)]

\* s counts up from the number after `after`.
CountsFrom(s, after) == \A i \in DOMAIN s : s[i] = after + i

\* While a batch is flushed: its commands, the replies read, and on the open socket
\* the replies not read and the commands Redis has not run.
Size == Len(flushing.payload)
Read == Len(flushing.replies)
Unread == Len(sockets[fd].unread)
Unrun == Len(sockets[fd].sent)

-----------------------------------------------------------------------------
(* The inductive invariant.                                                 *)

Types ==
  /\ issued \in 0 .. MaxCommands /\ faults \in 0 .. MaxFaults
  /\ pipeline \in Seq(Nat) /\ executed \in Seq(Nat) /\ abandoned \subseteq Nat
  /\ sockets \in Seq(Socket) /\ Len(sockets) \in 1 .. MaxSockets /\ fd \in 0 .. Len(sockets)
  /\ flushing \in {None} \cup Flushing

\* What waits to be sent, and what is being flushed, are the newest commands; only
\* one of the two has any.
Newest ==
  /\ Len(pipeline) <= issued /\ CountsFrom(pipeline, issued - Len(pipeline))
  /\ flushing # None =>
       /\ pipeline = <<>> /\ flushing.payload # <<>>
       /\ Size <= issued /\ CountsFrom(flushing.payload, issued - Size)

\* The open socket is clean between two flushes.  While replies are read, those
\* read, those on their way and the commands still to be answered are the batch, one
\* after the other; a connection Redis has lost holds nothing more.
Aligned ==
  /\ At("read") => fd # 0
  /\ fd # 0 /\ ~At("read") => sockets[fd].unread = <<>> /\ sockets[fd].sent = <<>>
  /\ At("read") =>
       /\ CountsFrom(flushing.replies, issued - Size)
       /\ CountsFrom(sockets[fd].unread, issued - Size + Read)
       /\ CountsFrom(sockets[fd].sent, issued - Size + Read + Unread)
       /\ IF sockets[fd].broken THEN Read <= Size ELSE Read + Unread + Unrun = Size
  /\ \A k \in DOMAIN sockets : sockets[k].broken => sockets[k].unread = <<>> /\ sockets[k].sent = <<>>

\* Commands that are not given up and have yet to run.
Waiting ==
  IF flushing = None THEN Len(pipeline)
  ELSE IF flushing.attempt = 1 THEN 0
  ELSE IF flushing.step = "send" THEN Size
  ELSE Unrun

\* Whatever ran, or waits on a socket that was closed, was issued before those; and
\* what waits on a closed socket, or is sent again, was given up.
OldFirst ==
  /\ \A i \in DOMAIN executed : executed[i] <= issued - Waiting
  /\ \A k \in DOMAIN sockets : \A i \in DOMAIN sockets[k].sent :
       k # fd => sockets[k].sent[i] \in abandoned /\ sockets[k].sent[i] <= issued - Waiting
  /\ flushing # None => (flushing.attempt = 1 => Range(flushing.payload) \subseteq abandoned)

\* Every failed attempt has a fault of its own: a connection is lost by a restart,
\* or else the failure is a timeout, which counts.
FaultsCounted ==
  /\ flushing # None => (flushing.attempt = 1 => faults >= 1)
  /\ fd = 0 => faults >= 2 \/ (flushing # None /\ flushing.attempt = 1)
  /\ fd # 0 => (sockets[fd].broken =>
                  /\ faults >= 1
                  /\ flushing # None => (flushing.attempt = 1 => faults >= 2))

IInv == /\ Types /\ Newest /\ Aligned /\ OldFirst /\ FaultsCounted
        /\ RepliesMatch /\ OrderKept /\ SurvivesRestart


-----------------------------------------------------------------------------
(* Sequences that count.                                                    *)

\* Counting on by one.
LEMMA CountsAppend ==
  ASSUME NEW s \in Seq(Nat), NEW a \in Int, CountsFrom(s, a), NEW x \in Nat, x = a + Len(s) + 1
  PROVE  /\ Append(s, x) \in Seq(Nat) /\ Len(Append(s, x)) = Len(s) + 1
         /\ CountsFrom(Append(s, x), a)
  BY DEF CountsFrom

\* Without its first number a sequence counts from one later.
LEMMA CountsTail ==
  ASSUME NEW s \in Seq(Nat), NEW a \in Int, CountsFrom(s, a), s # <<>>
  PROVE  /\ Head(s) \in Nat /\ Tail(s) \in Seq(Nat)
         /\ Len(s) > 0 /\ Len(Tail(s)) = Len(s) - 1
         /\ Head(s) = a + 1 /\ CountsFrom(Tail(s), a + 1)
  BY DEF CountsFrom

\* What a prefix of a sequence holds.
LEMMA CountsPrefix ==
  ASSUME NEW s \in Seq(Nat), NEW n \in 0 .. Len(s)
  PROVE  /\ SubSeq(s, 1, n) \in Seq(Nat) /\ Len(SubSeq(s, 1, n)) = n
         /\ \A i \in DOMAIN SubSeq(s, 1, n) : i \in DOMAIN s /\ SubSeq(s, 1, n)[i] = s[i]
  OBVIOUS

\* Two that count from the same number and are as long are the same.
LEMMA CountsSame ==
  ASSUME NEW s \in Seq(Nat), NEW t \in Seq(Nat), NEW a \in Int, Len(s) = Len(t),
         CountsFrom(s, a), CountsFrom(t, a)
  PROVE  s = t
  BY SMTT(30) DEF CountsFrom

-----------------------------------------------------------------------------
(* The shape of the state.                                                  *)

\* Replacing what one socket holds.
LEMMA SocketChange ==
  ASSUME Types, NEW k \in DOMAIN sockets, NEW s \in Socket, sockets' = [sockets EXCEPT ![k] = s]
  PROVE  /\ sockets' \in Seq(Socket) /\ Len(sockets') = Len(sockets)
         /\ DOMAIN sockets' = DOMAIN sockets /\ sockets'[k] = s
         /\ \A j \in DOMAIN sockets : j # k => sockets'[j] = sockets[j]
  BY DEF Types

\* The types a step works with, read off the invariant.
LEMMA Shape ==
  ASSUME IInv
  PROVE  /\ issued \in Nat /\ faults \in Nat /\ fd \in Nat /\ Len(pipeline) \in Nat
         /\ \A k \in DOMAIN sockets : sockets[k] \in Socket
         /\ \A s \in Socket : /\ s.sent \in Seq(Nat) /\ Len(s.sent) \in Nat
                              /\ s.unread \in Seq(Nat) /\ Len(s.unread) \in Nat
         /\ fd # 0 => fd \in DOMAIN sockets
         /\ flushing # None =>
              /\ flushing \in Flushing /\ flushing.attempt \in {0, 1}
              /\ flushing.payload \in Seq(Nat) /\ Size \in Nat
              /\ flushing.replies \in Seq(Nat) /\ Read \in Nat
         /\ fd # 0 => Unread \in Nat /\ Unrun \in Nat
<1>1. issued \in Nat /\ faults \in Nat /\ Len(pipeline) \in Nat
  BY RedisAssumption DEF IInv, Types
<1>2. fd \in Nat /\ (fd # 0 => fd \in DOMAIN sockets) /\ \A k \in DOMAIN sockets : sockets[k] \in Socket
  BY DEF IInv, Types
<1>3. \A s \in Socket : /\ s.sent \in Seq(Nat) /\ Len(s.sent) \in Nat
                        /\ s.unread \in Seq(Nat) /\ Len(s.unread) \in Nat
  BY DEF Socket
<1>4. ASSUME flushing # None
      PROVE  /\ flushing \in Flushing /\ flushing.attempt \in {0, 1}
             /\ flushing.payload \in Seq(Nat) /\ Size \in Nat
             /\ flushing.replies \in Seq(Nat) /\ Read \in Nat
  BY <1>4 DEF IInv, Types, Flushing, Size, Read
<1>. QED  BY <1>1, <1>2, <1>3, <1>4 DEF Unread, Unrun

\* Every action that starts a flush, or moves it on, leaves a flush.
LEMMA FlushingIsSome == None \notin Flushing
  BY RedisAssumption DEF Flushing

\* The commands that wait are counted by a natural number.
LEMMA WaitingType == ASSUME IInv PROVE Waiting \in Nat
  BY Shape DEF IInv, Waiting, Aligned, At, Flushing

\* Commands that ran or were sent are numbers.
LEMMA Numbers ==
  ASSUME IInv
  PROVE  /\ \A i \in DOMAIN executed : executed[i] \in Nat
         /\ \A k \in DOMAIN sockets : \A i \in DOMAIN sockets[k].sent : sockets[k].sent[i] \in Nat
<1>1. \A k \in DOMAIN sockets : sockets[k].sent \in Seq(Nat)
  BY Shape
<1>2. \A s \in Seq(Nat) : \A i \in DOMAIN s : s[i] \in Nat
  OBVIOUS
<1>. QED  BY <1>1, <1>2 DEF IInv, Types

\* The batch being flushed.
LEMMA Payload ==
  ASSUME IInv, flushing # None
  PROVE  /\ \A i \in 1 .. Size :
              /\ flushing.payload[i] = issued - Size + i
              /\ flushing.payload[i] \in Range(flushing.payload)
         /\ Range(flushing.payload) \subseteq 0 .. issued
<1>1. /\ flushing.payload \in Seq(Nat) /\ Size \in Nat /\ issued \in Nat
      /\ Size <= issued
      /\ CountsFrom(flushing.payload, issued - Size)
      /\ DOMAIN flushing.payload = 1 .. Size
  BY Shape DEF IInv, Newest, Size
<1>2. \A i \in 1 .. Size : flushing.payload[i] = issued - Size + i
  BY <1>1 DEF CountsFrom
<1>3. \A i \in 1 .. Size : flushing.payload[i] \in 0 .. issued
  BY <1>1, <1>2
<1>. QED  BY <1>1, <1>2, <1>3 DEF Range

-----------------------------------------------------------------------------
(* Callers.                                                                 *)

\* A queued command is the newest.
LEMMA QueueInv == ASSUME IInv, queue PROVE IInv'
<1>1. Types'
  BY RedisAssumption DEF IInv, Types, queue
<1>2. Newest'
  <2>. DEFINE a == issued - Len(pipeline)
  <2>1. a \in Int /\ issued + 1 = a + Len(pipeline) + 1 /\ CountsFrom(pipeline, a)
    BY Shape DEF IInv, Newest
  <2>2. Len(pipeline') = Len(pipeline) + 1 /\ CountsFrom(pipeline', a) /\ a = issued' - Len(pipeline')
    BY <2>1, Shape, CountsAppend DEF IInv, Types, queue
  <2>. QED  BY <2>2, Shape DEF IInv, Newest, queue
<1>3. Aligned' /\ FaultsCounted' /\ RepliesMatch' /\ OrderKept' /\ SurvivesRestart'
  BY DEF IInv, Aligned, At, FaultsCounted, RepliesMatch, OrderKept, SurvivesRestart, queue
<1>4. OldFirst'
  <2>1. issued' - Waiting' = issued - Waiting
    BY Shape DEF IInv, Types, Waiting, queue
  <2>. QED  BY <2>1 DEF IInv, OldFirst, queue
<1>. QED  BY <1>1, <1>2, <1>3, <1>4 DEF IInv

\* flush takes the whole pipeline, command one of its own.
LEMMA FlushInv == ASSUME IInv, flush \/ command PROVE IInv'
<1>1. /\ flushing = None /\ flushing' \in Flushing /\ flushing'.step = "send"
      /\ flushing'.attempt = 0 /\ flushing'.payload \in Seq(Nat) /\ flushing'.payload # <<>>
      /\ pipeline' = <<>> /\ issued' \in 0 .. MaxCommands
      /\ UNCHANGED <<fd, sockets, result, executed, abandoned, faults>>
      /\ CountsFrom(flushing'.payload, issued' - Size')
      /\ Size' <= issued'
      /\ issued' - Size' = issued - Len(pipeline)
  <2>1. CASE flush
    <3>1. flushing'.payload = pipeline /\ flushing'.replies = <<>>
      BY <2>1 DEF flush
    <3>. QED  BY <2>1, <3>1, RedisAssumption, Shape
              DEF IInv, Types, Newest, Flushing, Size, flush
  <2>2. CASE command
    <3>1. /\ flushing'.payload = <<issued + 1>> /\ Size' = 1
          /\ flushing'.replies = <<>> /\ flushing'.payload \in Seq(Nat) /\ Len(pipeline) = 0
      BY <2>2, Shape DEF command, Size
    <3>. QED  BY <2>2, <3>1, RedisAssumption, Shape
              DEF IInv, Types, Flushing, CountsFrom, command
  <2>. QED  BY <2>1, <2>2
<1>2. flushing' # None
  BY <1>1, FlushingIsSome
<1>3. Types' /\ Newest'
  BY <1>1, <1>2 DEF IInv, Types, Newest, CountsFrom
<1>4. Aligned' /\ FaultsCounted' /\ RepliesMatch' /\ OrderKept' /\ SurvivesRestart'
  BY <1>1 DEF IInv, Aligned, At, FaultsCounted, RepliesMatch, OrderKept, SurvivesRestart
<1>5. OldFirst'
  <2>1. issued' - Waiting' = issued - Waiting
    BY <1>1, <1>2 DEF Waiting
  <2>. QED  BY <1>1, <2>1 DEF IInv, OldFirst
<1>. QED  BY <1>3, <1>4, <1>5 DEF IInv

-----------------------------------------------------------------------------
(* The thread in flush.                                                     *)

\* open_socket begins with a clean connection.
LEMMA OpenInv == ASSUME IInv, open_socket PROVE IInv'
<1>1. /\ flushing # None /\ flushing.step = "send" /\ fd = 0
      /\ Len(sockets') = Len(sockets) + 1 /\ fd' = Len(sockets') /\ sockets'[fd'] = Fresh
      /\ sockets' \in Seq(Socket)
      /\ \A k \in DOMAIN sockets' \ {fd'} : k \in DOMAIN sockets /\ sockets'[k] = sockets[k]
      /\ UNCHANGED <<pipeline, flushing, result, issued, executed, abandoned, faults>>
      /\ Len(sockets') \in 1 .. MaxSockets
  BY RedisAssumption, SMTT(30) DEF IInv, Types, open_socket, At, Socket, Fresh
<1>2. Types' /\ Newest'
  BY <1>1 DEF IInv, Types, Newest, Size
<1>3. Aligned'
  <2>1. ~At("read")' /\ fd' # 0
    BY <1>1, Shape DEF At
  <2>2. \A k \in DOMAIN sockets' : sockets'[k].broken => sockets'[k].unread = <<>> /\ sockets'[k].sent = <<>>
    BY <1>1 DEF IInv, Aligned, Fresh
  <2>. QED  BY <1>1, <2>1, <2>2 DEF Aligned, Fresh
<1>4. FaultsCounted' /\ RepliesMatch' /\ OrderKept' /\ SurvivesRestart'
  BY <1>1 DEF IInv, Types, FaultsCounted, RepliesMatch, OrderKept, SurvivesRestart, Fresh
<1>5. OldFirst'
  <2>1. Waiting' = Waiting
    BY <1>1 DEF Waiting, Size
  <2>. QED  BY <1>1, <2>1, SMTT(30) DEF IInv, Types, OldFirst
<1>. QED  BY <1>2, <1>3, <1>4, <1>5 DEF IInv

\* A connection refused is a fault, and ends the attempt.
LEMMA OpenFailsInv == ASSUME IInv, open_socket_fails PROVE IInv'
<1>1. /\ flushing # None /\ flushing.step = "send" /\ fd = 0 /\ flushing' = None
      /\ UNCHANGED <<pipeline, fd, sockets, issued, executed, abandoned>>
      /\ faults' \in 0 .. MaxFaults /\ faults' >= 2 /\ ~result'.ok
  BY RedisAssumption, Shape
  DEF IInv, Types, FaultsCounted, open_socket_fails, At, Return, Fault
<1>2. Types' /\ Newest' /\ Aligned' /\ FaultsCounted' /\ RepliesMatch' /\ OrderKept' /\ SurvivesRestart'
  BY <1>1 DEF IInv, Types, Newest, Aligned, At, FaultsCounted, RepliesMatch, OrderKept,
              SurvivesRestart
<1>3. OldFirst'
  <2>1. Waiting' = 0
    BY <1>1 DEF IInv, Newest, Waiting
  <2>3. \A n \in Nat : n <= issued - Waiting => n <= issued' - Waiting'
    BY <1>1, <2>1, Shape, WaitingType
  <2>. QED  BY <1>1, <2>3, Numbers DEF IInv, OldFirst
<1>. QED  BY <1>2, <1>3 DEF IInv

\* A write to the open socket, which is clean: it then holds what was written.
LEMMA WriteEffect ==
  ASSUME IInv, At("send"), fd # 0, NEW n \in 0 .. Size, Write(n)
  PROVE  /\ sockets' \in Seq(Socket) /\ Len(sockets') = Len(sockets)
         /\ DOMAIN sockets' = DOMAIN sockets /\ fd \in DOMAIN sockets
         /\ \A j \in DOMAIN sockets : j # fd => sockets'[j] = sockets[j]
         /\ sockets'[fd].unread = <<>> /\ sockets'[fd].broken = sockets[fd].broken
         /\ sockets'[fd].sent = IF sockets[fd].broken THEN <<>>
                                ELSE SubSeq(flushing.payload, 1, n)
<1>. DEFINE new == [sockets[fd] EXCEPT !.sent = IF sockets[fd].broken THEN @
                                                ELSE @ \o SubSeq(flushing.payload, 1, n)]
<1>1. /\ sockets[fd] \in Socket /\ fd \in DOMAIN sockets
      /\ sockets[fd].unread = <<>> /\ sockets[fd].sent = <<>>
  BY Shape DEF IInv, Aligned, At
<1>2. SubSeq(flushing.payload, 1, n) \in Seq(Nat)
  BY Shape, CountsPrefix DEF At, Size
<1>3. <<>> \o SubSeq(flushing.payload, 1, n) = SubSeq(flushing.payload, 1, n)
  BY <1>2
<1>4. /\ new \in Socket /\ new.unread = <<>> /\ new.broken = sockets[fd].broken
      /\ new.sent = IF sockets[fd].broken THEN <<>> ELSE SubSeq(flushing.payload, 1, n)
  BY <1>1, <1>2, <1>3 DEF Socket
<1>5. sockets' = [sockets EXCEPT ![fd] = new]
  BY DEF Write
<1>6. Types
  BY DEF IInv
<1>. HIDE DEF new
<1>. QED  BY <1>1, <1>4, <1>5, <1>6, SocketChange

\* send_all puts the batch on a clean connection.
LEMMA SendInv == ASSUME IInv, send_all PROVE IInv'
<1>1. /\ flushing # None /\ flushing.step = "send" /\ fd # 0 /\ At("send")
      /\ UNCHANGED <<pipeline, fd, result, issued, executed, abandoned, faults>>
  BY DEF send_all, At
<1>2. /\ sockets' \in Seq(Socket) /\ Len(sockets') = Len(sockets)
      /\ DOMAIN sockets' = DOMAIN sockets /\ fd \in DOMAIN sockets
      /\ \A j \in DOMAIN sockets : j # fd => sockets'[j] = sockets[j]
      /\ sockets'[fd].unread = <<>> /\ sockets'[fd].broken = sockets[fd].broken
      /\ sockets'[fd].sent = IF sockets[fd].broken THEN <<>> ELSE flushing.payload
  <2>1. Size \in 0 .. Size
        /\ SubSeq(flushing.payload, 1, Size) = flushing.payload
    BY <1>1, Shape DEF Size
  <2>2. Write(Size)
    BY DEF send_all, Size
  <2>. QED  BY <1>1, <2>1, <2>2, WriteEffect
<1>3. /\ flushing' \in Flushing /\ flushing'.step = "read" /\ flushing'.replies = <<>>
      /\ flushing'.payload = flushing.payload /\ flushing'.attempt = flushing.attempt
  <2>1. flushing \in Flushing
    BY <1>1, Shape
  <2>2. flushing' = [step |-> "read", payload |-> flushing.payload,
                     attempt |-> flushing.attempt, replies |-> <<>>]
    BY <2>1 DEF send_all, Flushing
  <2>. QED  BY <2>1, <2>2 DEF Flushing
<1>4. flushing' # None
  BY <1>3, FlushingIsSome
<1>5. Types' /\ Newest' /\ RepliesMatch' /\ OrderKept' /\ SurvivesRestart' /\ FaultsCounted'
  BY <1>1, <1>2, <1>3, <1>4
     DEF IInv, Types, Newest, Size, RepliesMatch, OrderKept, SurvivesRestart, FaultsCounted
<1>6. Aligned'
  <2>. DEFINE before == issued - Size
  <2>1. /\ before \in Int /\ Size' = Size /\ Read' = 0 /\ Unread' = 0
        /\ ~sockets[fd].broken => Unrun' = Size
        /\ CountsFrom(<<>>, before) /\ CountsFrom(<<>>, before + 0)
        /\ CountsFrom(<<>>, before + 0 + 0)
    <3>1. before \in Int /\ \A a \in Int : CountsFrom(<<>>, a)
      BY <1>1, Shape DEF CountsFrom
    <3>2. Size' = Size /\ Read' = 0 /\ Unread' = 0 /\ (~sockets[fd].broken => Unrun' = Size)
      BY <1>1, <1>2, <1>3 DEF Size, Read, Unread, Unrun
    <3>. QED  BY <3>1, <3>2
  <2>2. CountsFrom(flushing.payload, before + 0 + 0)
    BY <1>1, <2>1 DEF IInv, Newest
  <2>3. \A k \in DOMAIN sockets' : sockets'[k].broken => sockets'[k].unread = <<>> /\ sockets'[k].sent = <<>>
    BY <1>2 DEF IInv, Aligned
  <2>. QED  BY <1>1, <1>2, <1>3, <1>4, <2>1, <2>2, <2>3, Shape, SMTT(30) DEF Aligned, At
<1>7. OldFirst'
  <2>1. Waiting' <= Waiting /\ Waiting \in Nat /\ Waiting' \in Nat
    <3>1. Size' = Size /\ Unrun' \in {0, Size} /\ Size \in Nat
      BY <1>1, <1>2, <1>3, Shape DEF Size, Unrun
    <3>. QED  BY <1>1, <1>3, <1>4, <3>1, Shape DEF Waiting
  <2>3. \A x \in Nat : x <= issued - Waiting => x <= issued' - Waiting'
    BY <1>1, <2>1, Shape
  <2>. QED  BY <1>1, <1>2, <1>3, <1>4, <2>3, Numbers DEF IInv, OldFirst
<1>. QED  BY <1>5, <1>6, <1>7 DEF IInv

\* The tail of the loop: the socket is left with commands of this batch at most, which
\* counts as given up; the attempt has had a fault of its own.
LEMMA GiveUpInv ==
  ASSUME IInv, flushing # None, fd # 0, close_and_retry, FaultUnlessBroken,
         UNCHANGED <<pipeline, issued, executed>>,
         sockets' \in Seq(Socket), Len(sockets') = Len(sockets), DOMAIN sockets' = DOMAIN sockets,
         \A j \in DOMAIN sockets : j # fd => sockets'[j] = sockets[j],
         \A i \in DOMAIN sockets'[fd].sent : sockets'[fd].sent[i] \in Range(flushing.payload),
         sockets'[fd].broken => sockets'[fd].unread = <<>> /\ sockets'[fd].sent = <<>>
  PROVE  IInv'
<1>1. /\ fd' = 0 /\ abandoned' = abandoned \cup Range(flushing.payload)
      /\ faults' \in 0 .. MaxFaults /\ faults' >= faults /\ faults' >= 1
      /\ flushing.attempt = 1 => faults' >= 2
  <2>1. fd' = 0 /\ abandoned' = abandoned \cup Range(flushing.payload)
    BY DEF close_and_retry
  <2>2. /\ faults \in 0 .. MaxFaults /\ MaxFaults \in Nat /\ MaxFaults >= 2
        /\ flushing.attempt = 1 => faults >= 1
        /\ sockets[fd].broken => faults >= 1 /\ (flushing.attempt = 1 => faults >= 2)
    BY RedisAssumption DEF IInv, Types, FaultsCounted
  <2>3. faults' = IF sockets[fd].broken THEN faults
                  ELSE IF faults < MaxFaults THEN faults + 1 ELSE faults
    BY DEF FaultUnlessBroken, Fault
  <2>. QED  BY <2>1, <2>2, <2>3
<1>2. \/ /\ flushing' \in Flushing /\ flushing'.step = "send" /\ flushing'.attempt = 1
         /\ flushing'.payload = flushing.payload /\ result' = result
      \/ flushing' = None /\ flushing.attempt = 1 /\ ~result'.ok
  <2>1. flushing \in Flushing /\ flushing.attempt \in {0, 1}
    BY Shape
  <2>2. CASE flushing.attempt = 0
    <3>1. flushing' = [flushing EXCEPT !.step = "send", !.attempt = 1] /\ result' = result
      BY <2>2 DEF close_and_retry
    <3>2. flushing' = [step |-> "send", payload |-> flushing.payload,
                       attempt |-> 1, replies |-> flushing.replies]
      BY <2>1, <3>1 DEF Flushing
    <3>. QED  BY <2>1, <3>1, <3>2 DEF Flushing
  <2>3. CASE flushing.attempt = 1
    BY <2>3 DEF close_and_retry, Return
  <2>. QED  BY <2>1, <2>2, <2>3
<1>3. flushing' \in Flushing => flushing' # None
  BY FlushingIsSome
<1>4. Range(flushing.payload) \subseteq 0 .. issued
  BY Payload
<1>5. Types' /\ Newest'
  <2>1. Range(flushing.payload) \subseteq Nat
    BY <1>4, Shape
  <2>2. Types'
    <3>1. flushing' \in {None} \cup Flushing /\ abandoned' \subseteq Nat
      BY <1>1, <1>2, <2>1 DEF IInv, Types
    <3>2. /\ Len(sockets') \in 1 .. MaxSockets /\ fd' \in 0 .. Len(sockets')
          /\ UNCHANGED <<pipeline, issued, executed>>
      BY <1>1 DEF IInv, Types
    <3>. QED  BY <1>1, <3>1, <3>2 DEF IInv, Types
  <2>3. Newest'
    BY <1>2 DEF IInv, Newest, Size
  <2>. QED  BY <2>2, <2>3
<1>6. Aligned'
  BY <1>1, <1>2, <1>3 DEF IInv, Aligned, At
<1>7. RepliesMatch' /\ OrderKept' /\ SurvivesRestart' /\ FaultsCounted'
  <2>1. OrderKept'
    BY <1>1 DEF IInv, OrderKept
  <2>2. RepliesMatch' /\ SurvivesRestart'
    BY <1>1, <1>2, Shape, SMTT(30) DEF IInv, RepliesMatch, SurvivesRestart
  <2>3. FaultsCounted'
    BY <1>1, <1>2, <1>3, Shape DEF IInv, FaultsCounted
  <2>. QED  BY <2>1, <2>2, <2>3
<1>8. OldFirst'
  <2>1. Waiting' = 0
    BY <1>2, <1>3 DEF IInv, Newest, Waiting
  <2>3. \A x \in Nat : x <= issued - Waiting => x <= issued' - Waiting'
    BY <2>1, Shape, WaitingType
  <2>4. \A x \in Range(flushing.payload) : x <= issued' - Waiting'
    BY <1>4, <2>1, Shape
  <2>. QED  BY <1>1, <1>2, <1>3, <2>3, <2>4, Numbers DEF IInv, OldFirst
<1>. QED  BY <1>5, <1>6, <1>7, <1>8 DEF IInv

\* A failed send gives the attempt up: the batch is sent again, or flush fails.
LEMMA SendFailsInv == ASSUME IInv, send_all_fails PROVE IInv'
<1>1. /\ flushing # None /\ fd # 0 /\ At("send") /\ close_and_retry /\ FaultUnlessBroken
      /\ UNCHANGED <<pipeline, issued, executed>>
  BY DEF send_all_fails, At
<1>2. PICK n \in 0 .. Size : Write(n)
  BY <1>1, Shape DEF send_all_fails, Size
<1>3. /\ sockets' \in Seq(Socket) /\ Len(sockets') = Len(sockets)
      /\ DOMAIN sockets' = DOMAIN sockets /\ fd \in DOMAIN sockets
      /\ \A j \in DOMAIN sockets : j # fd => sockets'[j] = sockets[j]
      /\ sockets'[fd].unread = <<>> /\ sockets'[fd].broken = sockets[fd].broken
      /\ sockets'[fd].sent = IF sockets[fd].broken THEN <<>>
                             ELSE SubSeq(flushing.payload, 1, n)
  BY <1>1, <1>2, WriteEffect
<1>4. \A i \in DOMAIN sockets'[fd].sent : sockets'[fd].sent[i] \in Range(flushing.payload)
  <2>1. \A i \in DOMAIN SubSeq(flushing.payload, 1, n) :
          SubSeq(flushing.payload, 1, n)[i] \in Range(flushing.payload)
    BY <1>1, Shape, CountsPrefix DEF Range, Size
  <2>2. DOMAIN <<>> = {}
    OBVIOUS
  <2>. QED  BY <1>3, <2>1, <2>2
<1>. QED  BY <1>1, <1>3, <1>4, GiveUpInv

\* So does a read that fails or times out; the replies read so far are dropped.
LEMMA ReadFailsInv == ASSUME IInv, read_reply_fails PROVE IInv'
<1>1. /\ flushing # None /\ fd # 0 /\ At("read") /\ close_and_retry /\ FaultUnlessBroken
      /\ UNCHANGED <<pipeline, issued, executed, sockets>>
  BY DEF IInv, Aligned, read_reply_fails, At
<1>2. sockets'[fd].broken => sockets'[fd].unread = <<>> /\ sockets'[fd].sent = <<>>
  BY <1>1, Shape DEF IInv, Aligned
<1>3. \A i \in DOMAIN sockets'[fd].sent : sockets'[fd].sent[i] \in Range(flushing.payload)
  <2>. SUFFICES ASSUME NEW i \in DOMAIN sockets[fd].sent
                PROVE  sockets[fd].sent[i] \in Range(flushing.payload)
    BY <1>1
  <2>. DEFINE j == Read + Unread + i
  <2>1. i \in 1 .. Unrun /\ sockets[fd].sent # <<>> /\ fd \in DOMAIN sockets
    BY <1>1, Shape, SMTT(30) DEF Unrun
  <2>2. ~sockets[fd].broken
    BY <2>1 DEF IInv, Aligned
  <2>3. /\ Read \in Nat /\ Unread \in Nat
        /\ Unrun \in Nat /\ Size \in Nat /\ issued \in Nat
    BY <1>1, <2>1, Shape
  <2>4. /\ CountsFrom(sockets[fd].sent, issued - Size + Read + Unread)
        /\ Read + Unread + Unrun = Size
    BY <1>1, <2>2 DEF IInv, Aligned
  <2>5. sockets[fd].sent[i] = issued - Size + j /\ j \in 1 .. Size
    <3>1. sockets[fd].sent[i] = issued - Size + Read + Unread + i
      BY <2>4 DEF CountsFrom
    <3>. QED  BY <2>1, <2>3, <2>4, <3>1
  <2>. HIDE DEF j
  <2>. QED  BY <1>1, <2>5, Payload
<1>4. sockets' \in Seq(Socket)
  BY <1>1 DEF IInv, Types
<1>. QED  BY <1>1, <1>2, <1>3, <1>4, GiveUpInv

\* read_reply takes the next reply of the batch, or the last.
LEMMA ReadInv == ASSUME IInv, read_reply PROVE IInv'
<1>. DEFINE before == issued - Size
            s == sockets[fd]
            new == [s EXCEPT !.unread = Tail(@)]
<1>1. /\ flushing # None /\ flushing.step = "read" /\ fd # 0 /\ At("read") /\ s.unread # <<>>
      /\ UNCHANGED <<pipeline, fd, result, issued, executed, abandoned, faults>>
  BY DEF IInv, Aligned, At, read_reply
<1>2. /\ fd \in DOMAIN sockets /\ flushing \in Flushing /\ s \in Socket /\ issued \in Nat
      /\ Unread \in Nat /\ Unrun \in Nat /\ Read \in Nat /\ Size \in Nat
      /\ s.unread \in Seq(Nat) /\ s.sent \in Seq(Nat) /\ flushing.replies \in Seq(Nat)
  BY <1>1, Shape
<1>3. /\ ~s.broken
      /\ CountsFrom(flushing.replies, before) /\ CountsFrom(s.unread, before + Read)
      /\ CountsFrom(s.sent, before + Read + Unread) /\ Read + Unread + Unrun = Size
  BY <1>1, <1>2 DEF IInv, Aligned
<1>4. before \in Int /\ before + Read \in Int
  BY <1>2
<1>. HIDE DEF before
<1>31. /\ Head(s.unread) \in Nat /\ Tail(s.unread) \in Seq(Nat)
      /\ Unread > 0 /\ Len(Tail(s.unread)) = Unread - 1
      /\ Head(s.unread) = before + Read + 1
      /\ CountsFrom(Tail(s.unread), before + Read + 1)
  BY <1>1, <1>2, <1>3, <1>4, CountsTail DEF Unread
<1>41. /\ Append(flushing.replies, Head(s.unread)) \in Seq(Nat)
      /\ Len(Append(flushing.replies, Head(s.unread))) = Read + 1
      /\ CountsFrom(Append(flushing.replies, Head(s.unread)), before)
  BY <1>2, <1>3, <1>4, <1>31, CountsAppend DEF Read
<1>5. flushing' = [step |-> "read", payload |-> flushing.payload, attempt |-> flushing.attempt,
                   replies |-> Append(flushing.replies, Head(s.unread))]
  BY <1>1, <1>2 DEF read_reply, Flushing
<1>6. /\ flushing' \in Flushing /\ flushing'.step = "read"
      /\ flushing'.payload = flushing.payload /\ flushing'.attempt = flushing.attempt
      /\ flushing'.replies = Append(flushing.replies, Head(s.unread))
  <2>1. flushing.payload \in Seq(Nat) /\ flushing.attempt \in 0 .. 1
    BY <1>2 DEF Flushing
  <2>. QED  BY <1>41, <1>5, <2>1 DEF Flushing
<1>61. flushing' # None
  BY <1>6, FlushingIsSome
<1>7. new \in Socket /\ new.unread = Tail(s.unread) /\ new.sent = s.sent /\ ~new.broken
  BY <1>2, <1>3, <1>31 DEF Socket
<1>8. sockets' = [sockets EXCEPT ![fd] = new] /\ Types
  BY DEF read_reply, IInv
<1>9. /\ sockets' \in Seq(Socket) /\ Len(sockets') = Len(sockets)
      /\ DOMAIN sockets' = DOMAIN sockets /\ sockets'[fd] = new
      /\ \A j \in DOMAIN sockets : j # fd => sockets'[j] = sockets[j]
  <2>. HIDE DEF s, new
  <2>. QED  BY <1>2, <1>7, <1>8, SocketChange
<1>. HIDE DEF new
<1>91. /\ Size' = Size /\ Read' = Read + 1 /\ Unread' = Unread - 1 /\ Unrun' = Unrun
  BY <1>1, <1>31, <1>41, <1>6, <1>7, <1>9 DEF Size, Read, Unread, Unrun
<1>. HIDE DEF s
<1>10. Types' /\ Newest' /\ RepliesMatch' /\ OrderKept' /\ SurvivesRestart'
  BY <1>1, <1>6, <1>9, <1>91
  DEF IInv, Types, Newest, RepliesMatch, OrderKept, SurvivesRestart
<1>11. FaultsCounted'
  BY <1>1, <1>6, <1>7, <1>9 DEF IInv, FaultsCounted
<1>12. Aligned'
  <2>1. \A k \in DOMAIN sockets' : sockets'[k].broken => sockets'[k].unread = <<>> /\ sockets'[k].sent = <<>>
    BY <1>7, <1>9 DEF IInv, Aligned
  <2>2. /\ issued' - Size' = before /\ before + Read + 1 = before + Read'
        /\ before + Read + Unread = before + Read' + Unread'
        /\ Read' + Unread' + Unrun' = Size'
    BY <1>1, <1>2, <1>3, <1>91 DEF before
  <2>3. /\ CountsFrom(flushing'.replies, before)
        /\ CountsFrom(sockets'[fd'].unread, before + Read')
        /\ CountsFrom(sockets'[fd'].sent, before + Read' + Unread')
    BY <1>1, <1>3, <1>31, <1>41, <1>6, <1>7, <1>9, <2>2
  <2>4. At("read")' /\ fd' # 0 /\ ~sockets'[fd'].broken
    BY <1>1, <1>6, <1>61, <1>7, <1>9 DEF At
  <2>. QED  BY <2>1, <2>2, <2>3, <2>4 DEF Aligned
<1>13. OldFirst'
  <2>1. Waiting' = Waiting
    BY <1>1, <1>6, <1>61, <1>91 DEF Waiting
  <2>2. \A k \in DOMAIN sockets' : sockets'[k].sent = sockets[k].sent
    BY <1>7, <1>9 DEF s
  <2>. QED  BY <1>1, <1>6, <1>61, <1>9, <2>1, <2>2 DEF IInv, OldFirst
<1>. QED  BY <1>10, <1>11, <1>12, <1>13 DEF IInv

\* All replies read: nothing is left on the socket, and the replies are the batch.
LEMMA CompleteInv == ASSUME IInv, flush_complete PROVE IInv'
<1>. DEFINE s == sockets[fd]
<1>1. /\ flushing # None /\ flushing.step = "read" /\ fd # 0 /\ At("read") /\ fd \in DOMAIN sockets
      /\ UNCHANGED <<pipeline, fd, sockets, issued, executed, abandoned, faults>>
      /\ flushing' = None /\ result'.ok
      /\ result'.replies = flushing.replies /\ result'.payload = flushing.payload
      /\ Read = Size
  BY Shape DEF IInv, Aligned, At, flush_complete, Return, Complete, Read, Size
<1>2. s.unread = <<>> /\ s.sent = <<>>
  <2>1. /\ s.unread \in Seq(Nat) /\ s.sent \in Seq(Nat)
        /\ Unread \in Nat /\ Unrun \in Nat /\ Size \in Nat
    BY <1>1, Shape
  <2>2. CASE s.broken
    BY <1>1, <2>2 DEF IInv, Aligned
  <2>3. CASE ~s.broken
    <3>1. Read + Unread + Unrun = Size
      BY <1>1, <2>3 DEF IInv, Aligned
    <3>2. Unread = 0 /\ Unrun = 0
      BY <1>1, <2>1, <3>1
    <3>. QED  BY <2>1, <3>2 DEF Unread, Unrun
  <2>. QED  BY <2>2, <2>3
<1>3. flushing.replies = flushing.payload
  <2>1. /\ flushing.replies \in Seq(Nat) /\ flushing.payload \in Seq(Nat) /\ issued - Size \in Int
        /\ CountsFrom(flushing.replies, issued - Size) /\ CountsFrom(flushing.payload, issued - Size)
    BY <1>1, Shape DEF IInv, Aligned, Newest
  <2>2. Len(flushing.replies) = Len(flushing.payload)
    BY <1>1 DEF Read, Size
  <2>. QED  BY <2>1, <2>2, CountsSame
<1>4. Types' /\ Newest' /\ RepliesMatch' /\ OrderKept' /\ SurvivesRestart' /\ FaultsCounted'
  BY <1>1, <1>3, RedisAssumption
     DEF IInv, Types, Newest, RepliesMatch, OrderKept, SurvivesRestart, FaultsCounted
<1>5. Aligned'
  BY <1>1, <1>2 DEF IInv, Aligned, At
<1>6. OldFirst'
  <2>1. Waiting' = 0
    BY <1>1 DEF IInv, Newest, Waiting
  <2>3. \A x \in Nat : x <= issued - Waiting => x <= issued' - Waiting'
    BY <1>1, <2>1, Shape, WaitingType
  <2>. QED  BY <1>1, <2>3, Numbers DEF IInv, OldFirst
<1>. QED  BY <1>4, <1>5, <1>6 DEF IInv

-----------------------------------------------------------------------------
(* Redis.                                                                   *)

\* A restart breaks every connection: what was sent and did not run never will.
LEMMA RestartInv == ASSUME IInv, redis_restarts PROVE IInv'
<1>. DEFINE lost == [unread |-> <<>>, sent |-> <<>>, broken |-> TRUE]
<1>1. /\ UNCHANGED <<pipeline, fd, flushing, result, issued, executed, abandoned>>
      /\ faults' = faults + 1 /\ faults' \in 1 .. MaxFaults
  BY RedisAssumption DEF IInv, Types, redis_restarts, Fault
<1>2. /\ sockets' \in Seq(Socket) /\ Len(sockets') = Len(sockets) /\ DOMAIN sockets' = DOMAIN sockets
      /\ \A k \in DOMAIN sockets' : sockets'[k] = lost
  <2>1. lost \in Socket
    BY DEF Socket
  <2>2. sockets' = [k \in 1 .. Len(sockets) |-> lost] /\ Len(sockets) \in Nat
    BY DEF IInv, Types, redis_restarts
  <2>. HIDE DEF lost
  <2>. QED  BY <2>1, <2>2 DEF IInv, Types
<1>3. Types' /\ Newest' /\ RepliesMatch' /\ OrderKept' /\ SurvivesRestart'
  BY <1>1, <1>2, Shape
  DEF IInv, Types, Newest, Size, RepliesMatch, OrderKept, SurvivesRestart
<1>4. FaultsCounted'
  BY <1>1, Shape DEF IInv, FaultsCounted
<1>5. Aligned'
  <2>1. \A a \in Int : CountsFrom(<<>>, a)
    BY DEF CountsFrom
  <2>2. At("read") => /\ fd # 0 /\ CountsFrom(flushing.replies, issued - Size)
                      /\ Read <= Size /\ Read \in Nat /\ Size \in Nat
    <3>1. At("read") => /\ fd # 0 /\ CountsFrom(flushing.replies, issued - Size)
                        /\ Read <= Size \/ Read + Unread + Unrun = Size
      BY DEF IInv, Aligned
    <3>2. At("read") => /\ Read \in Nat /\ Size \in Nat /\ Unread \in Nat /\ Unrun \in Nat
      BY <3>1, Shape DEF At
    <3>. QED  BY <3>1, <3>2
  <2>3. (At("read")' <=> At("read")) /\ Size' = Size /\ Read' = Read
    BY <1>1 DEF At, Size, Read
  <2>4. fd # 0 => sockets'[fd] = lost /\ Unread' = 0
    BY <1>1, <1>2, Shape DEF Unread
  <2>5. CASE At("read")
    <3>1. issued - Size \in Int /\ issued - Size + Read \in Int /\ issued - Size + Read + 0 \in Int
      BY <2>2, <2>5, Shape
    <3>. QED  BY <1>1, <1>2, <2>1, <2>2, <2>3, <2>4, <2>5, <3>1 DEF Aligned
  <2>6. CASE ~At("read")
    BY <1>1, <1>2, <2>3, <2>4, <2>6 DEF Aligned
  <2>. QED  BY <2>5, <2>6
<1>6. OldFirst'
  <2>1. Waiting' <= Waiting /\ Waiting' \in Nat
    <3>1. Size' = Size /\ (fd # 0 => Unrun' = 0)
      BY <1>1, <1>2, Shape DEF Size, Unrun
    <3>2. flushing # None => flushing.step = "send" \/ fd # 0
      BY Shape DEF IInv, Aligned, At, Flushing
    <3>. QED  BY <1>1, <3>1, <3>2, Shape, WaitingType DEF Waiting
  <2>3. \A x \in Nat : x <= issued - Waiting => x <= issued' - Waiting'
    BY <1>1, <2>1, Shape, WaitingType
  <2>4. \A k \in DOMAIN sockets' : DOMAIN sockets'[k].sent = {}
    BY <1>2
  <2>. QED  BY <1>1, <1>2, <2>3, <2>4, Numbers DEF IInv, OldFirst
<1>. QED  BY <1>3, <1>4, <1>5, <1>6 DEF IInv

\* A command runs: one of the batch being read, or one given up earlier.
LEMMA ExecuteInv ==
  ASSUME IInv, NEW k \in DOMAIN sockets, redis_executes(k) PROVE IInv'
<1>. DEFINE c == Head(sockets[k].sent)
            new == [unread |-> Append(sockets[k].unread, c), sent |-> Tail(sockets[k].sent),
                    broken |-> sockets[k].broken]
<1>1. /\ sockets[k].sent # <<>> /\ executed' = Append(executed, c)
      /\ UNCHANGED <<pipeline, fd, flushing, result, issued, abandoned, faults>>
  BY DEF redis_executes
<1>20. sockets' = [sockets EXCEPT ![k] = new]
  BY DEF redis_executes
<1>21. Types
  BY DEF IInv
<1>2. /\ sockets[k] \in Socket /\ sockets[k].sent \in Seq(Nat) /\ sockets[k].unread \in Seq(Nat)
      /\ issued \in Nat
  BY Shape
<1>3. c \in Nat /\ c = sockets[k].sent[1] /\ 1 \in DOMAIN sockets[k].sent /\ Tail(sockets[k].sent) \in Seq(Nat)
      /\ Append(sockets[k].unread, c) \in Seq(Nat)
      /\ \A i \in DOMAIN Tail(sockets[k].sent) :
           i + 1 \in DOMAIN sockets[k].sent /\ Tail(sockets[k].sent)[i] = sockets[k].sent[i + 1]
  BY <1>1, <1>2
<1>4. ~sockets[k].broken
  BY <1>1 DEF IInv, Aligned
<1>. HIDE DEF c
<1>6. new \in Socket /\ new.sent = Tail(sockets[k].sent) /\ ~new.broken
      /\ new.unread = Append(sockets[k].unread, c)
  BY <1>2, <1>3, <1>4 DEF Socket
<1>. HIDE DEF new
<1>7. /\ sockets' \in Seq(Socket) /\ Len(sockets') = Len(sockets)
      /\ DOMAIN sockets' = DOMAIN sockets /\ sockets'[k] = new
      /\ \A j \in DOMAIN sockets : j # k => sockets'[j] = sockets[j]
  BY <1>20, <1>21, <1>6, SocketChange
<1>8. /\ executed' \in Seq(Nat) /\ executed \in Seq(Nat) /\ Len(executed') = Len(executed) + 1
      /\ Len(executed) \in Nat /\ executed'[Len(executed) + 1] = c
      /\ \A i \in 1 .. Len(executed) : executed'[i] = executed[i] /\ i \in DOMAIN executed
  BY <1>1, <1>3, <1>21, SMTT(30) DEF Types
<1>9. Types' /\ Newest' /\ RepliesMatch' /\ SurvivesRestart'
  BY <1>1, <1>7, <1>8 DEF IInv, Types, Newest, Size, RepliesMatch, SurvivesRestart
<1>10. FaultsCounted'
  <2>1. fd # 0 => (sockets'[fd].broken => sockets[fd].broken)
    BY <1>6, <1>7, Shape
  <2>. QED  BY <1>1, <2>1 DEF IInv, FaultsCounted
<1>11. \A j \in DOMAIN sockets' : sockets'[j].broken => sockets'[j].unread = <<>> /\ sockets'[j].sent = <<>>
  BY <1>6, <1>7 DEF IInv, Aligned
<1>12. \A i \in DOMAIN executed' : executed'[i] \in Nat /\ (i = Len(executed) + 1 \/ i \in DOMAIN executed)
  BY <1>8
<1>13. CASE k = fd
  <2>1. fd # 0 /\ At("read") /\ flushing # None /\ flushing.step = "read"
    BY <1>1, <1>13 DEF IInv, Types, Aligned, At
  <2>2. /\ Unread \in Nat /\ Unrun \in Nat /\ Read \in Nat /\ Size \in Nat
        /\ flushing.attempt \in {0, 1}
    BY <2>1, Shape
  <2>3. /\ Size' = Size /\ Read' = Read /\ Unread' = Unread + 1 /\ Unrun' = Unrun - 1 /\ Unrun > 0
  <3>1. Size' = Size /\ Read' = Read
      BY <1>1 DEF Size, Read
    <3>2. /\ Len(Tail(sockets[k].sent)) = Len(sockets[k].sent) - 1 /\ Len(sockets[k].sent) > 0
          /\ Len(Append(sockets[k].unread, c)) = Len(sockets[k].unread) + 1
      BY <1>1, <1>2, <1>3
    <3>. QED  BY <1>1, <1>6, <1>7, <1>13, <3>1, <3>2 DEF Unread, Unrun
  <2>4. /\ CountsFrom(flushing.replies, issued - Size)
        /\ CountsFrom(sockets[k].unread, issued - Size + Read)
        /\ CountsFrom(sockets[k].sent, issued - Size + Read + Unread)
    BY <1>4, <1>13, <2>1 DEF IInv, Aligned
  <2>20. Read + Unread + Unrun = Size /\ issued \in Nat
    BY <1>2, <1>4, <1>13, <2>1 DEF IInv, Aligned
  <2>5. c = issued - Size + Read + Unread + 1
    BY <1>3, <2>4 DEF CountsFrom
  <2>6. c = issued - Unrun + 1 /\ c = issued - Unrun'
    BY <2>2, <2>3, <2>20, <2>5
  <2>7. c \in abandoned \/ flushing.attempt = 0
    <3>1. SUFFICES ASSUME flushing.attempt = 1 PROVE c \in abandoned
      BY <2>2
    <3>2. c = issued - Size + (Read + Unread + 1) /\ Read + Unread + 1 \in 1 .. Size
      BY <2>2, <2>3, <2>20, <2>5
    <3>3. c \in Range(flushing.payload)
      BY <2>1, <3>2, Payload
    <3>. QED  BY <2>1, <3>1, <3>3 DEF IInv, OldFirst
  <2>8. Aligned'
    <3>1. CountsFrom(sockets'[fd'].unread, issued - Size + Read)
      <4>1. issued - Size + Read \in Int /\ c = issued - Size + Read + Unread + 1
        BY <2>2, <2>5, <2>20
      <4>2. CountsFrom(Append(sockets[k].unread, c), issued - Size + Read)
        BY <1>2, <1>3, <1>13, <2>4, <4>1, CountsAppend DEF Unread
      <4>. QED  BY <1>1, <1>6, <1>7, <1>13, <4>2
    <3>2. CountsFrom(sockets'[fd'].sent, issued - Size + Read + Unread + 1)
      <4>1. issued - Size + Read + Unread \in Int
        BY <2>2, <2>20
      <4>2. CountsFrom(Tail(sockets[k].sent), issued - Size + Read + Unread + 1)
        BY <1>1, <1>2, <2>4, <4>1, CountsTail
      <4>. QED  BY <1>1, <1>6, <1>7, <1>13, <4>2
    <3>3. /\ issued - Size + Read + Unread + 1 = issued - Size + Read + (Unread + 1)
          /\ Read' + Unread' + Unrun' = Size'
      BY <2>2, <2>3, <2>20
    <3>. QED  BY <1>1, <1>6, <1>7, <1>11, <1>13, <2>1, <2>3, <2>4, <3>1, <3>2, <3>3
              DEF Aligned, At
  <2>9. /\ Waiting' = IF flushing.attempt = 1 THEN 0 ELSE Unrun - 1
        /\ Waiting = IF flushing.attempt = 1 THEN 0 ELSE Unrun
    BY <1>1, <2>1, <2>3 DEF Waiting
  <2>10. OldFirst'
    <3>1. \A x \in Nat : x <= issued - Waiting => x <= issued' - Waiting'
      BY <1>1, <1>2, <2>2, <2>9
    <3>2. c <= issued' - Waiting'
      BY <1>1, <1>2, <2>2, <2>3, <2>6, <2>9
    <3>. QED  BY <1>1, <1>7, <1>8, <1>12, <1>13, <3>1, <3>2, Numbers DEF IInv, OldFirst
  <2>11. OrderKept'
    <3>1. \A i \in DOMAIN executed : executed[i] > c => c \in abandoned
      <4>1. SUFFICES ASSUME NEW i \in DOMAIN executed, executed[i] > c, flushing.attempt = 0 PROVE FALSE
        BY <2>7
      <4>2. executed[i] <= issued - Unrun /\ executed[i] \in Nat
        BY <2>9, <4>1, Numbers DEF IInv, OldFirst
      <4>. QED  BY <1>2, <2>2, <2>6, <4>1, <4>2
    <3>. QED  BY <1>1, <1>8, <1>12, <3>1 DEF IInv, OrderKept
  <2>. QED  BY <1>9, <1>10, <2>8, <2>10, <2>11 DEF IInv
<1>14. CASE k # fd
  <2>1. c \in abandoned /\ c <= issued - Waiting
    BY <1>3, <1>14 DEF IInv, OldFirst
  <2>2. fd # 0 => sockets'[fd] = sockets[fd]
    BY <1>7, <1>14, Shape
  <2>3. Size' = Size /\ Read' = Read /\ (fd # 0 => Unread' = Unread /\ Unrun' = Unrun)
    BY <1>1, <2>2 DEF Size, Read, Unread, Unrun
  <2>4. Aligned'
    BY <1>1, <1>11, <2>2, <2>3 DEF IInv, Aligned, At
  <2>5. Waiting' = Waiting
    <3>1. flushing # None => flushing.step = "send" \/ fd # 0
      BY Shape DEF IInv, Aligned, At, Flushing
    <3>. QED  BY <1>1, <2>3, <3>1 DEF Waiting
  <2>6. OldFirst'
    <3>1. \A i \in DOMAIN executed' : executed'[i] <= issued' - Waiting'
      BY <1>1, <1>8, <1>12, <2>1, <2>5, SMTT(30) DEF IInv, OldFirst
    <3>2. \A j \in DOMAIN sockets' : \A i \in DOMAIN sockets'[j].sent :
            j # fd => sockets'[j].sent[i] \in abandoned /\ sockets'[j].sent[i] <= issued - Waiting
      <4>1. \A i \in DOMAIN sockets'[k].sent :
              i + 1 \in DOMAIN sockets[k].sent /\ sockets'[k].sent[i] = sockets[k].sent[i + 1]
        BY <1>3, <1>6, <1>7
      <4>2. \A i \in DOMAIN sockets[k].sent :
              sockets[k].sent[i] \in abandoned /\ sockets[k].sent[i] <= issued - Waiting
        BY <1>14 DEF IInv, OldFirst
      <4>3. \A i \in DOMAIN sockets'[k].sent :
              sockets'[k].sent[i] \in abandoned /\ sockets'[k].sent[i] <= issued - Waiting
        BY <4>1, <4>2
      <4>4. \A j \in DOMAIN sockets : j # k => sockets'[j] = sockets[j]
        BY <1>7
      <4>. QED  BY <1>7, <4>3, <4>4 DEF IInv, OldFirst
    <3>. QED  BY <1>1, <2>5, <3>1, <3>2 DEF IInv, OldFirst
  <2>7. OrderKept'
    BY <1>1, <1>8, <1>12, <2>1 DEF IInv, OrderKept
  <2>. QED  BY <1>9, <1>10, <2>4, <2>6, <2>7 DEF IInv
<1>. QED  BY <1>13, <1>14

-----------------------------------------------------------------------------
\* The invariant holds for a new client.
LEMMA InitInv == Init => IInv
<1>. SUFFICES ASSUME Init PROVE IInv
  OBVIOUS
<1>1. /\ sockets \in Seq(Socket) /\ Len(sockets) = 1 /\ DOMAIN sockets = {1} /\ sockets[1] = Fresh
      /\ fd = 1 /\ flushing = None /\ result = None /\ pipeline = <<>> /\ executed = <<>>
  BY DEF Init, Fresh, Socket
<1>2. Types /\ Newest
  BY <1>1, RedisAssumption DEF Init, Types, Newest, CountsFrom
<1>3. Aligned /\ OldFirst /\ FaultsCounted
  BY <1>1, SMTT(30) DEF Aligned, At, OldFirst, Waiting, FaultsCounted, Fresh
<1>4. RepliesMatch /\ OrderKept /\ SurvivesRestart
  BY <1>1 DEF RepliesMatch, OrderKept, SurvivesRestart
<1>. QED  BY <1>2, <1>3, <1>4 DEF IInv

\* Every step keeps it: one case per action.
LEMMA StepInv == IInv /\ [Next]_vars => IInv'
<1>. SUFFICES ASSUME IInv, [Next]_vars PROVE IInv'
  OBVIOUS
<1>1. CASE queue  BY <1>1, QueueInv
<1>2. CASE flush \/ command  BY <1>2, FlushInv
<1>3. CASE open_socket  BY <1>3, OpenInv
<1>4. CASE open_socket_fails  BY <1>4, OpenFailsInv
<1>5. CASE send_all  BY <1>5, SendInv
<1>6. CASE send_all_fails  BY <1>6, SendFailsInv
<1>7. CASE read_reply  BY <1>7, ReadInv
<1>8. CASE flush_complete  BY <1>8, CompleteInv
<1>9. CASE read_reply_fails  BY <1>9, ReadFailsInv
<1>10. CASE redis_restarts  BY <1>10, RestartInv
<1>11. CASE \E k \in DOMAIN sockets : redis_executes(k)  BY <1>11, ExecuteInv
<1>12. CASE UNCHANGED vars
  BY <1>12
  DEF vars, IInv, Types, Newest, Aligned, At, OldFirst, Waiting, FaultsCounted, Size, Read,
     Unread, Unrun, RepliesMatch, OrderKept, SurvivesRestart
<1>. QED  BY <1>1, <1>2, <1>3, <1>4, <1>5, <1>6, <1>7, <1>8, <1>9, <1>10, <1>11, <1>12
          DEF Next, ClientStep

\* So it holds throughout.
LEMMA Inductive == Spec => []IInv
  BY InitInv, StepInv, PTL DEF Spec

\* A flush that succeeds returns the replies to its own commands: what an attempt
\* given up left on a connection is never read by a later one.
THEOREM RepliesBelong == Spec => []RepliesMatch
<1>1. IInv => RepliesMatch
  BY DEF IInv
<1>. QED  BY Inductive, <1>1, PTL

\* Commands run in the order they were queued, but for those of an attempt that was
\* given up.
THEOREM CommandsInOrder == Spec => []OrderKept
<1>1. IInv => OrderKept
  BY DEF IInv
<1>. QED  BY Inductive, <1>1, PTL

\* One restart, slow reply or dropped link never fails a flush, whenever it comes and
\* however many flushes came before.
THEOREM OneFaultSurvived == Spec => []SurvivesRestart
<1>1. IInv => SurvivesRestart
  BY DEF IInv
<1>. QED  BY Inductive, <1>1, PTL
====
