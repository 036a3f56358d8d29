----------------------------- MODULE UdpSocket -----------------------------
(* The batching socket of src/net/udp_socket.cpp (the Linux branch).        *)
(* Datagrams to send collect in a batch that one sendmmsg loop hands to the *)
(* kernel; received ones are read a batch at a time and given out singly.   *)
(* The kernel's receive queue is bounded and each datagram carries the      *)
(* count, as of its arrival, of those thrown away, in CounterBits bits.     *)
EXTENDS Integers, SequencesExt

CONSTANTS BatchSize,      \* kBatchSize
          QueueSize,      \* the kernel's receive queue
          CounterBits,    \* width of the kernel's drop counter, 32
          MaxSends, MaxArrivals, MaxOpens

ASSUME UdpAssumption ==
  /\ {BatchSize, QueueSize, CounterBits, MaxOpens} \subseteq Nat \ {0}
  /\ {MaxSends, MaxArrivals} \subseteq Nat

VARIABLES send_pending,   \* the pending batch
          packets_sent, send_failures, receive_drops,
          recv_batch,     \* received, not given out: recv_next_ .. recv_count_
          overflow_seen, last_overflow,
          kernel,         \* the kernel's receive queue: the drop count each datagram carries
          lost,           \* datagrams this socket's queue had no room for
          opens,          \* sockets opened
          queued, wire,   \* history: batched sends accepted; those that left
          singles,        \* history: unbatched sends tried
          arrived,        \* history: datagrams that reached a queue
          first, newest,  \* history: the true drop count first and last reported
          credited        \* history: drops reported of earlier sockets

sendVars == <<send_pending, packets_sent, send_failures, queued, wire, singles>>
dropVars == <<receive_drops, overflow_seen, last_overflow, first, newest, credited>>
recvVars == <<recv_batch, kernel, lost, arrived>>
socketVars == <<sendVars, dropVars, recvVars, opens>>

SocketInit ==
  /\ send_pending = <<>> /\ packets_sent = 0 /\ send_failures = 0 /\ receive_drops = 0
  /\ recv_batch = <<>> /\ overflow_seen = FALSE /\ last_overflow = 0
  /\ kernel = <<>> /\ lost = 0 /\ opens = 1
  /\ queued = 0 /\ wire = <<>> /\ singles = 0 /\ arrived = 0
  /\ first = 0 /\ newest = 0 /\ credited = 0

Counter == 2 ^ CounterBits

-----------------------------------------------------------------------------
(* Sending.                                                                 *)

\* Mutant: after a partial sendmmsg the batch is offered from its start.
sendmmsg_restarts(sent, result) == SubSeq(send_pending, 1, result)

\* What a call takes that is offered all of the batch but the first `sent`.
sendmmsg(sent, result) == SubSeq(send_pending, sent + 1, sent + result)

\* Mutant: as in the loop of sendto calls, a failure counts for one.
Unsent_one(sent) == IF sent < Len(send_pending) THEN 1 ELSE 0

\* A call that fails gives up the rest of the batch.
Unsent(sent) == Len(send_pending) - sent

\* The loop of flush_sends, leaving `next` as the new batch: calls that take one
\* datagram or more, until all are taken or the next call fails.
Flush(next) ==
  \E results \in SeqOf(1 .. Len(send_pending), Len(send_pending)) :
    LET sent == FoldLeft(LAMBDA n, result : n + result, 0, results)
    IN  /\ sent <= Len(send_pending)
        /\ wire' = wire \o FoldLeft(LAMBDA out, result : out \o sendmmsg(Len(out), result), <<>>, results)
        /\ packets_sent' = packets_sent + sent
        /\ send_failures' = send_failures + Unsent(sent)
        /\ send_pending' = next

send_batched ==
  /\ queued < MaxSends /\ queued' = queued + 1
  /\ IF Len(send_pending) = BatchSize
     THEN Flush(<<queued'>>)
     ELSE /\ send_pending' = Append(send_pending, queued')
          /\ UNCHANGED <<wire, packets_sent, send_failures>>
  /\ UNCHANGED <<singles, dropVars, recvVars, opens>>

flush_sends ==
  /\ send_pending # <<>> /\ Flush(<<>>)
  /\ UNCHANGED <<queued, singles, dropVars, recvVars, opens>>

\* send goes out at once, past what is pending, or fails.
send ==
  /\ singles < MaxSends /\ singles' = singles + 1
  /\ \/ packets_sent' = packets_sent + 1 /\ UNCHANGED send_failures
     \/ send_failures' = send_failures + 1 /\ UNCHANGED packets_sent
  /\ UNCHANGED <<send_pending, queued, wire, dropVars, recvVars, opens>>

-----------------------------------------------------------------------------
(* Receiving.                                                               *)

datagram_arrives ==
  /\ arrived < MaxArrivals /\ Len(kernel) < QueueSize
  /\ arrived' = arrived + 1
  /\ kernel' = Append(kernel, lost)
  /\ UNCHANGED <<sendVars, dropVars, recv_batch, lost, opens>>

\* Between two reports the counter is assumed to go round less than once.
datagram_dropped ==
  /\ Len(kernel) = QueueSize /\ lost - newest < Counter - 1
  /\ lost < 2 * Counter
  /\ lost' = lost + 1
  /\ UNCHANGED <<sendVars, dropVars, recv_batch, kernel, arrived, opens>>

\* Mutant: a smaller counter is taken for one that started again.
Drops_restarted(total) == IF total < last_overflow THEN total ELSE total - last_overflow

\* static_cast<u32>(total - last_overflow_)
Drops(total) == (total - last_overflow) % Counter

\* The counter of the newest datagram of the batch; zero need not be attached.
Report(count) ==
  LET total == count % Counter
  IN  \/ /\ count = 0
         /\ UNCHANGED dropVars
      \/ /\ receive_drops' = receive_drops + (IF overflow_seen THEN Drops(total) ELSE 0)
         /\ last_overflow' = total /\ overflow_seen' = TRUE
         /\ newest' = count
         /\ first' = IF overflow_seen THEN first ELSE count
         /\ UNCHANGED credited

\* refill, and the first datagram of the new batch.
refill ==
  LET n == IF Len(kernel) < BatchSize THEN Len(kernel) ELSE BatchSize
      batch == SubSeq(kernel, 1, n)
  IN  /\ recv_batch' = Tail(batch)
      /\ kernel' = SubSeq(kernel, n + 1, Len(kernel))
      /\ Report(batch[n])

receive ==
  /\ \/ recv_batch = <<>> /\ kernel # <<>> /\ refill
     \/ /\ recv_batch # <<>>
        /\ recv_batch' = Tail(recv_batch)
        /\ UNCHANGED <<dropVars, kernel>>
  /\ UNCHANGED <<sendVars, lost, arrived, opens>>

\* close flushes the batch; what was received is forgotten and the drops of the
\* next socket are counted from its first report.
Closed ==
  /\ IF send_pending = <<>> THEN UNCHANGED <<send_pending, wire, packets_sent, send_failures>>
     ELSE Flush(<<>>)
  /\ recv_batch' = <<>> /\ kernel' = <<>> /\ lost' = 0
  /\ overflow_seen' = FALSE
  /\ credited' = credited + (newest - first) /\ first' = 0 /\ newest' = 0
  /\ UNCHANGED <<queued, singles, receive_drops, last_overflow, arrived>>

close == Closed /\ UNCHANGED opens

\* open closes first.
open == opens < MaxOpens /\ opens' = opens + 1 /\ Closed

Socket == \/ send_batched \/ flush_sends \/ send \/ open
          \/ datagram_arrives \/ datagram_dropped \/ receive

-----------------------------------------------------------------------------
Increasing(s) == \A i, j \in DOMAIN s : i < j => s[i] < s[j]

\* The state of the socket: neither batch ever holds more than kBatchSize
\* datagrams between two calls.
SocketTypeOK ==
  /\ Len(send_pending) <= BatchSize /\ Len(recv_batch) < BatchSize
  /\ Len(kernel) <= QueueSize /\ last_overflow \in 0 .. Counter - 1
  /\ {packets_sent, send_failures, receive_drops} \subseteq Nat

\* udp_socket.h: "a peer sees batched datagrams in the order they were queued",
\* and none twice, however many calls and failures the batches take.
SentInOrder == Increasing(wire \o send_pending)

\* Every datagram taken for sending, batched or not, is still pending, was sent or
\* is counted in send_failures: what a failed sendmmsg, a full batch or a close
\* leaves behind is not forgotten.
SendsAccounted ==
  packets_sent + send_failures + Len(send_pending) = queued + singles

\* receive_drops counts exactly the drops between the first report and the last,
\* over any number of wraps of the kernel's counter and reopenings.
DropsSinceFirst == receive_drops = credited + (newest - first)

\* udp_socket.h: receive_drops is "Datagrams the kernel discarded because the
\* receive queue was full": all that the newest datagram reports.
\* The code does not have it: README.md, Divergences.
DropsReported == opens = 1 => receive_drops = newest

=============================================================================
