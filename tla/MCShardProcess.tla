--------------------------- MODULE MCShardProcess ---------------------------
(* Instances of ShardProcess for TLC.  A scenario bounds the ticks and how  *)
(* late the thread is, and names who else is there.                         *)
EXTENDS ShardProcess

CONSTANTS KeenViewer, SlowViewer, Scraper, Slow, Silent, Peer

MCViewers == {KeenViewer, SlowViewer}

Scenario(n, late, grain, watched, others, askers, stops, reorder) ==
  [ticks |-> n, late |-> late, grain |-> grain, watched |-> watched, others |-> others,
   clients |-> askers, stops |-> stops, relaxed |-> reorder, samples |-> {1, 2}, viewers |-> {}, brief |-> FALSE,
   free |-> n = 0 /\ askers = {}]

\* The thread is late by more than it makes up for; the durations fall in one
\* bucket.
Overload == Scenario(8, 13, 100, FALSE, {}, {}, FALSE, {FALSE})
\* The thread stands still for more than the timeout.
Stalled == Scenario(2, 4, 100, TRUE, {}, {}, FALSE, {FALSE})
\* Another shard of the process records too.
Contended == Scenario(1, 1, 1, FALSE, {Peer}, {}, FALSE, BOOLEAN)
\* The metrics are read while the ticks go on, with durations of two buckets.
Scraped == Scenario(2, 2, 1, FALSE, {}, {Scraper}, FALSE, {FALSE})
\* Clients that stop half way or do not read, until a signal.
Crowded == Scenario(0, 0, 1, TRUE, {}, {Scraper, Slow, Silent}, TRUE, {FALSE})

\* Viewers come and go while the world is published, until a signal.
Viewed == [Scenario(4, 0, 100, FALSE, {}, {}, TRUE, {FALSE})
             EXCEPT !.viewers = MCViewers, !.brief = TRUE]

\* The socket in any hands, a client's or a shard's.
SocketAlone == Scenario(0, 0, 1, FALSE, {}, {}, FALSE, {FALSE})

MCScenarios == {SocketAlone, Overload, Stalled, Contended, Scraped, Crowded, Viewed}
MCRecorders == {Tick, Peer}
MCHttpClients == {Scraper, Slow, Silent}

=============================================================================
