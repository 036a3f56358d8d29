---------------------------- MODULE ShardProcess ----------------------------
(* A shard as a process (apps/world/main.cpp): the tick thread of TickLoop  *)
(* records the duration of its ticks in a histogram that the HTTP thread    *)
(* exposes under /metrics, and publishes the state of the world to the      *)
(* viewer's thread; a signal ends the tick loop and main stops all three.   *)
(*                                                                          *)
(* Other recorders share the histogram: MetricsRegistry hands the shards of *)
(* one process (tests/live_cluster.h) the same one.                         *)
EXTENDS TickLoop, Histogram, HttpServer, WebSocketServer

CONSTANTS Tick,          \* the tick thread, one of Recorders
          Scenarios      \* what happens in a behaviour: see MCShardProcess

ASSUME ShardAssumption == Tick \in Recorders

VARIABLES scenario       \* never changes

vars == <<loopVars, socketVars, histogramVars, httpVars, viewerVars, scenario>>

Init ==
  /\ scenario \in Scenarios
  /\ SocketInit /\ LoopInit /\ connected = scenario.watched
  /\ HistogramInit /\ relaxed \in scenario.relaxed /\ HttpInit
  /\ ViewerInit /\ viewer_running = (scenario.viewers # {})

-----------------------------------------------------------------------------
\* The duration of the tick goes into tick_histogram_; the thread then paces.
record_tick ==
  /\ ~scenario.brief /\ Goto("record", "recording")
  /\ record(Tick, since \div scenario.grain)
  /\ UNCHANGED <<running, since, then, connected, ticks, quiet_at_tick, level, clockVars,
                 socketVars, httpVars, viewerVars, scenario>>

recorded_tick ==
  /\ Goto("recording", "pace") /\ todo[Tick] = {}
  /\ UNCHANGED <<running, since, then, connected, ticks, quiet_at_tick, level, clockVars,
                 socketVars, histogramVars, httpVars, viewerVars, scenario>>

other_records(t) ==
  /\ t # Tick /\ value[t] = 0
  /\ \E v \in scenario.samples : record(t, v)
  /\ UNCHANGED <<loopVars, socketVars, httpVars, viewerVars, scenario>>

Recording ==
  (\E t \in Recorders : Record(t)) /\ UNCHANGED <<loopVars, socketVars, httpVars, viewerVars, scenario>>

\* dispatch runs expose in the HTTP thread.
dispatch ==
  /\ http_pc = "dispatch" /\ expose /\ http_pc' = "handler"
  /\ UNCHANGED <<http_running, serving, received, backlog, clientVars, loopVars, socketVars,
                 viewerVars, scenario>>

handler ==
  http_pc = "handler" /\ Expose /\ UNCHANGED <<loopVars, socketVars, httpVars, viewerVars, scenario>>

handler_returns ==
  /\ http_pc = "handler" /\ reader.at = "idle" /\ http_pc' = "send"
  /\ UNCHANGED <<http_running, serving, received, backlog, clientVars, loopVars, socketVars,
                 histogramVars, viewerVars, scenario>>

\* publish_viewer_state: no viewer's turn, or nobody there.
publish_nothing ==
  /\ ~scenario.brief /\ Counted("publish")
  /\ UNCHANGED <<histogramVars, httpVars, viewerVars, scenario>>

publish_begins ==
  /\ Goto("publish", "publishing") /\ publish_checks
  /\ UNCHANGED <<running, since, then, connected, ticks, quiet_at_tick, level, clockVars,
                 socketVars, histogramVars, httpVars, scenario>>

publish_ends ==
  Counted("publishing") /\ publish /\ UNCHANGED <<histogramVars, httpVars, scenario>>

\* WorldServer::stop once run has returned: the viewer's thread and then the
\* HTTP server's are joined before connections_.stop says goodbye to the client
\* and closes the socket.
stop ==
  /\ pc = "returned" /\ (viewer_stop \/ viewer_stopped)
  /\ UNCHANGED <<loopVars, socketVars, histogramVars, httpVars, scenario>>

stop_http ==
  /\ pc = "returned" /\ phase = "stopped" /\ http_stop
  /\ UNCHANGED <<loopVars, socketVars, histogramVars, viewerVars, scenario>>

stop_connections ==
  /\ Goto("returned", "disconnected") /\ http_pc = "returned"
  /\ connected' = FALSE
  /\ IF connected THEN send ELSE UNCHANGED socketVars
  /\ UNCHANGED <<running, since, then, ticks, quiet_at_tick, level, clockVars, histogramVars,
                 httpVars, viewerVars, scenario>>

stop_socket ==
  /\ Goto("disconnected", "stopped") /\ close
  /\ UNCHANGED <<running, since, then, connected, ticks, quiet_at_tick, level, clockVars,
                 histogramVars, httpVars, viewerVars, scenario>>

-----------------------------------------------------------------------------
\* The bound on ticks: after the last one the loop only waits for the signal.
Over == pc = "loop" /\ ticks = scenario.ticks

\* A brief tick is one that publishes, and its publication alone.
Brief ==
  /\ scenario.brief
  /\ \/ ~Over /\ running /\ Goto("loop", "publish")
     \/ Goto("record", "loop")
  /\ UNCHANGED <<running, since, then, connected, ticks, quiet_at_tick, level, clockVars,
                 socketVars, histogramVars, httpVars, viewerVars, scenario>>

Loop ==
  /\ (Over \/ scenario.brief) => ~running
  /\ TickThread /\ UNCHANGED <<histogramVars, httpVars, viewerVars, scenario>>

Ticking == Loop \/ Brief \/ record_tick \/ recorded_tick \/ Recording

HttpThread == \/ (accept \/ serve_returns \/ recv \/ recv_gives_up \/ respond)
                 /\ UNCHANGED <<loopVars, socketVars, histogramVars, viewerVars, scenario>>
              \/ dispatch \/ handler \/ handler_returns

Client(c) ==
  (connect(c) \/ send_part(c)) /\ UNCHANGED <<loopVars, socketVars, histogramVars, viewerVars, scenario>>

Publishing == publish_nothing \/ publish_begins \/ publish_ends

Feed == Serve /\ UNCHANGED <<loopVars, socketVars, histogramVars, httpVars, scenario>>

Watcher(v) == Viewer(v) /\ UNCHANGED <<loopVars, socketVars, histogramVars, httpVars, scenario>>

Leave(c) == leave(c) /\ UNCHANGED <<loopVars, socketVars, histogramVars, viewerVars, scenario>>

Next ==
  \/ Ticking \/ HttpThread
  \/ Publishing \/ Feed \/ \E v \in scenario.viewers : Watcher(v)
  \/ stop \/ stop_http \/ stop_connections \/ stop_socket
  \/ \E t \in scenario.others : other_records(t)
  \/ \E c \in scenario.clients : Client(c) \/ Leave(c)
  \/ /\ ~Over /\ due > -scenario.late /\ ~scenario.brief /\ elapse
     /\ UNCHANGED <<histogramVars, httpVars, viewerVars, scenario>>
  \/ scenario.free /\ Socket /\ UNCHANGED <<loopVars, histogramVars, httpVars, viewerVars, scenario>>
  \/ /\ scenario.stops /\ (scenario.brief => Over) /\ request_stop
     /\ UNCHANGED <<histogramVars, httpVars, viewerVars, scenario>>

Spec == Init /\ [][Next]_vars

\* The HTTP thread runs, and a client of it that does not read goes away in the
\* end.  The viewer's thread runs, and so does stop, which joins it.  Viewers need
\* not come, leave or fail, and those that are not keen need not read.
FairSpec == /\ Spec /\ WF_vars(HttpThread) /\ \A c \in Deaf : WF_vars(Leave(c))
            /\ WF_vars(Feed \/ stop)

=============================================================================
