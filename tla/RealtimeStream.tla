---------------------------- MODULE RealtimeStream ----------------------------
(***************************************************************************)
(* GET /market-data/realtime of the API gateway in live mode: one request, *)
(* its BinanceSpotRealtimeClient and the server-sent events it writes.     *)
(*                                                                         *)
(* Every step of the client is joined with what the handler does in the    *)
(* callbacks of that step, since they run in one JavaScript turn.  The     *)
(* events written by a step are its output `sent'.                         *)
(***************************************************************************)
EXTENDS RealtimeClient

VARIABLES once,             \* the request asked for a single price (once=true)
          closed,           \* the handler's close() has run
          peerGone,         \* reply.raw.destroyed: nobody reads the response
          ended,            \* reply.raw.end() has been called
          tickKnown,        \* the handler's lastTick is set
          connectionStatus, \* the handler's variable of that name
          sent              \* the events the last step wrote, in order

handlerVars == <<once, closed, peerGone, ended, tickKnown, connectionStatus, sent>>
streamVars == <<clientVars, handlerVars>>

-----------------------------------------------------------------------------
\* toRealtimePayload: whether a price is on board, and how healthy it is said
\* to be.
Payload(status, reason, hasPrice) ==
  LET stale == status \in {"stale", "failed", "closed"} IN
  [status |-> status, price |-> hasPrice, stale |-> stale,
   health |-> IF reason \/ status = "failed" THEN "failed"
              ELSE IF stale \/ ~hasPrice THEN "degraded" ELSE "ok"]

PayloadType == [status : Statuses, price : BOOLEAN, stale : BOOLEAN,
                health : {"ok", "degraded", "failed"}]
EventType == [type : {"price", "health", "stale", "error"}, payload : PayloadType]
Event(type, payload) == [type |-> type, payload |-> payload]

\* sendHealth picks the event's type from the status.
HealthEvent(c, hasPrice) ==
  Event(CASE c.status = "failed" -> "error"
          [] c.status = "stale"  -> "stale"
          [] OTHER               -> "health",
        Payload(c.status, c.reason, hasPrice))

PriceEvent == Event("price", Payload("open", FALSE, TRUE))
UnavailableEvent == Event("error", Payload("failed", TRUE, FALSE))

\* Mutant of Written: send() without its early return.
WrittenRegardless(events) == events

\* send() drops the event once the handler closed or the response is destroyed.
Written(events) == IF closed \/ peerGone THEN <<>> ELSE events

\* The handler's part of a step in which the client reported at most a status.
HandleStatus ==
  /\ IF calls' = <<>>
     THEN sent' = <<>> /\ UNCHANGED connectionStatus
     ELSE /\ connectionStatus' = calls'[1].status
          /\ sent' = Written(<<HealthEvent(calls'[1], tickKnown)>>)
  /\ UNCHANGED <<once, closed, peerGone, ended, tickKnown>>

-----------------------------------------------------------------------------
StreamInit ==
  /\ ClientInit
  /\ once \in BOOLEAN
  /\ closed = FALSE /\ peerGone = FALSE /\ ended = FALSE
  /\ tickKnown = FALSE
  /\ connectionStatus = "connecting"
  /\ sent = <<>>

StreamStart == Start /\ HandleStatus

\* The catch block: an error event, the end of the response, and close().
StreamStartThrows ==
  /\ StartThrows
  /\ closed' = TRUE /\ ended' = TRUE
  /\ connectionStatus' = "closed"
  /\ sent' = Written(<<HealthEvent(OpeningCall, FALSE), UnavailableEvent>>)
  /\ UNCHANGED <<once, peerGone, tickKnown>>

\* Mutant of StreamTick: a once=true request ends without stopping the client.
StreamTickLeavesClient(s) ==
  /\ OnTickMessage(s, FALSE)
  /\ tickKnown' = TRUE
  /\ connectionStatus' = "open"
  /\ sent' = Written(<<PriceEvent>>)
  /\ ended' = (ended \/ (once /\ ~closed /\ ~peerGone))
  /\ closed' = (closed \/ (once /\ ~closed /\ ~peerGone))
  /\ UNCHANGED <<once, peerGone>>

\* onTick: remember the tick and write a price.  For once=true the write ends
\* the response and close() stops the client before onTick returns.
StreamTick(s) ==
  LET done == once /\ ~closed /\ ~peerGone IN
  /\ OnTickMessage(s, done)
  /\ tickKnown' = TRUE
  /\ connectionStatus' = IF done THEN "closed" ELSE "open"
  /\ sent' = Written(<<PriceEvent>>)
  /\ ended' = (ended \/ done)
  /\ closed' = (closed \/ done)
  /\ UNCHANGED <<once, peerGone>>

StreamOpen(s)  == OnOpen(s) /\ HandleStatus
StreamBad(s)   == OnBadMessage(s) /\ HandleStatus
StreamError(s) == OnError(s) /\ HandleStatus
StreamClose(s) == OnClose(s) /\ HandleStatus
StreamReconnect == ReconnectFires /\ HandleStatus
StreamAges      == TickAges /\ HandleStatus
StreamStale     == StaleCheck /\ HandleStatus

\* The connection to the browser breaks: writes are dropped from here on.
PeerLeaves ==
  /\ started /\ ~peerGone
  /\ peerGone' = TRUE
  /\ calls' = <<>> /\ sent' = <<>>
  /\ UNCHANGED <<started, closedByUser, reconnectCount, staleTimer, reconnectTimer,
                 lastTick, socket, ws, once, closed, ended, tickKnown, connectionStatus>>

\* The request's close event runs close(); the status stop() reports from
\* there finds the handler closed.
RequestClosed ==
  /\ peerGone /\ ~closed
  /\ Stop
  /\ closed' = TRUE
  /\ connectionStatus' = "closed"
  /\ sent' = <<>>
  /\ UNCHANGED <<once, peerGone, ended, tickKnown>>

StreamNext ==
  \/ StreamStart \/ StreamStartThrows
  \/ StreamReconnect \/ StreamAges \/ StreamStale
  \/ PeerLeaves \/ RequestClosed
  \/ \E s \in Sockets : \/ StreamOpen(s) \/ StreamTick(s) \/ StreamBad(s)
                        \/ StreamError(s) \/ StreamClose(s)

\* The handler starts its client, a connection attempt succeeds or fails, a
\* socket that erred or was closed gets its close event, the reconnect timer
\* fires, and the server notices a broken request.
StreamFairness ==
  /\ WF_streamVars(StreamStart \/ StreamStartThrows)
  /\ WF_streamVars(StreamReconnect)
  /\ WF_streamVars(RequestClosed)
  /\ \A s \in Sockets :
       /\ WF_streamVars(ws[s] = "connecting" /\ (StreamOpen(s) \/ StreamError(s)))
       /\ WF_streamVars(ws[s] \in {"closing", "erred"} /\ StreamClose(s))

StreamSpec == StreamInit /\ [][StreamNext]_streamVars
FairStreamSpec == StreamSpec /\ StreamFairness

-----------------------------------------------------------------------------
\* Types: every variable, and the events a step writes, have their shapes.
StreamTypeOK ==
  /\ ClientTypeOK
  /\ once \in BOOLEAN /\ closed \in BOOLEAN /\ peerGone \in BOOLEAN
  /\ ended \in BOOLEAN /\ tickKnown \in BOOLEAN
  /\ connectionStatus \in Statuses
  /\ sent \in Seq(EventType)

\* Safety: the stream never runs two upstream sockets, and none while a
\* reconnect is pending, although error, close and timer callbacks come from
\* different sockets and none of them checks which socket it belongs to.
SingleFeed ==
  /\ \A s, t \in Sockets : Alive(s) /\ Alive(t) => s = t
  /\ reconnectTimer => \A s \in Sockets : ~Alive(s)

\* Safety: close() is final.  Late error and close events of the socket it
\* closed neither rearm a timer nor open another socket.
CleanupIsFinal ==
  closed => /\ ~staleTimer /\ ~reconnectTimer
            /\ \A s \in Sockets : ws[s] \in {"none", "closing", "erred"}

\* Safety: while the status last reported is "open", the upstream socket is
\* open.  Every way of losing it is reported in the turn that loses it.
OpenReportIsTrue ==
  connectionStatus = "open" => socket # NoSocket /\ ws[socket] = "open"

\* Action: nothing is written once the handler has closed, whatever the
\* client still reports from stop() and from its last socket events.
SilentAfterClose == [][closed => sent' = <<>>]_streamVars

\* The stream as a price feed.
Phase ==
  CASE closed         -> "ended"
    [] ~closed /\ ~started -> "idle"
    [] ~closed /\ started /\ reconnectTimer -> "waiting"
    [] OTHER -> CASE ws[socket] = "connecting" -> "connecting"
                  [] ws[socket] = "open"       -> "live"
                  [] ws[socket] = "erred"      -> "broken"
                  [] OTHER                     -> "failed"

TickReported == calls # <<>> /\ calls[1] = Tick

Feed == INSTANCE PriceFeed WITH MaxRetries <- MaxReconnects, phase <- Phase,
                                retries <- reconnectCount, priced <- TickReported

\* Refinement: the handler and its client keep the promise of PriceFeed:
\* prices only while live, a bounded number of retries between two prices,
\* and no price after the feed failed or ended.
KeepsFeedPromise == Feed!FeedSpec

\* Liveness: the client does not reconnect forever.  Either ticks keep coming
\* or it settles: an open but silent socket, failed, or ended.
RetriesEnd == []<>TickReported \/ <>[](Phase \in {"live", "failed", "ended"})

\* Liveness: once the handler closed, every socket it opened gets closed.
SocketsDrain == closed ~> [](\A s \in Sockets : ~Alive(s))
=============================================================================
