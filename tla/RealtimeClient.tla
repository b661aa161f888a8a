---------------------------- MODULE RealtimeClient ----------------------------
(***************************************************************************)
(* BinanceSpotRealtimeClient: the WebSocket client behind one realtime     *)
(* price stream.  It opens a socket, turns messages into ticks, and after  *)
(* a close waits on a reconnect timer and opens another socket, at most    *)
(* MaxReconnects times in a row without a tick.                            *)
(*                                                                         *)
(* The module holds the client's fields, the sockets it created and one    *)
(* action per method, timer or socket handler.  A step runs to completion  *)
(* as a JavaScript turn does; the callbacks it makes (onStatus, onTick)    *)
(* are the step's output `calls'.  RealtimeStream joins each action with   *)
(* what its owner, the gateway's request handler, does in those callbacks. *)
(***************************************************************************)
EXTENDS Naturals, Sequences

CONSTANTS Sockets,        \* identities of WebSocket objects, reused once closed
          NoSocket,       \* this.socket before the first open()
          MaxReconnects   \* options.maxReconnects

ASSUME ClientAssumption == NoSocket \notin Sockets /\ MaxReconnects \in Nat

VARIABLES started,        \* start() has been called
          closedByUser,   \* stop() has been called
          reconnectCount, \* reconnects since the last tick
          staleTimer,     \* the stale-check interval is running
          reconnectTimer, \* a reconnect timeout is pending
          lastTick,       \* lastTickAtMs: never set, within staleAfterMs, older
          socket,         \* this.socket
          ws,             \* what the network has done to each socket
          calls           \* the callbacks the last step made, in order

clientVars == <<started, closedByUser, reconnectCount, staleTimer,
                reconnectTimer, lastTick, socket, ws, calls>>

-----------------------------------------------------------------------------
\* A callback: onStatus(status, reason) with or without a reason, or onTick.
Call(status, reason) == [status |-> status, reason |-> reason]
Tick == Call("tick", FALSE)

Statuses == {"connecting", "open", "stale", "reconnecting", "closed", "failed"}
CallType == [status : Statuses \cup {"tick", "threw"}, reason : BOOLEAN]

\* A socket from creation to its close event.  "erred" has had its error event
\* and "closing" its close() call; both only await the close event.
SocketStates == {"none", "connecting", "open", "closing", "erred"}
Alive(s) == ws[s] # "none"

ClientTypeOK ==
  /\ started \in BOOLEAN /\ closedByUser \in BOOLEAN
  /\ reconnectCount \in 0 .. MaxReconnects
  /\ staleTimer \in BOOLEAN /\ reconnectTimer \in BOOLEAN
  /\ lastTick \in {"never", "recent", "old"}
  /\ socket \in Sockets \cup {NoSocket}
  /\ ws \in [Sockets -> SocketStates]
  /\ calls \in Seq(CallType)

ClientInit ==
  /\ started = FALSE /\ closedByUser = FALSE
  /\ reconnectCount = 0
  /\ staleTimer = FALSE /\ reconnectTimer = FALSE
  /\ lastTick = "never"
  /\ socket = NoSocket
  /\ ws = [s \in Sockets |-> "none"]
  /\ calls = <<>>

\* The status open() reports before it creates the socket.
OpeningCall ==
  Call(IF reconnectCount = 0 THEN "connecting" ELSE "reconnecting", FALSE)

\* open(), once past its closedByUser check.
OpenSocket ==
  /\ \E s \in Sockets : /\ ~Alive(s)
                        /\ ws' = [ws EXCEPT ![s] = "connecting"]
                        /\ socket' = s
  /\ calls' = <<OpeningCall>>

\* this.socket?.close(): nothing is left to close on an erred or closed socket.
SocketsAfterStop ==
  [s \in Sockets |->
     IF s = socket /\ ws[s] \in {"connecting", "open"} THEN "closing" ELSE ws[s]]

-----------------------------------------------------------------------------
\* start(): the first open(), then the stale-check interval.
Start ==
  /\ ~started
  /\ started' = TRUE /\ staleTimer' = TRUE
  /\ OpenSocket
  /\ UNCHANGED <<closedByUser, reconnectCount, reconnectTimer, lastTick>>

\* start() when the WebSocket factory throws: no interval is set, and the
\* caller's catch block calls stop() in the same turn.
StartThrows ==
  /\ ~started
  /\ started' = TRUE /\ closedByUser' = TRUE
  /\ calls' = <<OpeningCall, Call("threw", TRUE), Call("closed", FALSE)>>
  /\ UNCHANGED <<reconnectCount, staleTimer, reconnectTimer, lastTick, socket, ws>>

\* Mutant of Stop: the socket is left open.
StopForgetsSocket ==
  /\ started /\ ~closedByUser
  /\ closedByUser' = TRUE
  /\ staleTimer' = FALSE /\ reconnectTimer' = FALSE
  /\ calls' = <<Call("closed", FALSE)>>
  /\ UNCHANGED <<started, reconnectCount, lastTick, socket, ws>>

\* stop()
Stop ==
  /\ started /\ ~closedByUser
  /\ closedByUser' = TRUE
  /\ staleTimer' = FALSE /\ reconnectTimer' = FALSE
  /\ ws' = SocketsAfterStop
  /\ calls' = <<Call("closed", FALSE)>>
  /\ UNCHANGED <<started, reconnectCount, lastTick, socket>>

\* The reconnect timeout fires and calls open().
ReconnectFires ==
  /\ reconnectTimer /\ ~closedByUser
  /\ reconnectTimer' = FALSE
  /\ OpenSocket
  /\ UNCHANGED <<started, closedByUser, reconnectCount, staleTimer, lastTick>>

\* Mutant of OnOpen: a bare connection, without a tick, resets the count.
OnOpenResetsCount(s) ==
  /\ ws[s] = "connecting"
  /\ ws' = [ws EXCEPT ![s] = "open"]
  /\ reconnectCount' = 0
  /\ calls' = <<Call("open", FALSE)>>
  /\ UNCHANGED <<started, closedByUser, staleTimer, reconnectTimer, lastTick, socket>>

\* socket.onopen
OnOpen(s) ==
  /\ ws[s] = "connecting"
  /\ ws' = [ws EXCEPT ![s] = "open"]
  /\ calls' = <<Call("open", FALSE)>>
  /\ UNCHANGED <<started, closedByUser, reconnectCount, staleTimer,
                 reconnectTimer, lastTick, socket>>

\* socket.onmessage with a payload the parser accepts.  onTick may call stop()
\* before it returns (`stops'): the gateway does for a once=true request.
OnTickMessage(s, stops) ==
  /\ ws[s] = "open"
  /\ lastTick' = "recent"
  /\ reconnectCount' = 0
  /\ IF stops
     THEN /\ closedByUser' = TRUE
          /\ staleTimer' = FALSE /\ reconnectTimer' = FALSE
          /\ ws' = SocketsAfterStop
          /\ calls' = <<Tick, Call("closed", FALSE)>>
     ELSE /\ calls' = <<Tick>>
          /\ UNCHANGED <<closedByUser, staleTimer, reconnectTimer, ws>>
  /\ UNCHANGED <<started, socket>>

\* socket.onmessage with a payload the parser rejects.
OnBadMessage(s) ==
  /\ ws[s] = "open"
  /\ calls' = <<Call("stale", TRUE)>>
  /\ UNCHANGED <<started, closedByUser, reconnectCount, staleTimer,
                 reconnectTimer, lastTick, socket, ws>>

\* Mutant of OnError: it starts the recovery itself instead of leaving it to
\* onclose.
OnErrorReconnects(s) ==
  /\ ws[s] \in {"connecting", "open", "closing"}
  /\ ws' = [ws EXCEPT ![s] = "erred"]
  /\ reconnectTimer' = ~closedByUser
  /\ calls' = <<Call("reconnecting", TRUE)>>
  /\ UNCHANGED <<started, closedByUser, reconnectCount, staleTimer, lastTick, socket>>

\* socket.onerror: reports only, whether or not the user has stopped the client.
OnError(s) ==
  /\ ws[s] \in {"connecting", "open", "closing"}
  /\ ws' = [ws EXCEPT ![s] = "erred"]
  /\ calls' = <<Call("reconnecting", TRUE)>>
  /\ UNCHANGED <<started, closedByUser, reconnectCount, staleTimer,
                 reconnectTimer, lastTick, socket>>

\* Mutant of OnClose: it does not ask whether the user closed the socket.
OnCloseAlwaysReconnects(s) ==
  /\ ws[s] \in {"open", "closing", "erred"}
  /\ ws' = [ws EXCEPT ![s] = "none"]
  /\ \/ /\ reconnectCount >= MaxReconnects
        /\ calls' = <<Call("failed", TRUE)>>
        /\ UNCHANGED <<reconnectCount, reconnectTimer>>
     \/ /\ reconnectCount < MaxReconnects
        /\ reconnectCount' = reconnectCount + 1
        /\ reconnectTimer' = TRUE
        /\ calls' = <<Call("reconnecting", TRUE)>>
  /\ UNCHANGED <<started, closedByUser, staleTimer, lastTick, socket>>

\* Mutant of OnClose: it gives up one reconnect too late.
OnCloseOffByOne(s) ==
  /\ ws[s] \in {"open", "closing", "erred"}
  /\ ws' = [ws EXCEPT ![s] = "none"]
  /\ \/ /\ closedByUser
        /\ calls' = <<>>
        /\ UNCHANGED <<reconnectCount, reconnectTimer>>
     \/ /\ ~closedByUser /\ reconnectCount > MaxReconnects
        /\ calls' = <<Call("failed", TRUE)>>
        /\ UNCHANGED <<reconnectCount, reconnectTimer>>
     \/ /\ ~closedByUser /\ reconnectCount <= MaxReconnects
        /\ reconnectCount' = reconnectCount + 1
        /\ reconnectTimer' = TRUE
        /\ calls' = <<Call("reconnecting", TRUE)>>
  /\ UNCHANGED <<started, closedByUser, staleTimer, lastTick, socket>>

\* Mutant of OnClose: it gives up without saying so.
OnCloseGivesUpSilently(s) ==
  /\ ws[s] \in {"open", "closing", "erred"}
  /\ ws' = [ws EXCEPT ![s] = "none"]
  /\ \/ /\ closedByUser \/ reconnectCount >= MaxReconnects
        /\ calls' = <<>>
        /\ UNCHANGED <<reconnectCount, reconnectTimer>>
     \/ /\ ~closedByUser /\ reconnectCount < MaxReconnects
        /\ reconnectCount' = reconnectCount + 1
        /\ reconnectTimer' = TRUE
        /\ calls' = <<Call("reconnecting", TRUE)>>
  /\ UNCHANGED <<started, closedByUser, staleTimer, lastTick, socket>>

\* socket.onclose.  A socket that never opened errs before it closes.
OnClose(s) ==
  /\ ws[s] \in {"open", "closing", "erred"}
  /\ ws' = [ws EXCEPT ![s] = "none"]
  /\ \/ /\ closedByUser
        /\ calls' = <<>>
        /\ UNCHANGED <<reconnectCount, reconnectTimer>>
     \/ /\ ~closedByUser /\ reconnectCount >= MaxReconnects
        /\ calls' = <<Call("failed", TRUE)>>
        /\ UNCHANGED <<reconnectCount, reconnectTimer>>
     \/ /\ ~closedByUser /\ reconnectCount < MaxReconnects
        /\ reconnectCount' = reconnectCount + 1
        /\ reconnectTimer' = TRUE
        /\ calls' = <<Call("reconnecting", TRUE)>>
  /\ UNCHANGED <<started, closedByUser, staleTimer, lastTick, socket>>

\* staleAfterMs pass without a tick.
TickAges ==
  /\ lastTick = "recent"
  /\ lastTick' = "old"
  /\ calls' = <<>>
  /\ UNCHANGED <<started, closedByUser, reconnectCount, staleTimer,
                 reconnectTimer, socket, ws>>

\* The stale-check interval finds the last tick too old.
StaleCheck ==
  /\ staleTimer
  /\ lastTick = "old"
  /\ calls' = <<Call("stale", TRUE)>>
  /\ UNCHANGED <<started, closedByUser, reconnectCount, staleTimer,
                 reconnectTimer, lastTick, socket, ws>>
=============================================================================
