---------------------------- MODULE RealtimeProofs ----------------------------
(***************************************************************************)
(* Proofs about one realtime price request, and about the price card and   *)
(* the short-window panel over it, for any number of sockets, any          *)
(* reconnect limit and any events in flight.                               *)
(*                                                                         *)
(* Of the request: the only socket the network still works on is           *)
(* this.socket, the handler and the client close together, and a pending   *)
(* reconnect excludes both a closed handler and a socket in use.           *)
(*                                                                         *)
(* What a component shows lags behind what the gateway knows by the events *)
(* in flight.  So each property is strengthened to one about those events: *)
(* the last of them that says "open" is backed, none has a price before    *)
(* the request had one, and the first price is shown or on its way.        *)
(***************************************************************************)
EXTENDS RealtimeCard, SequenceTheorems, TLAPS

\* Nothing has happened before start().
NotStarted ==
  ~started => /\ ~closed /\ ~staleTimer /\ ~reconnectTimer
              /\ socket = NoSocket /\ reconnectCount = 0
              /\ \A s \in Sockets : ~Alive(s)

\* this.socket is the only socket in use.
OnlyCurrent ==
  /\ \A s \in Sockets : Alive(s) => s = socket
  /\ reconnectTimer => \A s \in Sockets : ~Alive(s)
  /\ started /\ ~closed => socket \in Sockets

\* The handler and its client close together, and a socket is only ever closed
\* from this side by closing them.
ClosedTogether ==
  /\ closed <=> closedByUser
  /\ \A s \in Sockets : ws[s] = "closing" => closed

StreamIInv ==
  /\ NotStarted /\ OnlyCurrent /\ ClosedTogether
  /\ CleanupIsFinal /\ OpenReportIsTrue

-----------------------------------------------------------------------------
\* Short sequences over a set.
LEMMA ShortSeqs ==
  ASSUME NEW S, NEW a \in S, NEW b \in S, NEW c \in S
  PROVE  <<a>> \in Seq(S) /\ <<a, b>> \in Seq(S) /\ <<a, b, c>> \in Seq(S)
OBVIOUS

\* The first of one or two elements.
LEMMA FirstOfShortSeq ==
  ASSUME NEW a, NEW b
  PROVE  /\ <<a>> # <<>> /\ <<a>>[1] = a
         /\ <<a, b>> # <<>> /\ <<a, b>>[1] = a
<1>1. Len(<<>>) = 0 /\ Len(<<a>>) = 1 /\ Len(<<a, b>>) = 2
  OBVIOUS
<1>2. QED
  BY <1>1

\* What a status callback carries, and what the handler makes of it, is typed.
LEMMA CallTyped ==
  ASSUME NEW st \in Statuses \cup {"tick", "threw"}, NEW r \in BOOLEAN
  PROVE  Call(st, r) \in CallType
BY DEF Call, CallType

\* toRealtimePayload returns a payload.
LEMMA PayloadTyped ==
  ASSUME NEW st \in Statuses, NEW r \in BOOLEAN, NEW p \in BOOLEAN
  PROVE  Payload(st, r, p) \in PayloadType
BY DEF Payload, PayloadType

\* sendHealth writes an event.
LEMMA HealthEventTyped ==
  ASSUME NEW c \in CallType, c.status \in Statuses, NEW p \in BOOLEAN
  PROVE  HealthEvent(c, p) \in EventType
<1>1. c.reason \in BOOLEAN
  BY DEF CallType
<1>2. Payload(c.status, c.reason, p) \in PayloadType
  BY <1>1, PayloadTyped
<1>3. QED
  BY <1>2 DEF HealthEvent, Event, EventType

\* The two events that are not built from a status are events.
LEMMA PriceEventTyped == PriceEvent \in EventType /\ UnavailableEvent \in EventType
<1>1. Payload("open", FALSE, TRUE) \in PayloadType
  BY PayloadTyped DEF Statuses
<1>2. Payload("failed", TRUE, FALSE) \in PayloadType
  BY PayloadTyped DEF Statuses
<1>3. QED
  BY <1>1, <1>2 DEF PriceEvent, UnavailableEvent, Event, EventType

\* send() writes a sequence of events when it is given one.
LEMMA WrittenTyped ==
  ASSUME NEW es \in Seq(EventType)
  PROVE  Written(es) \in Seq(EventType)
BY DEF Written

\* The handler's variables.
HandlerTypeOK ==
  /\ once \in BOOLEAN /\ closed \in BOOLEAN /\ peerGone \in BOOLEAN
  /\ ended \in BOOLEAN /\ tickKnown \in BOOLEAN
  /\ connectionStatus \in Statuses
  /\ sent \in Seq(EventType)

\* The step makes no callback, or reports one status.
Reported ==
  calls' = <<>> \/ \E c \in CallType : c.status \in Statuses /\ calls' = <<c>>

\* A step that reports one status callback has Reported.
LEMMA ReportedCall ==
  ASSUME NEW st \in Statuses, NEW r \in BOOLEAN, calls' = <<Call(st, r)>>
  PROVE  Reported /\ calls' \in Seq(CallType)
<1>1. Call(st, r) \in CallType /\ Call(st, r).status = st
  BY DEF Call, CallType
<1>2. QED
  BY <1>1 DEF Reported

\* The handler's part of such a step keeps the handler's types.
LEMMA HandleStatusTyped ==
  ASSUME HandlerTypeOK, HandleStatus, Reported
  PROVE  HandlerTypeOK'
<1>1. CASE calls' = <<>>
  BY <1>1 DEF HandlerTypeOK, HandleStatus
<1>2. CASE calls' # <<>>
  <2>1. PICK c \in CallType : c.status \in Statuses /\ calls' = <<c>>
    BY <1>2 DEF Reported
  <2>2. connectionStatus' = c.status /\ sent' = Written(<<HealthEvent(c, tickKnown)>>)
    BY <1>2, <2>1 DEF HandleStatus
  <2>3. HealthEvent(c, tickKnown) \in EventType
    BY <2>1, HealthEventTyped DEF HandlerTypeOK
  <2>4. sent' \in Seq(EventType)
    BY <2>2, <2>3 DEF Written
  <2>5. QED
    BY <2>1, <2>2, <2>4 DEF HandlerTypeOK, HandleStatus
<1>3. QED
  BY <1>1, <1>2

\* Every action of the client keeps its types.  All but a tick and a failed
\* start report at most one status.
LEMMA ClientTyped ==
  ASSUME ClientTypeOK
  PROVE  /\ Start \/ ReconnectFires \/ StaleCheck \/ TickAges => ClientTypeOK' /\ Reported
         /\ \A s \in Sockets :
              OnOpen(s) \/ OnBadMessage(s) \/ OnError(s) \/ OnClose(s) =>
                ClientTypeOK' /\ Reported
         /\ StartThrows \/ Stop => ClientTypeOK'
         /\ \A s \in Sockets, b \in BOOLEAN : OnTickMessage(s, b) => ClientTypeOK'
<1> USE ClientAssumption
<1>1. ASSUME OpenSocket PROVE Reported /\ calls' \in Seq(CallType)
                              /\ ws' \in [Sockets -> SocketStates] /\ socket' \in Sockets
  <2>1. PICK st \in Statuses : calls' = <<Call(st, FALSE)>>
    BY <1>1 DEF OpenSocket, OpeningCall, Statuses
  <2>2. QED
    BY <1>1, <2>1, ReportedCall DEF OpenSocket, ClientTypeOK, SocketStates
<1>2. Start \/ ReconnectFires => ClientTypeOK' /\ Reported
  BY <1>1 DEF Start, ReconnectFires, ClientTypeOK
<1>3. StaleCheck => ClientTypeOK' /\ Reported
  BY ReportedCall DEF StaleCheck, ClientTypeOK, Statuses
<1>4. TickAges => ClientTypeOK' /\ Reported
  BY DEF TickAges, ClientTypeOK, Reported
<1>5. ASSUME NEW s \in Sockets, OnOpen(s) \/ OnBadMessage(s) \/ OnError(s)
      PROVE  ClientTypeOK' /\ Reported
  BY <1>5, ReportedCall DEF OnOpen, OnBadMessage, OnError, ClientTypeOK, Statuses, SocketStates
<1>6. ASSUME NEW s \in Sockets, OnClose(s) PROVE ClientTypeOK' /\ Reported
  <2>1. Reported /\ calls' \in Seq(CallType)
    <3>1. CASE calls' = <<>>
      BY <3>1 DEF Reported
    <3>2. CASE calls' # <<>>
      <4>1. PICK st \in Statuses : calls' = <<Call(st, TRUE)>>
        BY <1>6, <3>2 DEF OnClose, Statuses
      <4>2. QED
        BY <4>1, ReportedCall
    <3>3. QED
      BY <3>1, <3>2
  <2>2. reconnectCount' \in 0 .. MaxReconnects
    <3>1. reconnectCount \in 0 .. MaxReconnects /\ MaxReconnects \in Nat
      BY DEF ClientTypeOK, ClientAssumption
    <3>2. \/ reconnectCount' = reconnectCount
          \/ reconnectCount < MaxReconnects /\ reconnectCount' = reconnectCount + 1
      BY <1>6 DEF OnClose
    <3>3. QED
      BY <3>1, <3>2
  <2>3. QED
    BY <1>6, <2>1, <2>2 DEF OnClose, ClientTypeOK, SocketStates
<1>7. SocketsAfterStop \in [Sockets -> SocketStates]
  BY DEF SocketsAfterStop, ClientTypeOK, SocketStates
<1>8. Stop => ClientTypeOK'
  BY <1>7, ReportedCall DEF Stop, ClientTypeOK, Statuses
<1>9. StartThrows => ClientTypeOK'
  <2> SUFFICES ASSUME StartThrows PROVE ClientTypeOK'
    OBVIOUS
  <2>1. PICK st \in Statuses :
          calls' = <<Call(st, FALSE), Call("threw", TRUE), Call("closed", FALSE)>>
    BY DEF StartThrows, OpeningCall, Statuses
  <2>2. calls' \in Seq(CallType)
    <3>1. Call(st, FALSE) \in CallType /\ Call("threw", TRUE) \in CallType
                                      /\ Call("closed", FALSE) \in CallType
      BY CallTyped DEF Statuses
    <3>2. QED
      BY <2>1, <3>1, ShortSeqs
  <2>3. QED
    BY <2>2 DEF StartThrows, ClientTypeOK
<1>10. ASSUME NEW s \in Sockets, NEW b \in BOOLEAN, OnTickMessage(s, b) PROVE ClientTypeOK'
  <2>1. Tick \in CallType /\ Call("closed", FALSE) \in CallType
    BY CallTyped DEF Tick, Statuses
  <2>2. calls' \in Seq(CallType)
    BY <1>10, <2>1, ShortSeqs DEF OnTickMessage
  <2>3. ws' \in [Sockets -> SocketStates]
    BY <1>10, <1>7 DEF OnTickMessage, ClientTypeOK
  <2>4. reconnectCount' \in 0 .. MaxReconnects
    BY <1>10 DEF OnTickMessage
  <2>5. closedByUser' \in BOOLEAN /\ staleTimer' \in BOOLEAN /\ reconnectTimer' \in BOOLEAN
    BY <1>10 DEF OnTickMessage, ClientTypeOK
  <2>6. QED
    BY <1>10, <2>2, <2>3, <2>4, <2>5 DEF OnTickMessage, ClientTypeOK
<1>11. QED
  BY <1>2, <1>3, <1>4, <1>5, <1>6, <1>8, <1>9, <1>10

\* A new request is well-typed.
LEMMA StreamTypesInit ==
  ASSUME StreamInit
  PROVE  StreamTypeOK
<1>1. <<>> \in Seq(CallType) /\ <<>> \in Seq(EventType)
  OBVIOUS
<1>2. reconnectCount \in 0 .. MaxReconnects
  BY ClientAssumption DEF StreamInit, ClientInit
<1>3. ClientTypeOK
  BY <1>1, <1>2 DEF StreamInit, ClientInit, ClientTypeOK, SocketStates
<1>4. HandlerTypeOK
  BY <1>1 DEF StreamInit, HandlerTypeOK, Statuses
<1>5. QED
  BY <1>3, <1>4 DEF StreamTypeOK, HandlerTypeOK

\* Every step of a request keeps the types.
LEMMA StreamTypesStep ==
  ASSUME StreamTypeOK, [StreamNext]_streamVars
  PROVE  StreamTypeOK'
<1> USE ClientAssumption
<1>0. HandlerTypeOK /\ ClientTypeOK /\ (HandlerTypeOK' /\ ClientTypeOK' => StreamTypeOK')
  BY DEF StreamTypeOK, HandlerTypeOK
<1>1. CASE StreamStart \/ StreamReconnect \/ StreamAges \/ StreamStale
  <2>1. ClientTypeOK' /\ Reported
    BY <1>0, <1>1, ClientTyped DEF StreamStart, StreamReconnect, StreamAges, StreamStale
  <2>2. HandlerTypeOK'
    BY <1>0, <1>1, <2>1, HandleStatusTyped
       DEF StreamStart, StreamReconnect, StreamAges, StreamStale
  <2>3. QED
    BY <1>0, <2>1, <2>2
<1>2. ASSUME NEW s \in Sockets,
             StreamOpen(s) \/ StreamBad(s) \/ StreamError(s) \/ StreamClose(s)
      PROVE  StreamTypeOK'
  <2>1. ClientTypeOK' /\ Reported
    BY <1>0, <1>2, ClientTyped DEF StreamOpen, StreamBad, StreamError, StreamClose
  <2>2. HandlerTypeOK'
    BY <1>0, <1>2, <2>1, HandleStatusTyped
       DEF StreamOpen, StreamBad, StreamError, StreamClose
  <2>3. QED
    BY <1>0, <2>1, <2>2
<1>3. CASE StreamStartThrows
  <2>1. ClientTypeOK'
    BY <1>0, <1>3, ClientTyped DEF StreamStartThrows
  <2>2. PICK st \in Statuses : OpeningCall = Call(st, FALSE)
    BY DEF OpeningCall, Statuses
  <2>3. OpeningCall \in CallType /\ OpeningCall.status \in Statuses
    BY <2>2, CallTyped DEF Call
  <2>4. HealthEvent(OpeningCall, FALSE) \in EventType
    BY <2>3, HealthEventTyped
  <2>5. sent' \in Seq(EventType)
    <3>1. <<HealthEvent(OpeningCall, FALSE), UnavailableEvent>> \in Seq(EventType)
      BY <2>4, PriceEventTyped, ShortSeqs
    <3>2. QED
      BY <1>3, <3>1, WrittenTyped DEF StreamStartThrows
  <2>6. HandlerTypeOK'
    BY <1>0, <1>3, <2>5 DEF StreamStartThrows, HandlerTypeOK, Statuses
  <2>7. QED
    BY <1>0, <2>1, <2>6
<1>4. ASSUME NEW s \in Sockets, StreamTick(s) PROVE StreamTypeOK'
  <2>1. ClientTypeOK'
    BY <1>0, <1>4, ClientTyped DEF StreamTick, HandlerTypeOK
  <2>2. sent' \in Seq(EventType)
    BY <1>4, PriceEventTyped DEF StreamTick, Written
  <2>3. HandlerTypeOK'
    BY <1>0, <1>4, <2>2 DEF StreamTick, HandlerTypeOK, Statuses
  <2>4. QED
    BY <1>0, <2>1, <2>3
<1>5. CASE PeerLeaves
  BY <1>0, <1>5 DEF PeerLeaves, ClientTypeOK, HandlerTypeOK
<1>6. CASE RequestClosed
  <2>1. ClientTypeOK'
    BY <1>0, <1>6, ClientTyped DEF RequestClosed
  <2>2. HandlerTypeOK'
    BY <1>0, <1>6 DEF RequestClosed, HandlerTypeOK, Statuses
  <2>3. QED
    BY <1>0, <2>1, <2>2
<1>7. CASE UNCHANGED streamVars
  BY <1>7 DEF StreamTypeOK, ClientTypeOK, streamVars, clientVars, handlerVars
<1>8. QED
  BY <1>1, <1>2, <1>3, <1>4, <1>5, <1>6, <1>7 DEF StreamNext

\* Theorem: the types hold in every reachable state of a request.
THEOREM StreamTypes == StreamSpec => []StreamTypeOK
<1>1. StreamInit => StreamTypeOK
  BY StreamTypesInit
<1>2. StreamTypeOK /\ [StreamNext]_streamVars => StreamTypeOK'
  BY StreamTypesStep
<1>3. QED
  BY <1>1, <1>2, PTL DEF StreamSpec

-----------------------------------------------------------------------------
\* A new request satisfies the inductive invariant.
LEMMA StreamIInvInit ==
  ASSUME StreamInit
  PROVE  StreamIInv
BY ClientAssumption DEF StreamInit, ClientInit, StreamIInv, NotStarted, OnlyCurrent,
   ClosedTogether, CleanupIsFinal, OpenReportIsTrue, Alive

\* The inductive step, one part per action.
LEMMA StreamIInvStep ==
  ASSUME StreamTypeOK, StreamIInv, [StreamNext]_streamVars
  PROVE  StreamIInv'
<1> USE ClientAssumption DEF StreamTypeOK, ClientTypeOK, StreamIInv, NotStarted, OnlyCurrent,
        ClosedTogether, CleanupIsFinal, OpenReportIsTrue, Alive
<1>1. CASE StreamStart
  BY <1>1 DEF StreamStart, Start, OpenSocket, OpeningCall, Call, HandleStatus
<1>2. CASE StreamStartThrows
  BY <1>2 DEF StreamStartThrows, StartThrows
<1>3. CASE StreamReconnect
  BY <1>3 DEF StreamReconnect, ReconnectFires, OpenSocket, OpeningCall, Call, HandleStatus
<1>4. CASE StreamAges \/ StreamStale
  BY <1>4 DEF StreamAges, StreamStale, TickAges, StaleCheck, Call, HandleStatus
<1>5. CASE PeerLeaves
  BY <1>5 DEF PeerLeaves
<1>6. CASE RequestClosed
  BY <1>6 DEF RequestClosed, Stop, SocketsAfterStop, SocketStates
<1>7. ASSUME NEW s \in Sockets, StreamOpen(s) PROVE StreamIInv'
  BY <1>7 DEF StreamOpen, OnOpen, Call, HandleStatus
<1>8. ASSUME NEW s \in Sockets, StreamBad(s) PROVE StreamIInv'
  BY <1>8 DEF StreamBad, OnBadMessage, Call, HandleStatus
<1>9. ASSUME NEW s \in Sockets, StreamError(s) PROVE StreamIInv'
  BY <1>9 DEF StreamError, OnError, Call, HandleStatus
<1>10. ASSUME NEW s \in Sockets, StreamClose(s) PROVE StreamIInv'
  BY <1>10 DEF StreamClose, OnClose, Call, HandleStatus
<1>11. ASSUME NEW s \in Sockets, StreamTick(s) PROVE StreamIInv'
  BY <1>11 DEF StreamTick, OnTickMessage, SocketsAfterStop
<1>12. CASE UNCHANGED streamVars
  BY <1>12 DEF streamVars, clientVars, handlerVars
<1>13. QED
  BY <1>1, <1>2, <1>3, <1>4, <1>5, <1>6, <1>7, <1>8, <1>9, <1>10, <1>11, <1>12 DEF StreamNext

\* Theorem: the inductive invariant holds in every reachable state.
THEOREM StreamInvariant == StreamSpec => []StreamIInv
<1>1. StreamInit => StreamIInv
  BY StreamIInvInit
<1>2. StreamTypeOK /\ StreamIInv /\ [StreamNext]_streamVars => StreamIInv'
  BY StreamIInvStep
<1>3. QED
  BY <1>1, <1>2, StreamTypes, PTL DEF StreamSpec

\* Theorem: a request never runs two upstream sockets, nor one beside a pending
\* reconnect.
THEOREM StreamSingleFeed == StreamSpec => []SingleFeed
<1>1. StreamIInv => SingleFeed
  BY DEF StreamIInv, OnlyCurrent, SingleFeed
<1>2. QED
  BY <1>1, StreamInvariant, PTL

\* Theorem: close() of the handler is final.
THEOREM StreamCleanup == StreamSpec => []CleanupIsFinal
<1>1. StreamIInv => CleanupIsFinal
  BY DEF StreamIInv
<1>2. QED
  BY <1>1, StreamInvariant, PTL

\* Theorem: a reported "open" is backed by an open upstream socket.
THEOREM StreamOpenReport == StreamSpec => []OpenReportIsTrue
<1>1. StreamIInv => OpenReportIsTrue
  BY DEF StreamIInv
<1>2. QED
  BY <1>1, StreamInvariant, PTL

\* Theorem: nothing is written after close().
THEOREM StreamSilence == StreamSpec => SilentAfterClose
<1>1. StreamTypeOK /\ StreamIInv /\ [StreamNext]_streamVars
        => [closed => sent' = <<>>]_streamVars
  <2> SUFFICES ASSUME StreamIInv, StreamNext, closed PROVE sent' = <<>>
    OBVIOUS
  <2> USE DEF StreamIInv, NotStarted, ClosedTogether, CleanupIsFinal
  <2>1. CASE StreamStart \/ StreamStartThrows
    BY <2>1 DEF StreamStart, Start, StreamStartThrows, StartThrows
  <2>2. CASE StreamReconnect \/ StreamAges \/ StreamStale
    BY <2>2 DEF StreamReconnect, StreamAges, StreamStale, HandleStatus, Written
  <2>3. CASE PeerLeaves \/ RequestClosed
    BY <2>3 DEF PeerLeaves, RequestClosed
  <2>4. ASSUME NEW s \in Sockets,
               StreamOpen(s) \/ StreamBad(s) \/ StreamError(s) \/ StreamClose(s)
        PROVE  sent' = <<>>
    BY <2>4 DEF StreamOpen, StreamBad, StreamError, StreamClose, HandleStatus, Written
  <2>5. ASSUME NEW s \in Sockets, StreamTick(s) PROVE sent' = <<>>
    BY <2>5 DEF StreamTick, Written
  <2>6. QED
    BY <2>1, <2>2, <2>3, <2>4, <2>5 DEF StreamNext
<1>2. QED
  BY <1>1, StreamTypes, StreamInvariant, PTL DEF StreamSpec, SilentAfterClose

-----------------------------------------------------------------------------
\* Where a socket event finds the request: it still runs, on this very socket,
\* unless the handler closed and the socket is on its way out.
LEMMA EventInPhase ==
  ASSUME StreamIInv, NEW s \in Sockets, Alive(s)
  PROVE  /\ s = socket /\ started /\ ~reconnectTimer
         /\ ws[s] \in {"connecting", "open"} => ~closed
BY DEF StreamIInv, NotStarted, OnlyCurrent, CleanupIsFinal

\* A status is not a tick.
LEMMA StatusIsNotTick ==
  ASSUME NEW st, st # "tick", NEW r, calls' = <<Call(st, r)>>
  PROVE  TickReported' = FALSE
<1>1. Call(st, r) # Tick
  BY DEF Call, Tick
<1>2. QED
  BY <1>1 DEF TickReported

\* Every step of the request is a step of PriceFeed.
LEMMA StreamStepsAreFeedSteps ==
  ASSUME StreamTypeOK, StreamIInv, [StreamNext]_streamVars
  PROVE  [Feed!FeedNext]_Feed!feedVars
<1> USE DEF Feed!FeedNext, Feed!Move, StreamTypeOK, ClientTypeOK
<1>1. CASE StreamStart
  <2>1. TickReported' = FALSE
    BY <1>1, StatusIsNotTick DEF StreamStart, Start, OpenSocket, OpeningCall
  <2>2. Phase = "idle" /\ Phase' = "connecting" /\ UNCHANGED reconnectCount
    BY <1>1 DEF StreamStart, Start, OpenSocket, HandleStatus, Phase, StreamIInv, NotStarted
  <2>3. QED
    BY <2>1, <2>2 DEF Feed!Subscribe
<1>2. CASE StreamStartThrows
  <2>1. TickReported' = FALSE
    BY <1>2 DEF StreamStartThrows, StartThrows, OpeningCall, Call, Tick, TickReported
  <2>2. Phase # "ended" /\ Phase' = "ended" /\ UNCHANGED reconnectCount
    BY <1>2 DEF StreamStartThrows, StartThrows, Phase, StreamIInv, NotStarted
  <2>3. QED
    BY <2>1, <2>2 DEF Feed!End
<1>3. CASE StreamReconnect
  <2>1. TickReported' = FALSE
    BY <1>3, StatusIsNotTick DEF StreamReconnect, ReconnectFires, OpenSocket, OpeningCall
  <2>2. Phase = "waiting" /\ Phase' = "connecting" /\ UNCHANGED reconnectCount
    BY <1>3 DEF StreamReconnect, ReconnectFires, OpenSocket, HandleStatus, Phase,
       StreamIInv, NotStarted, ClosedTogether
  <2>3. QED
    BY <2>1, <2>2 DEF Feed!Reconnect
<1>4. CASE StreamAges \/ StreamStale \/ PeerLeaves
  <2>1. TickReported' = FALSE
    BY <1>4, StatusIsNotTick
       DEF StreamAges, StreamStale, TickAges, StaleCheck, PeerLeaves, TickReported
  <2>2. UNCHANGED <<Phase, reconnectCount>>
    BY <1>4 DEF StreamAges, StreamStale, TickAges, StaleCheck, PeerLeaves, HandleStatus, Phase
  <2>3. QED
    BY <2>1, <2>2 DEF Feed!Internal
<1>5. CASE RequestClosed
  <2>1. TickReported' = FALSE
    BY <1>5, StatusIsNotTick DEF RequestClosed, Stop
  <2>2. Phase # "ended" /\ Phase' = "ended" /\ UNCHANGED reconnectCount
    BY <1>5 DEF RequestClosed, Stop, Phase
  <2>3. QED
    BY <2>1, <2>2 DEF Feed!End
<1>6. ASSUME NEW s \in Sockets, StreamOpen(s) PROVE Feed!FeedNext
  <2>1. TickReported' = FALSE
    BY <1>6, StatusIsNotTick DEF StreamOpen, OnOpen
  <2>2. Phase = "connecting" /\ Phase' = "live" /\ UNCHANGED reconnectCount
    BY <1>6, EventInPhase DEF StreamOpen, OnOpen, HandleStatus, Alive, Phase
  <2>3. QED
    BY <2>1, <2>2 DEF Feed!Connected
<1>7. ASSUME NEW s \in Sockets, StreamBad(s) PROVE Feed!FeedNext
  <2>1. TickReported' = FALSE
    BY <1>7, StatusIsNotTick DEF StreamBad, OnBadMessage
  <2>2. UNCHANGED <<Phase, reconnectCount>>
    BY <1>7 DEF StreamBad, OnBadMessage, HandleStatus, Phase
  <2>3. QED
    BY <2>1, <2>2 DEF Feed!Internal
<1>8. ASSUME NEW s \in Sockets, StreamError(s) PROVE Feed!FeedNext
  <2>1. TickReported' = FALSE
    BY <1>8, StatusIsNotTick DEF StreamError, OnError
  <2>2. CASE closed
    <3>1. Phase = "ended" /\ Phase' = "ended" /\ UNCHANGED reconnectCount
      BY <1>8, <2>2 DEF StreamError, OnError, HandleStatus, Phase
    <3>2. QED
      BY <2>1, <3>1 DEF Feed!Internal
  <2>3. CASE ~closed
    <3>1. ws[s] \in {"connecting", "open"}
      BY <1>8, <2>3 DEF StreamError, OnError, StreamIInv, ClosedTogether
    <3>2. Phase \in {"connecting", "live"} /\ Phase' = "broken" /\ UNCHANGED reconnectCount
      BY <1>8, <2>3, <3>1, EventInPhase DEF StreamError, OnError, HandleStatus, Alive, Phase
    <3>3. QED
      BY <2>1, <3>2 DEF Feed!Break
  <2>4. QED
    BY <2>2, <2>3
<1>9. ASSUME NEW s \in Sockets, StreamClose(s) PROVE Feed!FeedNext
  <2>1. TickReported' = FALSE
    <3>1. CASE calls' = <<>>
      BY <3>1 DEF TickReported
    <3>2. CASE calls' # <<>>
      BY <1>9, <3>2, StatusIsNotTick DEF StreamClose, OnClose
    <3>3. QED
      BY <3>1, <3>2
  <2>2. CASE closed
    <3>1. Phase = "ended" /\ Phase' = "ended" /\ UNCHANGED reconnectCount
      BY <1>9, <2>2 DEF StreamClose, OnClose, HandleStatus, Phase, StreamIInv, ClosedTogether
    <3>2. QED
      BY <2>1, <3>1 DEF Feed!Internal
  <2>3. CASE ~closed
    <3>1. ~closedByUser /\ ws[s] \in {"open", "erred"} /\ s = socket /\ started /\ ~reconnectTimer
      BY <1>9, <2>3, EventInPhase DEF StreamClose, OnClose, Alive, StreamIInv, ClosedTogether
    <3>2. Phase \in {"live", "broken"}
      BY <2>3, <3>1 DEF Phase
    <3>3. ~closed' /\ started' /\ socket' = s /\ ws'[s] = "none"
      BY <1>9, <2>3, <3>1 DEF StreamClose, OnClose, HandleStatus
    <3>4. \/ reconnectCount >= MaxReconnects /\ UNCHANGED <<reconnectCount, reconnectTimer>>
          \/ /\ reconnectCount < MaxReconnects
             /\ reconnectTimer' = TRUE /\ reconnectCount' = reconnectCount + 1
      BY <1>9, <3>1 DEF StreamClose, OnClose
    <3>5. CASE reconnectCount >= MaxReconnects /\ UNCHANGED <<reconnectCount, reconnectTimer>>
      <4>1. Phase' = "failed"
        BY <3>1, <3>3, <3>5 DEF Phase
      <4>2. reconnectCount = MaxReconnects
        BY <3>5, ClientAssumption
      <4>3. QED
        BY <2>1, <3>2, <3>5, <4>1, <4>2 DEF Feed!GiveUp
    <3>6. CASE /\ reconnectCount < MaxReconnects
               /\ reconnectTimer' = TRUE /\ reconnectCount' = reconnectCount + 1
      <4>1. Phase' = "waiting"
        BY <3>3, <3>6 DEF Phase
      <4>2. QED
        BY <2>1, <3>2, <3>6, <4>1 DEF Feed!Retry
    <3>7. QED
      BY <3>4, <3>5, <3>6
  <2>4. QED
    BY <2>2, <2>3
<1>10. ASSUME NEW s \in Sockets, StreamTick(s) PROVE Feed!FeedNext
  <2>1. TickReported' = TRUE
    <3>1. calls' = <<Tick>> \/ calls' = <<Tick, Call("closed", FALSE)>>
      BY <1>10 DEF StreamTick, OnTickMessage
    <3>2. calls' # <<>> /\ calls'[1] = Tick
      BY <3>1, FirstOfShortSeq
    <3>3. QED
      BY <3>2 DEF TickReported
  <2>2. reconnectCount' = 0
    BY <1>10 DEF StreamTick, OnTickMessage
  <2>3. Phase = "live" /\ Phase' \in {"live", "ended"}
    <3>1. s = socket /\ started /\ ~reconnectTimer /\ ~closed /\ ws[s] = "open"
      BY <1>10, EventInPhase DEF StreamTick, OnTickMessage, Alive
    <3>2. Phase = "live"
      BY <3>1 DEF Phase
    <3>3. CASE closed'
      BY <3>2, <3>3 DEF Phase
    <3>4. CASE ~closed'
      <4>1. UNCHANGED <<ws, reconnectTimer, started, socket>>
        BY <1>10, <3>4 DEF StreamTick, OnTickMessage
      <4>2. QED
        BY <3>1, <3>2, <3>4, <4>1 DEF Phase
    <3>5. QED
      BY <3>3, <3>4
  <2>4. QED
    BY <2>1, <2>2, <2>3 DEF Feed!Price
<1>11. CASE UNCHANGED streamVars
  BY <1>11 DEF streamVars, clientVars, handlerVars, Feed!feedVars, Phase, TickReported
<1>12. QED
  BY <1>1, <1>2, <1>3, <1>4, <1>5, <1>6, <1>7, <1>8, <1>9, <1>10, <1>11 DEF StreamNext

\* Theorem: a request and its client implement the PriceFeed promise.
THEOREM StreamKeepsFeedPromise == StreamSpec => KeepsFeedPromise
<1>1. StreamInit => Feed!FeedInit
  BY DEF StreamInit, ClientInit, Feed!FeedInit, Phase, TickReported
<1>2. StreamTypeOK /\ StreamIInv /\ [StreamNext]_streamVars => [Feed!FeedNext]_Feed!feedVars
  BY StreamStepsAreFeedSteps
<1>3. QED
  BY <1>1, <1>2, StreamTypes, StreamInvariant, PTL DEF StreamSpec, KeepsFeedPromise, Feed!FeedSpec

-----------------------------------------------------------------------------
(* The components of the browser.                                            *)
\* No event has a price unless one is known.
AllKnown(events, known) ==
  \A i \in 1 .. Len(events) : events[i].payload.price => known

\* One of the events has a price that the panel reads.
Priced(events) ==
  \E i \in 1 .. Len(events) : events[i].type # "error" /\ events[i].payload.price

\* The last event says "open".
SaysOpen(events) ==
  /\ Len(events) > 0
  /\ events[Len(events)].type # "error" /\ events[Len(events)].payload.status = "open"

\* What the components say once they handled the events in flight.
WillShowOpen ==
  IF inbox = <<>> THEN "open" \in {card.status, panel.status} ELSE SaysOpen(inbox)

CardIInv ==
  /\ CardTypeOK /\ inbox \in Seq(EventType)
  /\ StreamIInv /\ ~once
  /\ peerGone => link # "open"
  /\ link # "open" => inbox = <<>>
  /\ link = "retrying" => card.status = "failed" /\ panel.status \in {"stale", "failed"}
  /\ AllKnown(inbox, tickKnown)
  /\ ShownHealthy => tickKnown
  /\ link = "open" /\ tickKnown => panel.price = "request" \/ Priced(inbox)
  /\ link = "open" /\ WillShowOpen => connectionStatus = "open"

-----------------------------------------------------------------------------
\* Events in a row.
LEMMA EventsJoined ==
  ASSUME NEW s \in Seq(EventType), NEW t \in Seq(EventType), NEW k \in BOOLEAN
  PROVE  /\ s \o t \in Seq(EventType)
         /\ AllKnown(s, k) /\ AllKnown(t, k) => AllKnown(s \o t, k)
         /\ Priced(s) \/ Priced(t) => Priced(s \o t)
         /\ Len(t) > 0 => s \o t # <<>> /\ (SaysOpen(s \o t) => SaysOpen(t))
<1>1. /\ s \o t \in Seq(EventType) /\ Len(s \o t) = Len(s) + Len(t)
      /\ Len(s) \in Nat /\ Len(t) \in Nat
      /\ \A i \in 1 .. Len(s) + Len(t) :
           (s \o t)[i] = IF i <= Len(s) THEN s[i] ELSE t[i - Len(s)]
  BY ConcatProperties, LenProperties
<1>2. AllKnown(s, k) /\ AllKnown(t, k) => AllKnown(s \o t, k)
  <2> SUFFICES ASSUME AllKnown(s, k), AllKnown(t, k), NEW i \in 1 .. Len(s) + Len(t)
               PROVE  (s \o t)[i].payload.price => k
    BY <1>1 DEF AllKnown
  <2>1. CASE i <= Len(s)
    BY <1>1, <2>1 DEF AllKnown
  <2>2. CASE i > Len(s)
    <3>1. i - Len(s) \in 1 .. Len(t) /\ ~(i <= Len(s))
      BY <1>1, <2>2
    <3>2. QED
      BY <1>1, <3>1 DEF AllKnown
  <2>3. QED
    BY <1>1, <2>1, <2>2
<1>3. ASSUME Priced(s) PROVE Priced(s \o t)
  <2>1. PICK i \in 1 .. Len(s) : s[i].type # "error" /\ s[i].payload.price
    BY <1>3 DEF Priced
  <2>2. i \in 1 .. Len(s) + Len(t) /\ i <= Len(s)
    BY <1>1
  <2>3. QED
    BY <1>1, <2>1, <2>2 DEF Priced
<1>4. ASSUME Priced(t) PROVE Priced(s \o t)
  <2>1. PICK i \in 1 .. Len(t) : t[i].type # "error" /\ t[i].payload.price
    BY <1>4 DEF Priced
  <2> DEFINE j == i + Len(s)
  <2>2. j \in 1 .. Len(s) + Len(t) /\ ~(j <= Len(s)) /\ j - Len(s) = i
    BY <1>1
  <2>3. (s \o t)[j] = t[i]
    BY <1>1, <2>2
  <2>4. QED
    BY <1>1, <2>1, <2>2, <2>3 DEF Priced
<1>5. ASSUME Len(t) > 0 PROVE s \o t # <<>> /\ (SaysOpen(s \o t) => SaysOpen(t))
  <2> DEFINE n == Len(s) + Len(t)
  <2>1. n \in 1 .. Len(s) + Len(t) /\ ~(n <= Len(s)) /\ n - Len(s) = Len(t)
    BY <1>1, <1>5
  <2>2. (s \o t)[n] = t[Len(t)]
    BY <1>1, <2>1
  <2>3. Len(s \o t) > 0
    BY <1>1, <1>5
  <2>4. s \o t # <<>>
    BY <2>3, EmptySeq
  <2>5. QED
    BY <1>1, <1>5, <2>2, <2>4 DEF SaysOpen
<1>6. QED
  BY <1>1, <1>2, <1>3, <1>4, <1>5

\* The first event taken from a row.
LEMMA FirstTaken ==
  ASSUME NEW s \in Seq(EventType), s # <<>>, NEW k \in BOOLEAN
  PROVE  /\ Head(s) \in EventType /\ Tail(s) \in Seq(EventType)
         /\ Len(Tail(s)) < Len(s) /\ Len(Tail(s)) \in Nat /\ Len(s) \in Nat
         /\ AllKnown(s, k) => AllKnown(Tail(s), k) /\ (Head(s).payload.price => k)
         /\ Priced(s) => Priced(Tail(s)) \/ (Head(s).type # "error" /\ Head(s).payload.price)
         /\ SaysOpen(Tail(s)) => SaysOpen(s)
         /\ Tail(s) = <<>> /\ Head(s).type # "error" /\ Head(s).payload.status = "open"
              => SaysOpen(s)
<1>1. /\ Len(s) \in Nat /\ Len(s) > 0
      /\ Tail(s) \in Seq(EventType) /\ Len(Tail(s)) = Len(s) - 1
      /\ \A i \in 1 .. Len(s) - 1 : Tail(s)[i] = s[i + 1]
      /\ Head(s) = s[1] /\ Head(s) \in EventType
  BY HeadTailProperties, LenProperties, EmptySeq
<1>2. AllKnown(s, k) => AllKnown(Tail(s), k) /\ (Head(s).payload.price => k)
  BY <1>1 DEF AllKnown
<1>3. ASSUME Priced(s)
      PROVE  Priced(Tail(s)) \/ (Head(s).type # "error" /\ Head(s).payload.price)
  <2>1. PICK i \in 1 .. Len(s) : s[i].type # "error" /\ s[i].payload.price
    BY <1>3 DEF Priced
  <2>2. CASE i = 1
    BY <1>1, <2>1, <2>2
  <2>3. CASE i # 1
    <3> DEFINE j == i - 1
    <3>1. j \in 1 .. Len(s) - 1 /\ j + 1 = i
      BY <1>1, <2>3
    <3>2. Tail(s)[j] = s[i]
      BY <1>1, <3>1
    <3>3. QED
      BY <1>1, <2>1, <3>1, <3>2 DEF Priced
  <2>4. QED
    BY <2>2, <2>3
<1>4. SaysOpen(Tail(s)) => SaysOpen(s)
  BY <1>1 DEF SaysOpen
<1>5. ASSUME Tail(s) = <<>>, Head(s).type # "error", Head(s).payload.status = "open"
      PROVE  SaysOpen(s)
  <2>1. Len(Tail(s)) = 0
    BY <1>5, EmptySeq
  <2>2. Len(s) \in Nat /\ Len(Tail(s)) = Len(s) - 1
    BY <1>1
  <2>3. Len(s) = 1
    BY <2>1, <2>2
  <2>4. QED
    BY <1>1, <1>5, <2>3 DEF SaysOpen
<1>6. QED
  BY <1>1, <1>2, <1>3, <1>4, <1>5
\* What a step of the gateway writes for a reader that is there: nothing, one
\* event, or the two of a start that fails.
LEMMA WhatIsSent ==
  ASSUME StreamTypeOK, StreamIInv, StreamIInv', StreamNext, ~once, ~peerGone, ~peerGone'
  PROVE  \/ /\ sent' = <<>> /\ tickKnown' = tickKnown
            /\ connectionStatus = "open" => connectionStatus' = "open"
         \/ \E e \in EventType :
              /\ sent' = <<e>>
              /\ e.payload.price => tickKnown'
              /\ e.payload.status = "open" => connectionStatus' = "open"
              /\ \/ tickKnown' = tickKnown
                 \/ e.type # "error" /\ e.payload.price
         \/ \E e, f \in EventType :
              /\ sent' = <<e, f>> /\ tickKnown' = tickKnown
              /\ ~e.payload.price /\ ~f.payload.price /\ f.type = "error"
<1> DEFINE Nothing == /\ sent' = <<>> /\ tickKnown' = tickKnown
                      /\ connectionStatus = "open" => connectionStatus' = "open"
           One == \E e \in EventType :
                    /\ sent' = <<e>>
                    /\ e.payload.price => tickKnown'
                    /\ e.payload.status = "open" => connectionStatus' = "open"
                    /\ \/ tickKnown' = tickKnown
                       \/ e.type # "error" /\ e.payload.price
<1>0. ClientTypeOK /\ HandlerTypeOK
  BY DEF StreamTypeOK, HandlerTypeOK
<1>1. ASSUME HandleStatus, Reported PROVE Nothing \/ One
  <2>1. CASE calls' = <<>>
    BY <1>1, <2>1 DEF HandleStatus
  <2>2. CASE calls' # <<>>
    <3>1. PICK c \in CallType : c.status \in Statuses /\ calls' = <<c>>
      BY <1>1, <2>2 DEF Reported
    <3>2. /\ connectionStatus' = c.status /\ tickKnown' = tickKnown /\ closed' = closed
          /\ sent' = IF closed THEN <<>> ELSE <<HealthEvent(c, tickKnown)>>
      BY <1>1, <2>2, <3>1 DEF HandleStatus, Written
    <3>3. CASE closed
      <4>1. connectionStatus # "open"
        BY <1>0, <3>3 DEF ClientTypeOK, StreamIInv, CleanupIsFinal, OpenReportIsTrue
      <4>2. QED
        BY <3>2, <3>3, <4>1
    <3>4. CASE ~closed
      <4> DEFINE e == HealthEvent(c, tickKnown)
      <4>1. e \in EventType
        BY <1>0, <3>1, HealthEventTyped DEF HandlerTypeOK
      <4>2. e.payload.price = tickKnown /\ e.payload.status = c.status
        BY DEF HealthEvent, Event, Payload
      <4>3. One
        BY <3>2, <3>4, <4>1, <4>2
      <4>4. QED
        BY <4>3
    <3>5. QED
      BY <3>3, <3>4
  <2>3. QED
    BY <2>1, <2>2
<1>2. CASE StreamStart \/ StreamReconnect \/ StreamAges \/ StreamStale
  <2>1. HandleStatus /\ Reported
    BY <1>0, <1>2, ClientTyped DEF StreamStart, StreamReconnect, StreamAges, StreamStale
  <2>2. QED
    BY <1>1, <2>1
<1>3. ASSUME NEW s \in Sockets,
             StreamOpen(s) \/ StreamBad(s) \/ StreamError(s) \/ StreamClose(s)
      PROVE  Nothing \/ One
  <2>1. HandleStatus /\ Reported
    BY <1>0, <1>3, ClientTyped DEF StreamOpen, StreamBad, StreamError, StreamClose
  <2>2. QED
    BY <1>1, <2>1
<1>4. ASSUME NEW s \in Sockets, StreamTick(s) PROVE One
  <2>1. ~closed
    BY <1>4 DEF StreamTick, OnTickMessage, StreamIInv, CleanupIsFinal
  <2>2. tickKnown' = TRUE /\ connectionStatus' = "open" /\ sent' = <<PriceEvent>>
    BY <1>4, <2>1 DEF StreamTick, Written
  <2>3. PriceEvent.type = "price" /\ PriceEvent.payload.price
    BY DEF PriceEvent, Event, Payload
  <2>4. QED
    BY <2>2, <2>3, PriceEventTyped
<1>5. ASSUME StreamStartThrows
      PROVE  \E e, f \in EventType :
               /\ sent' = <<e, f>> /\ tickKnown' = tickKnown
               /\ ~e.payload.price /\ ~f.payload.price /\ f.type = "error"
  <2> DEFINE e == HealthEvent(OpeningCall, FALSE)
  <2>1. ~closed
    BY <1>5 DEF StreamStartThrows, StartThrows, StreamIInv, NotStarted
  <2>2. e \in EventType /\ UnavailableEvent \in EventType
    <3>1. PICK st \in Statuses : OpeningCall = Call(st, FALSE)
      BY DEF OpeningCall, Statuses
    <3>2. OpeningCall \in CallType /\ OpeningCall.status \in Statuses
      BY <3>1, CallTyped DEF Call
    <3>3. QED
      BY <3>2, HealthEventTyped, PriceEventTyped
  <2>3. ~e.payload.price /\ ~UnavailableEvent.payload.price /\ UnavailableEvent.type = "error"
    BY DEF HealthEvent, UnavailableEvent, Event, Payload
  <2>4. sent' = <<e, UnavailableEvent>> /\ tickKnown' = tickKnown
    BY <1>5, <2>1 DEF StreamStartThrows, Written
  <2>5. QED
    BY <2>2, <2>3, <2>4
<1>6. ~PeerLeaves /\ ~RequestClosed
  BY DEF PeerLeaves, RequestClosed
<1>7. QED
  BY <1>2, <1>3, <1>4, <1>5, <1>6 DEF StreamNext

\* What a step of the gateway leaves as it was.
LEMMA GatewayKeeps ==
  ASSUME StreamTypeOK, StreamNext, ~once
  PROVE  ~once' /\ (tickKnown => tickKnown') /\ (peerGone => peerGone')
<1> USE DEF HandleStatus
<1>1. CASE StreamStart \/ StreamReconnect \/ StreamAges \/ StreamStale
  BY <1>1 DEF StreamStart, StreamReconnect, StreamAges, StreamStale
<1>2. CASE \E s \in Sockets : StreamOpen(s) \/ StreamBad(s) \/ StreamError(s) \/ StreamClose(s)
  BY <1>2 DEF StreamOpen, StreamBad, StreamError, StreamClose
<1>3. CASE StreamStartThrows \/ PeerLeaves \/ RequestClosed
  BY <1>3 DEF StreamStartThrows, PeerLeaves, RequestClosed
<1>4. CASE \E s \in Sockets : StreamTick(s)
  BY <1>4 DEF StreamTick
<1>5. QED
  BY <1>1, <1>2, <1>3, <1>4 DEF StreamNext

-----------------------------------------------------------------------------
\* A new request is as good as a first one.
LEMMA NewRequestIsInit == NewRequest => StreamInit'
BY DEF NewRequest, StreamInit, ClientInit

\* A new request is well-typed, satisfies the stream's invariant, and streams.
LEMMA NewRequestIsSound == NewRequest => StreamTypeOK' /\ StreamIInv' /\ ~once'
<1>1. StreamInit => StreamTypeOK /\ StreamIInv
  BY StreamTypesInit, StreamIInvInit
<1>2. NewRequest => ~once'
  BY DEF NewRequest
<1>3. QED
  BY <1>1, <1>2, NewRequestIsInit, PTL

\* An empty row of events.
LEMMA NoEvents ==
  /\ <<>> \in Seq(EventType) /\ Len(<<>>) = 0
  /\ \A k : AllKnown(<<>>, k)
  /\ ~SaysOpen(<<>>)
<1>1. <<>> \in Seq(EventType) /\ Len(<<>>) = 0
  BY EmptySeq
<1>2. QED
  BY <1>1 DEF AllKnown, SaysOpen

\* The types of the components' variables in a step that writes no event.
LEMMA CardTypesHelper ==
  ASSUME CardTypeOK, StreamTypeOK', link' \in {"open", "retrying", "closed"},
         Len(inbox') <= MaxInbox,
         card' \in [status : Statuses, price : BOOLEAN, stale : BOOLEAN],
         panel' \in [status : Statuses, price : {"page", "request", "before"}]
  PROVE  CardTypeOK'
BY DEF CardTypeOK

\* The gateway moves.
LEMMA GatewayStepIsSound ==
  ASSUME CardIInv, GatewayStep
  PROVE  CardIInv'
<1>1. StreamTypeOK /\ StreamTypeOK' /\ StreamIInv /\ StreamIInv'
  BY StreamTypesStep, StreamIInvStep DEF CardIInv, CardTypeOK, GatewayStep
<1>2. ~once' /\ (tickKnown => tickKnown') /\ (peerGone => peerGone') /\ tickKnown' \in BOOLEAN
  BY <1>1, GatewayKeeps DEF CardIInv, GatewayStep, StreamTypeOK
<1>3. CASE link # "open"
  <2>1. inbox = <<>> /\ inbox' = <<>> /\ link' = link /\ card' = card /\ panel' = panel
    BY <1>3 DEF CardIInv, GatewayStep
  <2>2. CardTypeOK'
    BY <1>1, <2>1, CardTypesHelper DEF CardIInv, CardTypeOK
  <2>3. AllKnown(inbox', tickKnown') /\ inbox' \in Seq(EventType)
    BY <2>1, NoEvents
  <2>4. ShownHealthy' => tickKnown'
    BY <1>2, <2>1 DEF CardIInv, ShownHealthy, Unhealthy
  <2>5. QED
    BY <1>1, <1>2, <1>3, <2>1, <2>2, <2>3, <2>4 DEF CardIInv
<1>4. CASE link = "open"
  <2>1. /\ inbox' = inbox \o sent' /\ link' = link /\ card' = card /\ panel' = panel
        /\ ~peerGone' /\ ~peerGone /\ ~once /\ StreamNext
        /\ sent' \in Seq(EventType) /\ inbox \in Seq(EventType)
        /\ Len(inbox') <= MaxInbox
    BY <1>1, <1>2, <1>4 DEF CardIInv, GatewayStep, StreamTypeOK
  <2>2. inbox' \in Seq(EventType)
    BY <2>1, EventsJoined
  <2>3. CardTypeOK'
    BY <1>1, <2>1, CardTypesHelper DEF CardIInv, CardTypeOK
  <2>4. ShownHealthy' => tickKnown'
    BY <1>2, <2>1 DEF CardIInv, ShownHealthy, Unhealthy
  <2>5. AllKnown(inbox, tickKnown')
    BY <1>2 DEF CardIInv, AllKnown
  <2> SUFFICES /\ AllKnown(inbox', tickKnown')
               /\ tickKnown' => panel.price = "request" \/ Priced(inbox')
               /\ WillShowOpen' => connectionStatus' = "open"
    BY <1>1, <1>2, <1>4, <2>1, <2>2, <2>3, <2>4 DEF CardIInv
  <2>6. CASE /\ sent' = <<>> /\ tickKnown' = tickKnown
             /\ connectionStatus = "open" => connectionStatus' = "open"
    <3>1. inbox' = inbox
      BY <2>1, <2>6, ConcatEmptySeq
    <3>2. WillShowOpen' => WillShowOpen
      BY <2>1, <3>1 DEF WillShowOpen
    <3>3. QED
      BY <1>4, <2>5, <2>6, <3>1, <3>2 DEF CardIInv
  <2>7. ASSUME NEW e \in EventType,
               sent' = <<e>>, e.payload.price => tickKnown',
               e.payload.status = "open" => connectionStatus' = "open",
               tickKnown' = tickKnown \/ (e.type # "error" /\ e.payload.price)
        PROVE  /\ AllKnown(inbox', tickKnown')
               /\ tickKnown' => panel.price = "request" \/ Priced(inbox')
               /\ WillShowOpen' => connectionStatus' = "open"
    <3>1. Len(<<e>>) = 1 /\ <<e>>[1] = e
      OBVIOUS
    <3>2. AllKnown(sent', tickKnown') /\ (SaysOpen(sent') => e.payload.status = "open")
      BY <2>7, <3>1 DEF AllKnown, SaysOpen
    <3>3. e.type # "error" /\ e.payload.price => Priced(sent')
      BY <2>7, <3>1 DEF Priced
    <3>4. inbox' # <<>> /\ (SaysOpen(inbox') => SaysOpen(sent'))
      <4>1. Len(sent') > 0
        BY <2>7, <3>1
      <4>2. inbox \o sent' # <<>> /\ (SaysOpen(inbox \o sent') => SaysOpen(sent'))
        BY <1>2, <2>1, <4>1, EventsJoined
      <4>3. QED
        BY <2>1, <4>2
    <3>5. AllKnown(inbox', tickKnown') /\ (Priced(inbox) \/ Priced(sent') => Priced(inbox'))
      BY <1>2, <2>1, <2>5, <3>2, EventsJoined
    <3>6. tickKnown' => panel.price = "request" \/ Priced(inbox')
      BY <1>4, <2>7, <3>3, <3>5 DEF CardIInv
    <3>7. WillShowOpen' => connectionStatus' = "open"
      BY <2>7, <3>2, <3>4 DEF WillShowOpen
    <3>8. QED
      BY <3>5, <3>6, <3>7
  <2>8. ASSUME NEW e \in EventType, NEW f \in EventType,
               sent' = <<e, f>>, tickKnown' = tickKnown,
               ~e.payload.price, ~f.payload.price, f.type = "error"
        PROVE  /\ AllKnown(inbox', tickKnown')
               /\ tickKnown' => panel.price = "request" \/ Priced(inbox')
               /\ WillShowOpen' => connectionStatus' = "open"
    <3>1. Len(<<e, f>>) = 2 /\ <<e, f>>[1] = e /\ <<e, f>>[2] = f
      OBVIOUS
    <3>2. AllKnown(sent', tickKnown') /\ ~SaysOpen(sent')
      <4>1. \A i \in 1 .. 2 : ~<<e, f>>[i].payload.price
        BY <2>8, <3>1
      <4>2. QED
        BY <2>8, <3>1, <4>1 DEF AllKnown, SaysOpen
    <3>3. inbox' # <<>> /\ (SaysOpen(inbox') => SaysOpen(sent'))
      <4>1. Len(sent') > 0
        BY <2>8, <3>1
      <4>2. inbox \o sent' # <<>> /\ (SaysOpen(inbox \o sent') => SaysOpen(sent'))
        BY <1>2, <2>1, <4>1, EventsJoined
      <4>3. QED
        BY <2>1, <4>2
    <3>4. AllKnown(inbox', tickKnown') /\ (Priced(inbox) => Priced(inbox'))
      BY <1>2, <2>1, <2>5, <3>2, EventsJoined
    <3>5. tickKnown' => panel.price = "request" \/ Priced(inbox')
      BY <1>4, <2>8, <3>4 DEF CardIInv
    <3>6. WillShowOpen' => connectionStatus' = "open"
      BY <3>2, <3>3 DEF WillShowOpen
    <3>7. QED
      BY <3>4, <3>5, <3>6
  <2>9. QED
    BY <1>1, <2>1, <2>6, <2>7, <2>8, WhatIsSent
<1>5. QED
  BY <1>3, <1>4

\* The browser dispatches an event.
LEMMA CardReceivesIsSound ==
  ASSUME CardIInv, CardReceives
  PROVE  CardIInv'
<1> DEFINE e == Head(inbox)
<1>1. /\ inbox \in Seq(EventType) /\ inbox # <<>> /\ tickKnown \in BOOLEAN
      /\ link = "open" /\ link' = link /\ inbox' = Tail(inbox)
      /\ card' = AfterMessage(e) /\ panel' = PanelAfterMessage(e)
      /\ UNCHANGED streamVars
  BY DEF CardIInv, CardTypeOK, StreamTypeOK, CardReceives
<1>2. /\ UNCHANGED <<once, closed, peerGone, ended, tickKnown, connectionStatus, sent>>
      /\ UNCHANGED clientVars
  BY <1>1 DEF streamVars, handlerVars
<1>3. StreamTypeOK' /\ StreamIInv' /\ ~once' /\ ~peerGone'
  <2>1. StreamTypeOK' /\ StreamIInv'
    BY <1>1, StreamTypesStep, StreamIInvStep DEF CardIInv, CardTypeOK
  <2>2. QED
    BY <1>1, <1>2, <2>1 DEF CardIInv
<1>4. e \in EventType /\ inbox' \in Seq(EventType)
  BY <1>1, FirstTaken
<1>5. /\ e.payload.status \in Statuses /\ e.payload.price \in BOOLEAN
      /\ e.payload.stale \in BOOLEAN
  BY <1>4 DEF EventType, PayloadType
<1>6. /\ card' \in [status : Statuses, price : BOOLEAN, stale : BOOLEAN]
      /\ card'.price = e.payload.price
      /\ card'.status = "open" => e.type # "error" /\ e.payload.status = "open"
  BY <1>1, <1>5 DEF AfterMessage, AfterOnError, Statuses
<1>7. /\ panel' \in [status : Statuses, price : {"page", "request", "before"}]
      /\ panel'.status = "open" => e.type # "error" /\ e.payload.status = "open"
      /\ panel.price = "request" => panel'.price = "request"
      /\ e.type # "error" /\ e.payload.price => panel'.price = "request"
  <2>1. panel \in [status : Statuses, price : {"page", "request", "before"}]
    BY DEF CardIInv, CardTypeOK
  <2>2. CASE e.type = "error"
    BY <1>1, <1>5, <2>1, <2>2 DEF PanelAfterMessage, AfterOnError, Statuses
  <2>3. CASE e.type # "error"
    BY <1>1, <1>5, <2>1, <2>3 DEF PanelAfterMessage
  <2>4. QED
    BY <2>2, <2>3
<1>8. CardTypeOK'
  <2>1. Len(inbox') < Len(inbox) /\ Len(inbox') \in Nat /\ Len(inbox) \in Nat
    BY <1>1, FirstTaken
  <2>2. Len(inbox) <= MaxInbox /\ link' \in {"open", "retrying", "closed"} /\ CardTypeOK
    BY <1>1 DEF CardIInv, CardTypeOK
  <2>3. Len(inbox') <= MaxInbox
    BY <2>1, <2>2, CardAssumption
  <2>4. QED
    BY <1>3, <1>6, <1>7, <2>2, <2>3, CardTypesHelper
<1>9. AllKnown(inbox', tickKnown') /\ (e.payload.price => tickKnown')
  <2>1. AllKnown(inbox, tickKnown)
    BY DEF CardIInv
  <2>2. AllKnown(Tail(inbox), tickKnown) /\ (e.payload.price => tickKnown)
    BY <1>1, <2>1, FirstTaken
  <2>3. QED
    BY <1>1, <1>2, <2>2
<1>10. ShownHealthy' => tickKnown'
  BY <1>6, <1>9 DEF ShownHealthy
<1>11. tickKnown' => panel'.price = "request" \/ Priced(inbox')
  <2>1. tickKnown => panel.price = "request" \/ Priced(inbox)
    BY <1>1 DEF CardIInv
  <2>2. Priced(inbox) => Priced(Tail(inbox)) \/ (e.type # "error" /\ e.payload.price)
    BY <1>1, FirstTaken
  <2>3. QED
    BY <1>1, <1>2, <1>7, <2>1, <2>2
<1>12. WillShowOpen' => connectionStatus' = "open"
  <2>1. SaysOpen(inbox) => connectionStatus = "open"
    BY <1>1 DEF CardIInv, WillShowOpen
  <2>2. /\ SaysOpen(Tail(inbox)) => SaysOpen(inbox)
        /\ Tail(inbox) = <<>> /\ e.type # "error" /\ e.payload.status = "open"
             => SaysOpen(inbox)
    BY <1>1, FirstTaken
  <2>3. WillShowOpen' => SaysOpen(inbox)
    BY <1>1, <1>6, <1>7, <2>2 DEF WillShowOpen
  <2>4. QED
    BY <1>2, <2>1, <2>3
<1>13. QED
  BY <1>1, <1>3, <1>4, <1>8, <1>9, <1>10, <1>11, <1>12 DEF CardIInv

\* The link is lost or comes back, the components leave the page or change
\* their symbol: nothing is in flight afterwards.
LEMMA LinkStepIsSound ==
  ASSUME CardIInv, LinkLost \/ LinkReconnects \/ Unmount \/ ChangeSymbol
  PROVE  CardIInv'
<1>1. /\ card \in [status : Statuses, price : BOOLEAN, stale : BOOLEAN]
      /\ panel \in [status : Statuses, price : {"page", "request", "before"}]
  BY DEF CardIInv, CardTypeOK
<1>2. inbox' = <<>>
  BY DEF CardIInv, LinkLost, LinkReconnects, Unmount, ChangeSymbol
<1>3. /\ StreamTypeOK' /\ StreamIInv' /\ ~once'
      /\ NewRequest \/ (peerGone' = peerGone /\ tickKnown' = tickKnown)
  <2>1. CASE NewRequest
    BY <2>1, NewRequestIsSound
  <2>2. CASE UNCHANGED streamVars
    <3>1. StreamTypeOK' /\ StreamIInv'
      BY <2>2, StreamTypesStep, StreamIInvStep DEF CardIInv, CardTypeOK
    <3>2. UNCHANGED <<once, peerGone, tickKnown>>
      BY <2>2 DEF streamVars, handlerVars
    <3>3. QED
      BY <3>1, <3>2 DEF CardIInv
  <2>3. QED
    BY <2>1, <2>2 DEF LinkLost, LinkReconnects, Unmount, ChangeSymbol
<1>4. inbox' \in Seq(EventType) /\ Len(inbox') <= MaxInbox /\ AllKnown(inbox', tickKnown')
  BY <1>2, NoEvents, CardAssumption
<1> SUFFICES
      /\ link' \in {"open", "retrying", "closed"}
      /\ card' \in [status : Statuses, price : BOOLEAN, stale : BOOLEAN]
      /\ panel' \in [status : Statuses, price : {"page", "request", "before"}]
      /\ peerGone' => link' # "open"
      /\ link' = "retrying" => card'.status = "failed" /\ panel'.status \in {"stale", "failed"}
      /\ ShownHealthy' => tickKnown'
      /\ link' = "open" => ~tickKnown' /\ card'.status # "open" /\ panel'.status # "open"
  <2>1. CardTypeOK'
    BY <1>3, <1>4, CardTypesHelper DEF CardIInv
  <2>2. link' = "open" => ~WillShowOpen'
    BY <1>2 DEF WillShowOpen
  <2>3. QED
    BY <1>2, <1>3, <1>4, <2>1, <2>2 DEF CardIInv
<1>5. CASE LinkLost
  BY <1>1, <1>5 DEF LinkLost, AfterLinkError, AfterOnError, Statuses, ShownHealthy, Unhealthy
<1>6. CASE LinkReconnects
  <2>1. ~peerGone' /\ ~tickKnown'
    BY <1>6 DEF LinkReconnects, NewRequest
  <2>2. card.status = "failed" /\ panel.status \in {"stale", "failed"}
    BY <1>6 DEF LinkReconnects, CardIInv
  <2>3. link' = "open" /\ card' = card /\ panel'.status = panel.status
    BY <1>1, <1>6 DEF LinkReconnects
  <2>4. panel' \in [status : Statuses, price : {"page", "request", "before"}]
    BY <1>1, <1>6 DEF LinkReconnects
  <2>5. QED
    BY <1>1, <2>1, <2>2, <2>3, <2>4 DEF ShownHealthy, Unhealthy
<1>7. CASE Unmount
  BY <1>1, <1>7 DEF Unmount, Statuses, ShownHealthy, Unhealthy
<1>8. CASE ChangeSymbol
  <2>1. ~peerGone' /\ ~tickKnown'
    BY <1>8 DEF ChangeSymbol, NewRequest
  <2>2. QED
    BY <1>8, <2>1 DEF ChangeSymbol, EmptyCard, EmptyPanel, Statuses, ShownHealthy
<1>9. QED
  BY <1>5, <1>6, <1>7, <1>8

-----------------------------------------------------------------------------
\* Theorem: the inductive invariant holds in every reachable state: what the
\* components show and what is in flight agree with what the gateway reported.
THEOREM CardInvariant == CardSpec => []CardIInv
<1>1. CardInit => CardIInv
  <2> SUFFICES ASSUME CardInit PROVE CardIInv
    OBVIOUS
  <2>1. StreamTypeOK /\ StreamIInv
    BY StreamTypesInit, StreamIInvInit DEF CardInit
  <2>2. ~once /\ ~peerGone /\ ~tickKnown
    BY DEF CardInit, StreamInit
  <2>3. inbox = <<>> /\ link = "open" /\ card = EmptyCard /\ panel = EmptyPanel
    BY DEF CardInit
  <2>4. inbox \in Seq(EventType) /\ Len(inbox) <= MaxInbox /\ AllKnown(inbox, tickKnown)
    BY <2>3, NoEvents, CardAssumption
  <2>5. /\ card \in [status : Statuses, price : BOOLEAN, stale : BOOLEAN]
        /\ panel \in [status : Statuses, price : {"page", "request", "before"}]
    BY <2>3 DEF EmptyCard, EmptyPanel, Statuses
  <2>6. CardTypeOK
    BY <2>1, <2>3, <2>4, <2>5 DEF CardTypeOK
  <2>7. ~ShownHealthy /\ ~WillShowOpen
    BY <2>3 DEF ShownHealthy, WillShowOpen, EmptyCard, EmptyPanel
  <2>8. QED
    BY <2>1, <2>2, <2>3, <2>4, <2>6, <2>7 DEF CardIInv
<1>2. CardIInv /\ [CardNext]_cardVars => CardIInv'
  <2> SUFFICES ASSUME CardIInv, [CardNext]_cardVars PROVE CardIInv'
    OBVIOUS
  <2>1. CASE GatewayStep
    BY <2>1, GatewayStepIsSound
  <2>2. CASE CardReceives
    BY <2>2, CardReceivesIsSound
  <2>3. CASE LinkLost \/ LinkReconnects \/ Unmount \/ ChangeSymbol
    BY <2>3, LinkStepIsSound
  <2>4. CASE UNCHANGED cardVars
    <3>1. StreamTypeOK' /\ StreamIInv'
      BY <2>4, StreamTypesStep, StreamIInvStep DEF CardIInv, CardTypeOK, cardVars
    <3>2. UNCHANGED <<once, peerGone, tickKnown, connectionStatus, link, inbox, card, panel>>
      BY <2>4 DEF cardVars, streamVars, handlerVars
    <3>3. QED
      BY <3>1, <3>2 DEF CardIInv, CardTypeOK, ShownHealthy, Unhealthy, WillShowOpen
  <2>5. QED
    BY <2>1, <2>2, <2>3, <2>4 DEF CardNext
<1>3. QED
  BY <1>1, <1>2, PTL DEF CardSpec

\* Theorem: the types of the components' variables, and the bound on the events
\* in flight.
THEOREM CardTypes == CardSpec => []CardTypeOK
<1>1. CardIInv => CardTypeOK
  BY DEF CardIInv
<1>2. QED
  BY <1>1, CardInvariant, PTL

\* Theorem: once every event is handled, a status "open" on the card or the
\* panel is backed by an open upstream socket of the gateway.
THEOREM CardOpenIsBacked == CardSpec => []OpenIsBacked
<1>1. CardIInv => OpenIsBacked
  BY DEF CardIInv, WillShowOpen, OpenIsBacked, StreamIInv, OpenReportIsTrue
<1>2. QED
  BY <1>1, CardInvariant, PTL

\* Theorem: a price drawn as healthy on the card came over the current request;
\* the panel shows the request's own price as soon as there was one.
THEOREM CardPriceIsCurrent == CardSpec => []HealthyPriceIsFromThisRequest
<1>1. CardIInv => HealthyPriceIsFromThisRequest
  <2> SUFFICES ASSUME CardIInv, link = "open", inbox = <<>>, tickKnown
               PROVE  panel.price = "request"
    BY DEF CardIInv, HealthyPriceIsFromThisRequest
  <2>1. Len(inbox) = 0
    BY NoEvents
  <2>2. ~Priced(inbox)
    BY <2>1 DEF Priced
  <2>3. QED
    BY <2>2 DEF CardIInv
<1>2. QED
  BY <1>1, CardInvariant, PTL

\* Theorem: while the link is lost the card is drawn as unhealthy and the panel
\* says so.
THEOREM CardShowsLostLink == CardSpec => []LostLinkIsShown
<1>1. CardIInv => LostLinkIsShown
  BY DEF CardIInv, LostLinkIsShown, Unhealthy
<1>2. QED
  BY <1>1, CardInvariant, PTL
=============================================================================
