----------------------------- MODULE RealtimeCard -----------------------------
(***************************************************************************)
(* RealTimePriceCard and ShortWindowRuntimePanel: a browser's EventSource  *)
(* on /market-data/realtime, the events on their way to it, and what the   *)
(* two components make of them.  Each has an EventSource of its own; here  *)
(* they get the same events, and neither has an effect on anything else.   *)
(*                                                                         *)
(* Composed with RealtimeStream, the request it is currently subscribed    *)
(* to.  When the EventSource reconnects, or the card moves to another      *)
(* symbol, a new request takes its place; the abandoned one winds down as  *)
(* RealtimeStream shows, and nothing of it can reach the card any more.    *)
(***************************************************************************)
EXTENDS RealtimeStream

CONSTANT MaxInbox  \* bound: events on their way to the browser

ASSUME CardAssumption == MaxInbox \in Nat

VARIABLES link,    \* EventSource: "open", "retrying" after a loss, "closed"
          inbox,   \* events written and not yet handled by the card
          card,    \* the card's status and payload
          panel    \* the panel's status, and where its price is from

cardVars == <<streamVars, link, inbox, card, panel>>

-----------------------------------------------------------------------------
EmptyCard == [status |-> "connecting", price |-> FALSE, stale |-> FALSE]

\* The panel begins with the price of the page it is on.
EmptyPanel == [status |-> "connecting", price |-> "page"]

\* The card's `unhealthy': it is drawn in warning colours.
Unhealthy == card.status \in {"stale", "failed", "closed"} \/ card.stale
ShownHealthy == card.price /\ ~Unhealthy

\* eventSource.onerror
AfterOnError(status) == IF status = "open" THEN "stale" ELSE "failed"

\* Mutant of AfterMessage: an event without a price keeps the previous one.
AfterMessageKeepsPrice(e) ==
  [status |-> e.payload.status, stale |-> e.payload.stale,
   price  |-> e.payload.price \/ card.price]

\* handleMessage, and for an "error" event onerror after it.
AfterMessage(e) ==
  [status |-> IF e.type = "error" THEN AfterOnError(e.payload.status)
                                  ELSE e.payload.status,
   stale  |-> e.payload.stale,
   price  |-> e.payload.price]

\* Mutant of AfterLinkError: "error" has no handleMessage listener, and the
\* only reaction left is to a link lost while open.
AfterLinkErrorIgnored ==
  [card EXCEPT !.status = IF @ = "open" THEN "stale" ELSE @]

\* A connection error: handleMessage fails to parse the bare event and says
\* "stale", then onerror runs.
AfterLinkError == [card EXCEPT !.status = AfterOnError("stale")]

\* The panel keeps its price when an event has none.  It has no listener for
\* an "error" event but onerror, which asks for its status of before.
PanelAfterMessage(e) ==
  IF e.type = "error" THEN [panel EXCEPT !.status = AfterOnError(@)]
  ELSE [status |-> e.payload.status,
        price  |-> IF e.payload.price THEN "request" ELSE panel.price]

\* A new request, with its own handler and client.
NewRequest ==
  /\ started' = FALSE /\ closedByUser' = FALSE
  /\ reconnectCount' = 0
  /\ staleTimer' = FALSE /\ reconnectTimer' = FALSE
  /\ lastTick' = "never" /\ socket' = NoSocket
  /\ ws' = [s \in Sockets |-> "none"] /\ calls' = <<>>
  /\ once' = FALSE /\ closed' = FALSE /\ peerGone' = FALSE /\ ended' = FALSE
  /\ tickKnown' = FALSE /\ connectionStatus' = "connecting" /\ sent' = <<>>

CardInit ==
  /\ StreamInit /\ ~once
  /\ link = "open" /\ inbox = <<>> /\ card = EmptyCard /\ panel = EmptyPanel

-----------------------------------------------------------------------------
\* The gateway's side moves; what it writes is on its way if the link is up.
\* It notices a lost link only after the browser's side lost it.
GatewayStep ==
  /\ StreamNext
  /\ peerGone' => link # "open"
  /\ inbox' = IF link = "open" THEN inbox \o sent' ELSE inbox
  /\ Len(inbox') <= MaxInbox
  /\ UNCHANGED <<link, card, panel>>

\* The browser dispatches the next event.
CardReceives ==
  /\ link = "open" /\ inbox # <<>>
  /\ card' = AfterMessage(Head(inbox)) /\ panel' = PanelAfterMessage(Head(inbox))
  /\ inbox' = Tail(inbox)
  /\ UNCHANGED <<streamVars, link>>

\* The connection breaks or the response ends: undelivered events are lost.
LinkLost ==
  /\ link = "open" /\ started
  /\ link' = "retrying" /\ inbox' = <<>>
  /\ card' = AfterLinkError /\ panel' = [panel EXCEPT !.status = AfterOnError(@)]
  /\ UNCHANGED streamVars

\* The EventSource reconnects by itself; neither component has a handler for
\* that, and the panel's price becomes one of an earlier request.
LinkReconnects ==
  /\ link = "retrying"
  /\ link' = "open"
  /\ NewRequest
  /\ panel' = [panel EXCEPT !.price = IF @ = "request" THEN "before" ELSE @]
  /\ UNCHANGED <<inbox, card>>

\* The effect's cleanup when the component leaves the page.
Unmount ==
  /\ link # "closed"
  /\ link' = "closed" /\ inbox' = <<>>
  /\ card' = [card EXCEPT !.status = "closed"]
  /\ panel' = [panel EXCEPT !.status = "closed"]
  /\ UNCHANGED streamVars

\* The effect runs again for another symbol: cleanup, then a fresh start.
ChangeSymbol ==
  /\ link # "closed" /\ started
  /\ link' = "open" /\ inbox' = <<>>
  /\ card' = EmptyCard /\ panel' = EmptyPanel
  /\ NewRequest

CardNext ==
  \/ GatewayStep \/ CardReceives \/ LinkLost \/ LinkReconnects
  \/ Unmount \/ ChangeSymbol

\* The browser keeps dispatching events that have arrived.
CardSpec == CardInit /\ [][CardNext]_cardVars
FairCardSpec == CardSpec /\ WF_cardVars(CardReceives)

-----------------------------------------------------------------------------
\* Types: the components' own variables; the inbox respects its bound.
CardTypeOK ==
  /\ StreamTypeOK
  /\ link \in {"open", "retrying", "closed"}
  /\ Len(inbox) <= MaxInbox
  /\ card \in [status : Statuses, price : BOOLEAN, stale : BOOLEAN]
  /\ panel \in [status : Statuses, price : {"page", "request", "before"}]

\* Safety: once every event is handled, a status "open" on the card or the
\* panel means that the gateway's upstream socket is open.
OpenIsBacked ==
  link = "open" /\ inbox = <<>> /\ "open" \in {card.status, panel.status} =>
    socket # NoSocket /\ ws[socket] = "open"

\* Safety: a price drawn as healthy on the card came over the current request,
\* never from the one before a reconnect or for the symbol shown before.  The
\* panel can show such a price, but not once the request had one of its own.
HealthyPriceIsFromThisRequest ==
  /\ ShownHealthy => tickKnown
  /\ link = "open" /\ inbox = <<>> /\ tickKnown => panel.price = "request"

\* Safety: while the link is lost the card is drawn as unhealthy, and the panel
\* says "stale" or "failed".
LostLinkIsShown ==
  link = "retrying" => Unhealthy /\ panel.status \in {"stale", "failed"}

\* Liveness: if the upstream feed has failed for good, the card and the panel
\* end up unhealthy for good, although stale checks keep writing over "failed"
\* and the panel does not read the event that says so.
FailureIsShown ==
  <>[](link = "open" /\ Phase = "failed")
    => <>[](Unhealthy /\ panel.status \in {"stale", "failed"})

\* docs/runbooks/local-dev.md:166: "If the WebSocket becomes stale or fails,
\* the SSE stream sends `stale' or `error' events and the UI must not present
\* the last price as healthy live data."  So a price older than staleAfterMs
\* that is drawn as unhealthy turns healthy only when a new price arrives.
HealthNeedsAPrice ==
  [][card.price /\ Unhealthy /\ lastTick = "old" /\ ShownHealthy'
       => Head(inbox).type = "price"]_cardVars
=============================================================================
