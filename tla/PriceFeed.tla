------------------------------ MODULE PriceFeed ------------------------------
(***************************************************************************)
(* What one realtime price subscription promises, without sockets, timers  *)
(* or callbacks.  Prices come only while the feed is live.  A lost feed is *)
(* retried at most MaxRetries times between two prices, and a feed that    *)
(* failed or ended never produces another price.                           *)
(***************************************************************************)
EXTENDS Naturals

CONSTANT MaxRetries

VARIABLES phase,    \* where the subscription stands
          retries,  \* attempts begun since the last price
          priced    \* the last step delivered a price

feedVars == <<phase, retries, priced>>

Phases == {"idle", "connecting", "live", "broken", "waiting", "failed", "ended"}

FeedInit == phase = "idle" /\ retries = 0 /\ priced = FALSE

Move(from, to) == phase \in from /\ phase' = to /\ priced' = FALSE

Subscribe == Move({"idle"}, "connecting") /\ UNCHANGED retries
Connected == Move({"connecting"}, "live") /\ UNCHANGED retries
Break     == Move({"connecting", "live"}, "broken") /\ UNCHANGED retries
Reconnect == Move({"waiting"}, "connecting") /\ UNCHANGED retries
GiveUp    == Move({"live", "broken"}, "failed") /\ retries = MaxRetries /\ UNCHANGED retries

Retry ==
  /\ Move({"live", "broken"}, "waiting")
  /\ retries < MaxRetries
  /\ retries' = retries + 1

\* A price, after which the subscriber may be done.
Price ==
  /\ phase = "live" /\ phase' \in {"live", "ended"}
  /\ retries' = 0
  /\ priced' = TRUE

\* The subscriber leaves, or the feed cannot even start.
End == phase # "ended" /\ phase' = "ended" /\ priced' = FALSE /\ UNCHANGED retries

\* Anything that happens inside a phase.
Internal == priced' = FALSE /\ UNCHANGED <<phase, retries>>

FeedNext ==
  \/ Subscribe \/ Connected \/ Break \/ Reconnect \/ Retry \/ GiveUp
  \/ Price \/ End \/ Internal

FeedSpec == FeedInit /\ [][FeedNext]_feedVars
=============================================================================
