--------------------------------- MODULE Replay ---------------------------------
(***************************************************************************)
(* Signal replay: what the fair value signal would have said of markets in *)
(* a window of the past, how those markets came out, and what the two sum  *)
(* up to.                                                                  *)
(*                                                                         *)
(* Time is in minutes.  A run has its window, the time `checkedAt', the    *)
(* minutes of its interval, its candles, the markets that are open now     *)
(* with today's odds, and the closed ones, each with its outcome if it is  *)
(* known and with the history of the price of YES.                         *)
(***************************************************************************)
EXTENDS FairValue

Day == 1440
WindowDuration ==
  [id \in {"1d", "3d", "1w", "1m"} |->
     CASE id = "1d" -> Day [] id = "3d" -> 3 * Day [] id = "1w" -> 7 * Day [] OTHER -> 30 * Day]

\* resolveReplayWindow: a window with a name has its own length, whatever start
\* it comes with, and ends now if it comes without an end; a custom one has to
\* begin before it ends.
ResolveWindow(window, now) ==
  LET last == IF "end" \in DOMAIN window THEN window.end ELSE now
  IN CASE window.id # "custom" -> [ok |-> TRUE, start |-> last - WindowDuration[window.id], end |-> last]
       [] OTHER -> [ok |-> window.start < window.end, start |-> window.start, end |-> window.end]

-----------------------------------------------------------------------------
Actionable(side) == side \in {"LONG_YES", "LONG_NO"}

\* A marker as the signal of a time, with the price of the underlying then.
SignalFrom(marker, time, expiry, price) ==
  [time |-> time, expiry |-> expiry, price |-> price, market |-> marker.market,
   eligible |-> marker.eligible, side |-> marker.side, modelYes |-> marker.modelYes,
   marketYes |-> marker.marketYes, confidence |-> marker.confidence, edge |-> marker.edge,
   rejected |-> marker.rejected]

\* Mutant of ReplaySignal: it is given the candles after the signal as well.
ReplaySignalWithHindsight(market, time, candles, options) ==
  LET price == FirstNumber(candles[Len(candles)].close, market.realtimePrice)
      expiry == FirstNumber(market.candidate.expiry, time)
  IN SignalFrom(EvaluateFairValueMarket(market, price, candles, Max({1, expiry - time}),
                                        [options EXCEPT !.now = time]), time, expiry, price)

\* evaluateMarketToReplaySignal: with the candles that had begun by then.
ReplaySignal(market, time, candles, options) ==
  LET past == ByTime(UpTo(candles, time))
      price == FirstNumber(PriceAtOrBefore(past, time), market.realtimePrice)
      expiry == FirstNumber(market.candidate.expiry, time)
  IN SignalFrom(EvaluateFairValueMarket(market, price, past, Max({1, expiry - time}),
                                        [options EXCEPT !.now = time]), time, expiry, price)

\* outcomeFromResolved.
Judged(signal, outcome) ==
  IF \/ signal.side = "LONG_YES" /\ outcome = "YES"
     \/ signal.side = "LONG_NO" /\ outcome = "NO"
  THEN "WIN" ELSE "LOSS"

\* labelReplayOutcome: as the market was resolved, or else as the price at its
\* expiry was; a tie is not decided.
LabelReplayOutcome(signal, candidate, resolved, candles, now) ==
  LET comparator == ExtractComparator(candidate)
      threshold == ExtractThresholdPrice(candidate)
      price == PriceAtOrBefore(candles, signal.expiry)
      above == IF comparator = "ABOVE" THEN "YES" ELSE "NO"
      below == IF comparator = "ABOVE" THEN "NO" ELSE "YES"
  IN CASE ~Actionable(signal.side) -> signal.side
       [] Actionable(signal.side) /\ now < signal.expiry -> "PENDING"
       [] OTHER -> IF resolved # "none" THEN Judged(signal, resolved)
                   ELSE IF \/ comparator \notin {"ABOVE", "BELOW"}
                           \/ Null \in {threshold, price} \/ price = threshold
                   THEN "UNRESOLVED"
                   ELSE Judged(signal, IF price > threshold THEN above ELSE below)

\* buildReplayTradeLikeResult: one share bought at the market's price pays one
\* if it wins.
TradeLikeResult(signal, status, noPrice) ==
  LET counted == status \in {"WIN", "LOSS"}
      entry == IF signal.side = "LONG_YES" THEN signal.marketYes
               ELSE IF signal.side = "LONG_NO" THEN FirstNumber(noPrice, One - signal.marketYes) ELSE Null
  IN [signal |-> signal, status |-> status, counted |-> counted, entry |-> entry,
      pnl |-> IF counted /\ entry # Null THEN (IF status = "WIN" THEN One ELSE 0) - entry ELSE Null]

-----------------------------------------------------------------------------
\* What became of a signal, for all that is known of the market's outcome.
Result(signal, resolved, run) ==
  TradeLikeResult(signal, LabelReplayOutcome(signal, signal.market.candidate, resolved, run.candles,
                                             run.checkedAt), signal.market.odds.no)

\* buildReplayResultFromBoundMarket: an open market, at the window's end.
ActiveResult(market, run) ==
  Result(ReplaySignal(market, run.window.end, run.candles, run.options), "none", run)

\* The time at which a closed market is judged: an interval, and no less than
\* five minutes, before it expires, but within the window.
ClosedSignalTime(candidate, run) ==
  LET before == FirstNumber(candidate.expiry, run.window.end) - Max({5, run.minutes}) IN
  Min({Max({run.window.start, before}), run.window.end})

\* priceAtOrBeforeHistory.
HistoryPrice(history, time) ==
  LET past == UpTo(history, time) IN IF past = <<>> THEN Null ELSE past[Latest(past)].price

\* oddsFromHistoricalPrice: the history has neither spread nor liquidity.
HistoricalOdds(yes, failed) ==
  [yes |-> yes, no |-> IF yes = Null THEN Null ELSE One - yes, spread |-> Null,
   liquidity |-> "unknown",
   failClosedReasons |-> (IF failed THEN {"history"} ELSE {})
                           \cup (IF yes = Null THEN {"no price"} ELSE {})]

\* buildClosedMarketReplayResult.
ClosedResult(closed, run) ==
  LET time == ClosedSignalTime(closed.candidate, run)
      history == IF closed.failed THEN <<>> ELSE closed.history
      odds == HistoricalOdds(HistoryPrice(history, time), history = <<>>)
      price == PriceAtOrBefore(run.candles, time)
      market == BindMarket(closed.candidate, odds, [BTC |-> price, ETH |-> price])
  IN Result(ReplaySignal(market, time, run.candles, run.options), closed.resolved, run)

-----------------------------------------------------------------------------
Ratio(n, of) == IF of = 0 THEN Null ELSE (n * One) \div of

\* The profits and losses that are known.
Pnls(results) ==
  LET known == Kept(results, {i \in DOMAIN results : results[i].pnl # Null})
  IN [i \in DOMAIN known |-> known[i].pnl]

\* computeReplayMetrics.
ReplayMetrics(results) ==
  LET count(status) == Cardinality({i \in DOMAIN results : results[i].status = status})
      pnls == Pnls(results)
      actionable == Cardinality({i \in DOMAIN results : Actionable(results[i].signal.side)})
      completed == Cardinality({i \in DOMAIN results : results[i].counted})
      OfPnls(n) == IF pnls = <<>> THEN Null ELSE n
  IN [evaluated |-> Len(results), sampleCount |-> completed, winCount |-> count("WIN"),
      lossCount |-> count("LOSS"), pendingCount |-> count("PENDING"),
      unresolvedCount |-> count("UNRESOLVED"), rejectedCount |-> count("REJECTED"),
      noSignalCount |-> count("NO_SIGNAL"), actionableCount |-> actionable,
      winRate |-> Ratio(count("WIN"), count("WIN") + count("LOSS")),
      coverageRate |-> Ratio(actionable, Len(results)),
      pendingRate |-> Ratio(count("PENDING"), Len(results)),
      cumulativePnl |-> OfPnls(Summed(pnls)), maxDrawdown |-> OfPnls(MaxDrawdown(pnls))]

WithMetrics(results) == [results |-> results, metrics |-> ReplayMetrics(results)]

\* runSignalReplay for one asset: the results of its open markets, which may not
\* be had, and of the closed ones, and those of them within the window.
ActiveResults(run) ==
  IF run.activeFailed THEN <<>> ELSE [i \in DOMAIN run.active |-> ActiveResult(run.active[i], run)]
ClosedResults(run) == [i \in DOMAIN run.closed |-> ClosedResult(run.closed[i], run)]
InWindow(results, run) == {i \in DOMAIN results : results[i].signal.time >= run.window.start}

RunSignalReplay(run) ==
  LET all == ActiveResults(run) \o ClosedResults(run) IN WithMetrics(Kept(all, InWindow(all, run)))

-----------------------------------------------------------------------------
\* The mock replay, whose results come from a file: parameters take out what
\* they would not have let through.
MockSpreads == <<400, 700, 1100, 500, 900, 1300, 600, 1200, 800, 1000>>

MockEdgeAdjustment(lookback, interval, index) ==
  LET byInterval == IF interval = "15m" THEN -50 ELSE IF interval = "1h" THEN -200 ELSE 0 IN
  IF lookback <= 20 THEN (IF index < 3 THEN 200 ELSE -250) + byInterval
  ELSE IF lookback >= 100 THEN (IF index < 3 THEN -120 ELSE 120) + byInterval
  ELSE byInterval

NonActionable(result, side) ==
  [result EXCEPT !.signal.side = side, !.signal.edge = Null, !.status = side, !.counted = FALSE,
                 !.entry = Null, !.pnl = Null]

\* applyMockFairValueParameters; `index' counts results from zero.
ApplyMockParameters(result, parameters, interval, index) ==
  LET adjusted == result.signal.edge - parameters.cost
                    + MockEdgeAdjustment(parameters.lookback, interval, index)
  IN CASE MockSpreads[(index % 10) + 1] > parameters.maxSpread -> NonActionable(result, "REJECTED")
       [] OTHER ->
            IF ~Actionable(result.signal.side) THEN result
            ELSE IF result.signal.confidence < parameters.minConfidence \/ adjusted < parameters.minEdge
            THEN NonActionable(result, "NO_SIGNAL")
            ELSE [result EXCEPT !.signal.edge = adjusted,
                                !.pnl = IF @ = Null THEN Null ELSE @ - parameters.cost]

\* runMockSignalReplay.
MockReplay(fixture, window, parameters, interval) ==
  LET inWindow == Kept(fixture, {i \in DOMAIN fixture : /\ fixture[i].signal.time >= window.start
                                                        /\ fixture[i].signal.time <= window.end})
  IN WithMetrics([i \in DOMAIN inWindow |->
                    ApplyMockParameters(inWindow[i], parameters, interval, i - 1)])

-----------------------------------------------------------------------------
\* A signal of the past does not depend on later candles: without those that
\* began after it, it is the same signal.  This says nothing of the close of the
\* candle that was forming then, nor of the odds of open markets.
SignalsIgnoreLaterCandles(run, results) ==
  LET Without(time) == [run EXCEPT !.candles = UpTo(run.candles, time)]
  IN \A i \in DOMAIN results :
       LET blind == RunSignalReplay(Without(results[i].signal.time)).results IN
       \E b \in {blind} : i \in DOMAIN b /\ b[i].signal = results[i].signal

\* A rate of wins is made of decided bets only: every result has one status;
\* what counts was bought before its expiry, expired by now, and cost what the
\* market asked; a bet on YES wins exactly when YES came true, as the market was
\* resolved or else as the price stood to the threshold; no rate without bets;
\* and the sums are those of the bets, the drawdown no more than all losses.
ReplayAddsUp(run, r) ==
  LET m == r.metrics
      counted == {i \in DOMAIN r.results : r.results[i].counted}
  IN /\ m.evaluated = m.winCount + m.lossCount + m.pendingCount + m.unresolvedCount
                    + m.rejectedCount + m.noSignalCount
     /\ m.sampleCount = Cardinality(counted) /\ m.sampleCount = m.winCount + m.lossCount
     /\ (m.winRate = Null) = (m.sampleCount = 0)
     /\ \A i \in counted :
          LET b == r.results[i]  c == b.signal.market.candidate
              close == PriceAtOrBefore(run.candles, b.signal.expiry)
              rose == close > ExtractThresholdPrice(c)
              yes == (b.status = "WIN") = (b.signal.side = "LONG_YES")
          IN /\ b.signal.time < b.signal.expiry /\ b.signal.expiry <= run.checkedAt
             /\ close # Null /\ yes = (rose = (ExtractComparator(c) = "ABOVE"))
     /\ (m.cumulativePnl = Null) = (counted = {})
     /\ counted # {} =>
          /\ m.cumulativePnl = Summed([i \in DOMAIN r.results |->
               LET b == r.results[i] IN
               IF i \in counted THEN (IF b.status = "WIN" THEN One ELSE 0) - b.entry ELSE 0])
          /\ m.maxDrawdown >= -m.cumulativePnl
          /\ m.maxDrawdown <= Summed([i \in DOMAIN r.results |->
               LET b == r.results[i] IN IF b.status = "LOSS" THEN b.entry ELSE 0])

\* A window that ends now has no decided bet: open markets are open still, and
\* closed ones are turned away for want of a spread.  (What the decision record
\* of the replay says: no win rate is made up.)
NoRateIsMadeUp(run, r) == run.window.end = run.checkedAt => r.metrics.winRate = Null

ReplayIsHonest(run, r) ==
  SignalsIgnoreLaterCandles(run, r.results) /\ ReplayAddsUp(run, r) /\ NoRateIsMadeUp(run, r)

\* What docs/api/research-signals.md:286 says: prices of Polymarket from after a
\* signal have no influence on it.  Those of open markets are of the time
\* `checkedAt': if the window ended before, other odds change no signal.
SignalsIgnoreLaterOdds(run, others) ==
  run.window.end < run.checkedAt =>
    \A odds \in others :
      LET results == RunSignalReplay(run).results
          otherwise == RunSignalReplay([run EXCEPT !.active =
                         [i \in DOMAIN run.active |-> [run.active[i] EXCEPT !.odds = odds]]]).results
      IN \A i \in DOMAIN results : otherwise[i].signal.side = results[i].signal.side

\* Parameters only take bets out, and stricter ones take out more: what they
\* leave keeps its outcome.
ParametersOnlyFilter(fixture, window, parameters, stricter, interval) ==
  LET all == MockReplay(fixture, window, [parameters EXCEPT !.maxSpread = One], interval).results
      some == MockReplay(fixture, window, parameters, interval).results
      few == MockReplay(fixture, window, stricter, interval).results
  IN /\ Len(some) = Len(few) /\ Len(some) = Len(all)
     /\ \A i \in DOMAIN some :
          /\ few[i].counted => some[i].counted
          /\ some[i].counted => all[i].counted /\ some[i].status = all[i].status
          /\ ~some[i].counted => some[i].pnl = Null
=============================================================================
