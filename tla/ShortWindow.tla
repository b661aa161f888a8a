------------------------------ MODULE ShortWindow ------------------------------
(***************************************************************************)
(* The short-window terminal: the window of five, ten or fifteen minutes   *)
(* that is running now, the direction it may take, and a replay of past    *)
(* windows over one-minute candles.                                        *)
(*                                                                         *)
(* Time is in seconds.  A candle has the time `open` and the prices        *)
(* `first` and `last`; ticks have a time and a price; both come in order   *)
(* of time.  Prices are whole; distances are whole basis points, spreads   *)
(* tenths of one, scores and noise hundredths, confidence is out of 10000. *)
(***************************************************************************)
EXTENDS FairValue

CloseTime(candle) == candle.open + 60

-----------------------------------------------------------------------------
(* The rules a window is settled by.                                         *)
\* buildShortWindowRuleTemplate: no venue's own rule is known.
RuleTemplate(venue) ==
  CASE venue = "mock" ->
         [venue |-> venue, type |-> "END_PRICE", tie |-> "UP", verified |-> TRUE, confidence |-> "high"]
    [] venue = "proxy-generic" ->
         [venue |-> venue, type |-> "END_PRICE", tie |-> "UNKNOWN", verified |-> FALSE,
          confidence |-> "low"]
    [] OTHER ->
         [venue |-> venue, type |-> "UNKNOWN", tie |-> "UNKNOWN", verified |-> FALSE,
          confidence |-> "unknown"]

\* buildCfRtiAverageRuleTemplate.
AverageTemplate(startSeconds, endSeconds) ==
  [venue |-> "proxy-generic", type |-> "END_AVERAGE", tie |-> "UNKNOWN", verified |-> FALSE,
   confidence |-> "medium", startSeconds |-> startSeconds, endSeconds |-> endSeconds]

Average(prices) ==
  IF prices = <<>> THEN Null ELSE Summed(prices) \div Len(prices)

\* averageReferencePrice: the closes of the candles that touch [start, end).
CandleAverage(candles, start, end) ==
  LET touching == Kept(candles, {i \in DOMAIN candles : candles[i].open < end /\ CloseTime(candles[i]) > start})
  IN Average([i \in DOMAIN touching |-> touching[i].last])

\* averageReference: the ticks from start to end, or else the candles.
AverageReference(ticks, candles, start, end) ==
  LET within == Kept(ticks, {i \in DOMAIN ticks : start <= ticks[i].time /\ ticks[i].time <= end})
  IN IF within = <<>> THEN CandleAverage(candles, start, end)
     ELSE Average([i \in DOMAIN within |-> within[i].price])

-----------------------------------------------------------------------------
(* The window that is running.                                               *)
\* resolveStartReferencePrice: the first tick of the window so far, or else the
\* open of its first candle, or else of the one it began in.
StartReference(rule, ticks, candles, start, now) ==
  LET within == Kept(ticks, {i \in DOMAIN ticks : start <= ticks[i].time /\ ticks[i].time <= now})
      begun == Kept(candles, {i \in DOMAIN candles : start <= candles[i].open /\ candles[i].open <= now})
      covering == Kept(candles, {i \in DOMAIN candles : /\ candles[i].open <= start
                                                       /\ CloseTime(candles[i]) > start})
  IN CASE rule.type = "UNKNOWN"     -> Null
       [] rule.type = "END_AVERAGE" ->
            AverageReference(ticks, candles, start, Min({start + rule.startSeconds, now}))
       [] OTHER -> IF within # <<>> THEN within[1].price
                   ELSE IF begun # <<>> THEN begun[1].first
                   ELSE IF covering # <<>> THEN covering[Len(covering)].first ELSE Null

\* resolveCurrentPrice: the last tick, or else the last candle's close.
CurrentPrice(ticks, candles, now) ==
  LET past == UpTo(ticks, now)
      begun == Kept(candles, {i \in DOMAIN candles : candles[i].open <= now})
  IN IF past # <<>> THEN past[Len(past)].price
     ELSE IF begun # <<>> THEN begun[Len(begun)].last ELSE Null

\* eventStatus.
Phase(start, end, now, reference) ==
  CASE now >= end -> "closed"
    [] now < end /\ (now < start + 30 \/ reference = Null) -> "forming"
    [] OTHER -> IF end - now <= 20 THEN "no_entry_zone"
                ELSE IF end - now <= 120 THEN "decision_zone" ELSE "open"

Bps(price, base) ==
  IF price >= base THEN ((price - base) * 10000) \div base
  ELSE -(((base - price) * 10000) \div base)

EventOf(rule, start, end, now, reference, current) ==
  [rule |-> rule, start |-> start, end |-> end, reference |-> reference, current |-> current,
   phase |-> Phase(start, end, now, reference),
   distance |-> IF Null \in {reference, current} THEN Null ELSE Bps(current, reference)]

\* buildCurrentShortWindowEvent.
CurrentEvent(rule, interval, now, ticks, candles) ==
  LET start == (now \div interval) * interval
  IN EventOf(rule, start, start + interval, now, StartReference(rule, ticks, candles, start, now),
             CurrentPrice(ticks, candles, now))

-----------------------------------------------------------------------------
(* Its direction.                                                            *)
SquareRoot(n) == CHOOSE r \in 0 .. n : r * r <= n /\ (r + 1) * (r + 1) > n

VolatilityOf(returns) ==
  LET mean == Summed(returns) \div Len(returns)
      squares == [i \in DOMAIN returns |-> (returns[i] - mean) * (returns[i] - mean)]
  IN SquareRoot(Summed(squares) \div Len(returns))

\* realizedVolatilityBps, of the last nine candles.
Volatility(candles) ==
  LET last == SubSeq(candles, Max({1, Len(candles) - 8}), Len(candles))
  IN IF Len(last) < 3 THEN Null
     ELSE VolatilityOf([i \in 1 .. Len(last) - 1 |-> Bps(last[i + 1].last, last[i].last)])

\* How old the market is, its move over three candles, its volatility, and what
\* is taken for noise.
FeaturesOf(event, state, volatility) ==
  LET n == Len(state.candles)
      latest == state.candles[n]
      time == IF state.tick # Null THEN state.tick ELSE IF n > 0 THEN latest.open ELSE Null
      noise == 55 * FirstNumber(volatility, 3) + 20 * FirstNumber(state.spread, 10) + 150
  IN [stale |-> time = Null \/ state.now - time > state.staleAfter,
      momentum |-> IF n > 0 THEN Bps(latest.last, state.candles[Max({1, n - 3})].last)
                   ELSE FirstNumber(event.distance, 0),
      body |-> IF n > 0 THEN Bps(latest.last, latest.first) ELSE 0,
      volatility |-> FirstNumber(volatility, 0), spread |-> FirstNumber(state.spread, 0),
      noise |-> Max({200, Min({3500, noise})})]

\* buildFeatures.
MarketFeatures(event, state) == FeaturesOf(event, state, Volatility(state.candles))

Sign(n) == CASE n > 0 -> 1 [] n < 0 -> -1 [] OTHER -> 0

\* directionalScore.
DirectionalScore(event, f) ==
  LET distance == FirstNumber(event.distance, 0)
      way == Sign(IF distance # 0 THEN distance ELSE f.momentum)
  IN 52 * distance + 36 * f.momentum + 12 * f.body
       - way * (15 * f.spread + 8 * Max({0, f.volatility - 35}))

\* confidenceCapForRule.
ConfidenceCap == [high |-> 8800, medium |-> 7200, low |-> 5800, unknown |-> 0]

SignalRejections(event, f) ==
  {reason \in {"rule", "reference", "price", "stale", "spread"} :
     CASE reason = "rule"      -> event.rule.confidence = "unknown" \/ event.rule.type = "UNKNOWN"
       [] reason = "reference" -> event.reference = Null
       [] reason = "price"     -> event.current = Null
       [] reason = "stale"     -> f.stale
       [] reason = "spread"    -> f.spread > 80}

\* What the features and their score make of an event.
SignalOf(event, f, score, minConfidence) ==
  LET size == Max({score, -score})
      confidence == Min({ConfidenceCap[event.rule.confidence],
                         (size * 10000) \div Max({100, 3 * f.noise})})
      Says(side, c, s) == [side |-> side, confidence |-> c, score |-> s]
  IN IF SignalRejections(event, f) # {} THEN Says("REJECTED", 0, 0)
     ELSE CASE event.phase = "forming"       -> Says("WAIT", 1200, 0)
            [] event.phase = "closed"        -> Says("WAIT", 1000, 0)
            [] event.phase = "no_entry_zone" -> Says("WAIT", 1600, 0)
            [] OTHER -> IF f.volatility > 90 THEN Says("WAIT", 2000, 0)
                        ELSE IF size < f.noise THEN Says("WAIT", Min({confidence, 2800}), score)
                        ELSE IF confidence < minConfidence THEN Says("WAIT", confidence, score)
                        ELSE Says(IF score > 0 THEN "LONG_UP" ELSE "LONG_DOWN", confidence, score)

\* generateShortWindowSignal, from buildFeatures.
GenerateSignal(event, state) ==
  LET Says(f) == SignalOf(event, f, DirectionalScore(event, f), state.minConfidence)
  IN Says(MarketFeatures(event, state))

WithSignal(event, state) == [event |-> event, signal |-> GenerateSignal(event, state)]

\* GET /short-window/current: the ticker's price is the only tick, at the
\* ticker's time, or, when it has none, at the time the request was taken up.
CurrentResponse(rule, interval, now, market) ==
  LET tick == IF market.price = Null THEN Null ELSE FirstNumber(market.tickerTime, now)
      ticks == IF tick = Null THEN <<>> ELSE <<[time |-> tick, price |-> market.price]>>
      state == [candles |-> market.candles, tick |-> tick, spread |-> market.spread, now |-> now,
                staleAfter |-> 120, minConfidence |-> 3800]
  IN WithSignal(CurrentEvent(rule, interval, now, ticks, market.candles), state)

-----------------------------------------------------------------------------
(* How past windows came out.                                                *)
\* Mutant of KnownBy: a candle counts once it has begun.
KnownOnceBegun(candles, time) == Kept(candles, {i \in DOMAIN candles : candles[i].open <= time})

\* The candles that have closed by a time.
KnownBy(candles, time) == Kept(candles, {i \in DOMAIN candles : CloseTime(candles[i]) <= time})

\* endPrice, and priceAtOrBefore of the replay: the last close by a time.
LastClose(candles, time) ==
  LET known == KnownBy(candles, time) IN IF known = <<>> THEN Null ELSE known[Len(known)].last

\* evaluateShortWindowRuleOutcome.
RuleOutcome(event, candles) ==
  LET rule == event.rule
      from == IF rule.type = "END_AVERAGE"
              THEN CandleAverage(candles, event.start, event.start + rule.startSeconds)
              ELSE event.reference
      to == IF rule.type = "END_AVERAGE"
            THEN CandleAverage(candles, event.end - rule.endSeconds, event.end)
            ELSE LastClose(candles, event.end)
  IN CASE rule.type = "UNKNOWN" \/ Null \in {from, to} -> "UNKNOWN"
       [] OTHER -> IF to > from THEN "UP" ELSE IF to < from THEN "DOWN"
                   ELSE IF rule.tie = "UNKNOWN" THEN "TIE" ELSE rule.tie

Directional(side) == side \in {"LONG_UP", "LONG_DOWN"}

StatusOf(side, outcome, over) ==
  CASE ~Directional(side)          -> side
    [] Directional(side) /\ ~over -> "PENDING"
    [] OTHER -> IF outcome \in {"UNKNOWN", "TIE"} THEN "UNRESOLVED"
                ELSE IF \/ side = "LONG_UP" /\ outcome = "UP"
                        \/ side = "LONG_DOWN" /\ outcome = "DOWN"
                THEN "WIN" ELSE "LOSS"

\* resolveReplayResult.
ReplayResult(at, candles, checkedAt) ==
  LET With(status) == [event |-> at.event, signal |-> at.signal, status |-> status,
                       counted |-> status \in {"WIN", "LOSS"}]
  IN With(StatusOf(at.signal.side, RuleOutcome(at.event, candles), at.event.end <= checkedAt))

\* The signal of a window, given at a time in it, with the candles that have
\* closed and one tick: the last close, at that very time.
SignalAt(rule, interval, time, candles, minConfidence) ==
  LET known == KnownBy(candles, time)
      price == LastClose(known, time)
      ticks == IF price = Null THEN <<>> ELSE <<[time |-> time, price |-> price]>>
      state == [candles |-> known, tick |-> IF price = Null THEN Null ELSE time,
                spread |-> IF price = Null THEN Null ELSE 2, now |-> time, staleAfter |-> 180,
                minConfidence |-> minConfidence]
  IN WithSignal(CurrentEvent(rule, interval, time, ticks, known), state)

\* replayCandles: the whole windows from one time to another, each with a signal
\* a minute before its end.
ReplayCandles(rule, interval, candles, from, to, checkedAt) ==
  LET first == ((from + interval - 1) \div interval) * interval
      count == IF to < first THEN 0 ELSE (to - first) \div interval
      At(i) == SignalAt(rule, interval, first + i * interval - 60, candles, 3800)
  IN [i \in 1 .. count |-> ReplayResult(At(i), candles, checkedAt)]

\* runShortWindowReplay: the window up to now, and half an hour or three
\* intervals of candles before it; no candles at all if they cannot be had.
RunShortWindowReplay(rule, interval, duration, candles, failed, now) ==
  LET from == now - duration
      fetched == Kept(candles, {i \in DOMAIN candles : candles[i].open >= from - Max({3 * interval, 1800})})
  IN IF failed THEN <<>> ELSE ReplayCandles(rule, interval, fetched, from, now, now)

\* runMockShortWindowReplay: the scenario says what the side and the outcome
\* are, the engine the rest.
MockScenarioResult(scenario, interval, candles, checkedAt) ==
  LET at == [SignalAt(RuleTemplate("mock"), interval, scenario.time, candles, 2500) EXCEPT
               !.signal.side = scenario.side,
               !.signal.confidence = IF Directional(scenario.side) THEN Max({4200, @}) ELSE @]
  IN [ReplayResult(at, candles, checkedAt) EXCEPT
        !.status = scenario.status, !.counted = scenario.status \in {"WIN", "LOSS"}]

\* computeShortWindowMetrics, with its maxDrawdown.
ShortWindowMetrics(results) ==
  LET with(status) == {i \in DOMAIN results : results[i].status = status}
      said(word) == {i \in DOMAIN results : word \in {results[i].signal.side, results[i].status}}
      wins == Cardinality(with("WIN"))
      losses == Cardinality(with("LOSS"))
      counted == Kept(results, {i \in DOMAIN results : results[i].counted})
      bets == [i \in DOMAIN counted |-> IF counted[i].status = "WIN" THEN 1 ELSE -1]
  IN [total |-> Len(results), wins |-> wins, losses |-> losses,
      actionable |-> Cardinality({i \in DOMAIN results : Directional(results[i].signal.side)}),
      waiting |-> Cardinality(said("WAIT")), rejected |-> Cardinality(said("REJECTED")),
      pending |-> Cardinality(with("PENDING")),
      winRate |-> IF wins + losses = 0 THEN Null ELSE (wins * One) \div (wins + losses),
      drawdown |-> IF counted = <<>> THEN Null ELSE MaxDrawdown(bets)]

-----------------------------------------------------------------------------
(* What the terminal promises.                                               *)
\* A direction is for a settlement rule that is known, within the window but
\* not at its edges, and from the ticker's price if that is of the last two
\* minutes; from a candle's close only if there is no ticker, or if its time lies
\* ahead of the request.
DirectionIsBacked(rule, interval, now, market) ==
  LET response == CurrentResponse(rule, interval, now, market)
      closes == {market.candles[i].last : i \in DOMAIN market.candles}
      tick == IF market.price = Null THEN Null ELSE FirstNumber(market.tickerTime, now)
  IN Directional(response.signal.side) =>
       /\ rule.type # "UNKNOWN"
       /\ response.event.start + 30 <= now /\ now < response.event.end - 20
       /\ IF tick # Null /\ tick <= now
          THEN now - tick <= 120 /\ response.event.current = market.price
          ELSE response.event.current \in closes
       /\ response.signal.confidence <= ConfidenceCap[rule.confidence]

\* A replayed signal is what it would be had the market ended with it, and its
\* outcome does not depend on what came after the window.
WindowsKnowThePast(rule, interval, candles, from, to) ==
  LET results == ReplayCandles(rule, interval, candles, from, to, to) IN
  \A i \in DOMAIN results :
    LET end == results[i].event.end
        Until(time) == Kept(candles, {k \in DOMAIN candles : CloseTime(candles[k]) <= time})
        Alone(time) == ReplayCandles(rule, interval, Until(time), end - interval, end, to)[1]
    IN /\ Alone(end - 60).signal = results[i].signal
       /\ Alone(end) = results[i]

\* A rule that leaves nothing but the price at the end to decide.
SettledByEndPrice(rule) == rule.type = "END_PRICE" /\ rule.tie = "UNKNOWN"

\* The metrics count each window once and bets that were decided only; and where
\* the price at a window's end settles it, a bet is won if that price lies on its
\* side of the reference its event states.  (Which price that reference should be
\* is what BetsAreSettledByStart is about.)
WindowsAddUp(results, candles) ==
  LET m == ShortWindowMetrics(results) IN
  /\ m.total = m.waiting + m.rejected + m.pending + m.wins + m.losses
                 + Cardinality({i \in DOMAIN results : results[i].status = "UNRESOLVED"})
  /\ m.wins + m.losses = Cardinality({i \in DOMAIN results : results[i].counted})
  /\ (m.winRate = Null) <=> (m.drawdown = Null)
  /\ \A i \in DOMAIN results :
       LET r == results[i]
           last == LastClose(candles, r.event.end)
       IN /\ r.counted => Directional(r.signal.side)
          /\ r.counted /\ SettledByEndPrice(r.event.rule) =>
               /\ Null \notin {last, r.event.reference} /\ last # r.event.reference
               /\ (r.status = "WIN") <=> (r.signal.side = "LONG_UP" <=> last > r.event.reference)

\* What rule-templates.ts:45 says: the rule compares the price at a window's end
\* with the reference at its start, the open of its first candle.
BetsAreSettledByStart(results, candles) ==
  \A i \in DOMAIN results : \A k \in DOMAIN candles :
    LET r == results[i] IN
    r.counted /\ SettledByEndPrice(r.event.rule) /\ candles[k].open = r.event.start =>
      ((r.status = "WIN") <=>
         (r.signal.side = "LONG_UP" <=> LastClose(candles, r.event.end) > candles[k].first))

\* What the signal says of itself (signal-engine.ts:88): a direction upwards is
\* given above the price the window began at, and one downwards below it.
DirectionAgreesWithReference(rule, interval, now, market) ==
  LET response == CurrentResponse(rule, interval, now, market) IN
  /\ response.signal.side = "LONG_UP" => response.event.current > response.event.reference
  /\ response.signal.side = "LONG_DOWN" => response.event.current < response.event.reference
=============================================================================
