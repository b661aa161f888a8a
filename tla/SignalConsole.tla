---------------------------- MODULE SignalConsole ----------------------------
(***************************************************************************)
(* The engine around the confluence of modules: the quality of the data a  *)
(* signal is given for, the console that shows it with the signals of the  *)
(* windows before and what became of them, and the backtest of the         *)
(* baseline strategy.                                                      *)
(*                                                                         *)
(* Times are minutes.  A candle carries the minute it opens in.  A source  *)
(* is what an adapter returned: its candles, its freshness where it states *)
(* one, its price and the reasons it failed for.                           *)
(***************************************************************************)
EXTENDS SignalRules

NoFreshness == [stale |-> FALSE, age |-> Null, maxAge |-> 3]
NoContext == [news |-> 0, posts |-> 0, macro |-> "unknown", eventRisk |-> FALSE]
Steps(horizon) == IF horizon = "5m" THEN 5 ELSE 10
LatestTime(candles) == IF candles = <<>> THEN Null ELSE Last(candles).time

\* emptyFailClosed...: what a source that throws is taken for.
FailedSource(reason) ==
  [candles |-> <<>>, freshness |-> NoFreshness, price |-> Null, failures |-> {reason}]

\* assessDataQuality.  Every adapter refuses rows with a field missing.
AssessDataQuality(source, now) ==
  LET age == FirstNumber(source.freshness.age, now - LatestTime(source.candles)) IN
  IF Len(source.candles) < RequiredCandles THEN "insufficient"
  ELSE IF source.freshness.stale \/ age > source.freshness.maxAge THEN "stale" ELSE "ok"

\* What buildResearchSignal makes of a source: features, where there are enough
\* candles for them, and the reasons to fail closed.
SourceFeatures(source) ==
  IF Len(source.candles) >= RequiredCandles THEN FeatureSnapshot(source.candles) ELSE EmptyFeatures

SourceFailures(ask, source, quality) ==
  source.failures \cup ({quality} \ {"ok"}) \cup (IF ask.context.eventRisk THEN {"event"} ELSE {})

\* buildResearchSignal.  An ask is of a horizon, a profile and the context.
ResearchSignal(ask, quality, failures, said) ==
  [quality |-> quality, failures |-> failures, horizon |-> ask.horizon, vetoes |-> said.vetoes,
   direction |-> said.direction, score |-> said.score, confidence |-> said.confidence]

BuildResearchSignal(ask, source, now) ==
  LET Of(quality, failures) ==
        ResearchSignal(ask, quality, failures,
                       EvaluateConfluence(SourceFeatures(source), quality, ask.context, failures,
                                          Profiles[ask.profile][ask.horizon]))
      WithQuality(quality) == Of(quality, SourceFailures(ask, source, quality))
  IN WithQuality(AssessDataQuality(source, now))

\* listLiveResearchSignals: one signal for each asset and horizon asked for.
ListLiveResearchSignals(symbols, horizons, profile, fetched, now) ==
  [target \in symbols \X horizons |->
     BuildResearchSignal([horizon |-> target[2], profile |-> profile, context |-> NoContext],
                         IF fetched[target[1]].kind = "exception" THEN FailedSource("adapter")
                         ELSE fetched[target[1]].source, now)]

\* rebaseFixtureCandles: the last candle closes now.
RebaseFixtureCandles(candles, now) ==
  [i \in DOMAIN candles |-> [candles[i] EXCEPT !.time = now - 1 - Len(candles) + i]]

-----------------------------------------------------------------------------
(* The console.                                                              *)
\* markerFromWindow: the signal of a window as of the minute it closed.
MarkerFromWindow(ask, window) ==
  LET Marked(signal) ==
        [time |-> Last(window).time, price |-> Last(window).close, direction |-> signal.direction,
         score |-> signal.score, confidence |-> signal.confidence]
  IN Marked(BuildResearchSignal(ask, [candles |-> window, freshness |-> NoFreshness, price |-> Null,
                                      failures |-> {}], Last(window).time + 1))

Window(candles, end) == SubSeq(candles, end - RequiredCandles + 1, end)

\* buildRecentSignalMarkers: the last ten signals of the last 37 windows.
BuildRecentSignalMarkers(ask, candles) ==
  LET first == Max({RequiredCandles, Len(candles) - 36})
      WithDirection(all) == Kept(all, {i \in DOMAIN all : all[i].direction # "NO_SIGNAL"})
  IN LastN(WithDirection(Listed([i \in 1 .. Len(candles) - first + 1 |->
                                 MarkerFromWindow(ask, Window(candles, first + i - 1))])), 10)

SignalOfWindow(ask, candles, end) ==
  EvaluateConfluence(FeatureSnapshot(Window(candles, end)), "ok", ask.context,
    IF ask.context.eventRisk THEN {"event"} ELSE {}, Profiles[ask.profile][ask.horizon]).direction

\* runObservationPreview: which directional windows the close a horizon of
\* candles later agreed with.
ObservationRecords(ask, candles) ==
  LET Record(end, direction) ==
        LET move == candles[end + Steps(ask.horizon)].close - candles[end].close IN
        [end |-> end, direction |-> direction,
         match |-> Sign(move) = (IF direction = "LONG" THEN 1 ELSE -1)]
      all == Listed([i \in 1 .. Max({0, Len(candles) - Steps(ask.horizon) - RequiredCandles + 1}) |->
                       LET end == i + RequiredCandles - 1 IN
                       Record(end, SignalOfWindow(ask, candles, end))])
  IN Kept(all, {i \in DOMAIN all : all[i].direction # "NO_SIGNAL"})

\* runObservationPreview, disabledObservationPreview.
ObservationPreview(records, wanted) ==
  LET matches == {i \in DOMAIN records : records[i].match}
  IN [status |-> IF ~wanted THEN "not_loaded" ELSE IF records = <<>> THEN "insufficient" ELSE "ready",
      sampleSize |-> Len(records),
      matchRate |-> IF records = <<>> THEN Null ELSE (Cardinality(matches) * One) \div Len(records)]

\* buildEventWindow: from the last candle's open, with its close as reference.
BuildEventWindow(mode, signal, candles, price) ==
  LET latest == LatestTime(candles)
      resolves == IF latest = Null THEN Null ELSE latest + Steps(signal.horizon)
  IN [start |-> latest, end |-> resolves,
      reference |-> IF latest = Null THEN Null ELSE Last(candles).close,
      current |-> IF price # Null \/ latest = Null \/ mode # "fixture" THEN price ELSE Last(candles).close,
      canObserve |-> latest # Null /\ signal.quality = "ok"]

\* buildObservationCandidate.
BuildObservationCandidate(signal, window, now) ==
  [createdAt |-> now, direction |-> signal.direction, confidence |-> signal.confidence,
   entryPrice |-> window.reference, entryTime |-> window.start, resolveAt |-> window.end,
   canObserve |-> window.canObserve]

\* ohlcvProviderHealth.
ConsoleHealth(source) ==
  IF source.failures # {} \/ source.candles = <<>> THEN "failed"
  ELSE IF Len(source.candles) < 80 THEN "degraded" ELSE "ok"

\* A console around a signal.
ConsoleWith(signal, in, wanted, now) ==
  LET window == BuildEventWindow(in.mode, signal, in.source.candles, in.price)
      ask == in.ask
      source == in.source
  IN [signal |-> signal, window |-> window, health |-> in.health,
      candidate |-> BuildObservationCandidate(signal, window, now),
      recentCandles |-> LastN(source.candles, 60),
      markers |-> BuildRecentSignalMarkers(ask, source.candles),
      preview |-> ObservationPreview(IF wanted THEN ObservationRecords(ask, source.candles) ELSE <<>>,
                                     wanted)]

\* buildConsoleResponse.
BuildConsoleResponse(in, wanted, now) ==
  ConsoleWith(BuildResearchSignal(in.ask, in.source, now), in, wanted, now)

\* What buildFixtureEventSignalConsole builds a response of.
FixtureConsole(ask, candles, now) ==
  LET rebased == RebaseFixtureCandles(candles, now) IN
  [mode |-> "fixture", ask |-> ask, price |-> Last(rebased).close, health |-> "ok",
   source |-> [candles |-> rebased, freshness |-> NoFreshness, price |-> Null, failures |-> {}]]

\* What buildLiveEventSignalConsole does: candles alone carry their own
\* freshness and price, market data its ticker's price; a source that throws is
\* closed.
LiveConsole(ask, fetched) ==
  LET source == IF fetched.kind = "exception" THEN FailedSource("adapter") ELSE fetched.source
      price == IF fetched.kind # "candles" THEN source.price
               ELSE IF source.candles = <<>> THEN Null ELSE Last(source.candles).close
  IN [mode |-> "live", ask |-> [ask EXCEPT !.context = NoContext], price |-> price,
      health |-> IF fetched.kind = "market data" THEN source.health ELSE ConsoleHealth(source),
      source |-> IF fetched.kind = "market data" THEN [source EXCEPT !.freshness = NoFreshness]
                 ELSE source]

-----------------------------------------------------------------------------
(* The backtest of a strategy.                                               *)
\* baselineUnderlyingMomentumSignal: the move over three candles.
BaselineSignal(candles, entry) ==
  LET usable == UpTo(candles, entry)
      move == Last(usable).close - usable[Len(usable) - 3].close
  IN IF Len(usable) < 4 THEN "NO_SIGNAL"
     ELSE IF Size(move) * 2000 < usable[Len(usable) - 3].close THEN "NO_SIGNAL"
     ELSE IF move > 0 THEN "UP" ELSE "DOWN"

\* rejectSampleReason, of samples with times and prices that are numbers.
SampleIsRejected(sample) ==
  \/ sample.entry >= sample.outcome
  \/ Len(sample.candles) < 4
  \/ \E i \in DOMAIN sample.candles : sample.candles[i].time > sample.entry

\* maxDrawdownFromReturns, of returns and equity out of 10000.
AfterReturn(s, r) ==
  LET equity == (s.equity * (One + r)) \div One
      peak == Greater(s.peak, equity)
  IN [equity |-> equity, peak |-> peak,
      drawdown |-> Greater(s.drawdown, ((peak - equity) * One) \div peak)]

DrawdownOfReturns(returns) ==
  LET after[n \in 0 .. Len(returns)] ==
        IF n = 0 THEN [equity |-> One, peak |-> One, drawdown |-> 0]
        ELSE AfterReturn(after[n - 1], returns[n])
  IN after[Len(returns)].drawdown

\* directionReturn, of the signal of a sample.
DirectionReturn(s) ==
  LET raw == Over((s.outcomePrice - s.entryPrice) * One, s.entryPrice)
      signal == BaselineSignal(s.candles, s.entry)
  IN CASE signal = "UP" -> raw [] signal = "DOWN" -> -raw [] OTHER -> Null

\* The returns of the samples with a direction.
DirectionReturns(accepted) ==
  LET all == [i \in DOMAIN accepted |-> DirectionReturn(accepted[i])]
  IN Kept(all, {i \in DOMAIN all : all[i] # Null})

Backtest(accepted, returns, rejected, minSampleCount) ==
  LET n == Len(returns)
      won == {i \in DOMAIN returns : returns[i] > 0}
  IN [sampleCount |-> n, rejected |-> rejected,
      winRate |-> IF n = 0 THEN Null ELSE (Cardinality(won) * One) \div n,
      avgReturn |-> IF n = 0 THEN Null ELSE Over(Total(returns), n),
      maxDrawdown |-> IF n = 0 THEN Null ELSE DrawdownOfReturns(returns),
      start |-> IF accepted = <<>> THEN Null ELSE Min({accepted[i].entry : i \in DOMAIN accepted}),
      end |-> IF accepted = <<>> THEN Null ELSE Max({accepted[i].outcome : i \in DOMAIN accepted}),
      tooFew |-> Len(accepted) < minSampleCount]

\* runResearchBacktest.
RunResearchBacktest(samples, minSampleCount) ==
  LET Tested(accepted) == Backtest(accepted, DirectionReturns(accepted),
                                   Len(samples) - Len(accepted), minSampleCount)
  IN Tested(Kept(samples, {i \in DOMAIN samples : ~SampleIsRejected(samples[i])}))

-----------------------------------------------------------------------------
(* What signals, consoles and backtests promise.                             *)
Mirror(f) ==
  [f EXCEPT !.gap = -@, !.slope = -@, !.above = -@, !.r1 = -@, !.r3 = -@, !.r5 = -@, !.hist = -@,
            !.histSlope = -@, !.histAtr = -@, !.band = 100 - @, !.rsi = 100 - @]
MirrorContext(context) ==
  [context EXCEPT !.news = -@, !.posts = -@,
                  !.macro = CASE @ = "risk_on" -> "risk_off" [] @ = "risk_off" -> "risk_on" [] OTHER -> @]

\* A market and its mirror get opposite directions with one confidence, but
\* where volume is abnormally low.  A direction has a trend of the profile's
\* strength behind it and no momentum against it, and the next bolder profile
\* gives it too.
DirectionsAreEven(f, quality, context, horizon) ==
  LET signal(profile) == EvaluateConfluence(f, quality, context, {}, Profiles[profile][horizon])
      mirrored(profile) == EvaluateConfluence(Mirror(f), quality, MirrorContext(context), {},
                                              Profiles[profile][horizon])
      opposite == [LONG |-> "SHORT", SHORT |-> "LONG", NO_SIGNAL |-> "NO_SIGNAL"]
      bolder == [conservative |-> "balanced", balanced |-> "aggressive"]
  IN \A profile \in DOMAIN Profiles :
       LET s == signal(profile)
           way == CASE s.direction = "LONG" -> 1 [] s.direction = "SHORT" -> -1 [] OTHER -> 0
       IN /\ ~(f.abnormal /\ f.z < 0) => /\ mirrored(profile).direction = opposite[s.direction]
                                          /\ mirrored(profile).confidence = s.confidence
          /\ way # 0 => /\ way * TrendScore(f) >= Profiles[profile][horizon].minTrend
                        /\ way * MomentumScore(f) >= 0
                        /\ profile \in DOMAIN bolder => signal(bolder[profile]).direction = s.direction

\* A direction is given for data that is whole and at most four minutes past
\* the last candle's open, of a source without a reason to fail; what may be
\* observed is decided while its window is open.
ConsoleFailsClosed(failures, console, now) ==
  LET candles == console.recentCandles IN
  /\ console.signal.direction # "NO_SIGNAL" =>
       /\ Len(candles) >= RequiredCandles /\ now - LatestTime(candles) <= 4
       /\ failures = {} /\ console.candidate.canObserve
  /\ console.candidate.canObserve =>
       /\ console.candidate.resolveAt > now /\ console.candidate.entryPrice = Last(candles).close
  /\ console.signal.direction = "NO_SIGNAL" => console.signal.confidence = 0

\* An asset whose source throws closes its own signal and no other.
FailuresStayApart(ask, fetched, now) ==
  LET lists == [btc \in {[kind |-> "exception"], fetched} |->
                  ListLiveResearchSignals({"BTC", "ETH"}, {ask.horizon}, ask.profile,
                                          [BTC |-> btc, ETH |-> fetched], now)]
      Apart(broken, whole) == /\ broken[<<"BTC", ask.horizon>>].direction = "NO_SIGNAL"
                              /\ broken[<<"ETH", ask.horizon>>] = whole[<<"BTC", ask.horizon>>]
  IN \E l \in {lists} : Apart(l[[kind |-> "exception"]], l[fetched])

\* The markers shown for candles, and the records of what became of them.
Past(ask, candles) ==
  [markers |-> BuildRecentSignalMarkers(ask, candles), records |-> ObservationRecords(ask, candles)]

\* The signals of earlier windows and what became of them do not change when
\* the candles after them are taken away, and what is judged is the signal
\* that is shown for the window, where the window is one of the last 37.
PastIsKept(ask, candles, n) ==
  \E past \in {[end \in {n, Len(candles)} |-> Past(ask, SubSeq(candles, 1, end))]} :
    LET before == past[n]
        after == past[Len(candles)]
    IN /\ \A r \in {x \in Range(after.records) : x.end >= Len(candles) - 36} :
            IF Len(after.markers) < 10 \/ after.markers[1].time <= candles[r.end].time
            THEN \E m \in Range(after.markers) :
                   m.time = candles[r.end].time /\ m.direction = r.direction
            ELSE TRUE
       /\ \A m \in Range(after.markers) :
            m.time <= candles[n].time => m \in Range(before.markers)
       /\ IsPrefix(before.records, after.records)

\* A backtest counts what a sample's candles up to its entry said, and every
\* sample it rejects leaves its numbers as they are.
BacktestIsHonest(samples) ==
  LET kept == Kept(samples, {i \in DOMAIN samples :
                               samples[i].candles = UpTo(samples[i].candles, samples[i].entry)}) IN
  \E r \in {[part \in {samples, kept} |-> RunResearchBacktest(part, 2)]} :
    LET result == r[samples]
    IN /\ [r[kept] EXCEPT !.rejected = 0] = [result EXCEPT !.rejected = 0]
       /\ result.winRate = Null <=> result.sampleCount = 0
       /\ result.sampleCount > 0 => result.start < result.end /\ result.maxDrawdown \in 0 .. One
=============================================================================
