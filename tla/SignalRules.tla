------------------------------ MODULE SignalRules ------------------------------
(***************************************************************************)
(* The directional signal: the confluence of four modules with its risks   *)
(* and vetoes under a profile, and the engine that closes when the data is *)
(* not good enough.                                                        *)
(*                                                                         *)
(* Scores and confidences are integers out of 10000.  The vetoes are named *)
(* for their conditions.                                                   *)
(***************************************************************************)
EXTENDS Indicators

Clamp(n, low, high) == Max({low, Min({n, high})})

-----------------------------------------------------------------------------
(* Profiles.                                                                 *)
Thresholds(long, confidence, chop, trend, width, extreme, atr, hist, slope, volume, bypass, weight) ==
  [long |-> long, minConfidence |-> confidence, maxChop |-> chop, minTrend |-> trend,
   minWidth |-> width, maxWidth |-> extreme, maxAtr |-> atr, minHist |-> hist, minSlope |-> slope,
   minVolume |-> volume, bypass |-> bypass, weight |-> weight]

PerHorizon(five, ten) == [horizon \in {"5m", "10m"} |-> IF horizon = "5m" THEN five ELSE ten]

\* SIGNAL_PROFILES.
Profiles ==
  [balanced |-> PerHorizon(
     Thresholds(6800, 4600, 6800, 2800, 6000, 45000, 12000, 200, 40, 1000, 7200, 10),
     Thresholds(6500, 4400, 6200, 4400, 7500, 50000, 13000, 180, 35, 1000, 7200, 10)),
   conservative |-> PerHorizon(
     Thresholds(7600, 5600, 5200, 4200, 8000, 38000, 10000, 280, 60, 2400, 8200, 12),
     Thresholds(7200, 5200, 5000, 5200, 8500, 43000, 11000, 240, 55, 2400, 8000, 12)),
   aggressive |-> PerHorizon(
     Thresholds(6200, 4000, 7200, 2200, 4500, 50000, 14000, 140, 30, 0, 6200, 8),
     Thresholds(6000, 3800, 6800, 3600, 5500, 55000, 15000, 120, 30, 0, 6000, 8))]

-----------------------------------------------------------------------------
(* The modules.                                                              *)
\* trendModule: the gap between the averages, the slope of the fast one and the
\* price above the slow one agree.
TrendScore(f) ==
  LET score == Clamp((((Size(f.gap) * 10000) \div 2800) + ((Size(f.slope) * 10000) \div 800)
                        + ((Size(f.above) * 10000) \div 3000)) \div 3, 3500, 10000)
  IN CASE f.gap > 350 /\ f.slope > 40 /\ f.above > 200    -> score
       [] f.gap < -350 /\ f.slope < -40 /\ f.above < -200 -> -score
       [] OTHER                                           -> 0

\* momentumModule.
MomentumScore(f) ==
  LET returns == Clamp(Over(Over(f.r1 * 10000, 1200) + Over(f.r3 * 10000, 3000)
                              + Over(f.r5 * 10000, 5000), 3), -10000, 10000)
      macd == IF Sign(f.hist) * Sign(f.histSlope) = 1 THEN Sign(f.hist) * 10000
              ELSE Sign(f.hist) * 2500
  IN Clamp(Over(returns * 62 + macd * 38, 100), -10000, 10000)

\* volatilityModule.
VolatilityScore(f, trend, momentum) ==
  LET dominant == IF Size(momentum) >= Size(trend) THEN Sign(momentum) ELSE Sign(trend)
  IN CASE f.regime = "low" \/ f.squeeze -> 0
       [] OTHER -> IF f.expansion /\ f.band > 68 THEN 6500
                   ELSE IF f.expansion /\ f.band < 32 THEN -6500
                   ELSE dominant * (IF f.regime = "normal" THEN 3500 ELSE 1800)

\* volumeModule: a return with abnormal, or with somewhat more, volume.  Volume
\* that is abnormally low counts for a fall like one that is high, and for a
\* rise as little as it can.
VolumeScore(f) ==
  LET z == IF f.r5 < 0 THEN Size(f.z) ELSE f.z
  IN Sign(f.r5) * (CASE f.abnormal -> Clamp(5500 + 120 * Min({z, 30}), 5500, 9000)
                     [] ~f.abnormal /\ f.z > 4 -> 2400
                     [] OTHER -> 0)

\* meanReversionRisk.
ReversalRisk(f, trend, momentum) ==
  LET way == Sign(trend * 55 + momentum * 45)
      Over2(n, high, higher, a, b) == IF n > higher THEN b ELSE IF n > high THEN a ELSE 0
      rsi == IF way < 0 THEN 100 - f.rsi ELSE f.rsi
      band == IF way < 0 THEN 100 - f.band ELSE f.band
  IN IF way = 0 THEN (IF f.rsi > 70 \/ f.rsi < 30 THEN 2500 ELSE 0)
     ELSE Over2(rsi, 66, 72, 2400, 4500) + Over2(band, 82, 92, 1800, 3500)

Opposed(a, b) == Sign(a) * Sign(b) = -1

\* chopRiskScore.
ChopRisk(f, trend, momentum) ==
  LET If(condition, n) == IF condition THEN n ELSE 0
  IN Clamp(If(Opposed(f.r1, f.r5), 2800) + If(Opposed(trend, momentum), 3400)
             + If(Size(f.slope) < 40, 2000) + If(Size(f.histSlope) < 30, 1600)
             + If(f.width < 6000 \/ f.regime = "low", 2800) + If(Opposed(f.r3, f.r5), 1800), 0, 10000)

\* filterVetoReasons.
VetoReasons(f, quality, eventRisk, t, s) ==
  LET weak == Size(s.momentum) < t.bypass IN
  {veto \in {"stale", "insufficient", "event", "trend", "momentum", "squeeze", "extreme", "reversal",
             "chop", "disagree", "breakout", "unaligned", "against volume", "participation",
             "confirmation"} :
     CASE veto = "stale"          -> quality = "stale"
       [] veto = "insufficient"   -> quality = "insufficient"
       [] veto = "event"          -> eventRisk
       [] veto = "trend"          -> Size(f.slope) < t.minSlope
                                       /\ Size(f.gap) * 10000 < t.minTrend * 1800 /\ weak
       [] veto = "momentum"       -> (Size(f.histAtr) < t.minHist \/ Size(f.hist) < t.minHist) /\ weak
       [] veto = "squeeze"        -> f.regime = "low" \/ f.squeeze \/ f.width < t.minWidth
       [] veto = "extreme"        -> f.width > t.maxWidth \/ f.atr > t.maxAtr
       [] veto = "reversal"       -> s.reversal >= 4500 /\ s.trend # 0
                                       /\ Sign(s.momentum) # Sign(s.trend)
       [] veto = "chop"           -> s.chop >= t.maxChop
       [] veto = "disagree"       -> Opposed(s.trend, s.momentum)
       [] veto = "breakout"       -> Size(s.volatility) > 1000 /\ Sign(s.volatility) #
                                       Sign(IF s.trend # 0 THEN s.trend ELSE s.momentum)
       [] veto = "unaligned"      -> 0 \notin {s.trend, s.momentum, s.volume} /\
                                       Cardinality({Sign(s.trend), Sign(s.momentum), Sign(s.volume)}) > 1
       [] veto = "against volume" -> Opposed(f.r5, s.volume)
       [] veto = "participation"  -> f.r5 # 0 /\ f.z < -4 /\ Size(s.momentum) > 2000
       [] veto = "confirmation"   -> Size(s.volume) < t.minVolume /\ weak}

\* contextScore, of news and posts in percent.
ContextScore(context) ==
  LET macro == CASE context.macro = "risk_on" -> 400 [] context.macro = "risk_off" -> -400
                 [] OTHER -> 0
  IN Clamp(18 * context.news + 12 * context.posts + macro, -800, 800)

Modules(f) ==
  LET Scores(trend, momentum) ==
        [trend |-> trend, momentum |-> momentum, volatility |-> VolatilityScore(f, trend, momentum),
         volume |-> VolumeScore(f), reversal |-> ReversalRisk(f, trend, momentum),
         chop |-> ChopRisk(f, trend, momentum)]
  IN Scores(TrendScore(f), MomentumScore(f))

\* Mutant of Direction: a short has to pass half of the long threshold.
DirectionWithSlack(total, vetoed, t) ==
  CASE vetoed            -> "NO_SIGNAL"
    [] total >= t.long   -> "LONG"
    [] 2 * total <= -t.long -> "SHORT"
    [] OTHER             -> "NO_SIGNAL"

Direction(total, vetoed, t) ==
  IF vetoed \/ Size(total) < t.long THEN "NO_SIGNAL" ELSE IF total > 0 THEN "LONG" ELSE "SHORT"

\* The modules' scores taken together, less the risks.
TotalScore(s, context, t) ==
  LET Less(base) == base - Sign(base) * Over(s.reversal * 12 + s.chop * 16, 100)
  IN Clamp(Less(Over(s.trend * 36 + s.momentum * 30 + s.volatility * 14 + s.volume * t.weight, 100)
                  + ContextScore(context)), -10000, 10000)

AllVetoes(f, s, quality, context, failures, t) ==
  failures \cup VetoReasons(f, quality, context.eventRisk, t, s)
    \cup (IF Size(s.trend) < t.minTrend /\ Size(s.momentum) >= 5500 THEN {"alignment"} ELSE {})

\* The direction and its confidence, of a total score and the vetoes.
Decided(f, s, quality, total, vetoes, t) ==
  LET direction == Direction(total, vetoes # {}, t)
      volumePenalty == CASE Size(s.volume) >= 5000 -> 0 [] s.volume = 0 -> 800 [] OTHER -> 400
      confidence == Clamp(Over(Size(total) * 76 - s.reversal * 16 - s.chop * 18, 100)
                            + (IF quality = "ok" THEN 1200 ELSE 0) - volumePenalty
                            - (IF f.regime = "high" THEN 800 ELSE 0), 0, 9000)
      counts == direction # "NO_SIGNAL" /\ confidence >= t.minConfidence /\ confidence # 0
  IN [direction |-> IF counts THEN direction ELSE "NO_SIGNAL", score |-> total,
      confidence |-> IF counts THEN confidence ELSE 0, vetoes |-> vetoes]

\* evaluateConfluence.
EvaluateConfluence(f, quality, context, failures, t) ==
  LET Decision(s) == Decided(f, s, quality, TotalScore(s, context, t),
                             AllVetoes(f, s, quality, context, failures, t), t)
  IN Decision(Modules(f))
=============================================================================
