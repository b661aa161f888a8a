-------------------------------- MODULE FairValue --------------------------------
(***************************************************************************)
(* The fair value signal: which markets are eligible, how likely the model *)
(* holds YES, and the side the difference to the market's price is worth.  *)
(*                                                                         *)
(* Probabilities, prices of outcomes, spreads, edges and confidences are   *)
(* integers in hundredths of a percent, so that rounding to six digits     *)
(* changes none of them.  The normal distribution is not computed: a model *)
(* input `cdf' is the probability that it returns where volatility is not  *)
(* zero.                                                                   *)
(*                                                                         *)
(* Of a market's text count the assets it names, its amounts in dollars    *)
(* and with a k or m, in their order, and the kinds of words in it.        *)
(***************************************************************************)
EXTENDS Integers, Sequences, FiniteSets, SequencesExt, FiniteSetsExt, Lists

One == 10000
Null == -1000000

FirstNumber(a, b) == IF a # Null THEN a ELSE b
EarlierCandle(a, b) == a.time < b.time
ByTime(candles) == SortSeq(candles, EarlierCandle)
UpTo(candles, time) == Kept(candles, {i \in DOMAIN candles : candles[i].time <= time})

\* The place of the latest of some points in time, the first of them if several are.
Latest(points) ==
  CHOOSE i \in DOMAIN points :
    \A j \in DOMAIN points : \/ points[j].time < points[i].time
                             \/ points[j].time = points[i].time /\ i <= j

\* The close of the latest candle that began by then.
PriceAtOrBefore(candles, time) ==
  LET past == UpTo(candles, time) IN IF past = <<>> THEN Null ELSE past[Latest(past)].close

-----------------------------------------------------------------------------
\* bindMarketToUnderlying: text that names one asset binds the market to it.
BindMarket(candidate, odds, priceOf) ==
  LET symbol == IF candidate.named = {"ETH"} THEN "ETH" ELSE "BTC" IN
  [candidate |-> candidate, odds |-> odds, symbol |-> symbol,
   underlyingSymbol |-> IF symbol = "ETH" THEN "ETHUSDT" ELSE "BTCUSDT",
   realtimePrice |-> IF symbol \in DOMAIN priceOf THEN priceOf[symbol] ELSE Null,
   bindingStatus |-> CASE Cardinality(candidate.named) = 1 -> "bound"
                       [] Cardinality(candidate.named) = 2 -> "ambiguous"
                       [] OTHER                            -> "unsupported"]

\* The first amount of a hundred or more, of those in dollars if one is.
ExtractThresholdPrice(candidate) ==
  LET large(amounts) == Kept(amounts, {i \in DOMAIN amounts : amounts[i] >= 100}) IN
  IF large(candidate.dollars) # <<>> THEN Head(large(candidate.dollars))
  ELSE IF large(candidate.suffixed) # <<>> THEN Head(large(candidate.suffixed))
  ELSE Null

ExtractComparator(candidate) ==
  IF candidate.words \cap {"hit", "touch", "trades above"} # {} THEN "HIT"
  ELSE IF "above" \in candidate.words THEN "ABOVE"
  ELSE IF "below" \in candidate.words THEN "BELOW" ELSE "none"

ResolutionConfidence(candidate, comparator) ==
  IF ~candidate.source \/ candidate.expiry = Null \/ comparator = "none" THEN "unknown"
  ELSE IF comparator = "HIT" THEN "low"
  ELSE IF "definite" \in candidate.words THEN "high" ELSE "medium"

IsLongVagueEvent(candidate, threshold) ==
  \/ "vague" \in candidate.words
  \/ "before" \in candidate.words /\ candidate.words \cap {"hit", "touch"} # {}
  \/ /\ threshold >= 1000000 /\ "BTC" \in candidate.named
     /\ candidate.words \cap {"hit", "before"} # {}

LiquidityRank == [unknown |-> 0, thin |-> 1, ok |-> 2]

\* evaluateMarketEligibility: each gate speaks for itself.
RejectReasons(market, options) ==
  LET c == market.candidate  odds == market.odds
      threshold == ExtractThresholdPrice(c)  comparator == ExtractComparator(c)
      is == [unbound |-> market.bindingStatus # "bound",
             severalAssets |-> Cardinality(c.named) > 1,
             noAsset |-> c.named = {},
             tokens |-> ~c.tokens,
             prices |-> Null \in {odds.yes, odds.no},
             spread |-> odds.spread = Null \/ odds.spread > options.maxSpread,
             liquidity |-> \/ odds.liquidity = "unknown"
                           \/ LiquidityRank[odds.liquidity] < LiquidityRank[options.minLiquidity],
             threshold |-> threshold = Null,
             comparator |-> comparator = "none",
             expiry |-> c.expiry = Null \/ c.expiry <= options.now,
             pathDependent |-> comparator = "HIT",
             resolution |-> ResolutionConfidence(c, comparator) \in {"unknown", "low"},
             vague |-> IsLongVagueEvent(c, threshold)]
  IN {reason \in DOMAIN is : is[reason]} \cup odds.failClosedReasons

-----------------------------------------------------------------------------
MinReturnCount == 10

\* logReturns: one for each two candles in a row with prices above zero, named
\* by the place of the first of them in the order of time.
LogReturns(candles, sorted) ==
  {i \in DOMAIN candles : i < Len(sorted) /\ sorted[i].close > 0 /\ sorted[i + 1].close > 0}

\* Returns vary unless all of them are the same.
VarianceIsZero(returns, sorted) ==
  \A i, j \in returns : sorted[i + 1].close * sorted[j].close = sorted[j + 1].close * sorted[i].close

NoEstimate(count) == [above |-> Null, returns |-> count, warned |-> FALSE, rejected |-> TRUE]

\* estimateTerminalAboveProbability.
EstimateAbove(price, threshold, candles, horizon, now, cdf) ==
  LET sorted == ByTime(UpTo(candles, now))
      returns == LogReturns(candles, sorted)
      count == Cardinality(returns)
  IN IF price <= 0 \/ threshold <= 0 \/ horizon <= 0 \/ count < MinReturnCount
     THEN NoEstimate(count)
     ELSE IF VarianceIsZero(returns, sorted)
     THEN [above |-> IF price >= threshold THEN One ELSE 0, returns |-> count,
           warned |-> TRUE, rejected |-> FALSE]
     ELSE [above |-> cdf, returns |-> count, warned |-> FALSE, rejected |-> FALSE]

LookbackCandles(candles, n) ==
  IF n = Null THEN candles
  ELSE SubSeq(candles, Max({1, Len(candles) - n + 1}), Len(candles))

-----------------------------------------------------------------------------
\* Mutant of SideFromEdges: NO is looked at with the edge of YES.
SideFromYesEdge(e, options) ==
  IF e.rejected THEN "REJECTED"
  ELSE IF e.confidence < options.minConfidence THEN "NO_SIGNAL"
  ELSE IF e.edgeYes >= options.minEdge THEN "LONG_YES"
  ELSE IF -e.edgeYes >= options.minEdge THEN "LONG_NO" ELSE "NO_SIGNAL"

SideFromEdges(e, options) ==
  IF e.rejected THEN "REJECTED"
  ELSE IF e.confidence < options.minConfidence THEN "NO_SIGNAL"
  ELSE IF e.edgeYes >= options.minEdge THEN "LONG_YES"
  ELSE IF e.edgeNo >= options.minEdge THEN "LONG_NO" ELSE "NO_SIGNAL"

SampleConfidence(returns) == Min({8200, Max({1200, (returns * One) \div 120})})

Confidence(estimate) ==
  IF estimate.rejected THEN 0
  ELSE IF estimate.warned THEN (SampleConfidence(estimate.returns) * 3) \div 4
  ELSE SampleConfidence(estimate.returns)

\* What the model says of an eligible market, before a side is chosen.
Evaluated(market, estimate, options) ==
  LET odds == market.odds
      model == IF estimate.rejected THEN Null
               ELSE IF ExtractComparator(market.candidate) = "BELOW" THEN One - estimate.above
               ELSE estimate.above
      Edge(p, q) == IF model = Null THEN Null ELSE p - q - options.cost
  IN [rejected |-> estimate.rejected, confidence |-> Confidence(estimate), modelYes |-> model,
      marketYes |-> odds.yes, edgeYes |-> Edge(model, odds.yes), edgeNo |-> Edge(One - model, odds.no)]

\* The snapshot's numbers and the marker's side, of a market with reasons to
\* turn it away or none.
Marker(market, reasons, e, options) ==
  LET side == IF reasons # {} THEN "REJECTED" ELSE SideFromEdges(e, options)
  IN [market |-> market, eligible |-> reasons = {}, side |-> side,
      modelYes |-> IF reasons # {} THEN Null ELSE e.modelYes,
      marketYes |-> FirstNumber(market.odds.yes, Null),
      confidence |-> IF reasons # {} THEN 0 ELSE e.confidence,
      edge |-> CASE side = "LONG_YES" -> e.edgeYes [] side = "LONG_NO" -> e.edgeNo
                 [] OTHER -> Null,
      rejected |-> reasons # {} \/ e.rejected]

\* evaluateFairValueMarket.
EvaluateFairValueMarket(market, price, candles, horizon, options) ==
  LET estimate == EstimateAbove(price, ExtractThresholdPrice(market.candidate),
                                LookbackCandles(candles, options.lookback),
                                horizon, options.now, options.cdf)
  IN Marker(market, RejectReasons(market, options), Evaluated(market, estimate, options), options)

\* All markets have a marker; the sound ones a snapshot, the others a place
\* among the rejected.
Response(markers) ==
  [markers |-> markers,
   snapshots |-> Kept(markers, {i \in DOMAIN markers : ~markers[i].rejected}),
   rejected |-> Kept(markers, {i \in DOMAIN markers : markers[i].rejected})]

\* buildFairValueSignalResponse.
FairValueResponse(markets, priceOf, candlesOf, horizon, options) ==
  Response([i \in DOMAIN markets |->
    LET m == markets[i] IN
    EvaluateFairValueMarket(m, FirstNumber(priceOf[m.symbol], m.realtimePrice),
                            candlesOf[m.symbol], horizon, options)])

-----------------------------------------------------------------------------
\* A market that a signal says to buy is one a person could have bought for
\* that reason: it is open still, it names one asset, both outcomes have a
\* price, and the chosen outcome is underpriced by the least edge and the cost
\* of buying, and the other one is not, where the market gives no money away
\* (the prices of YES and NO sum to one or more).
SignalsArePriced(response, options) ==
  \A i \in DOMAIN response.markers :
    LET e == response.markers[i]  odds == e.market.odds
        price == IF e.side = "LONG_YES" THEN odds.yes ELSE odds.no
        other == IF e.side = "LONG_YES" THEN odds.no ELSE odds.yes
        chance == IF e.side = "LONG_YES" THEN e.modelYes ELSE One - e.modelYes
    IN e.side \in {"LONG_YES", "LONG_NO"} =>
         /\ e.market.candidate.expiry > options.now
         /\ Cardinality(e.market.candidate.named) = 1
         /\ Null \notin {odds.yes, odds.no, odds.spread} /\ odds.spread <= options.maxSpread
         /\ e.confidence >= options.minConfidence
         /\ chance >= price + options.cost + options.minEdge
         /\ odds.yes + odds.no >= One /\ options.minEdge > 0 => One - chance < other + options.cost

\* No market is lost and none counts twice: it has one marker, and is among the
\* snapshots or the rejected; and what is turned away carries no edge that a
\* page could show.
EveryMarketIsAccounted(markets, response) ==
  /\ Len(response.markers) = Len(markets)
  /\ Len(response.snapshots) + Len(response.rejected) = Len(markets)
  /\ \A i \in DOMAIN response.rejected :
       response.rejected[i].side = "REJECTED" /\ response.rejected[i].edge = Null
  /\ \A i \in DOMAIN response.snapshots : response.snapshots[i].side # "REJECTED"
=============================================================================
