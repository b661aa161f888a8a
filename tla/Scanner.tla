---------------------------------- MODULE Scanner ----------------------------------
(***************************************************************************)
(* The scanner: the market ingestor, which lists the open binary markets   *)
(* it has a classification of; the pricing engine, a placeholder in a      *)
(* process of its own; and the gateway, which asks it for each market and  *)
(* makes a quote of its own where that fails.                              *)
(*                                                                         *)
(* A market of Gamma's has flags "yes", "no" or "missing", the sequences   *)
(* of its tokens and labels, and metrics; "" is a string with nothing in   *)
(* it, and NoNumber what is no number.                                     *)
(***************************************************************************)
EXTENDS Integers, Sequences, FiniteSets, SequencesExt, FiniteSetsExt, Lists

NoNumber == -1

\* parseTokenIds, parseOutcomeLabels: two strings.
IsPair(strings) == Len(strings) = 2 /\ "" \notin Range(strings)

\* normalizeEventMarket: the first thing that is wrong with a market, or "none".
Rejection(market, classified) ==
  IF market.id = "" THEN "id"
  ELSE IF ~classified THEN "classification"
  ELSE IF ~IsPair(market.tokens) \/ ~IsPair(market.labels) THEN "outcomes"
  ELSE IF market.condition = "" THEN "condition"
  ELSE IF market.question = "" THEN "question"
  ELSE IF market.orderBook # "yes" THEN "order book"
  ELSE IF market.active # "yes" \/ market.closed = "yes" THEN "not open"
  ELSE "none"

\* The classification is the fixture's, by the market's id; live there is none.
Classification(market, mode, classes) ==
  {c \in classes : mode = "fixture" /\ c.id = market.id}

\* discoverEventMarkets: the markets of all events in their order, those of the
\* assets and windows asked for, and why the others are not.
Reason(market, mode, classes, scope) ==
  LET classified == Classification(market, mode, classes) IN
  IF Rejection(market, classified # {}) # "none" THEN Rejection(market, classified # {})
  ELSE IF \E c \in classified : <<c.asset, c.window>> \in scope THEN "none" ELSE "scope"

Reasons(all, mode, classes, scope) ==
  [i \in DOMAIN all |-> [id |-> all[i].id, reason |-> Reason(all[i], mode, classes, scope)]]

Discover(events, mode, classes, scope) ==
  LET all == FlattenSeq(events)
      reasons == Reasons(all, mode, classes, scope)
  IN [markets  |-> Kept(all, {i \in DOMAIN all : reasons[i].reason = "none"}),
      rejected |-> Kept(reasons, {i \in DOMAIN all : reasons[i].reason # "none"})]

\* summarizeRejections: the five most frequent reasons, with three markets each.
RejectedFor(rejected, reason) == {i \in DOMAIN rejected : rejected[i].reason = reason}
FirstOfReasons(rejected) ==
  Kept(rejected, {i \in DOMAIN rejected : \A j \in 1 .. i - 1 : rejected[j].reason # rejected[i].reason})

SummaryEntry(rejected, reason) ==
  LET named == Kept(rejected, {i \in RejectedFor(rejected, reason) : rejected[i].id # ""})
  IN [reason |-> reason, count |-> Cardinality(RejectedFor(rejected, reason)),
      samples |-> [k \in 1 .. Min({3, Len(named)}) |-> named[k].id]]

RejectionSummary(rejected) ==
  LET firsts == FirstOfReasons(rejected)
      entries == [n \in DOMAIN firsts |-> SummaryEntry(rejected, firsts[n].reason)]
      sorted == Arranged(entries, [n \in DOMAIN entries |-> -entries[n].count])
  IN SubSeq(sorted, 1, Min({5, Len(sorted)}))

-----------------------------------------------------------------------------
Given(metrics, names) == {n \in names : n \in DOMAIN metrics /\ metrics[n] # NoNumber}

\* _input_features, in the engine: the metrics that are numbers, and the middle
\* of the book if it has both sides.
EngineFeatures(metrics) ==
  LET given == Given(metrics, {"bestBid", "bestAsk", "spread", "liquidity", "volume"}) IN
  [numbers |-> [n \in given |-> metrics[n]],
   midpoint |-> IF {"bestBid", "bestAsk"} \subseteq given
                THEN (metrics.bestBid + metrics.bestAsk) \div 2 ELSE NoNumber]

\* quote_placeholder: a request that is not of a binary market with its strings
\* is bad.
QuotePlaceholder(market) ==
  IF market.id = "" \/ ~IsPair(market.labels) THEN [status |-> 400]
  ELSE [status |-> 200, market |-> market.id, labels |-> market.labels, probability |-> "none",
        features |-> EngineFeatures(market.metrics), isPlaceholder |-> TRUE]

\* pricingInputFeatures, in the gateway.
PricingInputFeatures(metrics) ==
  [numbers |-> [n \in Given(metrics, {"bestBid", "bestAsk", "spread", "liquidity", "volume"}) |-> metrics[n]],
   midpoint |-> IF Cardinality(Given(metrics, {"bestBid", "bestAsk"})) = 2
                THEN (metrics.bestBid + metrics.bestAsk) \div 2 ELSE NoNumber]

\* localPricingFallback.
LocalPricingFallback(market) ==
  [market |-> market.id, labels |-> market.labels, probability |-> "none",
   features |-> PricingInputFeatures(market.metrics), isPlaceholder |-> TRUE]

\* quoteFairValue and priceMarket: what the engine answers, if it does and says
\* that it is a placeholder, or else the gateway's own.
PriceMarket(market, engine) ==
  LET answer == QuotePlaceholder(market) IN
  IF engine = "works" /\ answer.status = 200
  THEN [quote |-> [f \in DOMAIN answer \ {"status"} |-> answer[f]], pricing |-> "pricing-engine-v0-placeholder"]
  ELSE [quote |-> LocalPricingFallback(market), pricing |-> "local-placeholder-fallback"]

\* GET /scanner/top.  engine[i] is how the engine takes the i-th request: it
\* works, cannot be reached, fails, or answers with something else.
ScannerTop(events, mode, classes, scope, engine) ==
  LET found == Discover(events, mode, classes, scope)
      priced == [i \in DOMAIN found.markets |-> PriceMarket(found.markets[i], engine[i])]
  IN [candidates |-> [i \in DOMAIN priced |-> priced[i].quote],
      pricing |-> IF \E i \in DOMAIN priced : priced[i].pricing = "local-placeholder-fallback"
                  THEN "local-placeholder-fallback" ELSE "pricing-engine-v0-placeholder",
      rejectedCount |-> Len(found.rejected), summary |-> RejectionSummary(found.rejected)]

\* GET /markets/:id/detail: the first market with the id, or none, priced alone,
\* with up to four others beside it.
MarketsOf(markets, id) == Kept(markets, {i \in DOMAIN markets : markets[i].id = id})
OtherMarkets(markets, id) == Kept(markets, {i \in DOMAIN markets : markets[i].id # id})

MarketDetail(events, mode, classes, scope, engine, id) ==
  LET markets == Discover(events, mode, classes, scope).markets
      own == MarketsOf(markets, id)
      others == OtherMarkets(markets, id)
  IN IF own = <<>> THEN <<>>
     ELSE <<[market |-> own[1], priced |-> PriceMarket(own[1], engine),
             related |-> SubSeq(others, 1, Min({4, Len(others)}))]>>

-----------------------------------------------------------------------------
\* What the ingestor lets pass the engine accepts, and it does not matter for a
\* quote who makes it: only where one came from the gateway does the scanner say
\* so.  No market gets lost between the shown and the rejected ones, each shown
\* one can be looked at, and without classifications nothing is shown.
ScannerIsHonest(events, mode, classes, scope, engine) ==
  LET all == FlattenSeq(events)
      works == [i \in 1 .. Len(all) |-> "works"]
      top == ScannerTop(events, mode, classes, scope, engine)
      best == ScannerTop(events, mode, classes, scope, works)
      summed == Summed([k \in DOMAIN top.summary |-> top.summary[k].count])
  IN /\ top.candidates = best.candidates /\ best.pricing = "pricing-engine-v0-placeholder"
     /\ top.pricing = best.pricing <=> \A i \in DOMAIN top.candidates : engine[i] = "works"
     /\ Len(top.candidates) + top.rejectedCount = Len(all) /\ summed <= top.rejectedCount
     /\ Cardinality({r.reason : r \in Range(Discover(events, mode, classes, scope).rejected)}) <= 5 =>
          summed = top.rejectedCount
     /\ \A i \in DOMAIN top.candidates :
          LET detail == MarketDetail(events, mode, classes, scope, "works", top.candidates[i].market) IN
          /\ detail # <<>> /\ detail[1].market.active = "yes" /\ detail[1].market.closed # "yes"
          /\ detail[1].market.id \notin {m.id : m \in Range(detail[1].related)}
     /\ mode = "live_public" => top.candidates = <<>>
=============================================================================
