--------------------------- MODULE MCResearchRules ---------------------------
(* The rules of the research packages over small sets of inputs: one action *)
(* for each rule picks an input, and an invariant for each rule judges what *)
(* the rule makes of it.  Beside them, the panel that shows signals.        *)
EXTENDS MarketData, Klines, Polymarket, Scanner, StrategyLab, SignalConsole, SignalPanel,
        CaptureScheduler

VARIABLES topic, input
vars == <<topic, input>>

-----------------------------------------------------------------------------
(* Live market data: both providers' replies, one of them from all and the  *)
(* other from a few.                                                         *)
RowSet == [open : {3, 5, 7, 9}, ok : {TRUE}] \cup [open : {7}, ok : {FALSE}]
Answers(rows) == {[kind |-> "answer", rows |-> r] : r \in rows}
FewCandles ==
  Answers({<<[open |-> 5, ok |-> TRUE], [open |-> 7, ok |-> TRUE]>>,
           <<[open |-> 9, ok |-> TRUE]>>}) \cup {[kind |-> "exception"]}
AllCandles ==
  Answers(UNION {[1 .. n -> RowSet] : n \in 0 .. 3})
    \cup {[kind |-> "http error"], [kind |-> "other shape"], [kind |-> "exception"]}
Tickers ==
  {[kind |-> "answer", ticker |-> [symbol |-> s, price |-> p, timed |-> t]] :
     s \in {"BTC", "ETH"}, p \in {"price", NoPrice}, t \in BOOLEAN} \cup {[kind |-> "http error"]}
GoodTicker == [kind |-> "answer", ticker |-> [symbol |-> "BTC", price |-> "price", timed |-> TRUE]]

MarketDataRequests ==
  [symbol : {"BTC"}, interval : {"1m", "10m"}, lookback : {1, 2}, provider : {"binance", "coinbase"},
   sourceMode : {"live"}, now : {11, 12, 15, 16}, step : {2}]
    \cup [symbol : {"BTC"}, interval : {"5m"}, lookback : {2}, provider : {"binance", "coinbase"},
          sourceMode : {"live", "mock"}, now : {17, 25}, step : {10}]

Nets ==
  [binanceTicker : {GoodTicker}, coinbaseTicker : {GoodTicker},
   binanceCandles : AllCandles, coinbaseCandles : FewCandles]
    \cup [binanceTicker : {GoodTicker}, coinbaseTicker : {GoodTicker},
          binanceCandles : FewCandles, coinbaseCandles : AllCandles]
    \cup [binanceTicker : Tickers, coinbaseTicker : Tickers,
          binanceCandles : FewCandles, coinbaseCandles : FewCandles]

AskMarketData ==
  /\ topic = "markets" /\ topic' = "market data"
  /\ \E req \in MarketDataRequests, net \in Nets : input' = [req |-> req, net |-> net]

\* Polymarket's markets: what Gamma lists and finds, what the CLOB answers, and
\* what is known of the past.
GammaMarket ==
  [id |-> 1, titled |-> TRUE, named |-> {"BTC"}, active |-> "yes", closed |-> "no", archived |-> "missing",
   ends |-> 50, source |-> TRUE, tokens |-> 2, prices |-> <<4000, 6100>>, liquidity |-> 500, result |-> "none"]
GammaRows ==
  {GammaMarket, [GammaMarket EXCEPT !.named = {"ETH"}], [GammaMarket EXCEPT !.id = 2, !.named = {"ETH"}],
   [GammaMarket EXCEPT !.id = 3, !.named = {"BTC", "ETH"}], [GammaMarket EXCEPT !.id = 4, !.named = {}],
   [GammaMarket EXCEPT !.id = 5, !.active = "missing", !.closed = "missing"],
   [GammaMarket EXCEPT !.id = 6, !.active = "no"], [GammaMarket EXCEPT !.id = 7, !.closed = "yes"],
   [GammaMarket EXCEPT !.id = 8, !.titled = FALSE]}
FoundRows == {CHOOSE row \in GammaRows : row.id = 5}
GammaReplies(rows, most) ==
  {[kind |-> "answer", rows |-> r] : r \in UNION {[1 .. n -> rows] : n \in 0 .. most}}
    \cup {[kind |-> "failed"], [kind |-> "another shape"]}
ClobBook(bids, asks) == [kind |-> "book", bids |-> bids, asks |-> asks]
FullBook == ClobBook({3900, 4000}, {4200, 4400})
HalfBook == ClobBook({4000}, {})
FailedBook == [kind |-> "failed", bids |-> {}, asks |-> {}]
NoListBook == [kind |-> "no list", bids |-> {}, asks |-> {}]
ClobBooks == {FullBook, HalfBook, ClobBook({}, {}), FailedBook, NoListBook}
ClobAnswers ==
  [yesBook : ClobBooks, noBook : ClobBooks, yesMid : {Null, 4100, Failed}, noMid : {Null, 5900, Failed},
   yesSpread : {Null, 300, 900, Failed}, noSpread : {Null, 200}, yesPrice : {Null, 4200, Failed},
   noPrice : {5800}]
GoodClob ==
  [yesBook |-> ClobBook({4000}, {4200}), noBook |-> ClobBook({5800}, {6000}), yesMid |-> 4100,
   noMid |-> 5900, yesSpread |-> 200, noSpread |-> 200, yesPrice |-> 4200, noPrice |-> 6000]
ClosedRows ==
  {[GammaMarket EXCEPT !.id = 1, !.ends = 30, !.result = "yes"], [GammaMarket EXCEPT !.id = 2, !.ends = Null],
   [GammaMarket EXCEPT !.id = 3, !.ends = 70, !.named = {"ETH"}, !.result = "50-50"],
   [GammaMarket EXCEPT !.id = 4, !.ends = 50, !.result = "no"]}
ClosedWindow == [start |-> 20, end |-> 70]
ClosedParts == [start : {30}, end : {40, 50, 69}]
PricePoints == [time : {10, 20, 30}, price : {4000, 5000, Null}]
OddsPrices == {<<>>, <<4000, 6100>>}
OddsLiquidities == {Null, 50, 500}
EachClob == [id \in 1 .. 8 |-> GoodClob]

AskDiscovery ==
  /\ topic = "markets" /\ topic' = "discovery"
  /\ \E active \in GammaReplies(GammaRows, 3), symbol \in {"BTC", "ETH", "ALL"}, limit \in {1, 2},
        btc \in GammaReplies(FoundRows, 1), eth \in GammaReplies({}, 0) :
       input' = [gamma |-> [active |-> active, BTC |-> btc, ETH |-> eth],
                 req |-> [symbol |-> symbol, limit |-> limit]]
OddsMarket(prices, tokens, liquidity) ==
  [GammaMarket EXCEPT !.prices = prices, !.tokens = tokens, !.liquidity = liquidity]
OddsAreAsked(clob, tokens, liquidity) ==
  /\ tokens = 1 => clob = GoodClob \/ clob.yesBook.kind = "no list"
  /\ liquidity # 500 => clob.yesPrice = 4200
AskOdds ==
  /\ topic = "markets" /\ topic' = "odds"
  /\ \E clob \in ClobAnswers, prices \in OddsPrices, tokens \in {1, 2}, liquidity \in OddsLiquidities :
       /\ OddsAreAsked(clob, tokens, liquidity)
       /\ input' = [clob |-> clob, candidate |-> MapGammaMarket(OddsMarket(prices, tokens, liquidity))]
AskPastOdds ==
  /\ topic = "markets" /\ topic' = "past odds"
  /\ \/ \E reply \in GammaReplies(ClosedRows, 2), symbol \in {"BTC", "ALL"}, part \in ClosedParts :
          input' = [closed |-> reply, symbol |-> symbol, part |-> part]
     \/ \E reply \in GammaReplies(PricePoints, 3), when \in {5, 20, 30} :
          input' = [points |-> reply, time |-> when]

-----------------------------------------------------------------------------
(* Historical candles.  Pages hold two rows, and three pages are asked for at *)
(* most, so that a range can be longer than what they hold.                 *)
Price(open) == (open * 5) % 4
CandleAt(open) ==
  [open |-> open, first |-> Price(open), last |-> Price(open + 1), volume |-> 1 + (open % 3),
   high |-> Price(open) + Price(open + 1), low |-> 0]
KlineRequest(start, end, now, source, ratio, limit) ==
  [now |-> now, start |-> start, end |-> end, source |-> source, step |-> 2, ratio |-> ratio,
   limit |-> limit, lowest |-> 2, highest |-> 4, pageLimit |-> 2, maxPages |-> 3]
KlineRequests ==
  {KlineRequest(w[1], w[2], w[2], source, ratio, limit) :
     w \in {<<0, 9>>, <<0, 12>>, <<2, 16>>, <<4, 4>>}, source \in {"any", "live"},
     ratio \in {1, 3}, limit \in {1, 3}}
Providers ==
  [candles : {{CandleAt(o) : o \in opens} : opens \in SUBSET {0, 2, 4, 6, 8}},
   pages : {p \in [1 .. 3 -> PageKinds] : Cardinality({n \in 1 .. 3 : p[n] # "as asked"}) <= 2}]

AskHistory ==
  /\ topic = "markets" /\ topic' = "history"
  /\ \E req \in KlineRequests, provider \in Providers :
       input' = [req |-> req, provider |-> provider]

\* A chart's candles from stored ones.
AskChart ==
  /\ topic = "markets" /\ topic' = "chart"
  /\ \E opens \in SUBSET {2 * i : i \in 0 .. 9}, ratio \in {1, 2, 3}, end \in {12, 17, 19} :
       input' = [store |-> {CandleAt(o) : o \in opens},
                 req |-> KlineRequest(2, end, end, "any", ratio, 4)]

AskRange ==
  /\ topic = "markets" /\ topic' = "range"
  /\ \E interval \in {"1m", "5m", "10m", "15m", "30m", "1h", "4h", "1d", "1w", "1M"},
       range \in Range(RangeOrder), days \in {3000, 5000} :
       input' = [interval |-> interval, range |-> range, days |-> days]

\* What a chart shows: live candles that are fresh or fail, and fail only where no
\* provider could do better; history that is whole or says it is not, and that
\* need not be fetched twice; cached candles without holes; derived ones of the
\* whole of their intervals; and of a range no more than the pages can hold.
CandlesAreSound ==
  /\ topic = "market data" =>
       ResponseIsSound(input.req, input.net) /\ ResponseIsBest(input.req, input.net)
  /\ topic = "history" =>
       /\ HistoryIsHonest(input.provider, input.req)
       /\ FetchedOnceIsEnough(input.provider, input.req)
  /\ topic = "chart" =>
       CacheIsWhole(input.store, input.req) /\ DerivedCandlesAreRight(input.store, input.req)
  /\ topic = "range" => RangeFitsPages(input.interval, input.range, 80, 1000, input.days)

-----------------------------------------------------------------------------
(* The fair value signal.  A market's text and its odds are varied in turn,  *)
(* from a market that is eligible.                                           *)
MarketText(words, tokens, source) ==
  [named |-> {"BTC"}, tokens |-> tokens, dollars |-> <<100>>, suffixed |-> <<>>, words |-> words,
   expiry |-> 60, source |-> source]
TextOf(words) == MarketText(words, TRUE, TRUE)
GoodText == TextOf({"above", "definite"})
GoodOdds ==
  [yes |-> 5000, no |-> 5000, spread |-> 400, liquidity |-> "ok", failClosedReasons |-> {}]
Million == <<1000000>>
Texts ==
  [named : {{}, {"BTC"}, {"ETH"}, {"BTC", "ETH"}}, tokens : {TRUE}, dollars : {<<>>, <<5, 100>>},
   suffixed : {<<>>, Million}, expiry : {Null, 30, 60}, source : {TRUE},
   words : SUBSET {"above", "below", "hit", "before"}]
    \cup {MarketText({"above", "definite"}, FALSE, TRUE), MarketText({"above", "definite"}, TRUE, FALSE),
          TextOf({"below", "vague"}), TextOf({"above", "trades above"}),
          TextOf({"above", "touch"})}
OddsReasons == {{}, {"no book"}}
Odds ==
  [yes : {Null, 3000, 5000, 9500}, no : {Null, 4800, 5200}, spread : {Null, 400, 900},
   liquidity : {"unknown", "thin", "ok"}, failClosedReasons : OddsReasons]

\* Prices by the minute, flat or not, with one that has no price.
CandlesTo(last, kind) ==
  [i \in 1 .. last |-> [time |-> 4 * i, close |-> CASE kind = "flat" -> 101
                                                    [] kind = "gap"  -> IF i = 3 THEN 0 ELSE 101
                                                    [] OTHER         -> 95 + (i % 7)]]
FairValueOptions ==
  [maxSpread : {800}, minLiquidity : {"ok", "thin"}, now : {45}, minEdge : {0, 250}, cost : {0, 25},
   minConfidence : {0, 1000}, lookback : {Null, 11}, cdf : {0, 4900, 9000}]

FairValueOfTexts(options, last, kind) ==
  /\ options.cdf = 9000 /\ options.lookback = Null /\ options.minConfidence = 0
  /\ last = 14 /\ options.minLiquidity = "ok" /\ options.cost = 25
  /\ \E text \in Texts :
       input' = [options |-> options, candles |-> CandlesTo(last, kind),
                 markets |-> <<[text |-> text, odds |-> GoodOdds], [text |-> GoodText, odds |-> GoodOdds]>>]
FewOptions(options) == options.minEdge = 0 /\ options.cost = 0 /\ options.cdf = 4900
FairValueOfOdds(options, last, kind) ==
  \E odds \in Odds, words \in {{"above"}, {"below"}} :
    /\ Null \in {odds.yes, odds.no, odds.spread} => FewOptions(options)
    /\ input' = [options |-> options, candles |-> CandlesTo(last, kind),
                 markets |-> <<[text |-> TextOf(words), odds |-> odds]>>]

AskFairValue ==
  /\ topic = "markets" /\ topic' = "fair value"
  /\ \E options \in FairValueOptions, last \in {9, 14}, kind \in {"flat", "gap", "rough"} :
       FairValueOfTexts(options, last, kind) \/ FairValueOfOdds(options, last, kind)

FairValueAnswer(in) ==
  LET markets == [i \in DOMAIN in.markets |->
                    BindMarket(in.markets[i].text, in.markets[i].odds, [BTC |-> 101])]
  IN FairValueResponse(markets, [BTC |-> Null, ETH |-> 99], [BTC |-> in.candles, ETH |-> <<>>],
                       15, in.options)

\* A signal to buy names a market and a side that the numbers bear out, and no
\* market gets lost.
FairValueIsSound ==
  topic = "fair value" =>
    LET response == FairValueAnswer(input) IN
    SignalsArePriced(response, input.options) /\ EveryMarketIsAccounted(input.markets, response)

\* The scanner: markets that are fine or have one thing wrong with them.
IngestedMarket ==
  [id |-> "m1", tokens |-> <<"yes", "no">>, labels |-> <<"Up", "Down">>, condition |-> "c", question |-> "q",
   orderBook |-> "yes", active |-> "yes", closed |-> "missing",
   metrics |-> [bestBid |-> 40, bestAsk |-> 44, volume |-> 9]]
IngestedMarkets ==
  {IngestedMarket, [IngestedMarket EXCEPT !.id = "m2", !.metrics = [bestBid |-> NoNumber, bestAsk |-> 44]],
   [IngestedMarket EXCEPT !.id = "m3"], [IngestedMarket EXCEPT !.id = ""], [IngestedMarket EXCEPT !.id = "new"],
   [IngestedMarket EXCEPT !.tokens = <<"yes">>], [IngestedMarket EXCEPT !.labels = <<"", "No">>],
   [IngestedMarket EXCEPT !.condition = ""], [IngestedMarket EXCEPT !.question = ""],
   [IngestedMarket EXCEPT !.orderBook = "missing"], [IngestedMarket EXCEPT !.active = "missing"],
   [IngestedMarket EXCEPT !.id = "m2", !.closed = "yes"]}
Classes == {[id |-> "m1", asset |-> "BTC", window |-> "10m"], [id |-> "m2", asset |-> "ETH", window |-> "1h"],
            [id |-> "m3", asset |-> "ETH", window |-> "1d"]}

ScannerScope == {"BTC", "ETH"} \X {"10m", "1h"}

AskScanner ==
  /\ topic = "markets" /\ topic' = "scanner"
  /\ \E first \in [1 .. 2 -> IngestedMarkets], second \in {<<>>} \cup [1 .. 1 -> IngestedMarkets],
        mode \in {"fixture", "live_public"}, engine \in [1 .. 3 -> {"works", "down"}] :
       input' = [events |-> <<first, second>>, mode |-> mode, engine |-> engine]

\* Of Polymarket's markets, that each is found once, fit for research only with
\* odds of its own, and its past whole; and that a scanner's list has what it
\* was given, and says of placeholders for prices that they are none.
PolymarketIsSound ==
  /\ topic = "discovery" => DiscoveryIsSound(input.gamma, EachClob, input.req)
  /\ topic = "odds" => EligibleOddsAreLive(input.candidate, input.clob)
  /\ topic = "past odds" =>
       IF "closed" \in DOMAIN input
       THEN ClosedWindowsNest(input.closed, input.symbol, ClosedWindow, input.part)
       ELSE HistoryIsWhole(input.points, input.time)
  /\ topic = "scanner" =>
       ScannerIsHonest(input.events, input.mode, Classes, ScannerScope, input.engine)

(* The replay: one market with today's odds and one that has closed, over a  *)
(* window that ends now, or did half an hour ago.                            *)
ReplayText(words, expiry) == [GoodText EXCEPT !.words = words, !.expiry = expiry]
ReplayWords == {{"above"}, {"below", "definite"}, {"hit"}}
ReplayTexts == {ReplayText(words, expiry) : words \in ReplayWords, expiry \in {Null, 40, 50, 70}}
ReplayOdds == {[GoodOdds EXCEPT !.yes = p, !.no = 10100 - p] : p \in {2000, 8000}}
OpenMarkets(text, odds) == <<BindMarket(text, odds, [BTC |-> 101]), BindMarket(GoodText, GoodOdds, [BTC |-> 101])>>
ClosedMarkets ==
  [candidate : {ReplayText({"above", "definite"}, expiry) : expiry \in {Null, 30, 60}},
   resolved : {"YES", "none"}, failed : {FALSE}, history : {<<>>, <<[time |-> 20, price |-> 4000]>>}]
ReplayWindows ==
  {w \in {ResolveWindow([id |-> "custom", start |-> 10, end |-> end], 60) : end \in {5, 45, 60}} : w.ok}
PricesOfRuns == {CandlesTo(last, kind) : last \in {11, 16}, kind \in {"flat", "rough"}}
ReplayOptions ==
  [maxSpread : {800}, minLiquidity : {"ok"}, now : {0}, minEdge : {250}, cost : {25},
   minConfidence : {0}, lookback : {Null}, cdf : {4900, 9000}]
ActiveLists == {OpenMarkets(t, o) : t \in ReplayTexts, o \in ReplayOdds}
ClosedLists == {<<>>} \cup {<<c>> : c \in ClosedMarkets}
ReplayRuns ==
  [window : ReplayWindows, checkedAt : {60}, minutes : {1, 30}, candles : PricesOfRuns,
   options : ReplayOptions, activeFailed : {FALSE}, active : ActiveLists, closed : ClosedLists]

AskReplay ==
  /\ topic = "markets" /\ topic' = "replay"
  /\ \E run \in ReplayRuns : input' = run

\* A replay's signals do not depend on candles that began after them, its rate
\* counts decided bets, and a window that ends now has none.
ReplayIsSound ==
  topic = "replay" => ReplayIsHonest(input, RunSignalReplay(input))

\* What the API's document says (docs/api/research-signals.md:286): prices of
\* after the signal, today's odds of an open market, do not influence it.
ReplayIgnoresLaterOdds == topic = "replay" => SignalsIgnoreLaterOdds(input, ReplayOdds)

-----------------------------------------------------------------------------
(* The strategy lab: grids of values, some of which are refused; a sweep by   *)
(* concurrent workers; and a ranking with walk-forward validation of the mock *)
(* replay's results, which lie twelve minutes apart.                          *)
GridOptions ==
  [intervals : {<<"5m">>, <<"1h", "10m", "5m", "1h">>, <<"4h">>}, minEdge : {<<>>, <<500, 200, 500>>},
   maxSpread : {<<500>>, <<0, 1500, 500>>}, lookback : {<<20, 100>>, <<5, 2000, 50>>},
   minConfidence : {<<0, 4000>>}, fees : {<<50, 0>>, <<-1, 25>>}, slippage : {<<0, 50>>},
   maxCombinations : {Null, 0, 5, 20, 500}]

AskGrid == topic = "markets" /\ topic' = "grid" /\ \E options \in GridOptions : input' = options

AskSweep == topic = "markets" /\ topic' = "sweep" /\ \E n \in {0, 1, 3, 7} : input' = SweepStart(n)
SweepTakes ==
  /\ topic = "sweep" /\ topic' = "sweep"
  /\ \E w \in DOMAIN input.at : input.at[w] = 0 /\ w \notin input.done /\ input' = WorkerTakes(input, w)
SweepAnswers ==
  /\ topic = "sweep" /\ topic' = "sweep"
  /\ \E w \in DOMAIN input.at : input.at[w] # 0 /\ input' = WorkerAnswers(input, w)
SweepFails ==
  /\ topic = "sweep" /\ topic' = "sweep" /\ ~input.failed
  /\ \E w \in DOMAIN input.at : input.at[w] # 0 /\ input' = WorkerFails(input, w)

MockResult(kind, when) ==
  [signal |-> [side |-> IF kind = "rejected" THEN "REJECTED" ELSE "LONG_YES", time |-> when,
               edge |-> IF kind = "rejected" THEN Null ELSE 600, confidence |-> 5000],
   status |-> CASE kind = "win" -> "WIN" [] kind = "loss" -> "LOSS" [] kind = "open" -> "PENDING"
                [] OTHER -> "REJECTED",
   counted |-> kind \in {"win", "loss"}, entry |-> IF kind = "rejected" THEN Null ELSE 4500,
   pnl |-> CASE kind = "win" -> 5500 [] kind = "loss" -> -4500 [] OTHER -> Null]
LabGrid ==
  <<<<"5m", 200, 500, 50, 0, 0, 0>>, <<"5m", 200, 1500, 20, 0, 25, 25>>, <<"1h", 200, 1500, 50, 0, 0, 0>>>>

AskLab ==
  /\ topic = "markets" /\ topic' = "lab"
  /\ \E kinds \in [1 .. 7 -> {"win", "loss", "open"}], ratios \in {<<50, 25>>, <<40, 10>>} :
       /\ kinds[7] # "open" /\ kinds[1] = "win"
       /\ input' = [fixture |-> [i \in 1 .. 7 |-> MockResult(kinds[i], 12 * i)], minSamples |-> MinSampleCount(2),
                    windows |-> RollingWindows(0, 90, ratios[1], ratios[2])]

\* The lab's grid is whole, its sweep keeps every result at its place, its
\* validation is out of sample and its candidates have nothing against them.
LabIsSound ==
  /\ topic = "grid" => GridIsWhole(input)
  /\ topic = "sweep" => SweepKeepsPlaces(input)
  /\ topic = "lab" =>
       /\ ChoiceIsOutOfSample(input.fixture, input.windows, LabGrid, input.minSamples)
       /\ \A p \in Range(LabGrid) :
            ParametersOnlyFilter(input.fixture, [start |-> 0, end |-> 90], ReplayParameters(p),
                                 [ReplayParameters(p) EXCEPT !.minEdge = @ + 100], p[1])
       /\ CandidatesAreSound(input.fixture, [start |-> 0, end |-> 90], LabGrid,
                             WalkForward(input.fixture, input.windows, LabGrid, input.minSamples),
                             input.minSamples)

-----------------------------------------------------------------------------
(* The short-window terminal: prices that climb, fall, turn or jump, with or  *)
(* without a gap, and a ticker before, within or after the window so far.    *)
Shapes == [up |-> <<20, 20, 20, 20, 20>>, down |-> <<-20, -20, -20, -20, -20>>,
           turn |-> <<30, 30, 30, -50, -40>>, flat |-> <<0, 0, 0, 0, 0>>,
           jump |-> <<300, -300, 200, -200, 0>>, drift |-> <<3, 3, 3, 3, 3>>,
           fade |-> <<20, 20, 20, 20, -10>>]
MinutePrice(shape, n) ==
  10000 + (n \div 5) * (Shapes[shape][1] + Shapes[shape][2] + Shapes[shape][3]
                           + Shapes[shape][4] + Shapes[shape][5])
        + Summed(SubSeq(Shapes[shape], 1, n % 5))
Minutes(shape, from, to, gaps) ==
  LET all == [i \in 1 .. to - from + 1 |->
                [open |-> 60 * (from + i - 1), first |-> MinutePrice(shape, from + i - 1),
                 last |-> MinutePrice(shape, from + i)]]
  IN Kept(all, {i \in DOMAIN all : all[i].open \notin gaps})
WindowRules == {RuleTemplate("proxy-generic"), RuleTemplate("mock"), RuleTemplate("hibit"),
                AverageTemplate(60, 60)}

AskWindow ==
  /\ topic = "signals" /\ topic' = "window"
  /\ \E rule \in WindowRules, shape \in DOMAIN Shapes, interval \in {300, 600},
       now \in {1215, 1290, 1380, 1480, 1481, 1560}, tick \in {Null, -5, 0, 60},
       tickerTime \in {Null, 1190, 1360, 1481}, last \in {17, 22}, spread \in {2, 90} :
       /\ tick = Null => tickerTime = Null
       /\ input' = [rule |-> rule, interval |-> interval, now |-> now,
                    market |-> [price |-> IF tick = Null THEN Null ELSE MinutePrice(shape, last + 1) + tick,
                                tickerTime |-> tickerTime, spread |-> spread,
                                candles |-> Minutes(shape, 12, last, {})]]

AskWindows ==
  /\ topic = "signals" /\ topic' = "windows"
  /\ \E rule \in WindowRules, shape \in DOMAIN Shapes, interval \in {300, 600},
       gaps \in SUBSET {600, 1080, 1140}, duration \in {700, 900}, failed \in BOOLEAN :
       input' = [rule |-> rule, interval |-> interval, duration |-> duration, now |-> 1230,
                 failed |-> failed, candles |-> Minutes(shape, 0, 22, gaps)]

MockScenarios ==
  <<[time |-> 240, side |-> "LONG_UP", status |-> "WIN"], [time |-> 540, side |-> "LONG_DOWN", status |-> "WIN"],
   [time |-> 840, side |-> "LONG_UP", status |-> "LOSS"], [time |-> 1190, side |-> "WAIT", status |-> "WAIT"],
   [time |-> 1140, side |-> "REJECTED", status |-> "REJECTED"]>>
MockWindows(in) ==
  [i \in DOMAIN MockScenarios |->
     MockScenarioResult(MockScenarios[i], in.interval, in.candles, in.now)]

\* A window's direction is backed by its rule, its time and a fresh price; the
\* replay of past windows does not look ahead, and its numbers add up.
ShortWindowIsSound ==
  /\ topic = "window" => DirectionIsBacked(input.rule, input.interval, input.now, input.market)
  /\ topic = "windows" =>
       /\ WindowsKnowThePast(input.rule, input.interval, input.candles, input.now - input.duration,
                             input.now)
       /\ WindowsAddUp(RunShortWindowReplay(input.rule, input.interval, input.duration, input.candles,
                                            input.failed, input.now), input.candles)
       /\ WindowsAddUp(MockWindows(input), input.candles)

\* A window is judged from the price it started at.  A live direction lies on its
\* side of that reference, as its own reason says (signal-engine.ts:88), and the
\* bet on a past window is settled against it, as the rule's note says
\* (rule-templates.ts:45).
WindowsAreJudgedFromTheirStart ==
  /\ topic = "window" =>
       DirectionAgreesWithReference(input.rule, input.interval, input.now, input.market)
  /\ topic = "windows" =>
       BetsAreSettledByStart(RunShortWindowReplay(input.rule, input.interval, input.duration,
                                                  input.candles, input.failed, input.now), input.candles)

-----------------------------------------------------------------------------
(* Directional signals: features as candles can have them (the band is      *)
(* squeezed exactly where it is narrow), then candles of a few shapes.      *)
Trends == {[gap |-> 3000, slope |-> 1000, above |-> 3500], [gap |-> 1300, slope |-> 350, above |-> 1400],
           [gap |-> 500, slope |-> 60, above |-> 300], [gap |-> -100, slope |-> 30, above |-> 0]}
Moves == {[r1 |-> 1300, r3 |-> 3100, r5 |-> 5200], [r1 |-> 600, r3 |-> 1500, r5 |-> 2500],
          [r1 |-> -300, r3 |-> 1500, r5 |-> 3000], [r1 |-> 200, r3 |-> -400, r5 |-> 0],
          [r1 |-> -1300, r3 |-> -3100, r5 |-> -5200]}
Macds == {[hist |-> 400, histSlope |-> 100], [hist |-> 250, histSlope |-> -50], [hist |-> -300, histSlope |-> -80]}
Bands == {[regime |-> "normal", expansion |-> TRUE, width |-> 20000, atr |-> 3000],
          [regime |-> "high", expansion |-> FALSE, width |-> 40000, atr |-> 10500],
          [regime |-> "low", expansion |-> FALSE, width |-> 8000, atr |-> 1500]}
Contexts == {NoContext, [news |-> 40, posts |-> 50, macro |-> "risk_on", eventRisk |-> FALSE]}

ConfluenceFeatures(t, m, d, b, rsi, band, z) ==
  [gap |-> t.gap, slope |-> t.slope, above |-> t.above, r1 |-> m.r1, r3 |-> m.r3, r5 |-> m.r5,
   hist |-> d.hist, histSlope |-> d.histSlope, histAtr |-> Over(d.hist * 1000, b.atr) * 1000,
   regime |-> b.regime, expansion |-> b.expansion, width |-> b.width, atr |-> b.atr,
   squeeze |-> b.width < 12000, rsi |-> rsi, band |-> band, z |-> z, abnormal |-> Size(z) >= 15]
Features ==
  {ConfluenceFeatures(t, m, d, b, rsi, band, z) :
     t \in Trends, m \in Moves, d \in Macds, b \in Bands, rsi \in {50, 80}, band \in {50, 95},
     z \in {-20, 6, 25}}

AskConfluence ==
  /\ topic = "signals" /\ topic' = "confluence"
  /\ \E features \in Features, context \in Contexts, horizon \in {"5m", "10m"} :
       input' = [features |-> features, context |-> context, horizon |-> horizon]

Closes == [up |-> [i \in 1 .. 48 |-> 10000 + 2 * i + ((i * i) \div 4)],
           down |-> [i \in 1 .. 48 |-> 10000 - 2 * i - ((i * i) \div 4)],
           turn |-> [i \in 1 .. 48 |-> IF i <= 40 THEN 10000 + 2 * i + ((i * i) \div 4)
                                       ELSE 10480 - 25 * (i - 40)],
           chop |-> [i \in 1 .. 48 |-> 10000 + 13 * (i % 2)],
           flat |-> [i \in 1 .. 48 |-> 10000]]
SignalCandles(shape, n, last) ==
  [i \in 1 .. n |->
     LET close == Closes[shape][i]
         open == IF i = 1 THEN close ELSE Closes[shape][i - 1]
     IN [time |-> last - n + i, close |-> close, high |-> Max({open, close}) + 10,
         low |-> Min({open, close}) - 10, volume |-> 180 + 7 * i + 8 * (i % 5) + (IF i > n - 5 THEN 22 ELSE 0)]]
Asks == {[horizon |-> "5m", profile |-> "balanced", context |-> NoContext],
         [horizon |-> "10m", profile |-> "aggressive", context |-> NoContext]}

SourceOf(kind, candles, stated, failures) ==
  [kind |-> kind, source |->
     [candles |-> candles, price |-> Null, failures |-> failures, health |-> "ok",
      freshness |-> IF stated THEN [stale |-> FALSE, age |-> Max({0, 100 - LatestTime(candles) - 1}), maxAge |-> 3]
                    ELSE NoFreshness]]

Risks == {NoContext, [NoContext EXCEPT !.eventRisk = TRUE], [NoContext EXCEPT !.macro = "risk_on"]}
FailureSets == {{}, {"ticker"}}
ConsoleKinds == {"candles", "market data", "fixture"}
ConsoleCandles ==
  {SignalCandles(shape, n, last) :
     shape \in {"up", "down", "turn"}, n \in {34, 35, 46}, last \in {95, 96, 99}}
ConsoleInput(ask, kind, candles, failures) ==
  [ask |-> ask, wanted |-> TRUE, fetched |-> SourceOf(kind, candles, kind = "candles", failures)]

AskConsole ==
  /\ topic = "signals" /\ topic' = "console"
  /\ \E ask \in Asks, candles \in ConsoleCandles, kind \in ConsoleKinds, failures \in FailureSets, risk \in Risks :
       /\ kind = "fixture" <=> risk # NoContext
       /\ kind = "fixture" <=> Len(candles) = 46
       /\ kind = "fixture" => LatestTime(candles) = 99 /\ failures = {}
       /\ input' = ConsoleInput([ask EXCEPT !.context = risk], kind, candles, failures)

ConsoleOf(in) ==
  BuildConsoleResponse(IF in.fetched.kind = "fixture"
                       THEN FixtureConsole(in.ask, in.fetched.source.candles, 100)
                       ELSE LiveConsole(in.ask, in.fetched), in.wanted, 100)

AskPast ==
  /\ topic = "signals" /\ topic' = "past"
  /\ \E ask \in Asks, shape \in DOMAIN Closes, n \in {40, 46} :
       input' = [ask |-> ask, candles |-> SignalCandles(shape, 48, 99), n |-> n]

Samples ==
  {[entry |-> e, outcome |-> o, entryPrice |-> 10000, outcomePrice |-> price,
    candles |-> SignalCandles(shape, n, 80)] :
     e \in {79, 80}, o \in {80, 85}, price \in {9900, 10200}, shape \in {"up", "down", "flat"}, n \in {3, 5}}

AskBacktest ==
  /\ topic = "signals" /\ topic' = "backtest"
  /\ \E a, b \in Samples : input' = <<a, b>>

\* Directions are even, given for good data only, and from no later candle.
SignalsAreSound ==
  /\ topic = "confluence" => DirectionsAreEven(input.features, "ok", input.context, input.horizon)
  /\ topic = "console" =>
       /\ ConsoleFailsClosed(input.fetched.source.failures, ConsoleOf(input), 100)
       /\ FailuresStayApart(input.ask, input.fetched, 100)
  /\ topic = "past" => PastIsKept(input.ask, input.candles, input.n)
  /\ topic = "backtest" => BacktestIsHonest(input)

-----------------------------------------------------------------------------
(* The panel, over few minutes and consoles.                                 *)
PanelPrices == [minute \in 1 .. 6 |-> 100 + ((minute * minute) % 5)]
PanelSignals == {<<"LONG", 70, TRUE>>, <<"SHORT", -70, TRUE>>, <<"NO_SIGNAL", 0, FALSE>>}
NoPanel ==
  /\ clock = 0 /\ auto = FALSE /\ selected = "none" /\ snapshot = NoRequest /\ observations = <<>>
  /\ stored = <<>> /\ status = "idle" /\ request = NoRequest /\ consoles = 0 /\ loads = 0

\* What the panel shows and logs is what consoles said.
PanelStaysHonest == topic = "panel" => PanelIsHonest

\* While the page stays, the log grows in front and keeps what is resolved.
PanelKeepsItsPast == [][topic = "panel" => LogKeepsItsPast]_panelVars

-----------------------------------------------------------------------------
(* The scheduler of captures, with jobs due at every time, every second, and *)
(* every third.                                                               *)
CaptureSchedule == <<1, 2, 3>>

-----------------------------------------------------------------------------
Init == /\ input = <<>> /\ SchedulerInit
        /\ \/ topic \in {"markets", "signals"} /\ NoPanel
           \/ topic = "panel" /\ PanelInit
           \/ topic = "scheduler" /\ NoPanel
Rules == AskMarketData \/ AskDiscovery \/ AskOdds \/ AskPastOdds \/ AskScanner \/ AskHistory \/ AskChart
         \/ AskRange \/ AskFairValue \/ AskReplay \/ AskGrid \/ AskSweep \/ SweepTakes \/ SweepAnswers
         \/ SweepFails \/ AskLab \/ AskConfluence \/ AskBacktest \/ AskWindow \/ AskWindows \/ AskPast
         \/ AskConsole
Next == \/ Rules /\ UNCHANGED <<panelVars, schedulerVars>>
        \/ topic = "panel" /\ PanelNext /\ UNCHANGED <<topic, input, schedulerVars>>
        \/ topic = "scheduler" /\ SchedulerNext /\ UNCHANGED <<topic, input, panelVars>>
Spec == Init /\ [][Next]_<<vars, panelVars, schedulerVars>>
=============================================================================
