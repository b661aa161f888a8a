------------------------------- MODULE MarketData -------------------------------
(***************************************************************************)
(* One request for live market data: the Binance and Coinbase adapters, and *)
(* the gateway's fetcher, which asks Coinbase when Binance fails closed.    *)
(*                                                                         *)
(* A request has a symbol, an interval, a lookback, a provider, a source   *)
(* mode, its time `now' and the interval's length `step'.  Time counts in  *)
(* units of which a minute has Minute.  What a provider answers is a reply: *)
(* its kind ("answer", "http error", "other shape" or "exception", which a  *)
(* timeout's abort is too), and for a list of candles its rows, of which   *)
(* only the open time matters and whether the numbers in it parse.         *)
(***************************************************************************)
EXTENDS Integers, Sequences, FiniteSets, SequencesExt, Lists

Minute == 2

NoTime == -1

IsBinanceNativeInterval(interval) == interval # "10m"
IsCoinbaseSupportedInterval(interval) == interval \in {"1m", "5m", "15m", "1h"}

LastOf(s, n) == SubSeq(s, IF Len(s) > n THEN Len(s) - n + 1 ELSE 1, Len(s))

\* A candle is closed when its interval is over.  Binance says when a candle
\* closes, one millisecond before the next one opens.
BinanceRow(row, req) ==
  [open |-> row.open, provider |-> "binance", closed |-> req.now >= row.open + req.step]
CoinbaseRow(row, req) ==
  [open |-> row.open, provider |-> "coinbase", closed |-> req.now >= row.open + req.step]

-----------------------------------------------------------------------------
\* How old the end of the latest closed candle may be.
MaxAge(req) == IF req.step = Minute THEN 3 * Minute ELSE 2 * req.step + Minute

Age(latest, req) == req.now - (latest.open + req.step)

EmptyFailClosed == [candles |-> <<>>, failed |-> TRUE, lastCandleTime |-> NoTime]

\* The candles of an answer that parsed: closed ones only, oldest first, and
\* not more than asked for.
Parsed(candles, req) ==
  LET closed == Arranged(candles, [i \in {i \in DOMAIN candles : candles[i].closed} |-> candles[i].open])
      fewer == Len(closed) < req.lookback
      stale == closed # <<>> /\ Age(Last(closed), req) > MaxAge(req)
  IN [candles |-> LastOf(closed, req.lookback),
      failed  |-> fewer \/ stale \/ closed = <<>>,
      lastCandleTime |-> IF closed = <<>> THEN NoTime ELSE Last(closed).open]

\* One bad row and nothing of the answer is used.
BinanceKlines(rows, req) ==
  IF \E i \in DOMAIN rows : ~rows[i].ok THEN EmptyFailClosed
  ELSE Parsed([i \in DOMAIN rows |-> BinanceRow(rows[i], req)], req)

\* Bad rows are left out.
CoinbaseCandles(rows, req) ==
  LET good == Kept(rows, {i \in DOMAIN rows : rows[i].ok}) IN
  Parsed([i \in DOMAIN good |-> CoinbaseRow(good[i], req)], req)

FetchBinanceSpotCandles(req, reply) ==
  IF req.sourceMode = "live" /\ IsBinanceNativeInterval(req.interval) /\ reply.kind = "answer"
  THEN BinanceKlines(reply.rows, req) ELSE EmptyFailClosed

FetchCoinbaseExchangeCandles(req, reply) ==
  IF req.sourceMode = "live" /\ IsCoinbaseSupportedInterval(req.interval)
     /\ reply.kind = "answer"
  THEN CoinbaseCandles(reply.rows, req) ELSE EmptyFailClosed

NoPrice == "null"
EmptyTicker == [price |-> NoPrice, failed |-> TRUE]

\* The ticker has to be of the symbol asked for and to have a price.
BinanceTicker(ticker, req) ==
  IF ticker.symbol = req.symbol /\ ticker.price # NoPrice
  THEN [price |-> ticker.price, failed |-> FALSE] ELSE EmptyTicker

\* Coinbase names no symbol in its ticker, but it has to have a time.
CoinbaseTicker(ticker, req) ==
  IF ticker.price # NoPrice /\ ticker.timed
  THEN [price |-> ticker.price, failed |-> FALSE] ELSE EmptyTicker

FetchBinanceSpotTicker(req, reply) ==
  IF reply.kind = "answer" THEN BinanceTicker(reply.ticker, req) ELSE EmptyTicker

FetchCoinbaseExchangeTicker(req, reply) ==
  IF reply.kind = "answer" THEN CoinbaseTicker(reply.ticker, req) ELSE EmptyTicker

\* Ticker and candles are fetched at the same time and put together.
Joined(provider, ticker, result) ==
  [provider |-> provider, latestPrice |-> ticker.price, candles |-> result.candles,
   lastCandleTime |-> result.lastCandleTime, failed |-> ticker.failed \/ result.failed]

EmptyFailClosedMarketData(provider) == Joined(provider, EmptyTicker, EmptyFailClosed)

FetchBinanceSpotMarketData(req, net) ==
  IF req.sourceMode = "live" /\ IsBinanceNativeInterval(req.interval)
  THEN Joined("binance", FetchBinanceSpotTicker(req, net.binanceTicker),
              FetchBinanceSpotCandles(req, net.binanceCandles))
  ELSE EmptyFailClosedMarketData("binance")

FetchCoinbaseExchangeMarketData(req, net) ==
  IF req.sourceMode = "live" /\ IsCoinbaseSupportedInterval(req.interval)
  THEN Joined("coinbase", FetchCoinbaseExchangeTicker(req, net.coinbaseTicker),
              FetchCoinbaseExchangeCandles(req, net.coinbaseCandles))
  ELSE EmptyFailClosedMarketData("coinbase")

-----------------------------------------------------------------------------
ProviderHealthStatus(response, expected) ==
  IF response.failed \/ response.candles = <<>> \/ response.latestPrice = NoPrice THEN "failed"
  ELSE IF Len(response.candles) < expected THEN "degraded"
  ELSE "ok"

\* A fallback that is well is degraded all the same.
AddProviderHealth(response, req, fallbackUsed) ==
  LET status == ProviderHealthStatus(response, req.lookback) IN
  [data |-> response,
   requestedProvider |-> req.provider, resolvedProvider |-> response.provider,
   fallbackUsed |-> fallbackUsed,
   status |-> IF fallbackUsed /\ status = "ok" THEN "degraded" ELSE status]

ShouldFallbackToCoinbase(req, response) ==
  /\ req.provider # "coinbase" /\ response.provider = "binance"
  /\ ProviderHealthStatus(response, req.lookback) = "failed"

\* The adapter answers fail-closed where it fails, and so does an exception.
FetchCoinbaseFallback(req, net) ==
  AddProviderHealth(FetchCoinbaseExchangeMarketData(req, net), req, TRUE)

\* buildProviderAwareMarketDataFetcher, with the fetchers of the repository.
FetchMarketData(req, net) ==
  LET primary == IF req.provider = "coinbase" THEN FetchCoinbaseExchangeMarketData(req, net)
                 ELSE FetchBinanceSpotMarketData(req, net)
  IN IF ShouldFallbackToCoinbase(req, primary) THEN FetchCoinbaseFallback(req, net)
     ELSE AddProviderHealth(primary, req, FALSE)

-----------------------------------------------------------------------------
\* What a response that is not failed promises: a price, and the asked number
\* of closed candles in their order, the latest one recent, all of the provider
\* the health names; "ok" only from the provider that was asked.
ResponseIsSound(req, net) ==
  LET r == FetchMarketData(req, net)  candles == r.data.candles IN
  r.status # "failed" =>
    /\ r.data.latestPrice # NoPrice
    /\ Len(candles) = req.lookback
    /\ \A i \in DOMAIN candles :
         /\ candles[i].provider = r.resolvedProvider
         /\ req.now >= candles[i].open + req.step
         /\ i > 1 => candles[i - 1].open <= candles[i].open
    /\ req.now - (Last(candles).open + req.step) <=
         IF req.step = Minute THEN 3 * Minute ELSE 2 * req.step + Minute
    /\ (r.status = "ok") = (r.resolvedProvider = req.provider)
    /\ r.fallbackUsed = (r.resolvedProvider # req.provider)

\* A request is answered as well as the providers allow: it fails only if the
\* provider asked for failed, and Coinbase, where it may stand in, failed too.
ResponseIsBest(req, net) ==
  LET primary == FetchBinanceSpotMarketData(req, net)
      second == FetchCoinbaseExchangeMarketData(req, net)
  IN FetchMarketData(req, net).status = "failed" =>
       /\ ProviderHealthStatus(second, req.lookback) = "failed"
       /\ req.provider = "binance" => ProviderHealthStatus(primary, req.lookback) = "failed"
=============================================================================
