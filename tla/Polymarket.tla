-------------------------------- MODULE Polymarket --------------------------------
(***************************************************************************)
(* Discovery of Polymarket's markets: Gamma's lists of active and closed   *)
(* markets and its search, the odds of each market from the CLOB's public  *)
(* endpoints, and what keeps a market from research.                       *)
(*                                                                         *)
(* A reply of Gamma's or of the price history is an "answer" with its rows, *)
(* something of "another shape", or it "failed", by its HTTP status, an    *)
(* exception or a timeout.  Flags are "yes", "no" or "missing".            *)
(***************************************************************************)
EXTENDS Replay

FirstRows(s, n) == SubSeq(s, 1, Min({n, Len(s)}))

-----------------------------------------------------------------------------
\* mapGammaMarketToCandidate: a market needs an id and a title.  One that does
\* not say so counts as active, and as not closed.
Titled(markets) == Kept(markets, {i \in DOMAIN markets : markets[i].titled})

MapGammaMarket(market) ==
  [id |-> market.id, named |-> market.named, active |-> market.active # "no",
   closed |-> market.closed = "yes", archived |-> market.archived = "yes",
   ends |-> market.ends, source |-> market.source, tokens |-> market.tokens,
   prices |-> market.prices, liquidity |-> market.liquidity]

\* extractResolvedOutcome: only an outcome that is called yes or no.
ResolvedOutcome(market) ==
  CASE market.result = "yes" -> "YES" [] market.result = "no" -> "NO" [] OTHER -> "none"

\* fetchGammaMarkets, of a page as long as Gamma is asked for.
GammaMarkets(reply, limit) ==
  IF reply.kind = "answer" THEN FirstRows(reply.rows, Min({100, 3 * limit})) ELSE <<>>

Candidates(markets) ==
  LET titled == Titled(markets) IN [i \in DOMAIN titled |-> MapGammaMarket(titled[i])]

NamesAsset(candidate, symbol) ==
  IF symbol = "ALL" THEN candidate.named # {} ELSE candidate.named = {symbol}

FilterCryptoCandidates(candidates, symbol) ==
  Kept(candidates, {i \in DOMAIN candidates : NamesAsset(candidates[i], symbol)})

FetchActiveMarkets(reply, symbol, limit) ==
  FirstRows(FilterCryptoCandidates(Candidates(GammaMarkets(reply, limit)), symbol), limit)

\* fetchClosedPolymarketMarkets: those that ended within the window.
FoundClosed(page) ==
  [i \in DOMAIN page |-> [candidate |-> MapGammaMarket(page[i]), resolved |-> ResolvedOutcome(page[i])]]
DueWithin(m, symbol, window) ==
  /\ NamesAsset(m.candidate, symbol) /\ m.candidate.ends # Null
  /\ m.candidate.ends >= window.start /\ m.candidate.ends <= window.end

FetchClosedMarkets(reply, symbol, limit, window) ==
  LET found == FoundClosed(Titled(GammaMarkets(reply, limit)))
  IN FirstRows(Kept(found, {i \in DOMAIN found : DueWithin(found[i], symbol, window)}), limit)

IsActiveOpen(candidate) == candidate.active /\ ~candidate.closed /\ ~candidate.archived
OpenCandidates(candidates) ==
  Kept(candidates, {i \in DOMAIN candidates : IsActiveOpen(candidates[i])})

\* Mutant of UniqueCandidates: what the search finds is added whatever is listed.
AllCandidates(candidates) == candidates

\* Of candidates with one id the first.
UniqueCandidates(candidates) ==
  Kept(candidates, {i \in DOMAIN candidates :
                      \A j \in 1 .. i - 1 : candidates[j].id # candidates[i].id})

-----------------------------------------------------------------------------
\* The CLOB's answers for a market: two books, midpoints and spreads, and two
\* prices, each a number, Null, or a failure.
Failed == -1

NoBook == [kind |-> "none", bids |-> {}, asks |-> {}]
NoClob == [yesBook |-> NoBook, noBook |-> NoBook, yesMid |-> Null, noMid |-> Null,
           yesSpread |-> Null, noSpread |-> Null, yesPrice |-> Null, noPrice |-> Null]

MidpointFromBook(book) ==
  IF book.bids = {} \/ book.asks = {} THEN Null ELSE (Max(book.bids) + Min(book.asks)) \div 2

SpreadFromBook(book) ==
  IF book.bids = {} \/ book.asks = {} THEN Null ELSE Max({0, Min(book.asks) - Max(book.bids)})

\* Of each market's sides the wider one, as far as they are known.
MaxSpread(yes, no) == Max({yes, no})

LiquidityStatus(clob, spread, liquidity) ==
  LET books == {clob.yesBook, clob.noBook}
      full == \A b \in books : b.bids # {} /\ b.asks # {}
  IN IF spread # Null /\ spread > 800 THEN "thin"
     ELSE IF (\E b \in books : b.kind # "none") /\ ~full THEN "unknown"
     ELSE IF liquidity # Null /\ liquidity < 100 THEN "thin"
     ELSE IF full \/ liquidity # Null THEN "ok" ELSE "unknown"

\* What of the CLOB's answers is used: nothing if one of the first six failed,
\* and no price that failed.
ClobUsed(candidate, clob) ==
  IF \/ candidate.tokens < 2
     \/ "failed" \in {clob.yesBook.kind, clob.noBook.kind}
     \/ Failed \in {clob.yesMid, clob.noMid, clob.yesSpread, clob.noSpread}
  THEN NoClob
  ELSE [clob EXCEPT !.yesPrice = IF @ = Failed THEN Null ELSE @,
                    !.noPrice = IF @ = Failed THEN Null ELSE @]

\* The odds, of what is used of the CLOB's answers, and at last of Gamma's own
\* prices.
OddsOf(candidate, used, reasons, source) ==
  LET Known(mid, book, price, n) ==
        FirstNumber(mid, FirstNumber(MidpointFromBook(book), FirstNumber(price,
          IF n \in DOMAIN candidate.prices THEN candidate.prices[n] ELSE Null)))
      yes == Known(used.yesMid, used.yesBook, used.yesPrice, 1)
      no == Known(used.noMid, used.noBook, used.noPrice, 2)
      spread == FirstNumber(MaxSpread(used.yesSpread, used.noSpread),
                            FirstNumber(SpreadFromBook(used.yesBook), SpreadFromBook(used.noBook)))
  IN [yes |-> yes, no |-> no, spread |-> spread, sourceType |-> source,
      liquidity |-> LiquidityStatus(used, spread, candidate.liquidity),
      failClosedReasons |->
        reasons \cup (IF Null \in {yes, no} THEN {"no odds"} ELSE {})
                \cup (IF Null \in {used.yesMid, used.noMid} /\ candidate.prices # <<>>
                      THEN {"outcome prices"} ELSE {})]

\* buildEventMarketOdds, and what bindCandidates makes of its exception: a book
\* whose levels are no list throws, and the odds are then those of the mock.
BuildEventMarketOdds(candidate, clob) ==
  LET used == ClobUsed(candidate, clob)
      tokens == IF candidate.tokens < 2 THEN {"no tokens"} ELSE {}
      failed == IF used = NoClob /\ candidate.tokens >= 2 THEN {"no clob"} ELSE {}
  IN IF "no list" \in {used.yesBook.kind, used.noBook.kind}
     THEN OddsOf(candidate, NoClob, tokens \cup {"exception"}, "mock")
     ELSE OddsOf(candidate, used, tokens \cup failed, "live")

\* researchRejectReasonsFor.
ResearchRejectReasons(candidate, odds) ==
  LET is == [unbound |-> Cardinality(candidate.named) # 1, tokens |-> candidate.tokens < 2,
             end |-> candidate.ends = Null, source |-> ~candidate.source]
  IN {reason \in DOMAIN is : is[reason]} \cup odds.failClosedReasons

Bound(candidate, odds) ==
  [candidate |-> candidate, odds |-> odds, reasons |-> ResearchRejectReasons(candidate, odds)]

-----------------------------------------------------------------------------
\* findCryptoEventMarkets: active markets and the search for the assets asked
\* for.  A search that fails is a warning; without the active markets there are
\* none.  clob[id] is what the CLOB answers for a market.
Searched(reply, symbol, asset) ==
  IF symbol \in {asset, "ALL"} /\ reply.kind = "answer" THEN Candidates(reply.rows) ELSE <<>>

FoundMarkets(gamma, req) ==
  LET active == FetchActiveMarkets(gamma.active, req.symbol, req.limit)
      all == active \o Searched(gamma.BTC, req.symbol, "BTC") \o Searched(gamma.ETH, req.symbol, "ETH")
      open == OpenCandidates(UniqueCandidates(all))
  IN IF gamma.active.kind = "failed" THEN <<>>
     ELSE FirstRows(FilterCryptoCandidates(open, req.symbol), req.limit)

FindCryptoEventMarkets(gamma, clob, req) ==
  LET kept == FoundMarkets(gamma, req)
  IN [markets |-> [i \in DOMAIN kept |-> Bound(kept[i], BuildEventMarketOdds(kept[i], clob[kept[i].id]))],
      status |-> IF gamma.active.kind = "failed" THEN "failed" ELSE IF kept = <<>> THEN "degraded" ELSE "ok"]

\* fetchPolymarketPriceHistory: one row that does not parse is enough to have
\* no history, and none is a failure too.
FetchPriceHistory(reply) ==
  LET rows == IF reply.kind = "answer" THEN reply.rows ELSE <<>>
      parsed == IF \E i \in DOMAIN rows : Null \in {rows[i].time, rows[i].price} THEN <<>> ELSE rows
  IN [history |-> Arranged(parsed, [i \in DOMAIN parsed |-> parsed[i].time]), failed |-> parsed = <<>>]

-----------------------------------------------------------------------------
\* A market that is fit for research has odds of the CLOB's: none of its prices
\* is Gamma's own, whatever that is, and all six answers arrived.
EligibleOddsAreLive(candidate, clob) ==
  LET odds == BuildEventMarketOdds(candidate, clob) IN
  ResearchRejectReasons(candidate, odds) = {} =>
    /\ odds.sourceType = "live" /\ Null \notin {odds.yes, odds.no}
    /\ Failed \notin {clob.yesMid, clob.noMid, clob.yesSpread, clob.noSpread}
    /\ \A prices \in {<<>>, <<1, 2>>} :
         LET other == BuildEventMarketOdds([candidate EXCEPT !.prices = prices], clob) IN
         other.yes = odds.yes /\ other.no = odds.no

\* A response has each market once, only open ones of the asset asked for, and
\* unless it is full all of those that Gamma listed; it fails with the list.
Open(c) == c.active /\ ~c.closed /\ ~c.archived
Fits(c, symbol) == c.named # {} /\ (symbol = "ALL" \/ c.named = {symbol})
Fitting(page, symbol) == {i \in DOMAIN page : Fits(page[i], symbol)}
ShownBy(response) == {response.markets[i].candidate : i \in DOMAIN response.markets}
IdsOf(candidates) == {c.id : c \in candidates}

DiscoveryIsSound(gamma, clob, req) ==
  LET response == FindCryptoEventMarkets(gamma, clob, req)
      shown == ShownBy(response)
      page == Candidates(GammaMarkets(gamma.active, req.limit))
      listed == Range(page)
  IN /\ (response.status = "failed") = (gamma.active.kind = "failed")
     /\ response.status = "ok" <=> shown # {}
     /\ Cardinality(IdsOf(shown)) = Len(response.markets) /\ Cardinality(IdsOf(shown)) <= req.limit
     /\ \A c \in shown : Open(c) /\ Fits(c, req.symbol)
     /\ Cardinality(Fitting(page, req.symbol)) <= req.limit =>
          \A c \in listed : /\ Open(c) /\ Fits(c, req.symbol)
                            /\ \A d \in listed : d.id = c.id => d = c
                            => c.id \in IdsOf(shown)
     /\ response.status = "failed" => shown = {}

\* The closed markets of a part of a window are those of the window that ended
\* in it, and what the window holds does not depend on their order.
ClosedWindowsNest(reply, symbol, window, part) ==
  LET all == FetchClosedMarkets(reply, symbol, 100, window)
      some == FetchClosedMarkets(reply, symbol, 100, part)
      Within(m) == m.candidate.ends >= part.start /\ m.candidate.ends <= part.end
  IN some = Kept(all, {i \in DOMAIN all : Within(all[i])})

\* The odds of the past: the price of the latest point by a time, in whatever
\* order points come, or none at all.
HistoryIsWhole(reply, time) ==
  LET h == FetchPriceHistory(reply) IN
  /\ h.failed => HistoryPrice(h.history, time) = Null
  /\ ~h.failed =>
       LET past == {i \in DOMAIN reply.rows : reply.rows[i].time <= time} IN
       /\ (past = {}) = (HistoryPrice(h.history, time) = Null)
       /\ past # {} => \E i \in past : /\ HistoryPrice(h.history, time) = reply.rows[i].price
                                       /\ \A j \in past : reply.rows[j].time <= reply.rows[i].time
=============================================================================
