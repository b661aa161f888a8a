--------------------------------- MODULE Klines ---------------------------------
(***************************************************************************)
(* Historical candles: Binance history page by page, the cache in the      *)
(* research store, derived intervals, and the cut to what a chart shows.   *)
(*                                                                         *)
(* A candle has its open time, its four prices and its volume.  A request  *)
(* has its time `now', the `span' of its range, the source it names (or    *)
(* "any"), the `step' of the interval that is fetched, how many of them    *)
(* make one candle of the chart (`ratio'), and the chart's limit.  The     *)
(* provider has candles, and a way of answering each page.                 *)
(***************************************************************************)
EXTENDS Integers, Sequences, FiniteSets, Functions, SequencesExt, FiniteSetsExt

Opens(candles) == {c.open : c \in candles}
Place(candle, candles) == 1 + Cardinality({c \in candles : c.open < candle.open})
InOrder(candles) ==
  [i \in 1 .. Cardinality(candles) |-> CHOOSE c \in candles : Place(c, candles) = i]
FirstOf(s, n) == SubSeq(s, 1, IF Len(s) < n THEN Len(s) ELSE n)
LatestOf(s, n) == SubSeq(s, IF Len(s) > n THEN Len(s) - n + 1 ELSE 1, Len(s))
ClosedAt(candle, req) == candle.open + req.step <= req.now

-----------------------------------------------------------------------------
\* How a page may come back: as asked; with a single row, with none, or with
\* the first rows of the range whatever was asked; with a row that does not
\* parse, as something else than a list, as an HTTP error or not at all.
PageKinds == {"as asked", "short", "none", "first again", "failed"}

Rows(provider, kind, cursor, req) ==
  LET from == IF kind = "first again" THEN req.start ELSE cursor
      due == {c \in provider.candles : c.open >= from /\ c.open <= req.end}
  IN CASE kind = "none"   -> {}
       [] kind = "short"  -> Range(FirstOf(InOrder(due), 1))
       [] OTHER           -> Range(FirstOf(InOrder(due), req.pageLimit))

\* fetchKlinePage: the closed candles of a page, or a failure.
FetchKlinePage(provider, page, cursor, req) ==
  LET kind == provider.pages[page] IN
  [failed  |-> kind = "failed",
   candles |-> IF kind = "failed" THEN {}
               ELSE {c \in Rows(provider, kind, cursor, req) : ClosedAt(c, req)}]

\* The loop after a page: an empty page ends it, and so does one that does not
\* take it further.  A candle that comes twice is kept as it came last.
AfterPage(s, page, req) ==
  IF page.failed THEN [s EXCEPT !.failed = TRUE, !.over = TRUE]
  ELSE IF page.candles = {} THEN [s EXCEPT !.over = TRUE]
  ELSE LET next == Max(Opens(page.candles)) + req.step
           kept == page.candles \cup {c \in s.candles : c.open \notin Opens(page.candles)}
       IN IF next <= s.cursor
          THEN [s EXCEPT !.candles = kept, !.failed = TRUE, !.over = TRUE]
          ELSE [s EXCEPT !.candles = kept, !.cursor = next]

\* What the loop has gathered before its first page, and after each; when it is
\* over or past the end of the range, no more pages are asked for.
NoPages(req) ==
  [cursor |-> req.start, candles |-> {}, failed |-> req.start >= req.end,
   over |-> req.start >= req.end]
NextPage(s, provider, page, req) ==
  IF s.over \/ s.cursor > req.end THEN s
  ELSE AfterPage(s, FetchKlinePage(provider, page, s.cursor, req), req)
Pages(provider, req) ==
  LET after[n \in 0 .. req.maxPages] ==
        IF n = 0 THEN NoPages(req) ELSE NextPage(after[n - 1], provider, n, req)
  IN after

\* fetchBinanceHistoricalKlines.
History(provider, req) ==
  LET s == Pages(provider, req)[req.maxPages]
      inRange == {c \in s.candles : c.open >= req.start /\ c.open <= req.end}
  IN [candles |-> inRange,
      failed  |-> s.failed \/ inRange = {},
      stoppedEarly |-> s.cursor <= req.end /\ ~s.failed]

-----------------------------------------------------------------------------
\* Mutant of Sufficient: holes inside the range are not looked for.
SufficientWithHoles(records, req) ==
  /\ records # {}
  /\ Min(Opens(records)) <= req.start + req.step
  /\ Max(Opens(records)) >= req.end - 2 * req.step
  /\ Cardinality(records) >= Max({1, (Max({1, (req.end - req.start) \div req.step}) * 4) \div 5})

\* coverageSummary: whether stored candles can stand for the range.
Sufficient(records, req) ==
  LET expected == Max({1, (req.end - req.start) \div req.step})
      opens == Opens(records)
      hasGap == \E o \in opens : /\ \E earlier \in opens : earlier < o
                                 /\ \A earlier \in opens : earlier < o => o - earlier > req.step
  IN /\ records # {}
     /\ Min(opens) <= req.start + req.step /\ Max(opens) >= req.end - 2 * req.step
     /\ Cardinality(records) >= Max({1, (expected * 4) \div 5})
     /\ ~hasGap

Volume(candles) == SumFunction([i \in DOMAIN candles |-> candles[i].volume])

\* A candle of the chart from a bucket of fetched ones, in their order.
Derived(bucket, at) ==
  [open |-> at, first |-> bucket[1].first, last |-> Last(bucket).last,
   high |-> Max({bucket[i].high : i \in DOMAIN bucket}),
   low |-> Min({bucket[i].low : i \in DOMAIN bucket}),
   volume |-> Volume(bucket)]

\* aggregateCandlesToInterval: candles in their order go to the bucket of their
\* open time, and a bucket is flushed when the next one begins.
Flushed(s) == IF s.bucket = <<>> THEN s.done ELSE Append(s.done, Derived(s.bucket, s.at))
BucketOf(candle, length) == (candle.open \div length) * length
AddCandle(s, candle, length) ==
  IF s.bucket = <<>> \/ BucketOf(candle, length) = s.at
  THEN [s EXCEPT !.bucket = Append(@, candle), !.at = BucketOf(candle, length)]
  ELSE [done |-> Flushed(s), bucket |-> <<candle>>, at |-> BucketOf(candle, length)]
Buckets(candles, length) ==
  LET after[n \in 0 .. Len(candles)] ==
        IF n = 0 THEN [done |-> <<>>, bucket |-> <<>>, at |-> 0]
        ELSE AddCandle(after[n - 1], candles[n], length)
  IN after
Aggregate(candles, req) == Flushed(Buckets(candles, req.ratio * req.step)[Len(candles)])

\* The candles of the chart's interval.
Charted(candles, req) ==
  IF req.ratio = 1 THEN InOrder(candles) ELSE Aggregate(InOrder(candles), req)

\* applyLimit: the latest candles, as many as asked for within bounds.
ApplyLimit(candles, req) == LatestOf(candles, Max({req.lowest, Min({req.highest, req.limit})}))

\* finalizeCandles.
Finalized(candles, source, failed, req) ==
  LET chart == Charted(candles, req) IN
  [candles |-> ApplyLimit(chart, req), source |-> source,
   truncated |-> Len(ApplyLimit(chart, req)) < Len(chart),
   status |-> IF failed THEN "failed" ELSE IF chart = <<>> THEN "degraded" ELSE "ok"]

\* buildMockCandles: one for each step of the range, from its start on.
MockCandles(req) ==
  {[open |-> req.start + i * req.step, first |-> i, last |-> i, high |-> i, low |-> i,
    volume |-> 1] : i \in 0 .. Max({1, (req.end - req.start) \div req.step}) - 1}

\* loadMarketDataKlines: the answer, and the store after it.  A candle that is
\* stored already stays as it is.
LoadKlines(provider, store, req) ==
  LET stored == {c \in store : c.open >= req.start /\ c.open <= req.end}
      live == History(provider, req)
      fromStore == req.source = "stored" \/ (req.source = "any" /\ Sufficient(stored, req))
  IN IF req.source = "mock"
     THEN [answer |-> Finalized(MockCandles(req), "mock", FALSE, req), store |-> store]
     ELSE IF fromStore
     THEN [answer |-> Finalized(stored, "stored", FALSE, req), store |-> store]
     ELSE [answer |-> Finalized(live.candles, "live", live.failed, req),
           store |-> store \cup {c \in live.candles : c.open \notin Opens(store)}]

-----------------------------------------------------------------------------
\* The ranges of charts in their order, and what each interval allows.
RangeOrder == <<"1D", "3D", "1W", "1M", "3M", "1Y", "ALL">>

MaxRangeForInterval(interval) ==
  CASE interval = "1m" -> "1M"
    [] interval \in {"5m", "10m", "15m"} -> "3M"
    [] interval \in {"30m", "1h", "4h"} -> "1Y"
    [] interval \in {"1d", "1w", "1M"} -> "ALL"

RangeDays(range, daysSince2017) ==
  CASE range = "1D" -> 1   [] range = "3D" -> 3    [] range = "1W" -> 7
    [] range = "1M" -> 30  [] range = "3M" -> 90   [] range = "1Y" -> 365
    [] range = "ALL" -> daysSince2017

IntervalMinutes(interval) ==
  CASE interval = "1m" -> 1     [] interval = "5m" -> 5      [] interval = "10m" -> 10
    [] interval = "15m" -> 15   [] interval = "30m" -> 30    [] interval = "1h" -> 60
    [] interval = "4h" -> 240   [] interval = "1d" -> 1440   [] interval = "1w" -> 10080
    [] interval = "1M" -> 43200

\* resolveRangeForInterval: a range that is too long is cut to the longest.
AppliedRange(interval, range) ==
  LET index(r) == CHOOSE i \in DOMAIN RangeOrder : RangeOrder[i] = r
      longest == MaxRangeForInterval(interval)
  IN IF index(range) > index(longest) THEN longest ELSE range

-----------------------------------------------------------------------------
\* The candles that a request could have from the provider.
Due(provider, req) ==
  {c \in provider.candles : c.open >= req.start /\ c.open <= req.end /\ ClosedAt(c, req)}

\* History is honest: what it returns are closed candles of the provider in the
\* range, and when it neither failed nor says that it stopped early, all of them.
HistoryIsHonest(provider, req) ==
  LET h == History(provider, req) IN
  /\ h.candles \subseteq Due(provider, req)
  /\ ~h.failed /\ ~h.stoppedEarly => h.candles = Due(provider, req)

\* The cache is no worse than the provider: when stored candles answer in its
\* place, no candle is missing but the first of the range and the last two.
CacheIsWhole(store, req) ==
  LET stored == {c \in store : c.open >= req.start /\ c.open <= req.end} IN
  Sufficient(stored, req) =>
    \A o \in (req.start + req.step) .. (req.end - 2 * req.step) :
      o % req.step = 0 => o \in Opens(stored)

\* A second request for the same range is answered by what the first one left
\* in the store: where nothing failed and the provider has every candle, the
\* fetch is not repeated.
FetchedOnceIsEnough(provider, req) ==
  LET first == LoadKlines(provider, {}, req)
      second == LoadKlines(provider, first.store, req)
      whole == \A o \in req.start .. req.end :
                 o % req.step = 0 /\ o + req.step <= req.now =>
                   o \in Opens(History(provider, req).candles)
  IN whole /\ first.answer.status = "ok" /\ req.source = "any" =>
       second.answer.source = "stored" /\ second.answer.candles = first.answer.candles

\* A derived candle is the candle of its whole interval: each fetched candle
\* counts once, in the bucket of its open time, and buckets come in order.
DerivedCandlesAreRight(candles, req) ==
  LET charted == InOrder(candles)
      derived == Aggregate(charted, req)
      length == req.ratio * req.step
      In(at) == {k \in DOMAIN charted : charted[k].open >= at /\ charted[k].open < at + length}
  IN /\ \A i \in DOMAIN derived :
          LET d == derived[i]  source == In(d.open) IN
          /\ d.open % length = 0 /\ source # {}
          /\ d.first = charted[Min(source)].first /\ d.last = charted[Max(source)].last
          /\ \A k \in source : d.low <= charted[k].low /\ charted[k].high <= d.high
          /\ i > 1 => derived[i - 1].open < d.open
     /\ Volume(derived) = Volume(charted)

\* Whatever range a chart asks for, the pages suffice for the candles it needs:
\* maxPages pages of pageLimit rows.  Ten minutes are made of single minutes,
\* and of these three months are more than the pages hold: there only the
\* oldest part is fetched, and HistoryIsHonest's stoppedEarly says so.
RangeFitsPages(interval, range, maxPages, pageLimit, daysSince2017) ==
  LET base == IF interval = "10m" THEN "1m" ELSE interval
      applied == AppliedRange(interval, range)
      needed == (1440 * RangeDays(applied, daysSince2017)) \div IntervalMinutes(base)
  IN (needed <= maxPages * pageLimit) = ~(interval = "10m" /\ applied = "3M")
=============================================================================
