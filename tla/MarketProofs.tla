------------------------------ MODULE MarketProofs ------------------------------
(***************************************************************************)
(* Proofs about markets: live candles, for any replies of the providers;   *)
(* historical ones, for any candles of a provider, pages of any kind,      *)
(* number and size, and any range; the fair value of Polymarket's markets, *)
(* its replay on past ones, the lists of those that are closed, open or    *)
(* scanned, and the strategy lab, for any prices, lists and answers.       *)
(*                                                                         *)
(* History is complete where it says so because a page begins where the    *)
(* one before ended and holds the first rows of what is due from there on. *)
(***************************************************************************)
EXTENDS Klines, MarketData, Polymarket, Scanner, StrategyLab, CollectionTheorems, SequenceTheorems, FiniteSetTheorems, TLAPS

-----------------------------------------------------------------------------
(* Candles in their order.                                                   *)
\* Candles that differ differ in when they open.
Distinct(candles) ==
  /\ IsFiniteSet(candles)
  /\ \A c \in candles : c.open \in Int
  /\ \A c, d \in candles : c.open = d.open => c = d

LEMMA DistinctParts ==
  ASSUME NEW candles, Distinct(candles), NEW part \in SUBSET candles
  PROVE  Distinct(part)
BY FS_Subset DEF Distinct

LEMMA OpensAreFinite ==
  ASSUME NEW candles, IsFiniteSet(candles)
  PROVE  IsFiniteSet(Opens(candles))
<1>1. PICK f : f = [c \in candles |-> c.open]
  OBVIOUS
<1>2. f \in Surjection(candles, Opens(candles))
  BY <1>1 DEF Surjection, Opens
<1>3. QED
  BY <1>2, FS_Surjection

\* A candle's place is one more than how many open before it: each place is
\* taken once, in the order of the opens.
LEMMA EveryPlaceIsTaken ==
  ASSUME NEW candles, Distinct(candles)
  PROVE  /\ Cardinality(candles) \in Nat
         /\ \A i \in 1 .. Cardinality(candles) : \E c \in candles : Place(c, candles) = i
         /\ \A c \in candles : Place(c, candles) \in 1 .. Cardinality(candles)
         /\ \A b, c \in candles : b.open < c.open => Place(b, candles) < Place(c, candles)
         /\ \A b, c \in candles : Place(b, candles) = Place(c, candles) => b = c
<1>1. IsFiniteSet(candles) /\ \A c \in candles : c.open \in Int
  BY DEF Distinct
<1>2. PICK before : before = [c \in candles |-> {d \in candles : d.open < c.open}]
  OBVIOUS
<1>3. PICK place : place = [c \in candles |-> 1 + Cardinality(before[c])]
  OBVIOUS
<1>4. \A c \in candles : before[c] \in SUBSET candles /\ c \notin before[c]
  BY <1>1, <1>2
<1>5. Cardinality(candles) \in Nat
  BY <1>1, FS_CardinalityType
<1>6. ASSUME NEW c \in candles PROVE place[c] \in 1 .. Cardinality(candles)
  <2>1. /\ IsFiniteSet(before[c]) /\ Cardinality(before[c]) <= Cardinality(candles)
        /\ Cardinality(before[c]) = Cardinality(candles) => candles = before[c]
    BY <1>1, <1>4, FS_Subset
  <2>2. Cardinality(before[c]) \in Nat
    BY <2>1, FS_CardinalityType
  <2>3. QED
    BY <1>3, <1>4, <1>5, <2>1, <2>2
<1>7. ASSUME NEW b \in candles, NEW c \in candles, b.open < c.open PROVE place[b] < place[c]
  <2>1. before[b] \in SUBSET before[c] /\ b \in before[c] /\ b \notin before[b]
    BY <1>1, <1>2, <1>7
  <2>2. IsFiniteSet(before[c])
    BY <1>1, <1>4, FS_Subset
  <2>3. /\ IsFiniteSet(before[b]) /\ Cardinality(before[b]) <= Cardinality(before[c])
        /\ Cardinality(before[b]) = Cardinality(before[c]) => before[c] = before[b]
    BY <2>1, <2>2, FS_Subset
  <2>4. Cardinality(before[b]) \in Nat /\ Cardinality(before[c]) \in Nat
    BY <2>2, <2>3, FS_CardinalityType
  <2>5. QED
    BY <1>3, <2>1, <2>3, <2>4
<1>8. ASSUME NEW b \in candles, NEW c \in candles, place[b] = place[c], b # c PROVE FALSE
  <2>1. b.open \in Int /\ c.open \in Int /\ b.open # c.open
    BY <1>8 DEF Distinct
  <2>2. place[b] \in Int /\ place[c] \in Int
    BY <1>6
  <2>3. CASE b.open < c.open
    BY <1>7, <1>8, <2>2, <2>3
  <2>4. CASE c.open < b.open
    BY <1>7, <1>8, <2>2, <2>4
  <2>5. QED
    BY <2>1, <2>3, <2>4
<1>9. \A i \in 1 .. Cardinality(candles) : \E c \in candles : place[c] = i
  <2>1. PICK places : places = 1 .. Cardinality(candles)
    OBVIOUS
  <2>2. place \in [candles -> places]
    BY <1>3, <1>6, <2>1
  <2>3. place \in Injection(candles, places)
    BY <1>8, <2>2 DEF Injection, IsInjective
  <2>4. IsFiniteSet(places) /\ Cardinality(places) = Cardinality(candles)
    BY <1>5, <2>1, FS_Interval
  <2>5. place \in Surjection(candles, places)
    BY <2>3, <2>4, FS_Injection
  <2>6. QED
    BY <2>1, <2>5 DEF Surjection
<1>10. \A c \in candles : Place(c, candles) = place[c]
  BY <1>2, <1>3 DEF Place
<1>11. QED
  BY <1>5, <1>6, <1>7, <1>8, <1>9, <1>10

\* InOrder is a list of the candles, each of them once, by their opens.
LEMMA InOrderSorts ==
  ASSUME NEW candles, Distinct(candles)
  PROVE  /\ InOrder(candles) \in Seq(candles) /\ Len(InOrder(candles)) = Cardinality(candles)
         /\ \A c \in candles : \E i \in 1 .. Cardinality(candles) : InOrder(candles)[i] = c
         /\ \A i, j \in 1 .. Cardinality(candles) :
              i < j => InOrder(candles)[i].open < InOrder(candles)[j].open
<1>1. PICK n, list : n = Cardinality(candles) /\ list = InOrder(candles)
  OBVIOUS
<1>2. /\ n \in Nat
      /\ \A i \in 1 .. n : \E c \in candles : Place(c, candles) = i
      /\ \A c \in candles : Place(c, candles) \in 1 .. n
      /\ \A b, c \in candles : b.open < c.open => Place(b, candles) < Place(c, candles)
      /\ \A b, c \in candles : Place(b, candles) = Place(c, candles) => b = c
  BY <1>1, EveryPlaceIsTaken
<1>3. list = [i \in 1 .. n |-> CHOOSE c \in candles : Place(c, candles) = i]
  BY <1>1 DEF InOrder
<1>4. \A i \in 1 .. n : list[i] \in candles /\ Place(list[i], candles) = i
  BY <1>2, <1>3
<1>5. list \in Seq(candles) /\ Len(list) = n
  <2>1. list \in [1 .. n -> candles]
    BY <1>3, <1>4
  <2>2. QED
    BY <1>2, <2>1
<1>6. ASSUME NEW c \in candles PROVE \E i \in 1 .. n : list[i] = c
  <2>1. Place(c, candles) \in 1 .. n
    BY <1>2
  <2>2. list[Place(c, candles)] = c
    BY <1>2, <1>4, <2>1
  <2>3. QED
    BY <2>1, <2>2
<1>7. ASSUME NEW i \in 1 .. n, NEW j \in 1 .. n, i < j PROVE list[i].open < list[j].open
  <2>1. /\ list[i] \in candles /\ list[j] \in candles
        /\ Place(list[i], candles) = i /\ Place(list[j], candles) = j
    BY <1>4
  <2>2. list[i].open \in Int /\ list[j].open \in Int /\ list[i] # list[j]
    BY <1>7, <2>1 DEF Distinct
  <2>3. list[i].open # list[j].open
    BY <2>1, <2>2 DEF Distinct
  <2>4. CASE list[j].open < list[i].open
    <3>1. Place(list[j], candles) < Place(list[i], candles)
      BY <1>2, <2>1, <2>4
    <3>2. QED
      BY <1>7, <2>1, <3>1
  <2>5. QED
    BY <2>2, <2>3, <2>4
<1>8. QED
  BY <1>1, <1>5, <1>6, <1>7

-----------------------------------------------------------------------------
(* The pages of a history.                                                   *)

\* A request whose numbers are numbers, and a provider whose candles lie at
\* least a step apart.
Fetchable(provider, req) ==
  /\ req.start \in Int /\ req.end \in Int /\ req.now \in Int
  /\ req.step \in Nat \ {0} /\ req.pageLimit \in Nat \ {0} /\ req.maxPages \in Nat
  /\ Distinct(provider.candles)
  /\ \A c, d \in provider.candles : c.open < d.open => c.open + req.step <= d.open
  /\ provider.pages \in [1 .. req.maxPages -> PageKinds]

\* The first rows of a list in order are what comes first.
LEMMA FirstRowsOfList ==
  ASSUME NEW candles, Distinct(candles), NEW most \in Nat \ {0}
  PROVE  LET first == Range(FirstOf(InOrder(candles), most)) IN
         /\ first \subseteq candles
         /\ \A c \in first, d \in candles : d.open <= c.open => d \in first
         /\ candles # {} => first # {}
<1>1. PICK n, list : n = Cardinality(candles) /\ list = InOrder(candles)
  OBVIOUS
<1>2. /\ n \in Nat /\ list \in Seq(candles) /\ Len(list) = n
      /\ \A c \in candles : \E i \in 1 .. n : list[i] = c
      /\ \A i, j \in 1 .. n : i < j => list[i].open < list[j].open
  BY <1>1, InOrderSorts, FS_CardinalityType DEF Distinct
<1>3. PICK m : m = IF n < most THEN n ELSE most
  OBVIOUS
<1>4. m \in 0 .. n /\ (n > 0 => m > 0)
  BY <1>2, <1>3
<1>5. PICK first : first = SubSeq(list, 1, m)
  OBVIOUS
<1>6. /\ Len(first) = m /\ first \in Seq(candles)
      /\ \A i \in 1 .. m : first[i] = list[i]
  <2>1. 1 \in Int /\ m \in Int /\ (\A i \in 1 .. m : i \in 1 .. Len(list))
    BY <1>2, <1>4
  <2>2. first \in Seq(candles) /\ Len(first) = m
    BY <1>2, <1>4, <1>5
  <2>3. \A i \in 1 .. m : first[i] = list[i]
    BY <1>2, <1>4, <1>5
  <2>4. QED
    BY <2>2, <2>3
<1>7. Range(first) = {list[i] : i \in 1 .. m}
  <2>1. DOMAIN first = 1 .. m
    BY <1>6
  <2>2. QED
    BY <1>6, <2>1 DEF Range
<1>8. FirstOf(InOrder(candles), most) = first
  BY <1>1, <1>2, <1>3, <1>5 DEF FirstOf
<1>9. \A i \in 1 .. n : list[i] \in candles /\ list[i].open \in Int
  BY <1>2 DEF Distinct
<1>10. ASSUME NEW c \in Range(first), NEW d \in candles, d.open <= c.open PROVE d \in Range(first)
  <2>1. PICK i \in 1 .. m : c = list[i]
    BY <1>7
  <2>2. PICK j \in 1 .. n : d = list[j]
    BY <1>2
  <2>3. i \in 1 .. n
    BY <1>2, <1>4
  <2>4. ~(i < j)
    BY <1>2, <1>9, <1>10, <2>1, <2>2, <2>3
  <2>5. j \in 1 .. m
    BY <2>1, <2>2, <2>4, <1>4
  <2>6. QED
    BY <1>7, <2>2, <2>5
<1>11. candles # {} => Range(first) # {}
  BY <1>2, <1>4, <1>7
<1>12. Range(first) \subseteq candles
  BY <1>2, <1>4, <1>7, <1>9
<1>13. QED
  BY <1>8, <1>10, <1>11, <1>12

\* A page has closed candles of the provider, and none of what is due from the
\* cursor on comes before one of them and is left out.
LEMMA PageIsFirst ==
  ASSUME NEW provider, NEW req, Fetchable(provider, req), NEW page \in 1 .. req.maxPages,
         NEW cursor \in Int
  PROVE  LET got == FetchKlinePage(provider, page, cursor, req).candles IN
         /\ got \subseteq {c \in provider.candles : ClosedAt(c, req)}
         /\ \A c \in got, d \in Due(provider, req) :
              cursor <= d.open /\ d.open <= c.open => d \in got
<1>1. PICK kind \in PageKinds : kind = provider.pages[page]
  BY DEF Fetchable
<1>2. PICK from : from = IF kind = "first again" THEN req.start ELSE cursor
  OBVIOUS
<1>3. PICK due : due = {c \in provider.candles : c.open >= from /\ c.open <= req.end}
  OBVIOUS
<1>4. PICK rows : rows = Rows(provider, kind, cursor, req)
  OBVIOUS
<1>5. PICK got : got = FetchKlinePage(provider, page, cursor, req).candles
  OBVIOUS
<1>6. got = {} \/ got = {c \in rows : ClosedAt(c, req)}
  BY <1>1, <1>4, <1>5 DEF FetchKlinePage
<1>7. rows = {} \/ \E most \in Nat \ {0} : rows = Range(FirstOf(InOrder(due), most))
  <2>1. CASE kind = "none"
    BY <1>4, <2>1 DEF Rows
  <2>2. CASE kind = "short"
    <3>1. rows = Range(FirstOf(InOrder(due), 1))
      BY <1>2, <1>3, <1>4, <2>2 DEF Rows
    <3>2. QED
      BY <3>1
  <2>3. CASE kind # "none" /\ kind # "short"
    <3>1. rows = Range(FirstOf(InOrder(due), req.pageLimit))
      BY <1>2, <1>3, <1>4, <2>3 DEF Rows
    <3>2. QED
      BY <3>1 DEF Fetchable
  <2>4. QED
    BY <2>1, <2>2, <2>3
<1>8. Distinct(due) /\ due \subseteq provider.candles
  BY <1>3, DistinctParts DEF Fetchable
<1>9. rows \subseteq due /\ \A c \in rows, d \in due : d.open <= c.open => d \in rows
  BY <1>7, <1>8, FirstRowsOfList
<1>10. ASSUME NEW c \in got, NEW d \in Due(provider, req), cursor <= d.open, d.open <= c.open
       PROVE  d \in got
  <2>1. d \in due /\ ClosedAt(d, req)
    BY <1>2, <1>3, <1>10 DEF Due
  <2>2. c \in rows /\ got = {x \in rows : ClosedAt(x, req)}
    BY <1>6, <1>10
  <2>3. QED
    BY <1>9, <1>10, <2>1, <2>2
<1>11. got \subseteq {c \in provider.candles : ClosedAt(c, req)}
  BY <1>6, <1>8, <1>9
<1>12. QED
  BY <1>5, <1>10, <1>11

-----------------------------------------------------------------------------
\* The loop's states are those that its definition asks for.
LEMMA PagesFollow ==
  ASSUME NEW provider, NEW req, req.maxPages \in Nat
  PROVE  /\ Pages(provider, req)[0] = NoPages(req)
         /\ \A n \in 1 .. req.maxPages :
              Pages(provider, req)[n] = NextPage(Pages(provider, req)[n - 1], provider, n, req)
<1> DEFINE State(f, n) == IF n = 0 THEN NoPages(req) ELSE NextPage(f[n - 1], provider, n, req)
           Loop(f, last) == f = [n \in 0 .. last |-> State(f, n)]
<1>1. PICK K : K = {last \in 0 .. req.maxPages : \E f : Loop(f, last)}
  OBVIOUS
<1>2. 0 \in K
  <2>1. PICK f : f = [n \in 0 .. 0 |-> NoPages(req)]
    OBVIOUS
  <2>2. Loop(f, 0)
    BY <2>1
  <2>3. QED
    BY <1>1, <2>2
<1>3. ASSUME NEW last \in 0 .. req.maxPages - 1, last \in K PROVE last + 1 \in K
  <2>1. PICK f : Loop(f, last)
    BY <1>1, <1>3
  <2>2. PICK state : state = NextPage(f[last], provider, last + 1, req)
    OBVIOUS
  <2>3. PICK g : g = [n \in 0 .. last + 1 |-> IF n = last + 1 THEN state ELSE f[n]]
    OBVIOUS
  <2>4. ASSUME NEW n \in 0 .. last + 1 PROVE g[n] = State(g, n)
    <3>1. CASE n = last + 1
      <4>1. g[n] = state /\ g[n - 1] = f[last] /\ n # 0
        BY <2>3, <3>1
      <4>2. QED
        BY <2>2, <3>1, <4>1
    <3>2. CASE n = 0
      BY <2>1, <2>3, <3>2
    <3>3. CASE n \in 1 .. last
      <4>1. g[n] = f[n] /\ g[n - 1] = f[n - 1] /\ n \in 0 .. last
        BY <2>3, <3>3
      <4>2. f[n] = State(f, n)
        BY <2>1, <4>1
      <4>3. QED
        BY <3>3, <4>1, <4>2
    <3>4. QED
      BY <3>1, <3>2, <3>3
  <2>5. Loop(g, last + 1)
    BY <2>3, <2>4
  <2>6. QED
    BY <1>1, <2>5
<1>4. req.maxPages \in K
  BY <1>2, <1>3, CountUp
<1>5. PICK f : Loop(f, req.maxPages)
  BY <1>1, <1>4
<1>6. Pages(provider, req) = CHOOSE g : Loop(g, req.maxPages)
  BY DEF Pages
<1>7. Loop(Pages(provider, req), req.maxPages)
  BY <1>5, <1>6
<1>8. QED
  BY <1>7

-----------------------------------------------------------------------------
\* What is kept from page to page: closed candles of the provider and, unless
\* the loop has failed, all that are due before its cursor.
PagesKept(s, provider, req) ==
  /\ s \in [cursor : Int, candles : SUBSET {c \in provider.candles : ClosedAt(c, req)},
            failed : BOOLEAN, over : BOOLEAN]
  /\ ~s.failed => \A d \in Due(provider, req) : d.open < s.cursor => d \in s.candles

LEMMA NextPageKept ==
  ASSUME NEW provider, NEW req, Fetchable(provider, req), NEW n \in 1 .. req.maxPages,
         NEW s, PagesKept(s, provider, req)
  PROVE  PagesKept(NextPage(s, provider, n, req), provider, req)
<1>1. PICK closed : closed = {c \in provider.candles : ClosedAt(c, req)}
  OBVIOUS
<1>2. /\ s \in [cursor : Int, candles : SUBSET closed, failed : BOOLEAN, over : BOOLEAN]
      /\ ~s.failed => \A d \in Due(provider, req) : d.open < s.cursor => d \in s.candles
  BY <1>1 DEF PagesKept
<1>3. PICK page : page = FetchKlinePage(provider, n, s.cursor, req)
  OBVIOUS
<1>4. PICK next : next = NextPage(s, provider, n, req)
  OBVIOUS
<1>5. CASE next = s
  BY <1>4, <1>5
<1>6. CASE next # s
  <2>1. next = AfterPage(s, page, req)
    BY <1>3, <1>4, <1>6 DEF NextPage
  <2>2. CASE page.failed
    <3>1. next = [s EXCEPT !.failed = TRUE, !.over = TRUE]
      BY <2>1, <2>2 DEF AfterPage
    <3>2. next.failed /\ next \in [cursor : Int, candles : SUBSET closed, failed : BOOLEAN, over : BOOLEAN]
      BY <1>2, <3>1
    <3>3. QED
      BY <1>1, <1>4, <3>2 DEF PagesKept
  <2>3. CASE ~page.failed /\ page.candles = {}
    <3>1. next = [s EXCEPT !.over = TRUE]
      BY <2>1, <2>3 DEF AfterPage
    <3>2. /\ next.failed = s.failed /\ next.cursor = s.cursor /\ next.candles = s.candles
          /\ next \in [cursor : Int, candles : SUBSET closed, failed : BOOLEAN, over : BOOLEAN]
      BY <1>2, <3>1
    <3>3. QED
      BY <1>1, <1>2, <1>4, <3>2 DEF PagesKept
  <2>4. CASE ~page.failed /\ page.candles # {}
    <3>1. PICK got, opens, last, kept :
            /\ got = page.candles /\ opens = Opens(got) /\ last = Max(opens)
            /\ kept = got \cup {c \in s.candles : c.open \notin opens}
      OBVIOUS
    <3>2. /\ got \subseteq closed
          /\ \A c \in got, d \in Due(provider, req) : s.cursor <= d.open /\ d.open <= c.open => d \in got
      BY <1>1, <1>2, <1>3, <3>1, PageIsFirst
    <3>3. IsFiniteSet(got) /\ got \subseteq provider.candles
      BY <1>1, <3>2, FS_Subset DEF Fetchable, Distinct
    <3>4. opens \subseteq Int /\ opens # {}
      BY <2>4, <3>1, <3>3 DEF Opens, Fetchable, Distinct
    <3>5. last \in opens /\ \A o \in opens : o <= last
      BY <3>1, <3>3, <3>4, OpensAreFinite, GreatestExists
    <3>6. kept \in SUBSET closed /\ last + req.step \in Int
      BY <1>2, <3>1, <3>2, <3>4, <3>5 DEF Fetchable
    <3>7. CASE last + req.step <= s.cursor
      <4>1. next = [s EXCEPT !.candles = kept, !.failed = TRUE, !.over = TRUE]
        BY <2>1, <2>4, <3>1, <3>7 DEF AfterPage
      <4>2. next.failed /\ next \in [cursor : Int, candles : SUBSET closed, failed : BOOLEAN, over : BOOLEAN]
        BY <1>2, <3>6, <4>1
      <4>3. QED
        BY <1>1, <1>4, <4>2 DEF PagesKept
    <3>8. CASE ~(last + req.step <= s.cursor)
      <4>1. next = [s EXCEPT !.candles = kept, !.cursor = last + req.step]
        BY <2>1, <2>4, <3>1, <3>8 DEF AfterPage
      <4>2. /\ next.failed = s.failed /\ next.cursor = last + req.step /\ next.candles = kept
            /\ next \in [cursor : Int, candles : SUBSET closed, failed : BOOLEAN, over : BOOLEAN]
        BY <1>2, <3>6, <4>1
      <4>3. ASSUME ~next.failed, NEW d \in Due(provider, req), d.open < last + req.step
            PROVE  d \in kept
        <5>1. PICK c \in got : c.open = last
          BY <3>1, <3>5 DEF Opens
        <5>2. d \in provider.candles /\ c \in provider.candles /\ d.open \in Int /\ c.open \in Int
          BY <3>3 DEF Due, Fetchable, Distinct
        <5>3. ~(c.open < d.open)
          BY <4>3, <5>1, <5>2 DEF Fetchable
        <5>4. CASE s.cursor <= d.open
          BY <3>1, <3>2, <5>2, <5>3, <5>4
        <5>5. CASE ~(s.cursor <= d.open)
          <6>1. d \in s.candles
            BY <1>2, <4>2, <4>3, <5>2, <5>5
          <6>2. CASE d.open \in opens
            <7>1. PICK e \in got : e.open = d.open
              BY <3>1, <6>2 DEF Opens
            <7>2. e = d
              BY <3>3, <5>2, <7>1 DEF Fetchable, Distinct
            <7>3. QED
              BY <3>1, <7>2
          <6>3. QED
            BY <3>1, <6>1, <6>2
        <5>6. QED
          BY <5>4, <5>5
      <4>4. QED
        BY <1>1, <1>4, <4>2, <4>3 DEF PagesKept
    <3>9. QED
      BY <3>7, <3>8
  <2>5. QED
    BY <2>2, <2>3, <2>4
<1>7. QED
  BY <1>5, <1>6

LEMMA LastPageKept ==
  ASSUME NEW provider, NEW req, Fetchable(provider, req)
  PROVE  PagesKept(Pages(provider, req)[req.maxPages], provider, req)
<1>1. PICK pages : pages = Pages(provider, req)
  OBVIOUS
<1>2. /\ pages[0] = NoPages(req) /\ req.maxPages \in Nat
      /\ \A n \in 1 .. req.maxPages : pages[n] = NextPage(pages[n - 1], provider, n, req)
  BY <1>1, PagesFollow DEF Fetchable
<1>3. PagesKept(NoPages(req), provider, req)
  <2>1. PICK none : none = NoPages(req)
    OBVIOUS
  <2>2. none = [cursor |-> req.start, candles |-> {}, failed |-> req.start >= req.end,
                over |-> req.start >= req.end]
    BY <2>1 DEF NoPages
  <2>3. (req.start >= req.end) \in BOOLEAN
    BY DEF Fetchable
  <2>4. PICK refused \in BOOLEAN :
          none = [cursor |-> req.start, candles |-> {}, failed |-> refused, over |-> refused]
    BY <2>2, <2>3, Zenon
  <2>5. none \in [cursor : Int, candles : SUBSET {c \in provider.candles : ClosedAt(c, req)},
                  failed : BOOLEAN, over : BOOLEAN]
    BY <2>4 DEF Fetchable
  <2>6. \A d \in Due(provider, req) : ~(d.open < none.cursor)
    BY <2>4 DEF Due, Fetchable, Distinct
  <2>7. QED
    BY <2>1, <2>5, <2>6 DEF PagesKept
<1>4. PICK K : K = {n \in 0 .. req.maxPages : PagesKept(pages[n], provider, req)}
  OBVIOUS
<1>5. 0 \in K
  BY <1>2, <1>3, <1>4
<1>6. ASSUME NEW n \in 0 .. req.maxPages - 1, n \in K PROVE n + 1 \in K
  <2>1. n + 1 \in 1 .. req.maxPages /\ (n + 1) - 1 = n
    BY <1>2
  <2>2. pages[n + 1] = NextPage(pages[n], provider, n + 1, req)
    BY <1>2, <2>1
  <2>3. PagesKept(pages[n + 1], provider, req)
    BY <1>4, <1>6, <2>1, <2>2, NextPageKept
  <2>4. QED
    BY <1>2, <1>4, <2>1, <2>3
<1>7. req.maxPages \in K
  BY <1>2, <1>5, <1>6, CountUp
<1>8. QED
  BY <1>1, <1>4, <1>7

\* What a history returns is closed, in its range and the provider's; and when it
\* neither failed nor says that it stopped early, nothing that is due is missing:
\* for any provider, any pages and any range (fetchBinanceHistoricalKlines).
THEOREM HistoryHonest ==
  ASSUME NEW provider, NEW req, Fetchable(provider, req)
  PROVE  HistoryIsHonest(provider, req)
<1>1. PICK s : s = Pages(provider, req)[req.maxPages]
  OBVIOUS
<1>2. PICK inRange : inRange = {c \in s.candles : c.open >= req.start /\ c.open <= req.end}
  OBVIOUS
<1>3. PagesKept(s, provider, req)
  BY <1>1, LastPageKept
<1>4. PICK h : h = History(provider, req)
  OBVIOUS
<1>5. h = [candles |-> inRange, failed |-> s.failed \/ inRange = {},
           stoppedEarly |-> s.cursor <= req.end /\ ~s.failed]
  BY <1>1, <1>2, <1>4 DEF History
<1>6. h.candles = inRange /\ (h.failed <=> s.failed \/ inRange = {})
      /\ (h.stoppedEarly <=> s.cursor <= req.end /\ ~s.failed)
  BY <1>5, Zenon
<1>7. inRange \subseteq Due(provider, req)
  BY <1>2, <1>3 DEF Due, PagesKept
<1>8. ASSUME ~h.failed, ~h.stoppedEarly, NEW d \in Due(provider, req) PROVE d \in inRange
  <2>1. ~s.failed /\ ~(s.cursor <= req.end)
    BY <1>6, <1>8
  <2>2. s.cursor \in Int
    BY <1>3 DEF PagesKept
  <2>3. d.open \in Int /\ d.open >= req.start /\ d.open <= req.end
    BY DEF Due, Fetchable, Distinct
  <2>4. d.open < s.cursor
    BY <2>1, <2>2, <2>3 DEF Fetchable
  <2>5. d \in s.candles
    BY <1>3, <2>1, <2>4 DEF PagesKept
  <2>6. QED
    BY <1>2, <2>3, <2>5
<1>9. QED
  BY <1>4, <1>6, <1>7, <1>8 DEF HistoryIsHonest

-----------------------------------------------------------------------------
(* The cache.                                                                *)

\* Candles that open at multiples of their step.
OnGrid(candles, req) ==
  IsFiniteSet(candles) /\ \A c \in candles : c.open \in Int /\ c.open % req.step = 0

\* Multiples that differ are a step apart, and a step leads to a multiple.
LEMMA StepsApart ==
  ASSUME NEW step \in Nat \ {0}, NEW a \in Int, NEW b \in Int, a % step = 0, b % step = 0
  PROVE  (a < b => a + step <= b) /\ (a + step) % step = 0 /\ (a - step) % step = 0
<1>1. PICK p \in Int, q \in Int : a = step * p /\ b = step * q
  <2>1. a = step * (a \div step) + (a % step) /\ b = step * (b \div step) + (b % step)
    OBVIOUS
  <2>2. a \div step \in Int /\ b \div step \in Int
    OBVIOUS
  <2>3. a = step * (a \div step) /\ b = step * (b \div step)
    BY <2>1, <2>2
  <2>4. QED
    BY <2>2, <2>3
<1>2. a < b => a + step <= b
  BY <1>1
<1>3. a + step = step * (p + 1) /\ a - step = step * (p - 1)
  BY <1>1
<1>4. (step * (p + 1)) % step = 0 /\ (step * (p - 1)) % step = 0
  <2>1. \A n \in Int : (step * n) % step = 0
    OBVIOUS
  <2>2. QED
    BY <2>1
<1>5. QED
  BY <1>2, <1>3, <1>4

\* Stored candles stand for a range only if none is missing, but for the first
\* and the last two: whatever the store holds (coverageSummary).
THEOREM CacheWhole ==
  ASSUME NEW store, NEW req, OnGrid(store, req), req.start \in Int, req.end \in Int,
         req.step \in Nat \ {0}
  PROVE  CacheIsWhole(store, req)
<1>1. PICK stored, opens :
        /\ stored = {c \in store : c.open >= req.start /\ c.open <= req.end}
        /\ opens = Opens(stored)
  OBVIOUS
<1> SUFFICES ASSUME Sufficient(stored, req),
                    NEW o \in (req.start + req.step) .. (req.end - 2 * req.step),
                    o % req.step = 0, o \notin opens
             PROVE  FALSE
  BY <1>1 DEF CacheIsWhole
<1>2. /\ opens # {} /\ Min(opens) <= req.start + req.step /\ Max(opens) >= req.end - 2 * req.step
      /\ \A x \in opens : (\E earlier \in opens : earlier < x)
           => \E earlier \in opens : earlier < x /\ ~(x - earlier > req.step)
  BY <1>1 DEF Sufficient, Opens
<1>3. /\ IsFiniteSet(opens) /\ opens \subseteq Int
      /\ \A x \in opens : x % req.step = 0
  <2>1. IsFiniteSet(stored)
    BY <1>1, FS_Subset DEF OnGrid
  <2>2. IsFiniteSet(opens)
    BY <1>1, <2>1, OpensAreFinite
  <2>3. QED
    BY <1>1, <2>2 DEF OnGrid, Opens
<1>4. PICK low, high : low = {x \in opens : x < o} /\ high = {x \in opens : x > o}
  OBVIOUS
<1>5. low # {} /\ high # {}
  <2>1. Min(opens) \in opens /\ Max(opens) \in opens
    BY <1>2, <1>3, GreatestExists, LeastExists
  <2>2. Min(opens) < o /\ Max(opens) > o
    <3>1. PICK m \in Int, n \in Int : m = Min(opens) /\ n = Max(opens) /\ m # o /\ n # o
      BY <1>3, <2>1
    <3>2. m <= req.start + req.step /\ n >= req.end - 2 * req.step
      BY <1>2, <3>1
    <3>3. m < o /\ n > o
      BY <3>1, <3>2
    <3>4. QED
      BY <3>1, <3>3
  <2>3. QED
    BY <1>4, <2>1, <2>2
<1>6. PICK next \in high : \A x \in high : next <= x
  <2>1. high \in SUBSET opens /\ high \subseteq Int
    BY <1>3, <1>4
  <2>2. IsFiniteSet(high)
    BY <1>3, <2>1, FS_Subset
  <2>3. QED
    BY <1>5, <2>1, <2>2, LeastExists
<1>7. next \in opens /\ next \in Int /\ o < next /\ \E earlier \in opens : earlier < next
  <2>1. PICK x \in low : TRUE
    BY <1>5
  <2>2. x \in opens /\ x \in Int /\ x < o /\ next \in opens /\ next \in Int /\ o < next
    BY <1>3, <1>4, <2>1
  <2>3. x < next
    BY <2>2
  <2>4. QED
    BY <2>2, <2>3
<1>8. PICK before \in opens : before < next /\ ~(next - before > req.step)
  BY <1>2, <1>7
<1>9. before \in Int /\ before < o
  <2>1. before \in Int /\ before # o
    BY <1>3
  <2>2. before \notin high
    BY <1>6, <1>7, <1>8, <2>1
  <2>3. QED
    BY <1>4, <2>1, <2>2
<1>10. before + req.step <= o /\ o + req.step <= next
  BY <1>3, <1>7, <1>8, <1>9, StepsApart
<1>11. QED
  BY <1>7, <1>8, <1>9, <1>10

\* The larger of two numbers.
LEMMA LargerOf == \A m \in Int : Max({1, m}) = IF m > 1 THEN m ELSE 1
<1> SUFFICES ASSUME NEW m \in Int PROVE Max({1, m}) = IF m > 1 THEN m ELSE 1
  OBVIOUS
<1>1. IsFiniteSet({1, m}) /\ {1, m} \subseteq Int /\ {1, m} # {}
  <2>1. IsFiniteSet({1} \cup {m}) /\ {1} \cup {m} = {1, m}
    BY FS_Singleton, FS_AddElement
  <2>2. QED
    BY <2>1
<1>2. Max({1, m}) \in {1, m} /\ \A x \in {1, m} : x <= Max({1, m})
  BY <1>1, GreatestExists
<1>3. QED
  BY <1>2

\* What a range holds when none of its closed candles is missing is sufficient:
\* a range of n steps has at least n - 1 of them.
LEMMA WholeIsSufficient ==
  ASSUME NEW candles, NEW req, OnGrid(candles, req), candles # {},
         req.start \in Int, req.end \in Int, req.now \in Int, req.step \in Nat \ {0},
         req.now >= req.end,
         \A c \in candles : c.open >= req.start /\ c.open <= req.end,
         \A o \in req.start .. req.end :
           o % req.step = 0 /\ o + req.step <= req.now => o \in Opens(candles)
  PROVE  Sufficient(candles, req)
<1>0. PICK opens : opens = Opens(candles)
  OBVIOUS
<1>1. PICK step \in Nat \ {0}, start \in Int, end \in Int :
        step = req.step /\ start = req.start /\ end = req.end
  OBVIOUS
<1>2. /\ IsFiniteSet(opens) /\ opens \subseteq Int /\ opens \subseteq start .. end /\ opens # {}
      /\ \A x \in opens : x % step = 0
  <2>1. IsFiniteSet(opens)
    BY <1>0, OpensAreFinite DEF OnGrid
  <2>2. QED
    BY <1>0, <1>1, <2>1 DEF OnGrid, Opens
<1>3. \A o \in start .. end : o % step = 0 /\ o + step <= end => o \in opens
  BY <1>0, <1>1
<1>4. ASSUME NEW x \in opens PROVE (x - step) % step = 0 /\ (x + step) % step = 0
  <2>1. x \in Int /\ x % step = 0
    BY <1>2
  <2>2. QED
    BY <2>1, StepsApart
<1>5. Min(opens) <= start + step
  <2>0. Min(opens) \in opens /\ \A x \in opens : Min(opens) <= x
    BY <1>2, LeastExists
  <2>1. PICK first \in opens : first = Min(opens) /\ \A x \in opens : first <= x
    BY <2>0
  <2>2. CASE first > start + step
    <3>1. first \in Int /\ (first - step) % step = 0
      BY <1>2, <1>4
    <3>2. first - step \in start .. end /\ (first - step) + step <= end
      BY <1>2, <2>2, <3>1
    <3>3. first - step \in opens
      BY <1>3, <3>1, <3>2
    <3>4. QED
      BY <2>1, <3>1, <3>3
  <2>3. QED
    BY <1>2, <2>1, <2>2
<1>6. Max(opens) >= end - 2 * step
  <2>0. Max(opens) \in opens /\ \A x \in opens : x <= Max(opens)
    BY <1>2, GreatestExists
  <2>1. PICK last \in opens : last = Max(opens) /\ \A x \in opens : x <= last
    BY <2>0
  <2>2. CASE last < end - 2 * step
    <3>1. last \in Int /\ (last + step) % step = 0
      BY <1>2, <1>4
    <3>2. last + step \in start .. end /\ (last + step) + step <= end
      BY <1>2, <2>2, <3>1
    <3>3. last + step \in opens
      BY <1>3, <3>1, <3>2
    <3>4. QED
      BY <2>1, <3>1, <3>3
  <2>3. QED
    BY <1>2, <2>1, <2>2
<1>7. ASSUME NEW o \in opens, NEW first \in opens, first < o,
             \A earlier \in opens : earlier < o => o - earlier > step
      PROVE  FALSE
  <2>1. o \in start .. end /\ first \in start .. end /\ o - first > step /\ (o - step) % step = 0
    BY <1>2, <1>7, <1>4
  <2>2. o - step \in start .. end /\ (o - step) + step <= end
    BY <2>1
  <2>3. o - step \in opens /\ o - step < o
    BY <1>3, <2>1, <2>2
  <2>4. QED
    BY <1>7, <2>1, <2>3
<1>8. Cardinality(candles) >= Max({1, (Max({1, (end - start) \div step}) * 4) \div 5})
  <2>1. PICK n \in Int : n = (end - start) \div step
    OBVIOUS
  <2>2. Cardinality(candles) \in Nat /\ Cardinality(candles) >= 1
    BY FS_CardinalityType, FS_EmptySet DEF OnGrid
  <2>3. ASSUME n > 1 PROVE Cardinality(candles) >= n - 1
    <3>1. PICK q \in Int : q = start \div step
      OBVIOUS
    <3>2. step * q <= start /\ start < step * (q + 1) /\ step * n <= end - start
      BY <2>1, <3>1
    <3>3. ASSUME NEW k \in 1 .. n - 1 PROVE \E c \in candles : c.open = step * (q + k)
      <4>1. PICK o \in Int : o = step * (q + k)
        OBVIOUS
      <4>2. o % step = 0
        BY <4>1
      <4>3. o >= step * (q + 1) /\ o + step <= step * (q + n)
        BY <4>1
      <4>4. step * (q + n) = step * q + step * n
        OBVIOUS
      <4>5. step * q \in Int /\ step * n \in Int /\ step * (q + 1) \in Int
        OBVIOUS
      <4>6. o \in start .. end /\ o + step <= end
        BY <3>2, <4>3, <4>4, <4>5
      <4>7. o \in Opens(candles)
        BY <1>0, <1>3, <4>2, <4>6
      <4>8. QED
        BY <4>1, <4>7 DEF Opens
    <3>4. PICK f : f = [k \in 1 .. n - 1 |-> CHOOSE c \in candles : c.open = step * (q + k)]
      OBVIOUS
    <3>5. \A k \in 1 .. n - 1 : f[k] \in candles /\ f[k].open = step * (q + k)
      BY <3>3, <3>4
    <3>6. \A j, k \in 1 .. n - 1 : step * (q + j) = step * (q + k) => j = k
      OBVIOUS
    <3>7. f \in [1 .. n - 1 -> candles]
      BY <3>4, <3>5
    <3>8. f \in Injection(1 .. n - 1, candles)
      <4>1. \A j, k \in 1 .. n - 1 : f[j] = f[k] => j = k
        <5>1. ASSUME NEW j \in 1 .. n - 1, NEW k \in 1 .. n - 1, f[j] = f[k] PROVE j = k
          <6>1. f[j].open = step * (q + j) /\ f[k].open = step * (q + k)
            BY <3>5
          <6>2. step * (q + j) = step * (q + k)
            BY <5>1, <6>1
          <6>3. QED
            BY <3>6, <6>2
        <5>2. QED
          BY <5>1
      <4>2. QED
        BY <3>7, <4>1 DEF Injection, IsInjective
    <3>9. Cardinality(1 .. n - 1) <= Cardinality(candles)
      BY <3>8, FS_Injection DEF OnGrid
    <3>10. Cardinality(1 .. n - 1) = n - 1
      BY <2>3, FS_Interval
    <3>11. QED
      BY <2>2, <3>9, <3>10
  <2>4. \A m \in Int : Max({1, m}) = IF m > 1 THEN m ELSE 1
    BY LargerOf
  <2>5. QED
    BY <2>1, <2>2, <2>3, <2>4
<1>9. QED
  BY <1>0, <1>1, <1>2, <1>5, <1>6, <1>7, <1>8 DEF Sufficient, Opens

\* A request that was answered by a whole fetch is answered from the store when it
\* comes again, and with the same candles (loadMarketDataKlines).
THEOREM FetchedOnce ==
  ASSUME NEW provider, NEW req, Fetchable(provider, req), OnGrid(provider.candles, req),
         req.now >= req.end
  PROVE  FetchedOnceIsEnough(provider, req)
<1>1. PICK live : live = History(provider, req)
  OBVIOUS
<1>2. PICK first : first = LoadKlines(provider, {}, req)
  OBVIOUS
<1>3. PICK second : second = LoadKlines(provider, first.store, req)
  OBVIOUS
<1> SUFFICES ASSUME \A o \in req.start .. req.end :
                      o % req.step = 0 /\ o + req.step <= req.now => o \in Opens(live.candles),
                    first.answer.status = "ok", req.source = "any"
             PROVE  second.answer.source = "stored" /\ second.answer.candles = first.answer.candles
  BY <1>1, <1>2, <1>3 DEF FetchedOnceIsEnough
<1>4. /\ first.answer = Finalized(live.candles, "live", live.failed, req)
      /\ first.store = live.candles
  <2>1. ~Sufficient({}, req)
    BY DEF Sufficient
  <2>2. {c \in {} : c.open >= req.start /\ c.open <= req.end} = {} /\ Opens({}) = {}
    BY DEF Opens
  <2>3. first = [answer |-> Finalized(live.candles, "live", live.failed, req),
                 store |-> {} \cup {c \in live.candles : c.open \notin {}}]
    BY <1>1, <1>2, <2>1, <2>2 DEF LoadKlines
  <2>4. QED
    BY <2>3
<1>5. ~live.failed
  BY <1>4 DEF Finalized
<1>6. live.candles \subseteq Due(provider, req)
  BY <1>1, HistoryHonest DEF HistoryIsHonest
<1>7. live.candles # {}
  BY <1>1, <1>5 DEF History
<1>8. Sufficient(live.candles, req)
  <2>1. OnGrid(live.candles, req)
    <3>1. live.candles \in SUBSET provider.candles
      BY <1>6 DEF Due
    <3>2. IsFiniteSet(live.candles)
      BY <3>1, FS_Subset DEF OnGrid
    <3>3. QED
      BY <3>1, <3>2 DEF OnGrid
  <2>2. \A c \in live.candles : c.open >= req.start /\ c.open <= req.end
    BY <1>6 DEF Due
  <2>3. QED
    BY <1>7, <2>1, <2>2, WholeIsSufficient DEF Fetchable
<1>9. {c \in first.store : c.open >= req.start /\ c.open <= req.end} = live.candles
  BY <1>4, <1>6 DEF Due
<1>10. second.answer = Finalized(live.candles, "stored", FALSE, req)
  BY <1>3, <1>8, <1>9 DEF LoadKlines
<1>11. QED
  BY <1>4, <1>10 DEF Finalized

-----------------------------------------------------------------------------
(* Derived candles.                                                          *)

\* The volume of a list, and of one with a candle more.
LEMMA VolumeAdds ==
  ASSUME NEW C, \A c \in C : c.volume \in Nat, NEW list \in Seq(C)
  PROVE  /\ Volume(list) \in Nat /\ Volume(<<>>) = 0
         /\ \A c \in C : Volume(Append(list, c)) = Volume(list) + c.volume
<1>1. PICK n \in Nat : n = Len(list) /\ DOMAIN list = 1 .. n
  BY LenProperties
<1>2. PICK v : v = [i \in DOMAIN list |-> list[i].volume]
  OBVIOUS
<1>3. DOMAIN v = 1 .. n /\ IsFiniteSet(1 .. n) /\ \A i \in 1 .. n : v[i] \in Nat
  <2>1. n \in Nat /\ \A i \in 1 .. n : list[i] \in C
    BY <1>1, LenProperties
  <2>2. IsFiniteSet(1 .. n)
    BY <2>1, FS_Interval
  <2>3. DOMAIN v = 1 .. n /\ \A i \in 1 .. n : v[i] = list[i].volume
    BY <1>1, <1>2
  <2>4. QED
    BY <2>1, <2>2, <2>3
<1>4. Volume(list) = SumFunction(v) /\ SumFunction(v) = SumFunctionOnSet(v, DOMAIN v)
  BY <1>2 DEF Volume, SumFunction
<1>5. Volume(list) \in Nat
  BY <1>3, <1>4, SumIsNatural
<1>6. Volume(<<>>) = 0
  <2>1. PICK w : w = [i \in DOMAIN <<>> |-> <<>>[i].volume]
    OBVIOUS
  <2>2. DOMAIN w = {}
    BY <2>1
  <2>3. Volume(<<>>) = SumFunctionOnSet(w, DOMAIN w)
    BY <2>1 DEF Volume, SumFunction
  <2>4. QED
    BY <2>2, <2>3, SumOfNone
<1>7. ASSUME NEW c \in C PROVE Volume(Append(list, c)) = Volume(list) + c.volume
  <2>1. PICK longer : longer = Append(list, c)
    OBVIOUS
  <2>2. PICK w : w = [i \in DOMAIN longer |-> longer[i].volume]
    OBVIOUS
  <2>3. /\ DOMAIN longer = 1 .. n + 1 /\ longer[n + 1] = c
        /\ \A i \in 1 .. n : longer[i] = list[i]
    BY <1>1, <2>1
  <2>4. DOMAIN w = (DOMAIN v) \cup {n + 1} /\ n + 1 \notin DOMAIN v
    BY <1>1, <1>3, <2>2, <2>3
  <2>5. w[n + 1] = c.volume /\ \A i \in DOMAIN v : v[i] \in Nat /\ w[i] = v[i]
    BY <1>1, <1>2, <1>3, <2>2, <2>3
  <2>6. SumFunction(w) = w[n + 1] + SumFunction(v)
    BY <1>3, <2>4, <2>5, SumExtends
  <2>7. Volume(longer) = SumFunction(w)
    BY <2>2 DEF Volume
  <2>8. QED
    BY <1>4, <1>5, <2>1, <2>5, <2>6, <2>7
<1>8. QED
  BY <1>5, <1>6, <1>7

LEMMA SubSeqGrows ==
  ASSUME NEW C, NEW list \in Seq(C), NEW n \in 1 .. Len(list), NEW m \in 1 .. n
  PROVE  SubSeq(list, m, n) = Append(SubSeq(list, m, n - 1), list[n])
<1>1. Len(list) \in Nat /\ list[n] \in C /\ \A i \in m .. n - 1 : list[i] \in C
  BY LenProperties
<1>2. SubSeq(list, m, n) = SubSeq(list, m, n - 1) \o <<list[n]>>
  <2>1. m \in 1 .. Len(list) /\ n \in m .. Len(list)
    BY <1>1
  <2>2. QED
    BY <2>1, SubSeqRecursiveSecond
<1>3. SubSeq(list, m, n - 1) \in Seq(C)
  BY <1>1, SubSeqProperties
<1>4. QED
  BY <1>1, <1>2, <1>3

\* A candle's bucket begins at the multiple of the bucket's length that is next
\* before its open.
LEMMA BucketBounds ==
  ASSUME NEW length \in Nat \ {0}, NEW c, c.open \in Int
  PROVE  /\ BucketOf(c, length) \in Int /\ BucketOf(c, length) % length = 0
         /\ BucketOf(c, length) <= c.open /\ c.open < BucketOf(c, length) + length
<1>1. PICK o \in Int : o = c.open
  OBVIOUS
<1>2. PICK q \in Int : q = o \div length
  OBVIOUS
<1>3. o = length * q + (o % length)
  BY <1>2
<1>4. PICK b \in Int : b = length * q
  OBVIOUS
<1>5. BucketOf(c, length) = b
  BY <1>1, <1>2, <1>4 DEF BucketOf
<1>6. b % length = 0
  BY <1>4
<1>7. b <= o /\ o < b + length
  <2>1. o % length \in 0 .. length - 1
    OBVIOUS
  <2>2. QED
    BY <1>3, <1>4, <2>1
<1>8. QED
  BY <1>1, <1>5, <1>6, <1>7

LEMMA BucketsInOrder ==
  ASSUME NEW length \in Nat \ {0}, NEW c, NEW d, c.open \in Int, d.open \in Int, c.open <= d.open
  PROVE  BucketOf(c, length) <= BucketOf(d, length)
<1>1. PICK a \in Int, b \in Int : a = BucketOf(c, length) /\ b = BucketOf(d, length)
  BY BucketBounds
<1>2. /\ a % length = 0 /\ b % length = 0 /\ a <= c.open /\ d.open < b + length
  BY <1>1, BucketBounds
<1>3. CASE b < a
  <2>1. b + length <= a
    BY <1>2, <1>3, StepsApart
  <2>2. QED
    BY <1>2, <2>1
<1>4. QED
  BY <1>1, <1>3

\* The candles of one bucket, and no others, are those in its interval.
LEMMA BucketIsInterval ==
  ASSUME NEW length \in Nat \ {0}, NEW c, c.open \in Int, NEW at \in Int, at % length = 0
  PROVE  BucketOf(c, length) = at <=> (at <= c.open /\ c.open < at + length)
<1>1. PICK b \in Int : b = BucketOf(c, length)
  BY BucketBounds
<1>2. b % length = 0 /\ b <= c.open /\ c.open < b + length
  BY <1>1, BucketBounds
<1>3. CASE b < at
  <2>1. b + length <= at
    BY <1>2, <1>3, StepsApart
  <2>2. QED
    BY <1>1, <1>2, <1>3, <2>1
<1>4. CASE at < b
  <2>1. at + length <= b
    BY <1>2, <1>4, StepsApart
  <2>2. QED
    BY <1>1, <1>2, <1>4, <2>1
<1>5. QED
  BY <1>1, <1>2, <1>3, <1>4

LEMMA BucketsFollow ==
  ASSUME NEW list, NEW length, Len(list) \in Nat
  PROVE  /\ Buckets(list, length)[0] = [done |-> <<>>, bucket |-> <<>>, at |-> 0]
         /\ \A n \in 1 .. Len(list) :
              Buckets(list, length)[n] = AddCandle(Buckets(list, length)[n - 1], list[n], length)
<1> DEFINE Empty == [done |-> <<>>, bucket |-> <<>>, at |-> 0]
           State(f, n) == IF n = 0 THEN Empty ELSE AddCandle(f[n - 1], list[n], length)
           Loop(f, last) == f = [n \in 0 .. last |-> State(f, n)]
<1>1. PICK K : K = {last \in 0 .. Len(list) : \E f : Loop(f, last)}
  OBVIOUS
<1>2. 0 \in K
  <2>1. PICK f : f = [n \in 0 .. 0 |-> Empty]
    OBVIOUS
  <2>2. Loop(f, 0)
    BY <2>1
  <2>3. QED
    BY <1>1, <2>2
<1>3. ASSUME NEW last \in 0 .. Len(list) - 1, last \in K PROVE last + 1 \in K
  <2>1. PICK f : Loop(f, last)
    BY <1>1, <1>3
  <2>2. PICK state : state = AddCandle(f[last], list[last + 1], length)
    OBVIOUS
  <2>3. PICK g : g = [n \in 0 .. last + 1 |-> IF n = last + 1 THEN state ELSE f[n]]
    OBVIOUS
  <2>4. ASSUME NEW n \in 0 .. last + 1 PROVE g[n] = State(g, n)
    <3>1. CASE n = last + 1
      <4>1. g[n] = state /\ g[n - 1] = f[last] /\ n # 0
        BY <2>3, <3>1
      <4>2. QED
        BY <2>2, <3>1, <4>1
    <3>2. CASE n = 0
      BY <2>1, <2>3, <3>2
    <3>3. CASE n \in 1 .. last
      <4>1. g[n] = f[n] /\ g[n - 1] = f[n - 1] /\ n \in 0 .. last
        BY <2>3, <3>3
      <4>2. f[n] = State(f, n)
        BY <2>1, <4>1
      <4>3. QED
        BY <3>3, <4>1, <4>2
    <3>4. QED
      BY <3>1, <3>2, <3>3
  <2>5. Loop(g, last + 1)
    BY <2>3, <2>4
  <2>6. QED
    BY <1>1, <2>5
<1>4. Len(list) \in K
  <2>1. 0 .. Len(list) \subseteq K
    BY <1>2, <1>3, CountUp
  <2>2. QED
    BY <2>1
<1>5. PICK f : Loop(f, Len(list))
  BY <1>1, <1>4
<1>6. Buckets(list, length) = CHOOSE g : Loop(g, Len(list))
  BY DEF Buckets
<1>7. Loop(Buckets(list, length), Len(list))
  BY <1>5, <1>6
<1>8. QED
  BY <1>7

-----------------------------------------------------------------------------
\* Candles in their order, with numbers that are numbers.
IsListOf(list, candles) ==
  /\ list \in Seq(candles)
  /\ \A c \in candles : c.open \in Int /\ c.volume \in Nat /\ c.high \in Int /\ c.low \in Int
  /\ \A i, j \in 1 .. Len(list) : i < j => list[i].open < list[j].open

\* The parts of a list that are the whole of a bucket, and their candles.
Blocks(list, length) ==
  {p \in (1 .. Len(list)) \X (1 .. Len(list)) :
     /\ p[1] <= p[2]
     /\ \A k \in 1 .. Len(list) :
          BucketOf(list[k], length) = BucketOf(list[p[1]], length) <=> k \in p[1] .. p[2]}
CandleOf(list, length, p) ==
  Derived(SubSeq(list, p[1], p[2]), BucketOf(list[p[1]], length))
Wholes(list, length) == {CandleOf(list, length, p) : p \in Blocks(list, length)}

LEMMA PartOfList ==
  ASSUME NEW candles, NEW list, IsListOf(list, candles), NEW m \in 1 .. Len(list), NEW n \in 0 .. Len(list)
  PROVE  SubSeq(list, m, n) \in Seq(candles) /\ Volume(SubSeq(list, m, n)) \in Nat
<1>1. list \in Seq(candles) /\ \A c \in candles : c.volume \in Nat
  BY DEF IsListOf
<1>2. Len(list) \in Nat /\ \A i \in 1 .. Len(list) : list[i] \in candles
  BY <1>1, LenProperties
<1>3. \A i \in m .. n : list[i] \in candles
  BY <1>2
<1>4. SubSeq(list, m, n) \in Seq(candles)
  BY <1>1, <1>2, <1>3, SubSeqProperties
<1>5. QED
  BY <1>1, <1>4, VolumeAdds

LEMMA WholesAreCandles ==
  ASSUME NEW candles, NEW list, IsListOf(list, candles), NEW length \in Nat \ {0}
  PROVE  \A d \in Wholes(list, length) : d.open \in Int /\ d.volume \in Nat
<1> SUFFICES ASSUME NEW d \in Wholes(list, length) PROVE d.open \in Int /\ d.volume \in Nat
  OBVIOUS
<1>1. PICK p \in Blocks(list, length) : d = CandleOf(list, length, p)
  BY DEF Wholes
<1>2. p[1] \in 1 .. Len(list) /\ p[2] \in 1 .. Len(list)
  BY DEF Blocks
<1>3. list[p[1]] \in candles /\ list[p[1]].open \in Int
  BY <1>2, LenProperties DEF IsListOf
<1>4. d.open = BucketOf(list[p[1]], length) /\ d.volume = Volume(SubSeq(list, p[1], p[2]))
  BY <1>1 DEF CandleOf, Derived
<1>5. BucketOf(list[p[1]], length) \in Int
  BY <1>3, BucketBounds
<1>6. Len(list) \in Nat
  BY LenProperties DEF IsListOf
<1>7. Volume(SubSeq(list, p[1], p[2])) \in Nat
  BY <1>2, <1>6, PartOfList
<1>8. QED
  BY <1>4, <1>5, <1>7

\* Chart candles in their order, none later than a time.
ChartUpTo(done, list, length, at) ==
  /\ done \in Seq(Wholes(list, length))
  /\ \A i \in 1 .. Len(done) : done[i].open <= at
  /\ \A i \in 2 .. Len(done) : done[i - 1].open < done[i].open

\* After n candles, those that share the last one's bucket are in the bucket, and
\* the ones before them are in chart candles of whole buckets.
Bucketed(s, list, length, n) ==
  \E m \in 1 .. n, at, before \in Int :
    /\ s = [done |-> s.done, bucket |-> SubSeq(list, m, n), at |-> at]
    /\ before < at
    /\ \A k \in 1 .. m - 1 : BucketOf(list[k], length) < at
    /\ \A k \in m .. n : BucketOf(list[k], length) = at
    /\ ChartUpTo(s.done, list, length, before)
    /\ Volume(s.done) + Volume(SubSeq(list, m, n)) = Volume(SubSeq(list, 1, n))

\* A bucket that no later candle belongs to becomes a chart candle.
LEMMA BucketIsFlushed ==
  ASSUME NEW candles, NEW list, IsListOf(list, candles), NEW length \in Nat \ {0},
         NEW n \in 1 .. Len(list), NEW s, Bucketed(s, list, length, n),
         \A k \in n + 1 .. Len(list) : BucketOf(list[n], length) < BucketOf(list[k], length)
  PROVE  /\ ChartUpTo(Flushed(s), list, length, BucketOf(list[n], length))
         /\ Volume(Flushed(s)) = Volume(SubSeq(list, 1, n))
<1>1. PICK m \in 1 .. n, at \in Int, before \in Int :
        /\ s = [done |-> s.done, bucket |-> SubSeq(list, m, n), at |-> at]
        /\ before < at
        /\ \A k \in 1 .. m - 1 : BucketOf(list[k], length) < at
        /\ \A k \in m .. n : BucketOf(list[k], length) = at
        /\ ChartUpTo(s.done, list, length, before)
        /\ Volume(s.done) + Volume(SubSeq(list, m, n)) = Volume(SubSeq(list, 1, n))
  BY DEF Bucketed
<1>2. /\ Len(list) \in Nat /\ m \in 1 .. Len(list) /\ n \in 1 .. Len(list)
      /\ \A k \in 1 .. Len(list) : list[k] \in candles /\ list[k].open \in Int
  BY LenProperties DEF IsListOf
<1>3. \A k \in 1 .. Len(list) : BucketOf(list[k], length) \in Int
  BY <1>2, BucketBounds
<1>4. PICK d : d = CandleOf(list, length, <<m, n>>)
  OBVIOUS
<1>5. d \in Wholes(list, length)
  <2>1. BucketOf(list[m], length) = at /\ BucketOf(list[n], length) = at
    BY <1>1, <1>2
  <2>2. ASSUME NEW k \in 1 .. Len(list) PROVE BucketOf(list[k], length) = at <=> k \in m .. n
    <3>1. k \in 1 .. m - 1 \/ k \in m .. n \/ k \in n + 1 .. Len(list)
      BY <1>2
    <3>2. BucketOf(list[k], length) \in Int
      BY <1>3
    <3>3. CASE k \in 1 .. m - 1
      <4>1. BucketOf(list[k], length) < at
        BY <1>1, <3>3
      <4>2. QED
        BY <1>2, <3>2, <3>3, <4>1
    <3>4. CASE k \in m .. n
      BY <1>1, <3>4
    <3>5. CASE k \in n + 1 .. Len(list)
      <4>1. at < BucketOf(list[k], length)
        BY <2>1, <3>5
      <4>2. QED
        BY <1>2, <3>2, <3>5, <4>1
    <3>6. QED
      BY <3>1, <3>3, <3>4, <3>5
  <2>3. PICK p : p = <<m, n>>
    OBVIOUS
  <2>4. p \in (1 .. Len(list)) \X (1 .. Len(list)) /\ p[1] = m /\ p[2] = n
    BY <1>2, <2>3
  <2>5. p \in Blocks(list, length)
    BY <2>1, <2>2, <2>4 DEF Blocks
  <2>6. QED
    BY <1>4, <2>3, <2>5 DEF Wholes
<1>6. d.open = at /\ d.volume = Volume(SubSeq(list, m, n)) /\ at = BucketOf(list[n], length)
  BY <1>1, <1>2, <1>4 DEF CandleOf, Derived
<1>7. Flushed(s) = Append(s.done, d)
  <2>1. SubSeq(list, m, n) = Append(SubSeq(list, m, n - 1), list[n])
    BY <1>2, SubSeqGrows DEF IsListOf
  <2>2. s.bucket = SubSeq(list, m, n) /\ s.at = at
    BY <1>1
  <2>3. SubSeq(list, m, n - 1) \in Seq(candles) /\ list[n] \in candles
    BY <1>2, PartOfList
  <2>4. s.bucket # <<>>
    BY <2>1, <2>2, <2>3
  <2>5. Derived(s.bucket, s.at) = d
    BY <1>1, <1>2, <1>4, <2>2 DEF CandleOf
  <2>6. QED
    BY <2>4, <2>5 DEF Flushed
<1>8. PICK done : done = s.done
  OBVIOUS
<1>9. done \in Seq(Wholes(list, length)) /\ Len(done) \in Nat
  BY <1>1, <1>8, LenProperties DEF ChartUpTo
<1>10. ChartUpTo(Append(done, d), list, length, at)
  <2>1. /\ Append(done, d) \in Seq(Wholes(list, length)) /\ Len(Append(done, d)) = Len(done) + 1
        /\ Append(done, d)[Len(done) + 1] = d
        /\ \A i \in 1 .. Len(done) : Append(done, d)[i] = done[i] /\ done[i] \in Wholes(list, length)
    BY <1>5, <1>9, AppendProperties, ElementOfSeq
  <2>2. \A i \in 1 .. Len(done) : done[i].open \in Int /\ done[i].open <= before
    BY <1>1, <1>8, <2>1, WholesAreCandles DEF ChartUpTo
  <2>3. \A i \in 2 .. Len(done) : done[i - 1].open < done[i].open
    BY <1>1, <1>8 DEF ChartUpTo
  <2>4. \A i \in 1 .. Len(Append(done, d)) : Append(done, d)[i].open <= at
    BY <1>1, <1>6, <1>9, <2>1, <2>2
  <2>5. ASSUME NEW i \in 2 .. Len(Append(done, d))
        PROVE  Append(done, d)[i - 1].open < Append(done, d)[i].open
    <3>1. CASE i = Len(done) + 1
      <4>1. Append(done, d)[i] = d /\ Append(done, d)[i - 1] = done[i - 1] /\ i - 1 \in 1 .. Len(done)
        BY <1>9, <2>1, <3>1
      <4>2. done[i - 1].open \in Int /\ done[i - 1].open <= before
        BY <2>2, <4>1
      <4>3. done[i - 1].open < at
        BY <1>1, <4>2
      <4>4. QED
        BY <1>6, <4>1, <4>3
    <3>2. CASE i \in 2 .. Len(done)
      BY <1>9, <2>1, <2>3, <3>2
    <3>3. QED
      BY <1>9, <2>1, <3>1, <3>2
  <2>6. QED
    BY <2>1, <2>4, <2>5 DEF ChartUpTo
<1>11. Volume(Append(done, d)) = Volume(done) + d.volume
  BY <1>5, <1>9, WholesAreCandles, VolumeAdds
<1>12. QED
  BY <1>1, <1>6, <1>7, <1>8, <1>10, <1>11

\* A candle joins the bucket or begins the next.
LEMMA CandleIsAdded ==
  ASSUME NEW candles, NEW list, IsListOf(list, candles), NEW length \in Nat \ {0},
         NEW n \in 1 .. Len(list) - 1, NEW s, Bucketed(s, list, length, n)
  PROVE  Bucketed(AddCandle(s, list[n + 1], length), list, length, n + 1)
<1>1. PICK m \in 1 .. n, at \in Int, before \in Int :
        /\ s = [done |-> s.done, bucket |-> SubSeq(list, m, n), at |-> at]
        /\ before < at
        /\ \A k \in 1 .. m - 1 : BucketOf(list[k], length) < at
        /\ \A k \in m .. n : BucketOf(list[k], length) = at
        /\ ChartUpTo(s.done, list, length, before)
        /\ Volume(s.done) + Volume(SubSeq(list, m, n)) = Volume(SubSeq(list, 1, n))
  BY DEF Bucketed
<1>2. /\ list \in Seq(candles) /\ Len(list) \in Nat
      /\ m \in 1 .. Len(list) /\ n \in 1 .. Len(list) /\ n + 1 \in 1 .. Len(list)
      /\ \A k \in 1 .. Len(list) : list[k] \in candles /\ list[k].open \in Int
      /\ \A c \in candles : c.volume \in Nat
      /\ \A i, j \in 1 .. Len(list) : i < j => list[i].open < list[j].open
  BY LenProperties DEF IsListOf
<1>3. /\ \A k \in 1 .. Len(list) : BucketOf(list[k], length) \in Int
      /\ \A i, j \in 1 .. Len(list) : i < j => BucketOf(list[i], length) <= BucketOf(list[j], length)
  <2>1. ASSUME NEW k \in 1 .. Len(list) PROVE BucketOf(list[k], length) \in Int
    BY <1>2, BucketBounds
  <2>2. ASSUME NEW i \in 1 .. Len(list), NEW j \in 1 .. Len(list), i < j
        PROVE  BucketOf(list[i], length) <= BucketOf(list[j], length)
    <3>1. list[i].open \in Int /\ list[j].open \in Int /\ list[i].open <= list[j].open
      BY <1>2, <2>2
    <3>2. QED
      BY <3>1, BucketsInOrder
  <2>3. QED
    BY <2>1, <2>2
<1>4. PICK c, to : c = list[n + 1] /\ to = BucketOf(c, length)
  OBVIOUS
<1>5. c \in candles /\ to \in Int /\ at <= to /\ c.volume \in Nat
  <2>1. c \in candles /\ c.volume \in Nat
    BY <1>2, <1>4
  <2>2. to \in Int /\ BucketOf(list[n], length) <= to
    BY <1>2, <1>3, <1>4
  <2>3. BucketOf(list[n], length) = at
    BY <1>1
  <2>4. QED
    BY <2>1, <2>2, <2>3
<1>6. s.bucket = SubSeq(list, m, n) /\ s.at = at
  BY <1>1
<1>7. \A k \in 1 .. n : SubSeq(list, k, n + 1) = Append(SubSeq(list, k, n), c)
  <2>1. ASSUME NEW k \in 1 .. n PROVE SubSeq(list, k, n + 1) = Append(SubSeq(list, k, n), c)
    <3>1. k \in 1 .. n + 1 /\ (n + 1) - 1 = n
      BY <1>2
    <3>2. SubSeq(list, k, n + 1) = Append(SubSeq(list, k, (n + 1) - 1), list[n + 1])
      BY <1>2, <3>1, SubSeqGrows
    <3>3. QED
      BY <1>4, <3>1, <3>2
  <2>2. QED
    BY <2>1
<1>8. \A k \in 1 .. n : Volume(SubSeq(list, k, n + 1)) = Volume(SubSeq(list, k, n)) + c.volume
  <2>1. ASSUME NEW k \in 1 .. n
        PROVE  Volume(SubSeq(list, k, n + 1)) = Volume(SubSeq(list, k, n)) + c.volume
    <3>1. k \in 1 .. Len(list) /\ n \in 0 .. Len(list)
      BY <1>2
    <3>2. SubSeq(list, k, n) \in Seq(candles)
      BY <3>1, PartOfList
    <3>3. Volume(Append(SubSeq(list, k, n), c)) = Volume(SubSeq(list, k, n)) + c.volume
      BY <1>2, <1>5, <3>2, VolumeAdds
    <3>4. QED
      BY <1>7, <3>3
  <2>2. QED
    BY <2>1
<1>9. s.bucket # <<>>
  <2>1. SubSeq(list, m, n) = Append(SubSeq(list, m, n - 1), list[n])
    BY <1>2, SubSeqGrows
  <2>2. SubSeq(list, m, n - 1) \in Seq(candles) /\ list[n] \in candles
    BY <1>2, PartOfList
  <2>3. QED
    BY <1>6, <2>1, <2>2
<1>10. Volume(SubSeq(list, m, n)) \in Nat /\ Volume(SubSeq(list, 1, n)) \in Nat
  <2>1. n \in 0 .. Len(list) /\ 1 \in 1 .. Len(list)
    BY <1>2
  <2>2. QED
    BY <1>2, <2>1, PartOfList
<1>11. Volume(s.done) \in Nat
  BY <1>1, WholesAreCandles, VolumeAdds DEF ChartUpTo
<1>12. CASE to = at
  <2>1. PICK r : r = AddCandle(s, c, length)
    OBVIOUS
  <2>2. r = [done |-> s.done, bucket |-> SubSeq(list, m, n + 1), at |-> at]
    BY <1>1, <1>4, <1>6, <1>7, <1>12, <2>1 DEF AddCandle
  <2>3. \A k \in m .. n + 1 : BucketOf(list[k], length) = at
    <3>1. \A k \in m .. n + 1 : k \in m .. n \/ k = n + 1
      BY <1>2
    <3>2. QED
      BY <1>1, <1>4, <1>12, <3>1
  <2>4. Volume(r.done) + Volume(SubSeq(list, m, n + 1)) = Volume(SubSeq(list, 1, n + 1))
    <3>1. Volume(SubSeq(list, m, n + 1)) = Volume(SubSeq(list, m, n)) + c.volume
      BY <1>8
    <3>2. 1 \in 1 .. n /\ r.done = s.done
      BY <1>2, <2>2
    <3>3. Volume(SubSeq(list, 1, n + 1)) = Volume(SubSeq(list, 1, n)) + c.volume
      BY <1>8, <3>2
    <3>4. PICK x \in Nat, y \in Nat, z \in Nat, w \in Nat :
            /\ x = Volume(s.done) /\ y = Volume(SubSeq(list, m, n))
            /\ z = Volume(SubSeq(list, 1, n)) /\ w = c.volume
      BY <1>5, <1>10, <1>11
    <3>5. x + y = z
      BY <1>1, <3>4
    <3>6. x + (y + w) = z + w
      BY <3>5
    <3>7. QED
      BY <3>1, <3>2, <3>3, <3>4, <3>6
  <2>5. m \in 1 .. n + 1 /\ r = [done |-> r.done, bucket |-> SubSeq(list, m, n + 1), at |-> at]
        /\ ChartUpTo(r.done, list, length, before)
    BY <1>1, <2>2
  <2>6. Bucketed(r, list, length, n + 1)
    BY <1>1, <2>3, <2>4, <2>5 DEF Bucketed
  <2>7. QED
    BY <1>4, <2>1, <2>6
<1>13. CASE at < to
  <2>1. PICK r : r = AddCandle(s, c, length)
    OBVIOUS
  <2>2. SubSeq(list, n + 1, n + 1) = <<c>>
    <3>1. SubSeq(list, n + 1, n + 1) = Append(SubSeq(list, n + 1, n), c)
      <4>1. n + 1 \in 1 .. n + 1 /\ (n + 1) - 1 = n
        BY <1>2
      <4>2. SubSeq(list, n + 1, n + 1) = Append(SubSeq(list, n + 1, (n + 1) - 1), list[n + 1])
        BY <1>2, <4>1, SubSeqGrows
      <4>3. QED
        BY <1>4, <4>1, <4>2
    <3>2. SubSeq(list, n + 1, n) = <<>>
      BY <1>2
    <3>3. Append(<<>>, c) = <<c>>
      BY <1>5
    <3>4. QED
      BY <3>1, <3>2, <3>3
  <2>3. r = [done |-> Flushed(s), bucket |-> SubSeq(list, n + 1, n + 1), at |-> to]
    <3>1. ~(s.bucket = <<>> \/ BucketOf(c, length) = s.at)
      BY <1>1, <1>4, <1>5, <1>6, <1>9, <1>13
    <3>2. r = [done |-> Flushed(s), bucket |-> <<c>>, at |-> to]
      BY <1>4, <2>1, <3>1 DEF AddCandle
    <3>3. QED
      BY <2>2, <3>2
  <2>4. \A k \in n + 1 .. Len(list) : BucketOf(list[n], length) < BucketOf(list[k], length)
    <3>1. BucketOf(list[n], length) = at /\ BucketOf(list[n + 1], length) = to
      BY <1>1, <1>4
    <3>2. \A k \in n + 1 .. Len(list) : to <= BucketOf(list[k], length)
      <4>1. \A k \in n + 1 .. Len(list) : k \in 1 .. Len(list) /\ (k = n + 1 \/ n + 1 < k)
        BY <1>2
      <4>2. QED
        BY <1>2, <1>3, <1>5, <3>1, <4>1
    <3>3. \A k \in n + 1 .. Len(list) : BucketOf(list[k], length) \in Int
      BY <1>2, <1>3
    <3>4. QED
      BY <1>5, <1>13, <3>1, <3>2, <3>3
  <2>5. /\ ChartUpTo(Flushed(s), list, length, at)
        /\ Volume(Flushed(s)) = Volume(SubSeq(list, 1, n))
    <3>1. BucketOf(list[n], length) = at
      BY <1>1
    <3>2. QED
      BY <1>2, <2>4, <3>1, BucketIsFlushed
  <2>6. Volume(<<c>>) = c.volume
    <3>1. <<>> \in Seq(candles)
      OBVIOUS
    <3>2. Volume(Append(<<>>, c)) = Volume(<<>>) + c.volume /\ Volume(<<>>) = 0
      BY <1>2, <1>5, <3>1, VolumeAdds
    <3>3. Append(<<>>, c) = <<c>>
      BY <1>5
    <3>4. QED
      BY <1>5, <3>2, <3>3
  <2>7. Volume(r.done) + Volume(SubSeq(list, n + 1, n + 1)) = Volume(SubSeq(list, 1, n + 1))
    <3>1. Volume(SubSeq(list, 1, n + 1)) = Volume(SubSeq(list, 1, n)) + c.volume
      BY <1>8, <1>2
    <3>2. QED
      BY <2>2, <2>3, <2>5, <2>6, <3>1
  <2>8. \A k \in 1 .. n : BucketOf(list[k], length) < to
    <3>0. \A k \in 1 .. n : BucketOf(list[k], length) \in Int
      <4>1. \A k \in 1 .. n : k \in 1 .. Len(list)
        BY <1>2
      <4>2. QED
        BY <1>3, <4>1
    <3>1. \A k \in 1 .. n : BucketOf(list[k], length) <= at
      <4>1. \A k \in 1 .. n : k \in 1 .. m - 1 \/ k \in m .. n
        BY <1>2
      <4>2. \A k \in 1 .. n : BucketOf(list[k], length) < at \/ BucketOf(list[k], length) = at
        BY <1>1, <4>1
      <4>3. QED
        BY <3>0, <4>2
    <3>2. QED
      BY <1>5, <1>13, <3>0, <3>1
  <2>9. \A k \in n + 1 .. n + 1 : BucketOf(list[k], length) = to
    BY <1>4
  <2>10. n + 1 \in 1 .. n + 1 /\ r = [done |-> r.done, bucket |-> SubSeq(list, n + 1, n + 1), at |-> to]
         /\ ChartUpTo(r.done, list, length, at)
    BY <2>3, <2>5
  <2>11. Bucketed(r, list, length, n + 1)
    <3>1. \A k \in 1 .. (n + 1) - 1 : BucketOf(list[k], length) < to
      BY <2>8
    <3>2. QED
      BY <1>5, <1>13, <2>7, <2>9, <2>10, <3>1 DEF Bucketed
  <2>12. QED
    BY <1>4, <2>1, <2>11
<1>14. QED
  BY <1>5, <1>12, <1>13


LEMMA CandlesAreBucketed ==
  ASSUME NEW candles, NEW list, IsListOf(list, candles), NEW length \in Nat \ {0},
         NEW n \in 1 .. Len(list)
  PROVE  Bucketed(Buckets(list, length)[n], list, length, n)
<1>1. /\ list \in Seq(candles) /\ Len(list) \in Nat
      /\ \A k \in 1 .. Len(list) : list[k] \in candles /\ list[k].open \in Int
      /\ \A c \in candles : c.volume \in Nat
  BY LenProperties DEF IsListOf
<1>2. PICK states : states = Buckets(list, length)
  OBVIOUS
<1>3. /\ states[0] = [done |-> <<>>, bucket |-> <<>>, at |-> 0]
      /\ \A k \in 1 .. Len(list) : states[k] = AddCandle(states[k - 1], list[k], length)
  BY <1>1, <1>2, BucketsFollow
<1>4. PICK K : K = {k \in 0 .. Len(list) : k > 0 => Bucketed(states[k], list, length, k)}
  OBVIOUS
<1>5. Bucketed(states[1], list, length, 1)
  <2>1. 1 \in 1 .. Len(list) /\ list[1] \in candles /\ list[1].open \in Int
    BY <1>1
  <2>2. PICK at \in Int : at = BucketOf(list[1], length)
    BY <2>1, BucketBounds
  <2>3. Append(<<>>, list[1]) = <<list[1]>> /\ <<>> \in Seq(candles)
    BY <2>1
  <2>4. SubSeq(list, 1, 1) = <<list[1]>>
    <3>1. SubSeq(list, 1, 1) = Append(SubSeq(list, 1, 1 - 1), list[1])
      BY <1>1, <2>1, SubSeqGrows
    <3>2. SubSeq(list, 1, 1 - 1) = <<>>
      BY <1>1
    <3>3. QED
      BY <2>3, <3>1, <3>2
  <2>5. PICK s : s = states[1]
    OBVIOUS
  <2>6. s = [done |-> <<>>, bucket |-> SubSeq(list, 1, 1), at |-> at]
    <3>1. s = AddCandle(states[0], list[1], length)
      BY <1>3, <2>1, <2>5
    <3>2. PICK empty : empty = [done |-> <<>>, bucket |-> <<>>, at |-> 0]
      OBVIOUS
    <3>3. s = [empty EXCEPT !.bucket = Append(@, list[1]), !.at = BucketOf(list[1], length)]
      <4>1. empty = states[0]
        BY <1>3, <3>2
      <4>2. empty.bucket = <<>>
        BY <3>2
      <4>3. QED
        BY <3>1, <4>1, <4>2 DEF AddCandle
    <3>4. s = [empty EXCEPT !.bucket = <<list[1]>>, !.at = at]
      BY <2>2, <2>3, <3>2, <3>3
    <3>5. QED
      BY <2>4, <3>2, <3>4
  <2>7. Volume(<<>>) = 0 /\ Volume(SubSeq(list, 1, 1)) \in Nat
    <3>1. 1 \in 0 .. Len(list)
      BY <1>1, <2>1
    <3>2. Volume(<<>>) = 0
      BY <1>1, <2>3, VolumeAdds
    <3>3. QED
      BY <2>1, <3>1, <3>2, PartOfList
  <2>8. ChartUpTo(<<>>, list, length, at - 1)
    <3>1. Len(<<>>) = 0 /\ <<>> \in Seq(Wholes(list, length))
      OBVIOUS
    <3>2. QED
      BY <3>1 DEF ChartUpTo
  <2>9. /\ s = [done |-> s.done, bucket |-> SubSeq(list, 1, 1), at |-> at]
        /\ ChartUpTo(s.done, list, length, at - 1)
        /\ Volume(s.done) + Volume(SubSeq(list, 1, 1)) = Volume(SubSeq(list, 1, 1))
    BY <2>6, <2>7, <2>8
  <2>10. \A k \in 1 .. 1 : BucketOf(list[k], length) = at
    BY <2>2
  <2>11. 1 \in 1 .. 1 /\ at - 1 \in Int /\ at - 1 < at
         /\ \A k \in 1 .. 1 - 1 : BucketOf(list[k], length) < at
    OBVIOUS
  <2>12. QED
    BY <2>5, <2>9, <2>10, <2>11 DEF Bucketed
<1>6. ASSUME NEW k \in 0 .. Len(list) - 1, k \in K PROVE k + 1 \in K
  <2>1. k + 1 \in 0 .. Len(list)
    BY <1>1
  <2>2. CASE k = 0
    BY <1>4, <1>5, <2>1, <2>2
  <2>3. CASE k > 0
    <3>1. k \in 1 .. Len(list) - 1 /\ Bucketed(states[k], list, length, k)
      BY <1>1, <1>4, <1>6, <2>3
    <3>2. states[k + 1] = AddCandle(states[k], list[k + 1], length)
      <4>1. k + 1 \in 1 .. Len(list) /\ (k + 1) - 1 = k
        BY <1>1, <3>1
      <4>2. QED
        BY <1>3, <4>1
    <3>3. Bucketed(states[k + 1], list, length, k + 1)
      BY <3>1, <3>2, CandleIsAdded
    <3>4. QED
      BY <1>4, <2>1, <3>3
  <2>4. QED
    BY <2>2, <2>3
<1>7. n \in K /\ n > 0
  <2>1. 0 \in K
    BY <1>1, <1>4
  <2>2. 0 .. Len(list) \subseteq K
    BY <1>1, <1>6, <2>1, CountUp
  <2>3. QED
    BY <1>1, <2>2
<1>8. QED
  BY <1>2, <1>4, <1>7

\* The chart candles have all the volume, are of whole buckets and in order.
LEMMA AggregateKeeps ==
  ASSUME NEW candles, NEW list, IsListOf(list, candles), NEW req,
         NEW length \in Nat \ {0}, length = req.ratio * req.step
  PROVE  LET chart == Aggregate(list, req) IN
         /\ chart \in Seq(Wholes(list, length))
         /\ \A i \in 2 .. Len(chart) : chart[i - 1].open < chart[i].open
         /\ Volume(chart) = Volume(list)
<1>1. PICK chart : chart = Aggregate(list, req)
  OBVIOUS
<1>2. PICK n \in Nat : n = Len(list)
  BY LenProperties DEF IsListOf
<1>3. chart = Flushed(Buckets(list, length)[n])
  BY <1>1, <1>2 DEF Aggregate
<1>4. CASE n = 0
  <2>1. list = <<>>
    BY <1>2, <1>4, EmptySeq DEF IsListOf
  <2>2. Buckets(list, length)[0] = [done |-> <<>>, bucket |-> <<>>, at |-> 0]
    BY <1>2, BucketsFollow
  <2>3. chart = <<>>
    BY <1>3, <1>4, <2>2 DEF Flushed
  <2>4. <<>> \in Seq(Wholes(list, length)) /\ Len(<<>>) = 0
    OBVIOUS
  <2>5. chart \in Seq(Wholes(list, length)) /\ Volume(chart) = Volume(list)
    BY <2>1, <2>3, <2>4
  <2>6. \A i \in 2 .. Len(chart) : chart[i - 1].open < chart[i].open
    <3>1. Len(chart) = 0
      BY <2>3, <2>4
    <3>2. QED
      BY <3>1
  <2>7. QED
    BY <1>1, <2>5, <2>6
<1>5. CASE n > 0
  <2>1. n \in 1 .. Len(list) /\ 1 \in 1 .. Len(list)
    BY <1>2, <1>5
  <2>2. PICK s : s = Buckets(list, length)[n] /\ Bucketed(s, list, length, n)
    BY <2>1, CandlesAreBucketed
  <2>3. \A k \in n + 1 .. Len(list) : BucketOf(list[n], length) < BucketOf(list[k], length)
    BY <1>2
  <2>4. /\ ChartUpTo(Flushed(s), list, length, BucketOf(list[n], length))
        /\ Volume(Flushed(s)) = Volume(SubSeq(list, 1, n))
    BY <2>1, <2>2, <2>3, BucketIsFlushed
  <2>5. SubSeq(list, 1, n) = list
    BY <1>2, SubSeqFull DEF IsListOf
  <2>6. /\ chart \in Seq(Wholes(list, length)) /\ Volume(chart) = Volume(list)
        /\ \A i \in 2 .. Len(chart) : chart[i - 1].open < chart[i].open
    BY <1>3, <2>2, <2>4, <2>5 DEF ChartUpTo
  <2>7. QED
    BY <1>1, <2>6
<1>6. QED
  BY <1>2, <1>4, <1>5

\* The candle of a bucket is the candle of its whole interval.
LEMMA WholeCandle ==
  ASSUME NEW candles, NEW list, IsListOf(list, candles), NEW length \in Nat \ {0},
         NEW d \in Wholes(list, length)
  PROVE  LET source == {k \in DOMAIN list : list[k].open >= d.open /\ list[k].open < d.open + length}
         IN /\ d.open % length = 0 /\ source # {}
            /\ d.first = list[Min(source)].first /\ d.last = list[Max(source)].last
            /\ \A k \in source : d.low <= list[k].low /\ list[k].high <= d.high
<1>1. PICK p \in Blocks(list, length) : d = CandleOf(list, length, p)
  BY DEF Wholes
<1>2. PICK n \in Nat : n = Len(list) /\ DOMAIN list = 1 .. n
  BY LenProperties DEF IsListOf
<1>3. PICK a \in 1 .. n, b \in 1 .. n : a = p[1] /\ b = p[2]
  BY <1>2 DEF Blocks
<1>4. \A k \in 1 .. n : /\ list[k] \in candles
                        /\ list[k].open \in Int /\ list[k].high \in Int /\ list[k].low \in Int
  BY <1>2, LenProperties DEF IsListOf
<1>5. PICK at \in Int : at = BucketOf(list[a], length) /\ at % length = 0
  BY <1>4, BucketBounds
<1>6. a <= b /\ \A k \in 1 .. n : BucketOf(list[k], length) = at <=> k \in a .. b
  BY <1>2, <1>3, <1>5 DEF Blocks
<1>7. PICK bucket : bucket = SubSeq(list, a, b)
  OBVIOUS
<1>8. d = Derived(bucket, at)
  BY <1>1, <1>3, <1>5, <1>7 DEF CandleOf
<1>9. PICK source : source = {k \in DOMAIN list : list[k].open >= d.open /\ list[k].open < d.open + length}
  OBVIOUS
<1>10. source = a .. b
  <2>1. d.open = at
    BY <1>8 DEF Derived
  <2>2. \A k \in 1 .. n : BucketOf(list[k], length) = at
                            <=> at <= list[k].open /\ list[k].open < at + length
    BY <1>4, <1>5, BucketIsInterval
  <2>3. \A k \in 1 .. n : k \in source <=> k \in a .. b
    BY <1>2, <1>4, <1>6, <1>9, <2>1, <2>2
  <2>4. source \subseteq 1 .. n /\ a .. b \subseteq 1 .. n
    BY <1>2, <1>9
  <2>5. QED
    BY <2>3, <2>4
<1>11. Min(source) = a /\ Max(source) = b
  <2>1. IsFiniteSet(source) /\ source \subseteq Int /\ source # {} /\ a \in source /\ b \in source
    <3>1. IsFiniteSet(a .. b)
      BY FS_Interval
    <3>2. QED
      BY <1>6, <1>10, <3>1
  <2>2. /\ Min(source) \in source /\ \A x \in source : Min(source) <= x
        /\ Max(source) \in source /\ \A x \in source : x <= Max(source)
    BY <2>1, GreatestExists, LeastExists
  <2>3. QED
    BY <1>10, <2>1, <2>2
<1>12. /\ bucket \in Seq(candles) /\ Len(bucket) = b - a + 1 /\ DOMAIN bucket = 1 .. b - a + 1
       /\ \A i \in 1 .. b - a + 1 : bucket[i] = list[a + i - 1]
  <2>1. \A k \in a .. b : list[k] \in candles
    BY <1>4
  <2>2. /\ bucket \in Seq(candles) /\ Len(bucket) = b - a + 1
        /\ \A i \in 1 .. b - a + 1 : bucket[i] = list[a + i - 1]
    BY <1>6, <1>7, <2>1, SubSeqProperties
  <2>3. QED
    BY <2>2, LenProperties
<1>13. d.first = list[a].first /\ d.last = list[b].last
  <2>1. bucket[1] = list[a] /\ bucket[Len(bucket)] = list[b]
    BY <1>6, <1>12
  <2>2. QED
    BY <1>8, <2>1 DEF Derived, Last
<1>14. PICK highs, lows : /\ highs = {bucket[i].high : i \in DOMAIN bucket}
                          /\ lows = {bucket[i].low : i \in DOMAIN bucket}
  OBVIOUS
<1>15. /\ IsFiniteSet(highs) /\ highs \subseteq Int /\ highs # {}
       /\ IsFiniteSet(lows) /\ lows \subseteq Int /\ lows # {}
  <2>1. PICK f, g : /\ f = [i \in DOMAIN bucket |-> bucket[i].high]
                    /\ g = [i \in DOMAIN bucket |-> bucket[i].low]
    OBVIOUS
  <2>2. f \in Surjection(DOMAIN bucket, highs) /\ g \in Surjection(DOMAIN bucket, lows)
    BY <1>14, <2>1 DEF Surjection
  <2>3. IsFiniteSet(DOMAIN bucket)
    BY <1>12, FS_Interval
  <2>4. IsFiniteSet(highs) /\ IsFiniteSet(lows)
    BY <2>2, <2>3, FS_Surjection
  <2>5. 1 \in DOMAIN bucket /\ \A i \in DOMAIN bucket : bucket[i].high \in Int /\ bucket[i].low \in Int
    <3>1. 1 \in 1 .. b - a + 1
      BY <1>6
    <3>2. \A i \in 1 .. b - a + 1 : a + i - 1 \in 1 .. n
      BY <1>6
    <3>3. QED
      BY <1>4, <1>12, <3>1, <3>2
  <2>6. highs \subseteq Int /\ highs # {} /\ lows \subseteq Int /\ lows # {}
    BY <1>14, <2>5
  <2>7. QED
    BY <2>4, <2>6
<1>16. /\ \A x \in highs : x <= Max(highs)
       /\ \A x \in lows : Min(lows) <= x
  BY <1>15, GreatestExists, LeastExists
<1>17. d.high = Max(highs) /\ d.low = Min(lows)
  BY <1>8, <1>14 DEF Derived
<1>18. \A k \in a .. b : list[k].high \in highs /\ list[k].low \in lows
  <2>1. ASSUME NEW k \in a .. b PROVE list[k].high \in highs /\ list[k].low \in lows
    <3>1. PICK i \in 1 .. b - a + 1 : k = a + i - 1
      <4>1. k - a + 1 \in 1 .. b - a + 1 /\ k = a + (k - a + 1) - 1
        OBVIOUS
      <4>2. QED
        BY <4>1
    <3>2. i \in DOMAIN bucket /\ bucket[i] = list[k]
      BY <1>12, <3>1
    <3>3. QED
      BY <1>14, <3>2
  <2>2. QED
    BY <2>1
<1>19. d.open % length = 0
  BY <1>5, <1>8 DEF Derived
<1>20. source # {}
  BY <1>6, <1>10
<1>21. \A k \in source : d.low <= list[k].low /\ list[k].high <= d.high
  BY <1>10, <1>16, <1>17, <1>18
<1>22. d.first = list[Min(source)].first /\ d.last = list[Max(source)].last
  BY <1>11, <1>13
<1>23. QED
  BY <1>9, <1>19, <1>20, <1>21, <1>22

\* Whatever candles are fetched and however many make one of the chart, a chart
\* candle is the candle of its whole interval (aggregateCandlesToInterval).
THEOREM DerivedRight ==
  ASSUME NEW candles, NEW req, Distinct(candles),
         \A c \in candles : c.volume \in Nat /\ c.high \in Int /\ c.low \in Int,
         req.ratio \in Nat \ {0}, req.step \in Nat \ {0}
  PROVE  DerivedCandlesAreRight(candles, req)
<1> DEFINE list == InOrder(candles)
           chart == Aggregate(list, req)
           length == req.ratio * req.step
           In(at) == {k \in DOMAIN list : list[k].open >= at /\ list[k].open < at + length}
<1>1. length \in Nat \ {0}
  OBVIOUS
<1> HIDE DEF length
<1>3. IsListOf(list, candles)
  <2>1. \A c \in candles : c.open \in Int
    BY DEF Distinct
  <2>2. /\ list \in Seq(candles)
        /\ \A i, j \in 1 .. Len(list) : i < j => list[i].open < list[j].open
    BY InOrderSorts
  <2>3. QED
    BY <2>1, <2>2 DEF IsListOf
<1>4. /\ chart \in Seq(Wholes(list, length)) /\ Volume(chart) = Volume(list)
      /\ \A i \in 2 .. Len(chart) : chart[i - 1].open < chart[i].open
  BY <1>1, <1>3, AggregateKeeps DEF length
<1>5. DOMAIN chart = 1 .. Len(chart) /\ \A i \in DOMAIN chart : chart[i] \in Wholes(list, length)
  BY <1>4, LenProperties, ElementOfSeq
<1>6. ASSUME NEW i \in DOMAIN chart
      PROVE  LET d == chart[i]  source == In(d.open) IN
                /\ d.open % length = 0 /\ source # {}
                /\ d.first = list[Min(source)].first /\ d.last = list[Max(source)].last
                /\ \A k \in source : d.low <= list[k].low /\ list[k].high <= d.high
                /\ i > 1 => chart[i - 1].open < d.open
  <2>1. PICK d \in Wholes(list, length) : d = chart[i]
    BY <1>5
  <2>2. i > 1 => chart[i - 1].open < d.open
    <3>1. Len(chart) \in Nat
      BY <1>4, LenProperties
    <3>2. QED
      BY <1>4, <1>5, <2>1, <3>1
  <2>3. LET source == In(d.open) IN
        /\ d.open % length = 0 /\ source # {}
        /\ d.first = list[Min(source)].first /\ d.last = list[Max(source)].last
        /\ \A k \in source : d.low <= list[k].low /\ list[k].high <= d.high
    BY <1>1, <1>3, WholeCandle
  <2>4. QED
    BY <2>1, <2>2, <2>3
<1>7. QED
  BY <1>4, <1>6 DEF DerivedCandlesAreRight, length


-----------------------------------------------------------------------------
(* Ranges of charts.                                                         *)

LEMMA MinutesOfIntervals ==
  /\ IntervalMinutes("1m") = 1 /\ IntervalMinutes("5m") = 5 /\ IntervalMinutes("15m") = 15
  /\ IntervalMinutes("30m") = 30 /\ IntervalMinutes("1h") = 60 /\ IntervalMinutes("4h") = 240
  /\ IntervalMinutes("1d") = 1440 /\ IntervalMinutes("1w") = 10080
  /\ IntervalMinutes("1M") = 43200
<1>1. IntervalMinutes("1m") = 1
  BY SMT DEF IntervalMinutes
<1>2. IntervalMinutes("5m") = 5
  BY SMT DEF IntervalMinutes
<1>3. IntervalMinutes("15m") = 15
  BY SMT DEF IntervalMinutes
<1>4. IntervalMinutes("30m") = 30
  BY SMT DEF IntervalMinutes
<1>5. IntervalMinutes("1h") = 60
  BY SMT DEF IntervalMinutes
<1>6. IntervalMinutes("4h") = 240
  BY SMT DEF IntervalMinutes
<1>7. IntervalMinutes("1d") = 1440
  BY SMT DEF IntervalMinutes
<1>8. IntervalMinutes("1w") = 10080
  BY SMT DEF IntervalMinutes
<1>9. IntervalMinutes("1M") = 43200
  BY SMT DEF IntervalMinutes
<1>10. QED
  BY <1>1, <1>2, <1>3, <1>4, <1>5, <1>6, <1>7, <1>8, <1>9

LEMMA DaysOfRanges ==
  ASSUME NEW days
  PROVE  /\ RangeDays("1D", days) = 1 /\ RangeDays("3D", days) = 3 /\ RangeDays("1W", days) = 7
         /\ RangeDays("1M", days) = 30 /\ RangeDays("3M", days) = 90
         /\ RangeDays("1Y", days) = 365 /\ RangeDays("ALL", days) = days
<1>1. RangeDays("1D", days) = 1
  BY SMT DEF RangeDays
<1>2. RangeDays("3D", days) = 3
  BY SMT DEF RangeDays
<1>3. RangeDays("1W", days) = 7
  BY SMT DEF RangeDays
<1>4. RangeDays("1M", days) = 30
  BY SMT DEF RangeDays
<1>5. RangeDays("3M", days) = 90
  BY SMT DEF RangeDays
<1>6. RangeDays("1Y", days) = 365
  BY SMT DEF RangeDays
<1>7. RangeDays("ALL", days) = days
  BY SMT DEF RangeDays
<1>8. QED
  BY <1>1, <1>2, <1>3, <1>4, <1>5, <1>6, <1>7

LEMMA LongestRanges ==
  /\ MaxRangeForInterval("1m") = "1M" /\ MaxRangeForInterval("5m") = "3M"
  /\ MaxRangeForInterval("10m") = "3M" /\ MaxRangeForInterval("15m") = "3M"
  /\ MaxRangeForInterval("30m") = "1Y" /\ MaxRangeForInterval("1h") = "1Y"
  /\ MaxRangeForInterval("4h") = "1Y" /\ MaxRangeForInterval("1d") = "ALL"
  /\ MaxRangeForInterval("1w") = "ALL" /\ MaxRangeForInterval("1M") = "ALL"
<1>1. MaxRangeForInterval("1m") = "1M"
  BY SMT DEF MaxRangeForInterval
<1>2. MaxRangeForInterval("5m") = "3M"
  BY SMT DEF MaxRangeForInterval
<1>3. MaxRangeForInterval("10m") = "3M"
  BY SMT DEF MaxRangeForInterval
<1>4. MaxRangeForInterval("15m") = "3M"
  BY SMT DEF MaxRangeForInterval
<1>5. MaxRangeForInterval("30m") = "1Y"
  BY SMT DEF MaxRangeForInterval
<1>6. MaxRangeForInterval("1h") = "1Y"
  BY SMT DEF MaxRangeForInterval
<1>7. MaxRangeForInterval("4h") = "1Y"
  BY SMT DEF MaxRangeForInterval
<1>8. MaxRangeForInterval("1d") = "ALL"
  BY SMT DEF MaxRangeForInterval
<1>9. MaxRangeForInterval("1w") = "ALL"
  BY SMT DEF MaxRangeForInterval
<1>10. MaxRangeForInterval("1M") = "ALL"
  BY SMT DEF MaxRangeForInterval
<1>11. QED
  BY <1>1, <1>2, <1>3, <1>4, <1>5, <1>6, <1>7, <1>8, <1>9, <1>10

\* A range is cut to one that its interval allows.
LEMMA RangeIsCut ==
  ASSUME NEW interval \in {"1m", "5m", "10m", "15m", "30m", "1h", "4h", "1d", "1w", "1M"},
         NEW range \in {"1D", "3D", "1W", "1M", "3M", "1Y", "ALL"}
  PROVE  LET applied == AppliedRange(interval, range) IN
         /\ applied \in {"1D", "3D", "1W", "1M", "3M", "1Y", "ALL"}
         /\ interval = "1m" => applied \in {"1D", "3D", "1W", "1M"}
         /\ interval \in {"5m", "10m", "15m"} => applied \in {"1D", "3D", "1W", "1M", "3M"}
         /\ interval \in {"30m", "1h", "4h"} => applied # "ALL"
<1> DEFINE Index(r) == CHOOSE i \in DOMAIN RangeOrder : RangeOrder[i] = r
<1>1. PICK order : order = RangeOrder
  OBVIOUS
<1>2. /\ DOMAIN order = 1 .. 7
      /\ order[1] = "1D" /\ order[2] = "3D" /\ order[3] = "1W" /\ order[4] = "1M"
      /\ order[5] = "3M" /\ order[6] = "1Y" /\ order[7] = "ALL"
  BY <1>1 DEF RangeOrder
<1>3. \A i \in 1 .. 7 : i \in {1, 2, 3, 4, 5, 6, 7}
  OBVIOUS
<1>4. \A i, j \in 1 .. 7 : order[i] = order[j] => i = j
  BY <1>2, <1>3
<1>5. \A i \in 1 .. 7 : Index(order[i]) = i
  <2>1. ASSUME NEW i \in 1 .. 7 PROVE Index(order[i]) = i
    <3>1. \E j \in 1 .. 7 : order[j] = order[i]
      OBVIOUS
    <3>2. Index(order[i]) \in 1 .. 7 /\ order[Index(order[i])] = order[i]
      BY <1>1, <1>2, <3>1
    <3>3. QED
      BY <1>4, <3>2
  <2>2. QED
    BY <2>1
<1>6. /\ Index("1D") = 1 /\ Index("3D") = 2 /\ Index("1W") = 3 /\ Index("1M") = 4
      /\ Index("3M") = 5 /\ Index("1Y") = 6 /\ Index("ALL") = 7
  <2>1. 1 \in 1 .. 7 /\ 2 \in 1 .. 7 /\ 3 \in 1 .. 7 /\ 4 \in 1 .. 7 /\ 5 \in 1 .. 7
        /\ 6 \in 1 .. 7 /\ 7 \in 1 .. 7
    OBVIOUS
  <2> HIDE DEF Index
  <2>2. QED
    BY <1>2, <1>5, <2>1
<1>7. PICK longest : longest = MaxRangeForInterval(interval)
  OBVIOUS
<1>8. /\ interval = "1m" => longest = "1M"
      /\ interval \in {"5m", "10m", "15m"} => longest = "3M"
      /\ interval \in {"30m", "1h", "4h"} => longest = "1Y"
      /\ interval \in {"1d", "1w", "1M"} => longest = "ALL"
  BY <1>7, LongestRanges
<1>9. AppliedRange(interval, range) = IF Index(range) > Index(longest) THEN longest ELSE range
  BY <1>7 DEF AppliedRange
<1> HIDE DEF Index
<1>10. QED
  BY <1>6, <1>8, <1>9

\* The pages hold every range of every interval but three months of single
\* minutes (fetchBinanceHistoricalKlines).
THEOREM RangeFits ==
  ASSUME NEW interval \in {"1m", "5m", "10m", "15m", "30m", "1h", "4h", "1d", "1w", "1M"},
         NEW range \in {"1D", "3D", "1W", "1M", "3M", "1Y", "ALL"},
         NEW daysSince2017 \in Nat, 0 < daysSince2017, daysSince2017 <= 80000
  PROVE  RangeFitsPages(interval, range, 80, 1000, daysSince2017)
<1>1. PICK base : base = IF interval = "10m" THEN "1m" ELSE interval
  OBVIOUS
<1>2. PICK applied : applied = AppliedRange(interval, range)
  OBVIOUS
<1>3. /\ applied \in {"1D", "3D", "1W", "1M", "3M", "1Y", "ALL"}
      /\ interval = "1m" => applied \in {"1D", "3D", "1W", "1M"}
      /\ interval \in {"5m", "10m", "15m"} => applied \in {"1D", "3D", "1W", "1M", "3M"}
      /\ interval \in {"30m", "1h", "4h"} => applied # "ALL"
  BY <1>2, RangeIsCut
<1>4. PICK days : days = RangeDays(applied, daysSince2017)
  OBVIOUS
<1>5. /\ days \in Nat /\ 0 < days /\ days <= 80000 /\ (applied # "ALL" => days <= 365)
      /\ applied \in {"1D", "3D", "1W", "1M"} => days <= 30
      /\ applied = "3M" => days = 90
  BY <1>3, <1>4, DaysOfRanges
<1>6. PICK minutes : minutes = IntervalMinutes(base)
  OBVIOUS
<1>7. /\ minutes \in {1, 5, 15, 30, 60, 240, 1440, 10080, 43200}
      /\ interval \in {"1m", "10m"} => minutes = 1
      /\ interval \in {"5m", "15m"} => minutes >= 5
      /\ interval \in {"30m", "1h", "4h"} => minutes >= 30
      /\ interval \in {"1d", "1w", "1M"} => minutes >= 1440
  BY <1>1, <1>6, MinutesOfIntervals
<1>8. PICK needed \in Int : needed = (1440 * days) \div minutes
  BY <1>5, <1>7
<1>9. needed <= 80 * 1000 <=> ~(interval = "10m" /\ applied = "3M")
  <2>1. minutes \in Nat \ {0} /\ \A most \in Nat : 1440 * days <= most * minutes => needed <= most
    BY <1>5, <1>7, <1>8
  <2>2. CASE interval = "1m"
    <3>1. needed = 1440 * days
      BY <1>5, <1>7, <1>8, <2>2
    <3>2. days <= 30
      BY <1>3, <1>5, <2>2
    <3>3. QED
      BY <1>5, <2>2, <3>1, <3>2
  <2>3. CASE interval = "10m"
    <3>1. needed = 1440 * days
      BY <1>5, <1>7, <1>8, <2>3
    <3>2. days <= 30 \/ applied = "3M"
      BY <1>3, <1>5, <2>3
    <3>3. applied = "3M" => days = 90
      BY <1>5
    <3>4. applied # "3M" => days <= 30
      BY <3>2
    <3>5. CASE applied = "3M"
      BY <2>3, <3>1, <3>3, <3>5
    <3>6. CASE applied # "3M"
      BY <1>5, <3>1, <3>4, <3>6
    <3>7. QED
      BY <3>5, <3>6
  <2>4. CASE interval \in {"5m", "15m"}
    <3>1. minutes >= 5 /\ days <= 90
      BY <1>3, <1>5, <1>7, <2>4
    <3>2. 1440 * days <= 80000 * minutes
      BY <1>5, <1>7, <3>1
    <3>3. QED
      BY <2>1, <2>4, <3>2
  <2>5. CASE interval \in {"30m", "1h", "4h"}
    <3>1. minutes >= 30 /\ days <= 365
      BY <1>3, <1>5, <1>7, <2>5
    <3>2. 1440 * days <= 80000 * minutes
      BY <1>5, <1>7, <3>1
    <3>3. QED
      BY <2>1, <2>5, <3>2
  <2>6. CASE interval \in {"1d", "1w", "1M"}
    <3>1. 1440 * days <= 80000 * minutes
      BY <1>5, <1>7, <2>6
    <3>2. QED
      BY <2>1, <2>6, <3>1
  <2>7. QED
    BY <2>2, <2>3, <2>4, <2>5, <2>6
<1>10. QED
  BY <1>1, <1>2, <1>4, <1>6, <1>8, <1>9 DEF RangeFitsPages

-----------------------------------------------------------------------------
(* Live market data.                                                         *)
MarketCandles == [open : Int, provider : {"binance", "coinbase"}, closed : BOOLEAN]
ProviderRows == Seq([open : Int, ok : BOOLEAN])

\* Requests as the gateway makes them, and replies as fetches can end.
IsRequest(req) ==
  /\ req.lookback \in Nat \ {0} /\ req.step \in Nat \ {0} /\ req.now \in Int
  /\ req.provider \in {"binance", "coinbase"}
IsReply(reply) == reply.kind = "answer" => reply.rows \in ProviderRows

\* Candles as a response promises them.
AreFresh(candles, provider, req) ==
  /\ Len(candles) = req.lookback /\ candles \in Seq(MarketCandles)
  /\ \A i \in DOMAIN candles :
       /\ candles[i].provider = provider /\ req.now >= candles[i].open + req.step
       /\ i > 1 => candles[i - 1].open <= candles[i].open
  /\ req.now - (Last(candles).open + req.step) <= MaxAge(req)

\* The last n of a list that has so many.
LEMMA LastOfIs ==
  ASSUME NEW S, NEW s \in Seq(S), NEW n \in Nat \ {0}, Len(s) >= n
  PROVE  /\ LastOf(s, n) \in Seq(S) /\ Len(LastOf(s, n)) = n
         /\ \A i \in 1 .. n : LastOf(s, n)[i] = s[Len(s) - n + i]
<1>1. PICK m \in Nat : m = Len(s)
  BY LenProperties
<1>2. m >= n /\ \A i \in 1 .. m : s[i] \in S
  BY <1>1, LenProperties
<1>3. PICK from \in Int : from = m - n + 1
  OBVIOUS
<1>4. LastOf(s, n) = SubSeq(s, from, m)
  <2>1. (IF m > n THEN m - n + 1 ELSE 1) = from
    BY <1>2, <1>3
  <2>2. QED
    BY <1>1, <2>1 DEF LastOf
<1>5. \A i \in from .. m : s[i] \in S
  BY <1>2, <1>3
<1>6. /\ SubSeq(s, from, m) \in Seq(S)
      /\ Len(SubSeq(s, from, m)) = IF from <= m THEN m - from + 1 ELSE 0
      /\ \A i \in 1 .. m - from + 1 : SubSeq(s, from, m)[i] = s[from + i - 1]
  BY <1>5, SubSeqProperties
<1>7. m - from + 1 = n /\ from <= m /\ \A i \in 1 .. n : from + i - 1 = m - n + i
  BY <1>2, <1>3
<1>8. QED
  BY <1>1, <1>4, <1>6, <1>7

\* What parses and does not fail is fresh.
LEMMA ParsedIsFresh ==
  ASSUME NEW req, IsRequest(req), NEW N \in Nat, NEW candles \in [1 .. N -> MarketCandles],
         NEW provider,
         \A i \in 1 .. N : candles[i].provider = provider
                           /\ candles[i].closed = (req.now >= candles[i].open + req.step)
  PROVE  /\ Parsed(candles, req).failed \in BOOLEAN
         /\ ~Parsed(candles, req).failed => AreFresh(Parsed(candles, req).candles, provider, req)
<1>1. PICK P : P = {i \in 1 .. N : candles[i].closed}
  OBVIOUS
<1>2. P \subseteq 1 .. N /\ P \subseteq Int /\ IsFiniteSet(P)
  BY <1>1, FS_Interval, FS_Subset
<1> DEFINE key == [i \in P |-> candles[i].open]
<1>3. key \in [P -> Int] /\ \A i \in P : key[i] = candles[i].open
  BY <1>2 DEF MarketCandles
<1>4. PICK list : list = Arranged(candles, key)
  OBVIOUS
<1>5. Parsed(candles, req) =
        [candles |-> LastOf(list, req.lookback),
         failed  |-> \/ Len(list) < req.lookback
                     \/ list # <<>> /\ Age(Last(list), req) > MaxAge(req)
                     \/ list = <<>>,
         lastCandleTime |-> IF list = <<>> THEN NoTime ELSE Last(list).open]
  BY <1>1, <1>4 DEF Parsed
<1> HIDE DEF key
<1>6. PICK n \in Nat : \E at \in [1 .. n -> P] : Lists(list, candles, P, key, n, at)
  BY <1>2, <1>3, <1>4, ArrangedIs
<1>7. PICK at \in [1 .. n -> P] : Lists(list, candles, P, key, n, at)
  BY <1>6
<1>8. /\ list \in Seq(MarketCandles) /\ Len(list) = n
      /\ \A k \in 1 .. n : list[k] = candles[at[k]] /\ at[k] \in P
  <2>1. list = [k \in 1 .. n |-> candles[at[k]]]
    BY <1>7 DEF Lists
  <2>2. \A k \in 1 .. n : at[k] \in P /\ candles[at[k]] \in MarketCandles
    BY <1>2
  <2>3. QED
    BY <2>1, <2>2
<1>9. \A k \in 1 .. n : /\ list[k].provider = provider /\ req.now >= list[k].open + req.step
                        /\ list[k].open \in Int
  BY <1>1, <1>2, <1>8 DEF MarketCandles
<1>10. \A k, l \in 1 .. n : k < l => list[k].open <= list[l].open
  <2>1. ASSUME NEW k \in 1 .. n, NEW l \in 1 .. n, k < l PROVE list[k].open <= list[l].open
    <3>1. Earlier(at[k], at[l], key) /\ at[k] \in P /\ at[l] \in P
      BY <1>7, <2>1 DEF Lists
    <3>2. key[at[k]] <= key[at[l]]
      BY <1>3, <3>1 DEF Earlier
    <3>3. QED
      BY <1>3, <1>8, <3>1, <3>2
  <2>2. QED
    BY <2>1
<1>11. PICK L \in Nat \ {0} : L = req.lookback
  BY DEF IsRequest
<1>12. ASSUME n >= L, ~(Age(Last(list), req) > MaxAge(req))
       PROVE  AreFresh(LastOf(list, L), provider, req)
  <2>1. /\ LastOf(list, L) \in Seq(MarketCandles) /\ Len(LastOf(list, L)) = L
        /\ \A i \in 1 .. L : LastOf(list, L)[i] = list[n - L + i]
    <3>1. list \in Seq(MarketCandles) /\ Len(list) >= L
      BY <1>8, <1>12
    <3>2. /\ LastOf(list, L) \in Seq(MarketCandles) /\ Len(LastOf(list, L)) = L
          /\ \A i \in 1 .. L : LastOf(list, L)[i] = list[Len(list) - L + i]
      BY <3>1, LastOfIs
    <3>3. QED
      BY <1>8, <3>2
  <2>2. PICK kept \in Seq(MarketCandles) : kept = LastOf(list, L)
    BY <2>1
  <2>3. Len(kept) = L /\ DOMAIN kept = 1 .. L /\ \A i \in 1 .. L : kept[i] = list[n - L + i]
    BY <2>1, <2>2, LenProperties
  <2>4. \A i \in 1 .. L : n - L + i \in 1 .. n
    BY <1>12
  <2>5. \A i \in 1 .. L : /\ kept[i].provider = provider /\ req.now >= kept[i].open + req.step
                          /\ i > 1 => kept[i - 1].open <= kept[i].open
    <3>1. ASSUME NEW i \in 1 .. L, i > 1 PROVE kept[i - 1].open <= kept[i].open
      <4>1. i - 1 \in 1 .. L /\ n - L + (i - 1) \in 1 .. n /\ n - L + i \in 1 .. n
            /\ n - L + (i - 1) < n - L + i
        BY <1>12, <3>1
      <4>2. QED
        BY <1>10, <2>3, <4>1
    <3>2. ASSUME NEW i \in 1 .. L
          PROVE  kept[i].provider = provider /\ req.now >= kept[i].open + req.step
      <4>1. PICK k \in 1 .. n : k = n - L + i
        BY <2>4
      <4>2. kept[i] = list[k]
        BY <2>3, <4>1
      <4>3. QED
        BY <1>9, <4>2
    <3>3. QED
      BY <3>1, <3>2
  <2>6. Last(kept) = Last(list)
    <3>1. L \in 1 .. L /\ n - L + L = n
      OBVIOUS
    <3>2. QED
      BY <1>8, <2>3, <3>1 DEF Last
  <2>7. req.now - (Last(list).open + req.step) <= MaxAge(req)
    <3>1. PICK age \in Int : age = Age(Last(list), req)
      <4>1. n \in 1 .. n
        BY <1>12
      <4>2. Last(list).open \in Int
        BY <1>8, <1>9, <4>1 DEF Last
      <4>3. QED
        BY <4>2 DEF Age, IsRequest
    <3>2. PICK most \in Int : most = MaxAge(req)
      BY DEF MaxAge, IsRequest, Minute
    <3>3. age <= most
      BY <1>12, <3>1, <3>2
    <3>4. QED
      BY <3>1, <3>2, <3>3 DEF Age
  <2>8. QED
    BY <1>11, <2>2, <2>3, <2>5, <2>6, <2>7 DEF AreFresh
<1>13. Parsed(candles, req).failed \in BOOLEAN
  BY <1>5
<1>14. ~Parsed(candles, req).failed => n >= L /\ ~(Age(Last(list), req) > MaxAge(req))
  BY <1>5, <1>8, <1>11
<1>15. QED
  BY <1>5, <1>11, <1>12, <1>13, <1>14

\* What either adapter answers, failed or not.
LEMMA BinanceIsFresh ==
  ASSUME NEW req, IsRequest(req), NEW reply, IsReply(reply)
  PROVE  LET result == FetchBinanceSpotCandles(req, reply) IN
         /\ result.failed \in BOOLEAN
         /\ ~result.failed => AreFresh(result.candles, "binance", req)
<1>1. CASE ~(req.sourceMode = "live" /\ IsBinanceNativeInterval(req.interval) /\ reply.kind = "answer")
  BY <1>1 DEF FetchBinanceSpotCandles, EmptyFailClosed
<1>2. CASE req.sourceMode = "live" /\ IsBinanceNativeInterval(req.interval) /\ reply.kind = "answer"
  <2>1. PICK rows \in ProviderRows : rows = reply.rows
    BY <1>2 DEF IsReply
  <2>2. PICK N \in Nat : DOMAIN rows = 1 .. N /\ \A i \in 1 .. N : rows[i].open \in Int
    <3>1. rows \in [1 .. Len(rows) -> [open : Int, ok : BOOLEAN]] /\ Len(rows) \in Nat
      BY LenProperties DEF ProviderRows
    <3>2. QED
      BY <3>1
  <2>3. FetchBinanceSpotCandles(req, reply) = BinanceKlines(rows, req)
    BY <1>2, <2>1 DEF FetchBinanceSpotCandles
  <2>4. CASE \E i \in DOMAIN rows : ~rows[i].ok
    <3>1. FetchBinanceSpotCandles(req, reply) = EmptyFailClosed
      BY <2>3, <2>4 DEF BinanceKlines
    <3>2. QED
      BY <3>1 DEF EmptyFailClosed
  <2>5. CASE ~\E i \in DOMAIN rows : ~rows[i].ok
    <3>1. PICK candles : candles = [i \in 1 .. N |-> BinanceRow(rows[i], req)]
      OBVIOUS
    <3>2. FetchBinanceSpotCandles(req, reply) = Parsed(candles, req)
      BY <2>2, <2>3, <2>5, <3>1 DEF BinanceKlines
    <3>3. \A i \in 1 .. N : /\ candles[i] \in MarketCandles /\ candles[i].provider = "binance"
                            /\ candles[i].closed = (req.now >= candles[i].open + req.step)
      BY <2>2, <3>1 DEF BinanceRow, MarketCandles
    <3>4. candles \in [1 .. N -> MarketCandles]
      BY <3>1, <3>3
    <3>5. QED
      BY <3>2, <3>3, <3>4, ParsedIsFresh
  <2>6. QED
    BY <2>4, <2>5
<1>3. QED
  BY <1>1, <1>2

LEMMA CoinbaseIsFresh ==
  ASSUME NEW req, IsRequest(req), NEW reply, IsReply(reply)
  PROVE  LET result == FetchCoinbaseExchangeCandles(req, reply) IN
         /\ result.failed \in BOOLEAN
         /\ ~result.failed => AreFresh(result.candles, "coinbase", req)
<1>1. CASE ~(/\ req.sourceMode = "live" /\ IsCoinbaseSupportedInterval(req.interval)
             /\ reply.kind = "answer")
  BY <1>1 DEF FetchCoinbaseExchangeCandles, EmptyFailClosed
<1>2. CASE req.sourceMode = "live" /\ IsCoinbaseSupportedInterval(req.interval) /\ reply.kind = "answer"
  <2>1. PICK rows \in ProviderRows : rows = reply.rows
    BY <1>2 DEF IsReply
  <2>2. PICK R : R = [open : Int, ok : BOOLEAN]
    OBVIOUS
  <2>3. rows \in Seq(R) /\ DOMAIN rows = 1 .. Len(rows)
    BY <2>1, <2>2 DEF ProviderRows
  <2>4. PICK P : P = {i \in 1 .. Len(rows) : rows[i].ok}
    OBVIOUS
  <2>5. PICK good : good = Kept(rows, P)
    OBVIOUS
  <2>6. good \in Seq(R)
    <3>1. P \in SUBSET (1 .. Len(rows))
      BY <2>4
    <3>2. QED
      BY <2>3, <2>5, <3>1, KeptElements
  <2>7. PICK n \in Nat : n = Len(good)
    BY <2>6
  <2>8. DOMAIN good = 1 .. n /\ \A k \in 1 .. n : good[k] \in R
    BY <2>6, <2>7
  <2>9. \A k \in 1 .. n : good[k].open \in Int
    BY <2>2, <2>8
  <2>10. PICK candles : candles = [i \in 1 .. n |-> CoinbaseRow(good[i], req)]
    OBVIOUS
  <2>11. FetchCoinbaseExchangeCandles(req, reply) = Parsed(candles, req)
    BY <1>2, <2>1, <2>3, <2>4, <2>5, <2>8, <2>10 DEF FetchCoinbaseExchangeCandles, CoinbaseCandles
  <2>12. \A i \in 1 .. n : /\ candles[i] \in MarketCandles /\ candles[i].provider = "coinbase"
                           /\ candles[i].closed = (req.now >= candles[i].open + req.step)
    BY <2>9, <2>10 DEF CoinbaseRow, MarketCandles
  <2>13. candles \in [1 .. n -> MarketCandles]
    BY <2>10, <2>12
  <2>14. QED
    BY <2>11, <2>12, <2>13, ParsedIsFresh
<1>3. QED
  BY <1>1, <1>2

\* With a ticker, of which a price is needed.
IsFreshData(data, provider, req) ==
  /\ data.provider = provider /\ data.failed \in BOOLEAN
  /\ ~data.failed => AreFresh(data.candles, provider, req)

LEMMA BinanceDataIsFresh ==
  ASSUME NEW req, IsRequest(req), NEW net, IsReply(net.binanceCandles)
  PROVE  IsFreshData(FetchBinanceSpotMarketData(req, net), "binance", req)
<1>1. PICK result : result = FetchBinanceSpotCandles(req, net.binanceCandles)
  OBVIOUS
<1>2. result.failed \in BOOLEAN /\ (~result.failed => AreFresh(result.candles, "binance", req))
  BY <1>1, BinanceIsFresh
<1>3. PICK ticker : ticker = FetchBinanceSpotTicker(req, net.binanceTicker)
  OBVIOUS
<1>4. ticker.failed \in BOOLEAN
  BY <1>3 DEF FetchBinanceSpotTicker, BinanceTicker, EmptyTicker
<1>5. FetchBinanceSpotMarketData(req, net) \in
        {Joined("binance", ticker, result), EmptyFailClosedMarketData("binance")}
  BY <1>1, <1>3 DEF FetchBinanceSpotMarketData
<1>6. IsFreshData(Joined("binance", ticker, result), "binance", req)
  BY <1>2, <1>4 DEF IsFreshData, Joined
<1>7. IsFreshData(EmptyFailClosedMarketData("binance"), "binance", req)
  BY DEF IsFreshData, EmptyFailClosedMarketData, Joined, EmptyTicker, EmptyFailClosed
<1>8. QED
  BY <1>5, <1>6, <1>7

LEMMA CoinbaseDataIsFresh ==
  ASSUME NEW req, IsRequest(req), NEW net, IsReply(net.coinbaseCandles)
  PROVE  IsFreshData(FetchCoinbaseExchangeMarketData(req, net), "coinbase", req)
<1>1. PICK result : result = FetchCoinbaseExchangeCandles(req, net.coinbaseCandles)
  OBVIOUS
<1>2. result.failed \in BOOLEAN /\ (~result.failed => AreFresh(result.candles, "coinbase", req))
  BY <1>1, CoinbaseIsFresh
<1>3. PICK ticker : ticker = FetchCoinbaseExchangeTicker(req, net.coinbaseTicker)
  OBVIOUS
<1>4. ticker.failed \in BOOLEAN
  BY <1>3 DEF FetchCoinbaseExchangeTicker, CoinbaseTicker, EmptyTicker
<1>5. FetchCoinbaseExchangeMarketData(req, net) \in
        {Joined("coinbase", ticker, result), EmptyFailClosedMarketData("coinbase")}
  BY <1>1, <1>3 DEF FetchCoinbaseExchangeMarketData
<1>6. IsFreshData(Joined("coinbase", ticker, result), "coinbase", req)
  BY <1>2, <1>4 DEF IsFreshData, Joined
<1>7. IsFreshData(EmptyFailClosedMarketData("coinbase"), "coinbase", req)
  BY DEF IsFreshData, EmptyFailClosedMarketData, Joined, EmptyTicker, EmptyFailClosed
<1>8. QED
  BY <1>5, <1>6, <1>7

\* What a response says that is not failed holds of its data, whatever the
\* providers replied, and it fails only where no provider that may answer could
\* do better (buildProviderAwareMarketDataFetcher).
THEOREM ResponseSound ==
  ASSUME NEW req, IsRequest(req), NEW net, IsReply(net.binanceCandles), IsReply(net.coinbaseCandles)
  PROVE  ResponseIsSound(req, net) /\ ResponseIsBest(req, net)
<1>1. PICK first : first = FetchBinanceSpotMarketData(req, net)
  OBVIOUS
<1>2. PICK second : second = FetchCoinbaseExchangeMarketData(req, net)
  OBVIOUS
<1>3. IsFreshData(first, "binance", req) /\ IsFreshData(second, "coinbase", req)
  BY <1>1, <1>2, BinanceDataIsFresh, CoinbaseDataIsFresh
<1>4. PICK r : r = FetchMarketData(req, net)
  OBVIOUS
<1> DEFINE Healthy(data) == ProviderHealthStatus(data, req.lookback)
<1>5. \/ req.provider = "coinbase" /\ r = AddProviderHealth(second, req, FALSE)
      \/ /\ req.provider = "binance" /\ Healthy(first) # "failed"
         /\ r = AddProviderHealth(first, req, FALSE)
      \/ /\ req.provider = "binance" /\ Healthy(first) = "failed"
         /\ r = AddProviderHealth(second, req, TRUE)
  BY <1>1, <1>2, <1>3, <1>4
     DEF FetchMarketData, ShouldFallbackToCoinbase, FetchCoinbaseFallback, IsFreshData, IsRequest
<1>6. ASSUME NEW data, NEW provider, IsFreshData(data, provider, req), Healthy(data) # "failed"
      PROVE  /\ data.latestPrice # NoPrice /\ AreFresh(data.candles, provider, req)
             /\ data.provider = provider /\ Healthy(data) = "ok"
  <2>1. ~data.failed /\ data.latestPrice # NoPrice
    BY <1>6 DEF ProviderHealthStatus
  <2>2. AreFresh(data.candles, provider, req) /\ data.provider = provider
    BY <1>6, <2>1 DEF IsFreshData
  <2>3. ~(Len(data.candles) < req.lookback)
    BY <2>2 DEF AreFresh, IsRequest
  <2>4. QED
    BY <1>6, <2>1, <2>2, <2>3 DEF ProviderHealthStatus
<1>7. ASSUME NEW data, NEW provider, NEW fallback \in BOOLEAN, IsFreshData(data, provider, req),
             r = AddProviderHealth(data, req, fallback)
      PROVE  /\ r.data = data /\ r.resolvedProvider = provider /\ r.fallbackUsed = fallback
             /\ (r.status = "failed") = (Healthy(data) = "failed")
             /\ r.status # "failed" => (r.status = "ok") = ~fallback
  BY <1>6, <1>7 DEF AddProviderHealth, IsFreshData
<1>8. ResponseIsBest(req, net)
  BY <1>1, <1>2, <1>3, <1>4, <1>5, <1>7 DEF ResponseIsBest
<1>9. ASSUME NEW data, NEW provider, NEW fallback \in BOOLEAN, IsFreshData(data, provider, req),
             r = AddProviderHealth(data, req, fallback), fallback = (provider # req.provider),
             r.status # "failed"
      PROVE  /\ r.data.latestPrice # NoPrice /\ AreFresh(r.data.candles, r.resolvedProvider, req)
             /\ (r.status = "ok") = (r.resolvedProvider = req.provider)
             /\ r.fallbackUsed = (r.resolvedProvider # req.provider)
  <2>1. /\ r.data = data /\ r.resolvedProvider = provider /\ r.fallbackUsed = fallback
        /\ Healthy(data) # "failed" /\ (r.status = "ok") = ~fallback
    BY <1>7, <1>9
  <2>2. data.latestPrice # NoPrice /\ AreFresh(data.candles, provider, req)
    BY <1>6, <1>9, <2>1
  <2>3. QED
    BY <1>9, <2>1, <2>2
<1>10. ASSUME r.status # "failed"
       PROVE  /\ r.data.latestPrice # NoPrice /\ AreFresh(r.data.candles, r.resolvedProvider, req)
              /\ (r.status = "ok") = (r.resolvedProvider = req.provider)
              /\ r.fallbackUsed = (r.resolvedProvider # req.provider)
  <2>1. CASE req.provider = "coinbase" /\ r = AddProviderHealth(second, req, FALSE)
    BY <1>3, <1>9, <1>10, <2>1
  <2>2. CASE req.provider = "binance" /\ r = AddProviderHealth(first, req, FALSE)
    BY <1>3, <1>9, <1>10, <2>2
  <2>3. CASE req.provider = "binance" /\ r = AddProviderHealth(second, req, TRUE)
    BY <1>3, <1>9, <1>10, <2>3
  <2>4. QED
    BY <1>5, <2>1, <2>2, <2>3
<1>11. ResponseIsSound(req, net)
  <2>1. SUFFICES ASSUME r.status # "failed"
                 PROVE  /\ r.data.latestPrice # NoPrice
                        /\ Len(r.data.candles) = req.lookback
                        /\ \A i \in DOMAIN r.data.candles :
                             /\ r.data.candles[i].provider = r.resolvedProvider
                             /\ req.now >= r.data.candles[i].open + req.step
                             /\ i > 1 => r.data.candles[i - 1].open <= r.data.candles[i].open
                        /\ req.now - (Last(r.data.candles).open + req.step) <= MaxAge(req)
                        /\ (r.status = "ok") = (r.resolvedProvider = req.provider)
                        /\ r.fallbackUsed = (r.resolvedProvider # req.provider)
    BY <1>4 DEF ResponseIsSound, MaxAge
  <2>2. QED
    BY <1>10, <2>1 DEF AreFresh
<1>12. QED
  BY <1>8, <1>11

-----------------------------------------------------------------------------
(* The fair value signal.                                                    *)
\* What stands for a missing number is no time and no price.
LEMMA NullIsNegative == Null \in Int /\ Null < 0
BY SMT DEF Null

LEMMA LatestExists ==
  ASSUME NEW points, NEW N \in Nat \ {0}, DOMAIN points = 1 .. N, \A i \in 1 .. N : points[i].time \in Int
  PROVE  /\ Latest(points) \in 1 .. N
         /\ \A j \in 1 .. N : \/ points[j].time < points[Latest(points)].time
                              \/ /\ points[j].time = points[Latest(points)].time
                                 /\ Latest(points) <= j
<1>1. IsFiniteSet(1 .. N)
  BY FS_Interval
<1>2. PICK times : times = [i \in 1 .. N |-> points[i].time]
  OBVIOUS
<1>3. PICK T : T = {times[i] : i \in 1 .. N}
  OBVIOUS
<1>4. IsFiniteSet(T)
  BY <1>1, <1>3, ImageIsFinite
<1>5. T \subseteq Int /\ T # {}
  <2>1. times[1] \in T
    BY <1>3
  <2>2. QED
    BY <1>2, <1>3, <2>1
<1>6. PICK top \in Int : top \in T /\ \A x \in T : x <= top
  <2>1. Max(T) \in T /\ \A x \in T : x <= Max(T)
    BY <1>4, <1>5, GreatestExists
  <2>2. QED
    BY <1>5, <2>1
<1>7. PICK I : I = {i \in 1 .. N : points[i].time = top}
  OBVIOUS
<1>8. IsFiniteSet(I) /\ I \subseteq Int /\ I # {}
  <2>1. I \in SUBSET (1 .. N)
    BY <1>7
  <2>2. IsFiniteSet(I)
    BY <1>1, <2>1, FS_Subset
  <2>3. I # {}
    BY <1>2, <1>3, <1>6, <1>7
  <2>4. QED
    BY <2>1, <2>2, <2>3
<1>9. PICK first \in 1 .. N : first \in I /\ \A i \in I : first <= i
  <2>1. Min(I) \in I /\ \A x \in I : Min(I) <= x
    BY <1>8, LeastExists
  <2>2. QED
    BY <1>7, <2>1
<1>10. \A j \in DOMAIN points : \/ points[j].time < points[first].time
                                \/ points[j].time = points[first].time /\ first <= j
  <2>1. SUFFICES ASSUME NEW j \in 1 .. N
                 PROVE  \/ points[j].time < points[first].time
                        \/ points[j].time = points[first].time /\ first <= j
    OBVIOUS
  <2>2. times[j] \in T /\ times[j] = points[j].time
    BY <1>2, <1>3
  <2>3. points[j].time <= top /\ points[j].time \in Int
    BY <1>6, <2>2
  <2>4. points[first].time = top
    BY <1>7, <1>9
  <2>5. CASE points[j].time = top
    BY <1>7, <1>9, <2>4, <2>5
  <2>6. QED
    BY <2>3, <2>4, <2>5
<1>11. first \in DOMAIN points
  OBVIOUS
<1>12. PICK latest : latest = Latest(points)
  OBVIOUS
<1>13. /\ latest \in DOMAIN points
       /\ \A j \in DOMAIN points : \/ points[j].time < points[latest].time
                                   \/ points[j].time = points[latest].time /\ latest <= j
  BY <1>10, <1>11, <1>12, Zenon DEF Latest
<1>14. QED
  BY <1>12, <1>13, Zenon

SignalOptions(options) ==
  /\ options.cost \in Nat /\ options.minEdge \in Nat /\ options.minConfidence \in Int
  /\ options.maxSpread \in Int /\ options.now \in Int /\ options.cdf \in 0 .. One
  /\ options.lookback \in Nat \cup {Null}

\* A market bound as bindMarketToUnderlying does it, with or without prices.
IsBoundMarket(market) ==
  /\ market.candidate.expiry \in Int
  /\ market.odds.yes \in Int /\ market.odds.no \in Int /\ market.odds.spread \in Int
  /\ market.bindingStatus = "bound" => Cardinality(market.candidate.named) = 1

LEMMA EstimateIs ==
  ASSUME NEW price, NEW threshold, NEW S, NEW candles \in Seq(S), NEW horizon, NEW now,
         NEW cdf \in 0 .. One
  PROVE  LET estimate == EstimateAbove(price, threshold, candles, horizon, now, cdf) IN
         /\ estimate.rejected \in BOOLEAN /\ estimate.warned \in BOOLEAN /\ estimate.returns \in Nat
         /\ ~estimate.rejected => estimate.above \in 0 .. One
<1>1. PICK sorted : sorted = ByTime(UpTo(candles, now))
  OBVIOUS
<1>2. PICK returns : returns = LogReturns(candles, sorted)
  OBVIOUS
<1>3. IsFiniteSet(returns)
  <2>1. Len(candles) \in Nat /\ DOMAIN candles = 1 .. Len(candles)
    BY LenProperties
  <2>2. IsFiniteSet(DOMAIN candles) /\ returns \in SUBSET (DOMAIN candles)
    BY <1>2, <2>1, FS_Interval DEF LogReturns
  <2>3. QED
    BY <2>2, FS_Subset
<1>4. PICK count \in Nat : count = Cardinality(returns)
  BY <1>3, FS_CardinalityType
<1>5. PICK estimate : estimate = EstimateAbove(price, threshold, candles, horizon, now, cdf)
  OBVIOUS
<1>6. \/ estimate = NoEstimate(count)
      \/ estimate = [above |-> IF price >= threshold THEN One ELSE 0, returns |-> count,
                     warned |-> TRUE, rejected |-> FALSE]
      \/ estimate = [above |-> cdf, returns |-> count, warned |-> FALSE, rejected |-> FALSE]
  BY <1>1, <1>2, <1>4, <1>5 DEF EstimateAbove
<1>7. (IF price >= threshold THEN One ELSE 0) \in 0 .. One
  BY DEF One
<1>8. CASE estimate = NoEstimate(count)
  BY <1>5, <1>8 DEF NoEstimate
<1>9. CASE estimate = [above |-> IF price >= threshold THEN One ELSE 0, returns |-> count,
                       warned |-> TRUE, rejected |-> FALSE]
  BY <1>5, <1>7, <1>9
<1>10. CASE estimate = [above |-> cdf, returns |-> count, warned |-> FALSE, rejected |-> FALSE]
  BY <1>5, <1>10
<1>11. QED
  BY <1>6, <1>8, <1>9, <1>10

LEMMA ConfidenceIs ==
  ASSUME NEW estimate, estimate.rejected \in BOOLEAN, estimate.warned \in BOOLEAN,
         estimate.returns \in Nat
  PROVE  Confidence(estimate) \in Int
<1>1. PICK share \in Int : share = (estimate.returns * One) \div 120
  BY DEF One
<1>2. PICK floor \in Int : floor = Max({1200, share})
  BY MaxOfTwo
<1>3. PICK clamped \in Int : clamped = SampleConfidence(estimate.returns)
  BY <1>1, <1>2, MinOfTwo DEF SampleConfidence
<1>4. (clamped * 3) \div 4 \in Int
  OBVIOUS
<1>5. QED
  BY <1>3, <1>4 DEF Confidence

LEMMA NoReasonsMean ==
  ASSUME NEW market, NEW options, RejectReasons(market, options) = {}
  PROVE  /\ market.bindingStatus = "bound"
         /\ market.odds.yes # Null /\ market.odds.no # Null
         /\ market.odds.spread # Null /\ ~(market.odds.spread > options.maxSpread)
         /\ ~(market.candidate.expiry <= options.now)
<1>1. ASSUME market.bindingStatus # "bound" PROVE "unbound" \in RejectReasons(market, options)
  BY <1>1 DEF RejectReasons
<1>2. ASSUME Null \in {market.odds.yes, market.odds.no} PROVE "prices" \in RejectReasons(market, options)
  BY <1>2 DEF RejectReasons
<1>3. ASSUME market.odds.spread = Null \/ market.odds.spread > options.maxSpread
      PROVE  "spread" \in RejectReasons(market, options)
  BY <1>3 DEF RejectReasons
<1>4. ASSUME market.candidate.expiry <= options.now PROVE "expiry" \in RejectReasons(market, options)
  BY <1>4 DEF RejectReasons
<1>5. QED
  BY <1>1, <1>2, <1>3, <1>4

\* What one marker promises.
IsPriced(e, options) ==
  LET odds == e.market.odds
      price == IF e.side = "LONG_YES" THEN odds.yes ELSE odds.no
      other == IF e.side = "LONG_YES" THEN odds.no ELSE odds.yes
      chance == IF e.side = "LONG_YES" THEN e.modelYes ELSE One - e.modelYes
  IN e.side \in {"LONG_YES", "LONG_NO"} =>
       /\ e.market.candidate.expiry > options.now
       /\ Cardinality(e.market.candidate.named) = 1
       /\ Null \notin {odds.yes, odds.no, odds.spread} /\ odds.spread <= options.maxSpread
       /\ e.confidence >= options.minConfidence
       /\ chance >= price + options.cost + options.minEdge
       /\ odds.yes + odds.no >= One /\ options.minEdge > 0 => One - chance < other + options.cost
IsAccounted(e) ==
  /\ e.rejected \in BOOLEAN
  /\ e.rejected => e.side = "REJECTED" /\ e.edge = Null
  /\ ~e.rejected => e.side # "REJECTED"

LEMMA MarkerIsPriced ==
  ASSUME NEW market, IsBoundMarket(market), NEW options, SignalOptions(options),
         NEW S, NEW candles \in Seq(S), NEW price, NEW horizon
  PROVE  LET e == EvaluateFairValueMarket(market, price, candles, horizon, options) IN
         IsPriced(e, options) /\ IsAccounted(e)
<1>1. PICK used : used = LookbackCandles(candles, options.lookback)
  OBVIOUS
<1>2. used \in Seq(S)
  <2>1. CASE options.lookback = Null
    BY <1>1, <2>1 DEF LookbackCandles
  <2>2. CASE options.lookback # Null
    <3>1. PICK n \in Nat, m \in Nat : n = options.lookback /\ m = Len(candles)
      BY <2>2, LenProperties DEF SignalOptions
    <3>2. PICK from \in Int : from = Max({1, m - n + 1}) /\ from >= 1
      <4>1. m - n + 1 \in Int
        OBVIOUS
      <4>2. QED
        BY <4>1, MaxOfTwo
    <3>3. \A i \in from .. m : candles[i] \in S
      <4>1. \A i \in 1 .. m : candles[i] \in S
        BY <3>1, LenProperties
      <4>2. QED
        BY <3>2, <4>1
    <3>4. SubSeq(candles, from, m) \in Seq(S)
      BY <3>3, SubSeqProperties
    <3>5. QED
      BY <1>1, <2>2, <3>1, <3>2, <3>4 DEF LookbackCandles
  <2>3. QED
    BY <2>1, <2>2
<1>3. PICK estimate : estimate = EstimateAbove(price, ExtractThresholdPrice(market.candidate), used,
                                               horizon, options.now, options.cdf)
  OBVIOUS
<1>4. /\ estimate.rejected \in BOOLEAN /\ estimate.warned \in BOOLEAN /\ estimate.returns \in Nat
      /\ ~estimate.rejected => estimate.above \in 0 .. One
  BY <1>2, <1>3, EstimateIs DEF SignalOptions
<1>5. PICK confidence \in Int : confidence = Confidence(estimate)
  BY <1>4, ConfidenceIs
<1>6. PICK reasons : reasons = RejectReasons(market, options)
  OBVIOUS
<1>7. PICK ev : ev = Evaluated(market, estimate, options)
  OBVIOUS
<1>8. PICK e : e = Marker(market, reasons, ev, options)
  OBVIOUS
<1>9. EvaluateFairValueMarket(market, price, candles, horizon, options) = e
  BY <1>1, <1>3, <1>6, <1>7, <1>8 DEF EvaluateFairValueMarket
<1>10. ev.rejected = estimate.rejected /\ ev.confidence = confidence
  BY <1>5, <1>7 DEF Evaluated
<1>11. /\ e.market = market /\ e.rejected = (reasons # {} \/ ev.rejected)
       /\ e.side = IF reasons # {} THEN "REJECTED" ELSE SideFromEdges(ev, options)
       /\ e.modelYes = IF reasons # {} THEN Null ELSE ev.modelYes
       /\ e.confidence = IF reasons # {} THEN 0 ELSE ev.confidence
  BY <1>8 DEF Marker
<1>12. e.side \notin {"LONG_YES", "LONG_NO"} => e.edge = Null
  BY <1>8 DEF Marker
<1>13. IsAccounted(e)
  <2>1. e.rejected => e.side = "REJECTED"
    BY <1>11 DEF SideFromEdges
  <2>2. ~e.rejected => e.side # "REJECTED"
    BY <1>11 DEF SideFromEdges
  <2>3. QED
    BY <1>4, <1>10, <1>11, <1>12, <2>1, <2>2 DEF IsAccounted
<1>14. ASSUME e.side \in {"LONG_YES", "LONG_NO"}
       PROVE  /\ reasons = {} /\ ~estimate.rejected /\ confidence >= options.minConfidence
              /\ e.side = "LONG_YES" => ev.edgeYes >= options.minEdge
              /\ e.side = "LONG_NO" => ev.edgeNo >= options.minEdge
  <2>1. reasons = {} /\ e.side = SideFromEdges(ev, options)
    BY <1>11, <1>14
  <2>2. ~ev.rejected /\ ~(ev.confidence < options.minConfidence)
    BY <1>14, <2>1 DEF SideFromEdges
  <2>3. /\ e.side = "LONG_YES" => ev.edgeYes >= options.minEdge
        /\ e.side = "LONG_NO" => ev.edgeNo >= options.minEdge
    BY <2>1, <2>2 DEF SideFromEdges
  <2>4. PICK least \in Int : least = options.minConfidence
    BY DEF SignalOptions
  <2>5. QED
    BY <1>10, <2>1, <2>2, <2>3, <2>4
<1>15. ASSUME e.side \in {"LONG_YES", "LONG_NO"} PROVE IsPriced(e, options)
  <2>1. PICK model \in 0 .. One : model = ev.modelYes
    <3>1. estimate.above \in 0 .. One /\ One - estimate.above \in 0 .. One
      <4>1. PICK above \in 0 .. One : above = estimate.above
        BY SMTT(40), <1>4, <1>14, <1>15
      <4>2. One - above \in 0 .. One
        BY DEF One
      <4>3. QED
        BY <4>1, <4>2
    <3>2. ev.modelYes = IF ExtractComparator(market.candidate) = "BELOW" THEN One - estimate.above
                        ELSE estimate.above
      BY <1>7, <1>14, <1>15 DEF Evaluated
    <3>3. QED
      BY <3>1, <3>2
  <2>2. PICK yes \in Int, no \in Int, cost \in Nat, least \in Nat :
          yes = market.odds.yes /\ no = market.odds.no /\ cost = options.cost /\ least = options.minEdge
    BY DEF IsBoundMarket, SignalOptions
  <2>3. model # Null
    BY DEF Null
  <2>4. ev.edgeYes = model - yes - cost /\ ev.edgeNo = One - model - no - cost
    BY <1>7, <2>1, <2>2, <2>3 DEF Evaluated
  <2>5. /\ e.side = "LONG_YES" => model >= yes + cost + least
        /\ e.side = "LONG_NO" => One - model >= no + cost + least
    <3>1. CASE e.side = "LONG_YES"
      <4>1. model - yes - cost >= least
        BY <1>14, <1>15, <2>2, <2>4, <3>1
      <4>2. QED
        BY <3>1, <4>1
    <3>2. CASE e.side = "LONG_NO"
      <4>1. One - model - no - cost >= least
        BY <1>14, <1>15, <2>2, <2>4, <3>2
      <4>2. QED
        BY <3>2, <4>1 DEF One
    <3>3. QED
      BY <1>15, <3>1, <3>2
  <2>6. /\ market.bindingStatus = "bound" /\ yes # Null /\ no # Null
        /\ market.odds.spread # Null /\ ~(market.odds.spread > options.maxSpread)
        /\ ~(market.candidate.expiry <= options.now)
    BY <1>6, <1>14, <1>15, <2>2, NoReasonsMean
  <2>7. /\ market.candidate.expiry > options.now /\ market.odds.spread <= options.maxSpread
        /\ Cardinality(market.candidate.named) = 1
    <3>1. PICK spread \in Int, most \in Int, expiry \in Int, now \in Int :
            /\ spread = market.odds.spread /\ most = options.maxSpread
            /\ expiry = market.candidate.expiry /\ now = options.now
      BY DEF IsBoundMarket, SignalOptions
    <3>2. ~(spread > most) /\ ~(expiry <= now)
      BY <2>6, <3>1
    <3>3. spread <= most /\ expiry > now
      BY <3>2
    <3>4. QED
      BY <2>6, <3>1, <3>3 DEF IsBoundMarket
  <2>8. e.modelYes = model /\ e.confidence >= options.minConfidence /\ e.market = market
    BY <1>10, <1>11, <1>14, <1>15, <2>1
  <2>9. CASE e.side = "LONG_YES"
    <3>1. yes + no >= One /\ least > 0 => One - model < no + cost
      BY <2>5, <2>9 DEF One
    <3>2. QED
      BY <2>2, <2>5, <2>6, <2>7, <2>8, <2>9, <3>1 DEF IsPriced
  <2>10. CASE e.side = "LONG_NO"
    <3>1. yes + no >= One /\ least > 0 => One - (One - model) < yes + cost
      BY <2>5, <2>10 DEF One
    <3>2. QED
      BY <2>2, <2>5, <2>6, <2>7, <2>8, <2>10, <3>1 DEF IsPriced
  <2>11. QED
    BY <1>15, <2>9, <2>10
<1>16. e.side \notin {"LONG_YES", "LONG_NO"} => IsPriced(e, options)
  BY DEF IsPriced
<1>17. QED
  BY <1>9, <1>13, <1>15, <1>16

\* A response gives a reason that the numbers bear out for every signal to buy,
\* and loses no market, whatever the markets, prices and candles
\* (buildFairValueSignalResponse).
THEOREM FairValueSound ==
  ASSUME NEW S, NEW markets \in Seq(S), \A i \in DOMAIN markets : IsBoundMarket(markets[i]),
         NEW C, NEW candlesOf, \A i \in DOMAIN markets : candlesOf[markets[i].symbol] \in Seq(C),
         NEW priceOf, NEW horizon, NEW options, SignalOptions(options)
  PROVE  LET response == FairValueResponse(markets, priceOf, candlesOf, horizon, options) IN
         SignalsArePriced(response, options) /\ EveryMarketIsAccounted(markets, response)
<1>1. PICK N \in Nat : DOMAIN markets = 1 .. N /\ Len(markets) = N
  BY LenProperties
<1>2. PICK markers : markers =
        [i \in 1 .. N |-> EvaluateFairValueMarket(markets[i],
           FirstNumber(priceOf[markets[i].symbol], markets[i].realtimePrice),
           candlesOf[markets[i].symbol], horizon, options)]
  OBVIOUS
<1>3. FairValueResponse(markets, priceOf, candlesOf, horizon, options) = Response(markers)
  BY <1>1, <1>2 DEF FairValueResponse
<1>4. \A i \in 1 .. N : IsPriced(markers[i], options) /\ IsAccounted(markers[i])
  <2>1. ASSUME NEW i \in 1 .. N PROVE IsPriced(markers[i], options) /\ IsAccounted(markers[i])
    <3>1. PICK market : market = markets[i]
      OBVIOUS
    <3>2. PICK candles \in Seq(C) : candles = candlesOf[market.symbol]
      BY <1>1, <3>1
    <3>3. PICK price : price = FirstNumber(priceOf[market.symbol], market.realtimePrice)
      OBVIOUS
    <3>4. markers[i] = EvaluateFairValueMarket(market, price, candles, horizon, options)
      BY <1>2, <3>1, <3>2, <3>3
    <3>5. IsBoundMarket(market)
      BY <1>1, <3>1
    <3>6. QED
      BY <3>4, <3>5, MarkerIsPriced
  <2>2. QED
    BY <2>1
<1>5. PICK P, Q : P = {i \in 1 .. N : ~markers[i].rejected} /\ Q = {i \in 1 .. N : markers[i].rejected}
  OBVIOUS
<1>6. DOMAIN markers = 1 .. N
  BY <1>2
<1>7. Response(markers) =
        [markers |-> markers, snapshots |-> Kept(markers, P), rejected |-> Kept(markers, Q)]
  BY <1>5, <1>6 DEF Response
<1>8. IsFiniteSet(1 .. N) /\ Cardinality(1 .. N) = N
  BY FS_Interval
<1>9. P \in SUBSET (1 .. N) /\ Q = (1 .. N) \ P
  BY <1>5
<1>10. IsFiniteSet(P) /\ IsFiniteSet(Q) /\ P \subseteq Int /\ Q \subseteq Int
  <2>1. IsFiniteSet(P)
    BY <1>8, <1>9, FS_Subset
  <2>2. IsFiniteSet(Q)
    BY <1>8, <1>9, FS_Difference
  <2>3. QED
    BY <1>9, <2>1, <2>2
<1>11. Cardinality(P) + Cardinality(Q) = N
  <2>1. Cardinality(Q) = Cardinality(1 .. N) - Cardinality((1 .. N) \cap P)
    BY <1>8, <1>9, FS_Difference
  <2>2. (1 .. N) \cap P = P
    BY <1>9
  <2>3. PICK p \in Nat : p = Cardinality(P)
    BY <1>10, FS_CardinalityType
  <2>4. Cardinality(Q) = N - p
    BY <1>8, <2>1, <2>2, <2>3
  <2>5. p + (N - p) = N
    OBVIOUS
  <2>6. QED
    BY <2>3, <2>4, <2>5
<1>12. ASSUME NEW positions \in SUBSET (1 .. N)
       PROVE  /\ DOMAIN Kept(markers, positions) = 1 .. Cardinality(positions)
              /\ Len(Kept(markers, positions)) = Cardinality(positions)
              /\ \A k \in DOMAIN Kept(markers, positions) :
                   \E i \in positions : Kept(markers, positions)[k] = markers[i]
  <2>1. PICK T : T = {markers[i] : i \in 1 .. N}
    OBVIOUS
  <2>2. markers \in Seq(T) /\ Len(markers) = N
    BY <1>2, <2>1
  <2>3. PICK list : list = Kept(markers, positions)
    OBVIOUS
  <2>4. /\ list \in Seq(T) /\ Len(list) = Cardinality(positions)
        /\ \A k \in 1 .. Len(list) : \E i \in positions : list[k] = markers[i]
    BY SMTT(40), <2>2, <2>3, KeptElements
  <2>5. DOMAIN list = 1 .. Len(list)
    BY <2>4
  <2>6. QED
    BY <2>3, <2>4, <2>5
<1>13. SignalsArePriced(Response(markers), options)
  BY <1>4, <1>6, <1>7 DEF SignalsArePriced, IsPriced
<1>14. PICK snapshots, rejected : snapshots = Kept(markers, P) /\ rejected = Kept(markers, Q)
  OBVIOUS
<1>15. \A k \in DOMAIN snapshots : snapshots[k].side # "REJECTED"
  <2>1. ASSUME NEW k \in DOMAIN snapshots PROVE snapshots[k].side # "REJECTED"
    <3>1. PICK i \in P : snapshots[k] = markers[i]
      BY <1>9, <1>12, <1>14
    <3>2. QED
      BY <1>4, <1>5, <3>1 DEF IsAccounted
  <2>2. QED
    BY <2>1
<1>16. \A k \in DOMAIN rejected : rejected[k].side = "REJECTED" /\ rejected[k].edge = Null
  <2>1. ASSUME NEW k \in DOMAIN rejected PROVE rejected[k].side = "REJECTED" /\ rejected[k].edge = Null
    <3>1. PICK i \in Q : rejected[k] = markers[i]
      BY <1>9, <1>12, <1>14
    <3>2. QED
      BY <1>4, <1>5, <3>1 DEF IsAccounted
  <2>2. QED
    BY <2>1
<1>17. Len(snapshots) + Len(rejected) = N
  <2>1. Len(snapshots) = Cardinality(P)
    BY <1>9, <1>12, <1>14
  <2>2. Len(rejected) = Cardinality(Q)
    BY <1>9, <1>12, <1>14
  <2>3. QED
    BY <1>11, <2>1, <2>2
<1>18. Len(markers) = N
  BY <1>2
<1>19. EveryMarketIsAccounted(markets, Response(markers))
  BY <1>1, <1>7, <1>14, <1>15, <1>16, <1>17, <1>18 DEF EveryMarketIsAccounted
<1>20. QED
  BY <1>3, <1>13, <1>19

-----------------------------------------------------------------------------
(* The replay.                                                               *)
\* Candles with an open, a close and a price.
PricedCandles == [time : Int, close : Int]

\* A bet came out as the market did: as the price of its underlying stood to the
\* threshold when it expired.
IsBorneOut(b, run) ==
  LET c == b.signal.market.candidate
      close == PriceAtOrBefore(run.candles, b.signal.expiry)
      rose == close > ExtractThresholdPrice(c)
      yes == (b.status = "WIN") = (b.signal.side = "LONG_YES")
  IN close # Null /\ yes = (rose = (ExtractComparator(c) = "ABOVE"))

\* The amounts that are read from a text.
IsText(candidate) ==
  candidate.dollars \in Seq(Int) /\ candidate.suffixed \in Seq(Int) /\ candidate.expiry \in Int

Statuses == {"WIN", "LOSS", "PENDING", "UNRESOLVED", "REJECTED", "NO_SIGNAL"}
IsBet(b, run) ==
  /\ b.entry \in 0 .. One /\ b.pnl = (IF b.status = "WIN" THEN One ELSE 0) - b.entry
  /\ b.signal.time < b.signal.expiry /\ b.signal.expiry <= run.checkedAt
  /\ IsBorneOut(b, run)
IsResult(b, run) ==
  /\ b.status \in Statuses /\ b.counted = (b.status \in {"WIN", "LOSS"})
  /\ b.counted => IsBet(b, run)
  /\ ~b.counted => b.pnl = Null

OutcomePrices == 0 .. One
IsOfferedMarket(market) ==
  /\ IsBoundMarket(market) /\ IsText(market.candidate)
  /\ market.odds.yes \in OutcomePrices \cup {Null} /\ market.odds.no \in OutcomePrices \cup {Null}

LEMMA ThresholdIs ==
  ASSUME NEW candidate, IsText(candidate)
  PROVE  ExtractThresholdPrice(candidate) \in Int
<1>1. \A amounts \in Seq(Int) :
        LET large == Kept(amounts, {i \in DOMAIN amounts : amounts[i] >= 100}) IN
        large # <<>> => Head(large) \in Int
  <2>1. SUFFICES ASSUME NEW amounts \in Seq(Int), NEW P, P = {i \in DOMAIN amounts : amounts[i] >= 100},
                        NEW large, large = Kept(amounts, P), large # <<>>
                 PROVE  Head(large) \in Int
    BY Zenon
  <2>2. P \in SUBSET (1 .. Len(amounts))
    BY <2>1, LenProperties
  <2>3. large \in Seq(Int)
    BY <2>1, <2>2, KeptElements
  <2>4. QED
    BY <2>1, <2>3
<1>2. QED
  BY <1>1, NullIsNegative, Zenon DEF ExtractThresholdPrice, IsText

LEMMA PastPriceIs ==
  ASSUME NEW candles \in Seq(PricedCandles), NEW at \in Int
  PROVE  PriceAtOrBefore(candles, at) \in Int
<1>1. PICK P : P = {i \in DOMAIN candles : candles[i].time <= at}
  OBVIOUS
<1>2. P \in SUBSET (1 .. Len(candles))
  BY <1>1, LenProperties
<1>3. PICK past : past = Kept(candles, P)
  OBVIOUS
<1>4. past \in Seq(PricedCandles)
  BY <1>2, <1>3, KeptElements
<1>5. PriceAtOrBefore(candles, at) = IF past = <<>> THEN Null ELSE past[Latest(past)].close
  BY <1>1, <1>3 DEF PriceAtOrBefore, UpTo
<1>6. CASE past = <<>>
  BY <1>5, <1>6, NullIsNegative
<1>7. CASE past # <<>>
  <2>1. PICK N \in Nat \ {0} : DOMAIN past = 1 .. N
    BY <1>4, <1>7, LenProperties
  <2>2. \A i \in 1 .. N : past[i] \in PricedCandles
    BY <1>4, <2>1
  <2>3. \A i \in 1 .. N : past[i].time \in Int /\ past[i].close \in Int
    BY <2>2 DEF PricedCandles
  <2>4. Latest(past) \in 1 .. N
    BY <2>1, <2>3, LatestExists
  <2>5. QED
    BY <1>5, <1>7, <2>3, <2>4
<1>8. QED
  BY <1>6, <1>7

LEMMA ComparatorIs ==
  ASSUME NEW candidate
  PROVE  ExtractComparator(candidate) \in {"HIT", "ABOVE", "BELOW", "none"}
BY DEF ExtractComparator

LEMMA NoReasonsDecide ==
  ASSUME NEW market, NEW options, RejectReasons(market, options) = {}
  PROVE  /\ ExtractComparator(market.candidate) \in {"ABOVE", "BELOW"}
         /\ ExtractThresholdPrice(market.candidate) # Null
         /\ market.candidate.expiry # Null /\ ~(market.candidate.expiry <= options.now)
         /\ market.odds.yes # Null /\ market.odds.no # Null /\ market.odds.spread # Null
<1>1. ASSUME ExtractComparator(market.candidate) = "none" PROVE "comparator" \in RejectReasons(market, options)
  BY <1>1 DEF RejectReasons
<1>2. ASSUME ExtractComparator(market.candidate) = "HIT" PROVE "pathDependent" \in RejectReasons(market, options)
  BY <1>2 DEF RejectReasons
<1>3. ASSUME ExtractThresholdPrice(market.candidate) = Null PROVE "threshold" \in RejectReasons(market, options)
  BY <1>3 DEF RejectReasons
<1>4. ASSUME market.candidate.expiry = Null PROVE "expiry" \in RejectReasons(market, options)
  BY <1>4 DEF RejectReasons
<1>5. ASSUME market.candidate.expiry <= options.now PROVE "expiry" \in RejectReasons(market, options)
  BY <1>5 DEF RejectReasons
<1>6. ASSUME market.odds.yes = Null \/ market.odds.no = Null PROVE "prices" \in RejectReasons(market, options)
  BY <1>6 DEF RejectReasons
<1>7. ASSUME market.odds.spread = Null PROVE "spread" \in RejectReasons(market, options)
  BY <1>7 DEF RejectReasons
<1>8. QED
  BY <1>1, <1>2, <1>3, <1>4, <1>5, <1>6, <1>7, ComparatorIs

LEMMA MarkerOf ==
  ASSUME NEW market, NEW price, NEW candles, NEW horizon, NEW options,
         NEW e, e = EvaluateFairValueMarket(market, price, candles, horizon, options)
  PROVE  /\ e.market = market /\ e.marketYes = market.odds.yes
         /\ RejectReasons(market, options) # {} => e.side = "REJECTED"
         /\ e.side \in {"REJECTED", "NO_SIGNAL", "LONG_YES", "LONG_NO"}
<1>1. PICK reasons : reasons = RejectReasons(market, options)
  OBVIOUS
<1>2. PICK estimate : estimate = EstimateAbove(price, ExtractThresholdPrice(market.candidate),
                                LookbackCandles(candles, options.lookback),
                                horizon, options.now, options.cdf)
  OBVIOUS
<1>3. PICK ev : ev = Evaluated(market, estimate, options)
  OBVIOUS
<1>4. e = Marker(market, reasons, ev, options)
  BY <1>1, <1>2, <1>3 DEF EvaluateFairValueMarket
<1>5. /\ e.market = market /\ e.marketYes = FirstNumber(market.odds.yes, Null)
      /\ e.side = IF reasons # {} THEN "REJECTED" ELSE SideFromEdges(ev, options)
  BY <1>4 DEF Marker
<1>6. FirstNumber(market.odds.yes, Null) = market.odds.yes
  BY DEF FirstNumber
<1>7. SideFromEdges(ev, options) \in {"REJECTED", "NO_SIGNAL", "LONG_YES", "LONG_NO"}
  BY DEF SideFromEdges
<1>8. QED
  BY <1>1, <1>5, <1>6, <1>7

\* A replay's options at a time of the past.
OptionsAt(options, at) == [options EXCEPT !.now = at]

IsSignalOf(s, market, at, options) ==
  /\ s.market = market /\ s.marketYes = market.odds.yes /\ s.time = at
  /\ s.expiry = FirstNumber(market.candidate.expiry, at)
  /\ RejectReasons(market, options) # {} => s.side = "REJECTED"
  /\ s.side \in {"REJECTED", "NO_SIGNAL", "LONG_YES", "LONG_NO"}

LEMMA ReplaySignalIs ==
  ASSUME NEW market, NEW at \in Int, NEW candles, NEW options,
         NEW then, then = OptionsAt(options, at), NEW s, s = ReplaySignal(market, at, candles, options)
  PROVE  IsSignalOf(s, market, at, then)
<1>1. PICK past, price, expiry :
        /\ past = ByTime(UpTo(candles, at)) /\ price = FirstNumber(PriceAtOrBefore(past, at), market.realtimePrice)
        /\ expiry = FirstNumber(market.candidate.expiry, at)
  OBVIOUS
<1>2. PICK e : e = EvaluateFairValueMarket(market, price, past, Max({1, expiry - at}), then)
  OBVIOUS
<1>3. s = SignalFrom(e, at, expiry, price)
  BY <1>1, <1>2 DEF ReplaySignal, OptionsAt
<1>4. s.market = e.market /\ s.marketYes = e.marketYes /\ s.time = at /\ s.expiry = expiry /\ s.side = e.side
  BY <1>3 DEF SignalFrom
<1>5. QED
  BY <1>1, <1>2, <1>4, MarkerOf DEF IsSignalOf

LEMMA LabelIs ==
  ASSUME NEW signal, NEW candidate, NEW resolved, NEW candles, NEW now,
         signal.side \in {"REJECTED", "NO_SIGNAL", "LONG_YES", "LONG_NO"},
         NEW label, label = LabelReplayOutcome(signal, candidate, resolved, candles, now),
         NEW close \in Int, close = PriceAtOrBefore(candles, signal.expiry),
         ExtractThresholdPrice(candidate) \in Int
  PROVE  /\ ~Actionable(signal.side) => label = signal.side
         /\ Actionable(signal.side) => label \in {"PENDING", "UNRESOLVED", "WIN", "LOSS"}
         /\ label \in {"WIN", "LOSS"} => ~(now < signal.expiry)
         /\ label \in {"WIN", "LOSS"} /\ resolved = "none" =>
              /\ close # Null
              /\ ((label = "WIN") = (signal.side = "LONG_YES"))
                   = ((close > ExtractThresholdPrice(candidate)) = (ExtractComparator(candidate) = "ABOVE"))
<1>1. PICK comparator, threshold : comparator = ExtractComparator(candidate) /\ threshold = ExtractThresholdPrice(candidate)
  OBVIOUS
<1>2. CASE ~Actionable(signal.side)
  <2>1. label = signal.side
    BY <1>2 DEF LabelReplayOutcome
  <2>2. signal.side \in {"REJECTED", "NO_SIGNAL"}
    BY <1>2 DEF Actionable
  <2>3. QED
    BY <1>2, <2>1, <2>2
<1>3. CASE Actionable(signal.side) /\ now < signal.expiry
  <2>1. label = "PENDING"
    BY <1>3 DEF LabelReplayOutcome
  <2>2. QED
    BY <1>3, <2>1
<1>4. CASE Actionable(signal.side) /\ ~(now < signal.expiry)
  <2>1. PICK above, below : /\ above = (IF comparator = "ABOVE" THEN "YES" ELSE "NO")
                            /\ below = (IF comparator = "ABOVE" THEN "NO" ELSE "YES")
    OBVIOUS
  <2>2. label = IF resolved # "none" THEN Judged(signal, resolved)
                ELSE IF \/ comparator \notin {"ABOVE", "BELOW"}
                        \/ Null \in {threshold, close} \/ close = threshold
                THEN "UNRESOLVED"
                ELSE Judged(signal, IF close > threshold THEN above ELSE below)
    BY <1>1, <1>4, <2>1 DEF LabelReplayOutcome
  <2>3. \A outcome : Judged(signal, outcome) \in {"WIN", "LOSS"}
    BY DEF Judged
  <2>4. signal.side \in {"LONG_YES", "LONG_NO"}
    BY <1>4 DEF Actionable
  <2>5. /\ (Judged(signal, "YES") = "WIN") = (signal.side = "LONG_YES")
        /\ (Judged(signal, "NO") = "WIN") = (signal.side # "LONG_YES")
    BY <2>4 DEF Judged
  <2>6. CASE resolved # "none"
    BY <1>4, <2>2, <2>3, <2>6
  <2>7. CASE resolved = "none" /\ (comparator \notin {"ABOVE", "BELOW"} \/ Null \in {threshold, close} \/ close = threshold)
    BY <1>4, <2>2, <2>7
  <2>8. CASE resolved = "none" /\ ~(comparator \notin {"ABOVE", "BELOW"} \/ Null \in {threshold, close} \/ close = threshold)
    <3>1. label = Judged(signal, IF close > threshold THEN above ELSE below)
      BY <2>2, <2>8
    <3>2. label \in {"WIN", "LOSS"} /\ close # Null
      BY <2>3, <2>8, <3>1
    <3>3. PICK rose \in BOOLEAN : rose = (close > threshold)
      <4>1. threshold \in Int
        BY <1>1
      <4>2. (close > threshold) \in BOOLEAN
        BY <4>1
      <4>3. QED
        BY <4>2, Zenon
    <3>4. (label = "WIN") = ((signal.side = "LONG_YES") = (rose = (comparator = "ABOVE")))
      BY <2>1, <2>5, <3>1, <3>3
    <3>5. ((label = "WIN") = (signal.side = "LONG_YES")) = (rose = (comparator = "ABOVE"))
      BY <3>4
    <3>6. ((label = "WIN") = (signal.side = "LONG_YES"))
            = ((close > ExtractThresholdPrice(candidate)) = (ExtractComparator(candidate) = "ABOVE"))
      BY <1>1, <3>3, <3>5, Zenon
    <3>7. QED
      BY <1>4, <3>2, <3>6, Zenon
  <2>9. QED
    BY <2>6, <2>7, <2>8
<1>5. QED
  BY <1>2, <1>3, <1>4

LEMMA ResultIs ==
  ASSUME NEW signal, NEW resolved, NEW run, NEW b, b = Result(signal, resolved, run)
  PROVE  /\ b.signal = signal
         /\ b.status = LabelReplayOutcome(signal, signal.market.candidate, resolved, run.candles, run.checkedAt)
         /\ b.counted = (b.status \in {"WIN", "LOSS"})
         /\ b.entry = IF signal.side = "LONG_YES" THEN signal.marketYes
                      ELSE IF signal.side = "LONG_NO" THEN FirstNumber(signal.market.odds.no, One - signal.marketYes)
                      ELSE Null
         /\ b.pnl = IF b.counted /\ b.entry # Null THEN (IF b.status = "WIN" THEN One ELSE 0) - b.entry ELSE Null
<1>1. PICK label : label = LabelReplayOutcome(signal, signal.market.candidate, resolved, run.candles, run.checkedAt)
  OBVIOUS
<1>2. PICK entry : entry = IF signal.side = "LONG_YES" THEN signal.marketYes
                      ELSE IF signal.side = "LONG_NO" THEN FirstNumber(signal.market.odds.no, One - signal.marketYes)
                      ELSE Null
  OBVIOUS
<1>3. PICK counted : counted = (label \in {"WIN", "LOSS"})
  OBVIOUS
<1>4. PICK pnl : pnl = IF counted /\ entry # Null THEN (IF label = "WIN" THEN One ELSE 0) - entry ELSE Null
  OBVIOUS
<1>5. b = [signal |-> signal, status |-> label, counted |-> counted, entry |-> entry, pnl |-> pnl]
  BY <1>1, <1>2, <1>3, <1>4, Zenon DEF Result, TradeLikeResult
<1>6. b.signal = signal /\ b.status = label /\ b.counted = counted /\ b.entry = entry /\ b.pnl = pnl
  BY <1>5
<1>7. QED
  BY <1>1, <1>2, <1>3, <1>4, <1>6

\* An open market's result, at the window's end.
LEMMA ActiveResultIs ==
  ASSUME NEW market, IsOfferedMarket(market), NEW run, NEW end \in Int, run.window.end = end,
         run.checkedAt \in Int, run.candles \in Seq(PricedCandles), "now" \in DOMAIN run.options,
         NEW b, b = ActiveResult(market, run)
  PROVE  /\ IsResult(b, run) /\ b.signal.time = end /\ (end = run.checkedAt => ~b.counted)
<1>1. PICK options : options = OptionsAt(run.options, end)
  OBVIOUS
<1>2. options.now = end
  BY <1>1 DEF OptionsAt
<1>3. PICK s : s = ReplaySignal(market, end, run.candles, run.options)
  OBVIOUS
<1>4. /\ s.market = market /\ s.marketYes = market.odds.yes /\ s.time = end
      /\ s.expiry = FirstNumber(market.candidate.expiry, end)
      /\ RejectReasons(market, options) # {} => s.side = "REJECTED"
      /\ s.side \in {"REJECTED", "NO_SIGNAL", "LONG_YES", "LONG_NO"}
  <2>1. PICK candles, base : candles = run.candles /\ base = run.options
    OBVIOUS
  <2>2. options = OptionsAt(base, end) /\ s = ReplaySignal(market, end, candles, base)
    BY <1>1, <1>3, <2>1
  <2>3. IsSignalOf(s, market, end, options)
    BY <2>2, ReplaySignalIs
  <2>4. QED
    BY <2>3, Zenon DEF IsSignalOf
<1>5. s.expiry \in Int
  BY <1>4 DEF FirstNumber, IsOfferedMarket, IsText
<1>6. PICK close \in Int : close = PriceAtOrBefore(run.candles, s.expiry)
  BY <1>5, PastPriceIs
<1>7. ExtractThresholdPrice(market.candidate) \in Int
  BY ThresholdIs DEF IsOfferedMarket
<1>8. b = Result(s, "none", run)
  BY <1>3 DEF ActiveResult
<1>9. PICK label : label = LabelReplayOutcome(s, market.candidate, "none", run.candles, run.checkedAt)
  OBVIOUS
<1>10. /\ b.signal = s /\ b.status = label /\ b.counted = (b.status \in {"WIN", "LOSS"})
       /\ b.entry = IF s.side = "LONG_YES" THEN s.marketYes
                    ELSE IF s.side = "LONG_NO" THEN FirstNumber(s.market.odds.no, One - s.marketYes)
                    ELSE Null
       /\ b.pnl = IF b.counted /\ b.entry # Null THEN (IF b.status = "WIN" THEN One ELSE 0) - b.entry ELSE Null
  BY <1>4, <1>8, <1>9, ResultIs
<1>11. /\ ~Actionable(s.side) => label = s.side
       /\ Actionable(s.side) => label \in {"PENDING", "UNRESOLVED", "WIN", "LOSS"}
       /\ label \in {"WIN", "LOSS"} => ~(run.checkedAt < s.expiry)
       /\ label \in {"WIN", "LOSS"} =>
            /\ close # Null
            /\ ((label = "WIN") = (s.side = "LONG_YES"))
                 = ((close > ExtractThresholdPrice(market.candidate)) = (ExtractComparator(market.candidate) = "ABOVE"))
  BY <1>4, <1>6, <1>7, <1>9, LabelIs
<1>12. label \in Statuses
  BY <1>4, <1>11 DEF Statuses, Actionable
<1>13. ASSUME label \in {"WIN", "LOSS"}
       PROVE  IsBet(b, run) /\ end < s.expiry /\ s.expiry <= run.checkedAt
  <2>1. s.side \in {"LONG_YES", "LONG_NO"}
    BY <1>4, <1>11, <1>13 DEF Actionable
  <2>2. RejectReasons(market, options) = {}
    BY <1>4, <2>1
  <2>3. /\ market.candidate.expiry # Null /\ ~(market.candidate.expiry <= end)
        /\ market.odds.yes # Null /\ market.odds.no # Null
    BY <1>2, <2>2, NoReasonsDecide
  <2>4. market.candidate.expiry \in Int
    BY DEF IsOfferedMarket, IsText
  <2>5. s.expiry = market.candidate.expiry /\ end < s.expiry
    BY <1>4, <2>3, <2>4 DEF FirstNumber
  <2>6. s.expiry <= run.checkedAt
    BY <1>5, <1>11, <1>13
  <2>7. PICK entry \in OutcomePrices : entry = b.entry
    <3>1. market.odds.yes \in OutcomePrices /\ market.odds.no \in OutcomePrices
      BY <2>3 DEF IsOfferedMarket
    <3>2. FirstNumber(market.odds.no, One - s.marketYes) = market.odds.no
      BY <2>3 DEF FirstNumber
    <3>3. b.entry \in {market.odds.yes, market.odds.no}
      BY <1>4, <1>10, <2>1, <3>2
    <3>4. QED
      BY <3>1, <3>3
  <2>8. b.entry # Null
    <3>1. entry >= 0
      BY <2>7 DEF OutcomePrices
    <3>2. QED
      BY <2>7, <3>1, NullIsNegative DEF OutcomePrices
  <2>9. b.entry \in 0 .. One /\ b.pnl = (IF b.status = "WIN" THEN One ELSE 0) - b.entry
    BY <1>10, <1>13, <2>7, <2>8, Zenon DEF OutcomePrices
  <2>10. IsBorneOut(b, run)
    BY <1>4, <1>6, <1>10, <1>11, <1>13, Zenon DEF IsBorneOut
  <2>11. b.signal.time < b.signal.expiry /\ b.signal.expiry <= run.checkedAt
    BY <1>4, <1>10, <2>5, <2>6
  <2>12. QED
    BY <2>5, <2>6, <2>9, <2>10, <2>11 DEF IsBet
<1>14. label \notin {"WIN", "LOSS"} => b.pnl = Null
  BY <1>10, Zenon
<1>15. IsResult(b, run)
  BY <1>10, <1>12, <1>13, <1>14, Zenon DEF IsResult
<1>16. end = run.checkedAt => ~b.counted
  <2>1. ASSUME end = run.checkedAt, label \in {"WIN", "LOSS"} PROVE FALSE
    <3>1. end < s.expiry /\ s.expiry <= end
      BY <1>13, <2>1
    <3>2. QED
      BY <1>5, <3>1
  <2>2. b.counted = (label \in {"WIN", "LOSS"})
    BY <1>10
  <2>3. QED
    BY <2>1, <2>2, Zenon
<1>17. QED
  BY <1>4, <1>10, <1>15, <1>16

LEMMA ClosedTimeIs ==
  ASSUME NEW candidate, candidate.expiry \in Int, NEW run, run.window.end \in Int, run.window.start \in Int,
         run.minutes \in Int
  PROVE  ClosedSignalTime(candidate, run) \in Int
<1>1. \A a, c \in Int : Min({a, c}) \in Int /\ Max({a, c}) \in Int
  <2>1. SUFFICES ASSUME NEW a \in Int, NEW c \in Int PROVE Min({a, c}) \in Int /\ Max({a, c}) \in Int
    OBVIOUS
  <2>2. IsFiniteSet({a, c}) /\ {a, c} \subseteq Int /\ {a, c} # {}
    <3>1. IsFiniteSet({a}) /\ {a} \cup {c} = {a, c}
      BY FS_Singleton
    <3>2. QED
      BY <3>1, FS_AddElement
  <2>3. QED
    BY <2>2, GreatestExists, LeastExists
<1>2. PICK before \in Int : before = FirstNumber(candidate.expiry, run.window.end) - Max({5, run.minutes})
  <2>1. FirstNumber(candidate.expiry, run.window.end) \in Int
    BY DEF FirstNumber
  <2>2. Max({5, run.minutes}) \in Int
    <3>1. PICK five \in Int, minutes \in Int : five = 5 /\ minutes = run.minutes
      OBVIOUS
    <3>2. Max({five, minutes}) \in Int
      BY <1>1
    <3>3. QED
      BY <3>1, <3>2, Zenon
  <2>3. QED
    BY <2>1, <2>2
<1>3. PICK later \in Int : later = Max({run.window.start, before})
  BY <1>1
<1>4. Min({later, run.window.end}) \in Int
  BY <1>1
<1>5. QED
  BY <1>2, <1>3, <1>4, Zenon DEF ClosedSignalTime

\* A closed market's result is rejected: its history has no spread.
LEMMA ClosedIsRejected ==
  ASSUME NEW closed, NEW run, NEW at \in Int, at = ClosedSignalTime(closed.candidate, run),
         NEW b, b = ClosedResult(closed, run)
  PROVE  IsResult(b, run) /\ b.signal.time = at /\ ~b.counted
<1>1. PICK history : history = IF closed.failed THEN <<>> ELSE closed.history
  OBVIOUS
<1>2. PICK odds : odds = HistoricalOdds(HistoryPrice(history, at), history = <<>>)
  OBVIOUS
<1>3. odds.spread = Null
  BY <1>2 DEF HistoricalOdds
<1>4. PICK price : price = PriceAtOrBefore(run.candles, at)
  OBVIOUS
<1>5. PICK market : market = BindMarket(closed.candidate, odds, [BTC |-> price, ETH |-> price])
  OBVIOUS
<1>6. market.odds = odds
  BY <1>5 DEF BindMarket
<1>7. PICK s : s = ReplaySignal(market, at, run.candles, run.options)
  OBVIOUS
<1>8. b = Result(s, closed.resolved, run)
  BY <1>1, <1>2, <1>4, <1>5, <1>7, Zenon DEF ClosedResult
<1>9. PICK options : options = OptionsAt(run.options, at)
  OBVIOUS
<1>10. RejectReasons(market, options) # {}
  BY <1>3, <1>6, NoReasonsDecide
<1>11. s.time = at /\ s.side = "REJECTED"
  <2>1. PICK candles, base : candles = run.candles /\ base = run.options
    OBVIOUS
  <2>2. options = OptionsAt(base, at) /\ s = ReplaySignal(market, at, candles, base)
    BY <1>7, <1>9, <2>1
  <2>3. IsSignalOf(s, market, at, options)
    BY <2>2, ReplaySignalIs
  <2>4. QED
    BY <1>10, <2>3, Zenon DEF IsSignalOf
<1>12. PICK label : label = LabelReplayOutcome(s, s.market.candidate, closed.resolved, run.candles, run.checkedAt)
  OBVIOUS
<1>13. label = "REJECTED"
  BY <1>11, <1>12 DEF LabelReplayOutcome, Actionable
<1>14. /\ b.signal = s /\ b.status = label /\ b.counted = (b.status \in {"WIN", "LOSS"})
       /\ b.pnl = IF b.counted /\ b.entry # Null THEN (IF b.status = "WIN" THEN One ELSE 0) - b.entry ELSE Null
  BY <1>8, <1>12, ResultIs
<1>15. b.status = "REJECTED" /\ ~b.counted
  BY <1>13, <1>14
<1>16. b.pnl = Null
  BY <1>14, <1>15, Zenon
<1>17. QED
  BY <1>11, <1>14, <1>15, <1>16 DEF IsResult, Statuses

-----------------------------------------------------------------------------
(* The numbers of a replay.                                                  *)
\* Every result has one status, and those that count are won or lost.
LEMMA StatusesAddUp ==
  ASSUME NEW S, NEW results \in Seq(S), NEW run, \A i \in 1 .. Len(results) : IsResult(results[i], run)
  PROVE  /\ Len(results) = Cardinality(WithStatus(results, "WIN")) + Cardinality(WithStatus(results, "LOSS"))
                             + Cardinality(WithStatus(results, "PENDING"))
                             + Cardinality(WithStatus(results, "UNRESOLVED"))
                             + Cardinality(WithStatus(results, "REJECTED"))
                             + Cardinality(WithStatus(results, "NO_SIGNAL"))
         /\ Cardinality(Counted(results)) = Cardinality(WithStatus(results, "WIN"))
                                              + Cardinality(WithStatus(results, "LOSS"))
         /\ Cardinality(WithStatus(results, "WIN")) \in Nat
         /\ Cardinality(WithStatus(results, "LOSS")) \in Nat
         /\ IsFiniteSet(Counted(results))
<1>1. PICK N \in Nat : N = Len(results) /\ DOMAIN results = 1 .. N
  BY LenProperties
<1>2. PICK D : D = 1 .. N /\ IsFiniteSet(D) /\ Cardinality(D) = N
  BY FS_Interval
<1>3. PICK W, L, P, U, R, X :
        /\ W = WithStatus(results, "WIN") /\ L = WithStatus(results, "LOSS")
        /\ P = WithStatus(results, "PENDING") /\ U = WithStatus(results, "UNRESOLVED")
        /\ R = WithStatus(results, "REJECTED") /\ X = WithStatus(results, "NO_SIGNAL")
  OBVIOUS
<1>4. \A i : /\ i \in W <=> i \in D /\ results[i].status = "WIN"
             /\ i \in L <=> i \in D /\ results[i].status = "LOSS"
             /\ i \in P <=> i \in D /\ results[i].status = "PENDING"
             /\ i \in U <=> i \in D /\ results[i].status = "UNRESOLVED"
             /\ i \in R <=> i \in D /\ results[i].status = "REJECTED"
             /\ i \in X <=> i \in D /\ results[i].status = "NO_SIGNAL"
  BY <1>1, <1>2, <1>3 DEF WithStatus
<1>5. \A i \in D : results[i].status \in Statuses /\ results[i].counted = (results[i].status \in {"WIN", "LOSS"})
  BY <1>1, <1>2 DEF IsResult
<1>6. PICK D1, D2, D3, D4 : D1 = D \ W /\ D2 = D1 \ L /\ D3 = D2 \ P /\ D4 = D3 \ U
  OBVIOUS
<1>7. Splits(D, W, D1)
  BY <1>4, <1>6 DEF Splits
<1>8. Splits(D1, L, D2)
  BY <1>4, <1>6 DEF Splits
<1>9. Splits(D2, P, D3)
  BY <1>4, <1>6 DEF Splits
<1>10. Splits(D3, U, D4)
  BY <1>4, <1>6 DEF Splits
<1>13. Splits(D4, R, X)
  BY <1>4, <1>5, <1>6 DEF Statuses, Splits
<1>14. CountsAddUp(D, W, D1) /\ IsFiniteSet(D1)
  BY <1>2, <1>7, PartsCount DEF CountsAddUp
<1>15. CountsAddUp(D1, L, D2) /\ IsFiniteSet(D2)
  BY <1>14, <1>8, PartsCount DEF CountsAddUp
<1>16. CountsAddUp(D2, P, D3) /\ IsFiniteSet(D3)
  BY <1>15, <1>9, PartsCount DEF CountsAddUp
<1>17. CountsAddUp(D3, U, D4) /\ IsFiniteSet(D4)
  BY <1>16, <1>10, PartsCount DEF CountsAddUp
<1>18. CountsAddUp(D4, R, X) /\ IsFiniteSet(X)
  BY <1>17, <1>13, PartsCount DEF CountsAddUp
<1>19. PICK C : C = Counted(results)
  OBVIOUS
<1>20. \A i : i \in C <=> i \in W \/ i \in L
  BY <1>1, <1>2, <1>4, <1>5, <1>19 DEF Counted
<1>21. Splits(C, W, L)
  BY <1>4, <1>20 DEF Splits
<1>22. IsFiniteSet(C)
  <2>1. C \in SUBSET D
    BY <1>4, <1>20
  <2>2. QED
    BY <1>2, <2>1, FS_Subset
<1>23. Cardinality(C) = Cardinality(W) + Cardinality(L)
  BY <1>21, <1>22, PartsCount DEF CountsAddUp
<1>24. N = Cardinality(W) + Cardinality(L) + Cardinality(P) + Cardinality(U) + Cardinality(R) + Cardinality(X)
  <2>1. PICK w \in Nat, l \in Nat, p \in Nat, u \in Nat, r \in Nat, x \in Nat :
          /\ w = Cardinality(W) /\ l = Cardinality(L) /\ p = Cardinality(P) /\ u = Cardinality(U)
          /\ r = Cardinality(R) /\ x = Cardinality(X)
    BY <1>14, <1>15, <1>16, <1>17, <1>18 DEF CountsAddUp
  <2>2. PICK d1 \in Nat, d2 \in Nat, d3 \in Nat, d4 \in Nat :
          d1 = Cardinality(D1) /\ d2 = Cardinality(D2) /\ d3 = Cardinality(D3) /\ d4 = Cardinality(D4)
    BY <1>14, <1>15, <1>16, <1>17 DEF CountsAddUp
  <2>3. N = w + d1 /\ d1 = l + d2
    BY <1>2, <1>14, <1>15, <2>1, <2>2, Zenon DEF CountsAddUp
  <2>4. d2 = p + d3 /\ d3 = u + d4 /\ d4 = r + x
    BY <1>16, <1>17, <1>18, <2>1, <2>2, Zenon DEF CountsAddUp
  <2>5. N = w + l + p + u + r + x
    BY <2>3, <2>4
  <2>6. QED
    BY <2>1, <2>5
<1>25. QED
  BY <1>1, <1>3, <1>14, <1>15, <1>19, <1>22, <1>23, <1>24 DEF CountsAddUp

PicksBoth(one, two, s, t, P) ==
  /\ Len(two) = Len(one) /\ Len(one) \in Nat
  /\ \A k \in 1 .. Len(one) : \E i \in P : one[k] = s[i] /\ two[k] = t[i]

LEMMA KeptBoth ==
  ASSUME NEW S, NEW s \in Seq(S), NEW T, NEW t \in Seq(T), Len(s) = Len(t),
         NEW P \in SUBSET (1 .. Len(s)), NEW one, one = Kept(s, P), NEW two, two = Kept(t, P)
  PROVE  PicksBoth(one, two, s, t, P)
BY KeptTogether DEF PicksBoth

\* What a bet has won, or lost.
BetPnl(b) == (IF b.status = "WIN" THEN One ELSE 0) - b.entry
BetPnls(results) ==
  [i \in DOMAIN results |-> IF i \in Counted(results) THEN BetPnl(results[i]) ELSE 0]
Losses(results) ==
  [i \in DOMAIN results |-> IF results[i].status = "LOSS" THEN results[i].entry ELSE 0]

IsFairBet(b) ==
  /\ b.status \in {"WIN", "LOSS"} /\ b.pnl = BetPnl(b)
  /\ b.entry \in Nat /\ BetPnl(b) \in Int
  /\ BetPnl(b) >= -One /\ BetPnl(b) <= One
  /\ b.status = "WIN" => BetPnl(b) >= 0
  /\ b.status = "LOSS" => BetPnl(b) = -b.entry

LEMMA BetsAre ==
  ASSUME NEW S, NEW results \in Seq(S), NEW run, \A i \in 1 .. Len(results) : IsResult(results[i], run)
  PROVE  \A i \in Counted(results) : IsFairBet(results[i])
<1>1. SUFFICES ASSUME NEW i \in Counted(results), NEW b, b = results[i]
               PROVE  IsFairBet(b)
  BY Zenon
<1>2. IsResult(b, run) /\ b.counted
  BY <1>1, LenProperties DEF Counted
<1>3. b.status \in {"WIN", "LOSS"} /\ IsBet(b, run)
  BY <1>2 DEF IsResult
<1>4. PICK one \in Nat : one = One
  BY DEF One
<1>5. PICK entry \in 0 .. one : entry = b.entry
  BY <1>3, <1>4 DEF IsBet
<1>6. PICK pnl \in Int : pnl = (IF b.status = "WIN" THEN one ELSE 0) - entry
  OBVIOUS
<1>7. BetPnl(b) = pnl /\ b.pnl = pnl
  BY <1>3, <1>4, <1>5, <1>6, Zenon DEF BetPnl, IsBet
<1>8. pnl >= -one /\ pnl <= one /\ (b.status = "WIN" => pnl >= 0) /\ (b.status = "LOSS" => pnl = -entry)
  BY <1>5, <1>6
<1>9. QED
  BY <1>3, <1>4, <1>5, <1>7, <1>8 DEF IsFairBet

\* The known profits and losses are those of the bets.
LEMMA PnlsAre ==
  ASSUME NEW S, NEW results \in Seq(S), NEW run, \A i \in 1 .. Len(results) : IsResult(results[i], run),
         NEW C, C = Counted(results)
  PROVE  /\ C \in SUBSET (1 .. Len(results)) /\ BetPnls(results) \in Seq(Int)
         /\ Len(BetPnls(results)) = Len(results)
         /\ Pnls(results) = Kept(BetPnls(results), C)
<1>1. PICK N \in Nat : N = Len(results) /\ DOMAIN results = 1 .. N
  BY LenProperties
<1>2. C \in SUBSET (1 .. N)
  BY <1>1 DEF Counted
<1>3. \A i \in C : results[i].pnl = BetPnl(results[i]) /\ BetPnl(results[i]) \in Int /\ BetPnl(results[i]) >= -One
  BY BetsAre DEF IsFairBet
<1>4. PICK list : list = BetPnls(results)
  OBVIOUS
<1>5. list = [i \in 1 .. N |-> IF i \in C THEN BetPnl(results[i]) ELSE 0]
  BY <1>1, <1>4 DEF BetPnls
<1>6. list \in Seq(Int) /\ Len(list) = N
  <2>1. list \in [1 .. N -> Int]
    BY <1>3, <1>5
  <2>2. QED
    BY <2>1, LenProperties
<1>7. PICK Q : Q = {i \in DOMAIN results : results[i].pnl # Null}
  OBVIOUS
<1>8. Q = C
  <2>1. ASSUME NEW i \in 1 .. N, i \in C PROVE results[i].pnl # Null
    <3>1. -One > Null /\ -One \in Int /\ Null \in Int
      BY DEF One, Null
    <3>2. QED
      BY <1>3, <2>1, <3>1
  <2>2. ASSUME NEW i \in 1 .. N, i \notin C PROVE results[i].pnl = Null
    <3>1. IsResult(results[i], run)
      BY <1>1
    <3>2. ~results[i].counted
      BY <1>1, <2>2 DEF Counted
    <3>3. QED
      BY <3>1, <3>2 DEF IsResult
  <2>3. QED
    BY <1>1, <1>2, <1>7, <2>1, <2>2
<1>9. PICK known : known = Kept(results, C)
  OBVIOUS
<1>10. Pnls(results) = [k \in DOMAIN known |-> known[k].pnl]
  BY <1>7, <1>8, <1>9, Zenon DEF Pnls
<1>11. PICK kept : kept = Kept(list, C)
  OBVIOUS
<1>12. PICK n \in Nat : /\ Len(known) = n /\ Len(kept) = n
                        /\ \A k \in 1 .. n : \E i \in C : known[k] = results[i] /\ kept[k] = list[i]
  BY SMTT(40), <1>1, <1>2, <1>6, <1>9, <1>11, KeptTogether
<1>13. known \in Seq(S) /\ kept \in Seq(Int)
  BY <1>1, <1>2, <1>6, <1>9, <1>11, KeptElements
<1>14. DOMAIN known = 1 .. n /\ DOMAIN kept = 1 .. n
  BY <1>12, <1>13, LenProperties
<1>15. \A k \in 1 .. n : known[k].pnl = kept[k]
  BY <1>2, <1>3, <1>5, <1>12
<1>16. PICK pnls : pnls = Pnls(results)
  OBVIOUS
<1>17. pnls = [k \in 1 .. n |-> known[k].pnl]
  BY <1>10, <1>14, <1>16
<1>18. kept = [k \in 1 .. n |-> kept[k]]
  BY <1>13, <1>14
<1>19. pnls = kept
  BY <1>15, <1>17, <1>18
<1>20. QED
  BY <1>1, <1>2, <1>4, <1>6, <1>11, <1>16, <1>19

\* The profits and losses of bets sum up, and their drawdown is no more than
\* all losses.
PnlsFit(pnls, C, results) ==
  /\ pnls = <<>> <=> C = {}
  /\ Summed(pnls) = Summed(BetPnls(results)) /\ Summed(pnls) \in Int /\ Summed(pnls) # Null
  /\ MaxDrawdown(pnls) >= -Summed(pnls) /\ MaxDrawdown(pnls) <= Summed(Losses(results))

LEMMA BetsAddUp ==
  ASSUME NEW S, NEW results \in Seq(S), NEW run, \A i \in 1 .. Len(results) : IsResult(results[i], run),
         NEW C, C = Counted(results), Cardinality(C) <= 20,
         NEW pnls, pnls = Pnls(results)
  PROVE  PnlsFit(pnls, C, results)
<1>1. PICK N \in Nat : N = Len(results) /\ DOMAIN results = 1 .. N
  BY LenProperties
<1>2. C \in SUBSET (1 .. N)
  BY <1>1 DEF Counted
<1>3. PICK list : list = BetPnls(results)
  OBVIOUS
<1>4. list \in Seq(Int) /\ Len(list) = N /\ pnls = Kept(list, C)
  BY <1>1, <1>3, PnlsAre
<1>5. list = [i \in 1 .. N |-> IF i \in C THEN BetPnl(results[i]) ELSE 0]
  BY <1>1, <1>3 DEF BetPnls
<1>6. PICK losses : losses = Losses(results)
  OBVIOUS
<1>7. losses = [i \in 1 .. N |-> IF results[i].status = "LOSS" THEN results[i].entry ELSE 0]
  BY <1>1, <1>6 DEF Losses
<1>8. \A i \in 1 .. N : results[i].status = "LOSS" => i \in C
  BY <1>1 DEF IsResult, Counted
<1>9. \A i \in C : IsFairBet(results[i])
  BY BetsAre
<1>10. losses \in Seq(Int) /\ Len(losses) = N
  <2>1. ASSUME NEW i \in 1 .. N, results[i].status = "LOSS" PROVE results[i].entry \in Int
    BY <1>8, <1>9, <2>1 DEF IsFairBet
  <2>2. losses \in [1 .. N -> Int]
    BY <1>7, <2>1
  <2>3. QED
    BY <2>2, LenProperties
<1>11. PICK kept : kept = Kept(losses, C)
  OBVIOUS
<1>12. PICK n \in Nat : /\ Len(pnls) = n /\ Len(kept) = n
                        /\ \A k \in 1 .. n : \E i \in C : pnls[k] = list[i] /\ kept[k] = losses[i]
  <2>1. C \in SUBSET (1 .. Len(list)) /\ Len(list) = Len(losses)
    BY <1>2, <1>4, <1>10
  <2>2. /\ Len(kept) = Len(pnls) /\ Len(pnls) \in Nat
        /\ \A k \in 1 .. Len(pnls) : \E i \in C : pnls[k] = list[i] /\ kept[k] = losses[i]
    <3>1. PICK Z : Z = Int
      OBVIOUS
    <3>2. list \in Seq(Z) /\ losses \in Seq(Z)
      BY <1>4, <1>10, <3>1
    <3>3. PicksBoth(pnls, kept, list, losses, C)
      BY <1>4, <1>11, <2>1, <3>2, KeptBoth
    <3>4. QED
      BY <3>3, Zenon DEF PicksBoth
  <2>3. QED
    BY <2>2
<1>13. /\ pnls \in Seq(Int) /\ Len(pnls) = Cardinality(C) /\ (pnls = <<>> <=> C = {})
  BY SMTT(40), <1>2, <1>4, KeptElements
<1>14. kept \in Seq(Int)
  BY <1>2, <1>10, <1>11, KeptElements
<1>15. \A k \in 1 .. n : kept[k] >= 0 /\ kept[k] >= -pnls[k]
  <2>1. SUFFICES ASSUME NEW k \in 1 .. n, NEW i \in C, pnls[k] = list[i], kept[k] = losses[i]
                 PROVE  kept[k] >= 0 /\ kept[k] >= -pnls[k]
    BY <1>12
  <2>2. pnls[k] = BetPnl(results[i]) /\ kept[k] = (IF results[i].status = "LOSS" THEN results[i].entry ELSE 0)
    BY <1>2, <1>5, <1>7, <2>1
  <2>3. PICK r : r = results[i] /\ IsFairBet(r)
    BY <1>9
  <2>4. PICK pnl \in Int, entry \in Nat : pnl = BetPnl(r) /\ entry = r.entry
    BY <2>3 DEF IsFairBet
  <2>5. CASE r.status = "WIN"
    BY <2>2, <2>3, <2>4, <2>5 DEF IsFairBet
  <2>6. CASE r.status = "LOSS"
    BY <2>2, <2>3, <2>4, <2>6 DEF IsFairBet
  <2>7. QED
    BY <2>3, <2>5, <2>6 DEF IsFairBet
<1>16. MaxDrawdown(pnls) >= -Summed(pnls) /\ MaxDrawdown(pnls) <= Summed(kept)
  BY <1>12, <1>13, <1>14, <1>15, DrawdownFits
<1>17. Summed(kept) = Summed(losses)
  <2>1. Summed(kept) = Summed([i \in 1 .. N |-> IF i \in C THEN losses[i] ELSE 0])
    BY SMTT(40), <1>2, <1>10, <1>11, SummedOfKept
  <2>2. [i \in 1 .. N |-> IF i \in C THEN losses[i] ELSE 0] = losses
    BY <1>7, <1>8
  <2>3. QED
    BY <2>1, <2>2
<1>18. Summed(pnls) = Summed(list)
  <2>1. Summed(pnls) = Summed([i \in 1 .. N |-> IF i \in C THEN list[i] ELSE 0])
    BY SMTT(40), <1>2, <1>4, SummedOfKept
  <2>2. [i \in 1 .. N |-> IF i \in C THEN list[i] ELSE 0] = list
    BY <1>5
  <2>3. QED
    BY <2>1, <2>2
<1>19. Summed(pnls) \in Int /\ Summed(pnls) # Null
  <2>1. PICK one \in Int : one = One
    BY DEF One
  <2>2. \A k \in 1 .. n : -one <= pnls[k] /\ pnls[k] <= one
    <3>1. SUFFICES ASSUME NEW k \in 1 .. n, NEW i \in C, pnls[k] = list[i]
                   PROVE  -one <= pnls[k] /\ pnls[k] <= one
      BY <1>12
    <3>2. pnls[k] = BetPnl(results[i])
      BY <1>2, <1>5, <3>1
    <3>3. QED
      <4>1. IsFairBet(results[i])
        BY <1>9
      <4>2. PICK pnl \in Int : pnl = BetPnl(results[i]) /\ pnl >= -one /\ pnl <= one
        BY <2>1, <4>1, Zenon DEF IsFairBet
      <4>3. QED
        BY <3>2, <4>2
  <2>3. PICK low \in Int : low = -one
    OBVIOUS
  <2>4. \A k \in 1 .. Len(pnls) : low <= pnls[k] /\ pnls[k] <= one
    BY <1>12, <2>2, <2>3
  <2>5. Len(pnls) * low <= Summed(pnls) /\ Summed(pnls) \in Int
    BY <1>13, <2>4, SummedWithin
  <2>6. n <= 20
    BY <1>12, <1>13
  <2>7. n * low >= -200000
    BY <2>1, <2>3, <2>6 DEF One
  <2>8. PICK total \in Int : total = Summed(pnls)
    BY <2>5
  <2>9. total >= -200000
    BY <1>12, <2>5, <2>7, <2>8
  <2>10. QED
    BY <2>8, <2>9 DEF Null
<1>20. QED
  BY <1>3, <1>6, <1>13, <1>16, <1>17, <1>18, <1>19 DEF PnlsFit

LEMMA MetricsAre ==
  ASSUME NEW results, NEW m, m = ReplayMetrics(results), NEW pnls, pnls = Pnls(results)
  PROVE  /\ m.evaluated = Len(results) /\ m.sampleCount = Cardinality(Counted(results))
         /\ m.winCount = Cardinality(WithStatus(results, "WIN"))
         /\ m.lossCount = Cardinality(WithStatus(results, "LOSS"))
         /\ m.pendingCount = Cardinality(WithStatus(results, "PENDING"))
         /\ m.unresolvedCount = Cardinality(WithStatus(results, "UNRESOLVED"))
         /\ m.rejectedCount = Cardinality(WithStatus(results, "REJECTED"))
         /\ m.noSignalCount = Cardinality(WithStatus(results, "NO_SIGNAL"))
         /\ m.winRate = Ratio(m.winCount, m.winCount + m.lossCount)
         /\ m.cumulativePnl = IF pnls = <<>> THEN Null ELSE Summed(pnls)
         /\ m.maxDrawdown = IF pnls = <<>> THEN Null ELSE MaxDrawdown(pnls)
<1> DEFINE count(label) == Cardinality(WithStatus(results, label))
<1>1. PICK actionable : actionable = Cardinality({i \in DOMAIN results : Actionable(results[i].signal.side)})
  OBVIOUS
<1>2. m = [evaluated |-> Len(results), sampleCount |-> Cardinality(Counted(results)), winCount |-> count("WIN"),
      lossCount |-> count("LOSS"), pendingCount |-> count("PENDING"),
      unresolvedCount |-> count("UNRESOLVED"), rejectedCount |-> count("REJECTED"),
      noSignalCount |-> count("NO_SIGNAL"), actionableCount |-> actionable,
      winRate |-> Ratio(count("WIN"), count("WIN") + count("LOSS")),
      coverageRate |-> Ratio(actionable, Len(results)),
      pendingRate |-> Ratio(count("PENDING"), Len(results)),
      cumulativePnl |-> IF pnls = <<>> THEN Null ELSE Summed(pnls),
      maxDrawdown |-> IF pnls = <<>> THEN Null ELSE MaxDrawdown(pnls)]
  BY <1>1, Zenon DEF ReplayMetrics, WithStatus, Counted
<1> HIDE DEF count
<1>3. PICK win, loss, pending, unresolved, rejected, none :
        /\ win = count("WIN") /\ loss = count("LOSS") /\ pending = count("PENDING")
        /\ unresolved = count("UNRESOLVED") /\ rejected = count("REJECTED") /\ none = count("NO_SIGNAL")
  OBVIOUS
<1>4. PICK len, completed, rate, coverage, waiting, sum, fall :
        /\ len = Len(results) /\ completed = Cardinality(Counted(results))
        /\ rate = Ratio(win, win + loss) /\ coverage = Ratio(actionable, len) /\ waiting = Ratio(pending, len)
        /\ sum = IF pnls = <<>> THEN Null ELSE Summed(pnls)
        /\ fall = IF pnls = <<>> THEN Null ELSE MaxDrawdown(pnls)
  OBVIOUS
<1>5. m = [evaluated |-> len, sampleCount |-> completed, winCount |-> win, lossCount |-> loss,
           pendingCount |-> pending, unresolvedCount |-> unresolved, rejectedCount |-> rejected,
           noSignalCount |-> none, actionableCount |-> actionable, winRate |-> rate,
           coverageRate |-> coverage, pendingRate |-> waiting, cumulativePnl |-> sum, maxDrawdown |-> fall]
  BY <1>2, <1>3, <1>4, Zenon
<1>6. /\ m.evaluated = len /\ m.sampleCount = completed /\ m.winCount = win /\ m.lossCount = loss
      /\ m.pendingCount = pending /\ m.unresolvedCount = unresolved /\ m.rejectedCount = rejected
      /\ m.noSignalCount = none /\ m.winRate = rate /\ m.cumulativePnl = sum /\ m.maxDrawdown = fall
  BY <1>5
<1>7. /\ m.evaluated = Len(results) /\ m.sampleCount = Cardinality(Counted(results))
      /\ m.winRate = Ratio(m.winCount, m.winCount + m.lossCount)
      /\ m.cumulativePnl = (IF pnls = <<>> THEN Null ELSE Summed(pnls))
      /\ m.maxDrawdown = (IF pnls = <<>> THEN Null ELSE MaxDrawdown(pnls))
  BY <1>4, <1>6, Zenon
<1>8. /\ m.winCount = count("WIN") /\ m.lossCount = count("LOSS") /\ m.pendingCount = count("PENDING")
      /\ m.unresolvedCount = count("UNRESOLVED") /\ m.rejectedCount = count("REJECTED")
      /\ m.noSignalCount = count("NO_SIGNAL")
  BY <1>3, <1>6, Zenon
<1>9. QED
  BY <1>7, <1>8, Zenon DEF count

\* A replay whose results are each sound, with no more than twenty bets, adds up.
LEMMA SoundResultsAddUp ==
  ASSUME NEW S, NEW results \in Seq(S), NEW run, \A i \in 1 .. Len(results) : IsResult(results[i], run),
         Cardinality(Counted(results)) <= 20
  PROVE  ReplayAddsUp(run, WithMetrics(results))
<1>1. PICK r : r = WithMetrics(results)
  OBVIOUS
<1>2. PICK m : m = ReplayMetrics(results)
  OBVIOUS
<1>3. r.results = results /\ r.metrics = m
  BY <1>1, <1>2 DEF WithMetrics
<1>4. PICK C : C = Counted(results)
  OBVIOUS
<1>5. PICK pnls : pnls = Pnls(results)
  OBVIOUS
<1>6. PICK win \in Nat, loss \in Nat : /\ win = Cardinality(WithStatus(results, "WIN"))
                                       /\ loss = Cardinality(WithStatus(results, "LOSS"))
                                       /\ Cardinality(C) = win + loss
  BY <1>4, StatusesAddUp
<1>7. m.sampleCount = Cardinality(C) /\ m.sampleCount = m.winCount + m.lossCount
  BY <1>2, <1>4, <1>6, MetricsAre
<1>8. m.evaluated = m.winCount + m.lossCount + m.pendingCount + m.unresolvedCount
                    + m.rejectedCount + m.noSignalCount
  <2>1. /\ m.evaluated = Len(results)
        /\ m.winCount = Cardinality(WithStatus(results, "WIN"))
        /\ m.lossCount = Cardinality(WithStatus(results, "LOSS"))
        /\ m.pendingCount = Cardinality(WithStatus(results, "PENDING"))
        /\ m.unresolvedCount = Cardinality(WithStatus(results, "UNRESOLVED"))
        /\ m.rejectedCount = Cardinality(WithStatus(results, "REJECTED"))
        /\ m.noSignalCount = Cardinality(WithStatus(results, "NO_SIGNAL"))
    BY <1>2, <1>5, MetricsAre
  <2>2. Len(results) = Cardinality(WithStatus(results, "WIN")) + Cardinality(WithStatus(results, "LOSS"))
                         + Cardinality(WithStatus(results, "PENDING"))
                         + Cardinality(WithStatus(results, "UNRESOLVED"))
                         + Cardinality(WithStatus(results, "REJECTED"))
                         + Cardinality(WithStatus(results, "NO_SIGNAL"))
    BY StatusesAddUp
  <2>3. QED
    BY <2>1, <2>2
<1>9. (m.winRate = Null) = (m.sampleCount = 0)
  <2>1. m.winRate = Ratio(win, win + loss) /\ m.sampleCount = win + loss
    BY <1>2, <1>4, <1>6, MetricsAre
  <2>2. CASE win + loss = 0
    BY <2>1, <2>2 DEF Ratio
  <2>3. CASE win + loss # 0
    <3>1. PICK n \in Nat, k \in Nat \ {0} : n = win * One /\ k = win + loss
      BY <2>3 DEF One
    <3>2. n \div k \in Nat
      BY <3>1, ShareIsNatural
    <3>3. m.winRate = n \div k
      BY <2>1, <2>3, <3>1 DEF Ratio
    <3>4. m.winRate # Null
      BY <3>2, <3>3, NullIsNegative
    <3>5. QED
      BY <2>1, <2>3, <3>4
  <2>4. QED
    BY <2>2, <2>3
<1>10. /\ pnls = <<>> <=> C = {}
       /\ Summed(pnls) = Summed(BetPnls(results)) /\ Summed(pnls) # Null
       /\ MaxDrawdown(pnls) >= -Summed(pnls) /\ MaxDrawdown(pnls) <= Summed(Losses(results))
  <2>1. Cardinality(C) <= 20
    BY <1>4, Zenon
  <2>2. PnlsFit(pnls, C, results)
    BY <1>4, <1>5, <2>1, BetsAddUp
  <2>3. QED
    BY <2>2, Zenon DEF PnlsFit
<1>11. /\ m.cumulativePnl = IF pnls = <<>> THEN Null ELSE Summed(pnls)
       /\ m.maxDrawdown = IF pnls = <<>> THEN Null ELSE MaxDrawdown(pnls)
  BY <1>2, <1>5, MetricsAre
<1>12. (m.cumulativePnl = Null) = (C = {})
  BY <1>10, <1>11
<1>13. C # {} => /\ m.cumulativePnl = Summed(BetPnls(results)) /\ m.maxDrawdown >= -m.cumulativePnl
                 /\ m.maxDrawdown <= Summed(Losses(results))
  BY <1>10, <1>11, Zenon
<1>14. \A i \in C : /\ results[i].signal.time < results[i].signal.expiry
                    /\ results[i].signal.expiry <= run.checkedAt /\ IsBorneOut(results[i], run)
  <2>1. ASSUME NEW i \in C PROVE IsResult(results[i], run) /\ results[i].counted
    BY <1>4, LenProperties DEF Counted
  <2>2. QED
    BY <2>1, Zenon DEF IsResult, IsBet
<1>15. PICK bets, losses : bets = BetPnls(results) /\ losses = Losses(results)
  OBVIOUS
<1>16. bets = [i \in DOMAIN results |->
                 IF i \in C THEN (IF results[i].status = "WIN" THEN One ELSE 0) - results[i].entry ELSE 0]
  BY <1>4, <1>15, Zenon DEF BetPnls, BetPnl
<1>17. losses = [i \in DOMAIN results |-> IF results[i].status = "LOSS" THEN results[i].entry ELSE 0]
  BY <1>15, Zenon DEF Losses
<1>18. C # {} =>
         /\ m.cumulativePnl = Summed([i \in DOMAIN results |->
              IF i \in C THEN (IF results[i].status = "WIN" THEN One ELSE 0) - results[i].entry ELSE 0])
         /\ m.maxDrawdown >= -m.cumulativePnl
         /\ m.maxDrawdown <= Summed([i \in DOMAIN results |->
              IF results[i].status = "LOSS" THEN results[i].entry ELSE 0])
  BY <1>13, <1>15, <1>16, <1>17, Zenon
<1>19. C = {i \in DOMAIN results : results[i].counted}
  BY <1>4 DEF Counted
<1>20. ReplayAddsUp(run, r)
  BY <1>3, <1>7, <1>8, <1>9, <1>12, <1>14, <1>18, <1>19, ZenonT(40) DEF ReplayAddsUp, IsBorneOut
<1>21. QED
  BY <1>1, <1>20

-----------------------------------------------------------------------------
(* A replay's run, as the code makes it: it asks for at most twenty open      *)
(* markets (replay/runner.ts:71).                                            *)
RunFields == {"window", "checkedAt", "minutes", "candles", "options", "activeFailed", "active", "closed"}
HasMarkets(run, n, k) ==
  (IF run.activeFailed THEN n = 0 ELSE DOMAIN run.active = 1 .. n) /\ DOMAIN run.closed = 1 .. k
IsReplayRun(run) ==
  /\ DOMAIN run = RunFields
  /\ run.window.start \in Int /\ run.window.end \in Int /\ run.checkedAt \in Int /\ run.minutes \in Int
  /\ run.candles \in Seq(PricedCandles) /\ "now" \in DOMAIN run.options
  /\ \E n \in Nat, k \in Nat : n <= 20 /\ HasMarkets(run, n, k)
  /\ \A i \in DOMAIN run.active : IsOfferedMarket(run.active[i])
  /\ \A i \in DOMAIN run.closed : run.closed[i].candidate.expiry \in Int

AllResults(run) == ActiveResults(run) \o ClosedResults(run)
ResultAt(run, n, i) ==
  IF i <= n THEN ActiveResult(run.active[i], run) ELSE ClosedResult(run.closed[i - n], run)
TimeAt(run, n, i) ==
  IF i <= n THEN run.window.end ELSE ClosedSignalTime(run.closed[i - n].candidate, run)

AreResults(all, run, n, N) ==
  /\ DOMAIN all = 1 .. N /\ Len(all) = N /\ \A i \in 1 .. N : all[i] = ResultAt(run, n, i)
  /\ \E R : all \in Seq(R)

LEMMA AllIs ==
  ASSUME NEW run, NEW n \in Nat, NEW k \in Nat, HasMarkets(run, n, k), NEW N, N = n + k,
         NEW all, all = AllResults(run)
  PROVE  AreResults(all, run, n, N)
<1>1. PICK a, c : a = ActiveResults(run) /\ c = ClosedResults(run)
  OBVIOUS
<1>2. PICK A, C : A = {ActiveResult(run.active[i], run) : i \in 1 .. n} /\ C = {ClosedResult(run.closed[i], run) : i \in 1 .. k}
  OBVIOUS
<1>3. a = [i \in 1 .. n |-> ActiveResult(run.active[i], run)]
  <2>1. CASE run.activeFailed
    <3>1. a = <<>> /\ n = 0
      BY <1>1, <2>1 DEF ActiveResults, HasMarkets
    <3>2. QED
      BY <3>1
  <2>2. CASE ~run.activeFailed
    <3>1. DOMAIN run.active = 1 .. n
      BY <2>2 DEF HasMarkets
    <3>2. QED
      BY <1>1, <2>2, <3>1, Zenon DEF ActiveResults
  <2>3. QED
    BY <2>1, <2>2
<1>4. c = [i \in 1 .. k |-> ClosedResult(run.closed[i], run)]
  BY <1>1, Zenon DEF ClosedResults, HasMarkets
<1>5. a \in [1 .. n -> A] /\ c \in [1 .. k -> C]
  BY <1>2, <1>3, <1>4
<1>6. a \in Seq(A) /\ Len(a) = n /\ c \in Seq(C) /\ Len(c) = k
  BY <1>5, LenProperties
<1>7. PICK S : S = A \cup C
  OBVIOUS
<1>8. a \in Seq(S) /\ c \in Seq(S)
  BY <1>6, <1>7
<1>9. all = a \o c
  BY <1>1, Zenon DEF AllResults
<1>10. /\ all \in Seq(S) /\ Len(all) = N
       /\ \A i \in 1 .. N : all[i] = IF i <= n THEN a[i] ELSE c[i - n]
  <2>1. PICK joint : joint = a \o c
    OBVIOUS
  <2>2. joint \in Seq(S) /\ Len(joint) = Len(a) + Len(c)
    BY <1>8, <2>1, ConcatProperties
  <2>3. \A i \in 1 .. Len(joint) : joint[i] = IF i <= Len(a) THEN a[i] ELSE c[i - Len(a)]
    BY <1>8, <2>1
  <2>4. joint = all
    BY <1>9, <2>1
  <2>5. Len(joint) = N
    BY <1>6, <2>2
  <2>6. QED
    BY <1>6, <2>2, <2>3, <2>4, <2>5
<1>11. DOMAIN all = 1 .. N
  BY <1>10, LenProperties
<1>12. \A i \in 1 .. N : all[i] = ResultAt(run, n, i)
  <2>1. SUFFICES ASSUME NEW i \in 1 .. N PROVE all[i] = ResultAt(run, n, i)
    OBVIOUS
  <2>2. CASE i <= n
    <3>1. i \in 1 .. n
      BY <2>2
    <3>2. all[i] = ActiveResult(run.active[i], run)
      BY <1>3, <1>10, <2>2, <3>1
    <3>3. QED
      BY <2>2, <3>2, Zenon DEF ResultAt
  <2>3. CASE ~(i <= n)
    <3>1. PICK j \in 1 .. k : j = i - n
      BY <2>3
    <3>2. all[i] = ClosedResult(run.closed[j], run)
      BY <1>4, <1>10, <2>3, <3>1
    <3>3. QED
      BY <2>3, <3>1, <3>2, Zenon DEF ResultAt
  <2>4. QED
    BY <2>2, <2>3
<1>13. PICK R : R = {ResultAt(run, n, i) : i \in 1 .. N}
  OBVIOUS
<1>14. all \in [1 .. N -> R]
  <2>1. \A i \in 1 .. N : all[i] \in R
    BY <1>12, <1>13
  <2>2. all = [i \in 1 .. N |-> all[i]]
    BY <1>10, <1>11
  <2>3. QED
    BY <2>1, <2>2
<1>15. all \in Seq(R)
  BY <1>14
<1>16. QED
  BY <1>10, <1>11, <1>12, <1>15, Zenon DEF AreResults

LEMMA ResultsOfRun ==
  ASSUME NEW run, IsReplayRun(run), NEW n \in Nat, NEW k \in Nat, HasMarkets(run, n, k),
         NEW N, N = n + k, NEW i \in 1 .. N, NEW b, b = ResultAt(run, n, i)
  PROVE  /\ IsResult(b, run) /\ b.signal.time = TimeAt(run, n, i) /\ TimeAt(run, n, i) \in Int
         /\ b.counted => i <= n
         /\ run.window.end = run.checkedAt => ~b.counted
<1>1. CASE i <= n
  <2>1. i \in DOMAIN run.active
    BY <1>1 DEF HasMarkets
  <2>2. PICK market : market = run.active[i] /\ IsOfferedMarket(market)
    BY <2>1 DEF IsReplayRun
  <2>3. PICK end \in Int : end = run.window.end
    BY DEF IsReplayRun
  <2>4. b = ActiveResult(market, run)
    BY <1>1, <2>2 DEF ResultAt
  <2>5. run.checkedAt \in Int /\ run.candles \in Seq(PricedCandles) /\ "now" \in DOMAIN run.options
    BY DEF IsReplayRun
  <2>6. IsResult(b, run) /\ b.signal.time = end /\ (end = run.checkedAt => ~b.counted)
    BY <2>2, <2>3, <2>4, <2>5, ActiveResultIs
  <2>7. QED
    BY <1>1, <2>3, <2>6, Zenon DEF TimeAt
<1>2. CASE ~(i <= n)
  <2>1. PICK j \in 1 .. k : j = i - n
    BY <1>2
  <2>2. PICK closed : closed = run.closed[j] /\ closed.candidate.expiry \in Int
    BY <2>1 DEF IsReplayRun, HasMarkets
  <2>3. PICK at \in Int : at = ClosedSignalTime(closed.candidate, run)
    BY <2>2, ClosedTimeIs DEF IsReplayRun
  <2>4. b = ClosedResult(closed, run)
    BY <1>2, <2>1, <2>2, Zenon DEF ResultAt
  <2>5. IsResult(b, run) /\ b.signal.time = at /\ ~b.counted
    BY <2>3, <2>4, ClosedIsRejected
  <2>6. QED
    BY <1>2, <2>1, <2>2, <2>3, <2>5, Zenon DEF TimeAt
<1>3. QED
  BY <1>1, <1>2

LEMMA UpToAgain ==
  ASSUME NEW candles \in Seq(PricedCandles), NEW at \in Int
  PROVE  UpTo(UpTo(candles, at), at) = UpTo(candles, at)
<1>1. PICK P : P = {i \in DOMAIN candles : candles[i].time <= at}
  OBVIOUS
<1>2. P \in SUBSET (1 .. Len(candles))
  BY <1>1, LenProperties
<1>3. PICK past : past = Kept(candles, P)
  OBVIOUS
<1>4. past = UpTo(candles, at)
  BY <1>1, <1>3, Zenon DEF UpTo
<1>5. past \in Seq(PricedCandles)
  BY <1>2, <1>3, KeptElements
<1>6. PICK V : V = {c \in PricedCandles : c.time <= at}
  OBVIOUS
<1>7. PICK R : R = {i \in DOMAIN past : past[i].time <= at}
  OBVIOUS
<1>8. Selects(P, candles, P, V)
  BY <1>1, <1>6 DEF Selects
<1>9. Selects(R, past, 1 .. Len(past), V)
  BY <1>5, <1>6, <1>7, LenProperties DEF Selects
<1>10. Kept(past, R) = Kept(candles, P)
  BY <1>2, <1>3, <1>8, <1>9, KeptOfKept
<1>11. UpTo(past, at) = past
  BY <1>3, <1>7, <1>10, Zenon DEF UpTo
<1>12. QED
  BY <1>4, <1>11, Zenon

\* The same signal comes of the candles up to its time.
LEMMA BlindSignal ==
  ASSUME NEW candles \in Seq(PricedCandles), NEW at \in Int, NEW past, past = UpTo(candles, at),
         NEW market, NEW options
  PROVE  /\ ReplaySignal(market, at, past, options) = ReplaySignal(market, at, candles, options)
         /\ PriceAtOrBefore(past, at) = PriceAtOrBefore(candles, at)
<1>1. UpTo(past, at) = UpTo(candles, at)
  BY UpToAgain
<1>2. PriceAtOrBefore(past, at) = PriceAtOrBefore(candles, at)
  BY <1>1, Zenon DEF PriceAtOrBefore
<1>3. ReplaySignal(market, at, past, options) = ReplaySignal(market, at, candles, options)
  BY <1>1, Zenon DEF ReplaySignal
<1>4. QED
  BY <1>2, <1>3

\* A run without the candles after some time.
BlindRun(run, at) == [run EXCEPT !.candles = UpTo(run.candles, at)]

LEMMA BlindIs ==
  ASSUME NEW run, DOMAIN run = RunFields, NEW at, NEW blind, blind = BlindRun(run, at)
  PROVE  /\ blind.window = run.window /\ blind.checkedAt = run.checkedAt /\ blind.minutes = run.minutes
         /\ blind.options = run.options /\ blind.activeFailed = run.activeFailed
         /\ blind.active = run.active /\ blind.closed = run.closed
         /\ blind.candles = UpTo(run.candles, at)
<1>1. PICK past : past = UpTo(run.candles, at)
  OBVIOUS
<1>2. blind = [run EXCEPT !.candles = past]
  BY <1>1, Zenon DEF BlindRun
<1>3. QED
  BY <1>1, <1>2 DEF RunFields

\* The results of a run without the candles after `seen': each has the time it
\* had, and those at `seen' the signal they had.
SameByThen(b, r, at, seen) == b.signal.time = at /\ (at = seen => b.signal = r.signal)

LEMMA BlindResult ==
  ASSUME NEW run, IsReplayRun(run), NEW n \in Nat, NEW k \in Nat, HasMarkets(run, n, k),
         NEW seen \in Int, NEW blind, blind = BlindRun(run, seen),
         NEW N, N = n + k, NEW i \in 1 .. N,
         NEW b, b = ResultAt(blind, n, i), NEW r, r = ResultAt(run, n, i)
  PROVE  SameByThen(b, r, TimeAt(run, n, i), seen)
<1>1. PICK at \in Int : at = TimeAt(run, n, i)
  BY ResultsOfRun
<1>2. PICK candles, options, past :
        /\ candles = run.candles /\ options = run.options /\ past = UpTo(candles, seen)
        /\ candles \in Seq(PricedCandles)
  BY DEF IsReplayRun
<1>3. /\ blind.window = run.window /\ blind.minutes = run.minutes
      /\ blind.options = options /\ blind.active = run.active /\ blind.closed = run.closed
      /\ blind.candles = past
  BY <1>2, BlindIs DEF IsReplayRun
<1>4. CASE i <= n
  <2>1. PICK market : market = run.active[i]
    OBVIOUS
  <2>2. at = run.window.end
    BY <1>1, <1>4, Zenon DEF TimeAt
  <2>3. b = ActiveResult(market, blind) /\ r = ActiveResult(market, run)
    BY <1>3, <1>4, <2>1, Zenon DEF ResultAt
  <2>4. b = Result(ReplaySignal(market, at, past, options), "none", blind)
    BY <1>3, <2>2, <2>3, Zenon DEF ActiveResult
  <2>5. r = Result(ReplaySignal(market, at, candles, options), "none", run)
    BY <1>2, <2>2, <2>3, Zenon DEF ActiveResult
  <2>6. PICK s, t : s = ReplaySignal(market, at, past, options) /\ t = ReplaySignal(market, at, candles, options)
    OBVIOUS
  <2>7. b.signal = s /\ r.signal = t
    BY <2>4, <2>5, <2>6, ResultIs
  <2>8. PICK then : then = OptionsAt(options, at)
    OBVIOUS
  <2>9. s.time = at
    <3>1. IsSignalOf(s, market, at, then)
      BY <2>6, <2>8, ReplaySignalIs
    <3>2. QED
      BY <3>1, Zenon DEF IsSignalOf
  <2>10. at = seen => s = t
    BY <1>2, <2>6, BlindSignal
  <2>11. QED
    BY <1>1, <2>7, <2>9, <2>10 DEF SameByThen
<1>5. CASE ~(i <= n)
  <2>1. PICK closed : closed = run.closed[i - n]
    OBVIOUS
  <2>2. at = ClosedSignalTime(closed.candidate, run)
    BY <1>1, <1>5, <2>1, Zenon DEF TimeAt
  <2>3. at = ClosedSignalTime(closed.candidate, blind)
    BY <1>3, <2>2, Zenon DEF ClosedSignalTime
  <2>4. b = ClosedResult(closed, blind) /\ r = ClosedResult(closed, run)
    BY <1>3, <1>5, <2>1, Zenon DEF ResultAt
  <2>5. PICK history : history = IF closed.failed THEN <<>> ELSE closed.history
    OBVIOUS
  <2>6. PICK odds : odds = HistoricalOdds(HistoryPrice(history, at), history = <<>>)
    OBVIOUS
  <2>7. PICK price, early : price = PriceAtOrBefore(candles, at) /\ early = PriceAtOrBefore(past, at)
    OBVIOUS
  <2>8. PICK market, market2 : /\ market = BindMarket(closed.candidate, odds, [BTC |-> price, ETH |-> price])
                               /\ market2 = BindMarket(closed.candidate, odds, [BTC |-> early, ETH |-> early])
    OBVIOUS
  <2>9. PICK s, t : s = ReplaySignal(market2, at, past, options) /\ t = ReplaySignal(market, at, candles, options)
    OBVIOUS
  <2>10. b = Result(s, closed.resolved, blind)
    BY <1>3, <2>3, <2>4, <2>5, <2>6, <2>7, <2>8, <2>9, Zenon DEF ClosedResult
  <2>11. r = Result(t, closed.resolved, run)
    BY <1>2, <2>2, <2>4, <2>5, <2>6, <2>7, <2>8, <2>9, Zenon DEF ClosedResult
  <2>12. b.signal = s /\ r.signal = t
    BY <2>10, <2>11, ResultIs
  <2>13. PICK then : then = OptionsAt(options, at)
    OBVIOUS
  <2>14. s.time = at
    <3>1. IsSignalOf(s, market2, at, then)
      BY <2>9, <2>13, ReplaySignalIs
    <3>2. QED
      BY <3>1, Zenon DEF IsSignalOf
  <2>15. ASSUME at = seen PROVE s = t
    <3>1. early = price
      BY <1>2, <2>7, <2>15, BlindSignal
    <3>2. market2 = market
      BY <2>8, <3>1, Zenon
    <3>3. QED
      BY <1>2, <2>9, <2>15, <3>2, BlindSignal
  <2>16. QED
    BY <1>1, <2>12, <2>14, <2>15 DEF SameByThen
<1>6. QED
  BY <1>4, <1>5

LEMMA SignalsAreOfTheirTime ==
  ASSUME NEW run, IsReplayRun(run)
  PROVE  SignalsIgnoreLaterCandles(run, RunSignalReplay(run).results)
<1>1. PICK n \in Nat, k \in Nat : HasMarkets(run, n, k)
  BY DEF IsReplayRun
<1>2. PICK N \in Nat : N = n + k
  OBVIOUS
<1>3. PICK all : all = AllResults(run)
  OBVIOUS
<1>4. AreResults(all, run, n, N)
  BY <1>1, <1>2, <1>3, AllIs
<1>5. PICK R : /\ DOMAIN all = 1 .. N /\ Len(all) = N /\ all \in Seq(R)
               /\ \A i \in 1 .. N : all[i] = ResultAt(run, n, i)
  BY <1>4, Zenon DEF AreResults
<1>6. PICK P : P = InWindow(all, run)
  OBVIOUS
<1>7. P \in SUBSET (1 .. N)
  BY <1>5, <1>6 DEF InWindow
<1>8. PICK results : results = Kept(all, P)
  OBVIOUS
<1>9. RunSignalReplay(run).results = results
  BY <1>3, <1>6, <1>8 DEF RunSignalReplay, AllResults, WithMetrics
<1>10. PICK q \in Nat : \E at : IsKept(results, all, P, q, at)
  BY <1>5, <1>7, <1>8, KeptEnumerates
<1>11. PICK at : Enumerates(at, q, P) /\ results = [j \in 1 .. q |-> all[at[j]]]
  BY <1>10 DEF IsKept
<1>12. \A i \in 1 .. N : all[i].signal.time = TimeAt(run, n, i) /\ TimeAt(run, n, i) \in Int
  <2>1. SUFFICES ASSUME NEW i \in 1 .. N, NEW b, b = all[i]
                 PROVE  b.signal.time = TimeAt(run, n, i) /\ TimeAt(run, n, i) \in Int
    BY Zenon
  <2>2. b = ResultAt(run, n, i)
    BY <1>5, <2>1
  <2>3. QED
    BY <1>1, <1>2, <2>2, ResultsOfRun
<1>13. ASSUME NEW j \in DOMAIN results, NEW seen, seen = results[j].signal.time,
              NEW blind, blind = BlindRun(run, seen), NEW later, later = RunSignalReplay(blind).results
       PROVE  j \in DOMAIN later /\ later[j].signal = results[j].signal
  <2>1. PICK p \in P : p = at[j] /\ results[j] = all[p] /\ p \in 1 .. N
    BY <1>7, <1>11 DEF Enumerates
  <2>2. seen \in Int /\ seen = TimeAt(run, n, p)
    BY <1>12, <1>13, <2>1
  <2>3. /\ blind.window = run.window /\ blind.activeFailed = run.activeFailed
        /\ blind.active = run.active /\ blind.closed = run.closed
    BY <1>13, BlindIs DEF IsReplayRun
  <2>4. HasMarkets(blind, n, k)
    BY <1>1, <2>3, Zenon DEF HasMarkets
  <2>5. PICK all2 : all2 = AllResults(blind)
    OBVIOUS
  <2>6. AreResults(all2, blind, n, N)
    BY <1>2, <2>4, <2>5, AllIs
  <2>7. PICK R2 : /\ DOMAIN all2 = 1 .. N /\ Len(all2) = N /\ all2 \in Seq(R2)
                  /\ \A i \in 1 .. N : all2[i] = ResultAt(blind, n, i)
    BY <2>6, Zenon DEF AreResults
  <2>8. \A i \in 1 .. N : /\ all2[i].signal.time = TimeAt(run, n, i)
                          /\ TimeAt(run, n, i) = seen => all2[i].signal = all[i].signal
    <3>1. SUFFICES ASSUME NEW i \in 1 .. N
                   PROVE  /\ all2[i].signal.time = TimeAt(run, n, i)
                          /\ TimeAt(run, n, i) = seen => all2[i].signal = all[i].signal
      OBVIOUS
    <3>2. PICK b, r : b = ResultAt(blind, n, i) /\ r = ResultAt(run, n, i)
      OBVIOUS
    <3>3. b.signal.time = TimeAt(run, n, i) /\ (TimeAt(run, n, i) = seen => b.signal = r.signal)
      <4>1. PICK at2 : at2 = TimeAt(run, n, i)
        OBVIOUS
      <4>2. SameByThen(b, r, at2, seen)
        BY <1>1, <1>2, <1>13, <2>2, <3>2, <4>1, BlindResult
      <4>3. QED
        BY <4>1, <4>2, Zenon DEF SameByThen
    <3>4. QED
      BY <1>5, <2>7, <3>2, <3>3
  <2>9. InWindow(all2, blind) = P
    BY <1>5, <1>6, <1>12, <2>3, <2>7, <2>8 DEF InWindow
  <2>10. later = Kept(all2, P)
    BY <1>13, <2>5, <2>9 DEF RunSignalReplay, AllResults, WithMetrics
  <2>11. later = [i \in 1 .. q |-> all2[at[i]]]
    BY <1>7, <1>11, <2>7, <2>10, KeptUnique
  <2>12. j \in 1 .. q
    BY <1>11
  <2>13. later[j] = all2[p]
    BY <2>1, <2>11, <2>12
  <2>14. QED
    BY <2>1, <2>2, <2>8, <2>11, <2>12, <2>13
<1>14. SignalsIgnoreLaterCandles(run, results)
  BY <1>13, Zenon DEF SignalsIgnoreLaterCandles, BlindRun
<1>15. QED
  BY <1>9, <1>14

\* Theorem: a replay is honest, whatever its window, candles, options and markets
\* are: candles that began after a signal do not change it; its rates and sums are
\* those of bets that the market decided; and a window that ends now has no rate.
THEOREM ReplayHonest ==
  ASSUME NEW run, IsReplayRun(run)
  PROVE  ReplayIsHonest(run, RunSignalReplay(run))
<1>1. PICK n \in Nat, k \in Nat : n <= 20 /\ HasMarkets(run, n, k)
  BY DEF IsReplayRun
<1>2. PICK N \in Nat : N = n + k
  OBVIOUS
<1>3. PICK all : all = AllResults(run)
  OBVIOUS
<1>4. AreResults(all, run, n, N)
  BY <1>1, <1>2, <1>3, AllIs
<1>5. PICK R : /\ DOMAIN all = 1 .. N /\ Len(all) = N /\ all \in Seq(R)
               /\ \A i \in 1 .. N : all[i] = ResultAt(run, n, i)
  BY <1>4, Zenon DEF AreResults
<1>6. PICK P : P = InWindow(all, run)
  OBVIOUS
<1>7. P \in SUBSET (1 .. N)
  BY <1>5, <1>6 DEF InWindow
<1>8. PICK results : results = Kept(all, P)
  OBVIOUS
<1>9. RunSignalReplay(run) = WithMetrics(results)
  BY <1>3, <1>6, <1>8, Zenon DEF RunSignalReplay, AllResults
<1>10. PICK q \in Nat : \E at : IsKept(results, all, P, q, at)
  BY <1>5, <1>7, <1>8, KeptEnumerates
<1>11. PICK at : Enumerates(at, q, P) /\ results = [j \in 1 .. q |-> all[at[j]]]
  BY <1>10 DEF IsKept
<1>12. \A i \in 1 .. N : /\ IsResult(all[i], run)
                         /\ all[i].counted => i <= n
                         /\ run.window.end = run.checkedAt => ~all[i].counted
  <2>1. SUFFICES ASSUME NEW i \in 1 .. N, NEW b, b = all[i]
                 PROVE  /\ IsResult(b, run)
                        /\ b.counted => i <= n
                        /\ run.window.end = run.checkedAt => ~b.counted
    BY Zenon
  <2>2. b = ResultAt(run, n, i)
    BY <1>5, <2>1
  <2>3. QED
    BY <1>1, <1>2, <2>2, ResultsOfRun
<1>13. results \in Seq(R) /\ Len(results) = q /\ DOMAIN results = 1 .. q
  <2>1. results \in Seq(R)
    BY <1>5, <1>7, <1>8, KeptElements
  <2>2. DOMAIN results = 1 .. q
    BY <1>11
  <2>3. Len(results) \in Nat /\ DOMAIN results = 1 .. Len(results)
    BY <2>1, LenProperties
  <2>4. QED
    BY <2>1, <2>2, <2>3
<1>14. \A j \in 1 .. q : at[j] \in 1 .. N /\ results[j] = all[at[j]]
  BY <1>7, <1>11 DEF Enumerates
<1>15. PICK C : C = Counted(results)
  OBVIOUS
<1>16. IsFiniteSet(C) /\ C \in SUBSET (1 .. q)
  BY <1>13, <1>15, FS_Interval, FS_Subset DEF Counted
<1>17. Cardinality(C) <= 20
  <2>1. PICK D : D = {at[j] : j \in C}
    OBVIOUS
  <2>2. D \in SUBSET (1 .. n)
    <3>1. ASSUME NEW j \in C PROVE at[j] \in 1 .. n
      <4>1. j \in 1 .. q /\ results[j].counted
        BY <1>13, <1>15 DEF Counted
      <4>2. PICK i \in 1 .. N : i = at[j] /\ all[i].counted
        BY <1>14, <4>1
      <4>3. i <= n
        BY <1>12, <4>2
      <4>4. QED
        BY <4>2, <4>3
    <3>2. QED
      BY <2>1, <3>1
  <2>3. PICK back : back = [i \in D |-> CHOOSE j \in C : at[j] = i]
    OBVIOUS
  <2>4. \A j \in C : back[at[j]] = j
    <3>1. SUFFICES ASSUME NEW j \in C PROVE back[at[j]] = j
      OBVIOUS
    <3>2. at[j] \in D
      BY <2>1
    <3>3. PICK l : l = back[at[j]] /\ l \in C /\ at[l] = at[j]
      BY <2>3, <3>2
    <3>4. \A g, h \in 1 .. q : g < h => at[g] < at[h]
      BY <1>11 DEF Enumerates
    <3>5. j \in 1 .. q /\ l \in 1 .. q /\ at[j] \in Int
      BY <1>14, <1>16, <3>3
    <3>6. l = j
      BY <3>3, <3>4, <3>5
    <3>7. QED
      BY <3>3, <3>6
  <2>5. IsFiniteSet(1 .. n) /\ Cardinality(1 .. n) = n
    BY FS_Interval
  <2>6. IsFiniteSet(D) /\ Cardinality(D) <= n /\ Cardinality(D) \in Nat
    BY <2>2, <2>5, FS_Subset, FS_CardinalityType
  <2>7. {back[i] : i \in D} = C
    BY <2>1, <2>4
  <2>8. Cardinality(C) <= Cardinality(D)
    BY <2>6, <2>7, ImageIsFinite
  <2>9. Cardinality(C) \in Nat
    BY <1>16, FS_CardinalityType
  <2>10. QED
    BY <1>1, <2>6, <2>8, <2>9
<1>18. \A j \in 1 .. Len(results) : IsResult(results[j], run)
  <2>1. \A j \in 1 .. q : IsResult(results[j], run)
    <3>1. SUFFICES ASSUME NEW j \in 1 .. q PROVE IsResult(results[j], run)
      OBVIOUS
    <3>2. PICK i \in 1 .. N : i = at[j] /\ results[j] = all[i]
      BY <1>14
    <3>3. QED
      BY <1>12, <3>2, Zenon
  <2>2. QED
    BY <1>13, <2>1, Zenon
<1>19. Cardinality(Counted(results)) <= 20
  BY <1>15, <1>17, Zenon
<1>20. ReplayAddsUp(run, WithMetrics(results))
  BY <1>13, <1>18, <1>19, SoundResultsAddUp
<1>21. NoRateIsMadeUp(run, WithMetrics(results))
  <2>1. ASSUME run.window.end = run.checkedAt PROVE WithMetrics(results).metrics.winRate = Null
    <3>1. C = {}
      BY <1>12, <1>13, <1>14, <1>15, <2>1 DEF Counted
    <3>2. PICK r : r = WithMetrics(results)
      OBVIOUS
    <3>3. r.metrics = ReplayMetrics(results)
      BY <3>2 DEF WithMetrics
    <3>4. PICK m : m = ReplayMetrics(results)
      OBVIOUS
    <3>5. m.sampleCount = Cardinality(Counted(results))
      BY <3>4, MetricsAre
    <3>6. m.sampleCount = 0
      BY <1>15, <3>1, <3>5, FS_EmptySet
    <3>7. (m.winRate = Null) = (m.sampleCount = 0)
      BY <1>20, <3>2, <3>3, <3>4, Zenon DEF ReplayAddsUp
    <3>8. QED
      BY <3>2, <3>3, <3>4, <3>6, <3>7
  <2>2. QED
    BY <2>1 DEF NoRateIsMadeUp
<1>22. SignalsIgnoreLaterCandles(run, RunSignalReplay(run).results)
  BY SignalsAreOfTheirTime
<1>23. QED
  BY <1>9, <1>20, <1>21, <1>22, Zenon DEF ReplayIsHonest

-----------------------------------------------------------------------------
(* Polymarket's lists, and the odds of the past.                             *)
\* As many elements as are asked for, if there are so many.
LEMMA FirstRowsAre ==
  ASSUME NEW S, NEW s \in Seq(S), NEW n \in Nat
  PROVE  /\ FirstRows(s, n) \in Seq(S) /\ Len(FirstRows(s, n)) \in Nat
         /\ Len(FirstRows(s, n)) = IF n <= Len(s) THEN n ELSE Len(s)
         /\ \A i \in 1 .. Len(FirstRows(s, n)) : i \in 1 .. Len(s) /\ FirstRows(s, n)[i] = s[i]
         /\ Len(s) <= n => FirstRows(s, n) = s
<1>1. Len(s) \in Nat /\ \A i \in 1 .. Len(s) : s[i] \in S
  BY LenProperties
<1>2. PICK m \in Nat : m = Min({n, Len(s)})
  BY <1>1, MinOfTwo
<1>3. m = IF n <= Len(s) THEN n ELSE Len(s)
  BY <1>1, <1>2, MinOfTwo
<1>4. FirstRows(s, n) = SubSeq(s, 1, m)
  BY <1>2, Zenon DEF FirstRows
<1>5. FirstRows(s, n) = [i \in 1 .. m |-> s[i]]
  BY <1>4
<1>6. [i \in 1 .. m |-> s[i]] \in [1 .. m -> S]
  BY <1>1, <1>3
<1>7. FirstRows(s, n) \in Seq(S) /\ Len(FirstRows(s, n)) = m
  BY <1>5, <1>6
<1>8. \A i \in 1 .. m : i \in 1 .. Len(s) /\ FirstRows(s, n)[i] = s[i]
  BY <1>1, <1>3, <1>5
<1>9. ASSUME Len(s) <= n PROVE FirstRows(s, n) = s
  <2>1. m = Len(s)
    BY <1>1, <1>3, <1>9
  <2>2. s = [i \in 1 .. m |-> s[i]]
    BY <2>1
  <2>3. QED
    BY <1>5, <2>2, Zenon
<1>10. QED
  BY <1>3, <1>7, <1>8, <1>9

\* A reply of Gamma's, whose rows are markets of M.
IsGammaReply(reply, M) == reply.kind = "answer" => reply.rows \in Seq(M)

LEMMA GammaMarketsAre ==
  ASSUME NEW M, NEW reply, IsGammaReply(reply, M), NEW limit \in Nat
  PROVE  GammaMarkets(reply, limit) \in Seq(M) /\ Len(GammaMarkets(reply, limit)) <= 100
<1>1. CASE reply.kind = "answer"
  <2>1. PICK n \in Nat : n = Min({100, 3 * limit})
    BY MinOfTwo
  <2>2. n <= 100
    BY <2>1, MinOfTwo
  <2>3. reply.rows \in Seq(M)
    BY <1>1 DEF IsGammaReply
  <2>4. GammaMarkets(reply, limit) = FirstRows(reply.rows, n)
    BY <1>1, <2>1, Zenon DEF GammaMarkets
  <2>5. Len(reply.rows) \in Nat
    BY <2>3
  <2>6. /\ FirstRows(reply.rows, n) \in Seq(M)
        /\ Len(FirstRows(reply.rows, n)) = IF n <= Len(reply.rows) THEN n ELSE Len(reply.rows)
    BY <2>3, FirstRowsAre
  <2>7. QED
    BY <2>2, <2>4, <2>5, <2>6
<1>2. CASE reply.kind # "answer"
  <2>1. GammaMarkets(reply, limit) = <<>>
    BY <1>2, Zenon DEF GammaMarkets
  <2>2. QED
    BY <2>1
<1>3. QED
  BY <1>1, <1>2

LEMMA CountOfPlaces ==
  ASSUME NEW N \in Nat, NEW P \in SUBSET (1 .. N)
  PROVE  IsFiniteSet(P) /\ Cardinality(P) \in Nat /\ Cardinality(P) <= N
<1>1. IsFiniteSet(1 .. N) /\ Cardinality(1 .. N) = N
  BY FS_Interval
<1>2. QED
  BY <1>1, FS_Subset, FS_CardinalityType

LEMMA TitledAre ==
  ASSUME NEW M, NEW markets \in Seq(M)
  PROVE  Titled(markets) \in Seq(M) /\ Len(Titled(markets)) <= Len(markets)
<1>1. Len(markets) \in Nat /\ DOMAIN markets = 1 .. Len(markets)
  BY LenProperties
<1>2. PICK P : P = {i \in 1 .. Len(markets) : markets[i].titled}
  OBVIOUS
<1>3. Titled(markets) = Kept(markets, P)
  BY <1>1, <1>2, Zenon DEF Titled
<1>4. P \in SUBSET (1 .. Len(markets))
  BY <1>2
<1>5. Kept(markets, P) \in Seq(M) /\ Len(Kept(markets, P)) = Cardinality(P)
  BY <1>4, KeptElements
<1>7. Cardinality(P) <= Len(markets)
  BY <1>1, <1>4, CountOfPlaces
<1>8. QED
  BY <1>3, <1>5, <1>7

\* The closed markets that are due within a window.
LEMMA ClosedAre ==
  ASSUME NEW M, NEW reply, IsGammaReply(reply, M), NEW symbol, NEW window,
         NEW page, page = Titled(GammaMarkets(reply, 100)),
         NEW found, found = FoundClosed(page), NEW P, P = {i \in DOMAIN found : DueWithin(found[i], symbol, window)}
  PROVE  /\ FetchClosedMarkets(reply, symbol, 100, window) = Kept(found, P)
         /\ \E Found : found \in Seq(Found)
         /\ \A i \in 1 .. Len(found) : \E market \in M : found[i].candidate = MapGammaMarket(market)
<1>1. GammaMarkets(reply, 100) \in Seq(M) /\ Len(GammaMarkets(reply, 100)) <= 100
  BY GammaMarketsAre
<1>2. PICK listed : listed = GammaMarkets(reply, 100)
  OBVIOUS
<1>3. page \in Seq(M) /\ Len(page) <= 100
  <2>1. listed \in Seq(M) /\ Len(listed) <= 100 /\ Len(listed) \in Nat
    BY <1>1, <1>2
  <2>2. Titled(listed) \in Seq(M) /\ Len(Titled(listed)) <= Len(listed)
    BY <2>1, TitledAre
  <2>3. page \in Seq(M) /\ Len(page) <= Len(listed)
    BY <1>2, <2>2
  <2>4. Len(page) \in Nat
    BY <2>3
  <2>5. QED
    BY <2>1, <2>3, <2>4
<1>4. PICK N \in Nat : N = Len(page)
  BY <1>3
<1>5. DOMAIN page = 1 .. N /\ N <= 100
  BY <1>3, <1>4
<1>6. PICK Found : Found = {found[i] : i \in 1 .. N}
  OBVIOUS
<1>7. found \in Seq(Found) /\ Len(found) = N /\ DOMAIN found = 1 .. N
  <2>1. DOMAIN found = 1 .. N /\ found = [i \in 1 .. N |-> found[i]]
    BY <1>5 DEF FoundClosed
  <2>2. found \in [1 .. N -> Found]
    BY <1>6, <2>1
  <2>3. QED
    BY <2>1, <2>2
<1>8. P \in SUBSET (1 .. Len(found))
  BY <1>7
<1>9. Kept(found, P) \in Seq(Found) /\ Len(Kept(found, P)) = Cardinality(P)
  BY <1>7, <1>8, KeptElements
<1>10. Cardinality(P) <= N
  BY <1>7, <1>8, CountOfPlaces
<1>11. FirstRows(Kept(found, P), 100) = Kept(found, P)
  <2>1. PICK due : due = Kept(found, P)
    OBVIOUS
  <2>2. due \in Seq(Found) /\ Len(due) = Cardinality(P) /\ Len(due) \in Nat
    BY <1>9, <2>1
  <2>3. Len(due) <= 100
    BY <1>5, <1>10, <2>2
  <2>4. FirstRows(due, 100) = due
    BY <2>2, <2>3, FirstRowsAre
  <2>5. QED
    BY <2>1, <2>4
<1>12. FetchClosedMarkets(reply, symbol, 100, window) = FirstRows(Kept(found, P), 100)
  <2>1. FetchClosedMarkets(reply, symbol, 100, window) =
          FirstRows(Kept(found, {i \in DOMAIN found : DueWithin(found[i], symbol, window)}), 100)
    BY Zenon DEF FetchClosedMarkets
  <2>2. QED
    BY <2>1, Zenon
<1>13. ASSUME NEW i \in 1 .. Len(found)
       PROVE  \E market \in M : found[i].candidate = MapGammaMarket(market)
  <2>1. page[i] \in M
    BY <1>3, <1>4, <1>7
  <2>2. found[i] = [candidate |-> MapGammaMarket(page[i]), resolved |-> ResolvedOutcome(page[i])]
    BY <1>5, <1>7 DEF FoundClosed
  <2>3. found[i].candidate = MapGammaMarket(page[i])
    BY <2>2
  <2>4. QED
    BY <2>1, <2>3
<1>14. QED
  BY <1>7, <1>11, <1>12, <1>13

\* Theorem: the closed markets of a part of a window are those of the window
\* that ended in it, whatever Gamma answers: a page has at most a hundred, so
\* that none is cut off.
THEOREM ClosedNest ==
  ASSUME NEW M, \A market \in M : market.ends \in Int,
         NEW reply, IsGammaReply(reply, M), NEW symbol, NEW window, NEW part,
         window.start \in Int, window.end \in Int, part.start \in Int, part.end \in Int,
         window.start <= part.start, part.end <= window.end
  PROVE  ClosedWindowsNest(reply, symbol, window, part)
<1>1. PICK page : page = Titled(GammaMarkets(reply, 100))
  OBVIOUS
<1>2. PICK found : found = FoundClosed(page)
  OBVIOUS
<1>3. PICK P, Q : /\ P = {i \in DOMAIN found : DueWithin(found[i], symbol, window)}
                  /\ Q = {i \in DOMAIN found : DueWithin(found[i], symbol, part)}
  OBVIOUS
<1>4. PICK all, some : /\ all = FetchClosedMarkets(reply, symbol, 100, window)
                       /\ some = FetchClosedMarkets(reply, symbol, 100, part)
  OBVIOUS
<1>5. /\ all = Kept(found, P) /\ \E Found : found \in Seq(Found)
      /\ \A i \in 1 .. Len(found) : \E market \in M : found[i].candidate = MapGammaMarket(market)
  BY <1>1, <1>2, <1>3, <1>4, ClosedAre
<1>6. some = Kept(found, Q)
  BY <1>1, <1>2, <1>3, <1>4, ClosedAre
<1>7. PICK Found : found \in Seq(Found)
  BY <1>5
<1>8. DOMAIN found = 1 .. Len(found) /\ Len(found) \in Nat /\ P \in SUBSET (1 .. Len(found))
  BY <1>3, <1>7, LenProperties
<1>9. \A i \in 1 .. Len(found) : found[i].candidate.ends \in Int
  <2>1. \A market \in M : MapGammaMarket(market).ends = market.ends
    BY DEF MapGammaMarket
  <2>2. QED
    BY <1>5, <2>1
<1>10. PICK V : V = {m \in Found : m.candidate.ends >= part.start /\ m.candidate.ends <= part.end}
  OBVIOUS
<1>11. PICK R : R = {i \in DOMAIN all : all[i].candidate.ends >= part.start /\ all[i].candidate.ends <= part.end}
  OBVIOUS
<1>12. all \in Seq(Found) /\ DOMAIN all = 1 .. Len(all) /\ \A i \in 1 .. Len(all) : all[i] \in Found
  <2>1. Kept(found, P) \in Seq(Found)
    BY <1>7, <1>8, KeptElements
  <2>2. QED
    BY <1>5, <2>1, LenProperties
<1>13. Selects(R, all, 1 .. Len(all), V)
  BY <1>10, <1>11, <1>12 DEF Selects
<1>14. Selects(Q, found, P, V)
  <2>1. ASSUME NEW i \in 1 .. Len(found)
        PROVE  i \in Q <=> i \in P /\ found[i] \in V
    <3>1. found[i] \in Found
      BY <1>7, <1>8, <2>1
    <3>2. PICK ends \in Int : ends = found[i].candidate.ends
      BY <1>9, <2>1
    <3>3. i \in P <=> NamesAsset(found[i].candidate, symbol) /\ ends # Null
                       /\ ends >= window.start /\ ends <= window.end
      BY <1>3, <1>8, <3>2 DEF DueWithin
    <3>4. i \in Q <=> NamesAsset(found[i].candidate, symbol) /\ ends # Null
                       /\ ends >= part.start /\ ends <= part.end
      BY <1>3, <1>8, <3>2 DEF DueWithin
    <3>5. found[i] \in V <=> ends >= part.start /\ ends <= part.end
      BY <1>10, <3>1, <3>2
    <3>6. QED
      BY <3>3, <3>4, <3>5
  <2>2. Q \subseteq 1 .. Len(found) /\ P \subseteq 1 .. Len(found)
    BY <1>3, <1>8
  <2>3. Q = {i \in P : found[i] \in V}
    BY <2>1, <2>2
  <2>4. QED
    BY <2>3 DEF Selects
<1>15. Kept(all, R) = Kept(found, Q)
  BY <1>5, <1>7, <1>8, <1>13, <1>14, KeptOfKept
<1>16. some = Kept(all, R)
  BY <1>6, <1>15
<1>17. QED
  BY <1>4, <1>11, <1>16, Zenon DEF ClosedWindowsNest

\* Points of a history, each with its price or without.
PointsInTime == [time : Int, price : Int]

\* Theorem: whatever the history answers and in whatever order, the odds of the
\* past are those of its latest point by then, and there are none if it has no
\* such point or one of its rows does not parse.
THEOREM HistoryWhole ==
  ASSUME NEW reply, reply.kind = "answer" => reply.rows \in Seq(PointsInTime), NEW when \in Int
  PROVE  HistoryIsWhole(reply, when)
<1>1. PICK h : h = FetchPriceHistory(reply)
  OBVIOUS
<1>2. PICK rows : rows = IF reply.kind = "answer" THEN reply.rows ELSE <<>>
  OBVIOUS
<1>3. PICK parsed :
        parsed = IF \E i \in DOMAIN rows : Null \in {rows[i].time, rows[i].price} THEN <<>> ELSE rows
  OBVIOUS
<1>4. h = [history |-> Arranged(parsed, [i \in DOMAIN parsed |-> parsed[i].time]), failed |-> parsed = <<>>]
  BY <1>1, <1>2, <1>3, Zenon DEF FetchPriceHistory
<1>5. parsed \in Seq(PointsInTime)
  BY <1>2, <1>3
<1>6. PICK N \in Nat : N = Len(parsed)
  BY <1>5
<1>7. DOMAIN parsed = 1 .. N /\ \A i \in 1 .. N : parsed[i].time \in Int /\ parsed[i].price \in Int
  <2>1. DOMAIN parsed = 1 .. N /\ \A i \in 1 .. N : parsed[i] \in PointsInTime
    BY <1>5, <1>6, LenProperties
  <2>2. \A p \in PointsInTime : p.time \in Int /\ p.price \in Int
    BY DEF PointsInTime
  <2>3. QED
    BY <2>1, <2>2
<1>8. PICK key : key = [i \in 1 .. N |-> parsed[i].time]
  OBVIOUS
<1>9. PICK history : history = Arranged(parsed, key)
  OBVIOUS
<1>10. h.history = history /\ h.failed = (parsed = <<>>)
  <2>1. h = [history |-> history, failed |-> parsed = <<>>]
    BY <1>4, <1>7, <1>8, <1>9, Zenon
  <2>2. QED
    BY <2>1
<1>11. PICK n \in Nat : \E at \in [1 .. n -> 1 .. N] : Lists(history, parsed, 1 .. N, key, n, at)
  <2>1. IsFiniteSet(1 .. N) /\ 1 .. N \subseteq Int /\ key \in [1 .. N -> Int]
    BY <1>7, <1>8, FS_Interval
  <2>2. PICK P : P = 1 .. N
    OBVIOUS
  <2>3. \E m \in Nat : \E bt \in [1 .. m -> P] : Lists(history, parsed, P, key, m, bt)
    BY <1>9, <2>1, <2>2, ArrangedIs
  <2>4. QED
    BY <2>2, <2>3
<1>11b. PICK at \in [1 .. n -> 1 .. N] : Lists(history, parsed, 1 .. N, key, n, at)
  BY <1>11
<1>12. /\ history = [k \in 1 .. n |-> parsed[at[k]]]
       /\ \A i \in 1 .. N : \E k \in 1 .. n : at[k] = i
  BY <1>11b DEF Lists
<1>13. history \in Seq(PointsInTime) /\ Len(history) = n /\ DOMAIN history = 1 .. n
  <2>1. \A k \in 1 .. n : parsed[at[k]] \in PointsInTime
    BY <1>5, <1>6, <1>7
  <2>2. history \in [1 .. n -> PointsInTime]
    BY <1>12, <2>1
  <2>3. QED
    BY <2>2
<1>14. PICK P : P = {i \in 1 .. n : history[i].time <= when}
  OBVIOUS
<1>15. PICK past : past = Kept(history, P)
  OBVIOUS
<1>16. PICK price : price = HistoryPrice(history, when)
  OBVIOUS
<1>17. price = IF past = <<>> THEN Null ELSE past[Latest(past)].price
  BY <1>13, <1>14, <1>15, <1>16, Zenon DEF HistoryPrice, UpTo
<1>18. /\ past \in Seq(PointsInTime) /\ (past = <<>> <=> P = {})
       /\ \A k \in 1 .. Len(past) : \E i \in P : past[k] = history[i]
       /\ \A i \in P : \E k \in 1 .. Len(past) : past[k] = history[i]
  <2>1. P \in SUBSET (1 .. Len(history))
    BY <1>13, <1>14
  <2>2. /\ Kept(history, P) \in Seq(PointsInTime)
        /\ \A k \in 1 .. Len(Kept(history, P)) : \E i \in P : Kept(history, P)[k] = history[i]
        /\ \A i \in P : \E k \in 1 .. Len(Kept(history, P)) : Kept(history, P)[k] = history[i]
        /\ Kept(history, P) = <<>> <=> P = {}
    <3>1. PICK T : T = PointsInTime
      OBVIOUS
    <3>2. history \in Seq(T) /\ P \in SUBSET (1 .. Len(history))
      BY <1>13, <2>1, <3>1
    <3>3. Kept(history, P) \in Seq(T)
      BY <3>2, KeptElements
    <3>4. \A k \in 1 .. Len(Kept(history, P)) : \E i \in P : Kept(history, P)[k] = history[i]
      BY <3>2, KeptElements
    <3>5. \A i \in P : \E k \in 1 .. Len(Kept(history, P)) : Kept(history, P)[k] = history[i]
      BY SMTT(40), <3>2, KeptElements
    <3>6. Kept(history, P) = <<>> <=> P = {}
      BY <3>2, KeptElements
    <3>7. QED
      BY <3>1, <3>3, <3>4, <3>5, <3>6, Zenon
  <2>3. QED
    BY <1>15, <2>2, Zenon
<1>19. ASSUME parsed = <<>> PROVE price = Null
  <2>1. N = 0
    BY <1>6, <1>19
  <2>2. P = {}
    BY <1>13, <1>14, <2>1
  <2>3. QED
    BY <1>17, <1>18, <2>2
<1>20. ASSUME parsed # <<>>
       PROVE  LET before == {i \in DOMAIN reply.rows : reply.rows[i].time <= when} IN
              /\ (before = {}) = (price = Null)
              /\ before # {} => \E i \in before : /\ price = reply.rows[i].price
                                                 /\ \A j \in before : reply.rows[j].time <= reply.rows[i].time
  <2>1. rows = reply.rows /\ parsed = rows /\ \A i \in DOMAIN rows : rows[i].price # Null
    BY <1>2, <1>3, <1>20
  <2>2. PICK before : before = {i \in 1 .. N : parsed[i].time <= when}
    OBVIOUS
  <2>3. ASSUME NEW i \in before PROVE \E k \in P : history[k] = parsed[i]
    BY <1>12, <1>14, <2>2
  <2>4. ASSUME NEW k \in P PROVE \E i \in before : history[k] = parsed[i]
    BY <1>12, <1>14, <2>2
  <2>5. before = {} <=> P = {}
    BY <2>3, <2>4
  <2>6. ASSUME P # {}
        PROVE  \E i \in before : price = parsed[i].price /\ \A j \in before : parsed[j].time <= parsed[i].time
    <3>1. PICK L \in Nat : L = Len(past)
      BY <1>18
    <3>2. L # 0 /\ DOMAIN past = 1 .. L /\ \A i \in 1 .. L : past[i].time \in Int
      <4>1. \A p \in PointsInTime : p.time \in Int
        BY DEF PointsInTime
      <4>2. DOMAIN past = 1 .. L /\ \A i \in 1 .. L : past[i] \in PointsInTime
        BY <1>18, <3>1, LenProperties
      <4>3. L # 0
        BY <1>18, <2>6, <3>1
      <4>4. QED
        BY <4>1, <4>2, <4>3
    <3>3. /\ Latest(past) \in 1 .. L
          /\ \A j \in 1 .. L : \/ past[j].time < past[Latest(past)].time
                               \/ /\ past[j].time = past[Latest(past)].time
                                  /\ Latest(past) <= j
      BY <3>1, <3>2, LatestExists
    <3>4. PICK last \in 1 .. L : last = Latest(past)
      BY <3>3
    <3>5. price = past[last].price /\ \A j \in 1 .. L : past[j].time <= past[last].time
      <4>1. past # <<>>
        BY <1>18, <2>6
      <4>2. price = past[last].price
        BY <1>17, <3>4, <4>1
      <4>3. \A j \in 1 .. L : past[j].time < past[last].time \/ past[j].time = past[last].time
        BY <3>3, <3>4, Zenon
      <4>4. QED
        BY <3>2, <3>4, <4>2, <4>3
    <3>6. PICK i \in before : past[last] = parsed[i]
      BY <1>18, <2>4, <3>1, <3>4
    <3>7. ASSUME NEW j \in before PROVE parsed[j].time <= parsed[i].time
      <4>1. PICK m \in 1 .. L : past[m] = parsed[j]
        BY <1>18, <2>3, <3>1
      <4>2. QED
        BY <3>5, <3>6, <4>1
    <3>8. QED
      BY <3>5, <3>6, <3>7
  <2>7. price = Null <=> before = {}
    <3>1. ASSUME P # {} PROVE price # Null
      BY <1>7, <2>1, <2>2, <2>6, <3>1
    <3>2. QED
      BY <1>17, <1>18, <2>5, <3>1
  <2>8. before = {i \in DOMAIN reply.rows : reply.rows[i].time <= when}
    BY <1>7, <2>1, <2>2
  <2>9. /\ (before = {}) = (price = Null)
        /\ before # {} => \E i \in before : /\ price = reply.rows[i].price
                                           /\ \A j \in before : reply.rows[j].time <= reply.rows[i].time
    BY <2>1, <2>5, <2>6, <2>7
  <2>10. QED
    BY <2>8, <2>9, Zenon
<1>21. QED
  BY <1>1, <1>10, <1>16, <1>19, <1>20, Zenon DEF HistoryIsWhole

-----------------------------------------------------------------------------
(* Markets that are discovered.                                              *)

\* An element is no later among those that are kept than it was.
LEMMA KeptNoLater ==
  ASSUME NEW S, NEW s \in Seq(S), NEW P \in SUBSET (1 .. Len(s)), NEW i \in P
  PROVE  \E k \in 1 .. Len(Kept(s, P)) : k <= i /\ Kept(s, P)[k] = s[i]
<1>1. PICK n \in Nat : \E at : IsKept(Kept(s, P), s, P, n, at)
  BY KeptEnumerates
<1>2. PICK at : IsKept(Kept(s, P), s, P, n, at)
  BY <1>1
<1>3. /\ Enumerates(at, n, P) /\ Kept(s, P) = [k \in 1 .. n |-> s[at[k]]]
  BY <1>2 DEF IsKept
<1>4. Len(s) \in Nat /\ P \in SUBSET Int
  OBVIOUS
<1>5. /\ \A k \in 1 .. n : at[k] \in P /\ at[k] \in Int
      /\ \A j \in P : \E k \in 1 .. n : at[k] = j
      /\ \A k, l \in 1 .. n : k < l => at[k] < at[l]
  BY <1>3, <1>4, EnumerationIs
<1>6. PICK K : K = {k \in 0 .. n : k = 0 \/ k <= at[k]}
  OBVIOUS
<1>7. ASSUME NEW k \in 0 .. n - 1, k \in K PROVE k + 1 \in K
  <2>1. k + 1 \in 1 .. n /\ at[k + 1] \in P
    BY <1>5
  <2>2. PICK next \in 1 .. Len(s) : next = at[k + 1]
    BY <2>1
  <2>3. k = 0 \/ (k \in 1 .. n /\ at[k] \in Int /\ k <= at[k] /\ at[k] < next)
    BY <1>5, <1>6, <1>7, <2>1, <2>2
  <2>4. k + 1 <= next
    BY <2>2, <2>3
  <2>5. QED
    BY <1>6, <2>1, <2>2, <2>4
<1>8. 0 .. n \subseteq K
  <2>1. 0 \in K
    BY <1>6
  <2>2. QED
    BY <1>7, <2>1, CountUp
<1>9. PICK k \in 1 .. n : at[k] = i
  BY <1>5
<1>10. k <= at[k]
  BY <1>6, <1>8
<1>11. Len(Kept(s, P)) = n /\ Kept(s, P)[k] = s[i]
  BY <1>3, <1>9
<1>12. QED
  BY <1>9, <1>10, <1>11

\* Different places of what is kept are those of different positions.
LEMMA KeptApart ==
  ASSUME NEW S, NEW s \in Seq(S), NEW P \in SUBSET (1 .. Len(s)),
         NEW k \in 1 .. Len(Kept(s, P)), NEW l \in 1 .. Len(Kept(s, P)), k # l
  PROVE  \E i, j \in P : i # j /\ Kept(s, P)[k] = s[i] /\ Kept(s, P)[l] = s[j]
<1>1. PICK n \in Nat : \E at : IsKept(Kept(s, P), s, P, n, at)
  BY KeptEnumerates
<1>2. PICK at : IsKept(Kept(s, P), s, P, n, at)
  BY <1>1
<1>3. Enumerates(at, n, P) /\ Kept(s, P) = [m \in 1 .. n |-> s[at[m]]]
  BY <1>2 DEF IsKept
<1>4. /\ \A m \in 1 .. n : at[m] \in P /\ at[m] \in Int
      /\ \A m, o \in 1 .. n : m < o => at[m] < at[o]
  BY <1>3, EnumerationIs
<1>5. k \in 1 .. n /\ l \in 1 .. n /\ Kept(s, P)[k] = s[at[k]] /\ Kept(s, P)[l] = s[at[l]]
  BY <1>3
<1>6. at[k] # at[l]
  BY <1>4, <1>5
<1>7. QED
  BY <1>4, <1>5, <1>6

\* A list of candidates made of markets of M.
CandidatesOf(M) == {MapGammaMarket(market) : market \in M}

LEMMA CandidatesAre ==
  ASSUME NEW M, NEW markets \in Seq(M)
  PROVE  Candidates(markets) \in Seq(CandidatesOf(M))
<1>1. PICK titled : titled = Titled(markets)
  OBVIOUS
<1>2. titled \in Seq(M)
  BY <1>1, TitledAre
<1>3. PICK n \in Nat : n = Len(titled) /\ DOMAIN titled = 1 .. n /\ \A i \in 1 .. n : titled[i] \in M
  BY <1>2, LenProperties
<1>4. Candidates(markets) = [i \in 1 .. n |-> MapGammaMarket(titled[i])]
  <2>1. Candidates(markets) = [i \in DOMAIN titled |-> MapGammaMarket(titled[i])]
    BY <1>1, Zenon DEF Candidates
  <2>2. QED
    BY <1>3, <2>1
<1>5. \A i \in 1 .. n : MapGammaMarket(titled[i]) \in CandidatesOf(M)
  BY <1>3 DEF CandidatesOf
<1>6. [i \in 1 .. n |-> MapGammaMarket(titled[i])] \in [1 .. n -> CandidatesOf(M)]
  BY <1>5
<1>7. QED
  BY <1>4, <1>6

\* What is kept of candidates: those at the positions P of the list, none later
\* than it was.
IsPartOf(part, list, P) ==
  /\ P \in SUBSET (1 .. Len(list)) /\ Len(part) \in Nat
  /\ \A k \in 1 .. Len(part) : \E i \in P : part[k] = list[i]
  /\ \A i \in P : \E k \in 1 .. Len(part) : k <= i /\ part[k] = list[i]
  /\ \A k, l \in 1 .. Len(part) : k # l => \E i, j \in P : i # j /\ part[k] = list[i] /\ part[l] = list[j]

LEMMA KeptIsPart ==
  ASSUME NEW S, NEW list \in Seq(S), NEW P \in SUBSET (1 .. Len(list))
  PROVE  Kept(list, P) \in Seq(S) /\ IsPartOf(Kept(list, P), list, P)
<1>1. Kept(list, P) \in Seq(S)
  BY KeptElements
<1>2. Len(Kept(list, P)) \in Nat
  BY <1>1
<1>3. \A k \in 1 .. Len(Kept(list, P)) : \E i \in P : Kept(list, P)[k] = list[i]
  BY KeptElements
<1>4. \A i \in P : \E k \in 1 .. Len(Kept(list, P)) : k <= i /\ Kept(list, P)[k] = list[i]
  BY KeptNoLater
<1>5. \A k, l \in 1 .. Len(Kept(list, P)) : k # l =>
        \E i, j \in P : i # j /\ Kept(list, P)[k] = list[i] /\ Kept(list, P)[l] = list[j]
  BY KeptApart
<1>6. QED
  BY <1>1, <1>2, <1>3, <1>4, <1>5, Zenon DEF IsPartOf

LEMMA FilteredAre ==
  ASSUME NEW S, NEW list \in Seq(S), NEW symbol
  PROVE  /\ FilterCryptoCandidates(list, symbol) = Kept(list, {i \in 1 .. Len(list) : NamesAsset(list[i], symbol)})
         /\ FilterCryptoCandidates(list, symbol) \in Seq(S)
         /\ IsPartOf(FilterCryptoCandidates(list, symbol), list, {i \in 1 .. Len(list) : NamesAsset(list[i], symbol)})
<1>1. PICK P : P = {i \in 1 .. Len(list) : NamesAsset(list[i], symbol)}
  OBVIOUS
<1>2. DOMAIN list = 1 .. Len(list)
  BY LenProperties
<1>3. FilterCryptoCandidates(list, symbol) = Kept(list, P)
  BY <1>1, <1>2, Zenon DEF FilterCryptoCandidates
<1>4. P \in SUBSET (1 .. Len(list))
  BY <1>1
<1>5. Kept(list, P) \in Seq(S) /\ IsPartOf(Kept(list, P), list, P)
  BY <1>4, KeptIsPart
<1>6. QED
  BY <1>1, <1>3, <1>5, Zenon

LEMMA OpenAre ==
  ASSUME NEW S, NEW list \in Seq(S)
  PROVE  /\ OpenCandidates(list) \in Seq(S)
         /\ IsPartOf(OpenCandidates(list), list, {i \in 1 .. Len(list) : IsActiveOpen(list[i])})
<1>1. PICK P : P = {i \in 1 .. Len(list) : IsActiveOpen(list[i])}
  OBVIOUS
<1>2. DOMAIN list = 1 .. Len(list)
  BY LenProperties
<1>3. OpenCandidates(list) = Kept(list, P)
  BY <1>1, <1>2, Zenon DEF OpenCandidates
<1>4. P \in SUBSET (1 .. Len(list))
  BY <1>1
<1>5. Kept(list, P) \in Seq(S) /\ IsPartOf(Kept(list, P), list, P)
  BY <1>4, KeptIsPart
<1>6. QED
  BY <1>1, <1>3, <1>5, Zenon

\* Of candidates with one id there is the first, and no other.
AreFirsts(unique, list) ==
  /\ Len(unique) \in Nat
  /\ \A k, l \in 1 .. Len(unique) : unique[k].id = unique[l].id => k = l
  /\ \A k \in 1 .. Len(unique) : \E i \in 1 .. Len(list) : unique[k] = list[i]
  /\ \A i \in 1 .. Len(list) :
       \E j \in 1 .. Len(list) : /\ j <= i /\ list[j].id = list[i].id
                                 /\ \E k \in 1 .. Len(unique) : k <= j /\ unique[k] = list[j]

LEMMA UniqueAre ==
  ASSUME NEW S, NEW list \in Seq(S)
  PROVE  UniqueCandidates(list) \in Seq(S) /\ AreFirsts(UniqueCandidates(list), list)
<1>1. PICK P : P = {i \in 1 .. Len(list) : \A j \in 1 .. i - 1 : list[j].id # list[i].id}
  OBVIOUS
<1>2. DOMAIN list = 1 .. Len(list) /\ Len(list) \in Nat
  BY LenProperties
<1>3. PICK unique : unique = UniqueCandidates(list)
  OBVIOUS
<1>4. unique = Kept(list, P)
  BY <1>1, <1>2, <1>3, Zenon DEF UniqueCandidates
<1>5. P \in SUBSET (1 .. Len(list))
  BY <1>1
<1>6. unique \in Seq(S) /\ IsPartOf(unique, list, P)
  BY <1>4, <1>5, KeptIsPart
<1>7. /\ Len(unique) \in Nat
      /\ \A k \in 1 .. Len(unique) : \E i \in P : unique[k] = list[i]
      /\ \A i \in P : \E k \in 1 .. Len(unique) : k <= i /\ unique[k] = list[i]
      /\ \A k, l \in 1 .. Len(unique) : k # l => \E i, j \in P : i # j /\ unique[k] = list[i] /\ unique[l] = list[j]
  BY <1>6, Zenon DEF IsPartOf
<1>8. ASSUME NEW i \in P, NEW j \in P, list[i].id = list[j].id PROVE i = j
  BY <1>1, <1>2, <1>8
<1>9. ASSUME NEW k \in 1 .. Len(unique), NEW l \in 1 .. Len(unique), unique[k].id = unique[l].id
      PROVE  k = l
  <2>1. SUFFICES ASSUME k # l PROVE FALSE
    OBVIOUS
  <2>2. PICK i, j \in P : i # j /\ unique[k] = list[i] /\ unique[l] = list[j]
    BY <1>7, <2>1
  <2>3. list[i].id = list[j].id
    BY <1>9, <2>2
  <2>4. QED
    BY <1>8, <2>2, <2>3
<1>10. ASSUME NEW i \in 1 .. Len(list)
       PROVE  \E j \in P : j <= i /\ list[j].id = list[i].id
  <2>1. PICK T : T = {j \in 1 .. i : list[j].id = list[i].id}
    OBVIOUS
  <2>2. IsFiniteSet(1 .. i) /\ T \in SUBSET (1 .. i)
    BY <2>1, FS_Interval
  <2>3. IsFiniteSet(T) /\ T \subseteq Int /\ T # {}
    BY <2>1, <2>2, FS_Subset
  <2>4. PICK j \in T : \A x \in T : j <= x
    BY <2>3, LeastExists
  <2>5. j \in 1 .. i /\ list[j].id = list[i].id
    BY <2>1
  <2>6. \A x \in 1 .. j - 1 : list[x].id # list[j].id
    BY <2>1, <2>4, <2>5
  <2>7. j \in P
    BY <1>1, <1>2, <2>5, <2>6
  <2>8. QED
    BY <2>5, <2>7
<1>11. ASSUME NEW i \in 1 .. Len(list)
       PROVE  \E j \in 1 .. Len(list) : /\ j <= i /\ list[j].id = list[i].id
                                        /\ \E k \in 1 .. Len(unique) : k <= j /\ unique[k] = list[j]
  BY <1>5, <1>7, <1>10
<1>12. \A k \in 1 .. Len(unique) : \E i \in 1 .. Len(list) : unique[k] = list[i]
  BY <1>5, <1>7
<1>13. AreFirsts(unique, list)
  BY <1>7, <1>9, <1>11, <1>12, Zenon DEF AreFirsts
<1>14. QED
  BY <1>3, <1>6, <1>13

LEMMA SearchedAre ==
  ASSUME NEW M, NEW reply, IsGammaReply(reply, M), NEW symbol, NEW asset
  PROVE  Searched(reply, symbol, asset) \in Seq(CandidatesOf(M))
<1>1. CASE symbol \in {asset, "ALL"} /\ reply.kind = "answer"
  <2>1. reply.rows \in Seq(M)
    BY <1>1 DEF IsGammaReply
  <2>2. Candidates(reply.rows) \in Seq(CandidatesOf(M))
    BY <2>1, CandidatesAre
  <2>3. Searched(reply, symbol, asset) = Candidates(reply.rows)
    BY <1>1, Zenon DEF Searched
  <2>4. QED
    BY <2>2, <2>3
<1>2. CASE ~(symbol \in {asset, "ALL"} /\ reply.kind = "answer")
  <2>1. Searched(reply, symbol, asset) = <<>>
    BY <1>2, Zenon DEF Searched
  <2>2. QED
    BY <2>1
<1>3. QED
  BY <1>1, <1>2

\* Gamma's page of active markets, as candidates.
PageOf(gamma, req) == Candidates(GammaMarkets(gamma.active, req.limit))

\* What Gamma answers to the three requests.
AreGammaReplies(gamma, M) ==
  IsGammaReply(gamma.active, M) /\ IsGammaReply(gamma.BTC, M) /\ IsGammaReply(gamma.ETH, M)

\* The way from Gamma's lists to the markets that are found.
Discovered(active, all, unique, open, fit, kept, gamma, req) ==
  /\ active = FirstRows(FilterCryptoCandidates(PageOf(gamma, req), req.symbol), req.limit)
  /\ all = active \o Searched(gamma.BTC, req.symbol, "BTC") \o Searched(gamma.ETH, req.symbol, "ETH")
  /\ unique = UniqueCandidates(all) /\ open = OpenCandidates(unique)
  /\ fit = FilterCryptoCandidates(open, req.symbol) /\ kept = FirstRows(fit, req.limit)

LEMMA DiscoveredIs ==
  ASSUME NEW gamma, NEW req, gamma.active.kind # "failed"
  PROVE  \E active, all, unique, open, fit : Discovered(active, all, unique, open, fit, FoundMarkets(gamma, req), gamma, req)
<1>1. PICK active : active = FirstRows(FilterCryptoCandidates(PageOf(gamma, req), req.symbol), req.limit)
  OBVIOUS
<1>2. PICK all : all = active \o Searched(gamma.BTC, req.symbol, "BTC") \o Searched(gamma.ETH, req.symbol, "ETH")
  OBVIOUS
<1>3. PICK unique : unique = UniqueCandidates(all)
  OBVIOUS
<1>4. PICK open : open = OpenCandidates(unique)
  OBVIOUS
<1>5. PICK fit : fit = FilterCryptoCandidates(open, req.symbol)
  OBVIOUS
<1>6. FetchActiveMarkets(gamma.active, req.symbol, req.limit) = active
  BY <1>1, Zenon DEF FetchActiveMarkets, PageOf
<1>7. FoundMarkets(gamma, req) = FirstRows(fit, req.limit)
  BY <1>2, <1>3, <1>4, <1>5, <1>6, Zenon DEF FoundMarkets
<1>8. Discovered(active, all, unique, open, fit, FoundMarkets(gamma, req), gamma, req)
  BY <1>1, <1>2, <1>3, <1>4, <1>5, <1>7, Zenon DEF Discovered
<1>9. QED
  BY <1>8

LEMMA PageIs ==
  ASSUME NEW M, NEW gamma, AreGammaReplies(gamma, M), NEW req, req.limit \in Nat
  PROVE  PageOf(gamma, req) \in Seq(CandidatesOf(M))
<1>1. IsGammaReply(gamma.active, M)
  BY DEF AreGammaReplies
<1>2. PICK limit \in Nat : limit = req.limit
  OBVIOUS
<1>3. PICK reply : reply = gamma.active
  OBVIOUS
<1>4. GammaMarkets(reply, limit) \in Seq(M)
  BY <1>1, <1>3, GammaMarketsAre
<1>5. PICK markets : markets = GammaMarkets(reply, limit)
  OBVIOUS
<1>6. Candidates(markets) \in Seq(CandidatesOf(M))
  BY <1>4, <1>5, CandidatesAre
<1>7. QED
  BY <1>2, <1>3, <1>5, <1>6, Zenon DEF PageOf

\* All lists on the way are lists of candidates.
LEMMA ListsOnTheWay ==
  ASSUME NEW M, NEW gamma, AreGammaReplies(gamma, M), NEW req, req.limit \in Nat,
         NEW active, NEW all, NEW unique, NEW open, NEW fit, NEW kept,
         Discovered(active, all, unique, open, fit, kept, gamma, req), NEW C, C = CandidatesOf(M)
  PROVE  /\ active \in Seq(C) /\ all \in Seq(C) /\ unique \in Seq(C) /\ open \in Seq(C) /\ fit \in Seq(C)
         /\ kept \in Seq(C) /\ Len(active) <= Len(all) /\ \A i \in 1 .. Len(active) : all[i] = active[i]
<1>1. PICK btc, eth : btc = Searched(gamma.BTC, req.symbol, "BTC") /\ eth = Searched(gamma.ETH, req.symbol, "ETH")
  OBVIOUS
<1>2. PICK page, listed : page = PageOf(gamma, req) /\ listed = FilterCryptoCandidates(page, req.symbol)
  OBVIOUS
<1>3. /\ active = FirstRows(listed, req.limit) /\ all = active \o btc \o eth
      /\ unique = UniqueCandidates(all) /\ open = OpenCandidates(unique)
      /\ fit = FilterCryptoCandidates(open, req.symbol) /\ kept = FirstRows(fit, req.limit)
  BY <1>1, <1>2, Zenon DEF Discovered
<1>4. page \in Seq(C)
  BY <1>2, PageIs
<1>5. listed \in Seq(C)
  BY <1>2, <1>4, FilteredAre
<1>6. active \in Seq(C)
  BY <1>3, <1>5, FirstRowsAre
<1>7. btc \in Seq(C) /\ eth \in Seq(C)
  BY <1>1, SearchedAre DEF AreGammaReplies
<1>8. PICK two : two = active \o btc
  OBVIOUS
<1>9. two \in Seq(C) /\ Len(two) = Len(active) + Len(btc) /\ \A i \in 1 .. Len(active) : two[i] = active[i]
  BY <1>6, <1>7, <1>8, ConcatProperties
<1>10. all = two \o eth
  BY <1>3, <1>8
<1>11. all \in Seq(C) /\ Len(all) = Len(two) + Len(eth) /\ \A i \in 1 .. Len(two) : all[i] = two[i]
  <2>1. PICK joint : joint = two \o eth
    OBVIOUS
  <2>2. two \in Seq(C)
    BY <1>9
  <2>3. joint \in Seq(C) /\ Len(joint) = Len(two) + Len(eth)
    BY <1>7, <2>1, <2>2, ConcatProperties
  <2>4. \A i \in 1 .. Len(two) : joint[i] = two[i]
    BY <1>7, <2>1, <2>2
  <2>5. QED
    BY <1>10, <2>1, <2>3, <2>4
<1>12. unique \in Seq(C)
  BY <1>3, <1>11, UniqueAre
<1>13. open \in Seq(C)
  BY <1>3, <1>12, OpenAre
<1>14. fit \in Seq(C)
  BY <1>3, <1>13, FilteredAre
<1>15. kept \in Seq(C)
  BY <1>3, <1>14, FirstRowsAre
<1>16. Len(active) \in Nat /\ Len(btc) \in Nat /\ Len(eth) \in Nat
  BY <1>6, <1>7, LenProperties
<1>17. Len(active) <= Len(all) /\ \A i \in 1 .. Len(active) : all[i] = active[i]
  BY <1>9, <1>11, <1>16
<1>18. QED
  BY <1>6, <1>11, <1>12, <1>13, <1>14, <1>15, <1>17

\* What is found is open, of the asset asked for and each once; and there is no
\* more of it than asked for.
AreFound(kept, req, C) ==
  /\ kept \in Seq(C) /\ Len(kept) \in Nat /\ Len(kept) <= req.limit
  /\ \A k \in 1 .. Len(kept) : IsActiveOpen(kept[k]) /\ NamesAsset(kept[k], req.symbol)
  /\ \A k, l \in 1 .. Len(kept) : kept[k].id = kept[l].id => k = l

LEMMA FoundAre ==
  ASSUME NEW M, NEW gamma, AreGammaReplies(gamma, M), NEW req, req.limit \in Nat
  PROVE  /\ AreFound(FoundMarkets(gamma, req), req, CandidatesOf(M))
         /\ gamma.active.kind = "failed" => FoundMarkets(gamma, req) = <<>>
<1>0. PICK C : C = CandidatesOf(M)
  OBVIOUS
<1>1. PICK kept : kept = FoundMarkets(gamma, req)
  OBVIOUS
<1>2. ASSUME gamma.active.kind = "failed" PROVE kept = <<>>
  BY <1>1, <1>2, Zenon DEF FoundMarkets
<1>3. ASSUME kept = <<>> PROVE AreFound(kept, req, C)
  <2>1. kept \in Seq(C) /\ Len(kept) = 0
    BY <1>3
  <2>2. QED
    BY <2>1 DEF AreFound
<1>4. ASSUME gamma.active.kind # "failed" PROVE AreFound(kept, req, C)
  <2>1. PICK active, all, unique, open, fit : Discovered(active, all, unique, open, fit, kept, gamma, req)
    BY <1>1, <1>4, DiscoveredIs
  <2>2. unique \in Seq(C) /\ open \in Seq(C) /\ fit \in Seq(C) /\ kept \in Seq(C) /\ all \in Seq(C)
    BY <1>0, <2>1, ListsOnTheWay
  <2>3. /\ unique = UniqueCandidates(all) /\ open = OpenCandidates(unique)
        /\ fit = FilterCryptoCandidates(open, req.symbol) /\ kept = FirstRows(fit, req.limit)
    BY <2>1, Zenon DEF Discovered
  <2>4. /\ Len(kept) \in Nat /\ Len(kept) = IF req.limit <= Len(fit) THEN req.limit ELSE Len(fit)
        /\ \A i \in 1 .. Len(kept) : i \in 1 .. Len(fit) /\ kept[i] = fit[i]
    BY <2>2, <2>3, FirstRowsAre
  <2>5. Len(kept) <= req.limit
    BY <2>2, <2>4
  <2>6. PICK P, Q : /\ P = {i \in 1 .. Len(open) : NamesAsset(open[i], req.symbol)}
                    /\ Q = {i \in 1 .. Len(unique) : IsActiveOpen(unique[i])}
    OBVIOUS
  <2>7. IsPartOf(fit, open, P)
    BY <2>2, <2>3, <2>6, FilteredAre
  <2>8. IsPartOf(open, unique, Q)
    BY <2>2, <2>3, <2>6, OpenAre
  <2>9. AreFirsts(unique, all)
    BY <2>2, <2>3, UniqueAre
  <2>10. /\ \A k \in 1 .. Len(fit) : \E i \in P : fit[k] = open[i]
         /\ \A k, l \in 1 .. Len(fit) : k # l => \E i, j \in P : i # j /\ fit[k] = open[i] /\ fit[l] = open[j]
    BY <2>7, Zenon DEF IsPartOf
  <2>11. /\ \A k \in 1 .. Len(open) : \E i \in Q : open[k] = unique[i]
         /\ \A k, l \in 1 .. Len(open) : k # l =>
               \E i, j \in Q : i # j /\ open[k] = unique[i] /\ open[l] = unique[j]
    BY <2>8, Zenon DEF IsPartOf
  <2>12. \A k, l \in 1 .. Len(unique) : unique[k].id = unique[l].id => k = l
    BY <2>9, Zenon DEF AreFirsts
  <2>13. ASSUME NEW k \in 1 .. Len(kept)
         PROVE  IsActiveOpen(kept[k]) /\ NamesAsset(kept[k], req.symbol)
    <3>1. PICK i \in P : kept[k] = open[i]
      BY <2>4, <2>10
    <3>2. i \in 1 .. Len(open) /\ NamesAsset(open[i], req.symbol)
      BY <2>6, <3>1
    <3>3. PICK j \in Q : open[i] = unique[j]
      BY <2>11, <3>2
    <3>4. IsActiveOpen(unique[j])
      BY <2>6, <3>3
    <3>5. QED
      BY <3>1, <3>2, <3>3, <3>4, Zenon
  <2>14. ASSUME NEW k \in 1 .. Len(kept), NEW l \in 1 .. Len(kept), kept[k].id = kept[l].id PROVE k = l
    <3>1. SUFFICES ASSUME k # l PROVE FALSE
      OBVIOUS
    <3>2. k \in 1 .. Len(fit) /\ l \in 1 .. Len(fit) /\ kept[k] = fit[k] /\ kept[l] = fit[l]
      BY <2>4
    <3>3. PICK i, j \in P : i # j /\ fit[k] = open[i] /\ fit[l] = open[j]
      BY <2>10, <3>1, <3>2
    <3>4. i \in 1 .. Len(open) /\ j \in 1 .. Len(open)
      BY <2>6, <3>3
    <3>5. PICK a, b \in Q : a # b /\ open[i] = unique[a] /\ open[j] = unique[b]
      BY <2>11, <3>3, <3>4
    <3>6. a \in 1 .. Len(unique) /\ b \in 1 .. Len(unique) /\ unique[a].id = unique[b].id
      BY <2>6, <2>14, <3>2, <3>3, <3>5
    <3>7. QED
      BY <2>12, <3>5, <3>6
  <2>15. QED
    BY <2>2, <2>4, <2>5, <2>13, <2>14, Zenon DEF AreFound
<1>5. AreFound(kept, req, C)
  BY <1>2, <1>3, <1>4
<1>6. QED
  BY <1>0, <1>1, <1>2, <1>5

\* That unless there are more than asked for, all that is listed is found: of
\* those that are open and of the asset asked for, one that shares no id.
ListsAll(page, F, kept, req) ==
  Cardinality(F) <= req.limit =>
    \A x \in 1 .. Len(page) :
      /\ IsActiveOpen(page[x]) /\ NamesAsset(page[x], req.symbol)
      /\ \A y \in 1 .. Len(page) : page[y].id = page[x].id => page[y] = page[x]
      => \E k \in 1 .. Len(kept) : kept[k] = page[x]

\* A market that Gamma lists is found, if it is open, of the asset asked for and
\* alone with its id, and no more than asked for are listed of that asset.
LEMMA ListedIsFound ==
  ASSUME NEW M, NEW gamma, AreGammaReplies(gamma, M), gamma.active.kind # "failed",
         NEW req, req.limit \in Nat, NEW page, page = PageOf(gamma, req),
         NEW F, F = {i \in 1 .. Len(page) : NamesAsset(page[i], req.symbol)},
         NEW kept, kept = FoundMarkets(gamma, req)
  PROVE  ListsAll(page, F, kept, req)
<1> SUFFICES ASSUME Cardinality(F) <= req.limit, NEW x \in 1 .. Len(page),
                    IsActiveOpen(page[x]), NamesAsset(page[x], req.symbol),
                    \A y \in 1 .. Len(page) : page[y].id = page[x].id => page[y] = page[x]
             PROVE  \E k \in 1 .. Len(kept) : kept[k] = page[x]
  BY Zenon DEF ListsAll
<1> DEFINE c == page[x]
<1> HIDE DEF c
<1> /\ c = page[x] /\ IsActiveOpen(c) /\ NamesAsset(c, req.symbol)
    /\ \A y \in 1 .. Len(page) : page[y].id = c.id => page[y] = c
  BY DEF c
<1>0. PICK C : C = CandidatesOf(M)
  OBVIOUS
<1>1. PICK active, all, unique, open, fit : Discovered(active, all, unique, open, fit, kept, gamma, req)
  BY DiscoveredIs
<1>2. /\ active \in Seq(C) /\ all \in Seq(C) /\ unique \in Seq(C) /\ open \in Seq(C) /\ fit \in Seq(C)
      /\ Len(active) <= Len(all) /\ \A i \in 1 .. Len(active) : all[i] = active[i]
  BY <1>0, <1>1, ListsOnTheWay
<1>3. PICK listed : listed = FilterCryptoCandidates(page, req.symbol)
  OBVIOUS
<1>4. /\ active = FirstRows(listed, req.limit)
      /\ unique = UniqueCandidates(all) /\ open = OpenCandidates(unique)
      /\ fit = FilterCryptoCandidates(open, req.symbol) /\ kept = FirstRows(fit, req.limit)
  BY <1>1, <1>3, Zenon DEF Discovered
<1>5. page \in Seq(C)
  BY <1>0, PageIs
<1>6. listed = Kept(page, F) /\ listed \in Seq(C) /\ IsPartOf(listed, page, F)
  BY <1>3, <1>5, FilteredAre
<1>7. F \in SUBSET (1 .. Len(page))
  OBVIOUS
<1>8. Len(listed) = Cardinality(F) /\ Len(listed) \in Nat
  BY <1>5, <1>6, <1>7, KeptElements, LenProperties
<1>9. active = listed
  BY <1>4, <1>6, <1>8, FirstRowsAre
<1>10. /\ \A k \in 1 .. Len(listed) : \E i \in F : listed[k] = page[i]
       /\ \A i \in F : \E k \in 1 .. Len(listed) : k <= i /\ listed[k] = page[i]
  BY <1>6, Zenon DEF IsPartOf
<1>11. x \in F
  OBVIOUS
<1>12. PICK a \in 1 .. Len(active) : active[a] = c
  BY <1>9, <1>10, <1>11
<1>13. a \in 1 .. Len(all) /\ all[a] = c /\ Len(all) \in Nat
  BY <1>2, <1>12, LenProperties
<1>14. AreFirsts(unique, all)
  BY <1>2, <1>4, UniqueAre
<1>15. PICK j \in 1 .. Len(all) : /\ j <= a /\ all[j].id = all[a].id
                                  /\ \E k \in 1 .. Len(unique) : k <= j /\ unique[k] = all[j]
  BY <1>13, <1>14, Zenon DEF AreFirsts
<1>16. all[j] = c
  <2>1. j \in 1 .. Len(active) /\ all[j] = active[j]
    BY <1>2, <1>12, <1>15
  <2>2. PICK i \in F : active[j] = page[i]
    BY <1>9, <1>10, <2>1
  <2>3. page[i].id = c.id
    BY <1>13, <1>15, <2>1, <2>2
  <2>4. QED
    BY <1>7, <2>1, <2>2, <2>3
<1>17. PICK u \in 1 .. Len(unique) : u <= j /\ unique[u] = c
  BY <1>15, <1>16
<1>18. PICK Q : Q = {i \in 1 .. Len(unique) : IsActiveOpen(unique[i])}
  OBVIOUS
<1>19. IsPartOf(open, unique, Q)
  BY <1>2, <1>4, <1>18, OpenAre
<1>20. u \in Q
  BY <1>17, <1>18
<1>21. PICK o \in 1 .. Len(open) : o <= u /\ open[o] = unique[u]
  BY <1>19, <1>20, Zenon DEF IsPartOf
<1>22. PICK P : P = {i \in 1 .. Len(open) : NamesAsset(open[i], req.symbol)}
  OBVIOUS
<1>23. IsPartOf(fit, open, P)
  <2>1. open \in Seq(C)
    BY <1>2
  <2>2. fit = FilterCryptoCandidates(open, req.symbol)
    BY <1>4
  <2>3. QED
    BY <1>22, <2>1, <2>2, FilteredAre
<1>24. o \in P
  BY <1>17, <1>21, <1>22
<1>25. PICK k \in 1 .. Len(fit) : k <= o /\ fit[k] = open[o]
  BY <1>23, <1>24, Zenon DEF IsPartOf
<1>26. k <= req.limit /\ fit[k] = c
  <2>1. Len(fit) \in Nat /\ Len(open) \in Nat /\ Len(unique) \in Nat /\ Len(active) \in Nat
    BY <1>2, LenProperties
  <2>2. a <= Cardinality(F)
    BY <1>8, <1>9, <1>12
  <2>3. k <= a
    BY <1>12, <1>13, <1>15, <1>17, <1>21, <1>25, <2>1
  <2>4. k <= req.limit
    BY SMTT(40), <1>8, <1>12, <2>1, <2>2, <2>3
  <2>5. QED
    BY <1>17, <1>21, <1>25, <2>4
<1>27. /\ Len(kept) = IF req.limit <= Len(fit) THEN req.limit ELSE Len(fit)
       /\ \A i \in 1 .. Len(kept) : kept[i] = fit[i]
  BY SMTT(40), <1>2, <1>4, FirstRowsAre
<1>28. k \in 1 .. Len(kept)
  BY <1>2, <1>25, <1>26, <1>27, LenProperties
<1>29. QED
  BY <1>26, <1>27, <1>28

\* Two ways of saying that a market is of the asset asked for.
LEMMA FittingIs ==
  ASSUME NEW c, NEW symbol
  PROVE  NamesAsset(c, symbol) <=> c.named # {} /\ (symbol = "ALL" \/ c.named = {symbol})
<1>1. CASE symbol = "ALL"
  BY <1>1, Zenon DEF NamesAsset
<1>2. CASE symbol # "ALL"
  <2>1. NamesAsset(c, symbol) <=> c.named = {symbol}
    BY <1>2, Zenon DEF NamesAsset
  <2>2. {symbol} # {}
    OBVIOUS
  <2>3. QED
    BY <1>2, <2>1, <2>2
<1>3. QED
  BY <1>1, <1>2

\* Theorem: of whatever Gamma lists and finds, a response has each market once,
\* only open ones of the asset asked for and no more than asked for; of those
\* that Gamma lists none is missing unless there are more than asked for; and it
\* fails exactly with the list of active markets.
THEOREM DiscoverySound ==
  ASSUME NEW M, NEW gamma, AreGammaReplies(gamma, M), NEW clob, NEW req, req.limit \in Nat
  PROVE  DiscoveryIsSound(gamma, clob, req)
<1>1. PICK kept : kept = FoundMarkets(gamma, req)
  OBVIOUS
<1>2. PICK C : C = CandidatesOf(M)
  OBVIOUS
<1>3. AreFound(kept, req, C) /\ (gamma.active.kind = "failed" => kept = <<>>)
  BY <1>1, <1>2, FoundAre
<1>4. /\ kept \in Seq(C) /\ Len(kept) \in Nat /\ Len(kept) <= req.limit
      /\ \A k \in 1 .. Len(kept) : IsActiveOpen(kept[k]) /\ NamesAsset(kept[k], req.symbol)
      /\ \A k, l \in 1 .. Len(kept) : kept[k].id = kept[l].id => k = l
  BY <1>3, Zenon DEF AreFound
<1>5. PICK response : response = FindCryptoEventMarkets(gamma, clob, req)
  OBVIOUS
<1>6. PICK n \in Nat : n = Len(kept) /\ DOMAIN kept = 1 .. n
  BY <1>4, LenProperties
<1>7. PICK markets : markets = [i \in 1 .. n |-> Bound(kept[i], BuildEventMarketOdds(kept[i], clob[kept[i].id]))]
  OBVIOUS
<1>8. PICK outcome : outcome = IF gamma.active.kind = "failed" THEN "failed" ELSE IF kept = <<>> THEN "degraded" ELSE "ok"
  OBVIOUS
<1>9. response.markets = markets /\ response.status = outcome
  <2>1. response = [markets |-> [i \in DOMAIN kept |-> Bound(kept[i], BuildEventMarketOdds(kept[i], clob[kept[i].id]))],
                    status |-> outcome]
    BY <1>1, <1>5, <1>8, Zenon DEF FindCryptoEventMarkets
  <2>2. response = [markets |-> markets, status |-> outcome]
    BY <1>6, <1>7, <2>1, Zenon
  <2>3. QED
    BY <2>2
<1>10. Len(markets) = n /\ DOMAIN markets = 1 .. n /\ \A i \in 1 .. n : markets[i].candidate = kept[i]
  <2>1. Len(markets) = n /\ DOMAIN markets = 1 .. n
    BY <1>7
  <2>2. ASSUME NEW i \in 1 .. n PROVE markets[i].candidate = kept[i]
    <3>1. PICK odds : odds = BuildEventMarketOdds(kept[i], clob[kept[i].id])
      OBVIOUS
    <3>2. markets[i] = Bound(kept[i], odds)
      BY <1>7, <3>1
    <3>3. QED
      BY <3>2 DEF Bound
  <2>3. QED
    BY <2>1, <2>2
<1>11. PICK shown : shown = ShownBy(response)
  OBVIOUS
<1>12. shown = {kept[i] : i \in 1 .. n}
  BY <1>9, <1>10, <1>11 DEF ShownBy
<1>13. PICK ids : ids = IdsOf(shown)
  OBVIOUS
<1>14. Cardinality(ids) = n
  <2>1. PICK f : f = [i \in 1 .. n |-> kept[i].id]
    OBVIOUS
  <2>2. ids = {f[i] : i \in 1 .. n}
    BY <1>12, <1>13, <2>1 DEF IdsOf
  <2>3. f \in [1 .. n -> ids] /\ \A y \in ids : \E i \in 1 .. n : f[i] = y
    BY <2>1, <2>2
  <2>4. \A i, j \in 1 .. n : f[i] = f[j] => i = j
    BY <1>4, <1>6, <2>1
  <2>5. f \in Bijection(1 .. n, ids)
    BY <2>3, <2>4 DEF Bijection, Injection, Surjection, IsInjective
  <2>6. IsFiniteSet(1 .. n) /\ Cardinality(1 .. n) = n
    BY SMTT(40), FS_Interval
  <2>7. ExistsBijection(1 .. n, ids)
    BY <2>5, Zenon DEF ExistsBijection
  <2>8. QED
    BY <2>6, <2>7, FS_Bijection
<1>15. \A c \in shown : Open(c) /\ Fits(c, req.symbol)
  <2>1. ASSUME NEW i \in 1 .. n
        PROVE  Open(kept[i]) /\ Fits(kept[i], req.symbol)
    <3>1. IsActiveOpen(kept[i]) /\ NamesAsset(kept[i], req.symbol)
      BY <1>4, <1>6
    <3>2. QED
      BY <3>1, FittingIs DEF IsActiveOpen, Open, Fits
  <2>2. QED
    BY <1>12, <2>1
<1>16. (shown = {}) <=> kept = <<>>
  <2>1. kept = <<>> <=> n = 0
    BY <1>4, <1>6
  <2>2. 1 \in 1 .. n => kept[1] \in shown
    BY <1>12
  <2>3. n = 0 => shown = {}
    BY <1>12
  <2>4. n = 0 \/ 1 \in 1 .. n
    OBVIOUS
  <2>5. QED
    BY <2>1, <2>2, <2>3, <2>4
<1>17. /\ (outcome = "failed") = (gamma.active.kind = "failed")
       /\ outcome = "ok" <=> shown # {}
       /\ outcome = "failed" => shown = {}
  BY <1>3, <1>8, <1>16
<1>18. PICK page : page = Candidates(GammaMarkets(gamma.active, req.limit))
  OBVIOUS
<1>19. page = PageOf(gamma, req) /\ page \in Seq(C)
  BY <1>2, <1>18, PageIs DEF PageOf
<1>20. DOMAIN page = 1 .. Len(page) /\ Len(page) \in Nat
  BY <1>19, LenProperties
<1>21. PICK F : F = Fitting(page, req.symbol)
  OBVIOUS
<1>22. F = {i \in 1 .. Len(page) : NamesAsset(page[i], req.symbol)}
  <2>1. \A i \in DOMAIN page : NamesAsset(page[i], req.symbol) <=> Fits(page[i], req.symbol)
    BY FittingIs DEF Fits
  <2>2. QED
    BY <1>20, <1>21, <2>1 DEF Fitting
<1>23. PICK listed : listed = Range(page)
  OBVIOUS
<1>24. ASSUME Cardinality(F) <= req.limit, NEW c \in listed, Open(c), Fits(c, req.symbol),
              \A d \in listed : d.id = c.id => d = c
       PROVE  c.id \in ids
  <2>1. PICK x \in 1 .. Len(page) : c = page[x]
    BY <1>20, <1>23 DEF Range
  <2>2. \A y \in 1 .. Len(page) : page[y].id = c.id => page[y] = c
    BY <1>20, <1>23, <1>24 DEF Range
  <2>3. IsActiveOpen(c) /\ NamesAsset(c, req.symbol)
    BY <1>24, FittingIs DEF IsActiveOpen, Open, Fits
  <2>4. gamma.active.kind # "failed"
    <3>1. ASSUME gamma.active.kind = "failed" PROVE FALSE
      <4>1. GammaMarkets(gamma.active, req.limit) = <<>>
        BY <3>1 DEF GammaMarkets
      <4>2. page = Candidates(<<>>)
        BY <1>18, <4>1
      <4>3. page = <<>>
        <5>1. <<>> \in Seq(M) /\ Len(<<>>) = 0
          OBVIOUS
        <5>2. PICK none : none = <<>>
          OBVIOUS
        <5>3. Titled(none) \in Seq(M) /\ Len(Titled(none)) <= 0
          BY <5>1, <5>2, TitledAre
        <5>4. PICK titled : titled = Titled(none)
          OBVIOUS
        <5>5. Len(titled) = 0 /\ DOMAIN titled = 1 .. 0
          BY <5>3, <5>4, LenProperties
        <5>6. page = [i \in DOMAIN titled |-> MapGammaMarket(titled[i])]
          BY <4>2, <5>2, <5>4, Zenon DEF Candidates
        <5>7. QED
          BY <5>5, <5>6
      <4>4. QED
        BY <2>1, <4>3
    <3>2. QED
      BY <3>1
  <2>5. \E k \in 1 .. Len(kept) : kept[k] = c
    <3>1. page = PageOf(gamma, req)
      BY <1>19
    <3>2. ListsAll(page, F, kept, req)
      BY <1>1, <1>22, <2>4, <3>1, ListedIsFound
    <3>3. /\ IsActiveOpen(page[x]) /\ NamesAsset(page[x], req.symbol)
          /\ \A y \in 1 .. Len(page) : page[y].id = page[x].id => page[y] = page[x]
      BY <2>1, <2>2, <2>3
    <3>4. \E k \in 1 .. Len(kept) : kept[k] = page[x]
      BY <1>24, <2>1, <3>2, <3>3, Zenon DEF ListsAll
    <3>5. QED
      BY <2>1, <3>4
  <2>6. QED
    BY <1>6, <1>12, <1>13, <2>5 DEF IdsOf
<1>25. Cardinality(F) <= req.limit =>
         \A c \in listed : /\ Open(c) /\ Fits(c, req.symbol)
                           /\ \A d \in listed : d.id = c.id => d = c
                           => c.id \in ids
  BY <1>24
<1>26. Len(response.markets) = n
  BY <1>9, <1>10
<1>27. /\ (response.status = "failed") = (gamma.active.kind = "failed")
       /\ response.status = "ok" <=> shown # {}
       /\ Cardinality(ids) = Len(response.markets) /\ Cardinality(ids) <= req.limit
       /\ \A c \in shown : Open(c) /\ Fits(c, req.symbol)
       /\ response.status = "failed" => shown = {}
  BY <1>4, <1>6, <1>9, <1>14, <1>15, <1>17, <1>26
<1>28. QED
  BY <1>5, <1>11, <1>13, <1>18, <1>21, <1>23, <1>25, <1>27, Zenon DEF DiscoveryIsSound

-----------------------------------------------------------------------------
(* The scanner.                                                              *)

\* Lists one after the other: those of S are one.
LEMMA FlattenIs ==
  ASSUME NEW S, NEW T, T = Seq(S), NEW lists \in Seq(T)
  PROVE  FlattenSeq(lists) \in Seq(S)
<1>1. PICK N \in Nat : N = Len(lists) /\ \A i \in 1 .. N : lists[i] \in Seq(S)
  BY LenProperties
<1>2. CASE N = 0
  <2>1. lists = <<>>
    BY <1>1, <1>2, EmptySeq
  <2>2. FlattenSeq(lists) = <<>>
    BY <1>1, <1>2, <2>1 DEF FlattenSeq
  <2>3. QED
    BY <2>2
<1>3. CASE N # 0
  <2>1. PICK step : step = [n \in 1 .. N |-> [x \in Seq(S) |-> IF n = 1 THEN lists[n] ELSE x \o lists[n]]]
    OBVIOUS
  <2>2. PICK g : Recursion(g, N, Seq(S), <<>>, step)
    <3>1. <<>> \in Seq(S)
      OBVIOUS
    <3>2. \A n \in 1 .. N : \A x \in Seq(S) : step[n][x] \in Seq(S)
      BY <1>1, <2>1, ConcatProperties
    <3>3. PICK base : base = <<>>
      OBVIOUS
    <3>5. base \in T /\ \A n \in 1 .. N : \A x \in T : step[n][x] \in T
      BY <3>1, <3>2, <3>3
    <3>6. \E g : Recursion(g, N, T, base, step)
      BY <3>5, RecursionExists
    <3>7. QED
      BY <3>3, <3>6, Zenon
  <2>3. g \in [0 .. N -> Seq(S)] /\ \A n \in 1 .. N : g[n] = IF n = 1 THEN lists[n] ELSE g[n - 1] \o lists[n]
    <3>1. g \in [0 .. N -> Seq(S)] /\ \A n \in 1 .. N : g[n] = step[n][g[n - 1]]
      BY <2>2, Zenon DEF Recursion
    <3>2. ASSUME NEW n \in 1 .. N PROVE g[n] = IF n = 1 THEN lists[n] ELSE g[n - 1] \o lists[n]
      <4>1. n - 1 \in 0 .. N
        OBVIOUS
      <4>2. PICK x \in Seq(S) : x = g[n - 1]
        BY <3>1, <4>1
      <4>3. g[n] = step[n][x]
        BY <3>1, <4>2
      <4>4. QED
        BY <2>1, <4>2, <4>3
    <3>3. QED
      BY <3>1, <3>2
  <2>4. PICK h : h = [n \in 1 .. N |-> g[n]]
    OBVIOUS
  <2>5. h = [n \in 1 .. N |-> IF n = 1 THEN lists[n] ELSE h[n - 1] \o lists[n]]
    <3>1. ASSUME NEW n \in 1 .. N PROVE h[n] = IF n = 1 THEN lists[n] ELSE h[n - 1] \o lists[n]
      <4>1. n = 1 \/ n - 1 \in 1 .. N
        OBVIOUS
      <4>2. QED
        BY <2>3, <2>4, <4>1
    <3>2. QED
      BY <2>4, <3>1
  <2>6. PICK flatten : flatten = CHOOSE f : f = [n \in 1 .. N |-> IF n = 1 THEN lists[n] ELSE f[n - 1] \o lists[n]]
    OBVIOUS
  <2>7. flatten = [n \in 1 .. N |-> IF n = 1 THEN lists[n] ELSE flatten[n - 1] \o lists[n]]
    BY <2>5, <2>6
  <2>8. FlattenSeq(lists) = flatten[N]
    BY <1>1, <1>3, <2>6 DEF FlattenSeq
  <2>9. PICK K : K = {n \in 0 .. N : n = 0 \/ flatten[n] \in Seq(S)}
    OBVIOUS
  <2>10. ASSUME NEW n \in 0 .. N - 1, n \in K PROVE n + 1 \in K
    <3>1. n + 1 \in 1 .. N /\ lists[n + 1] \in Seq(S)
      BY <1>1
    <3>2. flatten[n + 1] = IF n + 1 = 1 THEN lists[n + 1] ELSE flatten[(n + 1) - 1] \o lists[n + 1]
      BY <2>7, <3>1
    <3>3. CASE n = 0
      BY <2>9, <3>1, <3>2, <3>3
    <3>4. CASE n # 0
      <4>1. flatten[n] \in Seq(S) /\ flatten[n + 1] = flatten[n] \o lists[n + 1]
        <5>1. (n + 1) - 1 = n /\ n + 1 # 1
          BY <3>4
        <5>2. flatten[n] \in Seq(S)
          BY <2>9, <2>10, <3>4
        <5>3. QED
          BY <3>2, <5>1, <5>2
      <4>2. flatten[n + 1] \in Seq(S)
        BY <3>1, <4>1, ConcatProperties
      <4>3. QED
        BY <2>9, <3>1, <4>2
    <3>5. QED
      BY <3>3, <3>4
  <2>11. 0 .. N \subseteq K
    <3>1. 0 \in K
      BY <2>9
    <3>2. QED
      BY <2>10, <3>1, CountUp
  <2>12. flatten[N] \in Seq(S)
    BY <1>3, <2>9, <2>11
  <2>13. QED
    BY <2>8, <2>12
<1>4. QED
  BY <1>2, <1>3

\* The markets of all events are taken or rejected, each for its reason.
AreSplit(all, reasons, found, M, mode, classes, scope) ==
  /\ all \in Seq(M) /\ Len(all) \in Nat
  /\ \A i \in 1 .. Len(all) : reasons[i].reason = Reason(all[i], mode, classes, scope)
  /\ \E R : reasons \in Seq(R)
  /\ Len(reasons) = Len(all)
  /\ found.markets = Kept(all, {i \in 1 .. Len(all) : reasons[i].reason = "none"})
  /\ found.rejected = Kept(reasons, {i \in 1 .. Len(all) : reasons[i].reason # "none"})

LEMMA DiscoverIs ==
  ASSUME NEW M, NEW events \in Seq(Seq(M)), NEW mode, NEW classes, NEW scope,
         NEW all, all = FlattenSeq(events), NEW reasons, reasons = Reasons(all, mode, classes, scope),
         NEW found, found = Discover(events, mode, classes, scope)
  PROVE  AreSplit(all, reasons, found, M, mode, classes, scope)
<1>1. all \in Seq(M)
  BY FlattenIs
<1>2. PICK N \in Nat : N = Len(all) /\ DOMAIN all = 1 .. N
  BY <1>1, LenProperties
<1>3. reasons = [i \in 1 .. N |-> [id |-> all[i].id, reason |-> Reason(all[i], mode, classes, scope)]]
  BY <1>2 DEF Reasons
<1>4. \A i \in 1 .. N : reasons[i].reason = Reason(all[i], mode, classes, scope)
  BY <1>3
<1>5. PICK R : R = {reasons[i] : i \in 1 .. N}
  OBVIOUS
<1>6. reasons \in Seq(R) /\ Len(reasons) = N
  <2>1. DOMAIN reasons = 1 .. N /\ reasons = [i \in 1 .. N |-> reasons[i]]
    BY <1>3
  <2>2. reasons \in [1 .. N -> R]
    BY <1>5, <2>1
  <2>3. QED
    BY <2>2
<1>7. found = [markets  |-> Kept(all, {i \in DOMAIN all : reasons[i].reason = "none"}),
               rejected |-> Kept(reasons, {i \in DOMAIN all : reasons[i].reason # "none"})]
  BY Zenon DEF Discover
<1>8. PICK open, others : /\ open = {i \in DOMAIN all : reasons[i].reason = "none"}
                          /\ others = {i \in DOMAIN all : reasons[i].reason # "none"}
  OBVIOUS
<1>9. found = [markets |-> Kept(all, open), rejected |-> Kept(reasons, others)]
  BY <1>7, <1>8, Zenon
<1>10. found.markets = Kept(all, open) /\ found.rejected = Kept(reasons, others)
  BY <1>9
<1>11. QED
  BY <1>1, <1>2, <1>4, <1>6, <1>8, <1>10, Zenon DEF AreSplit

\* Of numbered values the first ones.
FirstPlaces(f, N) == {i \in 1 .. N : \A j \in 1 .. i - 1 : f[j] # f[i]}
AreTheFirst(P, f, N) ==
  /\ \A i, j \in P : f[i] = f[j] => i = j
  /\ \A i \in 1 .. N : \E j \in P : j <= i /\ f[j] = f[i]

LEMMA FirstOfEach ==
  ASSUME NEW N \in Nat, NEW f, NEW P, P = FirstPlaces(f, N)
  PROVE  AreTheFirst(P, f, N)
<1>0. P = {i \in 1 .. N : \A j \in 1 .. i - 1 : f[j] # f[i]}
  BY DEF FirstPlaces
<1>1. ASSUME NEW i \in P, NEW j \in P, f[i] = f[j] PROVE i = j
  BY <1>0, <1>1
<1>2. ASSUME NEW i \in 1 .. N PROVE \E j \in P : j <= i /\ f[j] = f[i]
  <2>1. PICK T : T = {j \in 1 .. i : f[j] = f[i]}
    OBVIOUS
  <2>2. IsFiniteSet(1 .. i) /\ T \in SUBSET (1 .. i)
    BY <2>1, FS_Interval
  <2>3. IsFiniteSet(T) /\ T \subseteq Int /\ T # {}
    BY <2>1, <2>2, FS_Subset
  <2>4. PICK j \in T : \A x \in T : j <= x
    BY <2>3, LeastExists
  <2>5. j \in 1 .. i /\ f[j] = f[i]
    BY <2>1
  <2>6. \A x \in 1 .. j - 1 : f[x] # f[j]
    BY <2>1, <2>4, <2>5
  <2>7. QED
    BY <1>0, <2>5, <2>6
<1>3. QED
  BY <1>1, <1>2 DEF AreTheFirst

\* The sizes of parts that have nothing in common add up to that of the whole.
AreApart(parts, T, N) ==
  /\ \A k \in 1 .. T : parts[k] \in SUBSET (1 .. N)
  /\ \A k, l \in 1 .. T : k # l => parts[k] \cap parts[l] = {}

Sizes(parts, T) == [k \in 1 .. T |-> Cardinality(parts[k])]
Covered(parts, T, N) == {i \in 1 .. N : \E k \in 1 .. T : i \in parts[k]}

LEMMA SumOfApart ==
  ASSUME NEW N \in Nat, NEW T \in Nat, NEW parts, AreApart(parts, T, N)
  PROVE  Summed(Sizes(parts, T)) = Cardinality(Covered(parts, T, N))
<1> DEFINE Upto(n) == {i \in 1 .. N : \E k \in 1 .. n : i \in parts[k]}
<1>1. /\ \A k \in 1 .. T : parts[k] \in SUBSET (1 .. N)
      /\ \A k, l \in 1 .. T : k # l => parts[k] \cap parts[l] = {}
  BY Zenon DEF AreApart
<1>2. PICK counts : counts = Sizes(parts, T) /\ counts = [k \in 1 .. T |-> Cardinality(parts[k])]
  BY DEF Sizes
<1>3. \A k \in 1 .. T : counts[k] = Cardinality(parts[k]) /\ counts[k] \in Nat /\ IsFiniteSet(parts[k])
  BY <1>1, <1>2, CountOfPlaces
<1>4. counts \in Seq(Int) /\ Len(counts) = T
  <2>1. counts \in [1 .. T -> Int]
    BY <1>2, <1>3
  <2>2. QED
    BY <2>1
<1>5. PICK f : /\ f \in [0 .. T -> Int] /\ f[0] = 0 /\ f[T] = Summed(counts)
               /\ \A n \in 1 .. T : f[n] = f[n - 1] + counts[n]
  BY <1>4, SummedBuilds
<1>5a. PICK size : size = [n \in 0 .. T |-> Cardinality(Upto(n))]
  OBVIOUS
<1>6. PICK K : K = {n \in 0 .. T : f[n] = size[n]}
  OBVIOUS
<1>7. 0 \in K
  <2>1. Upto(0) = {}
    OBVIOUS
  <2>2. Cardinality(Upto(0)) = 0
    BY <2>1, FS_EmptySet
  <2>3. size[0] = 0
    BY <1>5a, <2>2
  <2>4. QED
    BY <1>5, <1>6, <2>3
<1>8. ASSUME NEW n \in 0 .. T - 1, n \in K PROVE n + 1 \in K
  <2>1. n + 1 \in 1 .. T /\ (n + 1) - 1 = n
    OBVIOUS
  <2>2. PICK whole, old, part : whole = Upto(n + 1) /\ old = Upto(n) /\ part = parts[n + 1]
    OBVIOUS
  <2>3. whole \in SUBSET (1 .. N) /\ part \in SUBSET (1 .. N)
    BY <1>1, <2>1, <2>2
  <2>4. old \cup part = whole
    <3>1. ASSUME NEW i \in 1 .. N PROVE i \in whole <=> i \in old \/ i \in part
      <4>1. \A k \in 1 .. n + 1 : k \in 1 .. n \/ k = n + 1
        OBVIOUS
      <4>2. 1 .. n \subseteq 1 .. n + 1 /\ n + 1 \in 1 .. n + 1
        OBVIOUS
      <4>3. QED
        BY <2>2, <4>1, <4>2
    <3>2. old \subseteq 1 .. N
      BY <2>2
    <3>3. QED
      BY <2>3, <3>1, <3>2
  <2>5. old \cap part = {}
    <3>1. \A k \in 1 .. n : k \in 1 .. T /\ k # n + 1
      OBVIOUS
    <3>2. QED
      BY <1>1, <2>1, <2>2, <3>1
  <2>6. IsFiniteSet(whole)
    BY <2>3, CountOfPlaces
  <2>7. Cardinality(whole) = Cardinality(old) + Cardinality(part)
    BY <2>4, <2>5, <2>6, CountSplit
  <2>8. f[n + 1] = f[n] + counts[n + 1]
    BY <1>5, <2>1
  <2>9. f[n] = Cardinality(old) /\ counts[n + 1] = Cardinality(part)
    <3>1. f[n] = size[n] /\ n \in 0 .. T
      BY <1>6, <1>8
    <3>2. size[n] = Cardinality(old)
      BY <1>5a, <2>2, <3>1
    <3>3. QED
      BY <1>3, <2>1, <2>2, <3>1, <3>2
  <2>10. f[n + 1] = size[n + 1]
    <3>1. size[n + 1] = Cardinality(whole)
      BY <1>5a, <2>1, <2>2
    <3>2. QED
      BY <2>7, <2>8, <2>9, <3>1
  <2>11. QED
    BY <1>6, <2>1, <2>10
<1>9. 0 .. T \subseteq K
  BY <1>7, <1>8, CountUp
<1>10. f[T] = Cardinality(Upto(T))
  <2>1. T \in K /\ T \in 0 .. T
    BY <1>9
  <2>2. f[T] = size[T]
    BY <1>6, <2>1
  <2>3. QED
    BY <1>5a, <2>1, <2>2
<1>11. Upto(T) = Covered(parts, T, N)
  BY DEF Covered
<1>12. QED
  BY <1>2, <1>5, <1>10, <1>11

\* Each reason has its first rejection, and no two the same.
AreReasons(named, F, f, N) ==
  /\ \A k, l \in 1 .. F : named[k] = named[l] => k = l
  /\ \A k \in 1 .. F : \E i \in 1 .. N : named[k] = f[i]
  /\ \A i \in 1 .. N : \E k \in 1 .. F : named[k] = f[i]

ReasonsOf(list) == [k \in 1 .. Len(list) |-> list[k].reason]

LEMMA ReasonsAreNamed ==
  ASSUME NEW R, NEW rejected \in Seq(R), NEW firsts, firsts = FirstOfReasons(rejected)
  PROVE  /\ firsts \in Seq(R)
         /\ AreReasons(ReasonsOf(firsts), Len(firsts), ReasonsOf(rejected), Len(rejected))
<1>0. PICK N \in Nat : N = Len(rejected) /\ DOMAIN rejected = 1 .. N
  BY LenProperties
<1>0a. PICK f : f = ReasonsOf(rejected) /\ f = [i \in 1 .. N |-> rejected[i].reason]
  BY <1>0 DEF ReasonsOf
<1>1. PICK P : P = FirstPlaces(f, N) /\ P = {i \in 1 .. N : \A j \in 1 .. i - 1 : f[j] # f[i]}
  BY DEF FirstPlaces
<1>2. DOMAIN rejected = 1 .. N
  BY <1>0
<1>3. P = {i \in DOMAIN rejected : \A j \in 1 .. i - 1 : rejected[j].reason # rejected[i].reason}
  <2>1. \A i \in 1 .. N : \A j \in 1 .. i - 1 : j \in 1 .. N
    OBVIOUS
  <2>2. \A i \in 1 .. N : f[i] = rejected[i].reason
    BY <1>0a
  <2>3. QED
    BY <1>1, <1>2, <2>1, <2>2
<1>4. firsts = Kept(rejected, P)
  BY <1>3, Zenon DEF FirstOfReasons
<1>5. P \in SUBSET (1 .. Len(rejected))
  BY <1>0, <1>1
<1>6. firsts \in Seq(R) /\ IsPartOf(firsts, rejected, P)
  BY <1>4, <1>5, KeptIsPart
<1>7. PICK F \in Nat : F = Len(firsts)
  BY <1>6
<1>8. /\ \A k \in 1 .. F : \E i \in P : firsts[k] = rejected[i]
      /\ \A i \in P : \E k \in 1 .. F : k <= i /\ firsts[k] = rejected[i]
      /\ \A k, l \in 1 .. F : k # l => \E i, j \in P : i # j /\ firsts[k] = rejected[i] /\ firsts[l] = rejected[j]
  BY <1>6, <1>7, Zenon DEF IsPartOf
<1>9. /\ \A i, j \in P : f[i] = f[j] => i = j
      /\ \A i \in 1 .. N : \E j \in P : j <= i /\ f[j] = f[i]
  <2>1. AreTheFirst(P, f, N)
    BY <1>1, FirstOfEach
  <2>2. QED
    BY <2>1, Zenon DEF AreTheFirst
<1>10. PICK named : named = ReasonsOf(firsts) /\ named = [k \in 1 .. F |-> firsts[k].reason]
  BY <1>7 DEF ReasonsOf
<1>11. \A i \in P : i \in 1 .. N /\ f[i] = rejected[i].reason
  BY <1>0a, <1>1
<1>12. ASSUME NEW k \in 1 .. F, NEW l \in 1 .. F, named[k] = named[l] PROVE k = l
  <2>1. SUFFICES ASSUME k # l PROVE FALSE
    OBVIOUS
  <2>2. PICK i, j \in P : i # j /\ firsts[k] = rejected[i] /\ firsts[l] = rejected[j]
    BY <1>8, <2>1
  <2>3. f[i] = f[j]
    BY <1>10, <1>11, <1>12, <2>2
  <2>4. QED
    BY <1>9, <2>2, <2>3
<1>13. ASSUME NEW k \in 1 .. F PROVE \E i \in 1 .. N : named[k] = f[i]
  <2>1. PICK i \in P : firsts[k] = rejected[i]
    BY <1>8
  <2>2. i \in 1 .. N /\ f[i] = rejected[i].reason /\ named[k] = firsts[k].reason
    BY <1>10, <1>11
  <2>3. QED
    BY <2>1, <2>2
<1>14. ASSUME NEW i \in 1 .. N PROVE \E k \in 1 .. F : named[k] = f[i]
  <2>1. PICK j \in P : f[j] = f[i]
    BY <1>9
  <2>2. PICK k \in 1 .. F : firsts[k] = rejected[j]
    BY <1>8
  <2>3. QED
    BY <1>10, <1>11, <2>1, <2>2
<1>15. AreReasons(named, F, f, N)
  BY <1>12, <1>13, <1>14 DEF AreReasons
<1>16. QED
  BY <1>0, <1>0a, <1>6, <1>7, <1>10, <1>15

\* The counts of a summary: no rejection is counted twice, and each is if there
\* are no more than five reasons.
LEMMA ReasonsAddUp ==
  ASSUME NEW R, NEW rejected \in Seq(R), NEW summary, summary = RejectionSummary(rejected),
         NEW total, total = Summed([k \in DOMAIN summary |-> summary[k].count])
  PROVE  /\ total \in Nat /\ total <= Len(rejected)
         /\ Cardinality({r.reason : r \in Range(rejected)}) <= 5 => total = Len(rejected)
<1>1. PICK N \in Nat : N = Len(rejected) /\ DOMAIN rejected = 1 .. N
  BY LenProperties
<1>2. PICK f : f = ReasonsOf(rejected) /\ f = [i \in 1 .. N |-> rejected[i].reason]
  BY <1>1 DEF ReasonsOf
<1>3. PICK firsts : firsts = FirstOfReasons(rejected)
  OBVIOUS
<1>4. firsts \in Seq(R) /\ AreReasons(ReasonsOf(firsts), Len(firsts), f, N)
  BY <1>1, <1>2, <1>3, ReasonsAreNamed
<1>5. PICK F \in Nat : F = Len(firsts)
  BY <1>4
<1>5a. PICK named : /\ F = Len(firsts) /\ named = [k \in 1 .. F |-> firsts[k].reason]
                    /\ AreReasons(named, F, f, N)
  BY <1>4, <1>5 DEF ReasonsOf
<1>6. /\ \A k, l \in 1 .. F : named[k] = named[l] => k = l
      /\ \A k \in 1 .. F : \E i \in 1 .. N : named[k] = f[i]
      /\ \A i \in 1 .. N : \E k \in 1 .. F : named[k] = f[i]
  BY <1>5a, Zenon DEF AreReasons
<1>7. DOMAIN firsts = 1 .. F
  BY <1>4, <1>5a, LenProperties
<1>8. PICK entries : entries = [n \in 1 .. F |-> SummaryEntry(rejected, named[n])]
  OBVIOUS
<1>9. \A n \in 1 .. F : RejectedFor(rejected, named[n]) \in SUBSET (1 .. N)
  BY <1>1 DEF RejectedFor
<1>10. ASSUME NEW n \in 1 .. F
       PROVE  /\ entries[n].count = Cardinality(RejectedFor(rejected, named[n]))
              /\ entries[n].count \in Nat
  <2>1. PICK reason : reason = named[n]
    OBVIOUS
  <2>2. SummaryEntry(rejected, reason).count = Cardinality(RejectedFor(rejected, reason))
    BY DEF SummaryEntry
  <2>3. entries[n] = SummaryEntry(rejected, reason)
    BY <1>8, <2>1
  <2>4. Cardinality(RejectedFor(rejected, named[n])) \in Nat
    BY <1>9, CountOfPlaces
  <2>5. QED
    BY <2>1, <2>2, <2>3, <2>4
<1>11. PICK key : key = [n \in 1 .. F |-> -entries[n].count]
  OBVIOUS
<1>12. PICK sorted : sorted = Arranged(entries, key)
  OBVIOUS
<1>13. PICK m \in Nat : \E at \in [1 .. m -> 1 .. F] : Lists(sorted, entries, 1 .. F, key, m, at)
  <2>1. IsFiniteSet(1 .. F) /\ 1 .. F \subseteq Int /\ key \in [1 .. F -> Int]
    <3>1. IsFiniteSet(1 .. F)
      BY FS_Interval
    <3>2. \A n \in 1 .. F : -entries[n].count \in Int
      BY <1>10
    <3>3. key \in [1 .. F -> Int]
      BY <1>11, <3>2
    <3>4. QED
      BY <3>1, <3>3
  <2>2. PICK P : P = 1 .. F
    OBVIOUS
  <2>3. \E n \in Nat : \E bt \in [1 .. n -> P] : Lists(sorted, entries, P, key, n, bt)
    BY <1>12, <2>1, <2>2, ArrangedIs
  <2>4. QED
    BY <2>2, <2>3
<1>14. PICK at \in [1 .. m -> 1 .. F] : Lists(sorted, entries, 1 .. F, key, m, at)
  BY <1>13
<1>15. /\ m = Cardinality(1 .. F) /\ sorted = [k \in 1 .. m |-> entries[at[k]]]
       /\ \A i \in 1 .. F : \E k \in 1 .. m : at[k] = i
       /\ \A k, l \in 1 .. m : k < l => Earlier(at[k], at[l], key)
  BY <1>14, Zenon DEF Lists
<1>16. m = F
  BY <1>15, FS_Interval
<1>17. ASSUME NEW k \in 1 .. F, NEW l \in 1 .. F, at[k] = at[l] PROVE k = l
  <2>1. ASSUME NEW a \in 1 .. F PROVE ~Earlier(a, a, key)
    <3>1. key[a] \in Int
      BY <1>10, <1>11
    <3>2. QED
      BY <3>1 DEF Earlier
  <2>2. at[k] \in 1 .. F
    BY <1>16
  <2>3. ~(k < l) /\ ~(l < k)
    BY <1>15, <1>16, <1>17, <2>1, <2>2
  <2>4. QED
    BY <2>3
<1>18. PICK T \in Nat : T = Min({5, F}) /\ T = IF 5 <= F THEN 5 ELSE F
  BY SMTT(40), MinOfTwo
<1>19. summary = [k \in 1 .. T |-> sorted[k]]
  <2>1. [n \in DOMAIN firsts |-> SummaryEntry(rejected, firsts[n].reason)] = entries
    BY <1>5a, <1>7, <1>8
  <2>2. DOMAIN entries = 1 .. F
    BY <1>8
  <2>3. Len(sorted) = F
    BY <1>15, <1>16
  <2>4. summary = SubSeq(sorted, 1, Min({5, Len(sorted)}))
    BY <1>3, <1>11, <1>12, <2>1, <2>2, Zenon DEF RejectionSummary
  <2>5. summary = SubSeq(sorted, 1, T)
    BY <1>18, <2>3, <2>4
  <2>6. QED
    BY <2>5
<1>20. PICK parts : parts = [k \in 1 .. T |-> RejectedFor(rejected, named[at[k]])]
  OBVIOUS
<1>21. \A k \in 1 .. T : k \in 1 .. F /\ at[k] \in 1 .. F
  BY <1>16, <1>18
<1>22. [k \in DOMAIN summary |-> summary[k].count] = Sizes(parts, T)
  <2>1. ASSUME NEW k \in 1 .. T PROVE summary[k].count = Cardinality(parts[k])
    <3>1. summary[k] = entries[at[k]]
      BY <1>15, <1>16, <1>19, <1>21
    <3>2. QED
      BY <1>10, <1>20, <1>21, <3>1
  <2>2. DOMAIN summary = 1 .. T
    BY <1>19
  <2>3. QED
    BY <2>1, <2>2 DEF Sizes
<1>23. AreApart(parts, T, N)
  <2>1. \A k \in 1 .. T : parts[k] \in SUBSET (1 .. N)
    BY <1>9, <1>20, <1>21
  <2>2. ASSUME NEW k \in 1 .. T, NEW l \in 1 .. T, k # l PROVE parts[k] \cap parts[l] = {}
    <3>1. PICK a \in 1 .. F : a = at[k]
      BY <1>21
    <3>2. PICK b \in 1 .. F : b = at[l]
      BY <1>21
    <3>3. k \in 1 .. F /\ l \in 1 .. F
      BY <1>21
    <3>4. a # b
      BY <1>17, <2>2, <3>1, <3>2, <3>3
    <3>5. named[a] # named[b]
      BY <1>6, <3>4
    <3>6. parts[k] = RejectedFor(rejected, named[a]) /\ parts[l] = RejectedFor(rejected, named[b])
      BY <1>20, <3>1, <3>2
    <3>7. QED
      BY <3>5, <3>6 DEF RejectedFor
  <2>3. QED
    BY <2>1, <2>2 DEF AreApart
<1>23a. PICK U : U = Covered(parts, T, N)
  OBVIOUS
<1>24. U = {i \in 1 .. N : \E k \in 1 .. T : i \in parts[k]}
  BY <1>23a DEF Covered
<1>25. total = Cardinality(U)
  <2>1. Summed(Sizes(parts, T)) = Cardinality(U)
    BY <1>23, <1>23a, SumOfApart
  <2>2. QED
    BY <1>22, <2>1
<1>26. total \in Nat /\ total <= N
  <2>1. U \in SUBSET (1 .. N)
    BY <1>24
  <2>2. QED
    BY <1>25, <2>1, CountOfPlaces
<1>27. ASSUME Cardinality({r.reason : r \in Range(rejected)}) <= 5 PROVE total = N
  <2>1. PICK Q : Q = {f[i] : i \in 1 .. N}
    OBVIOUS
  <2>2. Q = {r.reason : r \in Range(rejected)}
    <3>1. \A k \in 1 .. N : f[k] = rejected[k].reason
      BY <1>2
    <3>2. Range(rejected) = {rejected[k] : k \in 1 .. N}
      BY <1>1 DEF Range
    <3>3. PICK G : G = Range(rejected)
      OBVIOUS
    <3>4. ASSUME NEW q \in Q PROVE q \in {r.reason : r \in G}
      <4>1. PICK k \in 1 .. N : q = rejected[k].reason
        BY <2>1, <3>1
      <4>2. rejected[k] \in G
        BY <3>2, <3>3
      <4>3. QED
        BY <4>1, <4>2
    <3>5. ASSUME NEW r \in G PROVE r.reason \in Q
      <4>1. PICK k \in 1 .. N : r = rejected[k]
        BY <3>2, <3>3
      <4>2. QED
        BY <2>1, <3>1, <4>1
    <3>6. QED
      BY <3>3, <3>4, <3>5
  <2>3. IsFiniteSet(Q)
    <3>1. IsFiniteSet(1 .. N)
      BY FS_Interval
    <3>2. QED
      BY <2>1, <3>1, ImageIsFinite
  <2>4. named \in Injection(1 .. F, Q)
    <3>1. \A k \in 1 .. F : named[k] \in Q
      BY <1>6, <2>1
    <3>2. named \in [1 .. F -> Q]
      BY <1>5a, <3>1
    <3>3. QED
      BY <1>6, <3>2 DEF Injection, IsInjective
  <2>5. F <= Cardinality(Q) /\ Cardinality(Q) \in Nat
    BY <2>3, <2>4, FS_Injection, FS_Interval, FS_CardinalityType
  <2>6. T = F
    BY <1>18, <1>27, <2>2, <2>5
  <2>7. ASSUME NEW i \in 1 .. N PROVE \E k \in 1 .. T : i \in parts[k]
    <3>1. PICK n \in 1 .. F : named[n] = f[i]
      BY <1>6
    <3>2. PICK k \in 1 .. T : at[k] = n
      BY <1>15, <1>16, <2>6
    <3>3. parts[k] = RejectedFor(rejected, f[i])
      BY <1>20, <3>1, <3>2
    <3>4. i \in RejectedFor(rejected, f[i])
      BY <1>1, <1>2 DEF RejectedFor
    <3>5. QED
      BY <3>3, <3>4
  <2>8. U = 1 .. N
    BY <1>24, <2>7
  <2>9. QED
    BY <1>25, <2>8, FS_Interval
<1>28. QED
  BY <1>1, <1>26, <1>27

\* What the engine and the gateway make of a market's metrics is the same.
LEMMA FeaturesAgree ==
  ASSUME NEW metrics
  PROVE  EngineFeatures(metrics) = PricingInputFeatures(metrics)
<1>1. PICK given : given = Given(metrics, {"bestBid", "bestAsk", "spread", "liquidity", "volume"})
  OBVIOUS
<1>2. PICK sides : sides = Given(metrics, {"bestBid", "bestAsk"})
  OBVIOUS
<1>3. {"bestBid", "bestAsk"} \subseteq given <=> sides = {"bestBid", "bestAsk"}
  BY <1>1, <1>2 DEF Given
<1>4. sides \subseteq {"bestBid", "bestAsk"}
  BY <1>2 DEF Given
<1>5. IsFiniteSet({"bestBid", "bestAsk"}) /\ Cardinality({"bestBid", "bestAsk"}) = 2
  <2>1. IsFiniteSet({"bestBid"}) /\ Cardinality({"bestBid"}) = 1
    BY FS_Singleton
  <2>2. {"bestBid"} \cup {"bestAsk"} = {"bestBid", "bestAsk"} /\ "bestAsk" \notin {"bestBid"}
    OBVIOUS
  <2>3. /\ IsFiniteSet({"bestBid"} \cup {"bestAsk"})
        /\ Cardinality({"bestBid"} \cup {"bestAsk"}) = 1 + 1
    BY <2>1, <2>2, FS_AddElement
  <2>4. QED
    BY <2>2, <2>3
<1>6. Cardinality(sides) = 2 <=> sides = {"bestBid", "bestAsk"}
  BY <1>4, <1>5, FS_Subset
<1>7. EngineFeatures(metrics).midpoint = PricingInputFeatures(metrics).midpoint
  BY <1>1, <1>2, <1>3, <1>6 DEF EngineFeatures, PricingInputFeatures
<1>8. PICK numbers, engine, gateway : /\ EngineFeatures(metrics) = [numbers |-> numbers, midpoint |-> engine]
                                     /\ PricingInputFeatures(metrics) = [numbers |-> numbers, midpoint |-> gateway]
  BY Zenon DEF EngineFeatures, PricingInputFeatures
<1>9. engine = gateway
  BY <1>7, <1>8
<1>10. QED
  BY <1>8, <1>9

\* A market that the scanner takes has the same quote whoever makes it.
Placeholder == "pricing-engine-v0-placeholder"
PricedAs(priced, market, engine) ==
  /\ priced.quote = LocalPricingFallback(market) /\ priced.quote.market = market.id
  /\ priced.pricing = IF engine = "works" THEN Placeholder ELSE "local-placeholder-fallback"

LEMMA QuotesAgree ==
  ASSUME NEW market, market.id # "", IsPair(market.labels), NEW engine
  PROVE  PricedAs(PriceMarket(market, engine), market, engine)
<1>1. PICK features : features = EngineFeatures(market.metrics) /\ features = PricingInputFeatures(market.metrics)
  BY FeaturesAgree
<1>2. PICK answer : answer = QuotePlaceholder(market)
  OBVIOUS
<1>3. answer = [status |-> 200, market |-> market.id, labels |-> market.labels, probability |-> "none",
                features |-> features, isPlaceholder |-> TRUE]
  BY <1>1, <1>2 DEF QuotePlaceholder
<1>4. PICK quote : quote = LocalPricingFallback(market)
  OBVIOUS
<1>5. quote = [market |-> market.id, labels |-> market.labels, probability |-> "none",
               features |-> features, isPlaceholder |-> TRUE]
  BY <1>1, <1>4 DEF LocalPricingFallback
<1>6. [f \in DOMAIN answer \ {"status"} |-> answer[f]] = quote
  <2>1. DOMAIN answer = {"status", "market", "labels", "probability", "features", "isPlaceholder"}
    BY <1>3
  <2>2. DOMAIN quote = {"market", "labels", "probability", "features", "isPlaceholder"}
    BY <1>5
  <2>3. DOMAIN answer \ {"status"} = DOMAIN quote
    BY <2>1, <2>2
  <2>4. \A f \in DOMAIN quote : quote[f] = answer[f]
    <3>1. /\ quote["market"] = answer["market"] /\ quote["labels"] = answer["labels"]
          /\ quote["probability"] = answer["probability"] /\ quote["features"] = answer["features"]
          /\ quote["isPlaceholder"] = answer["isPlaceholder"]
      BY <1>3, <1>5
    <3>2. QED
      BY <2>2, <3>1, Zenon
  <2>5. quote = [f \in DOMAIN quote |-> quote[f]]
    BY <1>5
  <2>6. QED
    BY <2>3, <2>4, <2>5
<1>7. answer.status = 200 /\ quote.market = market.id
  BY <1>3, <1>5
<1>8. PICK priced : priced = PriceMarket(market, engine)
  OBVIOUS
<1>9. CASE engine = "works"
  <2>1. priced = [quote |-> [f \in DOMAIN answer \ {"status"} |-> answer[f]], pricing |-> Placeholder]
    BY <1>2, <1>7, <1>8, <1>9, Zenon DEF PriceMarket, Placeholder
  <2>2. priced = [quote |-> quote, pricing |-> Placeholder]
    BY <1>6, <2>1, Zenon
  <2>3. priced.quote = quote /\ priced.pricing = Placeholder
    BY <2>2, Zenon
  <2>4. PricedAs(priced, market, engine)
    BY <1>4, <1>7, <1>9, <2>3 DEF PricedAs
  <2>5. QED
    BY <1>8, <2>4
<1>10. CASE engine # "works"
  <2>1. priced = [quote |-> quote, pricing |-> "local-placeholder-fallback"]
    BY <1>4, <1>8, <1>10, Zenon DEF PriceMarket
  <2>2. priced.quote = quote /\ priced.pricing = "local-placeholder-fallback"
    BY <2>1, Zenon
  <2>3. PricedAs(priced, market, engine)
    BY <1>4, <1>7, <1>10, <2>2 DEF PricedAs
  <2>4. QED
    BY <1>8, <2>3
<1>11. QED
  BY <1>9, <1>10

\* What has no reason against it.
LEMMA TakenIs ==
  ASSUME NEW market, NEW mode, NEW classes, NEW scope, Reason(market, mode, classes, scope) = "none"
  PROVE  /\ market.id # "" /\ IsPair(market.labels)
         /\ market.active = "yes" /\ market.closed # "yes" /\ mode = "fixture"
<1>1. PICK classified : classified = Classification(market, mode, classes)
  OBVIOUS
<1>2. Rejection(market, classified # {}) = "none"
  BY <1>1 DEF Reason
<1>3. /\ market.id # "" /\ classified # {} /\ IsPair(market.labels)
      /\ market.active = "yes" /\ market.closed # "yes"
  BY <1>2 DEF Rejection
<1>4. mode = "fixture"
  BY <1>1, <1>3 DEF Classification
<1>5. QED
  BY <1>3, <1>4

\* What the scanner lists, and what it says of the pricing.
TopHas(top, found, n, engine) ==
  /\ top.candidates = [i \in 1 .. n |-> LocalPricingFallback(found.markets[i])]
  /\ \A i \in 1 .. n : top.candidates[i].market = found.markets[i].id
  /\ top.pricing = IF \A i \in 1 .. n : engine[i] = "works" THEN Placeholder ELSE "local-placeholder-fallback"
  /\ top.rejectedCount = Len(found.rejected) /\ top.summary = RejectionSummary(found.rejected)

TopReply(quotes, pricing, count, summary) ==
  [candidates |-> quotes, pricing |-> pricing, rejectedCount |-> count, summary |-> summary]
HasFields(top, quotes, pricing, count, summary) ==
  top.candidates = quotes /\ top.pricing = pricing /\ top.rejectedCount = count /\ top.summary = summary
LEMMA ReplyFields ==
  ASSUME NEW a, NEW b, NEW c, NEW d
  PROVE  HasFields(TopReply(a, b, c, d), a, b, c, d)
  BY DEF TopReply, HasFields

LEMMA TopIs ==
  ASSUME NEW events, NEW mode, NEW classes, NEW scope, NEW engine,
         NEW found, found = Discover(events, mode, classes, scope),
         NEW n \in Nat, DOMAIN found.markets = 1 .. n,
         \A i \in 1 .. n : found.markets[i].id # "" /\ IsPair(found.markets[i].labels)
  PROVE  TopHas(ScannerTop(events, mode, classes, scope, engine), found, n, engine)
<1>0. PICK top : top = ScannerTop(events, mode, classes, scope, engine)
  OBVIOUS
<1>1. PICK priced : priced = [i \in 1 .. n |-> PriceMarket(found.markets[i], engine[i])]
  OBVIOUS
<1>2. ASSUME NEW i \in 1 .. n
      PROVE  /\ priced[i].quote = LocalPricingFallback(found.markets[i])
             /\ priced[i].quote.market = found.markets[i].id
             /\ priced[i].pricing = IF engine[i] = "works" THEN Placeholder ELSE "local-placeholder-fallback"
  <2>1. PICK market : market = found.markets[i]
    OBVIOUS
  <2>2. market.id # "" /\ IsPair(market.labels)
    BY <2>1
  <2>3. PICK how : how = engine[i]
    OBVIOUS
  <2>4. priced[i] = PriceMarket(market, how)
    BY <1>1, <2>1, <2>3
  <2>5. PricedAs(priced[i], market, how)
    BY <2>2, <2>4, QuotesAgree
  <2>6. QED
    BY <2>1, <2>3, <2>5, Zenon DEF PricedAs
<1>3. PICK quotes, pricing : /\ quotes = [i \in 1 .. n |-> priced[i].quote]
                            /\ pricing = IF \E i \in 1 .. n : priced[i].pricing = "local-placeholder-fallback"
                                         THEN "local-placeholder-fallback" ELSE "pricing-engine-v0-placeholder"
  OBVIOUS
<1>4. top = [candidates |-> quotes, pricing |-> pricing, rejectedCount |-> Len(found.rejected),
             summary |-> RejectionSummary(found.rejected)]
  <2>1. [i \in DOMAIN found.markets |-> PriceMarket(found.markets[i], engine[i])] = priced
    BY <1>1
  <2>2. DOMAIN priced = 1 .. n
    BY <1>1
  <2>3. top = [candidates |-> [i \in DOMAIN priced |-> priced[i].quote],
               pricing |-> IF \E i \in DOMAIN priced : priced[i].pricing = "local-placeholder-fallback"
                           THEN "local-placeholder-fallback" ELSE "pricing-engine-v0-placeholder",
               rejectedCount |-> Len(found.rejected), summary |-> RejectionSummary(found.rejected)]
    BY <1>0, <2>1, Zenon DEF ScannerTop
  <2>4. QED
    BY <1>3, <2>2, <2>3, Zenon
<1>5. /\ top.candidates = quotes /\ top.pricing = pricing /\ top.rejectedCount = Len(found.rejected)
      /\ top.summary = RejectionSummary(found.rejected)
  <2>1. PICK count, summary : count = Len(found.rejected) /\ summary = RejectionSummary(found.rejected)
    OBVIOUS
  <2>2. top = TopReply(quotes, pricing, count, summary)
    BY <1>4, <2>1, Zenon DEF TopReply
  <2>3. HasFields(top, quotes, pricing, count, summary)
    BY <2>2, ReplyFields
  <2>4. QED
    BY <2>1, <2>3, Zenon DEF HasFields
<1>6. quotes = [i \in 1 .. n |-> LocalPricingFallback(found.markets[i])]
  BY <1>2, <1>3
<1>7. pricing = IF \A i \in 1 .. n : engine[i] = "works" THEN Placeholder ELSE "local-placeholder-fallback"
  BY <1>2, <1>3 DEF Placeholder
<1>8. \A i \in 1 .. n : quotes[i].market = found.markets[i].id
  BY <1>2, <1>3
<1>9. QED
  BY <1>0, <1>5, <1>6, <1>7, <1>8, Zenon DEF TopHas

\* A market that is listed can be looked at, with others beside it.
IsShown(detail, id) ==
  /\ detail # <<>> /\ detail[1].market.active = "yes" /\ detail[1].market.closed # "yes"
  /\ detail[1].market.id \notin {m.id : m \in Range(detail[1].related)}

LEMMA DetailIs ==
  ASSUME NEW M, NEW events, NEW mode, NEW classes, NEW scope,
         NEW markets \in Seq(M), markets = Discover(events, mode, classes, scope).markets,
         \A k \in 1 .. Len(markets) : markets[k].active = "yes" /\ markets[k].closed # "yes",
         NEW i \in 1 .. Len(markets), NEW id, id = markets[i].id
  PROVE  IsShown(MarketDetail(events, mode, classes, scope, "works", id), id)
<1>1. PICK own, others : own = MarketsOf(markets, id) /\ others = OtherMarkets(markets, id)
  OBVIOUS
<1>2. PICK P, Q : /\ P = {k \in 1 .. Len(markets) : markets[k].id = id}
                  /\ Q = {k \in 1 .. Len(markets) : markets[k].id # id}
  OBVIOUS
<1>3. DOMAIN markets = 1 .. Len(markets)
  BY LenProperties
<1>4. own = Kept(markets, P) /\ others = Kept(markets, Q)
  BY <1>1, <1>2, <1>3, Zenon DEF MarketsOf, OtherMarkets
<1>5. P \in SUBSET (1 .. Len(markets)) /\ Q \in SUBSET (1 .. Len(markets)) /\ i \in P
  BY <1>2
<1>6. own \in Seq(M) /\ IsPartOf(own, markets, P)
  BY <1>4, <1>5, KeptIsPart
<1>7. others \in Seq(M) /\ IsPartOf(others, markets, Q)
  BY <1>4, <1>5, KeptIsPart
<1>8. /\ Len(own) \in Nat /\ \A k \in 1 .. Len(own) : \E x \in P : own[k] = markets[x]
      /\ \A x \in P : \E k \in 1 .. Len(own) : k <= x /\ own[k] = markets[x]
  BY <1>6, Zenon DEF IsPartOf
<1>9. 1 \in 1 .. Len(own) /\ own # <<>>
  <2>1. PICK k \in 1 .. Len(own) : own[k] = markets[i]
    BY <1>5, <1>8
  <2>2. Len(own) # 0
    BY <1>8, <2>1
  <2>3. own # <<>>
    BY <1>6, <2>2, EmptySeq
  <2>4. QED
    BY <1>8, <2>2, <2>3
<1>10. own[1].id = id /\ own[1].active = "yes" /\ own[1].closed # "yes"
  <2>1. PICK x \in P : own[1] = markets[x]
    BY <1>8, <1>9
  <2>2. x \in 1 .. Len(markets) /\ markets[x].id = id
    BY <1>2
  <2>3. markets[x].active = "yes" /\ markets[x].closed # "yes"
    BY <2>2
  <2>4. QED
    BY <2>1, <2>2, <2>3
<1>11. PICK related, priced : /\ related = SubSeq(others, 1, Min({4, Len(others)}))
                             /\ priced = PriceMarket(own[1], "works")
  OBVIOUS
<1>12. \A m \in Range(related) : m.id # id
  <2>1. PICK L \in Nat : L = Len(others)
    BY <1>7
  <2>2. PICK T \in Nat : T = Min({4, L}) /\ T <= L
    BY <2>1, MinOfTwo
  <2>3. related = [k \in 1 .. T |-> others[k]]
    BY <1>11, <2>1, <2>2
  <2>4. \A k \in 1 .. Len(others) : \E x \in Q : others[k] = markets[x]
    BY <1>7, Zenon DEF IsPartOf
  <2>5. ASSUME NEW k \in 1 .. T PROVE others[k].id # id
    <3>1. k \in 1 .. Len(others)
      BY <2>1, <2>2
    <3>2. PICK x \in Q : others[k] = markets[x]
      BY <2>4, <3>1
    <3>3. markets[x].id # id
      BY <1>2
    <3>4. QED
      BY <3>2, <3>3
  <2>6. QED
    BY <2>3, <2>5 DEF Range
<1>13. MarketDetail(events, mode, classes, scope, "works", id)
         = <<[market |-> own[1], priced |-> priced, related |-> related]>>
  BY <1>1, <1>9, <1>11, Zenon DEF MarketDetail
<1>14. PICK detail : detail = MarketDetail(events, mode, classes, scope, "works", id)
  OBVIOUS
<1>15. detail # <<>> /\ detail[1].market = own[1] /\ detail[1].related = related
  BY <1>13, <1>14
<1>16. IsShown(detail, id)
  BY <1>10, <1>12, <1>15 DEF IsShown
<1>17. QED
  BY <1>14, <1>16

\* The scanner is honest of markets that are split so.
LEMMA ScannerIsFair ==
  ASSUME NEW M, NEW events, NEW mode, NEW classes, NEW scope, NEW engine,
         NEW all, all = FlattenSeq(events), NEW found, found = Discover(events, mode, classes, scope),
         NEW reasons, AreSplit(all, reasons, found, M, mode, classes, scope)
  PROVE  ScannerIsHonest(events, mode, classes, scope, engine)
<1>3. PICK open, others : /\ open = {i \in 1 .. Len(all) : reasons[i].reason = "none"}
                          /\ others = {i \in 1 .. Len(all) : reasons[i].reason # "none"}
  OBVIOUS
<1>4. /\ all \in Seq(M) /\ Len(all) \in Nat
      /\ \A i \in 1 .. Len(all) : reasons[i].reason = Reason(all[i], mode, classes, scope)
      /\ \E R : reasons \in Seq(R)
      /\ Len(reasons) = Len(all)
      /\ found.markets = Kept(all, open) /\ found.rejected = Kept(reasons, others)
  BY <1>3, Zenon DEF AreSplit
<1>5. PICK R : reasons \in Seq(R)
  BY <1>4
<1>6. PICK N \in Nat : N = Len(all)
  BY <1>4
<1>7. PICK markets, rejected : markets = found.markets /\ rejected = found.rejected
  OBVIOUS
<1>8. open \in SUBSET (1 .. Len(all)) /\ others \in SUBSET (1 .. Len(reasons))
  BY <1>3, <1>4
<1>9. markets \in Seq(M) /\ Len(markets) = Cardinality(open) /\ \A k \in 1 .. Len(markets) : \E i \in open : markets[k] = all[i]
  <2>1. markets = Kept(all, open)
    BY <1>4, <1>7
  <2>2. IsPartOf(markets, all, open) /\ markets \in Seq(M)
    BY <1>4, <1>8, <2>1, KeptIsPart
  <2>3. Len(markets) = Cardinality(open)
    BY <1>4, <1>8, <2>1, KeptElements
  <2>4. \A k \in 1 .. Len(markets) : \E i \in open : markets[k] = all[i]
    BY <2>2, Zenon DEF IsPartOf
  <2>5. QED
    BY <2>2, <2>3, <2>4
<1>10. rejected \in Seq(R) /\ Len(rejected) = Cardinality(others)
  BY <1>4, <1>5, <1>7, <1>8, KeptElements
<1>11. PICK n \in Nat : n = Len(markets) /\ DOMAIN markets = 1 .. n
  BY <1>9, LenProperties
<1>12. n + Len(rejected) = N /\ Len(rejected) \in Nat
  <2>1. IsFiniteSet(1 .. N) /\ Cardinality(1 .. N) = N
    BY FS_Interval
  <2>2. open \cup others = 1 .. N /\ open \cap others = {}
    BY <1>3, <1>6
  <2>3. Cardinality(1 .. N) = Cardinality(open) + Cardinality(others)
    BY <2>1, <2>2, CountSplit
  <2>4. QED
    BY <1>9, <1>10, <1>11, <2>1, <2>3, LenProperties
<1>13. ASSUME NEW k \in 1 .. n
       PROVE  /\ markets[k].id # "" /\ IsPair(markets[k].labels)
              /\ markets[k].active = "yes" /\ markets[k].closed # "yes" /\ mode = "fixture"
  <2>1. PICK i \in open : markets[k] = all[i]
    BY <1>9, <1>11
  <2>2. Reason(all[i], mode, classes, scope) = "none"
    BY <1>3, <1>4, <2>1
  <2>3. PICK market : market = all[i]
    OBVIOUS
  <2>4. Reason(market, mode, classes, scope) = "none"
    BY <2>2, <2>3
  <2>5. QED
    BY ZenonT(40), <2>1, <2>3, <2>4, TakenIs
<1>14. PICK works : works = [i \in 1 .. N |-> "works"]
  OBVIOUS
<1>15. PICK top, best : /\ top = ScannerTop(events, mode, classes, scope, engine)
                        /\ best = ScannerTop(events, mode, classes, scope, works)
  OBVIOUS
<1>16. DOMAIN found.markets = 1 .. n /\ \A i \in 1 .. n : found.markets[i].id # "" /\ IsPair(found.markets[i].labels)
  BY <1>7, <1>11, <1>13
<1>17. /\ top.candidates = [i \in 1 .. n |-> LocalPricingFallback(found.markets[i])]
       /\ \A i \in 1 .. n : top.candidates[i].market = found.markets[i].id
       /\ top.pricing = IF \A i \in 1 .. n : engine[i] = "works" THEN Placeholder ELSE "local-placeholder-fallback"
       /\ top.rejectedCount = Len(found.rejected) /\ top.summary = RejectionSummary(found.rejected)
  <2>1. TopHas(top, found, n, engine)
    BY <1>15, <1>16, TopIs
  <2>2. QED
    BY <2>1, Zenon DEF TopHas
<1>18. /\ best.candidates = [i \in 1 .. n |-> LocalPricingFallback(found.markets[i])]
       /\ best.pricing = IF \A i \in 1 .. n : works[i] = "works" THEN Placeholder ELSE "local-placeholder-fallback"
  <2>1. TopHas(best, found, n, works)
    BY <1>15, <1>16, TopIs
  <2>2. QED
    BY <2>1, Zenon DEF TopHas
<1>19. DOMAIN top.candidates = 1 .. n /\ Len(top.candidates) = n /\ top.candidates = best.candidates
  BY <1>17, <1>18
<1>20. best.pricing = Placeholder
  <2>1. \A i \in 1 .. n : works[i] = "works"
    BY <1>12, <1>14
  <2>2. QED
    BY <1>18, <2>1
<1>21. top.pricing = best.pricing <=> \A i \in 1 .. n : engine[i] = "works"
  BY <1>17, <1>20 DEF Placeholder
<1>22. PICK total : total = Summed([k \in DOMAIN top.summary |-> top.summary[k].count])
  OBVIOUS
<1>23. /\ total \in Nat /\ total <= Len(rejected)
       /\ Cardinality({r.reason : r \in Range(rejected)}) <= 5 => total = Len(rejected)
  <2>1. PICK summary : summary = RejectionSummary(rejected)
    OBVIOUS
  <2>2. total = Summed([k \in DOMAIN summary |-> summary[k].count])
    BY <1>7, <1>17, <1>22, <2>1
  <2>3. QED
    BY <1>10, <2>1, <2>2, ReasonsAddUp
<1>24. ASSUME NEW i \in 1 .. n
       PROVE  IsShown(MarketDetail(events, mode, classes, scope, "works", top.candidates[i].market),
                      top.candidates[i].market)
  <2>1. PICK id : id = markets[i].id
    OBVIOUS
  <2>2. top.candidates[i].market = id
    BY <1>7, <1>17, <2>1
  <2>3. \A k \in 1 .. Len(markets) : markets[k].active = "yes" /\ markets[k].closed # "yes"
    BY <1>11, <1>13
  <2>4. i \in 1 .. Len(markets) /\ markets = Discover(events, mode, classes, scope).markets
    BY <1>7, <1>11
  <2>5. IsShown(MarketDetail(events, mode, classes, scope, "works", id), id)
    BY <1>9, <2>1, <2>3, <2>4, DetailIs
  <2>6. QED
    BY <2>2, <2>5
<1>25. mode = "live_public" => top.candidates = <<>>
  <2>1. ASSUME mode = "live_public" PROVE n = 0
    BY <1>13, <2>1
  <2>2. n = 0 => top.candidates = <<>>
    BY <1>17
  <2>3. QED
    BY <2>1, <2>2
<1>26. [i \in 1 .. Len(all) |-> "works"] = works
  BY <1>6, <1>14
<1>27. Len(top.candidates) + top.rejectedCount = Len(all) /\ total <= top.rejectedCount
  BY <1>6, <1>7, <1>12, <1>17, <1>19, <1>23
<1>28. Cardinality({r.reason : r \in Range(found.rejected)}) <= 5 => total = top.rejectedCount
  BY <1>7, <1>17, <1>23
<1>29. \A i \in DOMAIN top.candidates :
         LET detail == MarketDetail(events, mode, classes, scope, "works", top.candidates[i].market) IN
         /\ detail # <<>> /\ detail[1].market.active = "yes" /\ detail[1].market.closed # "yes"
         /\ detail[1].market.id \notin {m.id : m \in Range(detail[1].related)}
  BY <1>19, <1>24, Zenon DEF IsShown
<1>30. /\ top.candidates = best.candidates /\ best.pricing = "pricing-engine-v0-placeholder"
       /\ top.pricing = best.pricing <=> \A i \in DOMAIN top.candidates : engine[i] = "works"
  BY <1>19, <1>20, <1>21 DEF Placeholder
<1>31. QED
  BY <1>15, <1>22, <1>25, <1>26, <1>27, <1>28, <1>29, <1>30, Zenon DEF ScannerIsHonest

\* Theorem: whatever markets come and however the engine answers for each, the
\* scanner's quotes do not depend on who makes them, it says so wherever one was
\* the gateway's own, its list, its rejections and its summary add up, each
\* market of the list can be looked at, and without classifications there is none.
THEOREM ScannerHonest ==
  ASSUME NEW M, NEW events \in Seq(Seq(M)), NEW mode, NEW classes, NEW scope, NEW engine
  PROVE  ScannerIsHonest(events, mode, classes, scope, engine)
<1>1. PICK all, found : all = FlattenSeq(events) /\ found = Discover(events, mode, classes, scope)
  OBVIOUS
<1>2. PICK reasons : reasons = Reasons(all, mode, classes, scope)
  OBVIOUS
<1>3. AreSplit(all, reasons, found, M, mode, classes, scope)
  BY <1>1, <1>2, DiscoverIs
<1>4. QED
  BY <1>1, <1>3, ScannerIsFair

-----------------------------------------------------------------------------
(* Products of lists.                                                        *)
ProductStep(f, s, n) == IF n = 0 THEN 1 ELSE f[n - 1] * s[n]
ProductBuilt(f, s, N) == f = [n \in 0 .. N |-> ProductStep(f, s, n)]

LEMMA ProductBuilds ==
  ASSUME NEW s \in Seq(Nat)
  PROVE  \E f : /\ f \in [0 .. Len(s) -> Nat] /\ f[0] = 1 /\ f[Len(s)] = Product(s)
                /\ \A n \in 1 .. Len(s) : f[n] = f[n - 1] * s[n]
<1>1. PICK N \in Nat : N = Len(s)
  OBVIOUS
<1>2. PICK step : step = [n \in 1 .. N |-> [x \in Nat |-> x * s[n]]]
  OBVIOUS
<1>3. ASSUME NEW n \in 1 .. N, NEW x \in Nat
      PROVE  step[n][x] = x * s[n] /\ step[n][x] \in Nat
  <2>1. PICK y \in Nat : y = s[n]
    BY <1>1
  <2>2. step[n][x] = x * y
    BY <1>2, <2>1
  <2>3. x * y \in Nat
    BY SMT
  <2>4. QED
    BY <2>1, <2>2, <2>3
<1>4. PICK g : Recursion(g, N, Nat, 1, step)
  <2>1. \A n \in 1 .. N : \A x \in Nat : step[n][x] \in Nat
    BY <1>3
  <2>2. 1 \in Nat
    OBVIOUS
  <2>3. \E g : Recursion(g, N, Nat, 1, step)
    BY <2>1, <2>2, RecursionExists
  <2>4. QED
    BY <2>3
<1>5. ASSUME NEW n \in 1 .. N PROVE g[n] = g[n - 1] * s[n]
  <2>1. n - 1 \in 0 .. N /\ g[n - 1] \in Nat
    BY <1>4 DEF Recursion
  <2>2. g[n] = step[n][g[n - 1]]
    BY <1>4 DEF Recursion
  <2>3. QED
    BY <1>3, <2>1, <2>2
<1>6. ProductBuilt(g, s, N)
  <2>1. g = [n \in 0 .. N |-> g[n]]
    BY <1>4 DEF Recursion
  <2>2. ASSUME NEW n \in 0 .. N PROVE g[n] = ProductStep(g, s, n)
    <3>1. CASE n = 0
      BY <1>4, <3>1 DEF ProductStep, Recursion
    <3>2. CASE n # 0
      <4>1. n \in 1 .. N
        BY <3>2
      <4>2. QED
        BY <1>5, <3>2, <4>1 DEF ProductStep
    <3>3. QED
      BY <3>1, <3>2
  <2>3. QED
    BY <2>1, <2>2 DEF ProductBuilt
<1>7. Product(s) = (CHOOSE f : ProductBuilt(f, s, Len(s)))[Len(s)]
  BY DEF Product, ProductBuilt, ProductStep
<1>8. PICK f : f = CHOOSE h : ProductBuilt(h, s, N)
  OBVIOUS
<1>9. ProductBuilt(f, s, N)
  BY <1>6, <1>8
<1>10. \A n \in 0 .. N : f[n] = ProductStep(f, s, n)
  BY <1>9 DEF ProductBuilt
<1>11. f[0] = 1 /\ \A n \in 1 .. N : f[n] = f[n - 1] * s[n]
  BY <1>10 DEF ProductStep
<1>12. \A n \in 0 .. N : f[n] \in Nat
  <2>1. PICK K : K = {n \in 0 .. N : f[n] \in Nat}
    OBVIOUS
  <2>2. 0 \in K
    BY <1>11, <2>1
  <2>3. ASSUME NEW n \in 0 .. N - 1, n \in K PROVE n + 1 \in K
    <3>1. n + 1 \in 1 .. N /\ (n + 1) - 1 = n /\ s[n + 1] \in Nat
      BY <1>1
    <3>2. f[n + 1] = f[n] * s[n + 1]
      BY <1>11, <3>1
    <3>3. PICK x \in Nat, y \in Nat : x = f[n] /\ y = s[n + 1]
      BY <2>1, <2>3, <3>1
    <3>4. x * y \in Nat
      BY SMT
    <3>5. QED
      BY <2>1, <3>1, <3>2, <3>3, <3>4
  <2>4. 0 .. N \subseteq K
    BY <2>2, <2>3, CountUp
  <2>5. QED
    BY <2>1, <2>4
<1>13. DOMAIN f = 0 .. N /\ f = [n \in 0 .. N |-> f[n]]
  BY <1>9 DEF ProductBuilt
<1>14. f \in [0 .. N -> Nat]
  BY <1>12, <1>13
<1>15. f[Len(s)] = Product(s)
  BY <1>1, <1>7, <1>8
<1>16. QED
  BY <1>1, <1>11, <1>14, <1>15

LEMMA TimesOf ==
  ASSUME NEW a \in Nat, NEW b \in Nat, NEW c \in Nat
  PROVE  (a * b) * c = a * (b * c) /\ a * b \in Nat /\ b * c \in Nat
BY SMT

\* The first factor of a product can be taken out of it.
LEMMA ProductOfFirst ==
  ASSUME NEW s \in Seq(Nat), NEW t \in Seq(Nat), Len(s) = Len(t) + 1,
         \A i \in 1 .. Len(t) : t[i] = s[i + 1]
  PROVE  Product(s) = s[1] * Product(t) /\ Product(s) \in Nat /\ Product(t) \in Nat
<1>1. PICK N \in Nat : N = Len(t) /\ Len(s) = N + 1
  OBVIOUS
<1>2. PICK f : /\ f \in [0 .. N + 1 -> Nat] /\ f[0] = 1 /\ f[N + 1] = Product(s)
               /\ \A n \in 1 .. N + 1 : f[n] = f[n - 1] * s[n]
  <2>1. \E h : /\ h \in [0 .. Len(s) -> Nat] /\ h[0] = 1 /\ h[Len(s)] = Product(s)
               /\ \A n \in 1 .. Len(s) : h[n] = h[n - 1] * s[n]
    BY ProductBuilds
  <2>2. QED
    BY <1>1, <2>1
<1>3. PICK g : /\ g \in [0 .. N -> Nat] /\ g[0] = 1 /\ g[N] = Product(t)
               /\ \A n \in 1 .. N : g[n] = g[n - 1] * t[n]
  <2>1. \E h : /\ h \in [0 .. Len(t) -> Nat] /\ h[0] = 1 /\ h[Len(t)] = Product(t)
               /\ \A n \in 1 .. Len(t) : h[n] = h[n - 1] * t[n]
    BY ProductBuilds
  <2>2. QED
    BY <1>1, <2>1
<1>4. PICK a \in Nat : a = s[1]
  <2>1. 1 \in 1 .. Len(s)
    BY <1>1
  <2>2. QED
    BY <2>1
<1>5. PICK K : K = {n \in 0 .. N : f[n + 1] = a * g[n]}
  OBVIOUS
<1>6. 0 \in K
  <2>1. 1 \in 1 .. N + 1 /\ 1 - 1 = 0
    OBVIOUS
  <2>2. f[1] = f[0] * s[1]
    BY <1>2, <2>1
  <2>3. f[1] = a * 1
    BY <1>2, <1>4, <2>2
  <2>4. QED
    BY <1>3, <1>5, <2>3
<1>7. ASSUME NEW n \in 0 .. N - 1, n \in K PROVE n + 1 \in K
  <2>1. /\ n + 1 \in 1 .. N /\ (n + 1) - 1 = n /\ (n + 1) + 1 \in 1 .. N + 1
        /\ ((n + 1) + 1) - 1 = n + 1 /\ n \in 0 .. N
    OBVIOUS
  <2>2. g[n + 1] = g[n] * t[n + 1]
    BY <1>3, <2>1
  <2>3. f[(n + 1) + 1] = f[n + 1] * s[(n + 1) + 1]
    BY <1>2, <2>1
  <2>4. t[n + 1] = s[(n + 1) + 1]
    BY <1>1, <2>1
  <2>5. PICK b \in Nat, c \in Nat : b = g[n] /\ c = t[n + 1]
    <3>1. g[n] \in Nat
      BY <1>3, <2>1
    <3>2. t[n + 1] \in Nat
      BY <1>1, <2>1
    <3>3. QED
      BY <3>1, <3>2
  <2>6. f[n + 1] = a * b
    BY <1>5, <1>7, <2>5
  <2>7. f[(n + 1) + 1] = (a * b) * c /\ g[n + 1] = b * c
    BY <2>2, <2>3, <2>4, <2>5, <2>6
  <2>8. f[(n + 1) + 1] = a * g[n + 1]
    BY <2>7, TimesOf
  <2>9. QED
    BY <1>5, <2>1, <2>8
<1>8. N \in K
  <2>1. 0 .. N \subseteq K
    BY <1>6, <1>7, CountUp
  <2>2. QED
    BY <2>1
<1>9. Product(t) \in Nat /\ Product(s) \in Nat
  BY <1>2, <1>3
<1>10. QED
  BY <1>2, <1>3, <1>4, <1>5, <1>8, <1>9

\* Division by a product is one division after the other.
LEMMA DivisionInTurn ==
  ASSUME NEW k \in Nat, NEW p \in Nat \ {0}, NEW s \in Nat \ {0}
  PROVE  k \div (s * p) = (k \div p) \div s /\ k \div p \in Nat
<1>1. PICK q \in Nat : q = k \div p
  BY ShareIsNatural
<1>2. PICK h \in Nat : h = q \div s
  BY ShareIsNatural
<1>3. /\ p * q <= k /\ k < p * (q + 1)
      /\ s * h <= q /\ q < s * (h + 1)
  BY <1>1, <1>2
<1>4. /\ (s * p) * h = p * (s * h) /\ (s * p) * (h + 1) = p * (s * (h + 1))
      /\ s * p \in Nat /\ s * p > 0 /\ s * h \in Nat /\ s * (h + 1) \in Nat
  BY SMT
<1>5. PICK u \in Nat, v \in Nat, d \in Nat : u = s * h /\ v = s * (h + 1) /\ d = s * p
  BY <1>4
<1>6. p * u <= p * q
  BY <1>3, <1>5
<1>7. p * (q + 1) <= p * v
  BY <1>3, <1>5
<1>8. d * h <= k /\ k < d * (h + 1) /\ d > 0
  <2>1. d * h = p * u /\ d * (h + 1) = p * v /\ d > 0
    BY <1>4, <1>5
  <2>2. PICK A \in Int, B \in Int, C \in Int, D \in Int :
          A = p * u /\ B = p * q /\ C = p * (q + 1) /\ D = p * v
    OBVIOUS
  <2>3. QED
    BY <1>3, <1>6, <1>7, <2>1, <2>2
<1>9. k \div d = h
  <2>1. PICK e \in Nat : e = k \div d
    BY <1>8, ShareIsNatural
  <2>2. d * e <= k /\ k < d * (e + 1)
    BY <1>8, <2>1
  <2>3. CASE e < h
    <3>1. d * (e + 1) <= d * h
      BY <2>3
    <3>2. QED
      BY <1>8, <2>2, <3>1
  <2>4. CASE h < e
    <3>1. d * (h + 1) <= d * e
      BY <2>4
    <3>2. QED
      BY <1>8, <2>2, <3>1
  <2>5. QED
    BY <2>1, <2>3, <2>4
<1>10. QED
  BY <1>1, <1>2, <1>5, <1>9

\* Two numbers agree if they agree in the higher places and in this one.
LEMMA DigitsAgree ==
  ASSUME NEW j \in Nat, NEW k \in Nat, NEW p \in Nat \ {0}, NEW s \in Nat \ {0},
         j \div (s * p) = k \div (s * p), (j \div p) % s = (k \div p) % s
  PROVE  j \div p = k \div p
<1>1. PICK a \in Nat, b \in Nat : a = j \div p /\ b = k \div p
  BY ShareIsNatural
<1>2. a \div s = b \div s
  BY <1>1, DivisionInTurn
<1>3. a % s = b % s
  BY <1>1
<1>4. a = s * (a \div s) + (a % s) /\ b = s * (b \div s) + (b % s)
  BY SMT
<1>5. PICK q \in Int, r \in Int : q = a \div s /\ r = a % s
  <2>1. a \div s \in Int /\ a % s \in Int
    OBVIOUS
  <2>2. QED
    BY <2>1
<1>6. a = s * q + r /\ b = s * q + r
  BY <1>2, <1>3, <1>4, <1>5
<1>7. QED
  BY <1>1, <1>6

\* The places of a mixed number: what one of them counts, and its digit there.
PlaceValue(sizes, i) == Product(SubSeq(sizes, i + 1, Len(sizes)))
Digit(sizes, k, i) == (k \div PlaceValue(sizes, i)) % sizes[i]

LEMMA PlaceValueIs ==
  ASSUME NEW sizes \in Seq(Nat), NEW i \in 1 .. Len(sizes)
  PROVE  /\ PlaceValue(sizes, i - 1) = sizes[i] * PlaceValue(sizes, i)
         /\ PlaceValue(sizes, i) \in Nat /\ PlaceValue(sizes, i - 1) \in Nat
<1>1. PICK N \in Nat : N = Len(sizes)
  OBVIOUS
<1>2. PICK s : s = SubSeq(sizes, i, N)
  OBVIOUS
<1>3. PICK t : t = SubSeq(sizes, i + 1, N)
  OBVIOUS
<1>4. s = [n \in 1 .. N + 1 - i |-> sizes[i + n - 1]] /\ s \in Seq(Nat) /\ Len(s) = N + 1 - i
  BY <1>1, <1>2
<1>5. t = [n \in 1 .. N - i |-> sizes[i + n]] /\ t \in Seq(Nat) /\ Len(t) = N - i
  BY <1>1, <1>3
<1>6. Len(s) = Len(t) + 1 /\ s[1] = sizes[i]
  BY <1>1, <1>4, <1>5
<1>7. \A n \in 1 .. Len(t) : t[n] = s[n + 1]
  BY <1>1, <1>4, <1>5
<1>8. Product(s) = s[1] * Product(t) /\ Product(s) \in Nat /\ Product(t) \in Nat
  BY <1>4, <1>5, <1>6, <1>7, ProductOfFirst
<1>9. (i - 1) + 1 = i
  OBVIOUS
<1>10. PlaceValue(sizes, i - 1) = Product(s) /\ PlaceValue(sizes, i) = Product(t)
  BY <1>1, <1>2, <1>3, <1>9 DEF PlaceValue
<1>11. QED
  BY <1>6, <1>8, <1>10

LEMMA LastPlaceIsOne ==
  ASSUME NEW sizes \in Seq(Nat)
  PROVE  PlaceValue(sizes, Len(sizes)) = 1 /\ PlaceValue(sizes, 0) = Product(sizes)
<1>1. PICK e : e = <<>> /\ e \in Seq(Nat) /\ Len(e) = 0
  <2>1. <<>> \in Seq(Nat) /\ Len(<<>>) = 0
    OBVIOUS
  <2>2. PICK e : e = <<>>
    OBVIOUS
  <2>3. QED
    BY <2>1, <2>2
<1>2. Product(e) = 1
  <2>1. PICK f : /\ f \in [0 .. Len(e) -> Nat] /\ f[0] = 1 /\ f[Len(e)] = Product(e)
                 /\ \A n \in 1 .. Len(e) : f[n] = f[n - 1] * e[n]
    BY <1>1, ProductBuilds
  <2>2. QED
    BY <1>1, <2>1
<1>3. SubSeq(sizes, Len(sizes) + 1, Len(sizes)) = e
  BY <1>1
<1>4. SubSeq(sizes, 1, Len(sizes)) = sizes
  OBVIOUS
<1>5. 0 + 1 = 1
  OBVIOUS
<1>6. PlaceValue(sizes, 0) = Product(sizes)
  BY <1>4, <1>5, Zenon DEF PlaceValue
<1>7. QED
  BY <1>2, <1>3, <1>6 DEF PlaceValue

LEMMA FactorsArePositive ==
  ASSUME NEW a \in Nat, NEW b \in Nat, a * b # 0
  PROVE  a # 0 /\ b # 0
BY SMT

\* Nothing is zero in a product that is not.
LEMMA PlacesArePositive ==
  ASSUME NEW sizes \in Seq(Nat), Product(sizes) # 0
  PROVE  /\ \A i \in 0 .. Len(sizes) : PlaceValue(sizes, i) \in Nat \ {0}
         /\ \A i \in 1 .. Len(sizes) : sizes[i] \in Nat \ {0}
<1>1. PICK N \in Nat : N = Len(sizes)
  OBVIOUS
<1>2. PICK K : K = {i \in 0 .. N : PlaceValue(sizes, i) \in Nat \ {0}}
  OBVIOUS
<1>3. 0 \in K
  <2>1. PlaceValue(sizes, 0) # 0
    BY LastPlaceIsOne
  <2>2. PlaceValue(sizes, 0) \in Nat
    <3>1. CASE N = 0
      <4>1. PlaceValue(sizes, 0) = 1
        BY <1>1, <3>1, LastPlaceIsOne
      <4>2. QED
        BY <4>1
    <3>2. CASE N # 0
      <4>1. 1 \in 1 .. Len(sizes) /\ 1 - 1 = 0
        BY <1>1, <3>2
      <4>2. QED
        BY <4>1, PlaceValueIs
    <3>3. QED
      BY <3>1, <3>2
  <2>3. QED
    BY <1>2, <2>1, <2>2
<1>4. ASSUME NEW i \in 0 .. N - 1, i \in K PROVE i + 1 \in K /\ sizes[i + 1] # 0
  <2>1. i + 1 \in 1 .. Len(sizes) /\ (i + 1) - 1 = i /\ i + 1 \in 0 .. N
    BY <1>1
  <2>2. PlaceValue(sizes, i) = sizes[i + 1] * PlaceValue(sizes, i + 1) /\ PlaceValue(sizes, i + 1) \in Nat
    BY <2>1, PlaceValueIs
  <2>3. PICK a \in Nat, b \in Nat : a = sizes[i + 1] /\ b = PlaceValue(sizes, i + 1)
    <3>1. sizes[i + 1] \in Nat
      BY <2>1
    <3>2. QED
      BY <2>2, <3>1
  <2>4. a * b # 0
    BY <1>2, <1>4, <2>2, <2>3
  <2>5. a # 0 /\ b # 0
    BY <2>4, FactorsArePositive
  <2>6. QED
    BY <1>2, <2>1, <2>3, <2>5
<1>5. 0 .. N \subseteq K
  BY <1>3, <1>4, CountUp
<1>6. ASSUME NEW i \in 1 .. N PROVE sizes[i] \in Nat \ {0}
  <2>1. i - 1 \in 0 .. N - 1 /\ i - 1 \in 0 .. N /\ (i - 1) + 1 = i /\ sizes[i] \in Nat
    BY <1>1
  <2>2. i - 1 \in K
    BY <1>5, <2>1
  <2>3. sizes[(i - 1) + 1] # 0
    BY <1>4, <2>1, <2>2
  <2>4. QED
    BY <2>1, <2>3
<1>7. QED
  BY <1>1, <1>2, <1>5, <1>6

LEMMA SmallShare ==
  ASSUME NEW k \in Nat, NEW p \in Nat, k < p
  PROVE  k \div p = 0
<1>1. p \in Nat \ {0}
  OBVIOUS
<1>2. PICK q \in Nat : q = k \div p
  BY <1>1, ShareIsNatural
<1>3. p * q <= k
  BY <1>1, <1>2
<1>4. CASE q >= 1
  <2>1. p * 1 <= p * q
    BY <1>4
  <2>2. QED
    BY <1>3, <2>1
<1>5. QED
  BY <1>2, <1>4

\* Numbers of the same digits are the same, as long as there are places enough.
LEMMA DigitsTell ==
  ASSUME NEW sizes \in Seq(Nat), NEW j \in Nat, NEW k \in Nat,
         j < Product(sizes), k < Product(sizes), Product(sizes) \in Nat,
         \A i \in 1 .. Len(sizes) : Digit(sizes, j, i) = Digit(sizes, k, i)
  PROVE  j = k
<1>1. PICK N \in Nat : N = Len(sizes)
  OBVIOUS
<1>2. /\ \A i \in 0 .. N : PlaceValue(sizes, i) \in Nat \ {0}
      /\ \A i \in 1 .. N : sizes[i] \in Nat \ {0}
  <2>1. Product(sizes) # 0
    OBVIOUS
  <2>2. QED
    BY <1>1, <2>1, PlacesArePositive
<1>3. PICK K : K = {i \in 0 .. N : j \div PlaceValue(sizes, i) = k \div PlaceValue(sizes, i)}
  OBVIOUS
<1>4. 0 \in K
  <2>1. PICK p \in Nat : p = PlaceValue(sizes, 0) /\ j < p /\ k < p
    BY LastPlaceIsOne
  <2>2. j \div p = 0 /\ k \div p = 0
    BY <2>1, SmallShare
  <2>3. QED
    BY <1>3, <2>1, <2>2
<1>5. ASSUME NEW i \in 0 .. N - 1, i \in K PROVE i + 1 \in K
  <2>1. i + 1 \in 1 .. Len(sizes) /\ (i + 1) - 1 = i /\ i + 1 \in 0 .. N /\ i + 1 \in 1 .. N
    BY <1>1
  <2>2. PICK p \in Nat \ {0} : p = PlaceValue(sizes, i + 1)
    BY <1>2, <2>1
  <2>3. PICK s \in Nat \ {0} : s = sizes[i + 1]
    BY <1>2, <2>1
  <2>4. PlaceValue(sizes, i) = s * p
    <3>1. PlaceValue(sizes, (i + 1) - 1) = sizes[i + 1] * PlaceValue(sizes, i + 1)
      BY <2>1, PlaceValueIs
    <3>2. QED
      BY <2>1, <2>2, <2>3, <3>1
  <2>5. j \div (s * p) = k \div (s * p)
    BY <1>3, <1>5, <2>4
  <2>6. (j \div p) % s = (k \div p) % s
    BY <2>1, <2>2, <2>3 DEF Digit
  <2>7. j \div p = k \div p
    BY <2>5, <2>6, DigitsAgree
  <2>8. QED
    BY <1>3, <2>1, <2>2, <2>7
<1>6. 0 .. N \subseteq K
  BY <1>4, <1>5, CountUp
<1>7. j \div 1 = k \div 1
  <2>1. N \in K
    BY <1>6
  <2>2. PlaceValue(sizes, N) = 1
    BY <1>1, LastPlaceIsOne
  <2>3. QED
    BY <1>3, <2>1, <2>2
<1>8. QED
  BY <1>7

-----------------------------------------------------------------------------
(* The grid of the strategy lab.                                             *)
NoneTwice(list) ==
  /\ Len(list) \in Nat /\ DOMAIN list = 1 .. Len(list)
  /\ \A i, j \in 1 .. Len(list) : list[i] = list[j] => i = j

InOrderOf(P) ==
  [i \in 1 .. Cardinality(P) |-> CHOOSE v \in P : Cardinality({u \in P : u < v}) = i - 1]

\* Values that were accepted come once.
LEMMA SanitizedIsDistinct ==
  ASSUME NEW values \in Seq(Int), NEW accepts, accepts \subseteq Int, IsFiniteSet(accepts)
  PROVE  NoneTwice(Sanitized(values, accepts))
<1>1. PICK P : P = Range(values) \cap accepts
  OBVIOUS
<1>2. IsFiniteSet(P) /\ P \subseteq Int
  <2>1. P \in SUBSET accepts
    BY <1>1
  <2>2. QED
    BY <2>1, FS_Subset
<1>3. PICK key \in [P -> Int] : \A v \in P : key[v] = v
  <2>1. [v \in P |-> v] \in [P -> Int]
    BY <1>2
  <2>2. QED
    BY <2>1
<1>4. PICK n \in Nat : n = Cardinality(P)
  BY <1>2, FS_CardinalityType
<1>5. \A u, v \in P : Earlier(u, v, key) <=> u < v
  BY <1>2, <1>3 DEF Earlier
<1>6. \A m \in 1 .. n : \E v \in P : Cardinality({u \in P : u < v}) = m - 1
  <2>0. \A m \in 1 .. Cardinality(P) : \E v \in P : Cardinality({u \in P : Earlier(u, v, key)}) = m - 1
    BY <1>2, PlacesAreTaken, Zenon
  <2>1. \A m \in 1 .. n : \E v \in P : Cardinality({u \in P : Earlier(u, v, key)}) = m - 1
    BY <1>4, <2>0, Zenon
  <2>2. \A v \in P : {u \in P : Earlier(u, v, key)} = {u \in P : u < v}
    BY <1>5
  <2>3. QED
    BY <2>1, <2>2
<1>7. PICK list : list = Sanitized(values, accepts)
  OBVIOUS
<1>8. list = [i \in 1 .. n |-> CHOOSE v \in P : Cardinality({u \in P : u < v}) = i - 1]
  <2>1. Sanitized(values, accepts) = InOrderOf(Range(values) \cap accepts)
    BY Zenon DEF Sanitized, InOrderOf
  <2>2. list = InOrderOf(P)
    BY <1>1, <1>7, <2>1
  <2>3. QED
    BY <1>4, <2>2, Zenon DEF InOrderOf
<1>9. \A i \in 1 .. n : Cardinality({u \in P : u < list[i]}) = i - 1
  BY <1>6, <1>8
<1>10. ASSUME NEW i \in 1 .. n, NEW j \in 1 .. n, list[i] = list[j] PROVE i = j
  <2>1. Cardinality({u \in P : u < list[i]}) = i - 1 /\ Cardinality({u \in P : u < list[j]}) = j - 1
    BY <1>9
  <2>2. i - 1 = j - 1
    BY <1>10, <2>1, Zenon
  <2>3. QED
    BY <2>2
<1>11. DOMAIN list = 1 .. n /\ Len(list) = n
  <2> DEFINE InPlace(i) == CHOOSE v \in P : Cardinality({u \in P : u < v}) = i - 1
  <2>0. list = [i \in 1 .. n |-> InPlace(i)]
    BY <1>8
  <2> HIDE DEF InPlace
  <2>1. list = [i \in 1 .. n |-> list[i]]
    BY <2>0
  <2>2. PICK T : \A i \in 1 .. n : list[i] \in T
    <3>1. \A i \in 1 .. n : list[i] \in {list[m] : m \in 1 .. n}
      OBVIOUS
    <3>2. QED
      BY <3>1, Zenon
  <2>3. QED
    BY <2>1, <2>2
<1>12. NoneTwice(list)
  BY <1>4, <1>10, <1>11 DEF NoneTwice
<1>13. QED
  BY <1>7, <1>12

\* Intervals, too, the first time they are named.
FirstNamed(accepted) == {i \in DOMAIN accepted : \A j \in 1 .. i - 1 : accepted[j] # accepted[i]}

LEMMA IntervalsAreDistinct ==
  ASSUME NEW S, NEW intervals \in Seq(S)
  PROVE  NoneTwice(SanitizedIntervals(intervals))
<1>1. PICK known : known = {i \in DOMAIN intervals : intervals[i] \in {"1m", "5m", "15m", "1h"}}
  OBVIOUS
<1>2. PICK accepted : accepted = Kept(intervals, known)
  OBVIOUS
<1>3. accepted \in Seq(S)
  <2>1. known \in SUBSET (1 .. Len(intervals))
    BY <1>1
  <2>2. QED
    BY <1>2, <2>1, KeptElements
<1>4. PICK first : first = FirstNamed(accepted)
  OBVIOUS
<1>5. first \in SUBSET (1 .. Len(accepted))
  BY <1>3, <1>4 DEF FirstNamed
<1>6. PICK list : list = Kept(accepted, first)
  OBVIOUS
<1>7. PICK n \in Nat : \E at : IsKept(list, accepted, first, n, at)
  BY <1>3, <1>5, <1>6, KeptEnumerates
<1>8. PICK at : IsKept(list, accepted, first, n, at)
  BY <1>7
<1>9. first \in SUBSET Int /\ Enumerates(at, n, first) /\ list = [k \in 1 .. n |-> accepted[at[k]]]
  BY <1>5, <1>8 DEF IsKept
<1>10. /\ \A k \in 1 .. n : at[k] \in first /\ at[k] \in Int
       /\ \A k, l \in 1 .. n : k < l => at[k] < at[l]
  BY <1>9, EnumerationIs
<1>11. ASSUME NEW k \in 1 .. n, NEW l \in 1 .. n, k < l PROVE list[k] # list[l]
  <2>1. at[k] < at[l] /\ at[l] \in first /\ at[k] \in first
    BY <1>10, <1>11
  <2>2. at[k] \in 1 .. at[l] - 1
    BY <1>5, <1>10, <2>1
  <2>3. accepted[at[k]] # accepted[at[l]]
    BY <1>4, <2>1, <2>2 DEF FirstNamed
  <2>4. QED
    BY <1>9, <2>3
<1>12. NoneTwice(list)
  <2>1. Len(list) = n /\ DOMAIN list = 1 .. n
    <3>1. \A k \in 1 .. n : accepted[at[k]] \in S
      BY <1>3, <1>5, <1>10
    <3>2. list \in Seq(S) /\ Len(list) = n
      BY <1>9, <3>1
    <3>3. QED
      BY <3>2
  <2>2. QED
    BY <1>11, <2>1 DEF NoneTwice
<1>13. NoneTwice(<<"5m", "15m">>)
  BY DEF NoneTwice
<1>14. SanitizedIntervals(intervals) = IF accepted = <<>> THEN <<"5m", "15m">> ELSE list
  BY <1>1, <1>2, <1>4, <1>6, Zenon DEF SanitizedIntervals, FirstNamed
<1>15. QED
  BY <1>12, <1>13, <1>14

\* What a grid is asked with: the numbers of each parameter, and the most
\* combinations wanted, which may be Null.
GridAsked(options) ==
  /\ options.minEdge \in Seq(Int) /\ options.maxSpread \in Seq(Int) /\ options.lookback \in Seq(Int)
  /\ options.minConfidence \in Seq(Int) /\ options.fees \in Seq(Int) /\ options.slippage \in Seq(Int)
  /\ options.maxCombinations \in Int

LEMMA AcceptedRangesAreFinite ==
  ASSUME NEW a \in Int, NEW b \in Int
  PROVE  a .. b \subseteq Int /\ IsFiniteSet(a .. b)
BY FS_Interval

LEMMA GridListsAreDistinct ==
  ASSUME NEW S, NEW options, options.intervals \in Seq(S), GridAsked(options)
  PROVE  /\ DOMAIN GridLists(options) = 1 .. 7
         /\ \A i \in 1 .. 7 : NoneTwice(GridLists(options)[i])
<1>1. /\ options.minEdge \in Seq(Int) /\ options.maxSpread \in Seq(Int) /\ options.lookback \in Seq(Int)
      /\ options.minConfidence \in Seq(Int) /\ options.fees \in Seq(Int) /\ options.slippage \in Seq(Int)
  BY DEF GridAsked
<1>2. PICK l1 : l1 = SanitizedIntervals(options.intervals)
  OBVIOUS
<1>3. NoneTwice(l1)
  BY <1>2, IntervalsAreDistinct
<1>4. ASSUME NEW values \in Seq(Int), NEW a \in Int, NEW b \in Int
      PROVE  NoneTwice(Sanitized(values, a .. b))
  <2>1. PICK accepts : accepts = a .. b
    OBVIOUS
  <2>2. accepts \subseteq Int /\ IsFiniteSet(accepts)
    BY <2>1, AcceptedRangesAreFinite
  <2>3. NoneTwice(Sanitized(values, accepts))
    BY <2>2, SanitizedIsDistinct
  <2>4. QED
    BY <2>1, <2>3
<1>5. PICK n0 \in Int, n1 \in Int, n10 \in Int, most \in Int, widest \in Int, all \in Int :
        n0 = 0 /\ n1 = 1 /\ n10 = 10 /\ most = 1000 /\ widest = 5000 /\ all = One
  BY DEF One
<1>6. PICK l2 : l2 = Sanitized(options.minEdge, n0 .. widest)
  OBVIOUS
<1>7. PICK l3 : l3 = Sanitized(options.maxSpread, n1 .. all)
  OBVIOUS
<1>8. PICK l4 : l4 = Sanitized(options.lookback, n10 .. most)
  OBVIOUS
<1>9. PICK l5 : l5 = Sanitized(options.minConfidence, n0 .. all)
  OBVIOUS
<1>10. PICK l6 : l6 = Sanitized(options.fees, n0 .. most)
  OBVIOUS
<1>11. PICK l7 : l7 = Sanitized(options.slippage, n0 .. most)
  OBVIOUS
<1>12. NoneTwice(l2)
  BY <1>1, <1>4, <1>6, Zenon
<1>13. NoneTwice(l3)
  BY <1>1, <1>4, <1>7, Zenon
<1>14. NoneTwice(l4)
  BY <1>1, <1>4, <1>8, Zenon
<1>15. NoneTwice(l5)
  BY <1>1, <1>4, <1>9, Zenon
<1>16. NoneTwice(l6) /\ NoneTwice(l7)
  BY <1>1, <1>4, <1>10, <1>11, Zenon
<1>17. PICK lists : lists = <<l1, l2, l3, l4, l5, l6, l7>>
  OBVIOUS
<1>18. lists = GridLists(options)
  BY <1>2, <1>5, <1>6, <1>7, <1>8, <1>9, <1>10, <1>11, <1>17 DEF GridLists
<1>19. DOMAIN lists = 1 .. 7
  BY <1>17
<1>20. ASSUME NEW i \in 1 .. 7 PROVE NoneTwice(lists[i])
  <2>1. /\ lists[1] = l1 /\ lists[2] = l2 /\ lists[3] = l3 /\ lists[4] = l4 /\ lists[5] = l5
        /\ lists[6] = l6 /\ lists[7] = l7
    BY <1>17
  <2>2. \/ i = 1 \/ i = 2 \/ i = 3 \/ i = 4 \/ i = 5 \/ i = 6 \/ i = 7
    BY <1>20
  <2>3. QED
    BY <1>3, <1>12, <1>13, <1>14, <1>15, <1>16, <2>1, <2>2, Zenon
<1>21. QED
  BY <1>18, <1>19, <1>20

\* The combination at one place of the order.
Combination(lists, sizes, k) == [i \in DOMAIN lists |-> lists[i][1 + Digit(sizes, k, i)]]
Combinations(lists, sizes, count) == [k \in 1 .. count |-> Combination(lists, sizes, k - 1)]
SizesOf(lists) == [i \in DOMAIN lists |-> Len(lists[i])]

LEMMA ParameterGridIs ==
  ASSUME NEW options, NEW lists, lists = GridLists(options), NEW sizes, sizes = SizesOf(lists)
  PROVE  ParameterGrid(options) =
           Combinations(lists, sizes, Min({Product(sizes), MaxCombinations(options.maxCombinations)}))
BY Zenon DEF ParameterGrid, Combinations, Combination, SizesOf, Digit, PlaceValue

\* THE GRID.  Whatever values are asked for, the grid has as many combinations
\* as there are or as many as are allowed, each of them once, and all of
\* accepted values (buildFairValueV1ParameterGrid).
THEOREM GridWhole ==
  ASSUME NEW S, NEW options, options.intervals \in Seq(S), GridAsked(options)
  PROVE  GridIsWhole(options)
<1>1. PICK lists : lists = GridLists(options)
  OBVIOUS
<1>2. DOMAIN lists = 1 .. 7 /\ \A i \in 1 .. 7 : NoneTwice(lists[i])
  BY <1>1, GridListsAreDistinct
<1>3. PICK sizes : sizes = SizesOf(lists)
  OBVIOUS
<1>4. /\ \A i \in 1 .. 7 : /\ sizes[i] = Len(lists[i]) /\ sizes[i] \in Nat
                           /\ DOMAIN lists[i] = 1 .. sizes[i]
      /\ sizes \in Seq(Nat) /\ Len(sizes) = 7
  <2>1. sizes = [i \in 1 .. 7 |-> Len(lists[i])]
    BY <1>2, <1>3, Zenon DEF SizesOf
  <2>2. ASSUME NEW i \in 1 .. 7
        PROVE sizes[i] = Len(lists[i]) /\ sizes[i] \in Nat /\ DOMAIN lists[i] = 1 .. sizes[i]
    <3>1. NoneTwice(lists[i])
      BY <1>2
    <3>2. sizes[i] = Len(lists[i])
      BY <2>1
    <3>3. QED
      BY <3>1, <3>2 DEF NoneTwice
  <2>3. sizes = [i \in 1 .. 7 |-> sizes[i]]
    BY <2>1
  <2>4. sizes \in Seq(Nat) /\ Len(sizes) = 7
    BY <2>2, <2>3
  <2>5. QED
    BY <2>2, <2>4
<1>5. PICK limit \in 1 .. 100 : limit = MaxCombinations(options.maxCombinations)
  <2>1. PICK asked \in Int : asked = options.maxCombinations
    BY DEF GridAsked
  <2>2. Min({100, asked}) = IF 100 <= asked THEN 100 ELSE asked
    BY MinOfTwo
  <2>3. PICK least \in Int : least = Min({100, asked}) /\ least <= 100
    BY <2>2
  <2>4. Max({1, least}) = IF 1 >= least THEN 1 ELSE least
    BY MaxOfTwo
  <2>5. MaxCombinations(asked) = IF asked = Null THEN 50 ELSE Max({1, least})
    BY <2>3 DEF MaxCombinations
  <2>6. MaxCombinations(asked) \in 1 .. 100
    <3>1. CASE 1 >= least
      BY <2>4, <2>5, <3>1
    <3>2. CASE ~(1 >= least)
      <4>1. Max({1, least}) = least
        BY <2>4, <3>2
      <4>2. least >= 1 /\ least <= 100
        BY <2>3, <3>2
      <4>3. QED
        BY <2>5, <4>1, <4>2
    <3>3. QED
      BY <3>1, <3>2
  <2>7. QED
    BY <2>1, <2>6
<1>6. PICK total \in Nat : total = Product(sizes)
  <2>1. PICK f : /\ f \in [0 .. Len(sizes) -> Nat] /\ f[0] = 1 /\ f[Len(sizes)] = Product(sizes)
                 /\ \A n \in 1 .. Len(sizes) : f[n] = f[n - 1] * sizes[n]
    BY <1>4, ProductBuilds
  <2>2. Product(sizes) \in Nat
    BY <1>4, <2>1
  <2>3. QED
    BY <2>2
<1>7. PICK count \in Nat : /\ count = Min({total, limit}) /\ count <= total /\ count <= limit
                           /\ (count = total \/ count = limit)
  <2>1. Min({total, limit}) = IF total <= limit THEN total ELSE limit
    BY MinOfTwo
  <2>2. QED
    BY <2>1
<1>8. PICK grid : grid = ParameterGrid(options)
  OBVIOUS
<1>9. grid = Combinations(lists, sizes, count)
  BY <1>1, <1>3, <1>5, <1>6, <1>7, <1>8, ParameterGridIs
<1>10. /\ DOMAIN grid = 1 .. count /\ Len(grid) = count
       /\ \A k \in 1 .. count : grid[k] = Combination(lists, sizes, k - 1)
  <2>1. /\ grid = [k \in 1 .. count |-> Combination(lists, sizes, k - 1)]
    BY <1>9 DEF Combinations
  <2>2. PICK T : \A k \in 1 .. count : Combination(lists, sizes, k - 1) \in T
    <3>1. \A k \in 1 .. count : Combination(lists, sizes, k - 1) \in {Combination(lists, sizes, m - 1) : m \in 1 .. count}
      OBVIOUS
    <3>2. QED
      BY <3>1, Zenon
  <2>3. QED
    BY <2>1, <2>2
<1>11. ASSUME NEW k \in 1 .. count, NEW i \in 1 .. 7
       PROVE  /\ grid[k][i] = lists[i][1 + Digit(sizes, k - 1, i)]
              /\ 1 + Digit(sizes, k - 1, i) \in 1 .. sizes[i] /\ Digit(sizes, k - 1, i) \in Nat
  <2>1. grid[k] = [m \in 1 .. 7 |-> lists[m][1 + Digit(sizes, k - 1, m)]]
    BY <1>2, <1>10 DEF Combination
  <2>2. total # 0
    BY <1>7
  <2>3. PICK p \in Nat \ {0} : p = PlaceValue(sizes, i)
    <3>1. i \in 0 .. Len(sizes)
      BY <1>4
    <3>2. QED
      BY <1>4, <1>6, <2>2, <3>1, PlacesArePositive
  <2>4. PICK s \in Nat \ {0} : s = sizes[i]
    <3>1. i \in 1 .. Len(sizes)
      BY <1>4
    <3>2. QED
      BY <1>4, <1>6, <2>2, <3>1, PlacesArePositive
  <2>5. PICK j \in Nat : j = k - 1
    OBVIOUS
  <2>6. PICK q \in Nat : q = j \div p
    BY ShareIsNatural
  <2>7. q % s \in 0 .. s - 1
    BY SMT
  <2>8. Digit(sizes, k - 1, i) = q % s
    BY <2>3, <2>4, <2>5, <2>6 DEF Digit
  <2>9. Digit(sizes, k - 1, i) \in Nat /\ 1 + Digit(sizes, k - 1, i) \in 1 .. sizes[i]
    BY <2>4, <2>7, <2>8
  <2>10. QED
    BY <2>1, <2>9
<1>12. ASSUME NEW j \in 1 .. count, NEW k \in 1 .. count, grid[j] = grid[k] PROVE j = k
  <2>1. ASSUME NEW i \in 1 .. 7 PROVE Digit(sizes, j - 1, i) = Digit(sizes, k - 1, i)
    <3>1. PICK a \in Nat, b \in Nat : a = Digit(sizes, j - 1, i) /\ b = Digit(sizes, k - 1, i)
      BY <1>11
    <3>2. lists[i][1 + a] = lists[i][1 + b] /\ 1 + a \in 1 .. sizes[i] /\ 1 + b \in 1 .. sizes[i]
      BY <1>11, <1>12, <3>1
    <3>3. NoneTwice(lists[i]) /\ Len(lists[i]) = sizes[i]
      BY <1>2, <1>4
    <3>4. 1 + a = 1 + b
      BY <3>2, <3>3 DEF NoneTwice
    <3>5. QED
      BY <3>1, <3>4
  <2>2. PICK m \in Nat, n \in Nat : m = j - 1 /\ n = k - 1 /\ m < total /\ n < total
    BY <1>7
  <2>3. \A i \in 1 .. Len(sizes) : Digit(sizes, m, i) = Digit(sizes, n, i)
    BY <1>4, <2>1, <2>2
  <2>4. m = n
    BY <1>4, <1>6, <2>2, <2>3, DigitsTell
  <2>5. QED
    BY <2>2, <2>4
<1>13. ASSUME NEW k \in 1 .. count, NEW i \in 1 .. 7 PROVE grid[k][i] \in Range(lists[i])
  <2>1. 1 + Digit(sizes, k - 1, i) \in DOMAIN lists[i]
    BY <1>4, <1>11
  <2>2. QED
    BY <1>11, <2>1 DEF Range
<1>14. \A j, k \in DOMAIN grid : j # k => grid[j] # grid[k]
  BY <1>10, <1>12
<1>15. \A k \in DOMAIN grid : \A i \in DOMAIN lists : grid[k][i] \in Range(lists[i])
  BY <1>2, <1>10, <1>13
<1>16. Len(grid) <= limit /\ (Len(grid) < total => Len(grid) = limit)
  BY <1>7, <1>10
<1>17. Product([i \in DOMAIN lists |-> Len(lists[i])]) = total
  BY <1>3, <1>6 DEF SizesOf
<1>18. QED
  BY <1>1, <1>5, <1>8, <1>14, <1>15, <1>16, <1>17 DEF GridIsWhole

-----------------------------------------------------------------------------
(* The mock replay.  A result of its file has a status, and a profit exactly *)
(* if it is counted.                                                         *)
ResultFields == {"signal", "status", "counted", "entry", "pnl"}
IsMockResult(b) ==
  /\ DOMAIN b = ResultFields /\ {"side", "edge"} \subseteq DOMAIN b.signal
  /\ b.counted \in BOOLEAN /\ b.counted = (b.status \in {"WIN", "LOSS"})
  /\ b.pnl \in Int /\ (b.counted <=> b.pnl # Null) /\ (b.counted => b.pnl \in -One .. One)
  /\ b.signal.time \in Int /\ b.signal.confidence \in Int
  /\ b.signal.edge \in Int
IsMockFixture(fixture) ==
  /\ \E S : fixture \in Seq(S)
  /\ Len(fixture) <= 80 /\ \A i \in 1 .. Len(fixture) : IsMockResult(fixture[i])

\* Parameters of a replay; what a bet costs is at most two tenths of a share.
IsParameters(p) ==
  /\ DOMAIN p = {"minEdge", "maxSpread", "lookback", "minConfidence", "cost"}
  /\ p.minEdge \in Int /\ p.maxSpread \in Int /\ p.lookback \in Int /\ p.minConfidence \in Int
  /\ p.cost \in Int /\ 0 <= p.cost /\ p.cost <= 2000

\* What is as the result but for the fields of a result that is turned away.
IsTurnedAway(b, side) == b.status = side /\ b.counted = FALSE /\ b.pnl = Null

LEMMA NonActionableIs ==
  ASSUME NEW b, IsMockResult(b), NEW side
  PROVE  IsTurnedAway(NonActionable(b, side), side)
<1>1. PICK signal : signal = [b.signal EXCEPT !.side = side, !.edge = Null]
  OBVIOUS
<1>2. NonActionable(b, side) =
        [b EXCEPT !.signal = signal, !.status = side, !.counted = FALSE, !.entry = Null, !.pnl = Null]
  BY <1>1 DEF NonActionable, IsMockResult, ResultFields
<1>3. QED
  BY <1>2 DEF IsTurnedAway, IsMockResult, ResultFields

\* The outcomes of the mock replay: a result is turned away, or let through as
\* it is, or let through with its costs.
Adjusted(b, p, interval, index) == b.signal.edge - p.cost + MockEdgeAdjustment(p.lookback, interval, index)
IsTooWide(p, index) == MockSpreads[(index % 10) + 1] > p.maxSpread
IsTooWeak(b, p, interval, index) ==
  b.signal.confidence < p.minConfidence \/ Adjusted(b, p, interval, index) < p.minEdge
IsMock(c, b, p, interval, index) ==
  /\ IsTooWide(p, index) => IsTurnedAway(c, "REJECTED")
  /\ ~IsTooWide(p, index) /\ ~Actionable(b.signal.side) => c = b
  /\ ~IsTooWide(p, index) /\ Actionable(b.signal.side) /\ IsTooWeak(b, p, interval, index) =>
       IsTurnedAway(c, "NO_SIGNAL")
  /\ ~IsTooWide(p, index) /\ Actionable(b.signal.side) /\ ~IsTooWeak(b, p, interval, index) =>
       /\ c.status = b.status /\ c.counted = b.counted
       /\ c.pnl = IF b.pnl = Null THEN Null ELSE b.pnl - p.cost

LEMMA MockIs ==
  ASSUME NEW b, IsMockResult(b), NEW p, NEW interval, NEW index,
         NEW c, c = ApplyMockParameters(b, p, interval, index)
  PROVE  IsMock(c, b, p, interval, index)
<1>1. PICK adjusted : adjusted = Adjusted(b, p, interval, index)
  OBVIOUS
<1>2. PICK weak \in BOOLEAN : weak <=> IsTooWeak(b, p, interval, index)
  <2>1. CASE IsTooWeak(b, p, interval, index)
    BY <2>1
  <2>2. CASE ~IsTooWeak(b, p, interval, index)
    BY <2>2
  <2>3. QED
    BY <2>1, <2>2
<1>3. IsTurnedAway(NonActionable(b, "REJECTED"), "REJECTED") /\ IsTurnedAway(NonActionable(b, "NO_SIGNAL"), "NO_SIGNAL")
  BY NonActionableIs
<1>4. CASE IsTooWide(p, index)
  <2>1. c = NonActionable(b, "REJECTED")
    BY <1>4, Zenon DEF ApplyMockParameters, IsTooWide
  <2>2. QED
    BY <1>3, <1>4, <2>1 DEF IsMock
<1>5. CASE ~IsTooWide(p, index)
  <2>1. c = IF ~Actionable(b.signal.side) THEN b
            ELSE IF IsTooWeak(b, p, interval, index) THEN NonActionable(b, "NO_SIGNAL")
            ELSE [b EXCEPT !.signal.edge = adjusted, !.pnl = IF @ = Null THEN Null ELSE @ - p.cost]
    BY <1>1, <1>5 DEF ApplyMockParameters, IsTooWide, IsTooWeak, Adjusted
  <2>2. CASE ~Actionable(b.signal.side)
    <3>1. c = b
      BY <2>1, <2>2, Zenon
    <3>2. QED
      BY <1>5, <2>2, <3>1, Zenon DEF IsMock
  <2>3. CASE Actionable(b.signal.side) /\ weak
    <3>1. c = NonActionable(b, "NO_SIGNAL")
      BY <1>2, <2>1, <2>3, Zenon
    <3>2. QED
      BY <1>2, <1>3, <1>5, <2>3, <3>1, Zenon DEF IsMock
  <2>4. CASE Actionable(b.signal.side) /\ ~weak
    <3>1. c = [b EXCEPT !.signal.edge = adjusted, !.pnl = IF @ = Null THEN Null ELSE @ - p.cost]
      BY <1>2, <2>1, <2>4, Zenon
    <3>2. PICK signal, pnl : signal = [b.signal EXCEPT !.edge = adjusted] /\ pnl = IF b.pnl = Null THEN Null ELSE b.pnl - p.cost
      OBVIOUS
    <3>3. c = [b EXCEPT !.signal = signal, !.pnl = pnl]
      BY <3>1, <3>2 DEF IsMockResult, ResultFields
    <3>4. c.status = b.status /\ c.counted = b.counted /\ c.pnl = pnl
      BY <3>3 DEF IsMockResult, ResultFields
    <3>5. QED
      BY <1>2, <1>5, <2>4, <3>2, <3>4, Zenon DEF IsMock
  <2>5. QED
    BY <1>2, <2>2, <2>3, <2>4
<1>6. QED
  BY <1>4, <1>5

\* The results of a mock replay.
IsInWindow(fixture, window) ==
  {i \in DOMAIN fixture : fixture[i].signal.time >= window.start /\ fixture[i].signal.time <= window.end}

AreMocks(results, bets, p, interval) ==
  /\ DOMAIN results = 1 .. Len(bets) /\ Len(results) = Len(bets) /\ Len(bets) \in Nat /\ Len(bets) <= 80
  /\ \E R : results \in Seq(R)
  /\ \A i \in 1 .. Len(bets) : IsMockResult(bets[i]) /\ IsMock(results[i], bets[i], p, interval, i - 1)

LEMMA BetsInWindow ==
  ASSUME NEW fixture, IsMockFixture(fixture), NEW window,
         NEW bets, bets = Kept(fixture, IsInWindow(fixture, window))
  PROVE  /\ \E S : bets \in Seq(S)
         /\ Len(bets) \in Nat /\ Len(bets) <= 80 /\ DOMAIN bets = 1 .. Len(bets)
         /\ \A i \in 1 .. Len(bets) : IsMockResult(bets[i])
<1>1. PICK S : fixture \in Seq(S)
  BY DEF IsMockFixture
<1>2. PICK P : P = IsInWindow(fixture, window)
  OBVIOUS
<1>3. P \in SUBSET (1 .. Len(fixture))
  BY <1>1, <1>2 DEF IsInWindow
<1>4. /\ bets \in Seq(S) /\ Len(bets) = Cardinality(P)
      /\ \A k \in 1 .. Len(bets) : \E i \in P : bets[k] = fixture[i]
  <2>1. bets = Kept(fixture, P)
    BY <1>2
  <2>2. /\ Kept(fixture, P) \in Seq(S) /\ Len(Kept(fixture, P)) = Cardinality(P)
        /\ \A k \in 1 .. Len(Kept(fixture, P)) : \E i \in P : Kept(fixture, P)[k] = fixture[i]
    BY <1>1, <1>3, KeptElements
  <2>3. QED
    BY <2>1, <2>2
<1>5. Len(fixture) \in Nat /\ Len(fixture) <= 80
  BY <1>1 DEF IsMockFixture
<1>6. IsFiniteSet(1 .. Len(fixture)) /\ Cardinality(1 .. Len(fixture)) = Len(fixture)
  <2>1. PICK N \in Nat : N = Len(fixture)
    BY <1>5
  <2>2. IsFiniteSet(1 .. N) /\ Cardinality(1 .. N) = N
    BY FS_Interval
  <2>3. QED
    BY <2>1, <2>2
<1>7. Cardinality(P) <= Cardinality(1 .. Len(fixture)) /\ Cardinality(P) \in Nat
  BY <1>3, <1>6, FS_Subset, FS_CardinalityType
<1>8. \A i \in 1 .. Len(bets) : IsMockResult(bets[i])
  BY <1>3, <1>4 DEF IsMockFixture
<1>9. QED
  BY <1>4, <1>5, <1>6, <1>7, <1>8

LEMMA MockReplayIs ==
  ASSUME NEW fixture, IsMockFixture(fixture), NEW window, NEW p, NEW interval,
         NEW bets, bets = Kept(fixture, IsInWindow(fixture, window)),
         NEW results, results = MockReplay(fixture, window, p, interval).results
  PROVE  AreMocks(results, bets, p, interval)
<1>1. /\ Len(bets) \in Nat /\ Len(bets) <= 80 /\ DOMAIN bets = 1 .. Len(bets)
      /\ \A i \in 1 .. Len(bets) : IsMockResult(bets[i])
  BY BetsInWindow
<1>2. results = [i \in DOMAIN bets |-> ApplyMockParameters(bets[i], p, interval, i - 1)]
  BY DEF MockReplay, WithMetrics, IsInWindow
<1>3. \A i \in 1 .. Len(bets) : results[i] = ApplyMockParameters(bets[i], p, interval, i - 1)
  BY <1>1, <1>2
<1>4. \A i \in 1 .. Len(bets) : IsMock(results[i], bets[i], p, interval, i - 1)
  BY <1>1, <1>3, MockIs
<1>5. DOMAIN results = 1 .. Len(bets) /\ results = [i \in 1 .. Len(bets) |-> results[i]]
  BY <1>1, <1>2
<1>6. PICK R : \A i \in 1 .. Len(bets) : results[i] \in R
  <2>1. \A i \in 1 .. Len(bets) : results[i] \in {results[m] : m \in 1 .. Len(bets)}
    OBVIOUS
  <2>2. QED
    BY <2>1, Zenon
<1>7. results \in Seq(R) /\ Len(results) = Len(bets)
  BY <1>1, <1>5, <1>6
<1>8. QED
  BY <1>1, <1>4, <1>5, <1>7 DEF AreMocks

\* STRICTER PARAMETERS.  Parameters that ask for as much or more leave the same
\* bets or fewer, and a bet that is left keeps its outcome
\* (applyMockFairValueParameters).
IsStricter(stricter, p) ==
  /\ IsParameters(stricter) /\ stricter.maxSpread <= p.maxSpread /\ stricter.minEdge >= p.minEdge
  /\ stricter.minConfidence >= p.minConfidence
  /\ stricter.lookback = p.lookback /\ stricter.cost = p.cost

LEMMA SpreadsAreShares ==
  ASSUME NEW index \in Nat
  PROVE  MockSpreads[(index % 10) + 1] \in Int /\ MockSpreads[(index % 10) + 1] <= One
<1>1. PICK i \in 1 .. 10 : i = (index % 10) + 1
  <2>1. (index % 10) \in 0 .. 9
    BY SMT
  <2>2. QED
    BY <2>1
<1>2. \A k \in 1 .. 10 : MockSpreads[k] \in Int /\ MockSpreads[k] <= One
  BY DEF MockSpreads, One
<1>3. QED
  BY <1>1, <1>2

LEMMA AdjustedIs ==
  ASSUME NEW b, IsMockResult(b), NEW p, IsParameters(p), NEW interval, NEW index \in Nat
  PROVE  Adjusted(b, p, interval, index) \in Int
<1>1. PICK e \in Int, c \in Int, look \in Int : e = b.signal.edge /\ c = p.cost /\ look = p.lookback
  <2>1. b.signal.edge \in Int
    BY DEF IsMockResult
  <2>2. p.cost \in Int /\ p.lookback \in Int
    BY DEF IsParameters
  <2>3. QED
    BY <2>1, <2>2
<1>2. PICK by : by = IF interval = "15m" THEN -50 ELSE IF interval = "1h" THEN -200 ELSE 0
  OBVIOUS
<1>3. by \in Int
  BY <1>2
<1>4. PICK more : more = MockEdgeAdjustment(look, interval, index)
  OBVIOUS
<1>5. more = IF look <= 20 THEN (IF index < 3 THEN 200 ELSE -250) + by
             ELSE IF look >= 100 THEN (IF index < 3 THEN -120 ELSE 120) + by ELSE by
  BY <1>1, <1>2, <1>3, <1>4 DEF MockEdgeAdjustment
<1>6. more \in Int
  BY <1>1, <1>3, <1>5
<1>7. QED
  BY <1>1, <1>4, <1>6 DEF Adjusted

\* What stricter parameters leave of one result.
IsLeft(few, some, all) ==
  /\ few.counted => some.counted
  /\ some.counted => all.counted /\ some.status = all.status
  /\ ~some.counted => some.pnl = Null

LEMMA MockFilters ==
  ASSUME NEW b, IsMockResult(b), NEW p, IsParameters(p), NEW stricter, IsStricter(stricter, p),
         NEW wide, wide = [p EXCEPT !.maxSpread = One], NEW interval, NEW index \in Nat,
         NEW few, IsMock(few, b, stricter, interval, index), NEW some, IsMock(some, b, p, interval, index),
         NEW all, IsMock(all, b, wide, interval, index)
  PROVE  IsLeft(few, some, all)
<1>1. /\ wide.minEdge = p.minEdge /\ wide.lookback = p.lookback /\ wide.cost = p.cost
      /\ wide.minConfidence = p.minConfidence /\ wide.maxSpread = One
  BY DEF IsParameters
<1>2. ~IsTooWide(wide, index)
  <2>1. MockSpreads[(index % 10) + 1] \in Int /\ MockSpreads[(index % 10) + 1] <= One
    BY SpreadsAreShares
  <2>2. One \in Int
    BY DEF One
  <2>3. ~(MockSpreads[(index % 10) + 1] > One)
    BY <2>1, <2>2
  <2>4. QED
    BY <1>1, <2>3, Zenon DEF IsTooWide
<1>3. ~IsTooWide(stricter, index) => ~IsTooWide(p, index)
  <2>1. PICK x \in Int : x = MockSpreads[(index % 10) + 1]
    BY SpreadsAreShares
  <2>2. PICK s \in Int, t \in Int : s = stricter.maxSpread /\ t = p.maxSpread /\ s <= t
    BY DEF IsStricter, IsParameters
  <2>3. ~(x > s) => ~(x > t)
    BY <2>2
  <2>4. QED
    BY <2>1, <2>2, <2>3, Zenon DEF IsTooWide
<1>4. IsTooWeak(b, wide, interval, index) <=> IsTooWeak(b, p, interval, index)
  BY <1>1, Zenon DEF IsTooWeak, Adjusted
<1>5. ~IsTooWeak(b, stricter, interval, index) => ~IsTooWeak(b, p, interval, index)
  <2>1. PICK x \in Int : x = Adjusted(b, p, interval, index)
    BY AdjustedIs
  <2>2. Adjusted(b, stricter, interval, index) = x
    BY <2>1 DEF IsStricter, Adjusted
  <2>3. PICK c \in Int, s \in Int, t \in Int, e \in Int, f \in Int :
          /\ c = b.signal.confidence /\ s = stricter.minConfidence /\ t = p.minConfidence /\ s >= t
          /\ e = stricter.minEdge /\ f = p.minEdge /\ e >= f
    BY DEF IsStricter, IsParameters, IsMockResult
  <2>4. ~(c < s \/ x < e) => ~(c < t \/ x < f)
    BY <2>3
  <2>5. QED
    BY <2>1, <2>2, <2>3, <2>4, Zenon DEF IsTooWeak
<1>6. PICK actionable \in BOOLEAN : actionable <=> Actionable(b.signal.side)
  <2>1. CASE Actionable(b.signal.side)
    BY <2>1
  <2>2. CASE ~Actionable(b.signal.side)
    BY <2>2
  <2>3. QED
    BY <2>1, <2>2
<1>7. b.counted \in BOOLEAN /\ (~b.counted => b.pnl = Null)
  BY DEF IsMockResult
<1>8. few.counted => some.counted
  BY <1>3, <1>5, <1>6, Zenon DEF IsMock, IsTurnedAway
<1>9. some.counted => all.counted /\ some.status = all.status
  BY <1>2, <1>4, <1>6, Zenon DEF IsMock, IsTurnedAway
<1>10. ~some.counted => some.pnl = Null
  BY <1>6, <1>7, Zenon DEF IsMock, IsTurnedAway
<1>11. QED
  BY <1>8, <1>9, <1>10 DEF IsLeft

\* PARAMETERS ONLY FILTER.  Whatever the results of the file and the parameters,
\* parameters take bets out and change nothing of one they leave, and stricter
\* ones leave no bet that the others took out (mock replays of the sweep).
THEOREM StricterLeavesLess ==
  ASSUME NEW fixture, IsMockFixture(fixture), NEW window, NEW p, IsParameters(p),
         NEW stricter, IsStricter(stricter, p), NEW interval
  PROVE  ParametersOnlyFilter(fixture, window, p, stricter, interval)
<1>1. PICK wide : wide = [p EXCEPT !.maxSpread = One]
  OBVIOUS
<1>2. PICK all : all = MockReplay(fixture, window, wide, interval).results
  OBVIOUS
<1>3. PICK some : some = MockReplay(fixture, window, p, interval).results
  OBVIOUS
<1>4. PICK few : few = MockReplay(fixture, window, stricter, interval).results
  OBVIOUS
<1>5. PICK bets : bets = Kept(fixture, IsInWindow(fixture, window))
  OBVIOUS
<1>6. AreMocks(all, bets, wide, interval)
  BY <1>2, <1>5, MockReplayIs
<1>7. AreMocks(some, bets, p, interval)
  BY <1>3, <1>5, MockReplayIs
<1>8. AreMocks(few, bets, stricter, interval)
  BY <1>4, <1>5, MockReplayIs
<1>9. Len(few) = Len(bets) /\ Len(some) = Len(bets) /\ Len(all) = Len(bets) /\ DOMAIN some = 1 .. Len(bets)
  BY <1>6, <1>7, <1>8 DEF AreMocks
<1>10. ASSUME NEW i \in 1 .. Len(bets), NEW a, a = all[i], NEW s, s = some[i], NEW f, f = few[i]
       PROVE  IsLeft(f, s, a)
  <2>1. i - 1 \in Nat
    BY <1>6 DEF AreMocks
  <2>2. PICK b : b = bets[i] /\ IsMockResult(b)
    BY <1>6 DEF AreMocks
  <2>3. IsMock(a, b, wide, interval, i - 1)
    BY <1>6, <1>10, <2>2 DEF AreMocks
  <2>4. IsMock(s, b, p, interval, i - 1)
    BY <1>7, <1>10, <2>2 DEF AreMocks
  <2>5. IsMock(f, b, stricter, interval, i - 1)
    BY <1>8, <1>10, <2>2 DEF AreMocks
  <2>6. QED
    BY <1>1, <2>1, <2>2, <2>3, <2>4, <2>5, MockFilters
<1>11. \A i \in DOMAIN some :
         /\ few[i].counted => some[i].counted
         /\ some[i].counted => all[i].counted /\ some[i].status = all[i].status
         /\ ~some[i].counted => some[i].pnl = Null
  <2>1. \A i \in 1 .. Len(bets) : IsLeft(few[i], some[i], all[i])
    BY <1>10, Zenon
  <2>2. \A i \in DOMAIN some : IsLeft(few[i], some[i], all[i])
    BY <1>9, <2>1
  <2>3. QED
    BY <2>2, Zenon DEF IsLeft
<1>12. Len(some) = Len(few) /\ Len(some) = Len(all)
  BY <1>9
<1>13. QED
  BY <1>1, <1>2, <1>3, <1>4, <1>11, <1>12, Zenon DEF ParametersOnlyFilter

-----------------------------------------------------------------------------
(* What is chosen in a window.                                               *)
MocksOf(bets, p, interval) == [i \in DOMAIN bets |-> ApplyMockParameters(bets[i], p, interval, i - 1)]

LEMMA ReplayOfBets ==
  ASSUME NEW fixture, NEW window, NEW p, NEW interval
  PROVE  MockReplay(fixture, window, p, interval) =
           WithMetrics(MocksOf(Kept(fixture, IsInWindow(fixture, window)), p, interval))
BY Zenon DEF MockReplay, MocksOf, IsInWindow

\* Results that come after the end of a window are not in it.
LEMMA LaterIsNotInWindow ==
  ASSUME NEW fixture, IsMockFixture(fixture), NEW window, window.start \in Int, window.end \in Int,
         NEW blind, blind = Kept(fixture, {i \in DOMAIN fixture : fixture[i].signal.time <= window.end})
  PROVE  Kept(blind, IsInWindow(blind, window)) = Kept(fixture, IsInWindow(fixture, window))
<1>1. PICK S : fixture \in Seq(S)
  BY DEF IsMockFixture
<1>2. PICK from \in Int, to \in Int : from = window.start /\ to = window.end
  OBVIOUS
<1>3. PICK P : P = {i \in 1 .. Len(fixture) : fixture[i].signal.time <= to}
  OBVIOUS
<1>4. P \in SUBSET (1 .. Len(fixture)) /\ blind = Kept(fixture, P)
  <2>1. DOMAIN fixture = 1 .. Len(fixture)
    BY <1>1
  <2>2. QED
    BY <1>2, <1>3, <2>1
<1>5. PICK V : V = {b \in S : b.signal.time >= from /\ b.signal.time <= to}
  OBVIOUS
<1>6. PICK Q : Q = IsInWindow(fixture, window)
  OBVIOUS
<1>7. PICK R : R = IsInWindow(blind, window)
  OBVIOUS
<1>8. Selects(Q, fixture, P, V)
  <2>1. \A i : i \in Q <=> i \in P /\ fixture[i] \in V
    <3>1. \A i : i \in Q <=> /\ i \in 1 .. Len(fixture) /\ fixture[i].signal.time >= from
                             /\ fixture[i].signal.time <= to
      BY <1>1, <1>2, <1>6 DEF IsInWindow
    <3>2. \A i \in 1 .. Len(fixture) : fixture[i] \in S
      BY <1>1
    <3>3. \A i : i \in P <=> i \in 1 .. Len(fixture) /\ fixture[i].signal.time <= to
      BY <1>3
    <3>4. \A i \in 1 .. Len(fixture) :
            fixture[i] \in V <=> fixture[i].signal.time >= from /\ fixture[i].signal.time <= to
      BY <1>5, <3>2
    <3>5. QED
      BY <3>1, <3>3, <3>4, Zenon
  <2>2. Q = {i \in P : fixture[i] \in V}
    BY <2>1
  <2>3. QED
    BY <2>2 DEF Selects
<1>9. blind \in Seq(S)
  <2>1. Kept(fixture, P) \in Seq(S)
    BY <1>1, <1>4, KeptElements
  <2>2. QED
    BY <1>4, <2>1
<1>10. Selects(R, blind, 1 .. Len(blind), V)
  <2>1. \A i : i \in R <=> i \in 1 .. Len(blind) /\ blind[i] \in V
    <3>1. \A i : i \in R <=> /\ i \in 1 .. Len(blind) /\ blind[i].signal.time >= from
                             /\ blind[i].signal.time <= to
      BY <1>2, <1>7, <1>9 DEF IsInWindow
    <3>2. \A i \in 1 .. Len(blind) : blind[i] \in S
      BY <1>9
    <3>3. \A i \in 1 .. Len(blind) :
            blind[i] \in V <=> blind[i].signal.time >= from /\ blind[i].signal.time <= to
      BY <1>5, <3>2
    <3>4. QED
      BY <3>1, <3>3, Zenon
  <2>2. R = {i \in 1 .. Len(blind) : blind[i] \in V}
    BY <2>1
  <2>3. QED
    BY <2>2 DEF Selects
<1>11. Kept(blind, R) = Kept(fixture, Q)
  BY <1>1, <1>4, <1>8, <1>10, KeptOfKept
<1>12. QED
  BY <1>6, <1>7, <1>11

LEMMA BlindReplay ==
  ASSUME NEW fixture, NEW blind, NEW window,
         Kept(blind, IsInWindow(blind, window)) = Kept(fixture, IsInWindow(fixture, window)),
         NEW p, NEW minSamples
  PROVE  RunReplayForParameter(blind, window, p, minSamples) =
           RunReplayForParameter(fixture, window, p, minSamples)
<1>1. PICK q, interval : q = ReplayParameters(p) /\ interval = p[1]
  OBVIOUS
<1>2. MockReplay(blind, window, q, interval) = MockReplay(fixture, window, q, interval)
  BY ReplayOfBets
<1>3. \A f : RunReplayForParameter(f, window, p, minSamples) =
               ParameterResult(p, MockReplay(f, window, q, interval).metrics, minSamples)
  BY <1>1, Zenon DEF RunReplayForParameter
<1>4. QED
  BY <1>2, <1>3, Zenon

ResultsOn(fixture, window, grid, minSamples) ==
  [k \in DOMAIN grid |-> RunReplayForParameter(fixture, window, grid[k], minSamples)]

LEMMA BlindChoice ==
  ASSUME NEW fixture, IsMockFixture(fixture), NEW w, w.trainStart \in Int, w.trainEnd \in Int,
         NEW blind, blind = Kept(fixture, {i \in DOMAIN fixture : fixture[i].signal.time <= w.trainEnd}),
         NEW grid, NEW minSamples
  PROVE  SelectedOn(blind, w, grid, minSamples) = SelectedOn(fixture, w, grid, minSamples)
<1>1. PICK window : window = TrainWindow(w)
  OBVIOUS
<1>2. window.start = w.trainStart /\ window.end = w.trainEnd
  BY <1>1 DEF TrainWindow
<1>3. Kept(blind, IsInWindow(blind, window)) = Kept(fixture, IsInWindow(fixture, window))
  BY <1>2, LaterIsNotInWindow
<1>4. \A p : RunReplayForParameter(blind, window, p, minSamples) =
               RunReplayForParameter(fixture, window, p, minSamples)
  BY <1>3, BlindReplay
<1>5. ResultsOn(blind, window, grid, minSamples) = ResultsOn(fixture, window, grid, minSamples)
  BY <1>4 DEF ResultsOn
<1>6. \A f : SelectedOn(f, w, grid, minSamples) = BestOf(Ranked(ResultsOn(f, window, grid, minSamples), {}))
  BY <1>1, Zenon DEF SelectedOn, ResultsOn
<1>7. QED
  BY <1>5, <1>6, Zenon

\* The windows roll: each test comes after its training, and ends where the
\* training of the next one does, or before.
IsRolling(windows) ==
  \A n \in DOMAIN windows :
    /\ n \in Int /\ windows[n].trainStart \in Int /\ windows[n].trainEnd \in Int
    /\ \A m \in 1 .. n - 1 :
         windows[m].trainEnd < windows[n].trainEnd /\ windows[m].testEnd <= windows[n].trainEnd

LEMMA WindowsApart ==
  ASSUME NEW m \in Int, NEW n \in Int, m < n, NEW t \in Int, t > 0
  PROVE  (m - 1) * t + t <= (n - 1) * t /\ (m - 1) * t < (n - 1) * t /\ (m - 1) * t \in Int
<1>1. PICK d \in Int : d = n - 1 - m /\ d >= 0
  OBVIOUS
<1>2. d * t >= 0
  BY <1>1, SMT
<1>3. (n - 1) * t = (m - 1) * t + t + d * t
  <2>1. n - 1 = (m - 1) + 1 + d
    BY <1>1
  <2>2. PICK a \in Int : a = m - 1
    OBVIOUS
  <2>3. (a + 1 + d) * t = a * t + t + d * t
    BY SMT
  <2>4. QED
    BY <2>1, <2>2, <2>3
<1>4. QED
  BY <1>2, <1>3

\* What a rolling window is.
WindowAt(start, train, test, n) ==
  LET from == start + (n - 1) * test IN
  [trainStart |-> from, trainEnd |-> from + train, testEnd |-> from + train + test]

LEMMA WindowsRoll ==
  ASSUME NEW start \in Int, NEW end \in Int, NEW trainRatio \in Int, NEW testRatio \in Int
  PROVE  /\ IsRolling(RollingWindows(start, end, trainRatio, testRatio))
         /\ \E T : RollingWindows(start, end, trainRatio, testRatio) \in Seq(T)
<1>1. PICK train, test :
        /\ train = ((end - start) * Max({20, Min({80, trainRatio})})) \div 100
        /\ test = ((end - start) * Max({10, Min({50, testRatio})})) \div 100
  OBVIOUS
<1>2. train \in Int /\ test \in Int
  <2>1. ASSUME NEW low \in Int, NEW high \in Int, NEW ratio \in Int
        PROVE  Max({low, Min({high, ratio})}) \in Int
    <3>1. Min({high, ratio}) \in Int
      <4>1. Min({high, ratio}) = IF high <= ratio THEN high ELSE ratio
        BY MinOfTwo
      <4>2. QED
        BY <4>1
    <3>2. PICK x \in Int : x = Min({high, ratio})
      BY <3>1
    <3>3. Max({low, x}) = IF low >= x THEN low ELSE x
      BY MaxOfTwo
    <3>4. QED
      BY <3>2, <3>3
  <2>2. PICK a \in Int, b \in Int : a = Max({20, Min({80, trainRatio})}) /\ b = Max({10, Min({50, testRatio})})
    <3>1. PICK n20 \in Int, n80 \in Int, n10 \in Int, n50 \in Int : n20 = 20 /\ n80 = 80 /\ n10 = 10 /\ n50 = 50
      OBVIOUS
    <3>2. Max({n20, Min({n80, trainRatio})}) \in Int /\ Max({n10, Min({n50, testRatio})}) \in Int
      BY <2>1, Zenon
    <3>3. QED
      BY <3>1, <3>2
  <2>3. (end - start) * a \in Int /\ (end - start) * b \in Int
    BY SMT
  <2>4. PICK c \in Int, d \in Int : c = (end - start) * a /\ d = (end - start) * b
    BY <2>3
  <2>5. train = c \div 100 /\ test = d \div 100
    BY <1>1, <2>2, <2>4
  <2>6. QED
    BY <2>5
<1>3. PICK windows : windows = RollingWindows(start, end, trainRatio, testRatio)
  OBVIOUS
<1>4. PICK count : count = IF train <= 0 \/ test <= 0 THEN 0
                           ELSE Cardinality({n \in 1 .. 12 : start + (n - 1) * test + train + test <= end})
  OBVIOUS
<1>5. windows = [n \in 1 .. count |-> WindowAt(start, train, test, n)]
  BY <1>1, <1>3, <1>4, Zenon DEF RollingWindows, WindowAt
<1>6. count \in Nat
  <2>1. PICK P : P = {n \in 1 .. 12 : start + (n - 1) * test + train + test <= end}
    OBVIOUS
  <2>2. IsFiniteSet(1 .. 12) /\ P \in SUBSET (1 .. 12)
    <3>1. PICK low \in Int, high \in Int : low = 1 /\ high = 12
      OBVIOUS
    <3>2. IsFiniteSet(low .. high)
      BY FS_Interval
    <3>3. QED
      BY <2>1, <3>1, <3>2
  <2>3. Cardinality(P) \in Nat
    BY <2>2, FS_Subset, FS_CardinalityType
  <2>4. QED
    BY <1>4, <2>1, <2>3
<1>7. 1 .. count # {} => train > 0 /\ test > 0
  <2>1. CASE train <= 0 \/ test <= 0
    <3>1. count = 0
      BY <1>4, <2>1
    <3>2. QED
      BY <3>1
  <2>2. CASE ~(train <= 0 \/ test <= 0)
    BY <1>2, <2>2
  <2>3. QED
    BY <2>1, <2>2
<1>8. ASSUME NEW n \in 1 .. count
      PROVE  /\ windows[n].trainStart = start + (n - 1) * test
             /\ windows[n].trainEnd = start + (n - 1) * test + train
             /\ windows[n].testEnd = start + (n - 1) * test + train + test
             /\ (n - 1) * test \in Int
  <2>1. windows[n] = WindowAt(start, train, test, n)
    BY <1>5
  <2>2. PICK from : from = start + (n - 1) * test
    OBVIOUS
  <2>3. windows[n] = [trainStart |-> from, trainEnd |-> from + train, testEnd |-> from + train + test]
    BY <2>1, <2>2, Zenon DEF WindowAt
  <2>4. n \in Int
    BY <1>6
  <2>5. (n - 1) * test \in Int
    BY <1>2, <2>4, SMT
  <2>6. QED
    BY <2>2, <2>3, <2>5
<1>9. ASSUME NEW n \in 1 .. count, NEW m \in 1 .. n - 1
      PROVE  windows[m].trainEnd < windows[n].trainEnd /\ windows[m].testEnd <= windows[n].trainEnd
  <2>1. m \in 1 .. count /\ m \in Int /\ n \in Int /\ m < n
    BY <1>6
  <2>2. test > 0
    BY <1>7
  <2>3. PICK a \in Int, b \in Int : a = (m - 1) * test /\ b = (n - 1) * test
    BY <1>8, <2>1
  <2>4. a + test <= b /\ a < b
    BY <1>2, <2>1, <2>2, <2>3, WindowsApart
  <2>5. windows[m].trainEnd = start + a + train /\ windows[m].testEnd = start + a + train + test
    BY <1>8, <2>1, <2>3
  <2>6. windows[n].trainEnd = start + b + train
    BY <1>8, <2>3
  <2>7. QED
    BY <1>2, <2>3, <2>4, <2>5, <2>6
<1>10. \A n \in 1 .. count : n \in Int /\ windows[n].trainStart \in Int /\ windows[n].trainEnd \in Int
  <2>1. SUFFICES ASSUME NEW n \in 1 .. count
                 PROVE  n \in Int /\ windows[n].trainStart \in Int /\ windows[n].trainEnd \in Int
    OBVIOUS
  <2>2. PICK a \in Int : a = (n - 1) * test
    BY <1>8
  <2>3. windows[n].trainStart = start + a /\ windows[n].trainEnd = start + a + train
    BY <1>8, <2>2
  <2>4. QED
    BY <1>2, <1>6, <2>2, <2>3
<1>11. DOMAIN windows = 1 .. count
  BY <1>5
<1>12. windows \in Seq({WindowAt(start, train, test, n) : n \in 1 .. count})
  BY <1>5, <1>6
<1>13. \E T : RollingWindows(start, end, trainRatio, testRatio) \in Seq(T)
  BY <1>3, <1>12
<1>14. IsRolling(windows)
  BY <1>9, <1>10, <1>11 DEF IsRolling
<1>15. QED
  BY <1>3, <1>13, <1>14

\* OUT OF SAMPLE.  Whatever the results, the grid and the ratios of the windows,
\* what is chosen in a window knows nothing of its test, and each test begins when
\* the tests and trainings of the windows before are over
\* (runWalkForwardValidation, buildRollingWindows).
THEOREM ChosenOutOfSample ==
  ASSUME NEW fixture, IsMockFixture(fixture), NEW start \in Int, NEW end \in Int,
         NEW trainRatio \in Int, NEW testRatio \in Int, NEW grid, NEW minSamples
  PROVE  ChoiceIsOutOfSample(fixture, RollingWindows(start, end, trainRatio, testRatio), grid, minSamples)
<1>1. PICK windows : windows = RollingWindows(start, end, trainRatio, testRatio)
  OBVIOUS
<1>2. IsRolling(windows)
  BY <1>1, WindowsRoll
<1>3. ASSUME NEW n \in DOMAIN windows, NEW w, w = windows[n],
             NEW blind, blind = Kept(fixture, {i \in DOMAIN fixture : fixture[i].signal.time <= w.trainEnd})
      PROVE  SelectedOn(blind, w, grid, minSamples) = SelectedOn(fixture, w, grid, minSamples)
  BY <1>2, <1>3, BlindChoice DEF IsRolling
<1>4. ASSUME NEW n \in DOMAIN windows, NEW m \in 1 .. n - 1
      PROVE  windows[m].trainEnd < windows[n].trainEnd /\ windows[m].testEnd <= windows[n].trainEnd
  BY <1>2 DEF IsRolling
<1>5. ChoiceIsOutOfSample(fixture, windows, grid, minSamples)
  BY <1>3, <1>4, Zenon DEF ChoiceIsOutOfSample
<1>6. QED
  BY <1>1, <1>5

-----------------------------------------------------------------------------
(* The metrics of a mock replay.  They are numbers, and where there is a rate *)
(* of wins, there is a profit or a loss.                                      *)
\* A bet of the mock replay may have cost two tenths of a share more than it did.
IsSettled(c) ==
  /\ c.counted \in BOOLEAN /\ (c.status \in {"WIN", "LOSS"} => c.counted)
  /\ c.counted => c.pnl \in Int /\ -12000 <= c.pnl /\ c.pnl <= 12000
  /\ ~c.counted => c.pnl = Null

\* The last two conjuncts of a settled bet.
IsPaid(c) ==
  /\ c.counted => c.pnl \in Int /\ -12000 <= c.pnl /\ c.pnl <= 12000
  /\ ~c.counted => c.pnl = Null

LEMMA UncountedIsSettled ==
  ASSUME NEW c, c.counted \in BOOLEAN, ~c.counted, c.pnl = Null, c.status \notin {"WIN", "LOSS"}
  PROVE  IsSettled(c)
<1>1. c.counted \in BOOLEAN /\ (c.status \in {"WIN", "LOSS"} => c.counted)
  BY Zenon
<1>2. IsPaid(c)
  BY SMT DEF IsPaid
<1>3. QED
  BY <1>1, <1>2, SMT DEF IsSettled, IsPaid

LEMMA MockIsSettled ==
  ASSUME NEW b, IsMockResult(b), NEW p, IsParameters(p), NEW interval, NEW index,
         NEW c, IsMock(c, b, p, interval, index)
  PROVE  IsSettled(c)
<1>1. /\ b.counted \in BOOLEAN /\ (b.status \in {"WIN", "LOSS"} => b.counted)
      /\ (b.counted => b.pnl \in Int /\ b.pnl # Null /\ -12000 <= b.pnl /\ b.pnl <= 12000)
      /\ (b.counted => b.pnl >= -10000 /\ b.pnl <= 10000)
      /\ (~b.counted => b.pnl = Null)
  <2>1. b.counted \in BOOLEAN /\ (b.counted <=> b.pnl # Null)
    BY DEF IsMockResult
  <2>2. b.counted => b.pnl \in Int /\ -12000 <= b.pnl /\ b.pnl <= 12000 /\ b.pnl >= -10000 /\ b.pnl <= 10000
    <3>1. SUFFICES ASSUME b.counted
                   PROVE  b.pnl \in Int /\ -12000 <= b.pnl /\ b.pnl <= 12000 /\ b.pnl >= -10000 /\ b.pnl <= 10000
      OBVIOUS
    <3>2. b.pnl \in Int /\ b.pnl \in -One .. One
      BY <3>1 DEF IsMockResult
    <3>3. PICK one \in Int : one = One
      BY DEF One
    <3>4. PICK pnl \in Int : pnl = b.pnl
      BY <3>2
    <3>5. pnl \in -one .. one
      BY <3>2, <3>3, <3>4, Zenon
    <3>6. one = 10000
      BY <3>3 DEF One
    <3>7. -one <= pnl /\ pnl <= one
      BY <3>5
    <3>8. QED
      BY <3>4, <3>6, <3>7
  <2>3. b.status \in {"WIN", "LOSS"} => b.counted
    BY DEF IsMockResult
  <2>4. QED
    BY <2>1, <2>2, <2>3
<1>2. p.cost \in Int /\ 0 <= p.cost /\ p.cost <= 2000
  BY DEF IsParameters
<1>3. ASSUME NEW side \in {"REJECTED", "NO_SIGNAL"}, IsTurnedAway(c, side)
      PROVE  IsSettled(c)
  <2>1. c.status = side /\ c.counted = FALSE /\ c.pnl = Null
    BY <1>3 DEF IsTurnedAway
  <2>2. side \notin {"WIN", "LOSS"}
    OBVIOUS
  <2>3. c.counted \in BOOLEAN /\ ~c.counted
    BY <2>1, Zenon
  <2>4. c.status \notin {"WIN", "LOSS"}
    BY <2>1, <2>2, Zenon
  <2>5. QED
    BY <2>1, <2>3, <2>4, UncountedIsSettled
<1>4. ASSUME c = b
      PROVE  IsSettled(c)
  BY <1>1, <1>4 DEF IsSettled
<1>5. ASSUME c.status = b.status, c.counted = b.counted, c.pnl = (IF b.pnl = Null THEN Null ELSE b.pnl - p.cost)
      PROVE  IsSettled(c)
  <2>1. CASE b.counted
    <3>1. c.pnl = b.pnl - p.cost
      BY <1>1, <1>5, <2>1
    <3>2. c.pnl \in Int /\ -12000 <= c.pnl /\ c.pnl <= 12000
      <4>1. PICK pnl \in Int : pnl = b.pnl
        BY <1>1, <2>1
      <4>2. PICK cost \in Int : cost = p.cost
        BY <1>2
      <4>3. pnl >= -10000 /\ pnl <= 10000 /\ 0 <= cost /\ cost <= 2000
        BY <1>1, <1>2, <2>1, <4>1, <4>2
      <4>4. c.pnl = pnl - cost
        BY <3>1, <4>1, <4>2
      <4>5. QED
        BY <4>3, <4>4
    <3>3. c.counted /\ c.counted \in BOOLEAN
      BY <1>1, <1>5, <2>1
    <3>4. QED
      BY <3>2, <3>3 DEF IsSettled
  <2>2. CASE ~b.counted
    <3>1. c.pnl = Null /\ ~c.counted /\ c.counted \in BOOLEAN
      BY <1>1, <1>5, <2>2
    <3>2. ~(c.status \in {"WIN", "LOSS"})
      BY <1>1, <1>5, <2>2
    <3>3. QED
      BY <3>1, <3>2, UncountedIsSettled
  <2>3. QED
    BY <1>1, <2>1, <2>2
<1>6. \/ IsTurnedAway(c, "REJECTED") \/ IsTurnedAway(c, "NO_SIGNAL")
      \/ c = b
      \/ c.status = b.status /\ c.counted = b.counted /\ c.pnl = (IF b.pnl = Null THEN Null ELSE b.pnl - p.cost)
  BY Zenon DEF IsMock
<1>7. QED
  BY <1>3, <1>4, <1>5, <1>6

\* The profits and losses of settled bets.
AreSettled(results) ==
  /\ \E R : results \in Seq(R)
  /\ Len(results) <= 80 /\ \A i \in 1 .. Len(results) : IsSettled(results[i])

LEMMA SettledPnls ==
  ASSUME NEW results, AreSettled(results), NEW pnls, pnls = Pnls(results)
  PROVE  /\ pnls \in Seq(Int) /\ (pnls = <<>> <=> Counted(results) = {})
         /\ Summed(pnls) \in Int /\ Summed(pnls) # Null /\ MaxDrawdown(pnls) \in Int
<1>1. PICK R : results \in Seq(R)
  BY DEF AreSettled
<1>2. PICK N \in Nat : N = Len(results) /\ DOMAIN results = 1 .. N /\ N <= 80
  BY <1>1 DEF AreSettled
<1>3. PICK C : C = Counted(results)
  OBVIOUS
<1>4. C \in SUBSET (1 .. N)
  BY <1>2, <1>3 DEF Counted
<1>5. \A i \in C : results[i].pnl \in Int /\ -12000 <= results[i].pnl /\ results[i].pnl <= 12000
  BY <1>2, <1>3 DEF AreSettled, IsSettled, Counted
<1>6. PICK Q : Q = {i \in DOMAIN results : results[i].pnl # Null}
  OBVIOUS
<1>7. Q = C
  <2>1. ASSUME NEW i \in 1 .. N
        PROVE  results[i].pnl # Null <=> results[i].counted
    <3>1. IsSettled(results[i])
      BY <1>2 DEF AreSettled
    <3>2. results[i].counted \in BOOLEAN
      BY <3>1 DEF IsSettled
    <3>3. CASE results[i].counted
      BY <3>1, <3>3 DEF IsSettled, Null
    <3>4. CASE ~results[i].counted
      BY <3>1, <3>4 DEF IsSettled
    <3>5. QED
      BY <3>2, <3>3, <3>4
  <2>2. QED
    BY <1>2, <1>3, <1>6, <2>1 DEF Counted
<1>8. PICK known : known = Kept(results, C)
  OBVIOUS
<1>9. pnls = [k \in DOMAIN known |-> known[k].pnl]
  BY <1>6, <1>7, <1>8, Zenon DEF Pnls
<1>10. /\ known \in Seq(R) /\ Len(known) = Cardinality(C)
       /\ \A k \in 1 .. Len(known) : \E i \in C : known[k] = results[i]
       /\ (known = <<>> <=> C = {})
  <2>1. C \in SUBSET (1 .. Len(results))
    BY <1>2, <1>4
  <2>2. /\ Kept(results, C) \in Seq(R) /\ Len(Kept(results, C)) = Cardinality(C)
        /\ \A k \in 1 .. Len(Kept(results, C)) : \E i \in C : Kept(results, C)[k] = results[i]
        /\ (Kept(results, C) = <<>> <=> C = {})
    BY <1>1, <2>1, KeptElements
  <2>3. QED
    BY <1>8, <2>2
<1>11. PICK n \in Nat : n = Len(known) /\ DOMAIN known = 1 .. n
  BY <1>10
<1>12. \A k \in 1 .. n : pnls[k] = known[k].pnl /\ pnls[k] \in Int /\ -12000 <= pnls[k] /\ pnls[k] <= 12000
  <2>1. SUFFICES ASSUME NEW k \in 1 .. n, NEW i \in C, known[k] = results[i]
                 PROVE  pnls[k] = known[k].pnl /\ pnls[k] \in Int /\ -12000 <= pnls[k] /\ pnls[k] <= 12000
    BY <1>10, <1>11
  <2>2. QED
    BY <1>5, <1>9, <1>11, <2>1
<1>13. pnls \in Seq(Int) /\ Len(pnls) = n
  <2>1. pnls \in [1 .. n -> Int]
    <3>1. pnls = [k \in 1 .. n |-> known[k].pnl]
      BY <1>9, <1>11
    <3>2. \A k \in 1 .. n : known[k].pnl \in Int
      BY <1>12
    <3>3. QED
      BY <3>1, <3>2
  <2>2. QED
    BY <2>1
<1>14. n <= 80
  <2>1. IsFiniteSet(1 .. N) /\ Cardinality(1 .. N) = N
    BY FS_Interval
  <2>2. Cardinality(C) <= N
    BY <1>4, <2>1, FS_Subset
  <2>3. QED
    BY <1>2, <1>10, <1>11, <2>2
<1>15. pnls = <<>> <=> C = {}
  <2>1. known = <<>> <=> n = 0
    BY <1>10, <1>11
  <2>2. pnls = <<>> <=> n = 0
    BY <1>13
  <2>3. QED
    BY <1>10, <2>1, <2>2
<1>16. Summed(pnls) \in Int /\ Summed(pnls) # Null
  <2>1. PICK low \in Int, high \in Int : low = -12000 /\ high = 12000
    OBVIOUS
  <2>2. \A k \in 1 .. Len(pnls) : low <= pnls[k] /\ pnls[k] <= high
    BY <1>12, <1>13, <2>1
  <2>3. Len(pnls) * low <= Summed(pnls) /\ Summed(pnls) \in Int
    BY <1>13, <2>2, SummedWithin
  <2>4. n * low >= -960000
    BY <1>14, <2>1
  <2>5. PICK total \in Int : total = Summed(pnls)
    BY <2>3
  <2>6. total >= -960000
    <3>1. PICK x \in Int : x = n * low
      BY <2>1, SMT
    <3>2. x <= total
      BY <1>13, <2>3, <2>5, <3>1
    <3>3. QED
      BY <2>4, <3>1, <3>2
  <2>7. QED
    BY <2>5, <2>6 DEF Null
<1>17. MaxDrawdown(pnls) \in Int
  <2>1. PICK f : f \in [0 .. Len(pnls) -> Levels] /\ MaxDrawdown(pnls) = f[Len(pnls)].fall
    BY <1>13, LevelsBuild
  <2>2. f[Len(pnls)] \in Levels
    BY <1>13, <2>1
  <2>3. QED
    BY <2>1, <2>2 DEF Levels
<1>18. QED
  BY <1>3, <1>13, <1>15, <1>16, <1>17

MetricCounts ==
  {"sampleCount", "winCount", "lossCount", "pendingCount", "unresolvedCount", "rejectedCount",
   "noSignalCount", "actionableCount"}
IsMetrics(m) ==
  /\ \A field \in MetricCounts : m[field] \in Nat
  /\ m.winRate \in Int /\ m.coverageRate \in Int /\ m.pendingRate \in Int
  /\ m.cumulativePnl \in Int /\ m.maxDrawdown \in Int
  /\ m.winRate # Null => m.cumulativePnl # Null

LEMMA RatioIsNumber ==
  ASSUME NEW n \in Nat, NEW of \in Nat
  PROVE  Ratio(n, of) \in Int
<1>1. PICK one \in Nat : one = One
  BY DEF One
<1>2. PICK x \in Nat : x = n * one
  <2>1. n * one \in Nat
    BY SMT
  <2>2. QED
    BY <2>1
<1>3. CASE of = 0
  BY <1>3 DEF Ratio, Null
<1>4. CASE of # 0
  <2>1. x \div of \in Nat
    BY <1>4, ShareIsNatural
  <2>2. Ratio(n, of) = x \div of
    BY <1>1, <1>2, <1>4 DEF Ratio
  <2>3. QED
    BY <2>1, <2>2
<1>5. QED
  BY <1>3, <1>4

LEMMA MetricsAreNumbers ==
  ASSUME NEW results, AreSettled(results), NEW m, m = ReplayMetrics(results)
  PROVE  IsMetrics(m)
<1> DEFINE count(label) == Cardinality(WithStatus(results, label))
<1>1. PICK R : results \in Seq(R)
  BY DEF AreSettled
<1>2. PICK N \in Nat : N = Len(results) /\ DOMAIN results = 1 .. N
  BY <1>1
<1>3. IsFiniteSet(1 .. N)
  BY FS_Interval
<1>4. \A P \in SUBSET (1 .. N) : Cardinality(P) \in Nat /\ IsFiniteSet(P)
  BY <1>3, FS_Subset, FS_CardinalityType
<1>5. \A label : WithStatus(results, label) \in SUBSET (1 .. N)
  BY <1>2 DEF WithStatus
<1>6. \A label : count(label) \in Nat
  BY <1>4, <1>5
<1>7. PICK actionable \in Nat : actionable = Cardinality({i \in DOMAIN results : Actionable(results[i].signal.side)})
  <2>1. {i \in DOMAIN results : Actionable(results[i].signal.side)} \in SUBSET (1 .. N)
    BY <1>2
  <2>2. QED
    BY <1>4, <2>1
<1>8. PICK completed \in Nat : completed = Cardinality(Counted(results))
  <2>1. Counted(results) \in SUBSET (1 .. N)
    BY <1>2 DEF Counted
  <2>2. QED
    BY <1>4, <2>1
<1>9. PICK pnls : pnls = Pnls(results)
  OBVIOUS
<1>10. /\ (pnls = <<>> <=> Counted(results) = {}) /\ Summed(pnls) \in Int /\ Summed(pnls) # Null
       /\ MaxDrawdown(pnls) \in Int
  BY <1>9, SettledPnls
<1>11. PICK sum \in Int, fall \in Int :
         /\ sum = (IF pnls = <<>> THEN Null ELSE Summed(pnls))
         /\ fall = (IF pnls = <<>> THEN Null ELSE MaxDrawdown(pnls))
  <2>1. Null \in Int
    BY DEF Null
  <2>2. QED
    BY <1>10, <2>1
<1>12. m = [evaluated |-> Len(results), sampleCount |-> completed, winCount |-> count("WIN"),
      lossCount |-> count("LOSS"), pendingCount |-> count("PENDING"),
      unresolvedCount |-> count("UNRESOLVED"), rejectedCount |-> count("REJECTED"),
      noSignalCount |-> count("NO_SIGNAL"), actionableCount |-> actionable,
      winRate |-> Ratio(count("WIN"), count("WIN") + count("LOSS")),
      coverageRate |-> Ratio(actionable, Len(results)),
      pendingRate |-> Ratio(count("PENDING"), Len(results)),
      cumulativePnl |-> sum, maxDrawdown |-> fall]
  BY <1>7, <1>8, <1>9, <1>11, Zenon DEF ReplayMetrics, WithStatus, Counted
<1>13. PICK win \in Nat, loss \in Nat, pending \in Nat, unresolved \in Nat, rejected \in Nat, none \in Nat :
        /\ win = count("WIN") /\ loss = count("LOSS") /\ pending = count("PENDING")
        /\ unresolved = count("UNRESOLVED") /\ rejected = count("REJECTED") /\ none = count("NO_SIGNAL")
  <2> HIDE DEF count
  <2>1. QED
    BY <1>6
<1> HIDE DEF count
<1>14. PICK rate \in Int, coverage \in Int, waiting \in Int :
        /\ rate = Ratio(win, win + loss) /\ coverage = Ratio(actionable, N) /\ waiting = Ratio(pending, N)
  <2>1. win + loss \in Nat
    BY <1>13
  <2>2. QED
    BY <1>2, <1>7, <1>13, <2>1, RatioIsNumber
<1>15. m = [evaluated |-> N, sampleCount |-> completed, winCount |-> win, lossCount |-> loss,
           pendingCount |-> pending, unresolvedCount |-> unresolved, rejectedCount |-> rejected,
           noSignalCount |-> none, actionableCount |-> actionable, winRate |-> rate,
           coverageRate |-> coverage, pendingRate |-> waiting, cumulativePnl |-> sum, maxDrawdown |-> fall]
  BY <1>2, <1>12, <1>13, <1>14, Zenon
<1>16. /\ m.sampleCount = completed /\ m.winCount = win /\ m.lossCount = loss
       /\ m.pendingCount = pending /\ m.unresolvedCount = unresolved /\ m.rejectedCount = rejected
       /\ m.noSignalCount = none /\ m.actionableCount = actionable
  BY <1>15
<1>17. /\ m.winRate = rate /\ m.coverageRate = coverage /\ m.pendingRate = waiting
       /\ m.cumulativePnl = sum /\ m.maxDrawdown = fall
  BY <1>15
<1>18. \A field \in MetricCounts : m[field] \in Nat
  BY <1>16 DEF MetricCounts
<1>19. ASSUME rate # Null PROVE sum # Null
  <2>1. win + loss # 0
    BY <1>14, <1>19 DEF Ratio
  <2>2. Counted(results) # {}
    <3>1. PICK label \in {"WIN", "LOSS"} : WithStatus(results, label) # {}
      <4>1. ASSUME WithStatus(results, "WIN") = {}, WithStatus(results, "LOSS") = {}
            PROVE  FALSE
        <5>1. count("WIN") = 0 /\ count("LOSS") = 0
          BY <4>1, FS_EmptySet DEF count
        <5>2. QED
          BY <1>13, <2>1, <5>1
      <4>2. QED
        BY <4>1
    <3>2. PICK i \in 1 .. N : results[i].status = label
      BY <1>2, <3>1 DEF WithStatus
    <3>3. IsSettled(results[i])
      BY <1>2 DEF AreSettled
    <3>4. results[i].counted
      BY <3>2, <3>3 DEF IsSettled
    <3>5. QED
      BY <1>2, <3>4 DEF Counted
  <2>3. QED
    BY <1>10, <1>11, <2>2
<1>20. QED
  BY <1>17, <1>18, <1>19 DEF IsMetrics

-----------------------------------------------------------------------------
(* The result of a parameter set.                                            *)
OverfitRisks == {"high", "medium", "unknown", "low"}

LEMMA RiskIs ==
  ASSUME NEW m, NEW minSamples
  PROVE  SweepOverfitRisk(m, minSamples) \in OverfitRisks
BY DEF SweepOverfitRisk, OverfitRisks

LEMMA WithinIsNumber ==
  ASSUME NEW low \in Int, NEW high \in Int, NEW n \in Int
  PROVE  Max({low, Min({high, n})}) \in Int
<1>1. PICK least \in Int : least = Min({high, n})
  <2>1. Min({high, n}) = IF high <= n THEN high ELSE n
    BY MinOfTwo
  <2>2. QED
    BY <2>1
<1>2. Max({low, least}) = IF low >= least THEN low ELSE least
  BY MaxOfTwo
<1>3. QED
  BY <1>1, <1>2

LEMMA AtLeastNone ==
  ASSUME NEW n \in Int
  PROVE  Max({0, n}) \in Int /\ Max({0, n}) >= 0
<1>1. PICK zero \in Int : zero = 0
  OBVIOUS
<1>2. Max({zero, n}) = IF zero >= n THEN zero ELSE n
  BY MaxOfTwo
<1>3. QED
  BY <1>1, <1>2

LEMMA ScoreIsNumber ==
  ASSUME NEW m, IsMetrics(m), NEW risk \in OverfitRisks, NEW minSamples \in Nat
  PROVE  Score(m, risk, minSamples) \in Int
<1>1. PICK one \in Int : one = One
  BY DEF One
<1>2. PICK lowSample : lowSample = IF m.actionableCount < minSamples
                                   THEN 20 + 2 * (minSamples - m.actionableCount)
                                   ELSE IF m.sampleCount < 20 THEN 8 ELSE 0
  OBVIOUS
<1>3. lowSample \in Int
  <2>1. m["actionableCount"] \in Nat
    BY DEF IsMetrics, MetricCounts
  <2>2. m.actionableCount \in Int
    BY <2>1
  <2>3. QED
    BY <1>2, <2>2
<1>4. PICK pnl \in Int : pnl = IF m.cumulativePnl = Null THEN -One ELSE m.cumulativePnl
  <2>1. m.cumulativePnl \in Int
    BY DEF IsMetrics
  <2>2. -One \in Int
    BY <1>1
  <2>3. QED
    BY <2>1, <2>2
<1>5. PICK within \in Int : within = Max({-2 * One, Min({2 * One, pnl})})
  <2>1. PICK low \in Int, high \in Int : low = -2 * One /\ high = 2 * One
    BY <1>1
  <2>2. QED
    BY <2>1, WithinIsNumber
<1>6. PICK coverage \in Int, fall \in Int, waiting \in Int :
        /\ coverage = Max({0, m.coverageRate}) /\ fall = Max({0, m.maxDrawdown})
        /\ waiting = Max({0, m.pendingRate})
  <2>1. m.coverageRate \in Int /\ m.maxDrawdown \in Int /\ m.pendingRate \in Int
    BY DEF IsMetrics
  <2>2. QED
    BY <2>1, AtLeastNone
<1>7. PICK penalty \in Int : penalty = OverfitPenalty[risk]
  <2>1. OverfitPenalty[risk] \in {25, 10, 6, 0}
    BY DEF OverfitPenalty, OverfitRisks
  <2>2. QED
    BY <2>1
<1>8. PICK base \in Int : base = IF m.winRate = Null THEN -35 * One ELSE m.winRate * 45
  <2>1. m.winRate \in Int
    BY DEF IsMetrics
  <2>2. m.winRate * 45 \in Int
    BY <2>1
  <2>3. -35 * One \in Int
    BY <1>1
  <2>4. QED
    BY <2>2, <2>3
<1>9. PICK less \in Int : less = One * (lowSample + penalty)
  <2>1. lowSample + penalty \in Int
    BY <1>3
  <2>2. PICK x \in Int : x = lowSample + penalty
    BY <2>1
  <2>3. one * x \in Int
    BY SMT
  <2>4. QED
    BY <1>1, <2>2, <2>3
<1>10. Score(m, risk, minSamples) = base + 12 * within + 18 * coverage - 16 * fall - 12 * waiting - less
  BY <1>2, <1>4, <1>5, <1>6, <1>7, <1>8, <1>9, ZenonT(40) DEF Score
<1>11. QED
  BY <1>10

\* A result that has been judged by itself.
IsJudged(r, p, minSamples) ==
  /\ r = [parameters |-> p, metrics |-> r.metrics, risk |-> r.risk, score |-> r.score, reasons |-> r.reasons]
  /\ IsMetrics(r.metrics) /\ r.score \in Int
  /\ r.reasons = {} =>
       /\ r.metrics.actionableCount >= minSamples
       /\ r.metrics.winRate # Null /\ r.metrics.cumulativePnl >= 0
       /\ r.risk # "high"

LEMMA ReasonsAre ==
  ASSUME NEW m, NEW risk, NEW minSamples, InitialRejectionReasons(m, risk, minSamples) = {}
  PROVE  /\ m.winRate # Null /\ ~(m.actionableCount < minSamples)
         /\ ~(m.cumulativePnl # Null /\ m.cumulativePnl < 0) /\ risk # "high"
<1>1. PICK is : is = [winRate |-> m.winRate = Null, samples |-> m.actionableCount < minSamples,
                      pnl |-> m.cumulativePnl # Null /\ m.cumulativePnl < 0, overfit |-> risk = "high"]
  OBVIOUS
<1>2. {reason \in DOMAIN is : is[reason]} = {}
  BY <1>1, Zenon DEF InitialRejectionReasons
<1>3. \A reason \in {"winRate", "samples", "pnl", "overfit"} : ~is[reason]
  <2>1. DOMAIN is = {"winRate", "samples", "pnl", "overfit"}
    BY <1>1
  <2>2. QED
    BY <1>2, <2>1
<1>4. ~is["winRate"] /\ ~is["samples"] /\ ~is["pnl"] /\ ~is["overfit"]
  BY <1>3
<1>5. /\ is["winRate"] = (m.winRate = Null) /\ is["samples"] = (m.actionableCount < minSamples)
      /\ is["pnl"] = (m.cumulativePnl # Null /\ m.cumulativePnl < 0) /\ is["overfit"] = (risk = "high")
  BY <1>1
<1>6. QED
  BY <1>4, <1>5, Zenon

LEMMA ResultIsJudged ==
  ASSUME NEW p, NEW m, IsMetrics(m), NEW minSamples \in Nat
  PROVE  IsJudged(ParameterResult(p, m, minSamples), p, minSamples)
<1>1. PICK risk : risk = SweepOverfitRisk(m, minSamples)
  OBVIOUS
<1>2. risk \in OverfitRisks
  BY <1>1, RiskIs
<1>3. PICK score \in Int : score = Score(m, risk, minSamples)
  BY <1>2, ScoreIsNumber
<1>4. PICK reasons : reasons = InitialRejectionReasons(m, risk, minSamples)
  OBVIOUS
<1>5. PICK r : r = ParameterResult(p, m, minSamples)
  OBVIOUS
<1>6. r = [parameters |-> p, metrics |-> m, risk |-> risk, score |-> score, reasons |-> reasons]
  BY <1>1, <1>3, <1>4, <1>5, Zenon DEF ParameterResult
<1>7. r.metrics = m /\ r.risk = risk /\ r.score = score /\ r.reasons = reasons
  BY <1>6
<1>8. ASSUME reasons = {}
      PROVE  m.actionableCount >= minSamples /\ m.winRate # Null /\ m.cumulativePnl >= 0 /\ risk # "high"
  <2>1. /\ m.winRate # Null /\ ~(m.actionableCount < minSamples)
        /\ ~(m.cumulativePnl # Null /\ m.cumulativePnl < 0) /\ risk # "high"
    BY <1>4, <1>8, ReasonsAre
  <2>2. m["actionableCount"] \in Nat
    BY DEF IsMetrics, MetricCounts
  <2>3. m.cumulativePnl \in Int /\ m.cumulativePnl # Null
    BY <2>1 DEF IsMetrics
  <2>4. m.actionableCount >= minSamples
    BY <2>1, <2>2
  <2>5. m.cumulativePnl >= 0
    BY <2>1, <2>3
  <2>6. QED
    BY <2>1, <2>4, <2>5
<1>9. r = [parameters |-> p, metrics |-> r.metrics, risk |-> r.risk, score |-> r.score, reasons |-> r.reasons]
  BY <1>6, <1>7
<1>10. IsJudged(r, p, minSamples)
  BY <1>7, <1>8, <1>9 DEF IsJudged
<1>11. QED
  BY <1>5, <1>10

LEMMA ReplayIsJudged ==
  ASSUME NEW fixture, IsMockFixture(fixture), NEW window, NEW p, IsParameters(ReplayParameters(p)),
         NEW minSamples \in Nat
  PROVE  IsJudged(RunReplayForParameter(fixture, window, p, minSamples), p, minSamples)
<1>1. PICK q, interval : q = ReplayParameters(p) /\ interval = p[1]
  OBVIOUS
<1>2. PICK bets : bets = Kept(fixture, IsInWindow(fixture, window))
  OBVIOUS
<1>3. PICK results : results = MocksOf(bets, q, interval)
  OBVIOUS
<1>4. MockReplay(fixture, window, q, interval) = WithMetrics(results)
  BY <1>2, <1>3, ReplayOfBets
<1>5. MockReplay(fixture, window, q, interval).results = results
  BY <1>4 DEF WithMetrics
<1>6. AreMocks(results, bets, q, interval)
  BY <1>2, <1>5, MockReplayIs
<1>7. AreSettled(results)
  <2>1. \A i \in 1 .. Len(results) : IsSettled(results[i])
    <3>1. SUFFICES ASSUME NEW i \in 1 .. Len(results) PROVE IsSettled(results[i])
      OBVIOUS
    <3>2. IsMockResult(bets[i]) /\ IsMock(results[i], bets[i], q, interval, i - 1)
      BY <1>6 DEF AreMocks
    <3>3. IsParameters(q)
      BY <1>1
    <3>4. QED
      BY <3>2, <3>3, MockIsSettled
  <2>2. QED
    BY <1>6, <2>1 DEF AreMocks, AreSettled
<1>8. PICK m : m = ReplayMetrics(results)
  OBVIOUS
<1>9. IsMetrics(m)
  BY <1>7, <1>8, MetricsAreNumbers
<1>10. RunReplayForParameter(fixture, window, p, minSamples) = ParameterResult(p, m, minSamples)
  <2>1. MockReplay(fixture, window, q, interval).metrics = m
    BY <1>4, <1>8 DEF WithMetrics
  <2>2. QED
    BY <1>1, <2>1, Zenon DEF RunReplayForParameter
<1>11. QED
  BY <1>9, <1>10, ResultIsJudged

-----------------------------------------------------------------------------
(* The ranking, and the candidates at its head.                              *)
\* The results of a grid, each judged by itself.
AreJudged(results, grid, N, minSamples) ==
  /\ results = [k \in 1 .. N |-> results[k]]
  /\ \A k \in 1 .. N : IsJudged(results[k], grid[k], minSamples)

IsRanked(ranked, results, walkForwards, N, at) ==
  /\ at \in [1 .. N -> 1 .. N] /\ \A i \in 1 .. N : \E k \in 1 .. N : at[k] = i
  /\ \A k, l \in 1 .. N : k < l => results[at[k]].score >= results[at[l]].score
  /\ ranked = [k \in 1 .. N |-> ranked[k]]
  /\ \A k \in 1 .. N :
       /\ ranked[k].parameters = results[at[k]].parameters /\ ranked[k].metrics = results[at[k]].metrics
       /\ ranked[k].risk = results[at[k]].risk /\ ranked[k].score = results[at[k]].score
       /\ ranked[k].reasons = Judgement(results[at[k]], walkForwards)

LEMMA RankedIs ==
  ASSUME NEW N \in Nat, NEW grid, NEW minSamples \in Nat, NEW results,
         AreJudged(results, grid, N, minSamples), NEW walkForwards
  PROVE  \E at : IsRanked(Ranked(results, walkForwards), results, walkForwards, N, at)
<1>1. PICK R : results \in Seq(R) /\ DOMAIN results = 1 .. N
  <2>1. PICK f : f = [k \in 1 .. N |-> results[k]]
    OBVIOUS
  <2>2. f \in [1 .. N -> {results[k] : k \in 1 .. N}]
    BY <2>1
  <2>3. results = f
    BY <2>1 DEF AreJudged
  <2>4. results \in Seq({results[k] : k \in 1 .. N}) /\ DOMAIN results = 1 .. N
    BY <2>2, <2>3
  <2>5. QED
    BY <2>4
<1>2. Listed(results) = results
  BY <1>1, ListedIs
<1>3. PICK key : key = [i \in DOMAIN results |-> -results[i].score]
  OBVIOUS
<1>4. \A k \in 1 .. N : results[k].score \in Int
  BY DEF AreJudged, IsJudged
<1>5. key \in [1 .. N -> Int] /\ \A i \in 1 .. N : key[i] = -results[i].score
  BY <1>1, <1>3, <1>4
<1>6. PICK sorted : sorted = Arranged(results, key)
  OBVIOUS
<1>7. IsFiniteSet(1 .. N) /\ Cardinality(1 .. N) = N
  BY FS_Interval
<1>8. PICK n \in Nat : \E at \in [1 .. n -> 1 .. N] : Lists(sorted, results, 1 .. N, key, n, at)
  <2>1. 1 .. N \subseteq Int
    OBVIOUS
  <2>2. QED
    BY <1>5, <1>6, <1>7, <2>1, ArrangedIs
<1>9. PICK at \in [1 .. n -> 1 .. N] : Lists(sorted, results, 1 .. N, key, n, at)
  BY <1>8
<1>10. n = N
  BY <1>7, <1>9 DEF Lists
<1>11. /\ at \in [1 .. N -> 1 .. N] /\ sorted = [k \in 1 .. N |-> results[at[k]]]
       /\ \A i \in 1 .. N : \E k \in 1 .. N : at[k] = i
       /\ \A k, l \in 1 .. N : k < l => Earlier(at[k], at[l], key)
  BY <1>9, <1>10 DEF Lists
<1>12. ASSUME NEW k \in 1 .. N, NEW l \in 1 .. N, k < l
       PROVE  results[at[k]].score >= results[at[l]].score
  <2>1. PICK i \in 1 .. N, j \in 1 .. N : i = at[k] /\ j = at[l]
    BY <1>11
  <2>2. Earlier(i, j, key)
    BY <1>11, <1>12, <2>1
  <2>3. key[i] = -results[i].score /\ key[j] = -results[j].score
    BY <1>5
  <2>4. PICK a \in Int : a = results[i].score
    BY <1>4
  <2>5. PICK b \in Int : b = results[j].score
    BY <1>4
  <2>6. a >= b
    BY SMTT(40), <2>2, <2>3, <2>4, <2>5 DEF Earlier
  <2>7. QED
    BY <2>1, <2>4, <2>5, <2>6
<1>13. PICK ranked : ranked = [m \in DOMAIN sorted |-> [sorted[m] EXCEPT !.reasons = Judgement(sorted[m], walkForwards)]]
  OBVIOUS
<1>14. Ranked(results, walkForwards) = ranked
  BY <1>2, <1>3, <1>6, <1>13, Zenon DEF Ranked
<1>15. ranked = [k \in 1 .. N |-> ranked[k]]
  BY <1>11, <1>13
<1>16. ASSUME NEW k \in 1 .. N
       PROVE  /\ ranked[k].parameters = results[at[k]].parameters /\ ranked[k].metrics = results[at[k]].metrics
              /\ ranked[k].risk = results[at[k]].risk /\ ranked[k].score = results[at[k]].score
              /\ ranked[k].reasons = Judgement(results[at[k]], walkForwards)
  <2>1. PICK i \in 1 .. N : i = at[k]
    BY <1>11
  <2>2. PICK r : r = results[i]
    OBVIOUS
  <2>3. PICK reasons : reasons = Judgement(r, walkForwards)
    OBVIOUS
  <2>4. sorted[k] = r
    BY <1>11, <2>1, <2>2
  <2>5. ranked[k] = [r EXCEPT !.reasons = reasons]
    BY <1>11, <1>13, <2>3, <2>4
  <2>6. r = [parameters |-> grid[i], metrics |-> r.metrics, risk |-> r.risk, score |-> r.score,
             reasons |-> r.reasons]
    BY <2>2 DEF AreJudged, IsJudged
  <2>7. /\ ranked[k].parameters = r.parameters /\ ranked[k].metrics = r.metrics
        /\ ranked[k].risk = r.risk /\ ranked[k].score = r.score /\ ranked[k].reasons = reasons
    BY <2>5, <2>6
  <2>8. QED
    BY <2>1, <2>2, <2>3, <2>7
<1>17. IsRanked(ranked, results, walkForwards, N, at)
  BY <1>11, <1>12, <1>15, <1>16 DEF IsRanked
<1>18. QED
  BY <1>14, <1>17

\* What is not turned away, and the first of it.
NoReasons(ranked) == {n \in DOMAIN ranked : ranked[n].reasons = {}}

IsHead(top, ranked, c, t, at) ==
  /\ Enumerates(at, c, NoReasons(ranked)) /\ t <= c
  /\ top = [k \in 1 .. t |-> ranked[at[k]]]

LEMMA HeadIs ==
  ASSUME NEW N \in Nat, NEW ranked, ranked = [k \in 1 .. N |-> ranked[k]]
  PROVE  \E c \in Nat, t \in Nat : \E at : IsHead(TopCandidates(ranked), ranked, c, t, at)
<1>1. PICK R : ranked \in Seq(R) /\ DOMAIN ranked = 1 .. N /\ Len(ranked) = N
  <2>1. PICK f : f = [k \in 1 .. N |-> ranked[k]]
    OBVIOUS
  <2>2. f \in [1 .. N -> {ranked[k] : k \in 1 .. N}]
    BY <2>1
  <2>3. ranked \in Seq({ranked[k] : k \in 1 .. N}) /\ DOMAIN ranked = 1 .. N /\ Len(ranked) = N
    BY <2>1, <2>2
  <2>4. QED
    BY <2>3
<1>2. PICK P : P = NoReasons(ranked)
  OBVIOUS
<1>3. P \in SUBSET (1 .. Len(ranked))
  BY <1>1, <1>2 DEF NoReasons
<1>4. PICK sound : sound = Kept(ranked, P)
  OBVIOUS
<1>5. PICK c \in Nat : \E at : IsKept(sound, ranked, P, c, at)
  BY <1>1, <1>3, <1>4, KeptEnumerates
<1>6. PICK at : IsKept(sound, ranked, P, c, at)
  BY <1>5
<1>7. Enumerates(at, c, P) /\ sound = [k \in 1 .. c |-> ranked[at[k]]]
  BY <1>6 DEF IsKept
<1>8. Len(sound) = c
  BY <1>7
<1>9. PICK t \in Nat : t = Min({5, c}) /\ t <= c
  <2>1. PICK five \in Int : five = 5
    OBVIOUS
  <2>2. Min({five, c}) = IF five <= c THEN five ELSE c
    BY MinOfTwo
  <2>3. QED
    BY <2>1, <2>2
<1>10. TopCandidates(ranked) = SubSeq(sound, 1, t)
  BY <1>2, <1>4, <1>8, <1>9, Zenon DEF TopCandidates, NoReasons
<1>11. SubSeq(sound, 1, t) = [k \in 1 .. t |-> ranked[at[k]]]
  <2>1. PICK S : sound \in Seq(S)
    <3>1. sound \in [1 .. c -> {ranked[at[k]] : k \in 1 .. c}]
      BY <1>7
    <3>2. sound \in Seq({ranked[at[k]] : k \in 1 .. c})
      BY <3>1
    <3>3. QED
      BY <3>2
  <2>2. SubSeq(sound, 1, t) = [k \in 1 .. t |-> sound[k]]
    BY <1>8, <1>9, <2>1
  <2>3. \A k \in 1 .. t : sound[k] = ranked[at[k]]
    BY <1>7, <1>9
  <2>4. QED
    BY <2>2, <2>3
<1>12. TopCandidates(ranked) = [k \in 1 .. t |-> ranked[at[k]]]
  BY <1>10, <1>11
<1>13. IsHead(TopCandidates(ranked), ranked, c, t, at)
  BY <1>2, <1>7, <1>9, <1>12 DEF IsHead
<1>14. QED
  BY <1>13

\* The best of a ranking is one of it.
LEMMA BestIsRanked ==
  ASSUME NEW N \in Nat, N > 0, NEW ranked, ranked = [k \in 1 .. N |-> ranked[k]]
  PROVE  \E k \in 1 .. N : BestOf(ranked) = ranked[k]
<1>1. PICK top : top = TopCandidates(ranked)
  OBVIOUS
<1>2. PICK c \in Nat, t \in Nat : \E at : IsHead(top, ranked, c, t, at)
  BY <1>1, HeadIs
<1>3. PICK at : IsHead(top, ranked, c, t, at)
  BY <1>2
<1>4. /\ Enumerates(at, c, NoReasons(ranked)) /\ t <= c
      /\ top = [k \in 1 .. t |-> ranked[at[k]]]
  BY <1>3 DEF IsHead
<1>5. CASE top = <<>>
  <2>1. BestOf(ranked) = ranked[1]
    BY <1>1, <1>5 DEF BestOf
  <2>2. QED
    BY <2>1
<1>6. CASE top # <<>>
  <2>1. BestOf(ranked) = top[1]
    BY <1>1, <1>6 DEF BestOf
  <2>2. t # 0
    <3>1. t = 0 => 1 .. t = {}
      OBVIOUS
    <3>2. t = 0 => top = <<>>
      BY <1>4, <3>1
    <3>3. QED
      BY <1>6, <3>2
  <2>3. 1 \in 1 .. t /\ 1 \in 1 .. c
    BY <1>4, <2>2
  <2>4. at[1] \in NoReasons(ranked)
    BY <1>4, <2>3 DEF Enumerates
  <2>5. at[1] \in 1 .. N
    BY <2>4 DEF NoReasons
  <2>6. top[1] = ranked[at[1]]
    BY <1>4, <2>3
  <2>7. QED
    BY <2>1, <2>5, <2>6
<1>7. QED
  BY <1>5, <1>6

-----------------------------------------------------------------------------
(* The windows a parameter set was chosen on, taken together.                *)
Totalled(ms, field) == Summed([i \in DOMAIN ms |-> ms[i][field]])
KnownPnls(ms) ==
  LET known == Kept(ms, {i \in DOMAIN ms : ms[i].cumulativePnl # Null}) IN
  [i \in DOMAIN known |-> known[i].cumulativePnl]

AreMetrics(ms, N) == ms = [i \in 1 .. N |-> ms[i]] /\ \A i \in 1 .. N : IsMetrics(ms[i])

LEMMA SequenceOf ==
  ASSUME NEW N \in Nat, NEW s, s = [k \in 1 .. N |-> s[k]]
  PROVE  (\E S : s \in Seq(S)) /\ DOMAIN s = 1 .. N /\ Len(s) = N
<1>1. PICK f : f = [k \in 1 .. N |-> s[k]]
  OBVIOUS
<1>2. f \in [1 .. N -> {s[k] : k \in 1 .. N}]
  BY <1>1
<1>3. s = f
  BY <1>1
<1>4. s \in Seq({s[k] : k \in 1 .. N})
  BY <1>2, <1>3
<1>5. DOMAIN s = 1 .. N /\ Len(s) = N
  BY <1>2, <1>3, <1>4
<1>6. QED
  BY <1>4, <1>5

LEMMA TotalIsCount ==
  ASSUME NEW N \in Nat, NEW ms, AreMetrics(ms, N), NEW field \in MetricCounts
  PROVE  Totalled(ms, field) \in Nat
<1>1. DOMAIN ms = 1 .. N
  BY SequenceOf DEF AreMetrics
<1>2. \A i \in 1 .. N : ms[i][field] \in Nat
  BY DEF AreMetrics, IsMetrics
<1>3. PICK s : s = [i \in 1 .. N |-> ms[i][field]]
  OBVIOUS
<1>4. s \in Seq(Int) /\ Len(s) = N /\ \A i \in 1 .. N : s[i] >= 0
  <2>1. s \in [1 .. N -> Int]
    BY <1>2, <1>3
  <2>2. \A i \in 1 .. N : s[i] >= 0
    BY <1>2, <1>3
  <2>3. QED
    BY <2>1, <2>2
<1>5. PICK none : none = [i \in 1 .. N |-> 0]
  OBVIOUS
<1>6. none \in Seq(Int) /\ Len(none) = N /\ \A i \in 1 .. N : none[i] = 0
  <2>1. none \in [1 .. N -> Int]
    BY <1>5
  <2>2. QED
    BY <1>5, <2>1
<1>7. \A i \in 1 .. N : none[i] <= 0 /\ 0 <= none[i]
  BY <1>6
<1>8. PICK zero \in Int : zero = 0
  OBVIOUS
<1>9. Len(none) * zero <= Summed(none) /\ Summed(none) \in Int
  <2>1. \A i \in 1 .. Len(none) : zero <= none[i] /\ none[i] <= zero
    BY <1>6, <1>8
  <2>2. QED
    BY <1>6, <2>1, SummedWithin
<1>10. Summed(none) >= 0
  BY <1>6, <1>8, <1>9
<1>11. Summed(none) <= Summed(s) /\ Summed(s) \in Int
  <2>1. \A i \in 1 .. Len(none) : none[i] <= s[i]
    BY <1>4, <1>6
  <2>2. QED
    BY <1>4, <1>6, <2>1, SummedAtMost
<1>12. Summed(s) \in Nat
  BY <1>9, <1>10, <1>11
<1>13. Totalled(ms, field) = Summed(s)
  BY <1>1, <1>3, Zenon DEF Totalled
<1>14. QED
  BY <1>12, <1>13

LEMMA PnlsAreNumbers ==
  ASSUME NEW N \in Nat, NEW ms, AreMetrics(ms, N)
  PROVE  Summed(KnownPnls(ms)) \in Int
<1>1. PICK S : ms \in Seq(S) /\ DOMAIN ms = 1 .. N /\ Len(ms) = N
  BY SequenceOf DEF AreMetrics
<1>2. PICK P : P = {i \in DOMAIN ms : ms[i].cumulativePnl # Null}
  OBVIOUS
<1>3. P \in SUBSET (1 .. Len(ms)) /\ \A i \in P : ms[i].cumulativePnl \in Int
  BY <1>1, <1>2 DEF AreMetrics, IsMetrics
<1>4. PICK known : known = Kept(ms, P)
  OBVIOUS
<1>5. known \in Seq(S) /\ \A k \in 1 .. Len(known) : \E i \in P : known[k] = ms[i]
  <2>1. /\ Kept(ms, P) \in Seq(S)
        /\ \A k \in 1 .. Len(Kept(ms, P)) : \E i \in P : Kept(ms, P)[k] = ms[i]
    BY <1>1, <1>3, KeptElements
  <2>2. QED
    BY <1>4, <2>1
<1>6. PICK pnls : pnls = [k \in DOMAIN known |-> known[k].cumulativePnl]
  OBVIOUS
<1>7. \A k \in 1 .. Len(known) : known[k].cumulativePnl \in Int
  BY <1>3, <1>5
<1>8. PICK n \in Nat : n = Len(known) /\ DOMAIN known = 1 .. n
  BY <1>5
<1>9. pnls \in Seq(Int)
  <2>1. pnls = [k \in 1 .. n |-> known[k].cumulativePnl]
    BY <1>6, <1>8
  <2>2. pnls \in [1 .. n -> Int]
    BY <1>7, <1>8, <2>1
  <2>3. QED
    BY <2>2
<1>10. Summed(pnls) \in Int
  <2>1. \A i \in 1 .. Len(pnls) : pnls[i] <= pnls[i]
    BY <1>9
  <2>2. QED
    BY <1>9, <2>1, SummedAtMost
<1>11. KnownPnls(ms) = pnls
  BY <1>2, <1>4, <1>6, Zenon DEF KnownPnls
<1>12. QED
  BY <1>10, <1>11

LEMMA AggregateIs ==
  ASSUME NEW N \in Nat, NEW ms, AreMetrics(ms, N)
  PROVE  /\ AggregateReplayMetrics(ms).winRate \in Int
         /\ AggregateReplayMetrics(ms).cumulativePnl \in Int
<1>1. PICK win \in Nat : win = Totalled(ms, "winCount")
  BY TotalIsCount DEF MetricCounts
<1>2. PICK loss \in Nat : loss = Totalled(ms, "lossCount")
  BY TotalIsCount DEF MetricCounts
<1>3. PICK rate \in Int : rate = Ratio(win, win + loss)
  <2>1. win + loss \in Nat
    OBVIOUS
  <2>2. QED
    BY <2>1, RatioIsNumber
<1>4. PICK pnl \in Int : pnl = IF KnownPnls(ms) = <<>> THEN Null ELSE Summed(KnownPnls(ms))
  <2>1. Null \in Int
    BY DEF Null
  <2>2. QED
    BY <2>1, PnlsAreNumbers
<1>5. PICK samples, actionable, coverage, waiting, fall :
        AggregateReplayMetrics(ms) =
          [sampleCount |-> samples, winCount |-> win, lossCount |-> loss, actionableCount |-> actionable,
           winRate |-> rate, coverageRate |-> coverage, pendingRate |-> waiting, cumulativePnl |-> pnl,
           maxDrawdown |-> fall]
  BY <1>1, <1>2, <1>3, <1>4, Zenon DEF AggregateReplayMetrics, Totalled, KnownPnls
<1>6. AggregateReplayMetrics(ms).winRate = rate /\ AggregateReplayMetrics(ms).cumulativePnl = pnl
  BY <1>5
<1>7. QED
  BY <1>6

\* What was passed of the windows, where that was consistent.
LEMMA LossIs ==
  ASSUME NEW a \in Int, NEW b \in Int, NEW lost, lost = (IF Null \in {a, b} THEN 0 ELSE Max({0, a - b}))
  PROVE  lost \in Int /\ lost >= 0
<1>1. Max({0, a - b}) \in Int /\ Max({0, a - b}) >= 0
  <2>1. a - b \in Int
    OBVIOUS
  <2>2. QED
    BY <2>1, AtLeastNone
<1>2. QED
  BY <1>1

LEMMA AtMostIs ==
  ASSUME NEW most \in Nat, NEW n \in Int, n >= 0
  PROVE  Min({most, n}) \in Int /\ Min({most, n}) >= 0
<1>1. Min({most, n}) = IF most <= n THEN most ELSE n
  BY MinOfTwo
<1>2. QED
  BY <1>1

LostOnTheWay(a, b) == IF Null \in {a, b} THEN 0 ELSE Max({0, a - b})

LEMMA ConsistentPassed ==
  ASSUME NEW train, train.winRate \in Int, train.cumulativePnl \in Int,
         NEW test, test.winRate \in Int, test.cumulativePnl \in Int,
         NEW passed \in Nat, NEW windows \in Nat \ {0},
         ~(Consistency(train, test, passed, windows) < One \div 2)
  PROVE  2 * passed >= windows
<1>1. PICK lost \in Int : lost >= 0 /\ lost = LostOnTheWay(train.winRate, test.winRate)
  BY LossIs DEF LostOnTheWay
<1>2. PICK fallen \in Int : fallen >= 0 /\ fallen = LostOnTheWay(train.cumulativePnl, test.cumulativePnl)
  BY LossIs DEF LostOnTheWay
<1>3. PICK part \in Int : part >= 0 /\ part = fallen \div 3
  BY <1>2
<1>4. PICK rate \in Int : rate >= 0 /\ rate = Min({3000, lost})
  <2>1. 3000 \in Nat
    OBVIOUS
  <2>2. QED
    BY <1>1, <2>1, AtMostIs
<1>5. PICK pnl \in Int : pnl >= 0 /\ pnl = Min({2000, part})
  <2>1. 2000 \in Nat
    OBVIOUS
  <2>2. QED
    BY <1>3, <2>1, AtMostIs
<1>6. PICK one \in Int : one = One /\ one = 10000
  BY DEF One
<1>7. PICK all \in Nat : all = passed * one
  <2>1. passed * one \in Nat
    BY <1>6
  <2>2. QED
    BY <2>1
<1>8. PICK share \in Nat : share = all \div windows
  BY ShareIsNatural
<1>9. PICK left \in Int : left = share - rate - pnl
  OBVIOUS
<1>10. PICK most \in Int : most = Min({one, left}) /\ most <= left
  <2>1. Min({one, left}) = IF one <= left THEN one ELSE left
    BY MinOfTwo
  <2>2. QED
    BY <2>1
<1>11. PICK zero \in Int : zero = 0
  OBVIOUS
<1>12. Max({zero, most}) = IF zero >= most THEN zero ELSE most
  BY MaxOfTwo
<1>13. Consistency(train, test, passed, windows) = Max({zero, most})
  BY <1>1, <1>2, <1>3, <1>4, <1>5, <1>6, <1>7, <1>8, <1>9, <1>10, <1>11, SMT DEF Consistency, LostOnTheWay
<1>14. PICK consistency \in Int : consistency = Consistency(train, test, passed, windows)
  BY <1>12, <1>13
<1>15. PICK half \in Int : half = One \div 2
  BY DEF One
<1>16. ~(consistency < half)
  BY <1>14, <1>15, Zenon
<1>17. most >= 5000
  <2>1. half = 5000
    BY <1>15 DEF One
  <2>2. QED
    BY <1>11, <1>12, <1>13, <1>14, <1>16, <2>1
<1>18. share >= 5000
  BY <1>4, <1>5, <1>9, <1>10, <1>17
<1>19. windows * share <= all
  BY <1>8, SMT
<1>20. windows * 5000 <= windows * share
  BY <1>18, SMT
<1>21. QED
  <2>1. all = passed * 10000
    BY <1>6, <1>7
  <2>2. PICK x \in Int : x = windows * share
    BY SMT
  <2>3. windows * 5000 <= x /\ x <= all
    BY <1>19, <1>20, <2>2
  <2>4. QED
    BY <2>1, <2>3

-----------------------------------------------------------------------------
(* The walk-forward validation.                                              *)
AreTested(selected, N) ==
  /\ selected = [k \in 1 .. N |-> selected[k]]
  /\ \A k \in 1 .. N : IsMetrics(selected[k].train) /\ IsMetrics(selected[k].test)

IsValidated(w) ==
  /\ w.train.winRate \in Int /\ w.train.cumulativePnl \in Int
  /\ w.test.winRate \in Int /\ w.test.cumulativePnl \in Int
  /\ w.passed \in Nat /\ w.windows \in Nat \ {0}
  /\ w.consistency = Consistency(w.train, w.test, w.passed, w.windows)

LEMMA ResultIsValidated ==
  ASSUME NEW n \in Nat \ {0}, NEW group, AreTested(group, n), NEW minSamples
  PROVE  IsValidated(WalkForwardResult(group, minSamples))
<1>1. DOMAIN group = 1 .. n /\ Len(group) = n
  BY SequenceOf DEF AreTested
<1>2. PICK trains : trains = [i \in DOMAIN group |-> group[i].train]
  OBVIOUS
<1>3. PICK tests : tests = [i \in DOMAIN group |-> group[i].test]
  OBVIOUS
<1>4. AreMetrics(trains, n) /\ AreMetrics(tests, n)
  <2>1. trains = [i \in 1 .. n |-> trains[i]] /\ tests = [i \in 1 .. n |-> tests[i]]
    BY <1>1, <1>2, <1>3
  <2>2. \A i \in 1 .. n : IsMetrics(trains[i]) /\ IsMetrics(tests[i])
    <3>1. SUFFICES ASSUME NEW i \in 1 .. n
                   PROVE  IsMetrics(trains[i]) /\ IsMetrics(tests[i])
      OBVIOUS
    <3>2. trains[i] = group[i].train /\ tests[i] = group[i].test
      BY <1>1, <1>2, <1>3
    <3>3. IsMetrics(group[i].train) /\ IsMetrics(group[i].test)
      BY DEF AreTested
    <3>4. QED
      BY <3>2, <3>3
  <2>3. QED
    BY <2>1, <2>2 DEF AreMetrics
<1>5. PICK train : train = AggregateReplayMetrics(trains)
  OBVIOUS
<1>6. PICK test : test = AggregateReplayMetrics(tests)
  OBVIOUS
<1>7. /\ train.winRate \in Int /\ train.cumulativePnl \in Int
      /\ test.winRate \in Int /\ test.cumulativePnl \in Int
  BY <1>4, <1>5, <1>6, AggregateIs
<1>8. PICK P : P = {i \in DOMAIN group : PassedOutOfSample(group[i].test, minSamples)}
  OBVIOUS
<1>9. PICK passed \in Nat : passed = Cardinality(P)
  <2>1. IsFiniteSet(1 .. n)
    BY FS_Interval
  <2>2. P \subseteq 1 .. n
    BY <1>1, <1>8
  <2>3. Cardinality(P) \in Nat
    BY <2>1, <2>2, FS_Subset, FS_CardinalityType
  <2>4. QED
    BY <2>3
<1>10. PICK parameters, risk :
         WalkForwardResult(group, minSamples) =
           [parameters |-> parameters, train |-> train, test |-> test, passed |-> passed,
            windows |-> n, risk |-> risk, consistency |-> Consistency(train, test, passed, n)]
  BY <1>1, <1>2, <1>3, <1>5, <1>6, <1>8, <1>9, Zenon DEF WalkForwardResult
<1>11. PICK w : w = WalkForwardResult(group, minSamples)
  OBVIOUS
<1>12. PICK consistency : consistency = Consistency(train, test, passed, n)
  OBVIOUS
<1>13. w = [parameters |-> parameters, train |-> train, test |-> test, passed |-> passed,
            windows |-> n, risk |-> risk, consistency |-> consistency]
  BY <1>10, <1>11, <1>12, Zenon
<1>14. /\ w.train = train /\ w.test = test /\ w.passed = passed /\ w.windows = n
       /\ w.consistency = consistency
  BY <1>13
<1>15. IsValidated(w)
  BY <1>7, <1>12, <1>14 DEF IsValidated
<1>16. QED
  BY <1>11, <1>15

LEMMA ResultsAreValidated ==
  ASSUME NEW N \in Nat, NEW selected, AreTested(selected, N), NEW minSamples,
         NEW w \in WalkForwardResults(selected, minSamples)
  PROVE  IsValidated(w)
<1>1. PICK S : selected \in Seq(S) /\ DOMAIN selected = 1 .. N /\ Len(selected) = N
  BY SequenceOf DEF AreTested
<1>2. PICK n \in 1 .. N :
        w = WalkForwardResult(
              Kept(selected, {m \in DOMAIN selected : ParameterSetId(selected[m].parameters)
                                                        = ParameterSetId(selected[n].parameters)}),
              minSamples)
  BY <1>1, Zenon DEF WalkForwardResults
<1>3. PICK P : P = {m \in DOMAIN selected : ParameterSetId(selected[m].parameters)
                                              = ParameterSetId(selected[n].parameters)}
  OBVIOUS
<1>4. P \in SUBSET (1 .. Len(selected)) /\ n \in P
  BY <1>1, <1>3
<1>5. PICK group : group = Kept(selected, P)
  OBVIOUS
<1>6. /\ group \in Seq(S) /\ (group = <<>> <=> P = {})
      /\ \A k \in 1 .. Len(group) : \E i \in P : group[k] = selected[i]
  <2>1. /\ Kept(selected, P) \in Seq(S) /\ (Kept(selected, P) = <<>> <=> P = {})
        /\ \A k \in 1 .. Len(Kept(selected, P)) : \E i \in P : Kept(selected, P)[k] = selected[i]
    BY <1>1, <1>4, KeptElements
  <2>2. QED
    BY <1>5, <2>1
<1>7. PICK c \in Nat \ {0} : c = Len(group) /\ group = [k \in 1 .. c |-> group[k]]
  <2>1. group # <<>>
    BY <1>4, <1>6
  <2>2. Len(group) \in Nat \ {0} /\ group = [k \in 1 .. Len(group) |-> group[k]]
    BY <1>6, <2>1
  <2>3. QED
    BY <2>2
<1>8. \A k \in 1 .. c : IsMetrics(group[k].train) /\ IsMetrics(group[k].test)
  <2>1. SUFFICES ASSUME NEW k \in 1 .. c, NEW i \in P, group[k] = selected[i]
                 PROVE  IsMetrics(group[k].train) /\ IsMetrics(group[k].test)
    BY <1>6, <1>7
  <2>2. i \in 1 .. N
    BY <1>1, <1>4
  <2>3. IsMetrics(selected[i].train) /\ IsMetrics(selected[i].test)
    BY <2>2 DEF AreTested
  <2>4. QED
    BY <2>1, <2>3
<1>9. AreTested(group, c)
  BY <1>7, <1>8 DEF AreTested
<1>10. w = WalkForwardResult(group, minSamples)
  BY <1>2, <1>3, <1>5, Zenon
<1>11. QED
  BY <1>9, <1>10, ResultIsValidated

\* A validation without reasons against it.
LEMMA ValidationAgrees ==
  ASSUME NEW w, IsValidated(w), ValidationReasons(w) = {}
  PROVE  /\ w.test.cumulativePnl = Null \/ w.test.cumulativePnl >= 0
         /\ 2 * w.passed >= w.windows
<1>1. PICK is : is = [riskForward |-> w.risk = "high",
                      consistency |-> w.consistency < One \div 2,
                      pnlForward |-> w.test.cumulativePnl # Null /\ w.test.cumulativePnl < 0]
  OBVIOUS
<1>2. {reason \in DOMAIN is : is[reason]} = {}
  BY <1>1, Zenon DEF ValidationReasons
<1>3. ~is["consistency"] /\ ~is["pnlForward"]
  <2>1. DOMAIN is = {"riskForward", "consistency", "pnlForward"}
    BY <1>1
  <2>2. QED
    BY <1>2, <2>1
<1>4. /\ is["consistency"] = (w.consistency < One \div 2)
      /\ is["pnlForward"] = (w.test.cumulativePnl # Null /\ w.test.cumulativePnl < 0)
  BY <1>1
<1>5. ~(w.consistency < One \div 2) /\ ~(w.test.cumulativePnl # Null /\ w.test.cumulativePnl < 0)
  BY <1>3, <1>4, Zenon
<1>6. w.test.cumulativePnl = Null \/ w.test.cumulativePnl >= 0
  <2>1. PICK pnl \in Int : pnl = w.test.cumulativePnl
    BY DEF IsValidated
  <2>2. ~(pnl # Null /\ pnl < 0)
    BY <1>5, <2>1, Zenon
  <2>3. pnl = Null \/ pnl >= 0
    BY <2>2
  <2>4. QED
    BY <2>1, <2>3
<1>7. 2 * w.passed >= w.windows
  <2>1. PICK passed \in Nat, count \in Nat \ {0} : passed = w.passed /\ count = w.windows
    BY DEF IsValidated
  <2>2. ~(Consistency(w.train, w.test, passed, count) < One \div 2)
    BY <1>5, <2>1, Zenon DEF IsValidated
  <2>3. 2 * passed >= count
    BY <2>2, ConsistentPassed DEF IsValidated
  <2>4. QED
    BY <2>1, <2>3
<1>8. QED
  BY <1>6, <1>7

LEMMA JudgementIs ==
  ASSUME NEW result, NEW walkForwards, Judgement(result, walkForwards) = {}
  PROVE  /\ result.reasons = {}
         /\ \A w \in walkForwards : w.parameters = result.parameters => ValidationReasons(w) = {}
<1>1. PICK own : own = {w \in walkForwards : ParameterSetId(w.parameters) = ParameterSetId(result.parameters)}
  OBVIOUS
<1>2. result.reasons \cup UNION {ValidationReasons(w) : w \in own} = {}
  BY <1>1, Zenon DEF Judgement
<1>3. \A w \in own : ValidationReasons(w) = {}
  BY <1>2
<1>4. ASSUME NEW w \in walkForwards, w.parameters = result.parameters
      PROVE  w \in own
  BY <1>1, <1>4
<1>5. QED
  BY <1>2, <1>3, <1>4

\* The grid's results over a window.
IsGrid(grid, N) ==
  DOMAIN grid = 1 .. N /\ \A k \in 1 .. N : IsParameters(ReplayParameters(grid[k]))

LEMMA ResultsOnAreJudged ==
  ASSUME NEW fixture, IsMockFixture(fixture), NEW window, NEW N \in Nat, NEW grid, IsGrid(grid, N),
         NEW minSamples \in Nat
  PROVE  AreJudged(ResultsOn(fixture, window, grid, minSamples), grid, N, minSamples)
<1>1. PICK results : results = ResultsOn(fixture, window, grid, minSamples)
  OBVIOUS
<1>2. results = [k \in 1 .. N |-> RunReplayForParameter(fixture, window, grid[k], minSamples)]
  BY <1>1 DEF ResultsOn, IsGrid
<1>3. results = [k \in 1 .. N |-> results[k]]
  BY <1>2
<1>4. \A k \in 1 .. N : IsJudged(results[k], grid[k], minSamples)
  <2>1. SUFFICES ASSUME NEW k \in 1 .. N
                 PROVE  IsJudged(results[k], grid[k], minSamples)
    OBVIOUS
  <2>2. IsJudged(RunReplayForParameter(fixture, window, grid[k], minSamples), grid[k], minSamples)
    BY ReplayIsJudged DEF IsGrid
  <2>3. results[k] = RunReplayForParameter(fixture, window, grid[k], minSamples)
    BY <1>2
  <2>4. QED
    BY <2>2, <2>3
<1>5. AreJudged(results, grid, N, minSamples)
  BY <1>3, <1>4 DEF AreJudged
<1>6. QED
  BY <1>1, <1>5

LEMMA SelectedIsOfGrid ==
  ASSUME NEW fixture, IsMockFixture(fixture), NEW w, NEW N \in Nat, N > 0, NEW grid, IsGrid(grid, N),
         NEW minSamples \in Nat
  PROVE  \E i \in 1 .. N : /\ SelectedOn(fixture, w, grid, minSamples).parameters = grid[i]
                           /\ IsMetrics(SelectedOn(fixture, w, grid, minSamples).metrics)
<1>1. PICK results : results = ResultsOn(fixture, TrainWindow(w), grid, minSamples)
  OBVIOUS
<1>2. AreJudged(results, grid, N, minSamples)
  BY <1>1, ResultsOnAreJudged
<1>3. PICK ranked : ranked = Ranked(results, {})
  OBVIOUS
<1>4. PICK at : IsRanked(ranked, results, {}, N, at)
  BY <1>2, <1>3, RankedIs
<1>5. ranked = [k \in 1 .. N |-> ranked[k]]
  BY <1>4 DEF IsRanked
<1>6. PICK k \in 1 .. N : BestOf(ranked) = ranked[k]
  BY <1>5, BestIsRanked
<1>7. SelectedOn(fixture, w, grid, minSamples) = ranked[k]
  BY <1>1, <1>3, <1>6, Zenon DEF SelectedOn, ResultsOn
<1>8. PICK i \in 1 .. N : i = at[k]
  BY <1>4 DEF IsRanked
<1>9. ranked[k].parameters = results[i].parameters /\ ranked[k].metrics = results[i].metrics
  BY <1>4, <1>8 DEF IsRanked
<1>10. IsJudged(results[i], grid[i], minSamples)
  BY <1>2 DEF AreJudged
<1>11. results[i].parameters = grid[i] /\ IsMetrics(results[i].metrics)
  BY <1>10 DEF IsJudged
<1>12. QED
  BY <1>7, <1>9, <1>11

TestedOn(fixture, w, best, minSamples) ==
  [parameters |-> best.parameters, train |-> best.metrics,
   test |-> RunReplayForParameter(fixture, TestWindow(w), best.parameters, minSamples).metrics]
TestedWindows(fixture, windows, grid, minSamples) ==
  [n \in DOMAIN windows |-> TestedOn(fixture, windows[n], SelectedOn(fixture, windows[n], grid, minSamples),
                                     minSamples)]

LEMMA WindowsAreTested ==
  ASSUME NEW fixture, IsMockFixture(fixture), NEW W \in Nat, NEW windows, DOMAIN windows = 1 .. W,
         NEW N \in Nat, N > 0, NEW grid, IsGrid(grid, N), NEW minSamples \in Nat
  PROVE  AreTested(TestedWindows(fixture, windows, grid, minSamples), W)
<1>1. PICK selected : selected = TestedWindows(fixture, windows, grid, minSamples)
  OBVIOUS
<1>2. selected = [n \in 1 .. W |-> TestedOn(fixture, windows[n],
                                            SelectedOn(fixture, windows[n], grid, minSamples), minSamples)]
  BY <1>1 DEF TestedWindows
<1>3. selected = [n \in 1 .. W |-> selected[n]]
  BY <1>2
<1>4. ASSUME NEW n \in 1 .. W
      PROVE  IsMetrics(selected[n].train) /\ IsMetrics(selected[n].test)
  <2>1. PICK w : w = windows[n]
    OBVIOUS
  <2>2. PICK best : best = SelectedOn(fixture, w, grid, minSamples)
    OBVIOUS
  <2>3. PICK i \in 1 .. N : best.parameters = grid[i] /\ IsMetrics(best.metrics)
    BY <2>2, SelectedIsOfGrid
  <2>4. PICK replay : replay = RunReplayForParameter(fixture, TestWindow(w), grid[i], minSamples)
    OBVIOUS
  <2>5. IsJudged(replay, grid[i], minSamples)
    BY <2>4, ReplayIsJudged DEF IsGrid
  <2>6. IsMetrics(replay.metrics)
    BY <2>5 DEF IsJudged
  <2>7. selected[n] = TestedOn(fixture, w, best, minSamples)
    BY <1>2, <2>1, <2>2
  <2>8. selected[n].train = best.metrics /\ selected[n].test = replay.metrics
    BY <2>3, <2>4, <2>7 DEF TestedOn
  <2>9. QED
    BY <2>3, <2>6, <2>8
<1>5. AreTested(selected, W)
  BY <1>3, <1>4 DEF AreTested
<1>6. QED
  BY <1>1, <1>5

LEMMA WalkForwardIsValidated ==
  ASSUME NEW fixture, IsMockFixture(fixture), NEW W \in Nat, NEW windows, DOMAIN windows = 1 .. W,
         NEW N \in Nat, N > 0, NEW grid, IsGrid(grid, N), NEW minSamples \in Nat,
         NEW w \in WalkForward(fixture, windows, grid, minSamples)
  PROVE  IsValidated(w)
<1>1. PICK selected : selected = TestedWindows(fixture, windows, grid, minSamples)
  OBVIOUS
<1>2. WalkForward(fixture, windows, grid, minSamples) = WalkForwardResults(selected, minSamples)
  BY <1>1, Zenon DEF WalkForward, TestedWindows, TestedOn
<1>3. AreTested(selected, W)
  BY <1>1, WindowsAreTested
<1>4. QED
  BY <1>2, <1>3, ResultsAreValidated

\* One of the candidates.
IsRecommended(c, walkForwards, minSamples) ==
  /\ c.metrics.actionableCount >= minSamples
  /\ c.metrics.winRate # Null /\ c.metrics.cumulativePnl >= 0
  /\ c.risk # "high"
  /\ \A w \in walkForwards : w.parameters = c.parameters =>
       /\ w.test.cumulativePnl = Null \/ w.test.cumulativePnl >= 0
       /\ 2 * w.passed >= w.windows

LEMMA UnreasonedIsRecommended ==
  ASSUME NEW N \in Nat, NEW grid, NEW minSamples \in Nat, NEW results, AreJudged(results, grid, N, minSamples),
         NEW walkForwards, \A w \in walkForwards : IsValidated(w),
         NEW ranked, NEW at, IsRanked(ranked, results, walkForwards, N, at),
         NEW k \in 1 .. N, ranked[k].reasons = {}
  PROVE  IsRecommended(ranked[k], walkForwards, minSamples)
<1>1. PICK i \in 1 .. N : i = at[k]
  BY DEF IsRanked
<1>2. PICK r : r = results[i]
  OBVIOUS
<1>3. PICK c : c = ranked[k]
  OBVIOUS
<1>4. /\ c.parameters = r.parameters /\ c.metrics = r.metrics /\ c.risk = r.risk
      /\ c.reasons = Judgement(r, walkForwards)
  BY <1>1, <1>2, <1>3 DEF IsRanked
<1>5. Judgement(r, walkForwards) = {}
  BY <1>3, <1>4
<1>6. /\ r.reasons = {}
      /\ \A w \in walkForwards : w.parameters = r.parameters => ValidationReasons(w) = {}
  BY <1>5, JudgementIs
<1>7. IsJudged(r, grid[i], minSamples)
  BY <1>2 DEF AreJudged
<1>8. /\ c.metrics.actionableCount >= minSamples
      /\ c.metrics.winRate # Null /\ c.metrics.cumulativePnl >= 0
      /\ c.risk # "high"
  BY <1>4, <1>6, <1>7 DEF IsJudged
<1>9. ASSUME NEW w \in walkForwards, w.parameters = c.parameters
      PROVE  /\ w.test.cumulativePnl = Null \/ w.test.cumulativePnl >= 0
             /\ 2 * w.passed >= w.windows
  <2>1. ValidationReasons(w) = {}
    BY <1>4, <1>6, <1>9
  <2>2. IsValidated(w)
    OBVIOUS
  <2>3. QED
    BY <2>1, <2>2, ValidationAgrees
<1>10. IsRecommended(c, walkForwards, minSamples)
  BY <1>8, <1>9 DEF IsRecommended
<1>11. QED
  BY <1>3, <1>10

\* What scores better and is not turned away comes before.
IsBestFirst(ranked, N, top, t) ==
  \A n \in 1 .. t, m \in 1 .. N : ranked[m].reasons = {} /\ ranked[m].score > top[n].score =>
    \E k \in 1 .. n - 1 : top[k] = ranked[m]

LEMMA BetterComesFirst ==
  ASSUME NEW N \in Nat, NEW grid, NEW minSamples, NEW results, AreJudged(results, grid, N, minSamples),
         NEW walkForwards,
         NEW ranked, NEW at, IsRanked(ranked, results, walkForwards, N, at),
         NEW top, NEW c \in Nat, NEW t \in Nat, NEW bt, IsHead(top, ranked, c, t, bt)
  PROVE  IsBestFirst(ranked, N, top, t)
<1>0. SUFFICES ASSUME NEW n \in 1 .. t, NEW m \in 1 .. N, ranked[m].reasons = {},
                      ranked[m].score > top[n].score
               PROVE  \E k \in 1 .. n - 1 : top[k] = ranked[m]
  BY DEF IsBestFirst
<1>1. DOMAIN ranked = 1 .. N
  BY SequenceOf DEF IsRanked
<1>2. PICK P : P = NoReasons(ranked)
  OBVIOUS
<1>3. P \subseteq 1 .. N /\ m \in P
  BY <1>0, <1>1, <1>2 DEF NoReasons
<1>4. /\ bt \in [1 .. c -> P] /\ (\A i \in P : \E k \in 1 .. c : bt[k] = i)
      /\ (\A k, l \in 1 .. c : k < l => bt[k] < bt[l])
      /\ t <= c /\ top = [k \in 1 .. t |-> ranked[bt[k]]]
  BY <1>2 DEF IsHead, Enumerates
<1>5. PICK k \in 1 .. c : bt[k] = m
  BY <1>3, <1>4
<1>6. PICK place \in 1 .. N : place = bt[n] /\ top[n] = ranked[place]
  <2>1. n \in 1 .. c
    BY <1>4
  <2>2. bt[n] \in 1 .. N /\ top[n] = ranked[bt[n]]
    BY <1>3, <1>4, <2>1
  <2>3. QED
    BY <2>2
<1>7. \A j \in 1 .. N : ranked[j].score = results[at[j]].score /\ ranked[j].score \in Int
  <2>1. \A j \in 1 .. N : at[j] \in 1 .. N /\ ranked[j].score = results[at[j]].score
    BY DEF IsRanked
  <2>2. \A i \in 1 .. N : results[i].score \in Int
    BY DEF AreJudged, IsJudged
  <2>3. QED
    BY <2>1, <2>2
<1>8. m < place
  <2>1. SUFFICES ASSUME ~(m < place) PROVE FALSE
    OBVIOUS
  <2>2. place = m \/ place < m
    BY <2>1
  <2>3. PICK a \in Int : a = ranked[m].score
    BY <1>7
  <2>4. PICK b \in Int : b = ranked[place].score
    BY <1>7
  <2>5. a > b
    BY <1>0, <1>6, <2>3, <2>4
  <2>6. CASE place = m
    BY <2>3, <2>4, <2>5, <2>6
  <2>7. CASE place < m
    <3>1. results[at[place]].score >= results[at[m]].score
      BY <2>7 DEF IsRanked
    <3>2. b >= a
      BY <1>7, <2>3, <2>4, <3>1
    <3>3. QED
      BY <2>5, <3>2
  <2>8. QED
    BY <2>2, <2>6, <2>7
<1>9. k < n
  <2>1. SUFFICES ASSUME ~(k < n) PROVE FALSE
    OBVIOUS
  <2>2. n \in 1 .. c
    BY <1>4
  <2>3. k = n \/ n < k
    BY <2>1
  <2>4. n < k => bt[n] < bt[k]
    BY <1>4, <2>2
  <2>5. QED
    BY <1>5, <1>6, <1>8, <2>3, <2>4
<1>10. k \in 1 .. n - 1 /\ k \in 1 .. t
  BY <1>9
<1>11. top[k] = ranked[m]
  BY <1>4, <1>5, <1>10
<1>12. QED
  BY <1>10, <1>11

\* What the ranking is asked for.
IsSoundRanking(ranked, grid, walkForwards, minSamples) ==
  LET top == TopCandidates(ranked) IN
    /\ {ranked[n].parameters : n \in DOMAIN ranked} = Range(grid)
    /\ \A n \in DOMAIN top :
         /\ IsRecommended(top[n], walkForwards, minSamples)
         /\ \A m \in DOMAIN ranked : ranked[m].reasons = {} /\ ranked[m].score > top[n].score =>
              \E k \in 1 .. n - 1 : top[k] = ranked[m]

LEMMA SoundRankingIs ==
  ASSUME NEW fixture, NEW window, NEW grid, NEW walkForwards, NEW minSamples, NEW ranked,
         ranked = RankedSweep(fixture, window, grid, walkForwards, minSamples),
         IsSoundRanking(ranked, grid, walkForwards, minSamples)
  PROVE  CandidatesAreSound(fixture, window, grid, walkForwards, minSamples)
<1>1. ASSUME NEW r \in {RankedSweep(fixture, window, grid, walkForwards, minSamples)}
      PROVE  IsSoundRanking(r, grid, walkForwards, minSamples)
  BY <1>1
<1>2. QED
  BY <1>1 DEF CandidatesAreSound, IsSoundRanking, IsRecommended

\* WHAT IS RECOMMENDED.  Whatever the results of the file, the windows and the
\* grid, the lab's candidates have nothing against them, in their sample or in
\* their validation, and no set that is not turned away scores better than one
\* of them without coming first (rankStrategyParameterResults,
\* rejectionReasonsForResult, buildWalkForwardResults).
THEOREM CandidatesHold ==
  ASSUME NEW fixture, IsMockFixture(fixture), NEW window, NEW T, NEW windows \in Seq(T),
         NEW G, NEW grid \in Seq(G), grid # <<>>,
         \A k \in DOMAIN grid : IsParameters(ReplayParameters(grid[k])), NEW minSamples \in Nat
  PROVE  CandidatesAreSound(fixture, window, grid, WalkForward(fixture, windows, grid, minSamples), minSamples)
<1>1. PICK N \in Nat : N > 0 /\ DOMAIN grid = 1 .. N
  <2>1. Len(grid) > 0 /\ Len(grid) \in Nat /\ DOMAIN grid = 1 .. Len(grid)
    OBVIOUS
  <2>2. QED
    BY <2>1
<1>2. IsGrid(grid, N)
  BY <1>1 DEF IsGrid
<1>3. PICK W \in Nat : DOMAIN windows = 1 .. W
  OBVIOUS
<1>4. PICK walkForwards : walkForwards = WalkForward(fixture, windows, grid, minSamples)
  OBVIOUS
<1>5. \A w \in walkForwards : IsValidated(w)
  BY <1>1, <1>2, <1>3, <1>4, WalkForwardIsValidated
<1>6. PICK results : results = ResultsOn(fixture, window, grid, minSamples)
  OBVIOUS
<1>7. AreJudged(results, grid, N, minSamples)
  BY <1>2, <1>6, ResultsOnAreJudged
<1>8. PICK ranked : ranked = Ranked(results, walkForwards)
  OBVIOUS
<1>9. RankedSweep(fixture, window, grid, walkForwards, minSamples) = ranked
  BY <1>6, <1>8, Zenon DEF RankedSweep, ResultsOn
<1>10. PICK at : IsRanked(ranked, results, walkForwards, N, at)
  BY <1>7, <1>8, RankedIs
<1>11. DOMAIN ranked = 1 .. N /\ ranked = [k \in 1 .. N |-> ranked[k]]
  BY <1>10, SequenceOf DEF IsRanked
<1>12. PICK top : top = TopCandidates(ranked)
  OBVIOUS
<1>13. PICK c \in Nat, t \in Nat : \E bt : IsHead(top, ranked, c, t, bt)
  BY <1>11, <1>12, HeadIs
<1>14. PICK bt : IsHead(top, ranked, c, t, bt)
  BY <1>13
<1>15. /\ DOMAIN top = 1 .. t
       /\ \A n \in 1 .. t : \E k \in 1 .. N : top[n] = ranked[k] /\ ranked[k].reasons = {}
  <2>1. /\ bt \in [1 .. c -> NoReasons(ranked)] /\ t <= c /\ top = [k \in 1 .. t |-> ranked[bt[k]]]
    BY <1>14 DEF IsHead, Enumerates
  <2>2. ASSUME NEW n \in 1 .. t
        PROVE  bt[n] \in NoReasons(ranked) /\ top[n] = ranked[bt[n]]
    <3>1. n \in 1 .. c
      BY <2>1
    <3>2. QED
      BY <2>1, <3>1
  <2>3. NoReasons(ranked) = {n \in 1 .. N : ranked[n].reasons = {}}
    BY <1>11 DEF NoReasons
  <2>4. QED
    BY <2>1, <2>2, <2>3
<1>16. {ranked[n].parameters : n \in DOMAIN ranked} = Range(grid)
  <2>1. ASSUME NEW k \in 1 .. N
        PROVE  at[k] \in 1 .. N /\ ranked[k].parameters = grid[at[k]]
    <3>1. PICK i \in 1 .. N : i = at[k]
      BY <1>10 DEF IsRanked
    <3>2. ranked[k].parameters = results[i].parameters
      BY <1>10, <3>1 DEF IsRanked
    <3>3. IsJudged(results[i], grid[i], minSamples)
      BY <1>7 DEF AreJudged
    <3>4. results[i].parameters = grid[i]
      BY <3>3 DEF IsJudged
    <3>5. QED
      BY <3>1, <3>2, <3>4
  <2>2. \A i \in 1 .. N : \E k \in 1 .. N : at[k] = i
    BY <1>10 DEF IsRanked
  <2>3. Range(grid) = {grid[i] : i \in 1 .. N}
    BY <1>1 DEF Range
  <2>4. \A k \in 1 .. N : ranked[k].parameters \in Range(grid)
    BY <2>1, <2>3
  <2>5. \A i \in 1 .. N : \E k \in 1 .. N : grid[i] = ranked[k].parameters
    <3>1. SUFFICES ASSUME NEW i \in 1 .. N, NEW k \in 1 .. N, at[k] = i
                   PROVE  grid[i] = ranked[k].parameters
      BY <2>2
    <3>2. ranked[k].parameters = grid[at[k]]
      BY <2>1
    <3>3. QED
      BY <3>1, <3>2
  <2>6. PICK all : all = {ranked[n].parameters : n \in 1 .. N}
    OBVIOUS
  <2>7. all \subseteq Range(grid)
    BY <2>4, <2>6
  <2>8. Range(grid) \subseteq all
    BY <2>3, <2>5, <2>6
  <2>9. QED
    BY <1>11, <2>6, <2>7, <2>8
<1>17. \A n \in 1 .. t : IsRecommended(top[n], walkForwards, minSamples)
  <2>1. SUFFICES ASSUME NEW n \in 1 .. t, NEW k \in 1 .. N, top[n] = ranked[k], ranked[k].reasons = {}
                 PROVE  IsRecommended(top[n], walkForwards, minSamples)
    BY <1>15
  <2>2. IsRecommended(ranked[k], walkForwards, minSamples)
    BY <1>5, <1>7, <1>10, <2>1, UnreasonedIsRecommended
  <2>3. QED
    BY <2>1, <2>2
<1>18. ASSUME NEW n \in 1 .. t, NEW m \in 1 .. N, ranked[m].reasons = {}, ranked[m].score > top[n].score
       PROVE  \E k \in 1 .. n - 1 : top[k] = ranked[m]
  <2>1. IsBestFirst(ranked, N, top, t)
    BY <1>7, <1>10, <1>14, BetterComesFirst
  <2>2. QED
    BY <1>18, <2>1 DEF IsBestFirst
<1>19. CandidatesAreSound(fixture, window, grid, walkForwards, minSamples)
  <2>1. \A n \in DOMAIN top :
          /\ IsRecommended(top[n], walkForwards, minSamples)
          /\ \A m \in DOMAIN ranked : ranked[m].reasons = {} /\ ranked[m].score > top[n].score =>
               \E k \in 1 .. n - 1 : top[k] = ranked[m]
    BY <1>11, <1>15, <1>17, <1>18
  <2>2. IsSoundRanking(ranked, grid, walkForwards, minSamples)
    BY <1>12, <1>16, <2>1, Zenon DEF IsSoundRanking
  <2>3. QED
    BY <1>9, <2>2, SoundRankingIs
<1>20. QED
  BY SMTT(40), <1>4, <1>19
=============================================================================
