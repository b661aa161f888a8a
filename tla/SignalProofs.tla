----------------------------- MODULE SignalProofs -----------------------------
(***************************************************************************)
(* Theorems about the directional signal, for any features: its scores are *)
(* odd and its risks and vetoes even under the mirror of a market, a total *)
(* that passes the threshold has a trend behind it, and from one profile   *)
(* to the next bolder one the total and the confidence move by less than   *)
(* the thresholds do.  About consoles, charts and backtests, for any       *)
(* candles: what fails closed stays closed, and the past stays as it was.  *)
(* And about short windows, current and past, for any candles and tickers. *)
(***************************************************************************)
EXTENDS SignalConsole, CollectionTheorems, SequenceTheorems, FiniteSetTheorems, TLAPS

-----------------------------------------------------------------------------
(* The numbers that scores are made of.                                      *)
LEMMA SizeIs ==
  \A n \in Int : /\ Size(n) = (IF n >= 0 THEN n ELSE -n)
                 /\ Size(n) \in Nat /\ Size(-n) = Size(n)
<1>1. \A n \in Int : -n \in Int /\ Size(n) = IF n >= -n THEN n ELSE -n
  BY MaxOfTwo DEF Size
<1>2. QED
  BY <1>1

LEMMA SignIs == \A n \in Int : Sign(n) \in {-1, 0, 1} /\ Sign(-n) = -Sign(n)
BY DEF Sign

LEMMA ClampIs ==
  ASSUME NEW n \in Int, NEW low \in Int, NEW high \in Int, low <= high
  PROVE  Clamp(n, low, high) = IF n < low THEN low ELSE IF n > high THEN high ELSE n
<1>1. Min({n, high}) \in Int
  BY MinOfTwo
<1>2. QED
  BY <1>1, MinOfTwo, MaxOfTwo DEF Clamp

\* Rounding is odd.
LEMMA OverIs ==
  ASSUME NEW n \in Int, NEW d \in Nat \ {0}
  PROVE  /\ Over(n, d) = (IF n >= 0 THEN n \div d ELSE -((-n) \div d))
         /\ Over(n, d) \in Int
         /\ Over(-n, d) = -Over(n, d)
<1>1. n \in Nat => n \div d \in Nat
  OBVIOUS
<1>2. -n \in Nat => (-n) \div d \in Nat
  OBVIOUS
<1>3. Size(n) = (IF n >= 0 THEN n ELSE -n) /\ Size(-n) = Size(n)
  BY SizeIs
<1>4. CASE n > 0
  <2>1. Sign(n) = 1 /\ Sign(-n) = -1 /\ Size(n) = n
    BY <1>3, <1>4 DEF Sign
  <2>2. QED
    BY <1>1, <1>3, <1>4, <2>1 DEF Over
<1>5. CASE n < 0
  <2>1. Sign(n) = -1 /\ Sign(-n) = 1 /\ Size(n) = -n
    BY <1>3, <1>5 DEF Sign
  <2>2. QED
    BY <1>2, <1>3, <1>5, <2>1 DEF Over
<1>6. CASE n = 0
  <2>1. Sign(n) = 0 /\ Sign(-n) = 0 /\ Size(n) = 0 /\ Size(-n) = 0
    BY <1>3, <1>6 DEF Sign
  <2>2. PICK q \in Int : q = 0 \div d
    OBVIOUS
  <2>3. d * q <= 0 /\ 0 < d * q + d
    BY <2>2
  <2>4. q = 0
    BY <2>3
  <2>5. Over(n, d) = 0 /\ Over(-n, d) = 0
    BY <2>1, <2>2, <2>4 DEF Over
  <2>6. QED
    BY <1>6, <2>2, <2>4, <2>5
<1>7. QED
  BY <1>4, <1>5, <1>6

LEMMA Hundredths ==
  \A k \in Int : Over(k, 100) \in Int /\ Over(k, 100) = IF k >= 0
    THEN k \div 100 ELSE -((-k) \div 100)
BY OverIs

-----------------------------------------------------------------------------
\* What a snapshot of the indicators is, and a context: see Snapshot and
\* NoContext.
FeatureSets ==
  [gap : Int, slope : Int, above : Int, r1 : Int, r3 : Int, r5 : Int, hist : Int, histSlope : Int,
   histAtr : Int, atr : Int, regime : {"low", "normal", "high"}, squeeze : BOOLEAN,
   expansion : BOOLEAN, band : Int, width : Int, rsi : Int, z : Int, abnormal : BOOLEAN]

SignalContexts ==
  [news : Int, posts : Int, macro : {"risk_on", "risk_off", "unknown"}, eventRisk : BOOLEAN]

\* A snapshot of the mirrored market.
Mirrored(f, g) ==
  /\ g.gap = -f.gap /\ g.slope = -f.slope /\ g.above = -f.above
  /\ g.r1 = -f.r1 /\ g.r3 = -f.r3 /\ g.r5 = -f.r5
  /\ g.hist = -f.hist /\ g.histSlope = -f.histSlope /\ g.histAtr = -f.histAtr
  /\ g.band = 100 - f.band /\ g.rsi = 100 - f.rsi
  /\ g.atr = f.atr /\ g.regime = f.regime /\ g.squeeze = f.squeeze
  /\ g.expansion = f.expansion /\ g.width = f.width /\ g.z = f.z /\ g.abnormal = f.abnormal

LEMMA MirrorIs == ASSUME NEW f \in FeatureSets PROVE Mirrored(f, Mirror(f))
<1> DEFINE g == Mirror(f)
<1>1. g.gap = -f.gap /\ g.slope = -f.slope /\ g.above = -f.above
  BY DEF FeatureSets, Mirror
<1>2. g.r1 = -f.r1 /\ g.r3 = -f.r3 /\ g.r5 = -f.r5
  BY DEF FeatureSets, Mirror
<1>3. g.hist = -f.hist /\ g.histSlope = -f.histSlope /\ g.histAtr = -f.histAtr
  BY DEF FeatureSets, Mirror
<1>4. g.band = 100 - f.band /\ g.rsi = 100 - f.rsi
  BY DEF FeatureSets, Mirror
<1>5. g.atr = f.atr /\ g.regime = f.regime /\ g.squeeze = f.squeeze /\ g.expansion = f.expansion
  BY DEF FeatureSets, Mirror
<1>6. g.width = f.width /\ g.z = f.z /\ g.abnormal = f.abnormal
  BY DEF FeatureSets, Mirror
<1>7. QED
  BY <1>1, <1>2, <1>3, <1>4, <1>5, <1>6 DEF Mirrored

-----------------------------------------------------------------------------
(* The modules.                                                              *)
LEMMA TrendIsOdd ==
  ASSUME NEW f \in FeatureSets, NEW g, Mirrored(f, g)
  PROVE  /\ TrendScore(f) \in Int /\ TrendScore(g) = -TrendScore(f)
         /\ \/ TrendScore(f) = 0
            \/ Size(TrendScore(f)) >= 3500 /\ Size(TrendScore(f)) <= 10000
<1>1. f.gap \in Int /\ f.slope \in Int /\ f.above \in Int
  BY DEF FeatureSets
<1>2. g.gap = -f.gap /\ g.slope = -f.slope /\ g.above = -f.above
  BY DEF Mirrored
<1> DEFINE Sum(h) == ((Size(h.gap) * 10000) \div 2800) + ((Size(h.slope) * 10000) \div 800)
                       + ((Size(h.above) * 10000) \div 3000)
           Strength(h) == Clamp(Sum(h) \div 3, 3500, 10000)
<1>3. Sum(g) = Sum(f)
  BY <1>1, <1>2, SizeIs
<1>4. Sum(f) \div 3 \in Int
  <2>1. Size(f.gap) \in Nat /\ Size(f.slope) \in Nat /\ Size(f.above) \in Nat
    BY <1>1, SizeIs
  <2>2. QED
    BY <2>1
<1>5. PICK score \in Nat : score = Strength(f) /\ score >= 3500 /\ score <= 10000
  <2> HIDE DEF Sum
  <2>1. Clamp(Sum(f) \div 3, 3500, 10000) = IF Sum(f) \div 3 < 3500 THEN 3500 ELSE
                                           IF Sum(f) \div 3 > 10000 THEN 10000 ELSE Sum(f) \div 3
    BY <1>4, ClampIs
  <2>2. QED
    BY <1>4, <2>1
<1>6. Strength(g) = score
  <2> HIDE DEF Sum
  <2>1. QED
    BY <1>3, <1>5
<1> HIDE DEF Sum, Strength
<1>7. TrendScore(f) = CASE f.gap > 350 /\ f.slope > 40 /\ f.above > 200    -> score
                        [] f.gap < -350 /\ f.slope < -40 /\ f.above < -200 -> -score
                        [] OTHER                                           -> 0
  BY <1>5 DEF TrendScore, Strength, Sum
<1>8. TrendScore(g) = CASE g.gap > 350 /\ g.slope > 40 /\ g.above > 200    -> score
                        [] g.gap < -350 /\ g.slope < -40 /\ g.above < -200 -> -score
                        [] OTHER                                           -> 0
  BY <1>6 DEF TrendScore, Strength, Sum
<1>9. \/ TrendScore(f) = score /\ TrendScore(g) = -score
      \/ TrendScore(f) = -score /\ TrendScore(g) = score
      \/ TrendScore(f) = 0 /\ TrendScore(g) = 0
  <2>1. CASE f.gap > 350 /\ f.slope > 40 /\ f.above > 200
    BY <1>1, <1>2, <1>7, <1>8, <2>1
  <2>2. CASE f.gap < -350 /\ f.slope < -40 /\ f.above < -200
    BY <1>1, <1>2, <1>7, <1>8, <2>2
  <2>3. CASE /\ ~(f.gap > 350 /\ f.slope > 40 /\ f.above > 200)
             /\ ~(f.gap < -350 /\ f.slope < -40 /\ f.above < -200)
    BY <1>1, <1>2, <1>7, <1>8, <2>3
  <2>4. QED
    BY <2>1, <2>2, <2>3
<1>10. Size(score) = score /\ Size(-score) = score
  BY <1>5, SizeIs
<1>11. QED
  BY <1>5, <1>9, <1>10

LEMMA MomentumIsOdd ==
  ASSUME NEW f \in FeatureSets, NEW g, Mirrored(f, g)
  PROVE  /\ MomentumScore(f) \in Int /\ MomentumScore(g) = -MomentumScore(f)
         /\ -10000 <= MomentumScore(f) /\ MomentumScore(f) <= 10000
<1>1. f.r1 \in Int /\ f.r3 \in Int /\ f.r5 \in Int /\ f.hist \in Int /\ f.histSlope \in Int
  BY DEF FeatureSets
<1>2. g.r1 = -f.r1 /\ g.r3 = -f.r3 /\ g.r5 = -f.r5 /\ g.hist = -f.hist /\ g.histSlope = -f.histSlope
  BY DEF Mirrored
<1> DEFINE Returns(h) == Over(h.r1 * 10000, 1200) + Over(h.r3 * 10000, 3000) + Over(h.r5 * 10000, 5000)
           Pull(h) == Clamp(Over(Returns(h), 3), -10000, 10000)
           Macd(h) == IF Sign(h.hist) * Sign(h.histSlope) = 1 THEN Sign(h.hist) * 10000
                      ELSE Sign(h.hist) * 2500
<1>3. Returns(f) \in Int /\ Returns(g) = -Returns(f)
  <2>1. /\ Over(f.r1 * 10000, 1200) \in Int /\ Over(f.r3 * 10000, 3000) \in Int
        /\ Over(f.r5 * 10000, 5000) \in Int
        /\ Over(-(f.r1 * 10000), 1200) = -Over(f.r1 * 10000, 1200)
        /\ Over(-(f.r3 * 10000), 3000) = -Over(f.r3 * 10000, 3000)
        /\ Over(-(f.r5 * 10000), 5000) = -Over(f.r5 * 10000, 5000)
    <3>1. /\ f.r1 * 10000 \in Int /\ f.r3 * 10000 \in Int /\ f.r5 * 10000 \in Int
      BY <1>1
    <3>2. \A n \in Int : /\ Over(n, 1200) \in Int /\ Over(-n, 1200) = -Over(n, 1200)
                        /\ Over(n, 3000) \in Int /\ Over(-n, 3000) = -Over(n, 3000)
                        /\ Over(n, 5000) \in Int /\ Over(-n, 5000) = -Over(n, 5000)
      BY OverIs
    <3>3. QED
      BY <3>1, <3>2
  <2>2. /\ g.r1 * 10000 = -(f.r1 * 10000) /\ g.r3 * 10000 = -(f.r3 * 10000)
        /\ g.r5 * 10000 = -(f.r5 * 10000)
    BY <1>1, <1>2
  <2>3. QED
    BY <2>1, <2>2
<1>4. Pull(f) \in Int /\ Pull(g) = -Pull(f)
  <2> HIDE DEF Returns
  <2>1. Over(Returns(f), 3) \in Int /\ Over(Returns(g), 3) = -Over(Returns(f), 3)
    BY <1>3, OverIs
  <2>2. QED
    BY <2>1, ClampIs
<1>5. Macd(f) \in Int /\ Macd(g) = -Macd(f)
  BY <1>1, <1>2, SignIs
<1>6. /\ MomentumScore(f) = Clamp(Over(Pull(f) * 62 + Macd(f) * 38, 100), -10000, 10000)
      /\ MomentumScore(g) = Clamp(Over(Pull(g) * 62 + Macd(g) * 38, 100), -10000, 10000)
  BY DEF MomentumScore
<1> HIDE DEF Returns, Pull, Macd
<1>7. /\ Over(Pull(f) * 62 + Macd(f) * 38, 100) \in Int
      /\ Over(Pull(g) * 62 + Macd(g) * 38, 100) = -Over(Pull(f) * 62 + Macd(f) * 38, 100)
  <2>1. /\ Pull(f) * 62 + Macd(f) * 38 \in Int
        /\ Pull(g) * 62 + Macd(g) * 38 = -(Pull(f) * 62 + Macd(f) * 38)
    BY <1>4, <1>5
  <2>2. \A n \in Int : Over(n, 100) \in Int /\ Over(-n, 100) = -Over(n, 100)
    BY OverIs
  <2>3. QED
    BY <2>1, <2>2
<1>8. QED
  BY <1>6, <1>7, ClampIs

LEMMA VolatilityIsOdd ==
  ASSUME NEW f \in FeatureSets, NEW g, Mirrored(f, g), NEW t \in Int, NEW m \in Int
  PROVE  /\ VolatilityScore(f, t, m) \in Int
         /\ VolatilityScore(g, -t, -m) = -VolatilityScore(f, t, m)
         /\ -6500 <= VolatilityScore(f, t, m) /\ VolatilityScore(f, t, m) <= 6500
<1>1. /\ f.regime \in {"low", "normal", "high"} /\ f.squeeze \in BOOLEAN /\ f.expansion \in BOOLEAN
      /\ f.band \in Int
  BY DEF FeatureSets
<1>2. /\ g.regime = f.regime /\ g.squeeze = f.squeeze /\ g.expansion = f.expansion
      /\ g.band = 100 - f.band
  BY DEF Mirrored
<1> DEFINE Dominant(a, b) == IF Size(b) >= Size(a) THEN Sign(b) ELSE Sign(a)
<1>3. Dominant(t, m) \in {-1, 0, 1} /\ Dominant(-t, -m) = -Dominant(t, m)
  BY SizeIs, SignIs
<1> DEFINE Of(h, dominant) ==
      CASE h.regime = "low" \/ h.squeeze -> 0
        [] OTHER -> IF h.expansion /\ h.band > 68 THEN 6500
                    ELSE IF h.expansion /\ h.band < 32 THEN -6500
                    ELSE dominant * (IF h.regime = "normal" THEN 3500 ELSE 1800)
<1>4. VolatilityScore(f, t, m) = Of(f, Dominant(t, m))
  BY DEF VolatilityScore
<1>5. VolatilityScore(g, -t, -m) = Of(g, Dominant(-t, -m))
  BY DEF VolatilityScore
<1> HIDE DEF Dominant
<1>6. PICK d \in {-1, 0, 1} : Dominant(t, m) = d /\ Dominant(-t, -m) = -d
  BY <1>3
<1>7. Of(f, d) \in Int /\ Of(g, -d) = -Of(f, d) /\ -6500 <= Of(f, d) /\ Of(f, d) <= 6500
  BY <1>1, <1>2
<1> HIDE DEF Of
<1>8. QED
  BY <1>4, <1>5, <1>6, <1>7

LEMMA VolumeIsOdd ==
  ASSUME NEW f \in FeatureSets, NEW g, Mirrored(f, g)
  PROVE  /\ VolumeScore(f) \in Int /\ -9000 <= VolumeScore(f) /\ VolumeScore(f) <= 9000
         /\ ~(f.abnormal /\ f.z < 0) => VolumeScore(g) = -VolumeScore(f)
<1>1. f.r5 \in Int /\ f.z \in Int /\ f.abnormal \in BOOLEAN
  BY DEF FeatureSets
<1>2. g.r5 = -f.r5 /\ g.z = f.z /\ g.abnormal = f.abnormal
  BY DEF Mirrored
<1> DEFINE Z(h) == IF h.r5 < 0 THEN Size(h.z) ELSE h.z
           Abnormal(h) == Clamp(5500 + 120 * Min({Z(h), 30}), 5500, 9000)
           Weight(h) == CASE h.abnormal -> Abnormal(h)
                          [] ~h.abnormal /\ h.z > 4 -> 2400
                          [] OTHER -> 0
<1>3. Z(f) \in Int /\ Z(g) \in Int /\ (f.z >= 0 => Z(g) = Z(f))
  BY <1>1, <1>2, SizeIs
<1>4. /\ Abnormal(f) \in Nat /\ Abnormal(f) <= 9000
      /\ f.z >= 0 => Abnormal(g) = Abnormal(f)
  <2> HIDE DEF Z
  <2>1. Min({Z(f), 30}) \in Int
    BY <1>3, MinOfTwo
  <2>2. 5500 + 120 * Min({Z(f), 30}) \in Int
    BY <2>1
  <2>3. Abnormal(f) \in Nat /\ Abnormal(f) <= 9000
    BY <2>2, ClampIs
  <2>4. CASE f.z >= 0
    <3>1. Z(g) = Z(f)
      BY <1>3, <2>4
    <3>2. Abnormal(g) = Abnormal(f)
      BY <3>1
    <3>3. QED
      BY <2>3, <3>2
  <2>5. QED
    BY <2>3, <2>4
<1>5. VolumeScore(f) = Sign(f.r5) * Weight(f) /\ VolumeScore(g) = Sign(g.r5) * Weight(g)
  BY DEF VolumeScore
<1> HIDE DEF Abnormal
<1>6. Weight(f) \in Nat /\ Weight(f) <= 9000 /\ (~(f.abnormal /\ f.z < 0) => Weight(g) = Weight(f))
  BY <1>1, <1>2, <1>4
<1>7. Sign(f.r5) \in {-1, 0, 1} /\ Sign(g.r5) = -Sign(f.r5)
  BY <1>1, <1>2, SignIs
<1> HIDE DEF Weight
<1>8. QED
  BY <1>5, <1>6, <1>7

LEMMA ReversalIsEven ==
  ASSUME NEW f \in FeatureSets, NEW g, Mirrored(f, g), NEW t \in Int, NEW m \in Int
  PROVE  /\ ReversalRisk(f, t, m) \in Nat /\ ReversalRisk(f, t, m) <= 8000
         /\ ReversalRisk(g, -t, -m) = ReversalRisk(f, t, m)
<1>1. f.rsi \in Int /\ f.band \in Int
  BY DEF FeatureSets
<1>2. g.rsi = 100 - f.rsi /\ g.band = 100 - f.band
  BY DEF Mirrored
<1> DEFINE Over2(n, high, higher, a, b) == IF n > higher THEN b ELSE IF n > high THEN a ELSE 0
           Of(h, way) ==
             IF way = 0 THEN (IF h.rsi > 70 \/ h.rsi < 30 THEN 2500 ELSE 0)
             ELSE Over2(IF way < 0 THEN 100 - h.rsi ELSE h.rsi, 66, 72, 2400, 4500)
                    + Over2(IF way < 0 THEN 100 - h.band ELSE h.band, 82, 92, 1800, 3500)
<1>3. /\ ReversalRisk(f, t, m) = Of(f, Sign(t * 55 + m * 45))
      /\ ReversalRisk(g, -t, -m) = Of(g, Sign((-t) * 55 + (-m) * 45))
  BY DEF ReversalRisk
<1>4. PICK way \in {-1, 0, 1} : way = Sign(t * 55 + m * 45)
  BY SignIs
<1>5. Sign((-t) * 55 + (-m) * 45) = -way
  <2>1. t * 55 + m * 45 \in Int /\ (-t) * 55 + (-m) * 45 = -(t * 55 + m * 45)
    OBVIOUS
  <2>2. QED
    BY <1>4, <2>1, SignIs
<1>6. Of(f, way) \in Nat /\ Of(f, way) <= 8000 /\ Of(g, -way) = Of(f, way)
  BY <1>1, <1>2
<1> HIDE DEF Of
<1>7. QED
  BY <1>3, <1>4, <1>5, <1>6

LEMMA OpposedIs ==
  ASSUME NEW a \in Int, NEW b \in Int
  PROVE  /\ Opposed(a, b) = ((a > 0 /\ b < 0) \/ (a < 0 /\ b > 0))
         /\ Opposed(-a, -b) = Opposed(a, b)
BY DEF Opposed, Sign

LEMMA ChopIsEven ==
  ASSUME NEW f \in FeatureSets, NEW g, Mirrored(f, g), NEW t \in Int, NEW m \in Int
  PROVE  /\ ChopRisk(f, t, m) \in Nat /\ ChopRisk(f, t, m) <= 10000
         /\ ChopRisk(g, -t, -m) = ChopRisk(f, t, m)
<1>1. /\ f.r1 \in Int /\ f.r3 \in Int /\ f.r5 \in Int /\ f.slope \in Int /\ f.histSlope \in Int
      /\ f.width \in Int
  BY DEF FeatureSets
<1>2. /\ g.r1 = -f.r1 /\ g.r3 = -f.r3 /\ g.r5 = -f.r5 /\ g.slope = -f.slope
      /\ g.histSlope = -f.histSlope /\ g.width = f.width /\ g.regime = f.regime
  BY DEF Mirrored
<1>3. /\ Opposed(g.r1, g.r5) = Opposed(f.r1, f.r5) /\ Opposed(-t, -m) = Opposed(t, m)
      /\ Opposed(g.r3, g.r5) = Opposed(f.r3, f.r5)
  BY <1>1, <1>2, OpposedIs
<1>4. Size(g.slope) = Size(f.slope) /\ Size(g.histSlope) = Size(f.histSlope)
  BY <1>1, <1>2, SizeIs
<1> DEFINE If(condition, n) == IF condition THEN n ELSE 0
           Sum(h, a, b) ==
             If(Opposed(h.r1, h.r5), 2800) + If(Opposed(a, b), 3400)
               + If(Size(h.slope) < 40, 2000) + If(Size(h.histSlope) < 30, 1600)
               + If(h.width < 6000 \/ h.regime = "low", 2800) + If(Opposed(h.r3, h.r5), 1800)
<1>5. ChopRisk(f, t, m) = Clamp(Sum(f, t, m), 0, 10000) /\ ChopRisk(g, -t, -m) =
        Clamp(Sum(g, -t, -m), 0, 10000)
  BY DEF ChopRisk
<1>6. Sum(f, t, m) \in Int
  OBVIOUS
<1>7. Sum(g, -t, -m) = Sum(f, t, m)
  BY <1>2, <1>3, <1>4
<1> HIDE DEF Sum
<1>8. QED
  BY <1>5, <1>6, <1>7, ClampIs

LEMMA SeveralOfThree ==
  \A a, b, c : Cardinality({a, b, c}) > 1 <=> ~(a = b /\ b = c)
<1> SUFFICES ASSUME NEW a, NEW b, NEW c
             PROVE  Cardinality({a, b, c}) > 1 <=> ~(a = b /\ b = c)
  OBVIOUS
<1> DEFINE S == {a, b, c}
<1>1. IsFiniteSet(S)
  <2>1. S = {a} \cup ({b} \cup {c})
    OBVIOUS
  <2>2. IsFiniteSet({a}) /\ IsFiniteSet({b}) /\ IsFiniteSet({c})
    BY FS_Singleton
  <2>3. IsFiniteSet({b} \cup {c})
    BY <2>2, FS_Union
  <2>4. IsFiniteSet({a} \cup ({b} \cup {c}))
    BY <2>2, <2>3, FS_Union
  <2>5. QED
    BY <2>1, <2>4
<1>2. Cardinality(S) \in Nat /\ S # {}
  BY <1>1, FS_CardinalityType
<1>3. Cardinality(S) # 0
  BY <1>1, <1>2, FS_EmptySet
<1>4. Cardinality(S) = 1 <=> \E x : S = {x}
  BY <1>1, FS_Singleton
<1>5. (\E x : S = {x}) <=> (a = b /\ b = c)
  OBVIOUS
<1> HIDE DEF S
<1>6. Cardinality(S) > 1 <=> ~(a = b /\ b = c)
  BY <1>2, <1>3, <1>4, <1>5
<1>7. QED
  BY <1>6 DEF S

-----------------------------------------------------------------------------
(* The vetoes.                                                               *)
VetoNames ==
  {"stale", "insufficient", "event", "trend", "momentum", "squeeze", "extreme", "reversal", "chop",
   "disagree", "breakout", "unaligned", "against volume", "participation", "confirmation"}

\* What each veto stands for.
LEMMA VetoesAre ==
  ASSUME NEW f, NEW quality, NEW eventRisk, NEW t, NEW s
  PROVE  LET V == VetoReasons(f, quality, eventRisk, t, s) IN
         /\ V \subseteq VetoNames
         /\ "stale" \in V <=> (quality = "stale")
         /\ "insufficient" \in V <=> (quality = "insufficient")
         /\ "event" \in V <=> (eventRisk)
         /\ "trend" \in V <=>
              (Size(f.slope) < t.minSlope /\ Size(f.gap) * 10000 < t.minTrend * 1800
                /\ Size(s.momentum) < t.bypass)
         /\ "momentum" \in V <=>
              ((Size(f.histAtr) < t.minHist \/ Size(f.hist) < t.minHist)
                /\ Size(s.momentum) < t.bypass)
         /\ "squeeze" \in V <=> (f.regime = "low" \/ f.squeeze \/ f.width < t.minWidth)
         /\ "extreme" \in V <=> (f.width > t.maxWidth \/ f.atr > t.maxAtr)
         /\ "reversal" \in V <=> (s.reversal >= 4500 /\ s.trend # 0
              /\ Sign(s.momentum) # Sign(s.trend))
         /\ "chop" \in V <=> (s.chop >= t.maxChop)
         /\ "disagree" \in V <=> (Opposed(s.trend, s.momentum))
         /\ "breakout" \in V <=>
              (Size(s.volatility) > 1000 /\ Sign(s.volatility) # Sign(IF s.trend # 0
                THEN s.trend ELSE s.momentum))
<1> DEFINE W == VetoReasons(f, quality, eventRisk, t, s)
<1>1. W \subseteq VetoNames
  BY DEF VetoReasons, VetoNames
<1>2. "stale" \in W <=> (quality = "stale")
  BY SMT DEF VetoReasons
<1>3. "insufficient" \in W <=> (quality = "insufficient")
  BY SMT DEF VetoReasons
<1>4. "event" \in W <=> (eventRisk)
  BY SMT DEF VetoReasons
<1>5. "trend" \in W <=> (Size(f.slope) < t.minSlope /\ Size(f.gap) * 10000 < t.minTrend * 1800
        /\ Size(s.momentum) < t.bypass)
  BY SMT DEF VetoReasons
<1>6. "momentum" \in W <=> ((Size(f.histAtr) < t.minHist \/ Size(f.hist) < t.minHist)
        /\ Size(s.momentum) < t.bypass)
  BY SMT DEF VetoReasons
<1>7. "squeeze" \in W <=> (f.regime = "low" \/ f.squeeze \/ f.width < t.minWidth)
  BY SMT DEF VetoReasons
<1>8. "extreme" \in W <=> (f.width > t.maxWidth \/ f.atr > t.maxAtr)
  BY SMT DEF VetoReasons
<1>9. "reversal" \in W <=> (s.reversal >= 4500 /\ s.trend # 0 /\ Sign(s.momentum) # Sign(s.trend))
  BY SMT DEF VetoReasons
<1>10. "chop" \in W <=> (s.chop >= t.maxChop)
  BY SMT DEF VetoReasons
<1>11. "disagree" \in W <=> (Opposed(s.trend, s.momentum))
  BY SMT DEF VetoReasons
<1>12. "breakout" \in W <=> (Size(s.volatility) > 1000
         /\ Sign(s.volatility) # Sign(IF s.trend # 0 THEN s.trend ELSE s.momentum))
  BY SMT DEF VetoReasons
<1>13. QED
  BY <1>1, <1>2, <1>3, <1>4, <1>5, <1>6, <1>7, <1>8, <1>9, <1>10, <1>11, <1>12

LEMMA VolumeVetoes ==
  ASSUME NEW f, NEW quality, NEW eventRisk, NEW t, NEW s
  PROVE  LET V == VetoReasons(f, quality, eventRisk, t, s) IN
         /\ "unaligned" \in V <=>
              (s.trend # 0 /\ s.momentum # 0 /\ s.volume # 0 /\ ~(Sign(s.trend) =
                Sign(s.momentum) /\ Sign(s.momentum) = Sign(s.volume)))
         /\ "against volume" \in V <=> (Opposed(f.r5, s.volume))
         /\ "confirmation" \in V <=> (Size(s.volume) < t.minVolume /\ Size(s.momentum) < t.bypass)
<1> DEFINE W == VetoReasons(f, quality, eventRisk, t, s)
<1>1. "unaligned" \in W <=> (s.trend # 0 /\ s.momentum # 0 /\ s.volume # 0
        /\ ~(Sign(s.trend) = Sign(s.momentum) /\ Sign(s.momentum) = Sign(s.volume)))
  <2> DEFINE S == {Sign(s.trend), Sign(s.momentum), Sign(s.volume)}
  <2>1. "unaligned" \in W <=> (0 \notin {s.trend, s.momentum, s.volume} /\ Cardinality(S) > 1)
    BY SMT DEF VetoReasons
  <2>2. Cardinality(S) > 1 <=> ~(Sign(s.trend) = Sign(s.momentum) /\ Sign(s.momentum) =
          Sign(s.volume))
    BY SeveralOfThree
  <2> HIDE DEF W, S
  <2>3. QED
    BY <2>1, <2>2
<1>2. "against volume" \in W <=> (Opposed(f.r5, s.volume))
  BY SMT DEF VetoReasons
<1>3. "confirmation" \in W <=> (Size(s.volume) < t.minVolume /\ Size(s.momentum) < t.bypass)
  BY SMT DEF VetoReasons
<1>4. QED
  BY <1>1, <1>2, <1>3

LEMMA ParticipationVeto ==
  ASSUME NEW f, NEW quality, NEW eventRisk, NEW t, NEW s
  PROVE  "participation" \in VetoReasons(f, quality, eventRisk, t, s)
           <=> (f.r5 # 0 /\ f.z < -4 /\ Size(s.momentum) > 2000)
BY SMT DEF VetoReasons

-----------------------------------------------------------------------------
\* What the modules score, and the same with every direction turned around.
ScoreSets ==
  {s \in [trend : Int, momentum : Int, volatility : Int, volume : Int, reversal : Nat, chop : Nat] :
     /\ s.trend = 0 \/ (Size(s.trend) >= 3500 /\ Size(s.trend) <= 10000)
     /\ Size(s.momentum) <= 10000 /\ Size(s.volatility) <= 6500 /\ Size(s.volume) <= 9000
     /\ s.reversal <= 8000 /\ s.chop <= 10000}
Turned(s, r) ==
  /\ r.trend = -s.trend /\ r.momentum = -s.momentum /\ r.volatility = -s.volatility
  /\ r.volume = -s.volume /\ r.reversal = s.reversal /\ r.chop = s.chop

LEMMA ScoresAre ==
  ASSUME NEW f \in FeatureSets, NEW g, Mirrored(f, g)
  PROVE  /\ Modules(f) \in ScoreSets
         /\ Modules(f).trend = TrendScore(f) /\ Modules(f).momentum = MomentumScore(f)
         /\ ~(f.abnormal /\ f.z < 0) => Turned(Modules(f), Modules(g))
<1> DEFINE Scores(h, trend, momentum) ==
      [trend |-> trend, momentum |-> momentum, volatility |-> VolatilityScore(h, trend, momentum),
       volume |-> VolumeScore(h), reversal |-> ReversalRisk(h, trend, momentum),
       chop |-> ChopRisk(h, trend, momentum)]
<1>1. PICK t \in Int : /\ t = TrendScore(f) /\ TrendScore(g) = -t
                       /\ t = 0 \/ (Size(t) >= 3500 /\ Size(t) <= 10000)
  BY TrendIsOdd
<1>2. PICK m \in Int : /\ m = MomentumScore(f) /\ MomentumScore(g) = -m
                       /\ -10000 <= m /\ m <= 10000
  BY MomentumIsOdd
<1>3. /\ VolatilityScore(f, t, m) \in Int
      /\ VolatilityScore(g, -t, -m) = -VolatilityScore(f, t, m)
      /\ -6500 <= VolatilityScore(f, t, m) /\ VolatilityScore(f, t, m) <= 6500
  BY VolatilityIsOdd
<1>4. /\ VolumeScore(f) \in Int /\ -9000 <= VolumeScore(f) /\ VolumeScore(f) <= 9000
      /\ ~(f.abnormal /\ f.z < 0) => VolumeScore(g) = -VolumeScore(f)
  BY VolumeIsOdd
<1>5. /\ ReversalRisk(f, t, m) \in Nat /\ ReversalRisk(f, t, m) <= 8000
      /\ ReversalRisk(g, -t, -m) = ReversalRisk(f, t, m)
  BY ReversalIsEven
<1>6. /\ ChopRisk(f, t, m) \in Nat /\ ChopRisk(f, t, m) <= 10000
      /\ ChopRisk(g, -t, -m) = ChopRisk(f, t, m)
  BY ChopIsEven
<1>7. Modules(f) = Scores(f, t, m) /\ Modules(g) = Scores(g, -t, -m)
  BY <1>1, <1>2 DEF Modules
<1>8. /\ Size(m) <= 10000 /\ Size(VolatilityScore(f, t, m)) <= 6500 /\ Size(VolumeScore(f)) <= 9000
  BY <1>2, <1>3, <1>4, SizeIs
<1>9. Modules(f) \in ScoreSets
  BY <1>1, <1>3, <1>4, <1>5, <1>6, <1>7, <1>8 DEF ScoreSets
<1>10. ~(f.abnormal /\ f.z < 0) => Turned(Modules(f), Modules(g))
  BY <1>3, <1>4, <1>5, <1>6, <1>7 DEF Turned
<1>11. QED
  BY <1>1, <1>2, <1>7, <1>9, <1>10

\* A market and its mirror are turned away for the same reasons.
LEMMA VetoesAreEven ==
  ASSUME NEW f \in FeatureSets, NEW g, Mirrored(f, g), NEW s \in ScoreSets, NEW r, Turned(s, r),
         NEW quality, NEW eventRisk, NEW t
  PROVE  VetoReasons(g, quality, eventRisk, t, r) = VetoReasons(f, quality, eventRisk, t, s)
<1> DEFINE V == VetoReasons(f, quality, eventRisk, t, s)
           W == VetoReasons(g, quality, eventRisk, t, r)
<1>1. /\ f.slope \in Int /\ f.gap \in Int /\ f.histAtr \in Int /\ f.hist \in Int /\ f.r5 \in Int
      /\ f.z \in Int
  BY DEF FeatureSets
<1>2. /\ Size(g.slope) = Size(f.slope) /\ Size(g.gap) = Size(f.gap)
      /\ Size(g.histAtr) = Size(f.histAtr) /\ Size(g.hist) = Size(f.hist)
  BY <1>1, SizeIs DEF Mirrored
<1>3. /\ g.regime = f.regime /\ g.squeeze = f.squeeze /\ g.width = f.width /\ g.atr = f.atr
      /\ g.z = f.z /\ g.r5 = -f.r5
  BY DEF Mirrored
<1>4. /\ s.trend \in Int /\ s.momentum \in Int /\ s.volatility \in Int /\ s.volume \in Int
  BY DEF ScoreSets
<1>5. /\ r.trend = -s.trend /\ r.momentum = -s.momentum /\ r.volatility = -s.volatility
      /\ r.volume = -s.volume /\ r.reversal = s.reversal /\ r.chop = s.chop
  BY DEF Turned
<1>6. /\ Size(r.momentum) = Size(s.momentum) /\ Size(r.volatility) = Size(s.volatility)
      /\ Size(r.volume) = Size(s.volume)
  BY <1>4, <1>5, SizeIs
<1>7. /\ Sign(r.trend) = -Sign(s.trend) /\ Sign(r.momentum) = -Sign(s.momentum)
      /\ Sign(r.volatility) = -Sign(s.volatility) /\ Sign(r.volume) = -Sign(s.volume)
      /\ Sign(s.trend) \in Int /\ Sign(s.momentum) \in Int /\ Sign(s.volatility) \in Int
      /\ Sign(s.volume) \in Int
  BY <1>4, <1>5, SignIs
<1>8. /\ Opposed(r.trend, r.momentum) = Opposed(s.trend, s.momentum)
      /\ Opposed(g.r5, r.volume) = Opposed(f.r5, s.volume)
  BY <1>1, <1>3, <1>4, <1>5, OpposedIs
<1>9. V \subseteq VetoNames /\ W \subseteq VetoNames
  BY VetoesAre
<1>10. "stale" \in V <=> "stale" \in W
  BY VetoesAre
<1>11. "insufficient" \in V <=> "insufficient" \in W
  BY VetoesAre
<1>12. "event" \in V <=> "event" \in W
  BY VetoesAre
<1>13. "trend" \in V <=> "trend" \in W
  BY <1>2, <1>6, VetoesAre
<1>14. "momentum" \in V <=> "momentum" \in W
  BY <1>2, <1>6, VetoesAre
<1>15. "squeeze" \in V <=> "squeeze" \in W
  BY <1>3, VetoesAre
<1>16. "extreme" \in V <=> "extreme" \in W
  BY <1>3, VetoesAre
<1>17. "reversal" \in V <=> "reversal" \in W
  BY <1>4, <1>5, <1>7, VetoesAre
<1>18. "chop" \in V <=> "chop" \in W
  BY <1>5, VetoesAre
<1>19. "disagree" \in V <=> "disagree" \in W
  BY <1>8, VetoesAre
<1>20. "breakout" \in V <=> "breakout" \in W
  BY <1>4, <1>5, <1>6, <1>7, VetoesAre
<1>21. "unaligned" \in V <=> "unaligned" \in W
  <2>1. /\ r.trend # 0 <=> s.trend # 0
        /\ r.momentum # 0 <=> s.momentum # 0
        /\ r.volume # 0 <=> s.volume # 0
        /\ Sign(r.trend) = Sign(r.momentum) <=> Sign(s.trend) = Sign(s.momentum)
        /\ Sign(r.momentum) = Sign(r.volume) <=> Sign(s.momentum) = Sign(s.volume)
    BY <1>4, <1>5, <1>7
  <2> HIDE DEF V, W
  <2>2. "unaligned" \in V <=> /\ s.trend # 0 /\ s.momentum # 0 /\ s.volume # 0
                             /\ ~(/\ Sign(s.trend) = Sign(s.momentum)
                                  /\ Sign(s.momentum) = Sign(s.volume))
    BY VolumeVetoes DEF V
  <2>3. "unaligned" \in W <=> /\ r.trend # 0 /\ r.momentum # 0 /\ r.volume # 0
                             /\ ~(/\ Sign(r.trend) = Sign(r.momentum)
                                  /\ Sign(r.momentum) = Sign(r.volume))
    BY VolumeVetoes DEF W
  <2>4. QED
    BY <2>1, <2>2, <2>3
<1>22. "against volume" \in V <=> "against volume" \in W
  BY <1>8, VolumeVetoes
<1>23. "participation" \in V <=> "participation" \in W
  BY <1>1, <1>3, <1>6, ParticipationVeto
<1>24. "confirmation" \in V <=> "confirmation" \in W
  BY <1>6, VolumeVetoes
<1> HIDE DEF V, W
<1>25. \A veto \in VetoNames : veto \in V <=> veto \in W
  BY <1>10, <1>11, <1>12, <1>13, <1>14, <1>15, <1>16, <1>17, <1>18, <1>19, <1>20, <1>21, <1>22,
     <1>23, <1>24 DEF VetoNames
<1>26. V = W
  BY <1>9, <1>25
<1>27. QED
  BY <1>26 DEF V, W

-----------------------------------------------------------------------------
-----------------------------------------------------------------------------
\* What the proofs use of a profile's thresholds: a long threshold cannot be
\* passed without a trend of the profile's strength unless momentum is strong.
Demanding(t) ==
  /\ t \in [long : Nat, minConfidence : Nat, maxChop : Nat, minTrend : Nat, minWidth : Nat,
            maxWidth : Nat, maxAtr : Nat, minHist : Nat, minSlope : Nat, minVolume : Nat,
            bypass : Nat, weight : Nat]
  /\ t.long >= 6000 /\ t.weight <= 12
  /\ 36 * t.minTrend + 30 * 5500 + 14 * 6500 + 9000 * t.weight + 80000 < 100 * t.long

\* u is the bolder one, by more than the total or the confidence can differ.
Bolder(t, u) ==
  /\ u.long + 181 <= t.long /\ u.minConfidence + 140 <= t.minConfidence /\ u.minConfidence > 0
  /\ t.maxChop <= u.maxChop /\ u.minTrend <= t.minTrend /\ u.minWidth <= t.minWidth
  /\ t.maxWidth <= u.maxWidth /\ t.maxAtr <= u.maxAtr /\ u.minHist <= t.minHist
  /\ u.minSlope <= t.minSlope /\ u.minVolume <= t.minVolume /\ u.bypass <= t.bypass
  /\ u.weight <= t.weight /\ t.weight <= u.weight + 2

LEMMA ProfilesAre ==
  ASSUME NEW horizon \in {"5m", "10m"}
  PROVE  /\ DOMAIN Profiles = {"balanced", "conservative", "aggressive"}
         /\ Demanding(Profiles["conservative"][horizon]) /\ Demanding(Profiles["balanced"][horizon])
         /\ Demanding(Profiles["aggressive"][horizon])
         /\ Bolder(Profiles["conservative"][horizon], Profiles["balanced"][horizon])
         /\ Bolder(Profiles["balanced"][horizon], Profiles["aggressive"][horizon])
<1>1. DOMAIN Profiles = {"balanced", "conservative", "aggressive"}
  BY DEF Profiles
<1>2. Profiles["conservative"][horizon] =
        IF horizon = "5m" THEN Thresholds(7600, 5600, 5200, 4200, 8000, 38000, 10000, 280, 60, 2400, 8200, 12)
        ELSE Thresholds(7200, 5200, 5000, 5200, 8500, 43000, 11000, 240, 55, 2400, 8000, 12)
  BY DEF Profiles, PerHorizon
<1>3. Profiles["balanced"][horizon] =
        IF horizon = "5m" THEN Thresholds(6800, 4600, 6800, 2800, 6000, 45000, 12000, 200, 40, 1000, 7200, 10)
        ELSE Thresholds(6500, 4400, 6200, 4400, 7500, 50000, 13000, 180, 35, 1000, 7200, 10)
  BY DEF Profiles, PerHorizon
<1>4. Profiles["aggressive"][horizon] =
        IF horizon = "5m" THEN Thresholds(6200, 4000, 7200, 2200, 4500, 50000, 14000, 140, 30, 0, 6200, 8)
        ELSE Thresholds(6000, 3800, 6800, 3600, 5500, 55000, 15000, 120, 30, 0, 6000, 8)
  BY DEF Profiles, PerHorizon
<1>5. Demanding(Profiles["conservative"][horizon])
  BY <1>2 DEF Demanding, Thresholds
<1>6. Demanding(Profiles["balanced"][horizon])
  BY <1>3 DEF Demanding, Thresholds
<1>7. Demanding(Profiles["aggressive"][horizon])
  BY <1>4 DEF Demanding, Thresholds
<1>8. Bolder(Profiles["conservative"][horizon], Profiles["balanced"][horizon])
  BY <1>2, <1>3 DEF Bolder, Thresholds
<1>9. Bolder(Profiles["balanced"][horizon], Profiles["aggressive"][horizon])
  BY <1>3, <1>4 DEF Bolder, Thresholds
<1>10. QED
  BY <1>1, <1>5, <1>6, <1>7, <1>8, <1>9

-----------------------------------------------------------------------------
\* The total, in its parts.
Weighted(s, t) == s.trend * 36 + s.momentum * 30 + s.volatility * 14 + s.volume * t.weight
Base(s, context, t) == Over(Weighted(s, t), 100) + ContextScore(context)
Penalty(s) == Over(s.reversal * 12 + s.chop * 16, 100)

LEMMA TotalIs ==
  ASSUME NEW s, NEW context, NEW t
  PROVE  TotalScore(s, context, t) =
           Clamp(Base(s, context, t) - Sign(Base(s, context, t)) * Penalty(s), -10000, 10000)
BY DEF TotalScore, Base, Penalty, Weighted

LEMMA ContextIsOdd ==
  ASSUME NEW context \in SignalContexts
  PROVE  /\ ContextScore(context) \in Int /\ -800 <= ContextScore(context)
              /\ ContextScore(context) <= 800
         /\ ContextScore(MirrorContext(context)) = -ContextScore(context)
         /\ MirrorContext(context).eventRisk = context.eventRisk
<1> DEFINE m == MirrorContext(context)
           Macro(c) == CASE c.macro = "risk_on" -> 400 [] c.macro = "risk_off" -> -400 [] OTHER -> 0
           Sum(c) == 18 * c.news + 12 * c.posts + Macro(c)
<1>1. context.news \in Int /\ context.posts \in Int
        /\ context.macro \in {"risk_on", "risk_off", "unknown"}
  BY DEF SignalContexts
<1>2. m.news = -context.news /\ m.posts = -context.posts /\ m.eventRisk = context.eventRisk
  BY DEF SignalContexts, MirrorContext
<1>3. m.macro = CASE context.macro = "risk_on" -> "risk_off" [] context.macro =
        "risk_off" -> "risk_on"
                  [] OTHER -> context.macro
  BY DEF SignalContexts, MirrorContext
<1>4. Macro(context) \in Int /\ Macro(m) = -Macro(context)
  <2> HIDE DEF m
  <2>1. CASE context.macro = "risk_on"
    BY <1>3, <2>1
  <2>2. CASE context.macro = "risk_off"
    <3>1. m.macro = "risk_on"
      BY <1>3, <2>2
    <3>2. Macro(m) = 400
      BY <3>1
    <3>3. Macro(context) = -400
      BY <2>2
    <3>4. QED
      BY <3>2, <3>3
  <2>3. CASE context.macro = "unknown"
    <3>1. m.macro = "unknown"
      BY <1>3, <2>3
    <3>2. Macro(m) = 0
      BY <3>1
    <3>3. Macro(context) = 0
      BY <2>3
    <3>4. QED
      BY <3>2, <3>3
  <2>4. QED
    BY <1>1, <2>1, <2>2, <2>3
<1>5. ContextScore(context) = Clamp(Sum(context), -800, 800) /\ ContextScore(m) =
        Clamp(Sum(m), -800, 800)
  BY DEF ContextScore
<1> HIDE DEF m, Macro
<1>6. Sum(context) \in Int /\ Sum(m) = -Sum(context)
  BY <1>1, <1>2, <1>4
<1> HIDE DEF Sum
<1>7. QED
  BY <1>2, <1>5, <1>6, ClampIs DEF m

LEMMA ScoresInParts ==
  ASSUME NEW s \in ScoreSets
  PROVE  /\ s.trend \in Int /\ s.momentum \in Int /\ s.volatility \in Int /\ s.volume \in Int
         /\ s.trend = 0 \/ (Size(s.trend) >= 3500 /\ Size(s.trend) <= 10000)
         /\ -10000 <= s.momentum /\ s.momentum <= 10000
         /\ -6500 <= s.volatility /\ s.volatility <= 6500 /\ -9000 <= s.volume /\ s.volume <= 9000
         /\ Penalty(s) \in Nat /\ Penalty(s) <= 2560
<1>1. /\ s.trend \in Int /\ s.momentum \in Int /\ s.volatility \in Int /\ s.volume \in Int
      /\ s.trend = 0 \/ (Size(s.trend) >= 3500 /\ Size(s.trend) <= 10000)
      /\ Size(s.momentum) <= 10000 /\ Size(s.volatility) <= 6500 /\ Size(s.volume) <= 9000
      /\ s.reversal \in Nat /\ s.chop \in Nat /\ s.reversal <= 8000 /\ s.chop <= 10000
  BY DEF ScoreSets
<1>2. PICK n \in Nat : n = s.reversal * 12 + s.chop * 16 /\ n <= 256000
  BY <1>1
<1>3. Penalty(s) = n \div 100
  BY <1>2, OverIs DEF Penalty
<1>4. Penalty(s) \in Nat /\ Penalty(s) <= 2560
  BY <1>2, <1>3
<1>5. QED
  BY <1>1, <1>4, SizeIs

\* A total has the way of its base, and comes no further than that, where it is
\* of the strength of a direction.
LEMMA TotalHasItsBase ==
  ASSUME NEW s \in ScoreSets, NEW context \in SignalContexts, NEW t, Demanding(t)
  PROVE  /\ Weighted(s, t) \in Int /\ Base(s, context, t) \in Int /\ TotalScore(s, context, t) \in Int
         /\ TotalScore(s, context, t) >= 6000 =>
              /\ Base(s, context, t) > 0
              /\ 100 * (TotalScore(s, context, t) - 800) <= Weighted(s, t)
         /\ TotalScore(s, context, t) <= -6000 =>
              /\ Base(s, context, t) < 0
              /\ Weighted(s, t) <= 100 * (TotalScore(s, context, t) + 800)
<1>1. /\ s.trend \in Int /\ s.momentum \in Int /\ s.volatility \in Int /\ s.volume \in Int
      /\ Penalty(s) \in Nat /\ Penalty(s) <= 2560
  BY ScoresInParts
<1>2. t.weight \in Nat
  BY DEF Demanding
<1>3. PICK n \in Int : n = Weighted(s, t)
  BY <1>1, <1>2 DEF Weighted
<1>4. PICK c \in Int : c = ContextScore(context) /\ -800 <= c /\ c <= 800
  BY ContextIsOdd
<1>5. PICK o \in Int : o = Over(n, 100) /\ o = IF n >= 0 THEN n \div 100 ELSE -((-n) \div 100)
  BY OverIs
<1>6. Base(s, context, t) = o + c
  BY <1>3, <1>4, <1>5 DEF Base
<1>7. PICK p \in Nat : p = Penalty(s) /\ p <= 2560
  BY <1>1
<1>8. PICK b \in Int : b = o + c /\ Base(s, context, t) = b
  BY <1>6
<1>9. PICK less \in Int : less = b - Sign(b) * p
  BY SignIs
<1>10. TotalScore(s, context, t) = IF less < -10000 THEN -10000 ELSE IF less > 10000
         THEN 10000 ELSE less
  BY <1>7, <1>8, <1>9, TotalIs, ClampIs
<1>11. less = (IF b > 0 THEN b - p ELSE IF b < 0 THEN b + p ELSE 0)
  BY <1>9 DEF Sign
<1>12. TotalScore(s, context, t) \in Int
  BY <1>10
<1>13. ASSUME TotalScore(s, context, t) >= 6000
       PROVE  b > 0 /\ 100 * (TotalScore(s, context, t) - 800) <= n
  <2>1. less >= 6000 /\ TotalScore(s, context, t) <= less
    BY <1>10, <1>13
  <2>2. b > 0 /\ less <= b
    BY <1>7, <1>11, <2>1
  <2>3. o >= 5200 /\ TotalScore(s, context, t) - 800 <= o
    BY <1>4, <1>8, <1>12, <2>1, <2>2
  <2>4. 100 * o <= n
    BY <1>5, <2>3
  <2>5. QED
    BY <1>12, <2>2, <2>3, <2>4
<1>14. ASSUME TotalScore(s, context, t) <= -6000
       PROVE  b < 0 /\ n <= 100 * (TotalScore(s, context, t) + 800)
  <2>1. less <= -6000 /\ TotalScore(s, context, t) >= less
    BY <1>10, <1>14
  <2>2. b < 0 /\ less >= b
    BY <1>7, <1>11, <2>1
  <2>3. o <= -5200 /\ TotalScore(s, context, t) + 800 >= o
    BY <1>4, <1>8, <1>12, <2>1, <2>2
  <2>4. n <= 100 * o
    BY <1>5, <2>3
  <2>5. QED
    BY <1>12, <2>2, <2>3, <2>4
<1>15. QED
  BY <1>3, <1>8, <1>12, <1>13, <1>14

\* A weight that is a little smaller changes a total of that strength a little.
LEMMA TotalsAreClose ==
  ASSUME NEW s \in ScoreSets, NEW context \in SignalContexts, NEW t, Demanding(t),
         NEW u, Demanding(u), Bolder(t, u)
  PROVE  /\ TotalScore(s, context, t) >= 6000 =>
              /\ TotalScore(s, context, u) >= TotalScore(s, context, t) - 181
         /\ TotalScore(s, context, t) <= -6000 =>
              /\ TotalScore(s, context, u) <= TotalScore(s, context, t) + 181
<1>1. /\ s.trend \in Int /\ s.momentum \in Int /\ s.volatility \in Int /\ s.volume \in Int
      /\ Penalty(s) \in Nat /\ Penalty(s) <= 2560 /\ -9000 <= s.volume /\ s.volume <= 9000
  BY ScoresInParts
<1>2. t.weight \in Nat /\ u.weight \in Nat /\ u.weight <= t.weight /\ t.weight <= u.weight + 2
  BY DEF Demanding, Bolder
<1>3. PICK n \in Int : n = Weighted(s, t)
  BY <1>1, <1>2 DEF Weighted
<1>4. PICK m \in Int : m = Weighted(s, u)
  BY <1>1, <1>2 DEF Weighted
<1>5. -18000 <= n - m /\ n - m <= 18000
  <2>1. PICK d \in 0 .. 2 : d = t.weight - u.weight
    BY <1>2
  <2>2. n - m = s.volume * d
    <3>1. s.volume * t.weight = s.volume * u.weight + s.volume * d
      BY <1>1, <1>2, <2>1
    <3>2. s.volume * t.weight \in Int /\ s.volume * u.weight \in Int
      BY <1>1, <1>2
    <3>3. QED
      BY <1>1, <1>3, <1>4, <3>1, <3>2 DEF Weighted
  <2>3. d = 0 \/ d = 1 \/ d = 2
    BY <2>1
  <2>4. QED
    BY <1>1, <1>3, <1>4, <2>2, <2>3
<1>6. PICK c \in Int : c = ContextScore(context) /\ -800 <= c /\ c <= 800
  BY ContextIsOdd
<1>7. PICK o \in Int : o = Over(n, 100) /\ o = IF n >= 0 THEN n \div 100 ELSE -((-n) \div 100)
  BY Hundredths
<1>8. PICK q \in Int : q = Over(m, 100) /\ q = IF m >= 0 THEN m \div 100 ELSE -((-m) \div 100)
  BY Hundredths
<1>9. -181 <= o - q /\ o - q <= 181
  BY <1>5, <1>7, <1>8
<1>10. PICK p \in Nat : p = Penalty(s)
  BY <1>1
<1>11. Base(s, context, t) = o + c /\ Base(s, context, u) = q + c
  BY <1>3, <1>4, <1>6, <1>7, <1>8 DEF Base
<1>12. PICK b \in Int : b = o + c
  OBVIOUS
<1>13. PICK e \in Int : e = q + c
  OBVIOUS
<1>14. PICK less \in Int : less = b - Sign(b) * p
  BY SignIs
<1>15. PICK more \in Int : more = e - Sign(e) * p
  BY SignIs
<1>16. TotalScore(s, context, t) = IF less < -10000 THEN -10000 ELSE IF less > 10000
         THEN 10000 ELSE less
  BY <1>10, <1>11, <1>12, <1>14, TotalIs, ClampIs
<1>17. TotalScore(s, context, u) = IF more < -10000 THEN -10000 ELSE IF more > 10000
         THEN 10000 ELSE more
  BY <1>10, <1>11, <1>13, <1>15, TotalIs, ClampIs
<1>18. less = (IF b > 0 THEN b - p ELSE IF b < 0 THEN b + p ELSE 0)
  BY <1>14 DEF Sign
<1>19. more = (IF e > 0 THEN e - p ELSE IF e < 0 THEN e + p ELSE 0)
  BY <1>15 DEF Sign
<1>20. p <= 2560
  BY <1>1, <1>10
<1>21. QED
  BY <1>9, <1>12, <1>13, <1>16, <1>17, <1>18, <1>19, <1>20

LEMMA TotalIsOdd ==
  ASSUME NEW s \in ScoreSets, NEW r, Turned(s, r), NEW context \in SignalContexts, NEW t, Demanding(t)
  PROVE  TotalScore(r, MirrorContext(context), t) = -TotalScore(s, context, t)
<1> DEFINE m == MirrorContext(context)
<1>1. /\ s.trend \in Int /\ s.momentum \in Int /\ s.volatility \in Int /\ s.volume \in Int
      /\ Penalty(s) \in Nat
  BY ScoresInParts
<1>2. /\ r.trend = -s.trend /\ r.momentum = -s.momentum /\ r.volatility = -s.volatility
      /\ r.volume = -s.volume /\ r.reversal = s.reversal /\ r.chop = s.chop
  BY DEF Turned
<1>3. t.weight \in Nat
  BY DEF Demanding
<1>4. PICK n \in Int : n = Weighted(s, t)
  BY TotalHasItsBase
<1>5. Weighted(r, t) = -n
  <2>1. (-s.volume) * t.weight = -(s.volume * t.weight) /\ s.volume * t.weight \in Int
    BY <1>1, <1>3
  <2>2. QED
    BY <1>1, <1>2, <1>4, <2>1 DEF Weighted
<1>6. Over(n, 100) \in Int /\ Over(-n, 100) = -Over(n, 100)
  BY OverIs
<1>7. ContextScore(context) \in Int /\ ContextScore(m) = -ContextScore(context)
  BY ContextIsOdd
<1>8. PICK b \in Int : b = Base(s, context, t)
  BY TotalHasItsBase
<1>9. Base(r, m, t) = -b
  BY <1>4, <1>5, <1>6, <1>7, <1>8 DEF Base
<1>10. PICK p \in Nat : p = Penalty(s) /\ p = Penalty(r)
  BY <1>1, <1>2 DEF Penalty
<1>11. Sign(b) \in {-1, 0, 1} /\ Sign(-b) = -Sign(b)
  BY SignIs
<1>12. PICK less \in Int : less = b - Sign(b) * p /\ -b - Sign(-b) * p = -less
  BY <1>11
<1>13. /\ TotalScore(s, context, t) = Clamp(less, -10000, 10000)
       /\ TotalScore(r, m, t) = Clamp(-less, -10000, 10000)
  <2>1. /\ TotalScore(s, context, t) = Clamp(b - Sign(b) * Penalty(s), -10000, 10000)
        /\ TotalScore(r, m, t) = Clamp((-b) - Sign(-b) * Penalty(r), -10000, 10000)
    BY <1>8, <1>9, TotalIs
  <2>2. b - Sign(b) * Penalty(s) = less /\ (-b) - Sign(-b) * Penalty(r) = -less
    BY <1>10, <1>12
  <2>3. QED
    BY <2>1, <2>2
<1>14. QED
  BY <1>13, ClampIs

-----------------------------------------------------------------------------
\* How sure a direction is.
Sureness(f, s, quality, total) ==
  Clamp(Over(Size(total) * 76 - s.reversal * 16 - s.chop * 18, 100)
          + (IF quality = "ok" THEN 1200 ELSE 0)
          - (CASE Size(s.volume) >= 5000 -> 0 [] s.volume = 0 -> 800 [] OTHER -> 400)
          - (IF f.regime = "high" THEN 800 ELSE 0), 0, 9000)

\* The direction counts.
Counts(f, s, quality, total, vetoes, t) ==
  /\ Direction(total, vetoes # {}, t) # "NO_SIGNAL"
  /\ Sureness(f, s, quality, total) >= t.minConfidence /\ Sureness(f, s, quality, total) # 0

LEMMA DecisionIs ==
  ASSUME NEW f, NEW s, NEW quality, NEW total, NEW vetoes, NEW t
  PROVE  /\ Decided(f, s, quality, total, vetoes, t).direction =
              IF Counts(f, s, quality, total, vetoes, t) THEN Direction(total, vetoes # {}, t)
              ELSE "NO_SIGNAL"
         /\ Decided(f, s, quality, total, vetoes, t).confidence =
              IF Counts(f, s, quality, total, vetoes, t) THEN Sureness(f, s, quality, total) ELSE 0
BY DEF Decided, Counts, Sureness

LEMMA DirectionIs ==
  ASSUME NEW total \in Int, NEW vetoed \in BOOLEAN, NEW t, Demanding(t)
  PROVE  Direction(total, vetoed, t) =
           IF vetoed THEN "NO_SIGNAL"
           ELSE IF total >= t.long THEN "LONG" ELSE IF total <= -t.long THEN "SHORT" ELSE "NO_SIGNAL"
<1>1. t.long \in Nat /\ t.long >= 6000
  BY DEF Demanding
<1>2. Size(total) = IF total >= 0 THEN total ELSE -total
  BY SizeIs
<1>3. QED
  BY <1>1, <1>2 DEF Direction

\* The same total of two profiles is about as sure.
LEMMA SurenessIsClose ==
  ASSUME NEW f \in FeatureSets, NEW s \in ScoreSets, NEW quality, NEW total \in Int,
         NEW other \in Int,
         NEW a \in Nat, a = Size(total), NEW b \in Nat, b = Size(other), a <= b + 181
  PROVE  /\ Sureness(f, s, quality, total) \in Nat /\ Sureness(f, s, quality, other) \in Nat
         /\ Sureness(f, s, quality, other) >= Sureness(f, s, quality, total) - 139
<1> DEFINE Rest == (IF quality = "ok" THEN 1200 ELSE 0)
                     - (CASE Size(s.volume) >= 5000 -> 0 [] s.volume = 0 -> 800 [] OTHER -> 400)
                     - (IF f.regime = "high" THEN 800 ELSE 0)
<1>1. PICK rest \in Int : rest = Rest
  OBVIOUS
<1> HIDE DEF Rest
<1>2. PICK v \in Nat : v = s.reversal
  BY DEF ScoreSets
<1>3. PICK h \in Nat : h = s.chop
  BY DEF ScoreSets
<1>4. PICK n \in Int : n = a * 76 - v * 16 - h * 18
  OBVIOUS
<1>5. PICK m \in Int : m = b * 76 - v * 16 - h * 18
  OBVIOUS
<1>6. \A k \in Int : Over(k, 100) \in Int /\ Over(k, 100) = IF k >= 0
        THEN k \div 100 ELSE -((-k) \div 100)
  BY Hundredths
<1>7. PICK x \in Int : x = Over(n, 100) /\ x = IF n >= 0 THEN n \div 100 ELSE -((-n) \div 100)
  BY <1>6
<1>8. PICK y \in Int : y = Over(m, 100) /\ y = IF m >= 0 THEN m \div 100 ELSE -((-m) \div 100)
  BY <1>6
<1>9. n <= m + 13756
  BY <1>4, <1>5
<1>10. x <= y + 139
  BY <1>7, <1>8, <1>9
<1>11. Sureness(f, s, quality, total) = Clamp(x + rest, 0, 9000)
  <2>1. Size(total) * 76 - s.reversal * 16 - s.chop * 18 = n
    BY <1>2, <1>3, <1>4
  <2>2. QED
    BY <1>1, <1>7, <2>1 DEF Sureness, Rest
<1>12. Sureness(f, s, quality, other) = Clamp(y + rest, 0, 9000)
  <2>1. Size(other) * 76 - s.reversal * 16 - s.chop * 18 = m
    BY <1>2, <1>3, <1>5
  <2>2. QED
    BY <1>1, <1>8, <2>1 DEF Sureness, Rest
<1>13. QED
  BY <1>10, <1>11, <1>12, ClampIs

\* What a market and its mirror get.
LEMMA DecisionsMirror ==
  ASSUME NEW f \in FeatureSets, NEW g, Mirrored(f, g), NEW s \in ScoreSets, NEW r, Turned(s, r),
         NEW quality, NEW total \in Int, NEW vetoes, NEW t, Demanding(t)
  PROVE  LET a == Decided(f, s, quality, total, vetoes, t)
             b == Decided(g, r, quality, -total, vetoes, t)
         IN /\ a.direction \in {"LONG", "SHORT", "NO_SIGNAL"}
            /\ a.direction = "LONG" => b.direction = "SHORT"
            /\ a.direction = "SHORT" => b.direction = "LONG"
            /\ a.direction = "NO_SIGNAL" => b.direction = "NO_SIGNAL"
            /\ b.confidence = a.confidence
<1>1. g.regime = f.regime
  BY DEF Mirrored
<1>2. r.reversal = s.reversal /\ r.chop = s.chop /\ r.volume = -s.volume
  BY DEF Turned
<1>3. s.volume \in Int
  BY DEF ScoreSets
<1>4. Size(-total) = Size(total) /\ Size(r.volume) = Size(s.volume) /\ (r.volume = 0 <=> s.volume = 0)
  BY <1>2, <1>3, SizeIs
<1>5. Sureness(g, r, quality, -total) = Sureness(f, s, quality, total)
  <2>1. (CASE Size(r.volume) >= 5000 -> 0 [] r.volume = 0 -> 800 [] OTHER -> 400)
          = (CASE Size(s.volume) >= 5000 -> 0 [] s.volume = 0 -> 800 [] OTHER -> 400)
    BY <1>4
  <2>2. QED
    BY <1>1, <1>2, <1>4, <2>1 DEF Sureness
<1>6. PICK vetoed \in BOOLEAN : vetoed = (vetoes # {})
  OBVIOUS
<1>7. t.long \in Nat /\ t.long >= 6000
  BY DEF Demanding
<1>8. /\ Direction(total, vetoed, t) \in {"LONG", "SHORT", "NO_SIGNAL"}
      /\ Direction(total, vetoed, t) = "LONG" => Direction(-total, vetoed, t) = "SHORT"
      /\ Direction(total, vetoed, t) = "SHORT" => Direction(-total, vetoed, t) = "LONG"
      /\ Direction(total, vetoed, t) = "NO_SIGNAL" => Direction(-total, vetoed, t) = "NO_SIGNAL"
  <2>1. -total \in Int
    OBVIOUS
  <2>2. Direction(total, vetoed, t) =
          IF vetoed THEN "NO_SIGNAL"
          ELSE IF total >= t.long THEN "LONG" ELSE IF total <= -t.long THEN "SHORT" ELSE "NO_SIGNAL"
    BY DirectionIs
  <2>3. Direction(-total, vetoed, t) =
          IF vetoed THEN "NO_SIGNAL"
          ELSE IF -total >= t.long THEN "LONG" ELSE IF -total <= -t.long THEN "SHORT" ELSE "NO_SIGNAL"
    BY <2>1, DirectionIs
  <2>4. QED
    BY <1>7, <2>2, <2>3
<1>9. Counts(g, r, quality, -total, vetoes, t) <=> Counts(f, s, quality, total, vetoes, t)
  BY <1>5, <1>6, <1>8 DEF Counts
<1>10. QED
  BY <1>5, <1>6, <1>8, <1>9, DecisionIs

\* What stands behind a direction.
LEMMA DirectionIsBackedByTrend ==
  ASSUME NEW s \in ScoreSets, NEW context \in SignalContexts, NEW t, Demanding(t),
         ~Opposed(s.trend, s.momentum), ~(Size(s.trend) < t.minTrend /\ Size(s.momentum) >= 5500)
  PROVE  /\ TotalScore(s, context, t) >= t.long => s.trend >= t.minTrend /\ s.momentum >= 0
         /\ TotalScore(s, context, t) <= -t.long => -s.trend >= t.minTrend /\ s.momentum <= 0
<1>1. PICK tr \in Int : tr = s.trend
  BY ScoresInParts
<1>2. PICK m \in Int : m = s.momentum
  BY ScoresInParts
<1>3. PICK v \in Int : v = s.volatility /\ -6500 <= v /\ v <= 6500
  BY ScoresInParts
<1>4. PICK vol \in Int : vol = s.volume /\ -9000 <= vol /\ vol <= 9000
  BY ScoresInParts
<1>5. PICK w \in Nat : w = t.weight /\ w <= 12
  BY DEF Demanding
<1>6. PICK long \in Nat : long = t.long /\ long >= 6000
  BY DEF Demanding
<1>7. PICK least \in Nat : least = t.minTrend
        /\ 36 * least + 30 * 5500 + 14 * 6500 + 9000 * w + 80000 < 100 * long
  BY <1>5, <1>6 DEF Demanding
<1>8. tr = 0 \/ tr >= 3500 \/ tr <= -3500
  BY <1>1, ScoresInParts, SizeIs
<1>9. ~(tr > 0 /\ m < 0) /\ ~(tr < 0 /\ m > 0)
  <2>1. ~Opposed(tr, m)
    BY <1>1, <1>2
  <2>2. Opposed(tr, m) <=> ((tr > 0 /\ m < 0) \/ (tr < 0 /\ m > 0))
    BY DEF Opposed, Sign
  <2>3. QED
    BY <2>1, <2>2
<1>10. \/ tr >= least \/ -tr >= least
       \/ m < 5500 /\ -m < 5500
  BY <1>1, <1>2, <1>7, SizeIs
<1>11. PICK p \in Int : p = vol * w /\ p <= 9000 * w /\ -(9000 * w) <= p
  <2>1. vol * w \in Int
    OBVIOUS
  <2>2. (9000 - vol) * w >= 0 /\ (9000 + vol) * w >= 0
    BY <1>4
  <2>3. (9000 - vol) * w = 9000 * w - vol * w /\ (9000 + vol) * w = 9000 * w + vol * w
    OBVIOUS
  <2>4. QED
    BY <2>1, <2>2, <2>3
<1>12. PICK total \in Int : total = TotalScore(s, context, t)
  BY TotalHasItsBase
<1>13. PICK n \in Int : n = Weighted(s, t)
  BY TotalHasItsBase
<1>14. n = tr * 36 + m * 30 + v * 14 + p
  BY <1>1, <1>2, <1>3, <1>4, <1>5, <1>11, <1>13 DEF Weighted
<1>15. p <= 108000 /\ -108000 <= p
  BY <1>5, <1>11
<1>16. ASSUME total >= long PROVE tr >= least /\ m >= 0
  <2>1. 100 * (total - 800) <= n
    BY <1>6, <1>12, <1>13, <1>16, TotalHasItsBase
  <2>2. 100 * long - 80000 <= n
    BY <1>16, <2>1
  <2>3. least > 0 \/ least = 0
    OBVIOUS
  <2>4. CASE tr >= least
    <3>1. CASE tr > 0
      BY <1>9, <2>4, <3>1
    <3>2. CASE ~(tr > 0)
      <4>1. tr = 0
        BY <1>7, <2>4, <3>2
      <4>2. QED
        BY <1>3, <1>6, <1>7, <1>14, <1>11, <1>5, <2>2, <2>4, <4>1
    <3>3. QED
      BY <3>1, <3>2
  <2>5. CASE -tr >= least /\ ~(tr >= least)
    <3>1. m <= 0 \/ tr = 0
      BY <1>9, <2>5, <1>7
    <3>2. QED
      BY <1>3, <1>5, <1>6, <1>7, <1>11, <1>14, <2>2, <2>5, <3>1
  <2>6. CASE m < 5500 /\ -m < 5500 /\ ~(tr >= least)
    BY <1>3, <1>6, <1>7, <1>11, <1>14, <2>2, <2>6
  <2>7. QED
    BY <1>10, <2>4, <2>5, <2>6
<1>17. ASSUME total <= -long PROVE -tr >= least /\ m <= 0
  <2>1. n <= 100 * (total + 800)
    BY <1>6, <1>12, <1>13, <1>17, TotalHasItsBase
  <2>2. n <= 80000 - 100 * long
    BY <1>17, <2>1
  <2>3. least > 0 \/ least = 0
    OBVIOUS
  <2>4. CASE -tr >= least
    <3>1. CASE -tr > 0
      BY <1>9, <2>4, <3>1
    <3>2. CASE ~(-tr > 0)
      <4>1. tr = 0
        BY <1>7, <2>4, <3>2
      <4>2. QED
        BY <1>3, <1>6, <1>7, <1>14, <1>11, <1>5, <2>2, <2>4, <4>1
    <3>3. QED
      BY <3>1, <3>2
  <2>5. CASE tr >= least /\ ~(-tr >= least)
    <3>1. m >= 0 \/ tr = 0
      BY <1>9, <2>5, <1>7
    <3>2. QED
      BY <1>3, <1>5, <1>6, <1>7, <1>11, <1>14, <2>2, <2>5, <3>1
  <2>6. CASE m < 5500 /\ -m < 5500 /\ ~(-tr >= least)
    BY <1>3, <1>6, <1>7, <1>11, <1>14, <2>2, <2>6
  <2>7. QED
    BY <1>10, <2>4, <2>5, <2>6
<1>18. QED
  BY <1>1, <1>2, <1>6, <1>7, <1>12, <1>16, <1>17

\* What a profile turns away a bolder one may take, and never the other way.
LEMMA VetoesShrink ==
  ASSUME NEW f \in FeatureSets, NEW s \in ScoreSets, NEW quality, NEW eventRisk, NEW t, Demanding(t),
         NEW u, Demanding(u), Bolder(t, u)
  PROVE  VetoReasons(f, quality, eventRisk, u, s) \subseteq VetoReasons(f, quality, eventRisk, t, s)
<1> DEFINE V == VetoReasons(f, quality, eventRisk, t, s)
           W == VetoReasons(f, quality, eventRisk, u, s)
<1>1. /\ f.slope \in Int /\ f.gap \in Int /\ f.histAtr \in Int /\ f.hist \in Int
      /\ f.width \in Int /\ f.atr \in Int
  BY DEF FeatureSets
<1>2. /\ Size(f.slope) \in Nat /\ Size(f.gap) \in Nat /\ Size(f.histAtr) \in Nat
           /\ Size(f.hist) \in Nat
  BY <1>1, SizeIs
<1>3. s.momentum \in Int /\ s.volume \in Int /\ s.chop \in Nat
  BY DEF ScoreSets
<1>4. Size(s.momentum) \in Nat /\ Size(s.volume) \in Nat
  BY <1>3, SizeIs
<1>5. /\ t.maxChop \in Nat /\ t.minTrend \in Nat /\ t.minWidth \in Nat /\ t.maxWidth \in Nat
      /\ t.maxAtr \in Nat /\ t.minHist \in Nat /\ t.minSlope \in Nat /\ t.minVolume \in Nat
      /\ t.bypass \in Nat
      /\ u.maxChop \in Nat /\ u.minTrend \in Nat /\ u.minWidth \in Nat /\ u.maxWidth \in Nat
      /\ u.maxAtr \in Nat /\ u.minHist \in Nat /\ u.minSlope \in Nat /\ u.minVolume \in Nat
      /\ u.bypass \in Nat
  BY DEF Demanding
<1>6. /\ t.maxChop <= u.maxChop /\ u.minTrend <= t.minTrend /\ u.minWidth <= t.minWidth
      /\ t.maxWidth <= u.maxWidth /\ t.maxAtr <= u.maxAtr /\ u.minHist <= t.minHist
      /\ u.minSlope <= t.minSlope /\ u.minVolume <= t.minVolume /\ u.bypass <= t.bypass
  BY DEF Bolder
<1>7. W \subseteq VetoNames
  BY VetoesAre
<1>8. "stale" \in W => "stale" \in V
  BY VetoesAre
<1>9. "insufficient" \in W => "insufficient" \in V
  BY VetoesAre
<1>10. "event" \in W => "event" \in V
  BY VetoesAre
<1>11. "trend" \in W => "trend" \in V
  BY <1>2, <1>4, <1>5, <1>6, VetoesAre
<1>12. "momentum" \in W => "momentum" \in V
  BY <1>2, <1>4, <1>5, <1>6, VetoesAre
<1>13. "squeeze" \in W => "squeeze" \in V
  BY <1>1, <1>5, <1>6, VetoesAre
<1>14. "extreme" \in W => "extreme" \in V
  BY <1>1, <1>5, <1>6, VetoesAre
<1>15. "reversal" \in W => "reversal" \in V
  BY VetoesAre
<1>16. "chop" \in W => "chop" \in V
  BY <1>3, <1>5, <1>6, VetoesAre
<1>17. "disagree" \in W => "disagree" \in V
  BY VetoesAre
<1>18. "breakout" \in W => "breakout" \in V
  BY VetoesAre
<1>19. "unaligned" \in W => "unaligned" \in V
  BY VolumeVetoes
<1>20. "against volume" \in W => "against volume" \in V
  BY VolumeVetoes
<1>21. "participation" \in W => "participation" \in V
  BY ParticipationVeto
<1>22. "confirmation" \in W => "confirmation" \in V
  <2>1. "confirmation" \in W <=> (Size(s.volume) < u.minVolume /\ Size(s.momentum) < u.bypass)
    BY VolumeVetoes
  <2>2. "confirmation" \in V <=> (Size(s.volume) < t.minVolume /\ Size(s.momentum) < t.bypass)
    BY VolumeVetoes
  <2> HIDE DEF V, W
  <2>3. QED
    BY <1>4, <1>5, <1>6, <2>1, <2>2
<1> HIDE DEF V, W
<1>23. \A veto \in VetoNames : veto \in W => veto \in V
  BY <1>8, <1>9, <1>10, <1>11, <1>12, <1>13, <1>14, <1>15, <1>16, <1>17, <1>18, <1>19, <1>20, <1>21,
     <1>22 DEF VetoNames
<1>24. W \subseteq V
  BY <1>7, <1>23
<1>25. QED
  BY <1>24 DEF V, W

-----------------------------------------------------------------------------
\* What evaluateConfluence decides of scores.
Decision(f, s, quality, context, t) ==
  Decided(f, s, quality, TotalScore(s, context, t), AllVetoes(f, s, quality, context, {}, t), t)

LEMMA EvaluationIs ==
  ASSUME NEW f, NEW quality, NEW context, NEW t
  PROVE  EvaluateConfluence(f, quality, context, {}, t) = Decision(f, Modules(f), quality, context, t)
BY DEF EvaluateConfluence, Decision

\* A direction is one nothing vetoes.
LEMMA DirectionIsUnvetoed ==
  ASSUME NEW f, NEW s \in ScoreSets, NEW quality, NEW context \in SignalContexts, NEW t, Demanding(t)
  PROVE  LET total == TotalScore(s, context, t)
             direction == Decision(f, s, quality, context, t).direction
         IN /\ direction # "NO_SIGNAL" => AllVetoes(f, s, quality, context, {}, t) = {}
            /\ direction = "LONG" => total >= t.long
            /\ direction = "SHORT" => total <= -t.long
            /\ direction \in {"LONG", "SHORT", "NO_SIGNAL"}
            /\ direction # "NO_SIGNAL" => Sureness(f, s, quality, total) >= t.minConfidence
<1> DEFINE vetoes == AllVetoes(f, s, quality, context, {}, t)
           direction == Decision(f, s, quality, context, t).direction
<1>1. PICK total \in Int : total = TotalScore(s, context, t)
  BY TotalHasItsBase
<1>2. direction = IF Counts(f, s, quality, total, vetoes, t) THEN Direction(total, vetoes # {}, t)
                  ELSE "NO_SIGNAL"
  BY <1>1, DecisionIs DEF Decision
<1>3. Counts(f, s, quality, total, vetoes, t) => Sureness(f, s, quality, total) >= t.minConfidence
  BY DEF Counts
<1> HIDE DEF vetoes, direction
<1>4. PICK vetoed \in BOOLEAN : vetoed = (vetoes # {})
  OBVIOUS
<1>5. Direction(total, vetoed, t) =
        IF vetoed THEN "NO_SIGNAL"
        ELSE IF total >= t.long THEN "LONG" ELSE IF total <= -t.long THEN "SHORT" ELSE "NO_SIGNAL"
  BY DirectionIs
<1>6. /\ direction # "NO_SIGNAL" => vetoes = {}
      /\ direction = "LONG" => total >= t.long
      /\ direction = "SHORT" => total <= -t.long
      /\ direction \in {"LONG", "SHORT", "NO_SIGNAL"}
      /\ direction # "NO_SIGNAL" => Sureness(f, s, quality, total) >= t.minConfidence
  BY <1>2, <1>3, <1>4, <1>5
<1>7. QED
  BY <1>1, <1>6 DEF vetoes, direction

\* A direction has a trend behind it and no momentum against it.
LEMMA DecisionIsBacked ==
  ASSUME NEW f, NEW s \in ScoreSets, NEW quality, NEW context \in SignalContexts, NEW t, Demanding(t)
  PROVE  /\ Decision(f, s, quality, context, t).direction = "LONG" =>
              s.trend >= t.minTrend /\ s.momentum >= 0
         /\ Decision(f, s, quality, context, t).direction = "SHORT" =>
              -s.trend >= t.minTrend /\ s.momentum <= 0
<1> DEFINE vetoes == AllVetoes(f, s, quality, context, {}, t)
           way == Decision(f, s, quality, context, t).direction
<1>1. ASSUME vetoes = {}
      PROVE  ~Opposed(s.trend, s.momentum) /\ ~(Size(s.trend) < t.minTrend
               /\ Size(s.momentum) >= 5500)
  <2>1. VetoReasons(f, quality, context.eventRisk, t, s) = {}
    BY <1>1 DEF AllVetoes
  <2>2. "disagree" \notin VetoReasons(f, quality, context.eventRisk, t, s)
    BY <2>1
  <2>3. ~Opposed(s.trend, s.momentum)
    BY <2>2, VetoesAre
  <2>4. ~(Size(s.trend) < t.minTrend /\ Size(s.momentum) >= 5500)
    BY <1>1 DEF AllVetoes
  <2>5. QED
    BY <2>3, <2>4
<1>2. /\ way # "NO_SIGNAL" => vetoes = {}
      /\ way = "LONG" => TotalScore(s, context, t) >= t.long
      /\ way = "SHORT" => TotalScore(s, context, t) <= -t.long
  BY DirectionIsUnvetoed
<1>3. vetoes = {} =>
        /\ TotalScore(s, context, t) >= t.long => s.trend >= t.minTrend /\ s.momentum >= 0
        /\ TotalScore(s, context, t) <= -t.long => -s.trend >= t.minTrend /\ s.momentum <= 0
  BY <1>1, DirectionIsBackedByTrend
<1> HIDE DEF vetoes, way
<1>4. /\ way = "LONG" => s.trend >= t.minTrend /\ s.momentum >= 0
      /\ way = "SHORT" => -s.trend >= t.minTrend /\ s.momentum <= 0
  BY <1>2, <1>3
<1>5. QED
  BY <1>4 DEF way

\* The decision of a market's mirror.
LEMMA DecisionIsOdd ==
  ASSUME NEW f \in FeatureSets, NEW g, Mirrored(f, g), NEW s \in ScoreSets, NEW r, Turned(s, r),
         NEW quality, NEW context \in SignalContexts, NEW t, Demanding(t)
  PROVE  LET a == Decision(f, s, quality, context, t)
             b == Decision(g, r, quality, MirrorContext(context), t)
         IN /\ a.direction \in {"LONG", "SHORT", "NO_SIGNAL"}
            /\ a.direction = "LONG" => b.direction = "SHORT"
            /\ a.direction = "SHORT" => b.direction = "LONG"
            /\ a.direction = "NO_SIGNAL" => b.direction = "NO_SIGNAL"
            /\ b.confidence = a.confidence
<1>1. MirrorContext(context).eventRisk = context.eventRisk
  BY ContextIsOdd
<1>2. Size(r.trend) = Size(s.trend) /\ Size(r.momentum) = Size(s.momentum)
  BY ScoresInParts, SizeIs DEF Turned
<1>3. VetoReasons(g, quality, context.eventRisk, t, r) =
        VetoReasons(f, quality, context.eventRisk, t, s)
  BY VetoesAreEven
<1>4. AllVetoes(g, r, quality, MirrorContext(context), {}, t) =
        AllVetoes(f, s, quality, context, {}, t)
  BY <1>1, <1>2, <1>3 DEF AllVetoes
<1>5. TotalScore(r, MirrorContext(context), t) = -TotalScore(s, context, t)
  BY TotalIsOdd
<1>6. TotalScore(s, context, t) \in Int
  BY TotalHasItsBase
<1>7. QED
  BY <1>4, <1>5, <1>6, DecisionsMirror DEF Decision

\* The decision of the next bolder profile.
LEMMA DecisionIsKeptByBolder ==
  ASSUME NEW f \in FeatureSets, NEW s \in ScoreSets, NEW quality, NEW context \in SignalContexts,
         NEW t, Demanding(t), NEW u, Demanding(u), Bolder(t, u),
         Decision(f, s, quality, context, t).direction # "NO_SIGNAL"
  PROVE  Decision(f, s, quality, context, u).direction = Decision(f, s, quality, context, t).direction
<1> DEFINE V == AllVetoes(f, s, quality, context, {}, t)
           W == AllVetoes(f, s, quality, context, {}, u)
           direction == Decision(f, s, quality, context, t).direction
<1>1. PICK total \in Int : total = TotalScore(s, context, t)
  BY TotalHasItsBase
<1>2. PICK other \in Int : other = TotalScore(s, context, u)
  BY TotalHasItsBase
<1>3. V = {} /\ direction \in {"LONG", "SHORT"}
  BY DirectionIsUnvetoed
<1>4. /\ direction = "LONG" => total >= t.long
      /\ direction = "SHORT" => total <= -t.long
      /\ Sureness(f, s, quality, total) >= t.minConfidence
  BY <1>1, DirectionIsUnvetoed
<1>5. W = {}
  <2>1. VetoReasons(f, quality, context.eventRisk, t, s) = {}
    BY <1>3 DEF AllVetoes
  <2>2. VetoReasons(f, quality, context.eventRisk, u, s) = {}
    BY <2>1, VetoesShrink
  <2>3. ~(Size(s.trend) < t.minTrend /\ Size(s.momentum) >= 5500)
    BY <1>3 DEF AllVetoes
  <2>4. t.minTrend \in Nat /\ u.minTrend \in Nat /\ u.minTrend <= t.minTrend
    BY DEF Demanding, Bolder
  <2>5. Size(s.trend) \in Nat /\ Size(s.momentum) \in Nat
    BY ScoresInParts, SizeIs
  <2>6. ~(Size(s.trend) < u.minTrend /\ Size(s.momentum) >= 5500)
    BY <2>3, <2>4, <2>5
  <2>7. QED
    BY <2>2, <2>6 DEF AllVetoes
<1>6. PICK long \in Nat, least \in Nat : long = t.long /\ least = u.long
        /\ least + 181 <= long /\ least >= 6000
  BY DEF Demanding, Bolder
<1>7. /\ total >= 6000 => other >= total - 181
      /\ total <= -6000 => other <= total + 181
  BY <1>1, <1>2, TotalsAreClose
<1> HIDE DEF V, W, direction
<1>8. /\ direction = "LONG" => other >= least /\ total >= 6000 /\ other >= total - 181
      /\ direction = "SHORT" => other <= -least /\ total <= -6000 /\ other <= total + 181
  BY <1>4, <1>6, <1>7
<1>9. PICK a \in Nat, b \in Nat : a = Size(total) /\ b = Size(other)
  BY SizeIs
<1>10. a <= b + 181
  BY <1>3, <1>6, <1>8, <1>9, SizeIs
<1>11. /\ Sureness(f, s, quality, total) \in Nat /\ Sureness(f, s, quality, other) \in Nat
       /\ Sureness(f, s, quality, other) >= Sureness(f, s, quality, total) - 139
  BY <1>9, <1>10, SurenessIsClose
<1>12. /\ t.minConfidence \in Nat /\ u.minConfidence \in Nat /\ u.minConfidence > 0
       /\ u.minConfidence + 140 <= t.minConfidence
  BY DEF Demanding, Bolder
<1>13. Sureness(f, s, quality, other) >= u.minConfidence /\ Sureness(f, s, quality, other) # 0
  BY <1>4, <1>11, <1>12
<1>14. Direction(other, FALSE, u) =
         IF other >= u.long THEN "LONG" ELSE IF other <= -u.long THEN "SHORT" ELSE "NO_SIGNAL"
  BY DirectionIs
<1>15. Direction(other, FALSE, u) = direction
  <2>1. CASE direction = "LONG"
    <3>1. other >= u.long
      BY <1>6, <1>8, <2>1
    <3>2. QED
      BY <1>14, <2>1, <3>1
  <2>2. CASE direction = "SHORT"
    <3>1. other <= -u.long /\ ~(other >= u.long)
      BY <1>6, <1>8, <2>2
    <3>2. QED
      BY <1>14, <2>2, <3>1
  <2>3. QED
    BY <1>3, <2>1, <2>2
<1>16. (W # {}) = FALSE
  BY <1>5
<1>17. Counts(f, s, quality, other, W, u)
  BY <1>3, <1>13, <1>15, <1>16 DEF Counts
<1>18. Decided(f, s, quality, other, W, u).direction = direction
  BY <1>15, <1>16, <1>17, DecisionIs
<1>19. QED
  BY <1>2, <1>18 DEF W, direction, Decision

\* Theorem: for any features, context, horizon and quality of the data, a market
\* and its mirror get opposite directions with one confidence but where volume
\* is abnormally low; a direction has a trend of the profile's strength behind it
\* and no momentum against it, and the next bolder profile gives it too.
THEOREM DirectionsEven ==
  ASSUME NEW f \in FeatureSets, NEW context \in SignalContexts, NEW horizon \in {"5m", "10m"},
         NEW quality \in {"ok", "stale", "insufficient"}
  PROVE  DirectionsAreEven(f, quality, context, horizon)
<1> DEFINE s == Modules(f)
           signal(profile) == EvaluateConfluence(f, quality, context, {}, Profiles[profile][horizon])
           mirrored(profile) == EvaluateConfluence(Mirror(f), quality, MirrorContext(context), {},
                                                   Profiles[profile][horizon])
           opposite == [LONG |-> "SHORT", SHORT |-> "LONG", NO_SIGNAL |-> "NO_SIGNAL"]
           bolder == [conservative |-> "balanced", balanced |-> "aggressive"]
           Way(direction) == CASE direction = "LONG" -> 1 [] direction = "SHORT" -> -1 [] OTHER -> 0
<1>1. Mirrored(f, Mirror(f))
  BY MirrorIs
<1>2. /\ s \in ScoreSets /\ s.trend = TrendScore(f) /\ s.momentum = MomentumScore(f)
      /\ ~(f.abnormal /\ f.z < 0) => Turned(s, Modules(Mirror(f)))
  BY <1>1, ScoresAre
<1>3. DOMAIN Profiles = {"balanced", "conservative", "aggressive"}
  BY ProfilesAre
<1>4. \A profile \in DOMAIN Profiles : Demanding(Profiles[profile][horizon])
  BY <1>3, ProfilesAre
<1>5. \A profile \in DOMAIN bolder : Bolder(Profiles[profile][horizon], Profiles[bolder[profile]][horizon])
  BY ProfilesAre
<1>6. \A profile \in DOMAIN Profiles : signal(profile) =
        Decision(f, s, quality, context, Profiles[profile][horizon])
  BY EvaluationIs
<1>7. \A profile \in DOMAIN Profiles :
        mirrored(profile) = Decision(Mirror(f), Modules(Mirror(f)), quality, MirrorContext(context),
                                     Profiles[profile][horizon])
  BY EvaluationIs
<1>8. DOMAIN bolder \subseteq DOMAIN Profiles
        /\ \A profile \in DOMAIN bolder : bolder[profile] \in DOMAIN Profiles
  BY <1>3
<1> HIDE DEF s, signal, mirrored
<1>9. SUFFICES ASSUME NEW profile \in DOMAIN Profiles
               PROVE  /\ ~(f.abnormal /\ f.z < 0) =>
                           /\ mirrored(profile).direction = opposite[signal(profile).direction]
                           /\ mirrored(profile).confidence = signal(profile).confidence
                      /\ Way(signal(profile).direction) # 0 =>
                           /\ Way(signal(profile).direction) * TrendScore(f) >= Profiles[profile][horizon].minTrend
                           /\ Way(signal(profile).direction) * MomentumScore(f) >= 0
                           /\ profile \in DOMAIN bolder =>
                                signal(bolder[profile]).direction = signal(profile).direction
  BY DEF DirectionsAreEven, signal, mirrored
<1>10. PICK t : t = Profiles[profile][horizon]
  OBVIOUS
<1>11. Demanding(t)
  BY <1>4, <1>10
<1>12. signal(profile) = Decision(f, s, quality, context, t)
  BY <1>6, <1>10
<1>13. Decision(f, s, quality, context, t).direction \in {"LONG", "SHORT", "NO_SIGNAL"}
  BY <1>2, <1>11, DirectionIsUnvetoed
<1>14. PICK direction \in {"LONG", "SHORT", "NO_SIGNAL"} : direction = signal(profile).direction
  BY <1>12, <1>13
<1>15. ASSUME ~(f.abnormal /\ f.z < 0)
       PROVE  /\ mirrored(profile).direction = opposite[direction]
              /\ mirrored(profile).confidence = signal(profile).confidence
  <2>1. Turned(s, Modules(Mirror(f)))
    BY <1>2, <1>15
  <2>2. /\ direction = "LONG" => mirrored(profile).direction = "SHORT"
        /\ direction = "SHORT" => mirrored(profile).direction = "LONG"
        /\ direction = "NO_SIGNAL" => mirrored(profile).direction = "NO_SIGNAL"
        /\ mirrored(profile).confidence = signal(profile).confidence
    BY <1>1, <1>2, <1>6, <1>7, <1>10, <1>11, <1>14, <2>1, DecisionIsOdd
  <2>3. QED
    BY <2>2
<1>16. PICK trend \in Int, momentum \in Int : trend = TrendScore(f) /\ momentum = MomentumScore(f)
  BY <1>2, ScoresInParts
<1>17. /\ direction = "LONG" => trend >= t.minTrend /\ momentum >= 0
       /\ direction = "SHORT" => -trend >= t.minTrend /\ momentum <= 0
  <2>1. /\ Decision(f, s, quality, context, t).direction = "LONG" => s.trend >= t.minTrend
             /\ s.momentum >= 0
        /\ Decision(f, s, quality, context, t).direction = "SHORT" => -s.trend >= t.minTrend
             /\ s.momentum <= 0
    BY <1>2, <1>11, DecisionIsBacked
  <2>2. QED
    BY <1>2, <1>14, <1>16, <1>12, <2>1
<1>18. Way(direction) # 0 =>
         Way(direction) * trend >= t.minTrend /\ Way(direction) * momentum >= 0
  <2>1. CASE direction = "LONG"
    BY <1>17, <2>1
  <2>2. CASE direction = "SHORT"
    <3>1. Way(direction) = -1
      BY <2>2
    <3>2. (-1) * trend = -trend /\ (-1) * momentum = -momentum
      OBVIOUS
    <3>3. QED
      BY <1>17, <2>2, <3>1, <3>2
  <2>3. CASE direction = "NO_SIGNAL"
    BY <2>3
  <2>4. QED
    BY <2>1, <2>2, <2>3
<1>19. ASSUME direction # "NO_SIGNAL", profile \in DOMAIN bolder
       PROVE  signal(bolder[profile]).direction = direction
  <2>1. PICK u : u = Profiles[bolder[profile]][horizon]
    OBVIOUS
  <2>2. Demanding(u) /\ Bolder(t, u)
    BY <1>4, <1>5, <1>8, <1>10, <1>19, <2>1
  <2>3. signal(bolder[profile]) = Decision(f, s, quality, context, u)
    BY <1>6, <1>8, <1>19, <2>1
  <2>4. Decision(f, s, quality, context, t).direction = direction
    BY <1>6, <1>10, <1>14
  <2>5. QED
    BY <1>2, <1>11, <1>19, <2>2, <2>3, <2>4, DecisionIsKeptByBolder
<1>20. Way(direction) # 0 => direction # "NO_SIGNAL"
  OBVIOUS
<1>21. QED
  BY <1>10, <1>14, <1>15, <1>16, <1>18, <1>19, <1>20

-----------------------------------------------------------------------------
(* Directions.                                                               *)
\* The last elements of a list.
LEMMA LastNIs ==
  ASSUME NEW S, NEW list \in Seq(S), NEW n \in Nat \ {0}
  PROVE  /\ LastN(list, n) \in Seq(S)
         /\ Len(LastN(list, n)) = (IF Len(list) <= n THEN Len(list) ELSE n)
         /\ \A k \in 1 .. Len(LastN(list, n)) :
              LastN(list, n)[k] = list[Len(list) - Len(LastN(list, n)) + k]
<1>1. PICK N \in Nat : N = Len(list)
  OBVIOUS
<1>2. PICK m \in Int : m = Max({1, N - n + 1}) /\ m = (IF N <= n THEN 1 ELSE N - n + 1)
  <2>1. N - n + 1 \in Int
    OBVIOUS
  <2>2. Max({1, N - n + 1}) = IF 1 >= N - n + 1 THEN 1 ELSE N - n + 1
    BY <2>1, MaxOfTwo
  <2>3. Max({1, N - n + 1}) = (IF N <= n THEN 1 ELSE N - n + 1)
    BY <2>2
  <2>4. (IF N <= n THEN 1 ELSE N - n + 1) \in Int
    OBVIOUS
  <2>5. QED
    BY <2>3, <2>4
<1>3. m \in Nat \ {0} /\ m <= N + 1
  BY <1>2
<1>4. LastN(list, n) = SubSeq(list, m, N)
  BY <1>1, <1>2 DEF LastN
<1>5. \A i \in m .. N : list[i] \in S
  BY <1>1, <1>3
<1>6. /\ SubSeq(list, m, N) \in Seq(S)
      /\ Len(SubSeq(list, m, N)) = (IF m <= N THEN N - m + 1 ELSE 0)
      /\ \A i \in 1 .. N - m + 1 : SubSeq(list, m, N)[i] = list[m + i - 1]
  BY <1>5, SubSeqProperties
<1>7. PICK len \in Nat : len = Len(LastN(list, n)) /\ len = N - m + 1
  BY <1>3, <1>4, <1>6
<1>8. len = IF N <= n THEN N ELSE n
  BY <1>2, <1>7
<1>9. \A k \in 1 .. len : LastN(list, n)[k] = list[N - len + k]
  <2>1. ASSUME NEW k \in 1 .. len PROVE LastN(list, n)[k] = list[N - len + k]
    <3>1. k \in 1 .. N - m + 1 /\ m + k - 1 = N - len + k
      BY <1>7
    <3>2. QED
      BY <1>4, <1>6, <3>1
  <2>2. QED
    BY <2>1
<1>10. QED
  BY <1>1, <1>4, <1>6, <1>7, <1>8, <1>9

\* A direction is given where nothing failed, and no confidence without one.
LEMMA ConfluenceIsUnvetoed ==
  ASSUME NEW f, NEW quality, NEW context, NEW failures, NEW t
  PROVE  LET said == EvaluateConfluence(f, quality, context, failures, t) IN
         /\ said.direction # "NO_SIGNAL" => failures = {}
         /\ said.direction = "NO_SIGNAL" => said.confidence = 0
<1>1. PICK s : s = Modules(f)
  OBVIOUS
<1>2. PICK total : total = TotalScore(s, context, t)
  OBVIOUS
<1>3. PICK vetoes : vetoes = AllVetoes(f, s, quality, context, failures, t)
  OBVIOUS
<1>4. EvaluateConfluence(f, quality, context, failures, t) = Decided(f, s, quality, total, vetoes, t)
  BY <1>1, <1>2, <1>3 DEF EvaluateConfluence
<1>5. failures \subseteq vetoes
  BY <1>3 DEF AllVetoes
<1>6. Direction(total, vetoes # {}, t) # "NO_SIGNAL" => vetoes = {}
  BY DEF Direction
<1>7. CASE Counts(f, s, quality, total, vetoes, t)
  <2>1. Decided(f, s, quality, total, vetoes, t).direction = Direction(total, vetoes # {}, t)
    BY <1>7, DecisionIs
  <2>2. Direction(total, vetoes # {}, t) # "NO_SIGNAL"
    BY <1>7 DEF Counts
  <2>3. QED
    BY <1>4, <1>5, <1>6, <2>1, <2>2
<1>8. CASE ~Counts(f, s, quality, total, vetoes, t)
  BY <1>4, <1>8, DecisionIs
<1>9. QED
  BY <1>7, <1>8

-----------------------------------------------------------------------------
(* Consoles.                                                                 *)
CandleRecords == [time : Nat, close : Int, high : Int, low : Int, volume : Int]

\* A source that is as old as its candles: it says nothing of its age, or no less
\* than what the last candle's open implies.
IsTimedSource(source, now) ==
  /\ source.candles \in Seq(CandleRecords)
  /\ source.freshness.maxAge = 3 /\ source.freshness.age \in Int
  /\ source.freshness.age # Null => source.freshness.age >= now - LatestTime(source.candles) - 1

LEMMA SourceQuality ==
  ASSUME NEW now \in Int, NEW source, IsTimedSource(source, now),
         AssessDataQuality(source, now) = "ok"
  PROVE  /\ Len(source.candles) >= RequiredCandles
         /\ LatestTime(source.candles) = source.candles[Len(source.candles)].time
         /\ LatestTime(source.candles) \in Nat
         /\ now - LatestTime(source.candles) <= 4
<1>1. PICK candles \in Seq(CandleRecords) : candles = source.candles
  BY DEF IsTimedSource
<1>2. Len(candles) >= RequiredCandles
  BY <1>1 DEF AssessDataQuality, RequiredCandles
<1>3. Len(candles) \in 1 .. Len(candles) /\ candles # <<>>
  BY <1>2 DEF RequiredCandles
<1>4. candles[Len(candles)] \in CandleRecords
  BY <1>3
<1>5. PICK latest \in Nat : latest = candles[Len(candles)].time
  BY <1>4 DEF CandleRecords
<1>6. LatestTime(candles) = latest
  BY <1>3, <1>5 DEF LatestTime, Last
<1>7. PICK age : age = FirstNumber(source.freshness.age, now - LatestTime(source.candles))
  OBVIOUS
<1>8. ~(age > 3)
  BY <1>1, <1>2, <1>7 DEF AssessDataQuality, IsTimedSource
<1>9. age \in Int /\ age >= now - latest - 1
  BY <1>1, <1>6, <1>7 DEF IsTimedSource, FirstNumber
<1>10. now - latest <= 4
  BY <1>8, <1>9
<1>11. QED
  BY <1>1, <1>2, <1>5, <1>6, <1>10

\* Theorem: a console says which way only of fresh and whole data, of a source
\* without failures, while its window is open.
THEOREM ConsoleClosed ==
  ASSUME NEW now \in Int, NEW in, IsTimedSource(in.source, now), NEW wanted
  PROVE  ConsoleFailsClosed(in.source.failures, BuildConsoleResponse(in, wanted, now), now)
<1>1. PICK candles \in Seq(CandleRecords) : candles = in.source.candles
  BY DEF IsTimedSource
<1>2. PICK signal : signal = BuildResearchSignal(in.ask, in.source, now)
  OBVIOUS
<1>3. PICK window : window = BuildEventWindow(in.mode, signal, candles, in.price)
  OBVIOUS
<1>4. PICK console : console = BuildConsoleResponse(in, wanted, now)
  OBVIOUS
<1>5. /\ console.signal = signal
      /\ console.candidate = BuildObservationCandidate(signal, window, now)
      /\ console.recentCandles = LastN(candles, 60)
  BY <1>1, <1>2, <1>3, <1>4 DEF BuildConsoleResponse, ConsoleWith
<1>6. /\ console.candidate.canObserve = window.canObserve
      /\ console.candidate.resolveAt = window.end /\ console.candidate.entryPrice = window.reference
  BY <1>5 DEF BuildObservationCandidate
<1>7. PICK quality : quality = AssessDataQuality(in.source, now)
  OBVIOUS
<1>8. signal.quality = quality
  BY <1>2, <1>7 DEF BuildResearchSignal, ResearchSignal, SourceFeatures, SourceFailures
<1>9. /\ signal.direction # "NO_SIGNAL" => in.source.failures = {} /\ quality = "ok"
      /\ signal.direction = "NO_SIGNAL" => signal.confidence = 0
  <2> DEFINE features == IF Len(in.source.candles) >= RequiredCandles
                         THEN FeatureSnapshot(in.source.candles) ELSE EmptyFeatures
             failures == in.source.failures \cup ({quality} \ {"ok"})
                           \cup (IF in.ask.context.eventRisk THEN {"event"} ELSE {})
             said == EvaluateConfluence(features, quality, in.ask.context, failures,
                                        Profiles[in.ask.profile][in.ask.horizon])
  <2>1. signal.direction = said.direction /\ signal.confidence = said.confidence
    BY <1>2, <1>7 DEF BuildResearchSignal, ResearchSignal, SourceFeatures, SourceFailures
  <2> HIDE DEF features
  <2>2. /\ said.direction # "NO_SIGNAL" => failures = {}
        /\ said.direction = "NO_SIGNAL" => said.confidence = 0
    <3> HIDE DEF failures
    <3>1. QED
      BY ConfluenceIsUnvetoed
  <2> HIDE DEF said
  <2>3. failures = {} => in.source.failures = {} /\ quality = "ok"
    OBVIOUS
  <2>4. QED
    BY <2>1, <2>2, <2>3
<1>10. quality \in {"ok", "stale", "insufficient"}
  BY <1>7 DEF AssessDataQuality
<1>11. CASE quality # "ok"
  <2>1. window.canObserve = FALSE
    BY <1>3, <1>8, <1>11 DEF BuildEventWindow
  <2>2. QED
    BY <1>4, <1>5, <1>6, <1>9, <1>11, <2>1 DEF ConsoleFailsClosed
<1>12. CASE quality = "ok"
  <2>1. PICK latest \in Nat : latest = LatestTime(candles)
    BY <1>1, <1>7, <1>12, SourceQuality
  <2>2. /\ Len(candles) >= RequiredCandles /\ latest = candles[Len(candles)].time
        /\ now - latest <= 4
    BY <1>1, <1>7, <1>12, <2>1, SourceQuality
  <2>3. latest # Null
    BY <2>1 DEF Null
  <2>4. /\ window.canObserve = TRUE /\ window.end = latest + Steps(signal.horizon)
        /\ window.reference = Last(candles).close
    BY <1>3, <1>8, <1>12, <2>1, <2>3 DEF BuildEventWindow
  <2>5. window.end > now
    BY <2>2, <2>4 DEF Steps
  <2>6. PICK recent \in Seq(CandleRecords) : recent = LastN(candles, 60)
    BY LastNIs
  <2>7. Len(recent) >= RequiredCandles /\ recent # <<>> /\ recent[Len(recent)] = candles[Len(candles)]
    <3>1. PICK n \in Nat : n = Len(recent) /\ n = (IF Len(candles) <= 60 THEN Len(candles) ELSE 60)
      BY <2>6, LastNIs
    <3>2. n >= RequiredCandles /\ n \in 1 .. n
      BY <2>2, <3>1 DEF RequiredCandles
    <3>3. recent[n] = candles[Len(candles) - n + n]
      BY <2>6, <3>1, <3>2, LastNIs
    <3>4. recent[n] = candles[Len(candles)]
      BY <3>1, <3>3
    <3>5. recent # <<>>
      <4>1. Len(recent) # 0
        BY <3>1, <3>2
      <4>2. Len(<<>>) = 0
        OBVIOUS
      <4>3. QED
        BY <4>1, <4>2, Zenon
    <3>6. QED
      BY <3>1, <3>2, <3>4, <3>5
  <2>8. Last(recent).close = Last(candles).close /\ LatestTime(recent) = latest
    BY <2>2, <2>7 DEF Last, LatestTime
  <2>9. QED
    BY <1>4, <1>5, <1>6, <1>9, <2>2, <2>4, <2>5, <2>6, <2>7, <2>8 DEF ConsoleFailsClosed
<1>13. QED
  BY <1>11, <1>12

\* Theorem: an asset whose source throws closes its own signal and no other.
THEOREM FailuresApart ==
  ASSUME NEW ask, NEW fetched, fetched.kind # "exception", NEW now
  PROVE  FailuresStayApart(ask, fetched, now)
<1>1. PICK broken : broken = [kind |-> "exception"]
  OBVIOUS
<1> DEFINE Of(btc) == ListLiveResearchSignals({"BTC", "ETH"}, {ask.horizon}, ask.profile,
                                              [BTC |-> btc, ETH |-> fetched], now)
           a == [horizon |-> ask.horizon, profile |-> ask.profile, context |-> NoContext]
<1>2. ASSUME NEW btc, NEW s \in {"BTC", "ETH"}
      PROVE  Of(btc)[<<s, ask.horizon>>] =
               BuildResearchSignal(a, IF [BTC |-> btc, ETH |-> fetched][s].kind = "exception"
                                      THEN FailedSource("adapter")
                                      ELSE [BTC |-> btc, ETH |-> fetched][s].source, now)
  <2>1. <<s, ask.horizon>> \in {"BTC", "ETH"} \X {ask.horizon}
    OBVIOUS
  <2>2. QED
    BY <2>1 DEF ListLiveResearchSignals
<1>3. Of(broken)[<<"BTC", ask.horizon>>] = BuildResearchSignal(a, FailedSource("adapter"), now)
  <2> HIDE DEF Of, a
  <2>1. [BTC |-> broken, ETH |-> fetched]["BTC"].kind = "exception"
    BY <1>1
  <2>2. QED
    BY <1>2, <2>1
<1>4. Of(broken)[<<"ETH", ask.horizon>>] = BuildResearchSignal(a, fetched.source, now)
  <2> HIDE DEF Of, a
  <2>1. [BTC |-> broken, ETH |-> fetched]["ETH"] = fetched
    OBVIOUS
  <2>2. QED
    BY <1>2, <2>1
<1>5. Of(fetched)[<<"BTC", ask.horizon>>] = BuildResearchSignal(a, fetched.source, now)
  <2> HIDE DEF Of, a
  <2>1. [BTC |-> fetched, ETH |-> fetched]["BTC"] = fetched
    OBVIOUS
  <2>2. QED
    BY <1>2, <2>1
<1>6. BuildResearchSignal(a, FailedSource("adapter"), now).direction = "NO_SIGNAL"
  <2>1. PICK source : source = FailedSource("adapter")
    OBVIOUS
  <2>2. source.failures = {"adapter"}
    BY <2>1 DEF FailedSource
  <2>3. PICK quality : quality = AssessDataQuality(source, now)
    OBVIOUS
  <2> DEFINE features == IF Len(source.candles) >= RequiredCandles
                         THEN FeatureSnapshot(source.candles) ELSE EmptyFeatures
             failures == source.failures \cup ({quality} \ {"ok"})
                           \cup (IF a.context.eventRisk THEN {"event"} ELSE {})
             said == EvaluateConfluence(features, quality, a.context, failures,
                                        Profiles[a.profile][a.horizon])
  <2>4. BuildResearchSignal(a, source, now).direction = said.direction
    BY <2>3 DEF BuildResearchSignal, ResearchSignal, SourceFeatures, SourceFailures
  <2>5. failures # {}
    BY <2>2
  <2> HIDE DEF features, failures
  <2>6. said.direction = "NO_SIGNAL"
    BY <2>5, ConfluenceIsUnvetoed
  <2>7. QED
    BY <2>1, <2>4, <2>6
<1> HIDE DEF a
<1>7. PICK l : l = [btc \in {broken, fetched} |-> Of(btc)]
  OBVIOUS
<1>8. l[broken] = Of(broken) /\ l[fetched] = Of(fetched)
  BY <1>7
<1>9. /\ l[broken][<<"BTC", ask.horizon>>].direction = "NO_SIGNAL"
      /\ l[broken][<<"ETH", ask.horizon>>] = l[fetched][<<"BTC", ask.horizon>>]
  <2> HIDE DEF Of
  <2>1. QED
    BY <1>3, <1>4, <1>5, <1>6, <1>8
<1>10. QED
  BY <1>1, <1>7, <1>9, Zenon DEF FailuresStayApart

-----------------------------------------------------------------------------
(* Backtests.                                                                *)
\* A price is no more than doubled.
SampleRecords ==
  {s \in [entry : Int, outcome : Int, entryPrice : Nat \ {0}, outcomePrice : Nat,
          candles : Seq(CandleRecords)] : s.outcomePrice <= 2 * s.entryPrice}

\* The equity, its peak and the deepest it fell below.
Equities ==
  {x \in [equity : Nat, peak : Nat \ {0}, drawdown : 0 .. One] : x.equity <= x.peak}

LEMMA PartOfOne ==
  ASSUME NEW p \in Nat \ {0}, NEW a \in 0 .. p
  PROVE  (a * One) \div p \in 0 .. One
<1>1. PICK d \in Nat : d = a * One
  BY DEF One
<1>2. d <= One * p
  <2>1. a * One <= p * One
    BY DEF One
  <2>2. QED
    BY <1>1, <2>1 DEF One
<1>3. PICK q \in Int : q = d \div p
  OBVIOUS
<1>4. p * q <= d /\ d < p * (q + 1)
  BY <1>3
<1>5. q >= 0
  BY <1>4
<1>6. q <= One
  <2>1. SUFFICES ASSUME q >= One + 1 PROVE FALSE
    BY DEF One
  <2>2. p * q >= p * (One + 1)
    BY <2>1 DEF One
  <2>3. QED
    BY <1>2, <1>4, <2>2 DEF One
<1>7. QED
  BY <1>1, <1>3, <1>5, <1>6 DEF One

LEMMA AfterReturnIs ==
  ASSUME NEW x \in Equities, NEW r \in Int, r >= -One
  PROVE  AfterReturn(x, r) \in Equities
<1>1. x.equity \in Nat /\ x.peak \in Nat \ {0} /\ x.drawdown \in 0 .. One
  BY DEF Equities
<1>2. PICK gain \in Nat : gain = One + r
  BY DEF One
<1>3. PICK worth \in Nat : worth = x.equity * gain
  BY <1>1
<1>4. PICK equity \in Nat : equity = worth \div One
  BY DEF One
<1>5. PICK peak \in Nat \ {0} : peak = Greater(x.peak, equity) /\ equity <= peak
  BY <1>1 DEF Greater
<1>6. PICK fall \in 0 .. peak : fall = peak - equity
  BY <1>5
<1>7. PICK part \in 0 .. One : part = (fall * One) \div peak
  BY PartOfOne
<1>8. PICK drawdown \in 0 .. One : drawdown = Greater(x.drawdown, part)
  BY <1>1 DEF Greater
<1>9. AfterReturn(x, r) = [equity |-> equity, peak |-> peak, drawdown |-> drawdown]
  BY <1>2, <1>3, <1>4, <1>5, <1>6, <1>7, <1>8 DEF AfterReturn
<1>10. QED
  BY <1>5, <1>9 DEF Equities

Start == [equity |-> One, peak |-> One, drawdown |-> 0]
EquityStep(f, returns, n) == IF n = 0 THEN Start ELSE AfterReturn(f[n - 1], returns[n])
EquityBuilt(f, returns, N) == f = [n \in 0 .. N |-> EquityStep(f, returns, n)]

\* What is lost is a part of the whole.
LEMMA DrawdownIsPart ==
  ASSUME NEW returns \in Seq(Int), \A i \in 1 .. Len(returns) : returns[i] >= -One
  PROVE  DrawdownOfReturns(returns) \in 0 .. One
<1>1. PICK N \in Nat : N = Len(returns)
  OBVIOUS
<1>2. PICK step : step = [n \in 1 .. N |-> [x \in Equities |-> AfterReturn(x, returns[n])]]
  OBVIOUS
<1>3. ASSUME NEW n \in 1 .. N, NEW x \in Equities
      PROVE  step[n][x] = AfterReturn(x, returns[n]) /\ step[n][x] \in Equities
  <2>1. returns[n] \in Int /\ returns[n] >= -One
    BY <1>1
  <2>2. AfterReturn(x, returns[n]) \in Equities
    BY <2>1, AfterReturnIs
  <2>3. QED
    BY <1>2, <2>2
<1>4. Start \in Equities
  BY DEF Start, Equities, One
<1>5. PICK g : Recursion(g, N, Equities, Start, step)
  <2>1. \A n \in 1 .. N : \A x \in Equities : step[n][x] \in Equities
    BY <1>3
  <2>2. \E g : Recursion(g, N, Equities, Start, step)
    BY <1>4, <2>1, RecursionExists
  <2>3. QED
    BY <2>2
<1>6. ASSUME NEW n \in 1 .. N PROVE g[n] = AfterReturn(g[n - 1], returns[n])
  <2>1. n - 1 \in 0 .. N /\ g[n - 1] \in Equities
    BY <1>5 DEF Recursion
  <2>2. QED
    BY <1>3, <1>5, <2>1 DEF Recursion
<1>7. EquityBuilt(g, returns, N)
  <2>1. g = [n \in 0 .. N |-> g[n]]
    BY <1>5 DEF Recursion
  <2>2. ASSUME NEW n \in 0 .. N PROVE g[n] = EquityStep(g, returns, n)
    <3>1. CASE n = 0
      BY <1>5, <3>1 DEF EquityStep, Recursion
    <3>2. CASE n # 0
      <4>1. n \in 1 .. N
        BY <3>2
      <4>2. QED
        BY <1>6, <3>2, <4>1 DEF EquityStep
    <3>3. QED
      BY <3>1, <3>2
  <2>3. QED
    BY <2>1, <2>2 DEF EquityBuilt
<1>8. DrawdownOfReturns(returns) = (CHOOSE f : EquityBuilt(f, returns, Len(returns)))[Len(returns)].drawdown
  BY DEF DrawdownOfReturns, EquityBuilt, EquityStep, Start
<1>9. PICK f : f = CHOOSE h : EquityBuilt(h, returns, N)
  OBVIOUS
<1>10. EquityBuilt(f, returns, N)
  BY <1>7, <1>9
<1>11. \A n \in 0 .. N : f[n] = EquityStep(f, returns, n)
  BY <1>10 DEF EquityBuilt
<1>12. f[0] = Start /\ \A n \in 1 .. N : f[n] = AfterReturn(f[n - 1], returns[n])
  BY <1>11 DEF EquityStep
<1>13. PICK K : K = {n \in 0 .. N : f[n] \in Equities}
  OBVIOUS
<1>14. 0 \in K
  BY <1>4, <1>12, <1>13
<1>15. ASSUME NEW n \in 0 .. N - 1, n \in K PROVE n + 1 \in K
  <2>1. n + 1 \in 1 .. N /\ n + 1 \in 0 .. N /\ (n + 1) - 1 = n
    OBVIOUS
  <2>2. f[n + 1] = AfterReturn(f[n], returns[n + 1]) /\ f[n] \in Equities
    BY <1>12, <1>13, <1>15, <2>1
  <2>3. returns[n + 1] \in Int /\ returns[n + 1] >= -One
    BY <1>1, <2>1
  <2>4. f[n + 1] \in Equities
    BY <2>2, <2>3, AfterReturnIs
  <2>5. QED
    BY <1>13, <2>1, <2>4
<1>16. N \in K
  <2>1. 0 .. N \subseteq K
    BY <1>14, <1>15, CountUp
  <2>2. QED
    BY <2>1
<1>17. f[N].drawdown \in 0 .. One
  BY <1>13, <1>16 DEF Equities
<1>18. QED
  BY <1>1, <1>8, <1>9, <1>17

\* A price that is no more than doubled returns no more than all of it, and one
\* that falls loses no more.
LEMMA ReturnIsPart ==
  ASSUME NEW from \in Nat \ {0}, NEW to \in Nat, to <= 2 * from
  PROVE  Over((to - from) * One, from) \in -One .. One
<1>1. PICK n \in Int : n = (to - from) * One
  BY DEF One
<1>2. One \in Nat
  BY DEF One
<1>3. Over(n, from) = (IF n >= 0 THEN n \div from ELSE -((-n) \div from))
  BY OverIs
<1>4. CASE to >= from
  <2>1. PICK a \in 0 .. from : a = to - from
    BY <1>4
  <2>2. n = a * One /\ n >= 0
    BY <1>1, <2>1 DEF One
  <2>3. (a * One) \div from \in 0 .. One
    BY PartOfOne
  <2>4. QED
    BY <1>1, <1>2, <1>3, <2>2, <2>3
<1>5. CASE to < from
  <2>1. PICK a \in 1 .. from : a = from - to
    BY <1>5
  <2>2. -n = a * One /\ ~(n >= 0)
    BY <1>1, <2>1 DEF One
  <2>3. a \in 0 .. from
    OBVIOUS
  <2>4. (a * One) \div from \in 0 .. One
    BY <2>3, PartOfOne
  <2>5. QED
    BY <1>1, <1>2, <1>3, <2>2, <2>4
<1>6. QED
  BY <1>4, <1>5

\* What a backtest says but for the samples it rejects.
LEMMA RejectedAside ==
  ASSUME NEW accepted, NEW returns, NEW x, NEW y
  PROVE  [Backtest(accepted, returns, x, 2) EXCEPT !.rejected = 0]
           = [Backtest(accepted, returns, y, 2) EXCEPT !.rejected = 0]
<1> DEFINE rate == IF Len(returns) = 0 THEN Null
                   ELSE (Cardinality({i \in DOMAIN returns : returns[i] > 0}) * One) \div Len(returns)
           mean == IF Len(returns) = 0 THEN Null ELSE Over(Total(returns), Len(returns))
           fall == IF Len(returns) = 0 THEN Null ELSE DrawdownOfReturns(returns)
           first == IF accepted = <<>> THEN Null
                    ELSE Min({accepted[i].entry : i \in DOMAIN accepted})
           last == IF accepted = <<>> THEN Null
                   ELSE Max({accepted[i].outcome : i \in DOMAIN accepted})
           few == Len(accepted) < 2
           Of(r) == [sampleCount |-> Len(returns), rejected |-> r, winRate |-> rate,
                     avgReturn |-> mean, maxDrawdown |-> fall, start |-> first, end |-> last,
                     tooFew |-> few]
<1>1. Backtest(accepted, returns, x, 2) = Of(x)
  BY Zenon DEF Backtest
<1>2. Backtest(accepted, returns, y, 2) = Of(y)
  BY Zenon DEF Backtest
<1>3. [Of(x) EXCEPT !.rejected = 0] = [Of(y) EXCEPT !.rejected = 0]
  <2> HIDE DEF rate, mean, fall, first, last, few
  <2>1. PICK f : f = few
    OBVIOUS
  <2>2. QED
    BY <2>1
<1>4. QED
  BY <1>1, <1>2, <1>3, Zenon

LEMMA ReturnsAreParts ==
  ASSUME NEW accepted \in Seq(SampleRecords)
  PROVE  /\ DirectionReturns(accepted) \in Seq(Int)
         /\ \A i \in 1 .. Len(DirectionReturns(accepted)) : DirectionReturns(accepted)[i] >= -One
         /\ accepted = <<>> => Len(DirectionReturns(accepted)) = 0
<1>1. PICK N \in Nat : N = Len(accepted)
  OBVIOUS
<1>2. PICK all : all = [i \in 1 .. N |-> DirectionReturn(accepted[i])]
  OBVIOUS
<1>3. ASSUME NEW s \in SampleRecords
      PROVE  DirectionReturn(s) \in (-One .. One) \cup {Null}
  <2>1. s.entryPrice \in Nat \ {0} /\ s.outcomePrice \in Nat /\ s.outcomePrice <= 2 * s.entryPrice
    BY DEF SampleRecords
  <2>2. PICK raw \in -One .. One : raw = Over((s.outcomePrice - s.entryPrice) * One, s.entryPrice)
    BY <2>1, ReturnIsPart
  <2>3. -raw \in -One .. One
    BY DEF One
  <2>4. PICK signal : signal = BaselineSignal(s.candles, s.entry)
    OBVIOUS
  <2>5. CASE signal = "UP"
    <3>1. DirectionReturn(s) = raw
      BY <2>2, <2>4, <2>5, SMT DEF DirectionReturn
    <3>2. QED
      BY <3>1
  <2>6. CASE signal = "DOWN"
    <3>1. DirectionReturn(s) = -raw
      BY <2>2, <2>4, <2>6, SMT DEF DirectionReturn
    <3>2. QED
      BY <2>3, <3>1
  <2>7. CASE signal # "UP" /\ signal # "DOWN"
    <3>1. DirectionReturn(s) = Null
      BY <2>4, <2>7, SMT DEF DirectionReturn
    <3>2. QED
      BY <3>1
  <2>8. QED
    BY <2>5, <2>6, <2>7
<1>4. all \in Seq(Int) /\ Len(all) = N /\ \A i \in 1 .. N : all[i] \in (-One .. One) \cup {Null}
  <2>1. \A i \in 1 .. N : accepted[i] \in SampleRecords
    BY <1>1
  <2>2. \A i \in 1 .. N : all[i] \in (-One .. One) \cup {Null}
    BY <1>2, <1>3, <2>1
  <2>3. \A i \in 1 .. N : all[i] \in Int
    <3>1. One \in Int /\ Null \in Int
      BY SMT DEF One, Null
    <3>2. (-One .. One) \cup {Null} \subseteq Int
      BY <3>1
    <3>3. QED
      BY <2>2, <3>2
  <2>4. QED
    BY <1>2, <2>2, <2>3
<1>5. PICK P : P = {i \in DOMAIN all : all[i] # Null} /\ P \in SUBSET (1 .. Len(all))
  <2>1. {i \in DOMAIN all : all[i] # Null} \in SUBSET (1 .. Len(all))
    BY <1>4
  <2>2. QED
    BY <2>1
<1>6. DirectionReturns(accepted) = Kept(all, P)
  <2>1. all = [i \in DOMAIN accepted |-> DirectionReturn(accepted[i])]
    BY <1>1, <1>2
  <2>2. QED
    BY <1>5, <2>1 DEF DirectionReturns
<1>7. PICK list : list = Kept(all, P)
  OBVIOUS
<1>8. /\ list \in Seq(Int)
      /\ \A k \in 1 .. Len(list) : \E i \in P : list[k] = all[i]
      /\ P = {} => Len(list) = 0
  <2>1. /\ Kept(all, P) \in Seq(Int)
        /\ \A k \in 1 .. Len(Kept(all, P)) : \E i \in P : Kept(all, P)[k] = all[i]
        /\ Kept(all, P) = <<>> <=> P = {}
    <3>1. P \in SUBSET (1 .. Len(all)) /\ all \in Seq(Int)
      BY <1>4, <1>5
    <3>2. QED
      BY <3>1, KeptElements
  <2>2. Len(<<>>) = 0
    OBVIOUS
  <2>3. QED
    BY <1>7, <2>1, <2>2, Zenon
<1>9. \A k \in 1 .. Len(list) : list[k] >= -One
  <2>1. \A i \in P : all[i] \in -One .. One
    BY <1>4, <1>5
  <2>2. \A i \in P : all[i] >= -One
    <3>1. One \in Int
      BY DEF One
    <3>2. QED
      BY <2>1, <3>1
  <2>3. QED
    BY <1>8, <2>2
<1>10. accepted = <<>> => Len(list) = 0
  <2>1. ASSUME accepted = <<>> PROVE Len(list) = 0
    <3>1. N = 0
      BY <1>1, <2>1
    <3>2. P = {}
      BY <1>4, <1>5, <3>1
    <3>3. QED
      BY <1>8, <3>2
  <2>2. QED
    BY <2>1
<1>11. QED
  BY <1>6, <1>7, <1>8, <1>9, <1>10

\* The samples that are not rejected.
LEMMA AcceptedLookBack ==
  ASSUME NEW s \in SampleRecords, ~SampleIsRejected(s)
  PROVE  s.candles = UpTo(s.candles, s.entry) /\ s.entry < s.outcome
<1>1. PICK candles \in Seq(CandleRecords) : candles = s.candles
  BY DEF SampleRecords
<1>2. s.entry \in Int /\ s.outcome \in Int
  BY DEF SampleRecords
<1>3. s.entry < s.outcome /\ \A i \in 1 .. Len(candles) : ~(candles[i].time > s.entry)
  BY <1>1, <1>2 DEF SampleIsRejected
<1>4. \A i \in 1 .. Len(candles) : candles[i].time <= s.entry
  <2>1. \A i \in 1 .. Len(candles) : candles[i] \in CandleRecords
    OBVIOUS
  <2>2. \A i \in 1 .. Len(candles) : candles[i].time \in Nat
    BY <2>1 DEF CandleRecords
  <2>3. QED
    BY <1>2, <1>3, <2>2
<1>5. {i \in DOMAIN candles : candles[i].time <= s.entry} = 1 .. Len(candles)
  BY <1>4
<1>6. UpTo(candles, s.entry) = Kept(candles, 1 .. Len(candles))
  BY <1>5 DEF UpTo
<1>7. QED
  BY <1>1, <1>3, <1>6, KeptWhole

\* Theorem: a backtest counts the samples it does not reject, each by the candles
\* up to its entry, over the time they cover, and loses no more than all.
THEOREM BacktestSound ==
  ASSUME NEW samples \in Seq(SampleRecords)
  PROVE  BacktestIsHonest(samples)
<1>1. PICK P : /\ P = {i \in DOMAIN samples :
                         samples[i].candles = UpTo(samples[i].candles, samples[i].entry)}
               /\ P \in SUBSET (1 .. Len(samples))
  <2>1. {i \in DOMAIN samples : samples[i].candles = UpTo(samples[i].candles, samples[i].entry)}
          \in SUBSET (1 .. Len(samples))
    OBVIOUS
  <2>2. QED
    BY <2>1
<1>2. PICK kept \in Seq(SampleRecords) : kept = Kept(samples, P)
  BY <1>1, KeptElements
<1>3. PICK V : V = {s \in SampleRecords : ~SampleIsRejected(s)}
  OBVIOUS
<1>4. PICK Q : Q = {i \in DOMAIN samples : ~SampleIsRejected(samples[i])} /\ Q \in SUBSET (1 .. Len(samples))
  <2>1. {i \in DOMAIN samples : ~SampleIsRejected(samples[i])} \in SUBSET (1 .. Len(samples))
    OBVIOUS
  <2>2. QED
    BY <2>1
<1>5. PICK R : R = {i \in DOMAIN kept : ~SampleIsRejected(kept[i])} /\ R \in SUBSET (1 .. Len(kept))
  <2>1. {i \in DOMAIN kept : ~SampleIsRejected(kept[i])} \in SUBSET (1 .. Len(kept))
    OBVIOUS
  <2>2. QED
    BY <2>1
<1>6. PICK accepted \in Seq(SampleRecords) : accepted = Kept(samples, Q)
  BY <1>4, KeptElements
<1>7. accepted = Kept(kept, R)
  <2>1. \A i \in 1 .. Len(samples) : samples[i] \in SampleRecords
    OBVIOUS
  <2>2. \A i \in 1 .. Len(kept) : kept[i] \in SampleRecords
    OBVIOUS
  <2>3. Q = {i \in P : samples[i] \in V}
    <3>1. \A i \in Q : i \in P
      BY <1>1, <1>4, <2>1, AcceptedLookBack
    <3>2. QED
      BY <1>1, <1>3, <1>4, <2>1, <3>1
  <2>4. R = {k \in 1 .. Len(kept) : kept[k] \in V}
    BY <1>3, <1>5, <2>2
  <2>5. P \in SUBSET (1 .. Len(samples))
    BY <1>1
  <2>6. Kept(kept, R) = Kept(samples, Q)
    <3>1. Selects(Q, samples, P, V) /\ Selects(R, kept, 1 .. Len(kept), V)
      BY <2>3, <2>4 DEF Selects
    <3>2. QED
      BY <1>2, <2>5, <3>1, KeptOfKept
  <2>7. QED
    BY <1>6, <2>6
<1>8. PICK returns \in Seq(Int) : returns = DirectionReturns(accepted)
  BY ReturnsAreParts
<1>9. /\ \A i \in 1 .. Len(returns) : returns[i] >= -One
      /\ accepted = <<>> => Len(returns) = 0
  BY <1>8, ReturnsAreParts
<1>10. RunResearchBacktest(samples, 2) = Backtest(accepted, returns, Len(samples) - Len(accepted), 2)
  BY <1>4, <1>6, <1>8 DEF RunResearchBacktest
<1>11. RunResearchBacktest(kept, 2) = Backtest(accepted, returns, Len(kept) - Len(accepted), 2)
  BY <1>5, <1>7, <1>8 DEF RunResearchBacktest
<1>12. PICK result : result = RunResearchBacktest(samples, 2)
  OBVIOUS
<1>13. [RunResearchBacktest(kept, 2) EXCEPT !.rejected = 0] = [result EXCEPT !.rejected = 0]
  <2>1. PICK x : x = Len(samples) - Len(accepted)
    OBVIOUS
  <2>2. PICK y : y = Len(kept) - Len(accepted)
    OBVIOUS
  <2>3. [Backtest(accepted, returns, y, 2) EXCEPT !.rejected = 0]
          = [Backtest(accepted, returns, x, 2) EXCEPT !.rejected = 0]
    BY RejectedAside
  <2>4. QED
    BY <1>10, <1>11, <1>12, <2>1, <2>2, <2>3, Zenon
<1>14. PICK n \in Nat : n = Len(returns)
  OBVIOUS
<1>15. /\ result.sampleCount = n
       /\ n = 0 => result.winRate = Null
       /\ n > 0 =>
            /\ result.winRate = (Cardinality({i \in DOMAIN returns : returns[i] > 0}) * One) \div n
            /\ result.maxDrawdown = DrawdownOfReturns(returns)
       /\ accepted # <<>> =>
            /\ result.start = Min({accepted[i].entry : i \in DOMAIN accepted})
            /\ result.end = Max({accepted[i].outcome : i \in DOMAIN accepted})
  BY <1>10, <1>12, <1>14 DEF Backtest
<1>16. n > 0 => result.winRate # Null
  <2>1. IsFiniteSet({i \in DOMAIN returns : returns[i] > 0})
    <3>1. IsFiniteSet(1 .. n)
      BY FS_Interval
    <3>2. {i \in DOMAIN returns : returns[i] > 0} \in SUBSET (1 .. n)
      BY <1>14
    <3>3. QED
      BY <3>1, <3>2, FS_Subset
  <2>2. PICK count \in Nat : count = Cardinality({i \in DOMAIN returns : returns[i] > 0})
    BY <2>1, FS_CardinalityType
  <2>3. PICK total \in Nat : total = count * One
    BY DEF One
  <2>4. n > 0 => total \div n >= 0
    <3>1. SUFFICES ASSUME n > 0 PROVE total \div n >= 0
      OBVIOUS
    <3>2. PICK m \in Nat \ {0} : m = n
      BY <3>1
    <3>3. total \div m \in Nat
      BY ShareIsNatural
    <3>4. QED
      BY <3>2, <3>3
  <2>5. QED
    BY <1>15, <2>2, <2>3, <2>4, SMT DEF Null
<1>17. n > 0 => result.maxDrawdown \in 0 .. One
  BY <1>9, <1>15, DrawdownIsPart
<1>18. n > 0 => result.start < result.end
  <2>1. SUFFICES ASSUME n > 0 PROVE result.start < result.end
    OBVIOUS
  <2>2. PICK m \in Nat \ {0} : m = Len(accepted)
    BY <1>9, <1>14, <2>1, EmptySeq
  <2>3. \A i \in 1 .. m : accepted[i].entry \in Int /\ accepted[i].outcome \in Int
    <3>1. \A i \in 1 .. m : accepted[i] \in SampleRecords
      BY <2>2
    <3>2. QED
      BY <3>1 DEF SampleRecords
  <2>4. \A i \in 1 .. m : accepted[i].entry < accepted[i].outcome
    <3>1. \A i \in Q : samples[i] \in SampleRecords /\ ~SampleIsRejected(samples[i])
      BY <1>4
    <3>2. \A i \in Q : samples[i].entry < samples[i].outcome
      BY <3>1, AcceptedLookBack
    <3>3. \A k \in 1 .. Len(accepted) : \E i \in Q : accepted[k] = samples[i]
      <4>1. \A k \in 1 .. Len(Kept(samples, Q)) : \E i \in Q : Kept(samples, Q)[k] = samples[i]
        <5>1. Q \in SUBSET (1 .. Len(samples))
          BY <1>4
        <5>2. QED
          BY <5>1, KeptElements
      <4>2. QED
        BY <1>6, <4>1, Zenon
    <3>4. QED
      BY <2>2, <3>2, <3>3
  <2>0. IsFiniteSet(1 .. m)
    BY FS_Interval
  <2>5. PICK A : A = {accepted[i].entry : i \in 1 .. m} /\ IsFiniteSet(A) /\ A \in SUBSET Int
    <3>1. PICK f : f = [i \in 1 .. m |-> accepted[i].entry]
      OBVIOUS
    <3>2. IsFiniteSet({f[i] : i \in 1 .. m})
      BY <2>0, ImageIsFinite
    <3>3. {f[i] : i \in 1 .. m} = {accepted[i].entry : i \in 1 .. m}
      BY <3>1
    <3>4. {accepted[i].entry : i \in 1 .. m} \in SUBSET Int
      BY <2>3
    <3>5. QED
      BY <3>2, <3>3, <3>4
  <2>6. PICK B : B = {accepted[i].outcome : i \in 1 .. m} /\ IsFiniteSet(B) /\ B \in SUBSET Int
    <3>1. PICK f : f = [i \in 1 .. m |-> accepted[i].outcome]
      OBVIOUS
    <3>2. IsFiniteSet({f[i] : i \in 1 .. m})
      BY <2>0, ImageIsFinite
    <3>3. {f[i] : i \in 1 .. m} = {accepted[i].outcome : i \in 1 .. m}
      BY <3>1
    <3>4. {accepted[i].outcome : i \in 1 .. m} \in SUBSET Int
      BY <2>3
    <3>5. QED
      BY <3>2, <3>3, <3>4
  <2>7. 1 \in 1 .. m /\ accepted[1].entry \in A /\ accepted[1].outcome \in B
    BY <2>2, <2>5, <2>6
  <2>8. Min(A) \in Int /\ Min(A) <= accepted[1].entry
    BY <2>5, <2>7, LeastExists
  <2>9. Max(B) \in Int /\ accepted[1].outcome <= Max(B)
    BY <2>6, <2>7, GreatestExists
  <2>10. result.start = Min(A) /\ result.end = Max(B)
    <3>1. accepted # <<>>
      BY <1>9, <1>14, <2>1
    <3>2. DOMAIN accepted = 1 .. m
      BY <2>2
    <3>3. QED
      BY <1>15, <2>5, <2>6, <3>1, <3>2
  <2>11. QED
    BY <2>3, <2>4, <2>7, <2>8, <2>9, <2>10
<1>19. result.winRate = Null <=> result.sampleCount = 0
  BY <1>15, <1>16
<1>20. PICK r : r = [part \in {samples, kept} |-> RunResearchBacktest(part, 2)]
  OBVIOUS
<1>21. r[samples] = result /\ r[kept] = RunResearchBacktest(kept, 2)
  BY <1>12, <1>20
<1>22. /\ [r[kept] EXCEPT !.rejected = 0] = [r[samples] EXCEPT !.rejected = 0]
       /\ r[samples].winRate = Null <=> r[samples].sampleCount = 0
       /\ r[samples].sampleCount > 0 =>
            r[samples].start < r[samples].end /\ r[samples].maxDrawdown \in 0 .. One
  BY <1>13, <1>15, <1>17, <1>18, <1>19, <1>21
<1>23. QED
  BY <1>1, <1>2, <1>20, <1>22, Zenon DEF BacktestIsHonest

\* The elements of a set of numbers past one of them.
After(P, e) == {x \in P : x > e}

\* How many of an enumerated set come after one of its elements.
LEMMA CountAfter ==
  ASSUME NEW N \in Nat, NEW P \in SUBSET (1 .. N), NEW n \in Nat, NEW at, Enumerates(at, n, P),
         NEW j \in 1 .. n
  PROVE  Cardinality(After(P, at[j])) = n - j /\ IsFiniteSet(After(P, at[j]))
<1>1. /\ \A k \in 1 .. n : at[k] \in P /\ at[k] \in Int
      /\ \A i \in P : \E k \in 1 .. n : at[k] = i
      /\ \A k, l \in 1 .. n : k < l => at[k] < at[l]
  <2>1. P \in SUBSET Int
    OBVIOUS
  <2>2. QED
    BY <2>1, EnumerationIs
<1>2. PICK Q : Q = After(P, at[j]) /\ Q = {x \in P : x > at[j]} /\ Q \in SUBSET (1 .. N)
  <2>1. After(P, at[j]) = {x \in P : x > at[j]}
    BY DEF After
  <2>2. {x \in P : x > at[j]} \in SUBSET (1 .. N)
    OBVIOUS
  <2>3. QED
    BY <2>1, <2>2
<1>3. PICK m \in Nat : m = n - j
  OBVIOUS
<1>4. PICK bt : bt = [k \in 1 .. m |-> at[j + k]]
  OBVIOUS
<1>5. Enumerates(bt, m, Q)
  <2>1. \A k \in 1 .. m : j + k \in 1 .. n /\ j < j + k
    BY <1>3
  <2>2. bt \in [1 .. m -> Q]
    <3>1. \A k \in 1 .. m : at[j + k] \in Q
      BY <1>1, <1>2, <2>1
    <3>2. QED
      BY <1>4, <3>1
  <2>3. \A i \in Q : \E k \in 1 .. m : bt[k] = i
    <3>1. SUFFICES ASSUME NEW i \in Q PROVE \E k \in 1 .. m : bt[k] = i
      OBVIOUS
    <3>2. i \in P /\ i > at[j] /\ i \in Int
      BY <1>2
    <3>3. PICK k \in 1 .. n : at[k] = i
      BY <1>1, <3>2
    <3>4. k > j
      <4>1. CASE k < j
        BY <1>1, <3>2, <3>3, <4>1
      <4>2. CASE k = j
        BY <1>1, <3>2, <3>3, <4>2
      <4>3. QED
        BY <4>1, <4>2
    <3>5. k - j \in 1 .. m /\ j + (k - j) = k
      BY <1>3, <3>4
    <3>6. bt[k - j] = i
      BY <1>4, <3>3, <3>5
    <3>7. QED
      BY <3>5, <3>6
  <2>4. \A k, l \in 1 .. m : k < l => bt[k] < bt[l]
    <3>1. ASSUME NEW k \in 1 .. m, NEW l \in 1 .. m, k < l PROVE bt[k] < bt[l]
      <4>1. j + k < j + l /\ j + k \in 1 .. n /\ j + l \in 1 .. n
        BY <2>1, <3>1
      <4>2. QED
        BY <1>1, <1>4, <4>1
    <3>2. QED
      BY <3>1
  <2>5. QED
    BY <2>2, <2>3, <2>4 DEF Enumerates
<1>6. PICK s \in Seq(Int) : Len(s) = N
  <2>1. PICK s : s = [i \in 1 .. N |-> 0]
    OBVIOUS
  <2>2. s \in Seq(Int) /\ Len(s) = N
    BY <2>1
  <2>3. QED
    BY <2>2
<1>7. m = Cardinality(Q)
  <2>1. Q \in SUBSET (1 .. Len(s))
    BY <1>2, <1>6
  <2>2. QED
    BY <1>5, <2>1, KeptUnique
<1>8. IsFiniteSet(Q)
  <2>1. IsFiniteSet(1 .. N)
    BY FS_Interval
  <2>2. QED
    BY <1>2, <2>1, FS_Subset
<1>9. QED
  BY <1>2, <1>3, <1>7, <1>8

\* An enumeration ranks its elements.
Ranks(at, n, P) ==
  /\ \A k \in 1 .. n : at[k] \in P /\ at[k] \in Int
  /\ \A i \in P : \E k \in 1 .. n : at[k] = i
  /\ \A k, l \in 1 .. n : k < l => at[k] < at[l]
  /\ \A k \in 1 .. n : Cardinality(After(P, at[k])) = n - k

LEMMA EnumerationRanks ==
  ASSUME NEW N \in Nat, NEW P \in SUBSET (1 .. N), NEW n \in Nat, NEW at, Enumerates(at, n, P)
  PROVE  Ranks(at, n, P)
<1>1. /\ \A k \in 1 .. n : at[k] \in P /\ at[k] \in Int
      /\ \A i \in P : \E k \in 1 .. n : at[k] = i
      /\ \A k, l \in 1 .. n : k < l => at[k] < at[l]
  <2>1. P \in SUBSET Int
    OBVIOUS
  <2>2. QED
    BY <2>1, EnumerationIs
<1>2. \A k \in 1 .. n : Cardinality(After(P, at[k])) = n - k
  <2>1. ASSUME NEW k \in 1 .. n PROVE Cardinality(After(P, at[k])) = n - k
    BY ZenonT(40), CountAfter
  <2>2. QED
    BY <2>1
<1>3. QED
  BY <1>1, <1>2 DEF Ranks

\* The last r of what a set of positions enumerates: those with fewer than r of
\* the set after them.
AreLast(last, E, f, r) ==
  /\ \A k \in 1 .. Len(last) :
       \E e \in E : last[k] = f[e] /\ Cardinality(After(E, e)) < r
  /\ \A e \in E : Cardinality(After(E, e)) < r => \E k \in 1 .. Len(last) : last[k] = f[e]
  /\ \A e \in E : Cardinality(After(E, e)) < r
                    \/ (Len(last) = r /\ \E x \in After(E, e) : last[1] = f[x])

\* A list of the values at an enumeration.
IsTaken(list, f, bt, m) == Len(list) = m /\ \A k \in 1 .. m : list[k] = f[bt[k]]

LEMMA LastEnumerated ==
  ASSUME NEW N \in Nat, NEW E \in SUBSET (1 .. N), NEW m \in Nat, NEW bt, Enumerates(bt, m, E),
         NEW S, NEW list \in Seq(S), NEW f, IsTaken(list, f, bt, m),
         NEW r \in Nat \ {0}, NEW last, last = LastN(list, r)
  PROVE  AreLast(last, E, f, r)
<1>0. Ranks(bt, m, E)
  BY EnumerationRanks
<1>10. Len(list) = m /\ \A k \in 1 .. m : list[k] = f[bt[k]]
  BY DEF IsTaken
<1>1. /\ \A k \in 1 .. m : bt[k] \in E /\ bt[k] \in Int
      /\ \A i \in E : \E k \in 1 .. m : bt[k] = i
      /\ \A k, l \in 1 .. m : k < l => bt[k] < bt[l]
  BY <1>0 DEF Ranks
<1>2. PICK n \in Nat : n = Len(last) /\ n = (IF m <= r THEN m ELSE r)
  <2>1. Len(list) = m
    BY <1>10
  <2>2. Len(last) = (IF Len(list) <= r THEN Len(list) ELSE r)
    BY LastNIs
  <2>3. QED
    BY <2>1, <2>2
<1>3. \A k \in 1 .. n : last[k] = list[m - n + k]
  <2>1. Len(list) = m
    BY <1>10
  <2>2. \A k \in 1 .. Len(last) : last[k] = list[Len(list) - Len(last) + k]
    BY LastNIs
  <2>3. QED
    BY <1>2, <2>1, <2>2
<1>4. \A k \in 1 .. n : m - n + k \in 1 .. m
  BY <1>2
<1>5. \A j \in 1 .. m : Cardinality(After(E, bt[j])) = m - j
  BY <1>0 DEF Ranks
<1>6. ASSUME NEW k \in 1 .. n
      PROVE  \E e \in E : last[k] = f[e] /\ Cardinality(After(E, e)) < r
  <2>1. PICK j \in 1 .. m : j = m - n + k
    BY <1>4
  <2>2. last[k] = f[bt[j]] /\ bt[j] \in E
    BY <1>1, <1>3, <1>10, <2>1
  <2>3. Cardinality(After(E, bt[j])) < r
    <3>1. m - j < r
      BY <1>2, <2>1
    <3>2. QED
      BY <1>5, <3>1
  <2>4. QED
    BY <2>2, <2>3
<1>7. ASSUME NEW e \in E, Cardinality(After(E, e)) < r
      PROVE  \E k \in 1 .. n : last[k] = f[e]
  <2>1. PICK j \in 1 .. m : bt[j] = e
    BY <1>1
  <2>2. m - j < r
    BY <1>5, <1>7, <2>1
  <2>3. PICK k \in 1 .. n : m - n + k = j
    <3>1. j - (m - n) \in 1 .. n /\ m - n + (j - (m - n)) = j
      BY <1>2, <2>2
    <3>2. QED
      BY <3>1
  <2>4. QED
    BY <1>3, <1>10, <2>1, <2>3
<1>8. ASSUME NEW e \in E, ~(Cardinality(After(E, e)) < r)
      PROVE  n = r /\ \E x \in After(E, e) : last[1] = f[x]
  <2>1. PICK j \in 1 .. m : bt[j] = e
    BY <1>1
  <2>2. ~(m - j < r)
    BY <1>5, <1>8, <2>1
  <2>3. n = r /\ m - n + 1 \in 1 .. m /\ j < m - n + 1 /\ 1 \in 1 .. n
    BY <1>2, <2>2
  <2>4. PICK l \in 1 .. m : l = m - n + 1
    BY <2>3
  <2>5. last[1] = f[bt[l]] /\ bt[l] \in E /\ bt[j] < bt[l]
    BY <1>1, <1>3, <1>10, <2>3, <2>4
  <2>6. bt[l] > e
    BY <1>1, <2>1, <2>5
  <2>7. bt[l] \in After(E, e)
    BY <2>5, <2>6 DEF After
  <2>8. QED
    BY <2>3, <2>5, <2>7
<1>9. QED
  BY <1>2, <1>6, <1>7, <1>8 DEF AreLast

\* What is kept of the first of a list begins what is kept of all of it.
LEMMA KeptPrefix ==
  ASSUME NEW S, NEW s \in Seq(S), NEW P \in SUBSET (1 .. Len(s)), NEW l \in Int,
         NEW Q, Q = {i \in P : i <= l}
  PROVE  IsPrefix(Kept(s, Q), Kept(s, P))
<1>1. PICK n \in Nat : \E at : IsKept(Kept(s, P), s, P, n, at)
  BY KeptEnumerates
<1>2. PICK at : IsKept(Kept(s, P), s, P, n, at)
  BY <1>1
<1>3. Enumerates(at, n, P) /\ Kept(s, P) = [k \in 1 .. n |-> s[at[k]]]
  BY <1>2 DEF IsKept
<1>4. /\ \A k \in 1 .. n : at[k] \in P /\ at[k] \in Int
      /\ \A i \in P : \E k \in 1 .. n : at[k] = i
      /\ \A k, j \in 1 .. n : k < j => at[k] < at[j]
  <2>1. P \in SUBSET Int
    OBVIOUS
  <2>2. QED
    BY <1>3, <2>1, EnumerationIs
<1>5. PICK p \in 0 .. n : \A k \in 1 .. n : k <= p <=> at[k] <= l
  <2>1. PICK K \in SUBSET (1 .. n) : \A k \in 1 .. n : k \in K <=> at[k] <= l
    <3>1. {k \in 1 .. n : at[k] <= l} \in SUBSET (1 .. n)
      OBVIOUS
    <3>2. \A k \in 1 .. n : k \in {k1 \in 1 .. n : at[k1] <= l} <=> at[k] <= l
      OBVIOUS
    <3>3. QED
      BY <3>1, <3>2
  <2>2. CASE K = {}
    <3>1. \A k \in 1 .. n : ~(k <= 0)
      OBVIOUS
    <3>2. QED
      BY SMTT(40), <2>1, <2>2, <3>1
  <2>3. CASE K # {}
    <3>1. IsFiniteSet(1 .. n)
      BY FS_Interval
    <3>2. IsFiniteSet(K)
      BY <3>1, FS_Subset
    <3>3. PICK p \in K : \A x \in K : x <= p
      <4>1. K \subseteq Int
        OBVIOUS
      <4>2. QED
        BY <2>3, <3>2, <4>1, GreatestExists
    <3>4. ASSUME NEW k \in 1 .. n PROVE k <= p <=> at[k] <= l
      <4>1. ASSUME k <= p PROVE at[k] <= l
        <5>1. at[k] <= at[p] /\ at[p] <= l /\ at[p] \in Int /\ at[k] \in Int
          BY <1>4, <2>1, <4>1
        <5>2. QED
          BY <5>1
      <4>2. ASSUME at[k] <= l PROVE k <= p
        BY <2>1, <3>3, <4>2
      <4>3. QED
        BY <4>1, <4>2
    <3>5. p \in 0 .. n
      OBVIOUS
    <3>6. QED
      BY <3>4, <3>5
  <2>4. QED
    BY <2>2, <2>3
<1>6. PICK bt : bt = [k \in 1 .. p |-> at[k]]
  OBVIOUS
<1>7. \A k \in 1 .. p : k \in 1 .. n /\ k <= p
  OBVIOUS
<1>8. Enumerates(bt, p, Q)
  <2>1. bt \in [1 .. p -> Q]
    <3>1. \A k \in 1 .. p : at[k] \in Q
      BY <1>4, <1>5, <1>7
    <3>2. QED
      BY <1>6, <3>1
  <2>2. \A i \in Q : \E k \in 1 .. p : bt[k] = i
    <3>1. SUFFICES ASSUME NEW i \in Q PROVE \E k \in 1 .. p : bt[k] = i
      OBVIOUS
    <3>2. PICK k \in 1 .. n : at[k] = i
      BY <1>4
    <3>3. k \in 1 .. p
      BY <1>5, <3>2
    <3>4. QED
      BY <1>6, <3>2, <3>3
  <2>3. \A k, j \in 1 .. p : k < j => bt[k] < bt[j]
    BY <1>4, <1>6, <1>7
  <2>4. QED
    BY <2>1, <2>2, <2>3 DEF Enumerates
<1>9. Kept(s, Q) = [k \in 1 .. p |-> s[bt[k]]]
  <2>1. Q \in SUBSET (1 .. Len(s))
    OBVIOUS
  <2>2. p \in Nat
    OBVIOUS
  <2>3. QED
    BY <1>8, <2>1, <2>2, KeptUnique
<1>10. PICK short \in Seq(S) : short = Kept(s, Q)
  <2>1. Q \in SUBSET (1 .. Len(s))
    OBVIOUS
  <2>2. QED
    BY <2>1, KeptElements
<1>11. PICK long \in Seq(S) : long = Kept(s, P)
  BY KeptElements
<1>12. Len(short) = p /\ Len(long) = n
  <2>1. p \in Nat
    OBVIOUS
  <2>2. QED
    BY <1>3, <1>9, <1>10, <1>11, <2>1
<1>13. \A k \in 1 .. p : short[k] = long[k]
  BY <1>3, <1>6, <1>7, <1>9, <1>10, <1>11
<1>14. SubSeq(short, 1, p) = SubSeq(long, 1, p)
  BY <1>7, <1>12, <1>13
<1>15. Len(short) <= Len(long) /\ SubSeq(short, 1, Len(short)) = SubSeq(long, 1, Len(short))
  BY <1>12, <1>14
<1>16. IsPrefix(short, long)
  BY <1>15, Zenon DEF IsPrefix
<1>17. QED
  BY <1>10, <1>11, <1>16

-----------------------------------------------------------------------------
(* The signals of the windows before.                                        *)
\* A window of candles, whole and the same where the candles end later.
LEMMA WindowIs ==
  ASSUME NEW candles \in Seq(CandleRecords), NEW e \in RequiredCandles .. Len(candles)
  PROVE  /\ Window(candles, e) \in Seq(CandleRecords)
         /\ Len(Window(candles, e)) = RequiredCandles
         /\ \A i \in 1 .. RequiredCandles : Window(candles, e)[i] = candles[e - RequiredCandles + i]
<1>1. PICK from \in Int : from = e - RequiredCandles + 1
  BY DEF RequiredCandles
<1>2. from \in 1 .. e /\ e - from + 1 = RequiredCandles
  BY <1>1 DEF RequiredCandles
<1>3. \A i \in from .. e : candles[i] \in CandleRecords
  BY <1>2
<1>4. /\ SubSeq(candles, from, e) \in Seq(CandleRecords)
      /\ Len(SubSeq(candles, from, e)) = (IF from <= e THEN e - from + 1 ELSE 0)
      /\ \A i \in 1 .. e - from + 1 : SubSeq(candles, from, e)[i] = candles[from + i - 1]
  <2>1. e \in Int
    BY DEF RequiredCandles
  <2>2. QED
    BY <1>3, <2>1, SubSeqProperties
<1>5. Window(candles, e) = SubSeq(candles, from, e)
  BY <1>1 DEF Window
<1>6. \A i \in 1 .. RequiredCandles : from + i - 1 = e - RequiredCandles + i
  BY <1>1 DEF RequiredCandles
<1>7. QED
  BY <1>2, <1>4, <1>5, <1>6

LEMMA FirstCandles ==
  ASSUME NEW candles \in Seq(CandleRecords), NEW k \in 0 .. Len(candles)
  PROVE  /\ SubSeq(candles, 1, k) \in Seq(CandleRecords)
         /\ Len(SubSeq(candles, 1, k)) = k
         /\ \A i \in 1 .. k : SubSeq(candles, 1, k)[i] = candles[i]
<1>1. \A i \in 1 .. k : candles[i] \in CandleRecords
  OBVIOUS
<1>2. k \in Nat
  OBVIOUS
<1>3. /\ SubSeq(candles, 1, k) \in Seq(CandleRecords)
      /\ Len(SubSeq(candles, 1, k)) = (IF 1 <= k THEN k - 1 + 1 ELSE 0)
      /\ \A i \in 1 .. k - 1 + 1 : SubSeq(candles, 1, k)[i] = candles[1 + i - 1]
  BY <1>1, <1>2, SubSeqProperties
<1>4. QED
  BY <1>2, <1>3

LEMMA WindowOfFirst ==
  ASSUME NEW candles \in Seq(CandleRecords), NEW k \in 0 .. Len(candles), NEW e \in RequiredCandles .. k
  PROVE  Window(SubSeq(candles, 1, k), e) = Window(candles, e)
<1>1. PICK part \in Seq(CandleRecords) :
        part = SubSeq(candles, 1, k) /\ Len(part) = k /\ \A i \in 1 .. k : part[i] = candles[i]
  BY FirstCandles
<1>2. e \in RequiredCandles .. Len(part) /\ e \in RequiredCandles .. Len(candles)
  BY <1>1 DEF RequiredCandles
<1>3. PICK a \in Seq(CandleRecords) :
        /\ a = Window(part, e) /\ Len(a) = RequiredCandles
        /\ \A i \in 1 .. RequiredCandles : a[i] = part[e - RequiredCandles + i]
  BY <1>2, WindowIs
<1>4. PICK b \in Seq(CandleRecords) :
        /\ b = Window(candles, e) /\ Len(b) = RequiredCandles
        /\ \A i \in 1 .. RequiredCandles : b[i] = candles[e - RequiredCandles + i]
  BY <1>2, WindowIs
<1>5. \A i \in 1 .. RequiredCandles : e - RequiredCandles + i \in 1 .. k
  BY DEF RequiredCandles
<1>6. \A i \in 1 .. RequiredCandles : a[i] = b[i]
  BY <1>1, <1>3, <1>4, <1>5
<1>7. a = b
  BY <1>3, <1>4, <1>6
<1>8. QED
  BY <1>1, <1>3, <1>4, <1>7

\* The direction shown for a window is the one that is judged.
LEMMA MarkerIs ==
  ASSUME NEW ask, NEW candles \in Seq(CandleRecords), NEW e \in RequiredCandles .. Len(candles)
  PROVE  /\ MarkerFromWindow(ask, Window(candles, e)).time = candles[e].time
         /\ MarkerFromWindow(ask, Window(candles, e)).direction = SignalOfWindow(ask, candles, e)
<1>1. PICK window \in Seq(CandleRecords) :
        /\ window = Window(candles, e) /\ Len(window) = RequiredCandles
        /\ \A i \in 1 .. RequiredCandles : window[i] = candles[e - RequiredCandles + i]
  BY WindowIs
<1>2. Last(window) = candles[e] /\ window # <<>>
  <2>1. RequiredCandles \in 1 .. RequiredCandles /\ e - RequiredCandles + RequiredCandles = e
    BY DEF RequiredCandles
  <2>2. window[RequiredCandles] = candles[e]
    BY <1>1, <2>1
  <2>3. window # <<>>
    <3>1. Len(window) # 0
      BY <1>1 DEF RequiredCandles
    <3>2. Len(<<>>) = 0
      OBVIOUS
    <3>3. QED
      BY <3>1, <3>2, Zenon
  <2>4. QED
    BY <1>1, <2>2, <2>3 DEF Last
<1>3. PICK time \in Nat : time = Last(window).time
  <2>1. candles[e] \in CandleRecords
    BY DEF RequiredCandles
  <2>2. QED
    BY <1>2, <2>1 DEF CandleRecords
<1>4. PICK source : source = [candles |-> window, freshness |-> NoFreshness, price |-> Null, failures |-> {}]
  OBVIOUS
<1>5. AssessDataQuality(source, time + 1) = "ok"
  <2>1. source.candles = window /\ source.freshness = NoFreshness
    BY <1>4
  <2>2. LatestTime(window) = time
    BY <1>2, <1>3 DEF LatestTime
  <2>3. FirstNumber(Null, time + 1 - time) = 1
    BY <1>3 DEF FirstNumber
  <2>4. NoFreshness.stale = FALSE /\ NoFreshness.age = Null /\ NoFreshness.maxAge = 3
    BY DEF NoFreshness
  <2>5. ~(Len(window) < RequiredCandles)
    BY <1>1 DEF RequiredCandles
  <2>6. QED
    BY <2>1, <2>2, <2>3, <2>4, <2>5 DEF AssessDataQuality
<1>6. BuildResearchSignal(ask, source, time + 1).direction = SignalOfWindow(ask, candles, e)
  <2> DEFINE risk == IF ask.context.eventRisk THEN {"event"} ELSE {}
             features == FeatureSnapshot(window)
             failures == source.failures \cup ({"ok"} \ {"ok"}) \cup risk
             t == Profiles[ask.profile][ask.horizon]
  <2>0. source.candles = window
    BY <1>4
  <2>1. Len(source.candles) >= RequiredCandles
    <3>1. Len(window) = RequiredCandles
      BY <1>1
    <3>2. QED
      BY <2>0, <3>1 DEF RequiredCandles
  <2>2. failures = risk
    <3> HIDE DEF risk
    <3>1. source.failures = {}
      BY <1>4
    <3>2. QED
      BY <3>1
  <2>3. BuildResearchSignal(ask, source, time + 1).direction
          = EvaluateConfluence(features, "ok", ask.context, failures, t).direction
    BY <1>5, <2>0, <2>1 DEF BuildResearchSignal, ResearchSignal, SourceFeatures, SourceFailures
  <2>4. SignalOfWindow(ask, candles, e) = EvaluateConfluence(features, "ok", ask.context, risk, t).direction
    BY <1>1 DEF SignalOfWindow
  <2> HIDE DEF risk, features, failures, t
  <2>5. QED
    BY <2>2, <2>3, <2>4
<1>7. /\ MarkerFromWindow(ask, window).time = time
      /\ MarkerFromWindow(ask, window).direction = BuildResearchSignal(ask, source, time + 1).direction
  BY <1>3, <1>4 DEF MarkerFromWindow
<1>8. QED
  BY <1>1, <1>2, <1>3, <1>6, <1>7

\* The ends of the windows whose markers can be shown of the first k candles.
ShownEnds(ask, candles, k) ==
  {e \in Max({RequiredCandles, k - 36}) .. k : SignalOfWindow(ask, candles, e) # "NO_SIGNAL"}

\* The marker of each window.
MarkersOf(ask, candles) ==
  [e \in RequiredCandles .. Len(candles) |-> MarkerFromWindow(ask, Window(candles, e))]

\* The markers are the last ten of them.
LEMMA MarkersAre ==
  ASSUME NEW ask, NEW candles \in Seq(CandleRecords), NEW k \in 0 .. Len(candles),
         NEW E, E = ShownEnds(ask, candles, k),
         NEW shown, shown = BuildRecentSignalMarkers(ask, SubSeq(candles, 1, k))
  PROVE  DOMAIN shown = 1 .. Len(shown) /\ AreLast(shown, E, MarkersOf(ask, candles), 10)
<1>0. PICK f : f = [e \in RequiredCandles .. Len(candles) |-> MarkerFromWindow(ask, Window(candles, e))]
  OBVIOUS
<1>1. PICK part \in Seq(CandleRecords) : part = SubSeq(candles, 1, k) /\ Len(part) = k
  BY FirstCandles
<1>2. PICK first \in Nat : first = Max({RequiredCandles, k - 36}) /\ first >= RequiredCandles
  <2>1. RequiredCandles \in Int /\ k - 36 \in Int
    BY DEF RequiredCandles
  <2>2. Max({RequiredCandles, k - 36}) = IF RequiredCandles >= k - 36 THEN RequiredCandles ELSE k - 36
    BY <2>1, MaxOfTwo
  <2>3. QED
    BY <2>2 DEF RequiredCandles
<1>3. PICK len \in Nat : 1 .. len = 1 .. k - first + 1
  <2>1. CASE first <= k
    <3>1. k - first + 1 \in Nat
      BY <2>1
    <3>2. QED
      BY <3>1
  <2>2. CASE ~(first <= k)
    <3>1. 1 .. 0 = 1 .. k - first + 1
      BY <2>2
    <3>2. QED
      BY <3>1
  <2>3. QED
    BY <2>1, <2>2
<1>4. \A i \in 1 .. len : first + i - 1 \in first .. k /\ first + i - 1 \in RequiredCandles .. k
  BY <1>2, <1>3 DEF RequiredCandles
<1>5. \A e \in first .. k : e - first + 1 \in 1 .. len /\ first + (e - first + 1) - 1 = e
  BY <1>2, <1>3
<1>6. PICK all : all = [i \in 1 .. len |-> MarkerFromWindow(ask, Window(part, first + i - 1))]
  OBVIOUS
<1>7. \A i \in 1 .. len : all[i] = f[first + i - 1]
  <2>1. ASSUME NEW i \in 1 .. len PROVE all[i] = f[first + i - 1]
    <3>1. PICK e \in RequiredCandles .. k : e = first + i - 1
      BY <1>4
    <3>2. Window(part, e) = Window(candles, e)
      BY <1>1, WindowOfFirst
    <3>3. e \in RequiredCandles .. Len(candles)
      BY DEF RequiredCandles
    <3>4. QED
      BY <1>0, <1>6, <3>1, <3>2, <3>3
  <2>2. QED
    BY <2>1
<1>8. \A e \in first .. k : f[e].direction = SignalOfWindow(ask, candles, e)
  <2>1. \A e \in first .. k : e \in RequiredCandles .. Len(candles)
    BY <1>2 DEF RequiredCandles
  <2>2. QED
    BY <1>0, <2>1, MarkerIs
<1>9. PICK S : S = {all[i] : i \in 1 .. len}
  OBVIOUS
<1>10. all \in Seq(S) /\ Len(all) = len /\ DOMAIN all = 1 .. len
  <2>1. all \in [1 .. len -> S]
    BY <1>6, <1>9
  <2>2. QED
    BY <2>1
<1>11. PICK P : P = {i \in DOMAIN all : all[i].direction # "NO_SIGNAL"} /\ P \in SUBSET (1 .. Len(all))
  <2>1. {i \in DOMAIN all : all[i].direction # "NO_SIGNAL"} \in SUBSET (1 .. Len(all))
    BY <1>10
  <2>2. QED
    BY <2>1
<1>12. shown = LastN(Kept(all, P), 10)
  <2>1. Listed(all) = all
    BY <1>10, ListedIs
  <2>2. all = [i \in 1 .. Len(part) - first + 1 |-> MarkerFromWindow(ask, Window(part, first + i - 1))]
    BY <1>1, <1>3, <1>6
  <2>3. first = Max({RequiredCandles, Len(part) - 36})
    BY <1>1, <1>2
  <2>4. BuildRecentSignalMarkers(ask, part) = LastN(Kept(all, P), 10)
    <3> DEFINE begin == Max({RequiredCandles, Len(part) - 36})
               whole == [i \in 1 .. Len(part) - begin + 1 |-> MarkerFromWindow(ask, Window(part, begin + i - 1))]
    <3>1. BuildRecentSignalMarkers(ask, part)
            = LastN(Kept(Listed(whole), {i \in DOMAIN Listed(whole) : Listed(whole)[i].direction # "NO_SIGNAL"}), 10)
      BY Zenon DEF BuildRecentSignalMarkers
    <3>2. whole = all
      <4> HIDE DEF begin
      <4>1. begin = first
        BY <2>3 DEF begin
      <4>2. QED
        BY <2>2, <4>1, Zenon
    <3> HIDE DEF whole
    <3>3. QED
      BY <1>11, <2>1, <3>1, <3>2, Zenon
  <2>5. QED
    BY <1>1, <2>4
<1>13. PICK n \in Nat : \E at : IsKept(Kept(all, P), all, P, n, at)
  BY <1>10, <1>11, KeptEnumerates
<1>14. PICK at : IsKept(Kept(all, P), all, P, n, at)
  BY <1>13
<1>15. Enumerates(at, n, P) /\ Kept(all, P) = [j \in 1 .. n |-> all[at[j]]]
  BY <1>14 DEF IsKept
<1>16. /\ \A j \in 1 .. n : at[j] \in P
       /\ \A i \in P : \E j \in 1 .. n : at[j] = i
       /\ \A j, l \in 1 .. n : j < l => at[j] < at[l]
  BY <1>15 DEF Enumerates
<1>17. PICK bt : bt = [j \in 1 .. n |-> first + at[j] - 1]
  OBVIOUS
<1>18. E = {e \in first .. k : SignalOfWindow(ask, candles, e) # "NO_SIGNAL"}
  BY <1>2 DEF ShownEnds
<1>19. \A j \in 1 .. n : at[j] \in 1 .. len /\ at[j] \in P
  BY <1>10, <1>11, <1>16
<1>20. Enumerates(bt, n, E)
  <2>1. bt \in [1 .. n -> E]
    <3>1. ASSUME NEW j \in 1 .. n PROVE first + at[j] - 1 \in E
      <4>1. PICK i \in 1 .. len : i = at[j] /\ i \in P
        BY <1>19
      <4>2. all[i].direction # "NO_SIGNAL"
        BY <1>11, <4>1
      <4>3. PICK e \in first .. k : e = first + i - 1
        BY <1>4
      <4>4. SignalOfWindow(ask, candles, e) # "NO_SIGNAL"
        BY <1>7, <1>8, <4>2, <4>3
      <4>5. QED
        BY <1>18, <4>1, <4>3, <4>4
    <3>2. QED
      BY <1>17, <3>1
  <2>2. \A e \in E : \E j \in 1 .. n : bt[j] = e
    <3>1. SUFFICES ASSUME NEW e \in E PROVE \E j \in 1 .. n : bt[j] = e
      OBVIOUS
    <3>2. e \in first .. k /\ SignalOfWindow(ask, candles, e) # "NO_SIGNAL"
      BY <1>18
    <3>3. PICK i \in 1 .. len : first + i - 1 = e
      BY <1>5, <3>2
    <3>4. all[i].direction # "NO_SIGNAL"
      BY <1>7, <1>8, <3>2, <3>3
    <3>5. i \in P
      BY <1>10, <1>11, <3>4
    <3>6. PICK j \in 1 .. n : at[j] = i
      BY <1>16, <3>5
    <3>7. QED
      BY <1>17, <3>3, <3>6
  <2>3. \A j, l \in 1 .. n : j < l => bt[j] < bt[l]
    <3>1. ASSUME NEW j \in 1 .. n, NEW l \in 1 .. n, j < l PROVE bt[j] < bt[l]
      <4>1. at[j] \in Int /\ at[l] \in Int /\ at[j] < at[l]
        BY <1>16, <1>19, <3>1
      <4>2. QED
        BY <1>17, <4>1
    <3>2. QED
      BY <3>1
  <2>4. QED
    BY <2>1, <2>2, <2>3 DEF Enumerates
<1>21. PICK list \in Seq(S) : list = Kept(all, P) /\ Len(list) = n /\ \A j \in 1 .. n : list[j] = f[bt[j]]
  <2>1. Kept(all, P) \in Seq(S)
    BY <1>10, <1>11, KeptElements
  <2>2. \A j \in 1 .. n : all[at[j]] = f[bt[j]]
    BY <1>7, <1>17, <1>19
  <2>3. QED
    BY <1>15, <2>1, <2>2
<1>22. shown = LastN(list, 10)
  BY <1>12, <1>21
<1>23. E \in SUBSET (1 .. Len(candles))
  BY <1>2, <1>18 DEF RequiredCandles
<1>24. DOMAIN shown = 1 .. Len(shown)
  <2>1. shown \in Seq(S)
    BY <1>22, LastNIs
  <2>2. QED
    BY <2>1
<1>25. AreLast(shown, E, f, 10)
  <2>1. Len(candles) \in Nat /\ 10 \in Nat \ {0}
    OBVIOUS
  <2>2. QED
    <3>1. IsTaken(list, f, bt, n)
      BY <1>21 DEF IsTaken
    <3>2. PICK N \in Nat : N = Len(candles)
      BY <2>1
    <3>3. E \in SUBSET (1 .. N)
      BY <1>23, <3>2
    <3>4. PICK r \in Nat \ {0} : r = 10
      BY <2>1
    <3>5. shown = LastN(list, r)
      BY <1>22, <3>4
    <3>6. AreLast(shown, E, f, r)
      BY <1>20, <3>1, <3>3, <3>5, LastEnumerated
    <3>7. QED
      BY <3>4, <3>6
<1>26. QED
  BY <1>0, <1>24, <1>25 DEF MarkersOf

\* What became of the window that ends at e.
RecordAt(ask, candles, e) ==
  [end |-> e, direction |-> SignalOfWindow(ask, candles, e),
   match |-> Sign(candles[e + Steps(ask.horizon)].close - candles[e].close)
               = (IF SignalOfWindow(ask, candles, e) = "LONG" THEN 1 ELSE -1)]
RecordsOf(ask, candles, n) == [i \in 1 .. n |-> RecordAt(ask, candles, i + RequiredCandles - 1)]
DirectionalOf(s) == {i \in DOMAIN s : s[i].direction # "NO_SIGNAL"}

\* The records of the first k candles are of those windows whose horizon they
\* cover.
LEMMA RecordsAre ==
  ASSUME NEW ask, NEW candles \in Seq(CandleRecords), NEW k \in 0 .. Len(candles),
         NEW len \in Nat, Len(candles) - Steps(ask.horizon) - RequiredCandles + 1 <= len,
         NEW s, s = RecordsOf(ask, candles, len)
  PROVE  ObservationRecords(ask, SubSeq(candles, 1, k))
           = Kept(s, {i \in DirectionalOf(s) : i <= k - Steps(ask.horizon) - RequiredCandles + 1})
<1>1. PICK part \in Seq(CandleRecords) :
        part = SubSeq(candles, 1, k) /\ Len(part) = k /\ \A i \in 1 .. k : part[i] = candles[i]
  BY FirstCandles
<1>2. PICK steps \in Nat : steps = Steps(ask.horizon)
  BY DEF Steps
<1>3. PICK n \in Nat : /\ n = Max({0, k - steps - RequiredCandles + 1})
                       /\ \A i \in 1 .. len : i <= n <=> i <= k - steps - RequiredCandles + 1
                       /\ n <= len
                       /\ n > 0 => n = k - steps - RequiredCandles + 1
  <2>1. k - steps - RequiredCandles + 1 \in Int /\ 0 \in Int
    BY DEF RequiredCandles
  <2>2. Max({0, k - steps - RequiredCandles + 1})
          = IF 0 >= k - steps - RequiredCandles + 1 THEN 0 ELSE k - steps - RequiredCandles + 1
    BY <2>1, MaxOfTwo
  <2>3. k - steps - RequiredCandles + 1 <= len
    BY <1>2 DEF RequiredCandles
  <2>4. QED
    BY <2>1, <2>2, <2>3
<1>4. PICK all : all = RecordsOf(ask, part, n)
  OBVIOUS
<1>5. \A i \in 1 .. n : all[i] = s[i]
  <2>1. ASSUME NEW i \in 1 .. n PROVE all[i] = s[i]
    <3>1. PICK e \in RequiredCandles .. k : e = i + RequiredCandles - 1 /\ e + steps \in 1 .. k /\ e \in 1 .. k
      BY <1>3 DEF RequiredCandles
    <3>2. Window(part, e) = Window(candles, e)
      BY <1>1, WindowOfFirst
    <3>3. SignalOfWindow(ask, part, e) = SignalOfWindow(ask, candles, e)
      BY <3>2, Zenon DEF SignalOfWindow
    <3>4. part[e] = candles[e] /\ part[e + steps] = candles[e + steps]
      BY <1>1, <3>1
    <3>5. RecordAt(ask, part, e) = RecordAt(ask, candles, e)
      BY <1>2, <3>3, <3>4, Zenon DEF RecordAt
    <3>6. i \in 1 .. len
      BY <1>3
    <3>7. all[i] = RecordAt(ask, part, e) /\ s[i] = RecordAt(ask, candles, e)
      BY <1>4, <3>1, <3>6 DEF RecordsOf
    <3>8. QED
      BY <3>5, <3>7
  <2>2. QED
    BY <2>1
<1>6. PICK S : S = {all[i] : i \in 1 .. n}
  OBVIOUS
<1>7. all \in Seq(S) /\ Len(all) = n /\ DOMAIN all = 1 .. n
  <2>1. all \in [1 .. n -> S]
    BY <1>4, <1>6 DEF RecordsOf
  <2>2. QED
    BY <2>1
<1>8. PICK T : T = {s[i] : i \in 1 .. len}
  OBVIOUS
<1>9. s \in Seq(T) /\ Len(s) = len /\ DOMAIN s = 1 .. len
  <2>1. s \in [1 .. len -> T]
    BY <1>8 DEF RecordsOf
  <2>2. QED
    BY <2>1
<1>10. PICK P : P = DirectionalOf(all) /\ P \in SUBSET (1 .. Len(all)) /\ P \in SUBSET (1 .. Len(s))
  <2>1. DirectionalOf(all) \in SUBSET (1 .. Len(all))
    BY <1>7 DEF DirectionalOf
  <2>2. 1 .. Len(all) \subseteq 1 .. Len(s)
    BY <1>3, <1>7, <1>9
  <2>3. QED
    BY <2>1, <2>2
<1>11. P = {i \in DirectionalOf(s) : i <= k - steps - RequiredCandles + 1}
  <2>1. \A i \in 1 .. len : i <= n <=> i \in 1 .. n
    OBVIOUS
  <2>2. \A i \in 1 .. n : i \in 1 .. len
    BY <1>3
  <2>3. ASSUME NEW i \in 1 .. len, i <= k - steps - RequiredCandles + 1, s[i].direction # "NO_SIGNAL"
        PROVE  i \in 1 .. n /\ all[i].direction # "NO_SIGNAL"
    BY <1>3, <1>5, <2>1, <2>3
  <2>4. ASSUME NEW i \in 1 .. n, all[i].direction # "NO_SIGNAL"
        PROVE  i \in 1 .. len /\ i <= k - steps - RequiredCandles + 1 /\ s[i].direction # "NO_SIGNAL"
    BY <1>3, <1>5, <2>1, <2>2, <2>4
  <2>5. QED
    BY <1>7, <1>9, <1>10, <2>3, <2>4 DEF DirectionalOf
<1>12. Kept(all, P) = Kept(s, P)
  <2>1. \A i \in P : all[i] = s[i]
    BY <1>5, <1>7, <1>10
  <2>2. QED
    BY <1>7, <1>9, <1>10, <2>1, KeptAgree
<1>13. ObservationRecords(ask, part) = Kept(all, P)
  <2> DEFINE whole == [i \in 1 .. Max({0, Len(part) - Steps(ask.horizon) - RequiredCandles + 1}) |->
                         LET end == i + RequiredCandles - 1 IN RecordAt(ask, part, end)]
  <2>1. ObservationRecords(ask, part)
          = Kept(Listed(whole), {i \in DOMAIN Listed(whole) : Listed(whole)[i].direction # "NO_SIGNAL"})
    BY Zenon DEF ObservationRecords, RecordAt
  <2>2. whole = all
    BY <1>1, <1>2, <1>3, <1>4, Zenon DEF RecordsOf
  <2> HIDE DEF whole
  <2>3. Listed(all) = all
    BY <1>7, ListedIs
  <2>4. QED
    BY <1>10, <2>1, <2>2, <2>3, Zenon DEF DirectionalOf
<1>14. QED
  BY <1>1, <1>2, <1>11, <1>12, <1>13

\* The ends of windows are a set of positions, from the last 37.
LEMMA EndsAre ==
  ASSUME NEW ask, NEW candles \in Seq(CandleRecords), NEW k \in 0 .. Len(candles)
  PROVE  \A e : e \in ShownEnds(ask, candles, k) <=>
                  /\ e \in RequiredCandles .. k /\ e >= k - 36
                  /\ SignalOfWindow(ask, candles, e) # "NO_SIGNAL"
<1>1. PICK first \in Int : /\ first = Max({RequiredCandles, k - 36})
                           /\ first = (IF RequiredCandles >= k - 36 THEN RequiredCandles ELSE k - 36)
  <2>1. RequiredCandles \in Int /\ k - 36 \in Int
    BY DEF RequiredCandles
  <2>2. Max({RequiredCandles, k - 36}) = IF RequiredCandles >= k - 36 THEN RequiredCandles ELSE k - 36
    BY <2>1, MaxOfTwo
  <2>3. QED
    BY <2>1, <2>2
<1>2. \A e : e \in first .. k <=> e \in RequiredCandles .. k /\ e >= k - 36
  BY <1>1 DEF RequiredCandles
<1>3. QED
  BY <1>1, <1>2 DEF ShownEnds

\* Theorem: what is shown of the windows before, and what became of them, is as it
\* was before the later candles came, however many there are.
THEOREM PastKept ==
  ASSUME NEW ask, NEW candles \in Seq(CandleRecords), NEW n \in 1 .. Len(candles),
         \A i, j \in 1 .. Len(candles) : i < j => candles[i].time < candles[j].time
  PROVE  PastIsKept(ask, candles, n)
<1>1. PICK N \in Nat : N = Len(candles) /\ n \in 0 .. N /\ N \in 0 .. N /\ n \in 1 .. N
  OBVIOUS
<1>2. PICK past : past = [end \in {n, Len(candles)} |-> Past(ask, SubSeq(candles, 1, end))]
  OBVIOUS
<1>3. /\ past[n].markers = BuildRecentSignalMarkers(ask, SubSeq(candles, 1, n))
      /\ past[N].markers = BuildRecentSignalMarkers(ask, SubSeq(candles, 1, N))
      /\ past[n].records = ObservationRecords(ask, SubSeq(candles, 1, n))
      /\ past[N].records = ObservationRecords(ask, SubSeq(candles, 1, N))
  BY <1>1, <1>2 DEF Past
<1>4. PICK f : f = MarkersOf(ask, candles)
  OBVIOUS
<1>5. \A i \in 1 .. N : candles[i].time \in Nat
  <2>1. \A i \in 1 .. N : candles[i] \in CandleRecords
    BY <1>1
  <2>2. QED
    BY <2>1 DEF CandleRecords
<1>6. \A e \in RequiredCandles .. N :
        f[e].time = candles[e].time /\ f[e].direction = SignalOfWindow(ask, candles, e)
  BY <1>1, <1>4, MarkerIs DEF MarkersOf
<1>7. PICK before : before = past[n].markers
  OBVIOUS
<1>8. PICK after : after = past[N].markers
  OBVIOUS
<1>9. PICK E : E = ShownEnds(ask, candles, N)
  OBVIOUS
<1>10. PICK F : F = ShownEnds(ask, candles, n)
  OBVIOUS
<1>11. /\ DOMAIN after = 1 .. Len(after)
       /\ \A j \in 1 .. Len(after) : \E e \in E : after[j] = f[e] /\ Cardinality(After(E, e)) < 10
       /\ \A e \in E : Cardinality(After(E, e)) < 10 => \E j \in 1 .. Len(after) : after[j] = f[e]
       /\ \A e \in E : Cardinality(After(E, e)) < 10
                         \/ (Len(after) = 10 /\ \E x \in After(E, e) : after[1] = f[x])
  <2>1. DOMAIN after = 1 .. Len(after) /\ AreLast(after, E, f, 10)
    BY <1>1, <1>3, <1>4, <1>8, <1>9, MarkersAre
  <2>2. QED
    BY <2>1, Zenon DEF AreLast
<1>12. /\ DOMAIN before = 1 .. Len(before)
       /\ \A e \in F : Cardinality(After(F, e)) < 10 => \E j \in 1 .. Len(before) : before[j] = f[e]
  <2>1. DOMAIN before = 1 .. Len(before) /\ AreLast(before, F, f, 10)
    BY <1>1, <1>3, <1>4, <1>7, <1>10, MarkersAre
  <2>2. QED
    BY <2>1, Zenon DEF AreLast
<1>13. /\ \A e \in E : /\ e \in RequiredCandles .. N /\ e >= N - 36
                       /\ SignalOfWindow(ask, candles, e) # "NO_SIGNAL"
       /\ \A e \in RequiredCandles .. N :
            e >= N - 36 /\ SignalOfWindow(ask, candles, e) # "NO_SIGNAL" => e \in E
  BY <1>1, <1>9, EndsAre
<1>14. /\ \A e \in F : /\ e \in RequiredCandles .. n /\ e >= n - 36
                       /\ SignalOfWindow(ask, candles, e) # "NO_SIGNAL"
       /\ \A e \in RequiredCandles .. n :
            e >= n - 36 /\ SignalOfWindow(ask, candles, e) # "NO_SIGNAL" => e \in F
  BY <1>1, <1>10, EndsAre
<1>15. ASSUME NEW m \in Range(after), m.time <= candles[n].time
       PROVE  m \in Range(before)
  <2>1. PICK e \in E : m = f[e] /\ Cardinality(After(E, e)) < 10
    <3>1. PICK j \in 1 .. Len(after) : m = after[j]
      BY <1>11, <1>15, Zenon DEF Range
    <3>2. QED
      BY <1>11, <3>1, Zenon
  <2>2. e \in RequiredCandles .. N /\ e >= N - 36 /\ SignalOfWindow(ask, candles, e) # "NO_SIGNAL"
    BY <1>13
  <2>3. e \in 1 .. N /\ candles[e].time <= candles[n].time
    BY <1>6, <1>15, <2>1, <2>2 DEF RequiredCandles
  <2>4. e <= n
    <3>1. SUFFICES ASSUME n < e PROVE FALSE
      BY <1>1, <2>3
    <3>2. candles[n].time < candles[e].time
      BY <1>1, <2>3, <3>1
    <3>3. QED
      BY <1>1, <1>5, <2>3, <3>2
  <2>5. e \in F
    BY <1>1, <1>14, <2>2, <2>4 DEF RequiredCandles
  <2>6. After(F, e) \subseteq After(E, e)
    <3>1. ASSUME NEW x \in F, x > e PROVE x \in E
      <4>1. x \in RequiredCandles .. n /\ SignalOfWindow(ask, candles, x) # "NO_SIGNAL"
        BY <1>14, <3>1
      <4>2. x \in RequiredCandles .. N /\ x >= N - 36
        BY <1>1, <2>2, <3>1, <4>1 DEF RequiredCandles
      <4>3. QED
        BY <1>13, <4>1, <4>2
    <3>2. QED
      BY <3>1 DEF After
  <2>7. Cardinality(After(F, e)) < 10
    <3>1. IsFiniteSet(After(E, e))
      <4>1. IsFiniteSet(1 .. N)
        BY <1>1, FS_Interval
      <4>2. After(E, e) \subseteq 1 .. N
        BY <1>1, <1>13 DEF After, RequiredCandles
      <4>3. QED
        BY <4>1, <4>2, FS_Subset
    <3>2. IsFiniteSet(After(F, e)) /\ Cardinality(After(F, e)) <= Cardinality(After(E, e))
      BY <2>6, <3>1, FS_Subset
    <3>3. Cardinality(After(F, e)) \in Nat /\ Cardinality(After(E, e)) \in Nat
      BY <3>1, <3>2, FS_CardinalityType
    <3>4. QED
      BY <2>1, <3>2, <3>3
  <2>8. PICK j \in 1 .. Len(before) : before[j] = f[e]
    BY <1>12, <2>5, <2>7
  <2>9. QED
    BY <1>12, <2>1, <2>8 DEF Range
<1>16. PICK steps \in Nat : steps = Steps(ask.horizon)
  BY DEF Steps
<1>17. PICK len \in Nat : Len(candles) - Steps(ask.horizon) - RequiredCandles + 1 <= len
  <2>1. N - steps - RequiredCandles + 1 <= N
    BY <1>16 DEF RequiredCandles
  <2>2. QED
    BY <1>1, <1>16, <2>1
<1>18. PICK s : s = RecordsOf(ask, candles, len)
  OBVIOUS
<1>19. PICK P : P = {i \in DirectionalOf(s) : i <= N - steps - RequiredCandles + 1}
  OBVIOUS
<1>20. past[N].records = Kept(s, P)
  BY <1>1, <1>3, <1>16, <1>17, <1>18, <1>19, RecordsAre
<1>21. PICK last \in Int : last = n - steps - RequiredCandles + 1 /\ last <= N - steps - RequiredCandles + 1
  BY <1>1, <1>16 DEF RequiredCandles
<1>22. PICK Q : Q = {i \in P : i <= last}
  OBVIOUS
<1>23. past[n].records = Kept(s, Q)
  <2>1. past[n].records = Kept(s, {i \in DirectionalOf(s) : i <= n - steps - RequiredCandles + 1})
    BY <1>1, <1>3, <1>16, <1>17, <1>18, RecordsAre
  <2>2. DOMAIN s = 1 .. len
    BY <1>18 DEF RecordsOf
  <2>3. \A i \in DirectionalOf(s) : i \in Int
    BY <2>2 DEF DirectionalOf
  <2>4. \A i \in Int : i <= last => i <= N - steps - RequiredCandles + 1
    <3>1. PICK top \in Int : top = N - steps - RequiredCandles + 1
      BY <1>16 DEF RequiredCandles
    <3>2. last <= top
      BY <1>21, <3>1
    <3>3. \A i \in Int : i <= last => i <= top
      BY <3>2
    <3>4. QED
      BY <3>1, <3>3
  <2>5. {i \in DirectionalOf(s) : i <= n - steps - RequiredCandles + 1} = Q
    BY <1>19, <1>21, <1>22, <2>3, <2>4
  <2>6. QED
    BY <2>1, <2>5
<1>24. PICK T : T = {s[i] : i \in 1 .. len}
  OBVIOUS
<1>25. s \in Seq(T) /\ Len(s) = len /\ DOMAIN s = 1 .. len
  <2>1. s \in [1 .. len -> T]
    BY <1>18, <1>24 DEF RecordsOf
  <2>2. QED
    BY <2>1
<1>26. P \in SUBSET (1 .. Len(s))
  BY <1>19, <1>25 DEF DirectionalOf
<1>27. IsPrefix(past[n].records, past[N].records)
  BY <1>20, <1>22, <1>23, <1>25, <1>26, KeptPrefix
<1>28. ASSUME NEW r \in Range(past[N].records), r.end >= N - 36,
              Len(after) < 10 \/ after[1].time <= candles[r.end].time
       PROVE  \E m \in Range(after) : m.time = candles[r.end].time /\ m.direction = r.direction
  <2>1. PICK i \in P : r = s[i]
    <3>1. PICK list \in Seq(T) : list = Kept(s, P)
      BY <1>25, <1>26, KeptElements
    <3>2. \A k \in 1 .. Len(Kept(s, P)) : \E i \in P : Kept(s, P)[k] = s[i]
      BY <1>25, <1>26, KeptElements
    <3>3. PICK k \in 1 .. Len(list) : r = list[k]
      BY <1>20, <1>28, <3>1 DEF Range
    <3>4. QED
      BY <3>1, <3>2, <3>3
  <2>2. i \in 1 .. len /\ i <= N - steps - RequiredCandles + 1 /\ s[i].direction # "NO_SIGNAL"
    BY <1>19, <1>25 DEF DirectionalOf
  <2>3. PICK e \in RequiredCandles .. N : e = i + RequiredCandles - 1
    BY SMTT(40), <1>1, <1>16, <2>2 DEF RequiredCandles
  <2>4. r.end = e /\ r.direction = SignalOfWindow(ask, candles, e)
    BY <1>18, <2>1, <2>2, <2>3 DEF RecordsOf, RecordAt
  <2>5. e \in E
    BY <1>13, <1>28, <2>1, <2>2, <2>3, <2>4
  <2>6. ASSUME Len(after) = 10, NEW x \in After(E, e), after[1] = f[x] PROVE FALSE
    <3>1. x \in E /\ x > e
      BY <2>6 DEF After
    <3>2. x \in RequiredCandles .. N /\ f[x].time = candles[x].time
      BY <1>6, <1>13, <3>1
    <3>3. candles[x].time <= candles[e].time
      BY <1>28, <2>4, <2>6, <3>2
    <3>4. e \in 1 .. N /\ x \in 1 .. N
      BY <3>2 DEF RequiredCandles
    <3>5. candles[e].time < candles[x].time
      BY <1>1, <3>1, <3>4
    <3>6. QED
      BY <1>5, <3>3, <3>4, <3>5
  <2>7. Cardinality(After(E, e)) < 10
    BY <1>11, <2>5, <2>6
  <2>8. PICK j \in 1 .. Len(after) : after[j] = f[e]
    BY <1>11, <2>5, <2>7
  <2>9. f[e] \in Range(after)
    BY <1>11, <2>8 DEF Range
  <2>10. QED
    BY <1>6, <2>4, <2>9
<1>29. QED
  BY <1>1, <1>2, <1>7, <1>8, <1>15, <1>27, <1>28 DEF PastIsKept

-----------------------------------------------------------------------------
(* The short-window terminal: its numbers.                                   *)
Prices == Nat \ {0}
MinuteCandles == [open : Int, first : Prices, last : Prices]
Ticks == [time : Int, price : Prices]
KnownPrices == Prices \cup {Null}

LEMMA NullIsNoPrice == Null \in Int /\ Null < 0 /\ Null \notin Nat
BY DEF Null

LEMMA BpsAreNumbers ==
  ASSUME NEW price \in Int, NEW base \in Prices
  PROVE  Bps(price, base) \in Int
<1>1. PICK many \in Int : many = 10000
  OBVIOUS
<1>2. PICK up \in Int, down \in Int : up = (price - base) * many /\ down = (base - price) * many
  BY DEF Prices
<1>3. PICK u \in Int, d \in Int : u = up \div base /\ d = down \div base
  BY DEF Prices
<1>4. Bps(price, base) = IF price >= base THEN u ELSE -d
  BY <1>1, <1>2, <1>3 DEF Bps
<1>5. QED
  BY <1>4

\* The average of prices is a price.
LEMMA AverageIsAPrice ==
  ASSUME NEW prices \in Seq(Prices)
  PROVE  Average(prices) \in KnownPrices
<1>1. CASE prices = <<>>
  BY <1>1 DEF Average, KnownPrices
<1>2. CASE prices # <<>>
  <2>1. PICK N \in Nat : N = Len(prices) /\ N > 0
    BY <1>2
  <2>2. prices \in Seq(Int) /\ \A i \in 1 .. N : prices[i] >= 1
    <3>1. \A i \in 1 .. N : prices[i] \in Prices
      BY <2>1
    <3>2. \A i \in 1 .. N : prices[i] \in Int /\ prices[i] >= 1
      BY <3>1 DEF Prices
    <3>3. prices \in [1 .. N -> Int]
      BY <2>1, <3>2
    <3>4. QED
      BY <3>2, <3>3
  <2>3. PICK ones : ones = [i \in 1 .. N |-> 1]
    OBVIOUS
  <2>4. ones \in Seq(Int) /\ Len(ones) = N /\ \A i \in 1 .. N : ones[i] = 1
    BY <2>3
  <2>5. N * 1 <= Summed(ones) /\ Summed(ones) \in Int
    <3>1. PICK low \in Int : low = 1
      OBVIOUS
    <3>2. \A i \in 1 .. Len(ones) : low <= ones[i] /\ ones[i] <= low
      BY <2>4, <3>1
    <3>3. Len(ones) * low <= Summed(ones) /\ Summed(ones) \in Int
      BY <2>4, <3>2, SummedWithin
    <3>4. QED
      BY <2>4, <3>1, <3>3
  <2>6. Summed(ones) <= Summed(prices) /\ Summed(prices) \in Int
    <3>1. \A i \in 1 .. Len(ones) : ones[i] <= prices[i]
      BY <2>2, <2>4
    <3>2. QED
      BY <2>1, <2>2, <2>4, <3>1, SummedAtMost
  <2>7. PICK T \in Int : T = Summed(prices)
    BY <2>6
  <2>8. T >= N
    BY <2>5, <2>6, <2>7
  <2>9. T \div N \in Prices
    BY <2>1, <2>8 DEF Prices
  <2>10. Average(prices) = T \div N
    BY <1>2, <2>1, <2>7 DEF Average
  <2>11. QED
    BY <2>9, <2>10 DEF KnownPrices
<1>3. QED
  BY <1>1, <1>2

\* Roots exist.
LEMMA RootIsANumber ==
  ASSUME NEW n \in Nat
  PROVE  SquareRoot(n) \in Nat
<1>1. PICK R : R = {r \in 0 .. n : r * r <= n}
  OBVIOUS
<1>2. 0 \in R
  BY <1>1
<1>3. PICK r \in R : \A q \in R : q <= r
  <2>0. R \in SUBSET (0 .. n)
    BY <1>1, Zenon
  <2>1. R \subseteq Int /\ R # {} /\ R \in SUBSET (0 .. n)
    BY <1>2, <2>0
  <2>2. IsFiniteSet(0 .. n)
    BY FS_Interval
  <2>3. IsFiniteSet(R)
    BY <2>1, <2>2, FS_Subset
  <2>4. Max(R) \in R /\ \A q \in R : q <= Max(R)
    BY <2>1, <2>3, GreatestExists
  <2>5. QED
    BY <2>4
<1>4. r \in 0 .. n /\ r * r <= n
  BY <1>1
<1>5. (r + 1) * (r + 1) > n
  <2>1. CASE r = n
    BY <2>1, <1>4
  <2>2. CASE r < n
    <3>1. r + 1 \in 0 .. n /\ r + 1 \notin R
      BY <1>3, <1>4, <2>2
    <3>2. ~((r + 1) * (r + 1) <= n)
      BY <1>1, <3>1
    <3>3. QED
      BY <1>4, <3>2
  <2>3. QED
    BY <1>4, <2>1, <2>2
<1>6. \E q \in 0 .. n : q * q <= n /\ (q + 1) * (q + 1) > n
  BY <1>4, <1>5
<1>7. SquareRoot(n) \in 0 .. n
  BY <1>6, Zenon DEF SquareRoot
<1>8. QED
  BY <1>7

LEMMA VolatilityOfIsANumber ==
  ASSUME NEW returns \in Seq(Int), Len(returns) > 0
  PROVE  VolatilityOf(returns) \in Nat
<1>1. PICK N \in Nat : N = Len(returns) /\ N > 0 /\ DOMAIN returns = 1 .. N
  BY LenProperties
<1>2. PICK T \in Int : T = Summed(returns)
  BY SummedAppend
<1>3. PICK mean \in Int : mean = T \div N
  BY <1>1
<1>4. PICK squares : squares = [i \in 1 .. N |-> (returns[i] - mean) * (returns[i] - mean)]
  OBVIOUS
<1>5. squares \in Seq(Int) /\ Len(squares) = N /\ \A i \in 1 .. N : squares[i] >= 0
  <2>1. SUFFICES ASSUME NEW i \in 1 .. N PROVE squares[i] \in Int /\ squares[i] >= 0
    BY <1>4
  <2>2. PICK d \in Int : d = returns[i] - mean
    BY <1>1
  <2>3. squares[i] = d * d
    BY <1>4, <2>2
  <2>4. d * d \in Int /\ d * d >= 0
    OBVIOUS
  <2>5. QED
    BY <2>3, <2>4
<1>6. PICK zeros : zeros = [i \in 1 .. N |-> 0]
  OBVIOUS
<1>7. zeros \in Seq(Int) /\ Len(zeros) = N /\ \A i \in 1 .. N : zeros[i] = 0
  BY <1>6
<1>8. Summed(zeros) = 0
  <2>1. PICK low \in Int : low = 0
    OBVIOUS
  <2>2. \A i \in 1 .. Len(zeros) : low <= zeros[i] /\ zeros[i] <= low
    BY <1>7, <2>1
  <2>3. /\ Len(zeros) * low <= Summed(zeros) /\ Summed(zeros) <= Len(zeros) * low
        /\ Summed(zeros) \in Int
    BY <1>7, <2>2, SummedWithin
  <2>4. QED
    BY <1>7, <2>1, <2>3
<1>9. Summed(squares) \in Nat
  <2>1. \A i \in 1 .. Len(zeros) : zeros[i] <= squares[i]
    BY <1>5, <1>7
  <2>2. Summed(zeros) <= Summed(squares) /\ Summed(squares) \in Int
    BY <1>5, <1>7, <2>1, SummedAtMost
  <2>3. QED
    BY <1>8, <2>2
<1>10. Summed(squares) \div N \in Nat
  BY <1>1, <1>9, ShareIsNatural
<1>11. VolatilityOf(returns) = SquareRoot(Summed(squares) \div N)
  BY <1>1, <1>2, <1>3, <1>4 DEF VolatilityOf
<1>12. QED
  BY <1>10, <1>11, RootIsANumber

LEMMA VolatilityIsANumber ==
  ASSUME NEW candles \in Seq(MinuteCandles)
  PROVE  Volatility(candles) \in Nat \cup {Null}
<1>1. PICK N \in Nat : N = Len(candles)
  OBVIOUS
<1>2. PICK from \in Int : from = Max({1, N - 8}) /\ from >= 1
  BY MaxOfTwo
<1>3. PICK last : last = SubSeq(candles, from, N)
  OBVIOUS
<1>4. last \in Seq(MinuteCandles)
  <2>1. \A i \in from .. N : candles[i] \in MinuteCandles
    BY <1>1, <1>2
  <2>2. SubSeq(candles, from, N) \in Seq(MinuteCandles)
    BY <2>1, SubSeqProperties
  <2>3. QED
    BY <1>3, <2>2
<1>5. PICK M \in Nat : M = Len(last)
  BY <1>4
<1>6. CASE M < 3
  <2>1. last = SubSeq(candles, Max({1, Len(candles) - 8}), Len(candles)) /\ Len(last) < 3
    BY <1>1, <1>2, <1>3, <1>5, <1>6
  <2>2. Volatility(candles) = Null
    BY <2>1, Zenon DEF Volatility
  <2>3. QED
    BY <2>2
<1>7. CASE M >= 3
  <2>1. PICK returns : returns = [i \in 1 .. M - 1 |-> Bps(last[i + 1].last, last[i].last)]
    OBVIOUS
  <2>2. returns \in Seq(Int) /\ Len(returns) = M - 1
    <3>1. SUFFICES ASSUME NEW i \in 1 .. M - 1 PROVE Bps(last[i + 1].last, last[i].last) \in Int
      BY <1>7, <2>1
    <3>2. last[i] \in MinuteCandles /\ last[i + 1] \in MinuteCandles
      BY <1>4, <1>5
    <3>3. last[i].last \in Prices /\ last[i + 1].last \in Prices /\ last[i + 1].last \in Int
      BY <3>2 DEF MinuteCandles, Prices
    <3>4. QED
      BY <3>3, BpsAreNumbers
  <2>3. VolatilityOf(returns) \in Nat
    BY <1>7, <2>2, VolatilityOfIsANumber
  <2>4. Volatility(candles) = VolatilityOf(returns)
    <3>1. last = SubSeq(candles, Max({1, Len(candles) - 8}), Len(candles))
      BY <1>1, <1>2, <1>3
    <3>2. ~(Len(last) < 3) /\ returns = [i \in 1 .. Len(last) - 1 |-> Bps(last[i + 1].last, last[i].last)]
      BY <1>5, <1>7, <2>1
    <3>3. QED
      BY <3>1, <3>2, Zenon DEF Volatility
  <2>5. QED
    BY <2>3, <2>4
<1>8. QED
  BY <1>5, <1>6, <1>7

-----------------------------------------------------------------------------
(* The short-window terminal: when it gives a direction.                     *)
\* A rule as the templates make them.
IsWindowRule(rule) ==
  /\ rule.type \in {"END_PRICE", "END_AVERAGE", "UNKNOWN"}
  /\ rule.confidence \in {"high", "medium", "low", "unknown"}
  /\ rule.type = "END_AVERAGE" => rule.startSeconds \in 0 .. 300 /\ rule.endSeconds \in 0 .. 300

\* What the features of a market are made of, and what they are.
IsState(state) ==
  /\ state.candles \in Seq(MinuteCandles) /\ state.tick \in Int /\ state.spread \in Int
  /\ state.now \in Int /\ state.staleAfter \in Int
AreFeatures(f) ==
  /\ f.momentum \in Int /\ f.body \in Int /\ f.volatility \in Int /\ f.spread \in Int
  /\ f.noise \in Int /\ f.noise >= 200

LEMMA FeaturesAreNumbers ==
  ASSUME NEW event, event.distance \in Int, NEW state, IsState(state), NEW volatility \in Int
  PROVE  AreFeatures(FeaturesOf(event, state, volatility))
<1>1. PICK candles \in Seq(MinuteCandles), N \in Nat : candles = state.candles /\ N = Len(candles)
  BY DEF IsState
<1>0. \A i \in 1 .. N : candles[i] \in MinuteCandles
  BY <1>1
<1>2. PICK v \in Int, s \in Int, v3 \in Int, s10 \in Int, d \in Int :
        /\ v = FirstNumber(volatility, 0) /\ s = FirstNumber(state.spread, 0)
        /\ v3 = FirstNumber(volatility, 3) /\ s10 = FirstNumber(state.spread, 10)
        /\ d = FirstNumber(event.distance, 0)
  <2>1. state.spread \in Int
    BY DEF IsState
  <2>2. /\ FirstNumber(volatility, 0) \in Int /\ FirstNumber(volatility, 3) \in Int
        /\ FirstNumber(state.spread, 0) \in Int /\ FirstNumber(state.spread, 10) \in Int
        /\ FirstNumber(event.distance, 0) \in Int
    BY <2>1 DEF FirstNumber
  <2>3. QED
    BY <2>2
<1>3. PICK noise \in Int : noise = 55 * v3 + 20 * s10 + 150
  OBVIOUS
<1>4. PICK most \in Int : most = 3500
  OBVIOUS
<1>5. Min({most, noise}) \in Int
  BY MinOfTwo
<1>6. PICK n \in Int : n = Max({200, Min({most, noise})}) /\ n >= 200
  <2>1. PICK low \in Int, other \in Int : low = 200 /\ other = Min({most, noise})
    BY <1>5
  <2>2. Max({low, other}) = IF low >= other THEN low ELSE other
    BY MaxOfTwo
  <2>3. QED
    BY <2>1, <2>2
<1>7. CASE N = 0
  <2>1. FeaturesOf(event, state, volatility).momentum = d
    BY <1>1, <1>2, <1>7 DEF FeaturesOf
  <2>2. FeaturesOf(event, state, volatility).body = 0
    BY <1>1, <1>7 DEF FeaturesOf
  <2>3. /\ FeaturesOf(event, state, volatility).volatility = v
        /\ FeaturesOf(event, state, volatility).spread = s
        /\ FeaturesOf(event, state, volatility).noise = n
    BY <1>2, <1>3, <1>4, <1>6 DEF FeaturesOf
  <2>4. QED
    BY <1>2, <1>6, <2>1, <2>2, <2>3 DEF AreFeatures
<1>8. CASE N > 0
  <2>1. PICK k \in 1 .. N : k = Max({1, N - 3})
    <3>1. Max({1, N - 3}) \in 1 .. N
      BY <1>8, MaxOfTwo
    <3>2. QED
      BY <3>1
  <2>2. candles[N] \in MinuteCandles /\ candles[k] \in MinuteCandles
    <3>1. N \in 1 .. N
      BY <1>8
    <3>2. QED
      BY <1>0, <2>1, <3>1
  <2>3. candles[N].last \in Int /\ candles[N].first \in Prices /\ candles[k].last \in Prices
    BY SMTT(40), <2>2 DEF MinuteCandles, Prices
  <2>4. PICK m \in Int, b \in Int : m = Bps(candles[N].last, candles[k].last) /\ b = Bps(candles[N].last, candles[N].first)
    BY <2>3, BpsAreNumbers
  <2>5. FeaturesOf(event, state, volatility).momentum = m
    BY <1>1, <1>8, <2>1, <2>4 DEF FeaturesOf
  <2>6. FeaturesOf(event, state, volatility).body = b
    BY <1>1, <1>8, <2>4 DEF FeaturesOf
  <2>7. /\ FeaturesOf(event, state, volatility).volatility = v
        /\ FeaturesOf(event, state, volatility).spread = s
        /\ FeaturesOf(event, state, volatility).noise = n
    BY <1>2, <1>3, <1>4, <1>6 DEF FeaturesOf
  <2>8. QED
    BY <1>2, <1>6, <2>4, <2>5, <2>6, <2>7 DEF AreFeatures
<1>9. QED
  BY <1>7, <1>8

LEMMA WindowScoreIs ==
  ASSUME NEW event, event.distance \in Int, NEW f, AreFeatures(f)
  PROVE  DirectionalScore(event, f) \in Int
<1>1. PICK d \in Int, m \in Int, b \in Int, s \in Int, v \in Int :
        d = FirstNumber(event.distance, 0) /\ m = f.momentum /\ b = f.body /\ s = f.spread /\ v = f.volatility
  <2>1. FirstNumber(event.distance, 0) \in Int
    BY DEF FirstNumber
  <2>2. f.momentum \in Int /\ f.body \in Int /\ f.spread \in Int /\ f.volatility \in Int
    BY DEF AreFeatures
  <2>3. QED
    BY <2>1, <2>2
<1>2. PICK way \in Int : way = Sign(IF d # 0 THEN d ELSE m)
  BY DEF Sign
<1>3. PICK wild \in Int : wild = Max({0, v - 35})
  BY MaxOfTwo
<1>4. PICK less \in Int : less = 15 * s + 8 * wild
  OBVIOUS
<1>5. PICK lost \in Int : lost = way * less
  OBVIOUS
<1>6. DirectionalScore(event, f) = 52 * d + 36 * m + 12 * b - lost
  BY <1>1, <1>2, <1>3, <1>4, <1>5 DEF DirectionalScore
<1>7. QED
  BY <1>6

\* What has to be so for a direction.
LEMMA DirectionMeans ==
  ASSUME NEW event, NEW f, AreFeatures(f), NEW score \in Int, NEW least \in Int,
         event.rule.confidence \in {"high", "medium", "low", "unknown"},
         NEW signal, signal = SignalOf(event, f, score, least), Directional(signal.side)
  PROVE  /\ event.rule.type # "UNKNOWN" /\ event.current # Null /\ event.reference # Null /\ ~f.stale
         /\ event.phase \notin {"forming", "closed", "no_entry_zone"}
         /\ signal.confidence <= ConfidenceCap[event.rule.confidence]
<1>1. PICK cap \in Int : cap = ConfidenceCap[event.rule.confidence]
  BY DEF ConfidenceCap
<1>2. PICK size \in Int : size = Max({score, -score}) /\ size >= 0
  BY MaxOfTwo
<1>3. PICK wide \in Int : wide = Max({100, 3 * f.noise}) /\ wide > 0
  BY MaxOfTwo DEF AreFeatures
<1>4. PICK share \in Int : share = (size * 10000) \div wide
  <2>1. PICK many \in Int : many = size * 10000
    OBVIOUS
  <2>2. many \div wide \in Int
    BY <1>3
  <2>3. QED
    BY <2>1, <2>2
<1>5. PICK sure \in Int : sure = Min({cap, share}) /\ sure <= cap
  BY MinOfTwo
<1> DEFINE Says(side, c, s) == [side |-> side, confidence |-> c, score |-> s]
<1>6. ~Directional("WAIT") /\ ~Directional("REJECTED")
  BY DEF Directional
<1>7. SignalRejections(event, f) = {}
  <2>1. SUFFICES ASSUME SignalRejections(event, f) # {} PROVE FALSE
    OBVIOUS
  <2>2. signal = Says("REJECTED", 0, 0)
    BY <2>1 DEF SignalOf
  <2>3. signal.side = "REJECTED"
    BY <2>2
  <2>4. QED
    BY <1>6, <2>3
<1>8. event.phase \notin {"forming", "closed", "no_entry_zone"}
  <2>1. SUFFICES ASSUME event.phase \in {"forming", "closed", "no_entry_zone"} PROVE FALSE
    OBVIOUS
  <2>2. signal.side = "WAIT"
    BY <1>7, <2>1 DEF SignalOf
  <2>3. QED
    BY <1>6, <2>2
<1>9. signal.confidence = sure
  <2>1. signal = IF f.volatility > 90 THEN Says("WAIT", 2000, 0)
                 ELSE IF size < f.noise THEN Says("WAIT", Min({sure, 2800}), score)
                 ELSE IF sure < least THEN Says("WAIT", sure, score)
                 ELSE Says(IF score > 0 THEN "LONG_UP" ELSE "LONG_DOWN", sure, score)
    BY <1>1, <1>2, <1>3, <1>4, <1>5, <1>7, <1>8 DEF SignalOf
  <2>2. signal.side = "WAIT" \/ signal.confidence = sure
    BY <2>1
  <2>3. QED
    BY <1>6, <2>2
<1>10. /\ event.rule.type # "UNKNOWN" /\ event.current # Null /\ event.reference # Null /\ ~f.stale
  <2>1. \A reason \in {"rule", "reference", "price", "stale"} : reason \notin SignalRejections(event, f)
    BY <1>7
  <2>2. event.rule.type # "UNKNOWN"
    BY <2>1 DEF SignalRejections
  <2>3. event.reference # Null
    BY <2>1 DEF SignalRejections
  <2>4. event.current # Null
    BY <2>1 DEF SignalRejections
  <2>5. ~f.stale
    BY <2>1 DEF SignalRejections
  <2>6. QED
    BY <2>2, <2>3, <2>4, <2>5
<1>11. QED
  BY <1>1, <1>5, <1>8, <1>9, <1>10

-----------------------------------------------------------------------------
(* The event that runs.                                                      *)
LEMMA LastsAverage ==
  ASSUME NEW some \in Seq(MinuteCandles)
  PROVE  Average([i \in DOMAIN some |-> some[i].last]) \in KnownPrices
<1>1. PICK N \in Nat : N = Len(some) /\ DOMAIN some = 1 .. N
  BY LenProperties
<1>2. \A i \in 1 .. N : some[i].last \in Prices
  <2>1. \A i \in 1 .. N : some[i] \in MinuteCandles
    BY <1>1
  <2>2. QED
    BY <2>1 DEF MinuteCandles
<1>3. [i \in 1 .. N |-> some[i].last] \in Seq(Prices)
  BY <1>2
<1>4. QED
  BY <1>1, <1>3, AverageIsAPrice

LEMMA CandleAverageIs ==
  ASSUME NEW candles \in Seq(MinuteCandles), NEW start, NEW end
  PROVE  CandleAverage(candles, start, end) \in KnownPrices
<1>1. PICK P : P = {i \in DOMAIN candles : candles[i].open < end /\ CloseTime(candles[i]) > start}
  OBVIOUS
<1>2. P \in SUBSET (1 .. Len(candles))
  BY <1>1
<1>3. PICK some : some = Kept(candles, P)
  OBVIOUS
<1>4. some \in Seq(MinuteCandles)
  BY <1>2, <1>3, KeptElements
<1>5. CandleAverage(candles, start, end) = Average([i \in DOMAIN some |-> some[i].last])
  BY <1>1, <1>3, Zenon DEF CandleAverage
<1>6. QED
  BY <1>4, <1>5, LastsAverage

LEMMA AverageReferenceIs ==
  ASSUME NEW ticks \in Seq(Ticks), NEW candles \in Seq(MinuteCandles), NEW start, NEW end
  PROVE  AverageReference(ticks, candles, start, end) \in KnownPrices
<1>1. PICK P : P = {i \in DOMAIN ticks : start <= ticks[i].time /\ ticks[i].time <= end}
  OBVIOUS
<1>2. P \in SUBSET (1 .. Len(ticks))
  BY <1>1
<1>3. PICK within : within = Kept(ticks, P)
  OBVIOUS
<1>4. within \in Seq(Ticks)
  BY <1>2, <1>3, KeptElements
<1>5. AverageReference(ticks, candles, start, end)
        = IF within = <<>> THEN CandleAverage(candles, start, end)
          ELSE Average([i \in DOMAIN within |-> within[i].price])
  BY <1>1, <1>3, Zenon DEF AverageReference
<1>6. Average([i \in DOMAIN within |-> within[i].price]) \in KnownPrices
  <2>1. PICK N \in Nat : N = Len(within) /\ DOMAIN within = 1 .. N
    BY <1>4, LenProperties
  <2>2. \A i \in 1 .. N : within[i].price \in Prices
    <3>1. \A i \in 1 .. N : within[i] \in Ticks
      BY <1>4, <2>1
    <3>2. QED
      BY <3>1 DEF Ticks
  <2>3. [i \in 1 .. N |-> within[i].price] \in Seq(Prices)
    BY <2>2
  <2>4. QED
    BY <2>1, <2>3, AverageIsAPrice
<1>7. QED
  BY <1>5, <1>6, CandleAverageIs

\* The ends of what is kept.
LEMMA KeptEndsIn ==
  ASSUME NEW S, NEW s \in Seq(S), NEW P \in SUBSET (1 .. Len(s)), NEW list, list = Kept(s, P), list # <<>>
  PROVE  /\ list \in Seq(S) /\ list[1] \in S /\ list[Len(list)] \in S /\ P # {}
         /\ \E i \in P : list[1] = s[i]
         /\ \E i \in P : list[Len(list)] = s[i]
<1>1. list \in Seq(S) /\ P # {}
  BY KeptElements
<1>2. /\ Len(list) > 0
      /\ \E i \in P : list[1] = s[i] /\ \A j \in P : i <= j
      /\ \E i \in P : list[Len(list)] = s[i] /\ \A j \in P : j <= i
  BY <1>1, KeptEnds
<1>3. list[1] \in S /\ list[Len(list)] \in S
  BY <1>1, <1>2
<1>4. QED
  BY <1>1, <1>2, <1>3

LEMMA StartReferenceIs ==
  ASSUME NEW rule, IsWindowRule(rule), NEW ticks \in Seq(Ticks), NEW candles \in Seq(MinuteCandles),
         NEW start, NEW now
  PROVE  StartReference(rule, ticks, candles, start, now) \in KnownPrices
<1>1. PICK P : P = {i \in DOMAIN ticks : start <= ticks[i].time /\ ticks[i].time <= now}
  OBVIOUS
<1>2. PICK Q : Q = {i \in DOMAIN candles : start <= candles[i].open /\ candles[i].open <= now}
  OBVIOUS
<1>3. PICK R : R = {i \in DOMAIN candles : candles[i].open <= start /\ CloseTime(candles[i]) > start}
  OBVIOUS
<1>4. PICK within : within = Kept(ticks, P)
  OBVIOUS
<1>5. PICK begun : begun = Kept(candles, Q)
  OBVIOUS
<1>6. PICK covering : covering = Kept(candles, R)
  OBVIOUS
<1>7. within # <<>> => within[1].price \in Prices
  <2>1. P \in SUBSET (1 .. Len(ticks))
    BY <1>1
  <2>2. within # <<>> => within[1] \in Ticks
    BY <1>4, <2>1, KeptEndsIn
  <2>3. QED
    BY <2>2 DEF Ticks
<1>8. begun # <<>> => begun[1].first \in Prices
  <2>1. Q \in SUBSET (1 .. Len(candles))
    BY <1>2
  <2>2. begun # <<>> => begun[1] \in MinuteCandles
    BY <1>5, <2>1, KeptEndsIn
  <2>3. QED
    BY <2>2 DEF MinuteCandles
<1>9. covering # <<>> => covering[Len(covering)].first \in Prices
  <2>1. R \in SUBSET (1 .. Len(candles))
    BY <1>3
  <2>2. covering # <<>> => covering[Len(covering)] \in MinuteCandles
    BY <1>6, <2>1, KeptEndsIn
  <2>3. QED
    BY <2>2 DEF MinuteCandles
<1>10. Null \in KnownPrices /\ Prices \subseteq KnownPrices
  BY DEF KnownPrices
<1>11. CASE rule.type = "UNKNOWN"
  BY <1>10, <1>11 DEF StartReference
<1>12. CASE rule.type = "END_AVERAGE"
  <2>1. StartReference(rule, ticks, candles, start, now)
          = AverageReference(ticks, candles, start, Min({start + rule.startSeconds, now}))
    BY <1>12 DEF StartReference
  <2>2. QED
    BY <2>1, AverageReferenceIs
<1>13. CASE rule.type = "END_PRICE"
  <2>1. StartReference(rule, ticks, candles, start, now)
          = IF within # <<>> THEN within[1].price
            ELSE IF begun # <<>> THEN begun[1].first
            ELSE IF covering # <<>> THEN covering[Len(covering)].first ELSE Null
    BY <1>1, <1>2, <1>3, <1>4, <1>5, <1>6, <1>13 DEF StartReference
  <2>2. QED
    BY <1>7, <1>8, <1>9, <1>10, <2>1
<1>14. QED
  BY <1>11, <1>12, <1>13 DEF IsWindowRule

\* With a tick of now or before, its price counts, or else a candle's.
LEMMA CurrentPriceIs ==
  ASSUME NEW ticks \in Seq(Ticks), NEW candles \in Seq(MinuteCandles), NEW now \in Int
  PROVE  /\ CurrentPrice(ticks, candles, now) \in KnownPrices
         /\ (\A i \in DOMAIN ticks : ticks[i].time > now) =>
              CurrentPrice(ticks, candles, now) \in {Null} \cup {candles[i].last : i \in DOMAIN candles}
         /\ \A tick \in Ticks : ticks = <<tick>> /\ tick.time <= now =>
              CurrentPrice(ticks, candles, now) = tick.price
<1>1. PICK P : P = {i \in DOMAIN ticks : ticks[i].time <= now}
  OBVIOUS
<1>2. PICK Q : Q = {i \in DOMAIN candles : candles[i].open <= now}
  OBVIOUS
<1>3. PICK past : past = Kept(ticks, P)
  OBVIOUS
<1>4. PICK begun : begun = Kept(candles, Q)
  OBVIOUS
<1>5. CurrentPrice(ticks, candles, now)
        = IF past # <<>> THEN past[Len(past)].price
          ELSE IF begun # <<>> THEN begun[Len(begun)].last ELSE Null
  BY <1>1, <1>2, <1>3, <1>4, Zenon DEF CurrentPrice, UpTo
<1>6. P \in SUBSET (1 .. Len(ticks)) /\ Q \in SUBSET (1 .. Len(candles))
  BY <1>1, <1>2
<1>7. past # <<>> => past[Len(past)].price \in Prices /\ P # {}
  <2>1. past # <<>> => past[Len(past)] \in Ticks /\ P # {}
    BY <1>3, <1>6, KeptEndsIn
  <2>2. QED
    BY <2>1 DEF Ticks
<1>8. begun # <<>> => /\ begun[Len(begun)].last \in Prices
                      /\ begun[Len(begun)].last \in {candles[i].last : i \in DOMAIN candles}
  <2>1. begun # <<>> => begun[Len(begun)] \in MinuteCandles /\ \E i \in Q : begun[Len(begun)] = candles[i]
    BY <1>4, <1>6, KeptEndsIn
  <2>2. Q \subseteq DOMAIN candles
    BY <1>2
  <2>3. QED
    BY <2>1, <2>2 DEF MinuteCandles
<1>9. CurrentPrice(ticks, candles, now) \in KnownPrices
  BY <1>5, <1>7, <1>8 DEF KnownPrices
<1>10. ASSUME \A i \in DOMAIN ticks : ticks[i].time > now
       PROVE  CurrentPrice(ticks, candles, now) \in {Null} \cup {candles[i].last : i \in DOMAIN candles}
  <2>1. P = {}
    <3>1. SUFFICES ASSUME NEW i \in P PROVE FALSE
      OBVIOUS
    <3>2. i \in DOMAIN ticks /\ ticks[i] \in Ticks /\ ticks[i].time <= now
      BY <1>1
    <3>3. ticks[i].time \in Int /\ ticks[i].time > now
      BY <1>10, <3>2 DEF Ticks
    <3>4. QED
      BY <3>2, <3>3
  <2>2. past = <<>>
    BY <1>7, <2>1
  <2>3. QED
    BY <1>5, <1>8, <2>2
<1>11. ASSUME NEW tick \in Ticks, ticks = <<tick>>, tick.time <= now
       PROVE  CurrentPrice(ticks, candles, now) = tick.price
  <2>1. Len(ticks) = 1 /\ DOMAIN ticks = 1 .. 1 /\ ticks[1] = tick
    BY <1>11
  <2>2. P = 1 .. Len(ticks)
    BY <1>1, <1>11, <2>1
  <2>3. past = ticks
    BY <1>3, <2>2, KeptWhole
  <2>4. past # <<>> /\ past[Len(past)] = tick
    <3>1. Len(past) = 1 /\ past[1] = tick
      BY <2>1, <2>3
    <3>3. past # <<>>
      <4>1. SUFFICES ASSUME past = <<>> PROVE FALSE
        OBVIOUS
      <4>2. Len(past) = 0
        BY <4>1
      <4>3. QED
        BY <3>1, <4>2
    <3>4. QED
      BY <3>1, <3>3
  <2>5. QED
    BY <1>5, <2>4
<1>12. QED
  BY <1>9, <1>10, <1>11

IsMarket(market) ==
  /\ market.price \in KnownPrices /\ market.tickerTime \in Nat \cup {Null} /\ market.spread \in Int
  /\ market.candles \in Seq(MinuteCandles)

\* What CurrentResponse makes of a market.
StateOfMarket(market, tick, now) ==
  [candles |-> market.candles, tick |-> tick, spread |-> market.spread, now |-> now,
   staleAfter |-> 120, minConfidence |-> 3800]

LEMMA EventOfIs ==
  ASSUME NEW rule, NEW start \in Int, NEW end \in Int, NEW now \in Int,
         NEW reference \in KnownPrices, NEW current \in KnownPrices,
         NEW event, event = EventOf(rule, start, end, now, reference, current)
  PROVE  /\ event.rule = rule /\ event.start = start /\ event.end = end
         /\ event.reference = reference /\ event.current = current /\ event.distance \in Int
         /\ event.phase \notin {"forming", "closed", "no_entry_zone"} =>
              start + 30 <= now /\ now < end - 20
<1>1. /\ event.rule = rule /\ event.start = start /\ event.end = end
      /\ event.reference = reference /\ event.current = current
      /\ event.phase = Phase(start, end, now, reference)
      /\ event.distance = IF Null \in {reference, current} THEN Null ELSE Bps(current, reference)
  BY DEF EventOf
<1>2. event.distance \in Int
  <2>1. CASE Null \in {reference, current}
    BY <1>1, <2>1, NullIsNoPrice
  <2>2. CASE Null \notin {reference, current}
    <3>1. current \in Int /\ reference \in Prices
      BY <2>2 DEF KnownPrices, Prices
    <3>2. Bps(current, reference) \in Int
      BY <3>1, BpsAreNumbers
    <3>3. QED
      BY <1>1, <2>2, <3>2
  <2>3. QED
    BY <2>1, <2>2
<1>3. ASSUME event.phase \notin {"forming", "closed", "no_entry_zone"}
      PROVE  start + 30 <= now /\ now < end - 20
  <2>1. ~(now >= end)
    BY <1>1, <1>3 DEF Phase
  <2>2. ~(now < start + 30)
    BY <1>1, <1>3, <2>1 DEF Phase
  <2>3. ~(end - now <= 20)
    <3>1. SUFFICES ASSUME end - now <= 20 PROVE FALSE
      OBVIOUS
    <3>2. event.phase \in {"forming", "no_entry_zone"}
      BY <1>1, <2>1, <3>1 DEF Phase
    <3>3. QED
      BY <1>3, <3>2
  <2>4. QED
    BY <2>1, <2>2, <2>3
<1>4. QED
  BY <1>1, <1>2, <1>3

\* A direction is for a rule that is known, within the window but not at its
\* edges, and from a fresh price: shortWindow's buildShortWindowSignal and
\* the terminal's current event, for any candles, ticker and time.
THEOREM DirectionBacked ==
  ASSUME NEW rule, IsWindowRule(rule), NEW interval \in Nat \ {0}, NEW now \in Nat,
         NEW market, IsMarket(market)
  PROVE  DirectionIsBacked(rule, interval, now, market)
<1>1. PICK candles \in Seq(MinuteCandles), price \in KnownPrices, at \in Nat \cup {Null} :
        candles = market.candles /\ price = market.price /\ at = market.tickerTime
  BY DEF IsMarket
<1>2. PICK tick \in Nat \cup {Null} : tick = IF price = Null THEN Null ELSE FirstNumber(at, now)
  BY DEF FirstNumber
<1>3. tick = Null <=> price = Null
  BY <1>2, NullIsNoPrice DEF FirstNumber
<1>4. PICK last : last = [time |-> tick, price |-> price]
  OBVIOUS
<1>5. last.time = tick /\ last.price = price /\ (tick # Null => last \in Ticks)
  BY <1>3, <1>4 DEF Ticks, KnownPrices
<1>6. PICK ticks : ticks = IF tick = Null THEN <<>> ELSE <<last>>
  OBVIOUS
<1>7. ticks \in Seq(Ticks)
  <2>1. CASE tick = Null
    BY <1>6, <2>1
  <2>2. CASE tick # Null
    BY <1>5, <1>6, <2>2
  <2>3. QED
    BY <2>1, <2>2
<1>8. PICK state : state = StateOfMarket(market, tick, now)
  OBVIOUS
<1>9. /\ state.candles = candles /\ state.tick = tick /\ state.spread = market.spread
      /\ state.now = now /\ state.staleAfter = 120 /\ state.minConfidence \in Int
  BY <1>1, <1>8 DEF StateOfMarket
<1>10. PICK start \in Int : start = (now \div interval) * interval
  OBVIOUS
<1>11. PICK reference \in KnownPrices : reference = StartReference(rule, ticks, candles, start, now)
  BY <1>7, StartReferenceIs
<1>12. PICK current \in KnownPrices : current = CurrentPrice(ticks, candles, now)
  BY <1>7, CurrentPriceIs
<1>13. PICK event : event = EventOf(rule, start, start + interval, now, reference, current)
  OBVIOUS
<1>14. PICK volatility \in Int : volatility = Volatility(candles)
  BY VolatilityIsANumber, NullIsNoPrice
<1>15. PICK f : f = FeaturesOf(event, state, volatility)
  OBVIOUS
<1>16. PICK signal : signal = SignalOf(event, f, DirectionalScore(event, f), state.minConfidence)
  OBVIOUS
<1>17. CurrentResponse(rule, interval, now, market) = [event |-> event, signal |-> signal]
  <2>1. CurrentEvent(rule, interval, now, ticks, candles) = event
    BY <1>10, <1>11, <1>12, <1>13, Zenon DEF CurrentEvent
  <2>2. GenerateSignal(event, state) = signal
    BY <1>9, <1>14, <1>15, <1>16, Zenon DEF GenerateSignal, MarketFeatures
  <2>3. CurrentResponse(rule, interval, now, market) = WithSignal(CurrentEvent(rule, interval, now, ticks, candles), state)
    BY <1>1, <1>2, <1>4, <1>6, <1>8 DEF CurrentResponse, StateOfMarket
  <2>4. QED
    BY <2>1, <2>2, <2>3, Zenon DEF WithSignal
<1>18. /\ event.rule = rule /\ event.start = start /\ event.end = start + interval
       /\ event.reference = reference /\ event.current = current /\ event.distance \in Int
       /\ event.phase \notin {"forming", "closed", "no_entry_zone"} =>
            start + 30 <= now /\ now < (start + interval) - 20
  BY <1>13, EventOfIs
<1>19. AreFeatures(f)
  <2>1. IsState(state)
    BY <1>1, <1>9, NullIsNoPrice DEF IsState, IsMarket
  <2>2. QED
    BY <1>15, <1>18, <2>1, FeaturesAreNumbers
<1>20. tick # Null => f.stale = (now - tick > 120)
  BY <1>9, <1>15 DEF FeaturesOf
<1>21. SUFFICES ASSUME Directional(signal.side)
       PROVE  /\ rule.type # "UNKNOWN"
              /\ start + 30 <= now /\ now < (start + interval) - 20
              /\ IF tick # Null /\ tick <= now
                 THEN now - tick <= 120 /\ current = price
                 ELSE current \in {candles[i].last : i \in DOMAIN candles}
              /\ signal.confidence <= ConfidenceCap[rule.confidence]
  <2>1. PICK response : response = [event |-> event, signal |-> signal]
    OBVIOUS
  <2>2. response.event = event /\ response.signal = signal
    BY <2>1
  <2>3. QED
    BY <1>1, <1>2, <1>17, <1>18, <1>21, <2>1, <2>2, Zenon DEF DirectionIsBacked
<1>22. DirectionalScore(event, f) \in Int
  BY <1>18, <1>19, WindowScoreIs
<1>23. /\ event.rule.type # "UNKNOWN" /\ event.current # Null /\ event.reference # Null /\ ~f.stale
       /\ event.phase \notin {"forming", "closed", "no_entry_zone"}
       /\ signal.confidence <= ConfidenceCap[event.rule.confidence]
  <2>1. event.rule.confidence \in {"high", "medium", "low", "unknown"}
    BY <1>18 DEF IsWindowRule
  <2>2. QED
    BY ZenonT(40), <1>9, <1>16, <1>19, <1>21, <1>22, <2>1, DirectionMeans
<1>24. ASSUME tick # Null, tick <= now PROVE now - tick <= 120 /\ current = price
  <2>1. now - tick <= 120
    <3>1. f.stale = (now - tick > 120)
      BY <1>20, <1>24
    <3>2. ~(now - tick > 120)
      BY <1>23, <3>1, Zenon
    <3>3. now \in Int /\ tick \in Int
      BY NullIsNoPrice
    <3>4. QED
      BY <3>2, <3>3
  <2>2. last \in Ticks /\ ticks = <<last>> /\ last.time <= now
    BY <1>5, <1>6, <1>24
  <2>3. CurrentPrice(ticks, candles, now) = last.price
    <3>1. now \in Int
      OBVIOUS
    <3>2. \A t \in Ticks : ticks = <<t>> /\ t.time <= now => CurrentPrice(ticks, candles, now) = t.price
      BY <1>7, <3>1, CurrentPriceIs
    <3>3. QED
      BY <2>2, <3>2, Zenon
  <2>4. QED
    BY <1>5, <1>12, <2>1, <2>3
<1>25. ASSUME ~(tick # Null /\ tick <= now) PROVE current \in {candles[i].last : i \in DOMAIN candles}
  <2>1. \A i \in DOMAIN ticks : ticks[i].time > now
    <3>1. CASE tick = Null
      BY <1>6, <3>1
    <3>2. CASE tick # Null
      <4>1. ticks = <<last>> /\ last.time > now
        BY <1>5, <1>6, <1>25, <3>2
      <4>2. QED
        BY <4>1
    <3>3. QED
      BY <3>1, <3>2
  <2>2. CurrentPrice(ticks, candles, now) \in {Null} \cup {candles[i].last : i \in DOMAIN candles}
    BY <1>7, <2>1, CurrentPriceIs
  <2>3. QED
    BY <1>12, <1>18, <1>23, <2>2
<1>26. QED
  BY <1>18, <1>23, <1>24, <1>25

-----------------------------------------------------------------------------
(* Windows of the past.                                                      *)
WindowIntervals == {300, 600, 900}

\* Times of windows that are settled, and of the signals in them.
LEMMA EndTimes ==
  ASSUME NEW interval \in WindowIntervals, NEW k \in Int, NEW end, end = k * interval
  PROVE  /\ end \in Int /\ \E m \in Int : end = 60 * m
         /\ ((end - 60) \div interval) * interval = end - interval
         /\ (((end - interval) + interval - 1) \div interval) * interval = end - interval
         /\ (end - (end - interval)) \div interval = 1
<1>1. PICK up \in {5, 10, 15} : interval = 60 * up
  BY DEF WindowIntervals
<1>2. interval \in Int /\ interval > 60
  BY DEF WindowIntervals
<1>3. end \in Int
  BY <1>2
<1>4. \E m \in Int : end = 60 * m
  <2>1. k * up \in Int /\ end = 60 * (k * up)
    BY <1>1
  <2>2. QED
    BY <2>1
<1>5. ASSUME NEW d \in 1 .. 60 PROVE (end - d) \div interval = k - 1
  <2>1. CASE interval = 300
    BY <1>3, <2>1
  <2>2. CASE interval = 600
    BY <1>3, <2>2
  <2>3. CASE interval = 900
    BY <1>3, <2>3
  <2>4. QED
    BY <2>1, <2>2, <2>3 DEF WindowIntervals
<1>6. (k - 1) * interval = end - interval
  BY <1>2
<1>7. (end - interval) + interval - 1 = end - 1 /\ end - (end - interval) = interval
  BY <1>2, <1>3
<1>8. interval \div interval = 1
  BY DEF WindowIntervals
<1>9. QED
  BY <1>3, <1>4, <1>5, <1>6, <1>7, <1>8

\* The window that ends then.
WindowEnding(rule, interval, end, candles, checkedAt) ==
  ReplayResult(SignalAt(rule, interval, end - 60, candles, 3800), candles, checkedAt)

\* The windows of a replay, each ending at a multiple of the interval.
LEMMA ReplayIs ==
  ASSUME NEW rule, NEW interval \in WindowIntervals, NEW candles, NEW from \in Int, NEW to \in Int,
         NEW checkedAt, NEW results, results = ReplayCandles(rule, interval, candles, from, to, checkedAt)
  PROVE  \E count \in Nat :
           /\ DOMAIN results = 1 .. count
           /\ \A i \in 1 .. count : \E k \in Int : \E end \in Int :
                /\ end = k * interval
                /\ results[i] = WindowEnding(rule, interval, end, candles, checkedAt)
<1>1. interval \in Int /\ interval > 0
  BY DEF WindowIntervals
<1>2. PICK q \in Int : q = (from + interval - 1) \div interval
  BY <1>1
<1>3. PICK first \in Int : first = q * interval
  BY <1>1
<1>4. PICK count \in Nat : count = IF to < first THEN 0 ELSE (to - first) \div interval
  <2>1. CASE to < first
    BY <2>1
  <2>2. CASE ~(to < first)
    <3>1. to - first \in Nat
      BY <2>2
    <3>2. (to - first) \div interval \in Nat
      BY <1>1, <3>1, ShareIsNatural
    <3>3. QED
      BY <2>2, <3>2
  <2>3. QED
    BY <2>1, <2>2
<1> DEFINE At(i) == SignalAt(rule, interval, first + i * interval - 60, candles, 3800)
<1>5. results = [i \in 1 .. count |-> ReplayResult(At(i), candles, checkedAt)]
  BY <1>2, <1>3, <1>4 DEF ReplayCandles
<1>6. ASSUME NEW i \in 1 .. count
      PROVE  \E k \in Int : \E end \in Int :
               /\ end = k * interval
               /\ results[i] = WindowEnding(rule, interval, end, candles, checkedAt)
  <2>1. PICK end \in Int : end = first + i * interval
    BY <1>1
  <2>2. end = (q + i) * interval /\ q + i \in Int
    BY <1>1, <1>3, <2>1
  <2>3. results[i] = WindowEnding(rule, interval, end, candles, checkedAt)
    <3>1. results[i] = ReplayResult(At(i), candles, checkedAt)
      BY <1>5
    <3>2. first + i * interval - 60 = end - 60
      BY <1>1, <2>1
    <3>3. At(i) = SignalAt(rule, interval, end - 60, candles, 3800)
      <4>1. PICK time : time = first + i * interval - 60 /\ time = end - 60
        BY <3>2, Zenon
      <4>2. At(i) = SignalAt(rule, interval, time, candles, 3800)
        BY <4>1
      <4>3. QED
        BY <4>1, <4>2
    <3> HIDE DEF At
    <3>4. PICK at : at = At(i) /\ at = SignalAt(rule, interval, end - 60, candles, 3800)
      BY <3>3
    <3>5. WindowEnding(rule, interval, end, candles, checkedAt) = ReplayResult(at, candles, checkedAt)
      BY <3>4 DEF WindowEnding
    <3>6. QED
      BY <3>1, <3>4, <3>5
  <2>4. QED
    BY <2>2, <2>3
<1>7. DOMAIN results = 1 .. count
  BY <1>5
<1> HIDE DEF At
<1>8. QED
  BY <1>6, <1>7

\* A replay of one window.
LEMMA AloneIs ==
  ASSUME NEW rule, NEW interval \in WindowIntervals, NEW candles, NEW k \in Int, NEW end, end = k * interval,
         NEW checkedAt
  PROVE  ReplayCandles(rule, interval, candles, end - interval, end, checkedAt)[1]
           = WindowEnding(rule, interval, end, candles, checkedAt)
<1>1. interval \in Int /\ end \in Int
  BY EndTimes DEF WindowIntervals
<1>2. PICK first \in Int : first = end - interval
  BY <1>1
<1>3. /\ ((first + interval - 1) \div interval) * interval = first
      /\ (end - first) \div interval = 1
  BY <1>2, EndTimes
<1>4. ~(end < first)
  BY <1>1, <1>2 DEF WindowIntervals
<1> DEFINE At(i) == SignalAt(rule, interval, first + i * interval - 60, candles, 3800)
<1>5. ReplayCandles(rule, interval, candles, first, end, checkedAt)
        = [i \in 1 .. 1 |-> ReplayResult(At(i), candles, checkedAt)]
  BY <1>3, <1>4 DEF ReplayCandles
<1>6. first + 1 * interval - 60 = end - 60
  BY <1>1, <1>2
<1>7. QED
  BY <1>2, <1>5, <1>6 DEF WindowEnding

-----------------------------------------------------------------------------
(* What a signal and an outcome are made from.                               *)
SignalKnowing(rule, interval, time, known, minConfidence) ==
  LET price == LastClose(known, time)
      ticks == IF price = Null THEN <<>> ELSE <<[time |-> time, price |-> price]>>
      state == [candles |-> known, tick |-> IF price = Null THEN Null ELSE time,
                spread |-> IF price = Null THEN Null ELSE 2, now |-> time, staleAfter |-> 180,
                minConfidence |-> minConfidence]
  IN WithSignal(CurrentEvent(rule, interval, time, ticks, known), state)

LEMMA SignalIsOfTheKnown ==
  ASSUME NEW rule, NEW interval, NEW time, NEW candles, NEW minConfidence
  PROVE  SignalAt(rule, interval, time, candles, minConfidence)
           = SignalKnowing(rule, interval, time, KnownBy(candles, time), minConfidence)
BY DEF SignalAt, SignalKnowing

LEMMA KnownAgain ==
  ASSUME NEW candles \in Seq(MinuteCandles), NEW time \in Int, NEW later \in Int, time <= later,
         NEW list, list = KnownBy(candles, later)
  PROVE  KnownBy(list, time) = KnownBy(candles, time) /\ list \in Seq(MinuteCandles)
<1>1. PICK P : P = {i \in DOMAIN candles : CloseTime(candles[i]) <= later}
  OBVIOUS
<1>2. P \in SUBSET (1 .. Len(candles))
  BY <1>1
<1>3. list = Kept(candles, P)
  BY <1>1 DEF KnownBy
<1>4. list \in Seq(MinuteCandles)
  BY <1>2, <1>3, KeptElements
<1>5. PICK V : V = {c \in MinuteCandles : CloseTime(c) <= time}
  OBVIOUS
<1>6. PICK Q : Q = {i \in DOMAIN candles : CloseTime(candles[i]) <= time}
  OBVIOUS
<1>7. PICK R : R = {i \in DOMAIN list : CloseTime(list[i]) <= time}
  OBVIOUS
<1>8. \A c \in MinuteCandles : CloseTime(c) \in Int
  BY DEF MinuteCandles, CloseTime
<1>9. Selects(Q, candles, P, V)
  <2>1. \A i \in DOMAIN candles : candles[i] \in MinuteCandles
    OBVIOUS
  <2>2. \A i \in DOMAIN candles : CloseTime(candles[i]) <= time => CloseTime(candles[i]) <= later
    BY <1>8, <2>1
  <2>3. QED
    BY <1>1, <1>5, <1>6, <2>1, <2>2 DEF Selects
<1>10. Selects(R, list, 1 .. Len(list), V)
  <2>1. DOMAIN list = 1 .. Len(list) /\ \A i \in DOMAIN list : list[i] \in MinuteCandles
    BY <1>4
  <2>2. QED
    BY <1>5, <1>7, <2>1 DEF Selects
<1>11. Kept(list, R) = Kept(candles, Q)
  BY <1>2, <1>3, <1>9, <1>10, KeptOfKept
<1>12. QED
  BY <1>4, <1>6, <1>7, <1>11 DEF KnownBy

\* Candles of whole minutes, one after the other.
AreMinutes(candles) ==
  /\ candles \in Seq(MinuteCandles)
  /\ \A i \in DOMAIN candles : \E m \in Int : candles[i].open = 60 * m

LEMMA AverageKnown ==
  ASSUME NEW candles, AreMinutes(candles), NEW m \in Int, NEW later \in Int, later = 60 * m,
         NEW list, list = KnownBy(candles, later), NEW start \in Int, NEW end \in Int, end <= later
  PROVE  CandleAverage(list, start, end) = CandleAverage(candles, start, end)
<1>0. candles \in Seq(MinuteCandles)
  BY DEF AreMinutes
<1>1. PICK P : P = {i \in DOMAIN candles : CloseTime(candles[i]) <= later}
  OBVIOUS
<1>2. P \in SUBSET (1 .. Len(candles))
  BY <1>0, <1>1
<1>3. list = Kept(candles, P)
  BY <1>1 DEF KnownBy
<1>4. list \in Seq(MinuteCandles)
  BY <1>0, <1>2, <1>3, KeptElements
<1>5. PICK V : V = {c \in MinuteCandles : c.open < end /\ CloseTime(c) > start}
  OBVIOUS
<1>6. PICK Q : Q = {i \in DOMAIN candles : candles[i].open < end /\ CloseTime(candles[i]) > start}
  OBVIOUS
<1>7. PICK R : R = {i \in DOMAIN list : list[i].open < end /\ CloseTime(list[i]) > start}
  OBVIOUS
<1>8. \A i \in DOMAIN candles : candles[i].open < end => CloseTime(candles[i]) <= later
  <2>1. SUFFICES ASSUME NEW i \in DOMAIN candles, candles[i].open < end PROVE CloseTime(candles[i]) <= later
    OBVIOUS
  <2>2. PICK n \in Int : candles[i].open = 60 * n
    BY DEF AreMinutes
  <2>3. n < m
    BY <2>1, <2>2
  <2>4. 60 * n + 60 <= 60 * m
    BY <2>3
  <2>5. QED
    BY <2>2, <2>4 DEF CloseTime
<1>9. Selects(Q, candles, P, V)
  <2>1. \A i \in DOMAIN candles : candles[i] \in MinuteCandles
    BY <1>0
  <2>2. QED
    BY <1>1, <1>5, <1>6, <1>8, <2>1 DEF Selects
<1>10. Selects(R, list, 1 .. Len(list), V)
  <2>1. DOMAIN list = 1 .. Len(list) /\ \A i \in DOMAIN list : list[i] \in MinuteCandles
    BY <1>4
  <2>2. QED
    BY <1>5, <1>7, <2>1 DEF Selects
<1>11. Kept(list, R) = Kept(candles, Q)
  BY <1>0, <1>2, <1>3, <1>9, <1>10, KeptOfKept
<1>12. PICK some : some = Kept(list, R) /\ some = Kept(candles, Q)
  BY <1>11
<1>13. CandleAverage(list, start, end) = Average([i \in DOMAIN some |-> some[i].last])
  BY <1>7, <1>12, Zenon DEF CandleAverage
<1>14. CandleAverage(candles, start, end) = Average([i \in DOMAIN some |-> some[i].last])
  BY <1>6, <1>12, Zenon DEF CandleAverage
<1>15. QED
  BY <1>13, <1>14

\* The outcome of a window needs no candle that closes after it.
LEMMA OutcomeKnown ==
  ASSUME NEW candles, AreMinutes(candles), NEW m \in Int, NEW later \in Int, later = 60 * m,
         NEW list, list = KnownBy(candles, later),
         NEW rule, IsWindowRule(rule), NEW event, event.rule = rule, NEW start \in Int, NEW end \in Int,
         event.start = start, event.end = end, start + 300 <= end, end <= later
  PROVE  RuleOutcome(event, list) = RuleOutcome(event, candles)
<1>1. LastClose(list, end) = LastClose(candles, end)
  <2>1. KnownBy(list, end) = KnownBy(candles, end)
    BY KnownAgain DEF AreMinutes
  <2>2. QED
    BY <2>1, Zenon DEF LastClose
<1>2. CASE rule.type = "END_AVERAGE"
  <2>1. PICK s \in Int, e \in Int : s = rule.startSeconds /\ e = rule.endSeconds /\ s <= 300
    <3>1. rule.startSeconds \in 0 .. 300 /\ rule.endSeconds \in 0 .. 300
      BY <1>2 DEF IsWindowRule
    <3>2. \E s, e \in Int : s = rule.startSeconds /\ e = rule.endSeconds /\ s <= 300
      BY <3>1
    <3>3. QED
      BY <3>2
  <2>2. CandleAverage(list, start, start + s) = CandleAverage(candles, start, start + s)
    <3>1. start + s \in Int /\ start + s <= later
      BY <2>1
    <3>2. QED
      BY <3>1, AverageKnown
  <2>3. CandleAverage(list, end - e, end) = CandleAverage(candles, end - e, end)
    <3>1. end - e \in Int
      BY <2>1
    <3>2. QED
      BY <3>1, AverageKnown
  <2>4. QED
    BY <1>2, <2>1, <2>2, <2>3 DEF RuleOutcome
<1>3. CASE rule.type # "END_AVERAGE"
  BY <1>1, <1>3 DEF RuleOutcome
<1>4. QED
  BY <1>2, <1>3

\* What a signal knows of its window: the event is of its rule and its times.
LEMMA SignalAtIs ==
  ASSUME NEW rule, NEW interval \in WindowIntervals, NEW k \in Int, NEW end, end = k * interval, NEW candles,
         NEW minConfidence, NEW at, at = SignalAt(rule, interval, end - 60, candles, minConfidence)
  PROVE  at.event.rule = rule /\ at.event.start = end - interval /\ at.event.end = end
<1>1. end \in Int /\ interval \in Int /\ ((end - 60) \div interval) * interval = end - interval
  <2>1. end \in Int /\ ((end - 60) \div interval) * interval = end - interval
    BY EndTimes
  <2>2. QED
    BY <2>1 DEF WindowIntervals
<1>2. PICK start \in Int, time \in Int : start = end - interval /\ time = end - 60
  BY <1>1
<1>3. PICK known : known = KnownBy(candles, time)
  OBVIOUS
<1>4. PICK price : price = LastClose(known, time)
  OBVIOUS
<1>5. PICK tick : tick = [time |-> time, price |-> price]
  OBVIOUS
<1>6. PICK ticks : ticks = IF price = Null THEN <<>> ELSE <<tick>>
  OBVIOUS
<1>7. PICK event : event = CurrentEvent(rule, interval, time, ticks, known)
  OBVIOUS
<1>8. at.event = event
  <2>1. \E state : at = WithSignal(event, state)
    BY <1>2, <1>3, <1>4, <1>5, <1>6, <1>7 DEF SignalAt
  <2>2. QED
    BY <2>1 DEF WithSignal
<1>9. event.rule = rule /\ event.start = start /\ event.end = start + interval
  <2>1. \E reference, current : event = EventOf(rule, start, start + interval, time, reference, current)
    BY <1>1, <1>2, <1>7 DEF CurrentEvent
  <2>2. QED
    BY <2>1 DEF EventOf
<1>10. start + interval = end
  BY <1>1, <1>2
<1>11. QED
  BY <1>2, <1>8, <1>9, <1>10

LEMMA SignalKnown ==
  ASSUME NEW rule, NEW interval, NEW candles \in Seq(MinuteCandles), NEW time \in Int, NEW later \in Int,
         time <= later, NEW list, list = KnownBy(candles, later), NEW minConfidence
  PROVE  SignalAt(rule, interval, time, list, minConfidence) = SignalAt(rule, interval, time, candles, minConfidence)
<1>1. KnownBy(list, time) = KnownBy(candles, time)
  BY KnownAgain
<1>2. QED
  BY <1>1, SignalIsOfTheKnown

\* A past window is what it would be had the candles ended with it, and its
\* signal what it would be had they ended with the signal: replayCandles, for
\* any rule and any candles of whole minutes.
THEOREM WindowsPast ==
  ASSUME NEW rule, IsWindowRule(rule), NEW interval \in WindowIntervals, NEW candles, AreMinutes(candles),
         NEW from \in Int, NEW to \in Int
  PROVE  WindowsKnowThePast(rule, interval, candles, from, to)
<1>0. candles \in Seq(MinuteCandles)
  BY DEF AreMinutes
<1>1. PICK results : results = ReplayCandles(rule, interval, candles, from, to, to)
  OBVIOUS
<1>2. PICK count \in Nat :
        /\ DOMAIN results = 1 .. count
        /\ \A i \in 1 .. count : \E k \in Int : \E end \in Int :
             end = k * interval /\ results[i] = WindowEnding(rule, interval, end, candles, to)
  BY <1>1, ReplayIs
<1> DEFINE Until(time) == Kept(candles, {k \in DOMAIN candles : CloseTime(candles[k]) <= time})
           Alone(end, time) == ReplayCandles(rule, interval, Until(time), end - interval, end, to)[1]
           Holds(i, end) == /\ Alone(end, end - 60).signal = results[i].signal
                            /\ Alone(end, end) = results[i]
<1>3. ASSUME NEW i \in 1 .. count PROVE Holds(i, results[i].event.end)
  <2>1. PICK k \in Int, end \in Int : end = k * interval /\ results[i] = WindowEnding(rule, interval, end, candles, to)
    BY <1>2
  <2>2. PICK at : at = SignalAt(rule, interval, end - 60, candles, 3800)
    OBVIOUS
  <2>3. at.event.rule = rule /\ at.event.start = end - interval /\ at.event.end = end
    BY <2>1, <2>2, SignalAtIs
  <2>4. results[i] = ReplayResult(at, candles, to)
    BY <2>1, <2>2 DEF WindowEnding
  <2>5. \A list : ReplayResult(at, list, to).event = at.event /\ ReplayResult(at, list, to).signal = at.signal
    BY DEF ReplayResult
  <2>6. results[i].event.end = end /\ results[i].signal = at.signal
    BY <2>3, <2>4, <2>5
  <2>7. PICK signalled : signalled = KnownBy(candles, end - 60)
    OBVIOUS
  <2>8. PICK ended : ended = KnownBy(candles, end)
    OBVIOUS
  <2>9. Until(end - 60) = signalled /\ Until(end) = ended
    BY <2>7, <2>8 DEF KnownBy
  <2>10. Alone(end, end - 60) = WindowEnding(rule, interval, end, signalled, to)
    <3>1. ReplayCandles(rule, interval, signalled, end - interval, end, to)[1]
            = WindowEnding(rule, interval, end, signalled, to)
      BY <2>1, AloneIs
    <3>2. QED
      BY <2>9, <3>1
  <2>11. Alone(end, end) = WindowEnding(rule, interval, end, ended, to)
    <3>1. ReplayCandles(rule, interval, ended, end - interval, end, to)[1]
            = WindowEnding(rule, interval, end, ended, to)
      BY <2>1, AloneIs
    <3>2. QED
      BY <2>9, <3>1
  <2> HIDE DEF Until, Alone
  <2>12. SignalAt(rule, interval, end - 60, signalled, 3800) = at
    <3>1. end - 60 \in Int /\ end - 60 <= end - 60
      OBVIOUS
    <3>2. QED
      BY <1>0, <2>2, <2>7, <3>1, SignalKnown
  <2>13. SignalAt(rule, interval, end - 60, ended, 3800) = at
    <3>1. end - 60 \in Int /\ end - 60 <= end
      OBVIOUS
    <3>2. QED
      BY <1>0, <2>2, <2>8, <3>1, SignalKnown
  <2>14. Alone(end, end - 60).signal = at.signal
    BY <2>5, <2>10, <2>12 DEF WindowEnding
  <2>15. RuleOutcome(at.event, ended) = RuleOutcome(at.event, candles)
    <3>1. PICK m \in Int : end = 60 * m
      BY <2>1, EndTimes
    <3>2. PICK event : event = at.event
      OBVIOUS
    <3>3. PICK start \in Int : start = end - interval /\ start + 300 <= end
      BY DEF WindowIntervals
    <3>4. event.rule = rule /\ event.start = start /\ event.end = end
      BY <2>3, <3>2, <3>3
    <3>5. end <= end
      OBVIOUS
    <3>6. RuleOutcome(event, ended) = RuleOutcome(event, candles)
      BY <2>8, <3>1, <3>3, <3>4, <3>5, OutcomeKnown
    <3>7. QED
      BY <3>2, <3>6
  <2>16. ReplayResult(at, ended, to) = ReplayResult(at, candles, to)
    BY <2>15, Zenon DEF ReplayResult
  <2>17. Alone(end, end) = results[i]
    BY <2>4, <2>11, <2>13, <2>16 DEF WindowEnding
  <2>18. QED
    BY <2>6, <2>14, <2>17 DEF Holds
<1>4. QED
  BY <1>1, <1>2, <1>3 DEF WindowsKnowThePast

-----------------------------------------------------------------------------
(* What has become of windows, and their numbers.                            *)
WindowSides == {"LONG_UP", "LONG_DOWN", "WAIT", "REJECTED"}
WindowStatuses == {"WIN", "LOSS", "PENDING", "UNRESOLVED", "WAIT", "REJECTED"}

\* A window has one status, that of its side if it gave no direction.
IsWindowResult(r) ==
  /\ r.signal.side \in WindowSides /\ r.status \in WindowStatuses
  /\ Directional(r.signal.side) <=> r.status \in {"WIN", "LOSS", "PENDING", "UNRESOLVED"}
  /\ ~Directional(r.signal.side) => r.status = r.signal.side
  /\ r.counted = (r.status \in {"WIN", "LOSS"})

Saying(results, word) == {i \in DOMAIN results : word \in {results[i].signal.side, results[i].status}}

LEMMA SayingIs ==
  ASSUME NEW results, \A i \in DOMAIN results : IsWindowResult(results[i])
  PROVE  /\ Saying(results, "WAIT") = WithStatus(results, "WAIT")
         /\ Saying(results, "REJECTED") = WithStatus(results, "REJECTED")
<1>1. ASSUME NEW i \in DOMAIN results, NEW word \in {"WAIT", "REJECTED"}
      PROVE  word \in {results[i].signal.side, results[i].status} <=> results[i].status = word
  <2>1. PICK r : r = results[i] /\ IsWindowResult(r)
    OBVIOUS
  <2>2. PICK side, label : side = r.signal.side /\ label = r.status
    OBVIOUS
  <2>3. /\ side \in WindowSides /\ label \in WindowStatuses
        /\ Directional(side) <=> label \in {"WIN", "LOSS", "PENDING", "UNRESOLVED"}
        /\ ~Directional(side) => label = side
    BY <2>1, <2>2, Zenon DEF IsWindowResult
  <2>4. side = word => label = word
    BY <2>3 DEF Directional
  <2>5. QED
    BY <2>1, <2>2, <2>4
<1>2. QED
  BY <1>1 DEF Saying, WithStatus

LEMMA WindowStatusesAddUp ==
  ASSUME NEW S, NEW results \in Seq(S), \A i \in DOMAIN results : IsWindowResult(results[i])
  PROVE  /\ Len(results) = Cardinality(WithStatus(results, "WAIT")) + Cardinality(WithStatus(results, "REJECTED"))
                             + Cardinality(WithStatus(results, "PENDING"))
                             + Cardinality(WithStatus(results, "WIN"))
                             + Cardinality(WithStatus(results, "LOSS"))
                             + Cardinality(WithStatus(results, "UNRESOLVED"))
         /\ Cardinality(Counted(results)) = Cardinality(WithStatus(results, "WIN"))
                                              + Cardinality(WithStatus(results, "LOSS"))
         /\ Cardinality(WithStatus(results, "WIN")) \in Nat
         /\ Cardinality(WithStatus(results, "LOSS")) \in Nat
         /\ IsFiniteSet(Counted(results))
<1>1. PICK N \in Nat : N = Len(results) /\ DOMAIN results = 1 .. N
  BY LenProperties
<1>2. PICK D : D = 1 .. N /\ IsFiniteSet(D) /\ Cardinality(D) = N
  BY FS_Interval
<1>3. PICK W, L, P, U, R, X :
        /\ W = WithStatus(results, "WAIT") /\ L = WithStatus(results, "REJECTED")
        /\ P = WithStatus(results, "PENDING") /\ U = WithStatus(results, "WIN")
        /\ R = WithStatus(results, "LOSS") /\ X = WithStatus(results, "UNRESOLVED")
  OBVIOUS
<1>4. \A i : /\ i \in W <=> i \in D /\ results[i].status = "WAIT"
             /\ i \in L <=> i \in D /\ results[i].status = "REJECTED"
             /\ i \in P <=> i \in D /\ results[i].status = "PENDING"
             /\ i \in U <=> i \in D /\ results[i].status = "WIN"
             /\ i \in R <=> i \in D /\ results[i].status = "LOSS"
             /\ i \in X <=> i \in D /\ results[i].status = "UNRESOLVED"
  BY <1>1, <1>2, <1>3 DEF WithStatus
<1>5. \A i \in D : results[i].status \in WindowStatuses /\ results[i].counted = (results[i].status \in {"WIN", "LOSS"})
  BY <1>1, <1>2, Zenon DEF IsWindowResult
<1>6. PICK D1, D2, D3, D4 : D1 = D \ W /\ D2 = D1 \ L /\ D3 = D2 \ P /\ D4 = D3 \ U
  OBVIOUS
<1>7. Splits(D, W, D1)
  BY <1>4, <1>6 DEF Splits
<1>8. Splits(D1, L, D2)
  BY <1>4, <1>6 DEF Splits
<1>9. Splits(D2, P, D3)
  BY <1>4, <1>6 DEF Splits
<1>10. Splits(D3, U, D4)
  BY <1>4, <1>6 DEF Splits
<1>13. Splits(D4, R, X)
  BY <1>4, <1>5, <1>6 DEF WindowStatuses, Splits
<1>14. CountsAddUp(D, W, D1) /\ IsFiniteSet(D1)
  BY <1>2, <1>7, PartsCount DEF CountsAddUp
<1>15. CountsAddUp(D1, L, D2) /\ IsFiniteSet(D2)
  BY <1>14, <1>8, PartsCount DEF CountsAddUp
<1>16. CountsAddUp(D2, P, D3) /\ IsFiniteSet(D3)
  BY <1>15, <1>9, PartsCount DEF CountsAddUp
<1>17. CountsAddUp(D3, U, D4) /\ IsFiniteSet(D4)
  BY <1>16, <1>10, PartsCount DEF CountsAddUp
<1>18. CountsAddUp(D4, R, X) /\ IsFiniteSet(X)
  BY <1>17, <1>13, PartsCount DEF CountsAddUp
<1>19. PICK C : C = Counted(results)
  OBVIOUS
<1>20. \A i : i \in C <=> i \in U \/ i \in R
  BY <1>1, <1>2, <1>4, <1>5, <1>19 DEF Counted
<1>21. Splits(C, U, R)
  BY <1>4, <1>20 DEF Splits
<1>22. IsFiniteSet(C)
  <2>1. C \in SUBSET D
    BY <1>4, <1>20
  <2>2. QED
    BY <1>2, <2>1, FS_Subset
<1>23. Cardinality(C) = Cardinality(U) + Cardinality(R)
  BY <1>21, <1>22, PartsCount DEF CountsAddUp
<1>24. N = Cardinality(W) + Cardinality(L) + Cardinality(P) + Cardinality(U) + Cardinality(R) + Cardinality(X)
  <2>1. PICK w \in Nat, l \in Nat, p \in Nat, u \in Nat, r \in Nat, x \in Nat :
          /\ w = Cardinality(W) /\ l = Cardinality(L) /\ p = Cardinality(P) /\ u = Cardinality(U)
          /\ r = Cardinality(R) /\ x = Cardinality(X)
    BY <1>14, <1>15, <1>16, <1>17, <1>18 DEF CountsAddUp
  <2>2. PICK d1 \in Nat, d2 \in Nat, d3 \in Nat, d4 \in Nat :
          d1 = Cardinality(D1) /\ d2 = Cardinality(D2) /\ d3 = Cardinality(D3) /\ d4 = Cardinality(D4)
    BY <1>14, <1>15, <1>16, <1>17 DEF CountsAddUp
  <2>3. N = w + d1 /\ d1 = l + d2
    BY <1>2, <1>14, <1>15, <2>1, <2>2, Zenon DEF CountsAddUp
  <2>4. d2 = p + d3 /\ d3 = u + d4 /\ d4 = r + x
    BY <1>16, <1>17, <1>18, <2>1, <2>2, Zenon DEF CountsAddUp
  <2>5. N = w + l + p + u + r + x
    BY <2>3, <2>4
  <2>6. QED
    BY <2>1, <2>5
<1>25. QED
  BY <1>1, <1>3, <1>17, <1>18, <1>19, <1>22, <1>23, <1>24 DEF CountsAddUp

\* What a run of windows promises of its numbers.
NumbersAddUp(results, m) ==
  /\ m.total = m.waiting + m.rejected + m.pending + m.wins + m.losses
                 + Cardinality({i \in DOMAIN results : results[i].status = "UNRESOLVED"})
  /\ m.wins + m.losses = Cardinality({i \in DOMAIN results : results[i].counted})
  /\ (m.winRate = Null) <=> (m.drawdown = Null)

BetsOf(counted) == [i \in DOMAIN counted |-> IF counted[i].status = "WIN" THEN 1 ELSE -1]

LEMMA WindowDrawdown ==
  ASSUME NEW S, NEW counted \in Seq(S)
  PROVE  MaxDrawdown(BetsOf(counted)) \in Nat
<1>1. PICK N \in Nat : N = Len(counted) /\ DOMAIN counted = 1 .. N
  BY LenProperties
<1>2. PICK bets : bets = BetsOf(counted)
  OBVIOUS
<1>3. bets = [i \in 1 .. N |-> IF counted[i].status = "WIN" THEN 1 ELSE -1]
  BY <1>1, <1>2 DEF BetsOf
<1>4. bets \in Seq(Int) /\ Len(bets) = N /\ \A i \in 1 .. N : bets[i] \in {1, -1}
  BY <1>3
<1>5. PICK losses : losses = [i \in 1 .. N |-> 1]
  OBVIOUS
<1>6. losses \in Seq(Int) /\ Len(losses) = Len(bets) /\ \A i \in 1 .. N : losses[i] = 1
  BY <1>4, <1>5
<1>7. \A i \in 1 .. Len(bets) : losses[i] >= 0 /\ losses[i] >= -bets[i]
  BY <1>4, <1>6
<1>8. MaxDrawdown(bets) \in Nat
  BY <1>4, <1>6, <1>7, DrawdownFits
<1>9. QED
  BY <1>2, <1>8

LEMMA WindowMetricsAddUp ==
  ASSUME NEW S, NEW results \in Seq(S), \A i \in DOMAIN results : IsWindowResult(results[i])
  PROVE  NumbersAddUp(results, ShortWindowMetrics(results))
<1>1. PICK m : m = ShortWindowMetrics(results)
  OBVIOUS
<1>2. PICK C : C = Counted(results)
  OBVIOUS
<1>3. C \in SUBSET (1 .. Len(results))
  BY <1>2 DEF Counted
<1>4. PICK counted : counted = Kept(results, C)
  OBVIOUS
<1>5. counted \in Seq(S) /\ (counted = <<>> <=> C = {})
  BY <1>3, <1>4, KeptElements
<1>6. PICK fall \in Nat : fall = MaxDrawdown(BetsOf(counted))
  BY <1>5, WindowDrawdown
<1>7. /\ Len(results) = Cardinality(WithStatus(results, "WAIT")) + Cardinality(WithStatus(results, "REJECTED"))
                             + Cardinality(WithStatus(results, "PENDING"))
                             + Cardinality(WithStatus(results, "WIN"))
                             + Cardinality(WithStatus(results, "LOSS"))
                             + Cardinality(WithStatus(results, "UNRESOLVED"))
      /\ Cardinality(C) = Cardinality(WithStatus(results, "WIN")) + Cardinality(WithStatus(results, "LOSS"))
      /\ Cardinality(WithStatus(results, "WIN")) \in Nat
      /\ Cardinality(WithStatus(results, "LOSS")) \in Nat
      /\ IsFiniteSet(C)
  BY <1>2, WindowStatusesAddUp
<1>8. PICK wins \in Nat, losses \in Nat :
        wins = Cardinality(WithStatus(results, "WIN")) /\ losses = Cardinality(WithStatus(results, "LOSS"))
  BY <1>7
<1>9. /\ m.total = Len(results) /\ m.wins = wins /\ m.losses = losses
      /\ m.waiting = Cardinality(Saying(results, "WAIT")) /\ m.rejected = Cardinality(Saying(results, "REJECTED"))
      /\ m.pending = Cardinality(WithStatus(results, "PENDING"))
      /\ m.winRate = (IF wins + losses = 0 THEN Null ELSE (wins * One) \div (wins + losses))
      /\ m.drawdown = IF counted = <<>> THEN Null ELSE MaxDrawdown(BetsOf(counted))
  BY <1>1, <1>2, <1>4, <1>8 DEF ShortWindowMetrics, Saying, WithStatus, Counted, BetsOf
<1>10. m.winRate = Null <=> wins + losses = 0
  <2>1. CASE wins + losses = 0
    BY <1>9, <2>1
  <2>2. CASE wins + losses # 0
    <3>1. PICK a \in Nat : a = wins * One
      BY DEF One
    <3>2. PICK b \in Nat \ {0} : b = wins + losses
      BY <2>2
    <3>3. a \div b \in Nat
      BY <3>1, <3>2, ShareIsNatural
    <3>4. m.winRate = a \div b
      BY <1>9, <2>2, <3>1, <3>2
    <3>5. QED
      BY <2>2, <3>3, <3>4, NullIsNoPrice
  <2>3. QED
    BY <2>1, <2>2
<1>11. m.drawdown = Null <=> C = {}
  BY <1>5, <1>6, <1>9, NullIsNoPrice
<1>12. C = {} <=> wins + losses = 0
  BY <1>7, <1>8, FS_EmptySet
<1>13. Saying(results, "WAIT") = WithStatus(results, "WAIT") /\ Saying(results, "REJECTED") = WithStatus(results, "REJECTED")
  BY SayingIs
<1>14. m.total = m.waiting + m.rejected + m.pending + m.wins + m.losses + Cardinality(WithStatus(results, "UNRESOLVED"))
  BY <1>7, <1>8, <1>9, <1>13
<1>15. m.wins + m.losses = Cardinality(C)
  BY <1>7, <1>8, <1>9
<1>16. QED
  BY <1>1, <1>2, <1>10, <1>11, <1>12, <1>14, <1>15 DEF NumbersAddUp, WithStatus, Counted

-----------------------------------------------------------------------------
(* What has become of one window.                                            *)
SpokenSignal(side, c, score) == [side |-> side, confidence |-> c, score |-> score]
IsWindowSignal(signal) == \E side \in WindowSides : \E c, score : signal = SpokenSignal(side, c, score)

LEMMA SayingIsASignal ==
  ASSUME NEW side \in WindowSides, NEW c, NEW score
  PROVE  IsWindowSignal(SpokenSignal(side, c, score))
BY Zenon DEF IsWindowSignal

LEMMA SidesOfSignals ==
  ASSUME NEW event, NEW f, NEW score, NEW least, NEW signal, signal = SignalOf(event, f, score, least)
  PROVE  IsWindowSignal(signal)
<1>1. PICK size : size = Max({score, -score})
  OBVIOUS
<1>2. PICK sure : sure = Min({ConfidenceCap[event.rule.confidence], (size * 10000) \div Max({100, 3 * f.noise})})
  OBVIOUS
<1>3. CASE SignalRejections(event, f) # {}
  <2>1. signal = SpokenSignal("REJECTED", 0, 0)
    BY <1>3 DEF SignalOf, SpokenSignal
  <2>2. "REJECTED" \in WindowSides
    BY DEF WindowSides
  <2>3. QED
    BY <2>1, <2>2, SayingIsASignal
<1>4. CASE SignalRejections(event, f) = {} /\ event.phase \in {"forming", "closed", "no_entry_zone"}
  <2>1. "WAIT" \in WindowSides
    BY DEF WindowSides
  <2>2. CASE event.phase = "forming"
    <3>1. signal = SpokenSignal("WAIT", 1200, 0)
      BY <1>4, <2>2 DEF SignalOf, SpokenSignal
    <3>2. QED
      BY <2>1, <3>1, SayingIsASignal
  <2>3. CASE event.phase = "closed"
    <3>1. signal = SpokenSignal("WAIT", 1000, 0)
      BY <1>4, <2>3 DEF SignalOf, SpokenSignal
    <3>2. QED
      BY <2>1, <3>1, SayingIsASignal
  <2>4. CASE event.phase = "no_entry_zone"
    <3>1. signal = SpokenSignal("WAIT", 1600, 0)
      BY <1>4, <2>4 DEF SignalOf, SpokenSignal
    <3>2. QED
      BY <2>1, <3>1, SayingIsASignal
  <2>5. QED
    BY <1>4, <2>2, <2>3, <2>4
<1>5. CASE SignalRejections(event, f) = {} /\ event.phase \notin {"forming", "closed", "no_entry_zone"}
  <2>1. PICK up \in WindowSides : up = IF score > 0 THEN "LONG_UP" ELSE "LONG_DOWN"
    BY DEF WindowSides
  <2>2. signal = IF f.volatility > 90 THEN SpokenSignal("WAIT", 2000, 0)
                 ELSE IF size < f.noise THEN SpokenSignal("WAIT", Min({sure, 2800}), score)
                 ELSE IF sure < least THEN SpokenSignal("WAIT", sure, score)
                 ELSE SpokenSignal(up, sure, score)
    BY <1>1, <1>2, <1>5, <2>1 DEF SignalOf, SpokenSignal
  <2>3. "WAIT" \in WindowSides
    BY DEF WindowSides
  <2>4. /\ IsWindowSignal(SpokenSignal("WAIT", 2000, 0))
        /\ IsWindowSignal(SpokenSignal("WAIT", Min({sure, 2800}), score))
        /\ IsWindowSignal(SpokenSignal("WAIT", sure, score))
        /\ IsWindowSignal(SpokenSignal(up, sure, score))
    BY <2>1, <2>3, SayingIsASignal
  <2>5. QED
    BY <2>2, <2>4
<1>6. QED
  BY <1>3, <1>4, <1>5

LEMMA StatusOfIs ==
  ASSUME NEW side \in WindowSides, NEW outcome, NEW over \in BOOLEAN,
         NEW label, label = StatusOf(side, outcome, over)
  PROVE  /\ label \in WindowStatuses
         /\ Directional(side) <=> label \in {"WIN", "LOSS", "PENDING", "UNRESOLVED"}
         /\ ~Directional(side) => label = side
         /\ label \in {"WIN", "LOSS"} =>
              /\ outcome \notin {"UNKNOWN", "TIE"}
              /\ label = "WIN" <=> \/ side = "LONG_UP" /\ outcome = "UP"
                                   \/ side = "LONG_DOWN" /\ outcome = "DOWN"
<1>1. CASE ~Directional(side)
  <2>1. label = side /\ side \in {"WAIT", "REJECTED"}
    BY <1>1 DEF StatusOf, Directional, WindowSides
  <2>2. QED
    BY <1>1, <2>1 DEF WindowStatuses
<1>2. CASE Directional(side) /\ ~over
  <2>1. label = "PENDING"
    BY <1>2 DEF StatusOf
  <2>2. QED
    BY <1>2, <2>1 DEF WindowStatuses
<1>3. CASE Directional(side) /\ over
  <2>1. label = IF outcome \in {"UNKNOWN", "TIE"} THEN "UNRESOLVED"
                ELSE IF \/ side = "LONG_UP" /\ outcome = "UP"
                        \/ side = "LONG_DOWN" /\ outcome = "DOWN"
                THEN "WIN" ELSE "LOSS"
    BY <1>3 DEF StatusOf
  <2>2. QED
    BY <1>3, <2>1 DEF WindowStatuses
<1>4. QED
  BY <1>1, <1>2, <1>3

LEMMA ResultOfWindow ==
  ASSUME NEW at, at.signal.side \in WindowSides, NEW candles, NEW checkedAt \in Int, at.event.end \in Int,
         NEW r, r = ReplayResult(at, candles, checkedAt)
  PROVE  /\ IsWindowResult(r) /\ r.event = at.event /\ r.signal = at.signal
         /\ r.counted =>
              /\ RuleOutcome(at.event, candles) \notin {"UNKNOWN", "TIE"}
              /\ r.status = "WIN" <=> \/ r.signal.side = "LONG_UP" /\ RuleOutcome(at.event, candles) = "UP"
                                      \/ r.signal.side = "LONG_DOWN" /\ RuleOutcome(at.event, candles) = "DOWN"
<1>1. PICK side \in WindowSides : side = at.signal.side
  OBVIOUS
<1>2. PICK outcome : outcome = RuleOutcome(at.event, candles)
  OBVIOUS
<1>3. PICK over \in BOOLEAN : over = (at.event.end <= checkedAt)
  <2>1. PICK b : b = (at.event.end <= checkedAt)
    OBVIOUS
  <2>2. b \in BOOLEAN
    BY <2>1
  <2>3. QED
    BY <2>1, <2>2
<1>4. PICK label : label = StatusOf(side, outcome, over)
  OBVIOUS
<1>5. r.event = at.event /\ r.signal = at.signal /\ r.status = label /\ r.counted = (label \in {"WIN", "LOSS"})
  BY <1>1, <1>2, <1>3, <1>4 DEF ReplayResult
<1>6. /\ label \in WindowStatuses
      /\ Directional(side) <=> label \in {"WIN", "LOSS", "PENDING", "UNRESOLVED"}
      /\ ~Directional(side) => label = side
      /\ label \in {"WIN", "LOSS"} =>
           /\ outcome \notin {"UNKNOWN", "TIE"}
           /\ label = "WIN" <=> \/ side = "LONG_UP" /\ outcome = "UP"
                                \/ side = "LONG_DOWN" /\ outcome = "DOWN"
  BY <1>4, StatusOfIs
<1>7. r.signal.side = side
  BY <1>1, <1>5
<1>8. IsWindowResult(r)
  BY <1>5, <1>6, <1>7, Zenon DEF IsWindowResult
<1>9. QED
  BY <1>2, <1>5, <1>6, <1>7, <1>8

-----------------------------------------------------------------------------
(* The last close of the candles that were fetched.                          *)
InTime(candles) == \A i, j \in DOMAIN candles : i < j => candles[i].open < candles[j].open
FetchedFrom(candles, from) == Kept(candles, {i \in DOMAIN candles : candles[i].open >= from})

LEMMA LastCloseIs ==
  ASSUME NEW candles \in Seq(MinuteCandles), NEW time
  PROVE  /\ LastClose(candles, time) \in KnownPrices
         /\ LastClose(candles, time) = Null <=> KnownBy(candles, time) = <<>>
<1>1. PICK P : P = {i \in DOMAIN candles : CloseTime(candles[i]) <= time}
  OBVIOUS
<1>2. P \in SUBSET (1 .. Len(candles))
  BY <1>1
<1>3. PICK known : known = KnownBy(candles, time)
  OBVIOUS
<1>4. known = Kept(candles, P)
  BY <1>1, <1>3 DEF KnownBy
<1>5. known # <<>> => known[Len(known)].last \in Prices
  <2>1. known # <<>> => known[Len(known)] \in MinuteCandles
    BY <1>2, <1>4, KeptEndsIn
  <2>2. QED
    BY <2>1 DEF MinuteCandles
<1>6. LastClose(candles, time) = IF known = <<>> THEN Null ELSE known[Len(known)].last
  BY <1>3, Zenon DEF LastClose
<1>7. QED
  BY <1>3, <1>5, <1>6, NullIsNoPrice DEF KnownPrices, Prices

LEMMA FetchedClose ==
  ASSUME NEW candles \in Seq(MinuteCandles), InTime(candles), NEW from \in Int,
         NEW fetched, fetched = FetchedFrom(candles, from), NEW time \in Int,
         LastClose(fetched, time) # Null
  PROVE  LastClose(fetched, time) = LastClose(candles, time)
<1>1. PICK F : F = {i \in DOMAIN candles : candles[i].open >= from}
  OBVIOUS
<1>2. F \in SUBSET (1 .. Len(candles)) /\ fetched = Kept(candles, F)
  BY <1>1 DEF FetchedFrom
<1>3. fetched \in Seq(MinuteCandles)
  BY <1>2, KeptElements
<1>4. PICK V : V = {c \in MinuteCandles : CloseTime(c) <= time}
  OBVIOUS
<1>5. PICK Q : Q = {i \in F : CloseTime(candles[i]) <= time}
  OBVIOUS
<1>6. PICK P : P = {i \in DOMAIN candles : CloseTime(candles[i]) <= time}
  OBVIOUS
<1>7. PICK R : R = {i \in DOMAIN fetched : CloseTime(fetched[i]) <= time}
  OBVIOUS
<1>8. Selects(Q, candles, F, V)
  <2>1. \A i \in DOMAIN candles : candles[i] \in MinuteCandles
    OBVIOUS
  <2>2. QED
    BY <1>1, <1>4, <1>5, <2>1 DEF Selects
<1>9. Selects(R, fetched, 1 .. Len(fetched), V)
  <2>1. DOMAIN fetched = 1 .. Len(fetched) /\ \A i \in DOMAIN fetched : fetched[i] \in MinuteCandles
    BY <1>3
  <2>2. QED
    BY <1>4, <1>7, <2>1 DEF Selects
<1>10. PICK late : late = KnownBy(fetched, time) /\ late = Kept(candles, Q)
  <2>1. Kept(fetched, R) = Kept(candles, Q)
    BY <1>2, <1>8, <1>9, KeptOfKept
  <2>2. QED
    BY <1>7, <2>1 DEF KnownBy
<1>11. PICK known : known = KnownBy(candles, time) /\ known = Kept(candles, P)
  BY <1>6 DEF KnownBy
<1>12. late # <<>>
  BY <1>3, <1>10, LastCloseIs
<1>13. Q \in SUBSET (1 .. Len(candles)) /\ P \in SUBSET (1 .. Len(candles)) /\ Q \subseteq P
  <2>1. Q \in SUBSET (1 .. Len(candles))
    BY <1>2, <1>5, Zenon
  <2>2. DOMAIN candles = 1 .. Len(candles)
    OBVIOUS
  <2>3. P \in SUBSET (1 .. Len(candles)) /\ Q \subseteq P
    BY <1>5, <1>6, <2>1, <2>2, Zenon
  <2>4. QED
    BY <2>1, <2>3
<1>14. Q # {} /\ P # {}
  <2>1. Q # {}
    BY <1>10, <1>12, <1>13, KeptElements
  <2>2. QED
    BY <1>13, <2>1
<1>15. PICK i \in Q : late[Len(late)] = candles[i] /\ \A k \in Q : k <= i
  BY <1>10, <1>13, <1>14, KeptEnds
<1>16. PICK j \in P : known[Len(known)] = candles[j] /\ \A k \in P : k <= j
  BY <1>11, <1>13, <1>14, KeptEnds
<1>17. i = j
  <2>1. i \in DOMAIN candles /\ j \in DOMAIN candles /\ i <= j /\ i \in Int /\ j \in Int
    BY <1>13, <1>15, <1>16
  <2>2. candles[i].open \in Int /\ candles[j].open \in Int /\ candles[i].open >= from
    <3>1. candles[i] \in MinuteCandles /\ candles[j] \in MinuteCandles
      BY <2>1
    <3>2. candles[i].open >= from
      BY <1>1, <1>5, <1>15
    <3>3. QED
      BY <3>1, <3>2 DEF MinuteCandles
  <2>3. candles[j].open >= from
    <3>1. i = j \/ i < j
      BY <2>1
    <3>2. QED
      BY <2>1, <2>2, <3>1 DEF InTime
  <2>4. j \in Q
    BY <1>1, <1>5, <1>6, <1>16, <2>1, <2>3
  <2>5. QED
    BY <1>15, <2>1, <2>4
<1>18. known # <<>>
  BY <1>11, <1>13, <1>14, KeptElements
<1>19. LastClose(fetched, time) = late[Len(late)].last
  BY <1>10, <1>12, Zenon DEF LastClose
<1>20. LastClose(candles, time) = known[Len(known)].last
  BY <1>11, <1>18, Zenon DEF LastClose
<1>21. QED
  BY <1>15, <1>16, <1>17, <1>19, <1>20

\* Once there is a close, there is one later.
LEMMA LaterClose ==
  ASSUME NEW candles \in Seq(MinuteCandles), NEW time \in Int, NEW later \in Int, time <= later,
         LastClose(candles, time) # Null
  PROVE  LastClose(candles, later) # Null
<1>1. PICK P : P = {i \in DOMAIN candles : CloseTime(candles[i]) <= time}
  OBVIOUS
<1>2. PICK L : L = {i \in DOMAIN candles : CloseTime(candles[i]) <= later}
  OBVIOUS
<1>3. KnownBy(candles, time) = Kept(candles, P) /\ KnownBy(candles, later) = Kept(candles, L)
  BY <1>1, <1>2 DEF KnownBy
<1>4. P \in SUBSET (1 .. Len(candles)) /\ L \in SUBSET (1 .. Len(candles))
  BY <1>1, <1>2
<1>5. P # {}
  <2>1. Kept(candles, P) # <<>>
    BY <1>3, LastCloseIs
  <2>2. QED
    BY <1>4, <2>1, KeptElements
<1>6. P \subseteq L
  <2>1. SUFFICES ASSUME NEW i \in P PROVE i \in L
    OBVIOUS
  <2>2. i \in DOMAIN candles /\ candles[i] \in MinuteCandles /\ CloseTime(candles[i]) <= time
    BY <1>1
  <2>3. CloseTime(candles[i]) \in Int
    BY <2>2 DEF CloseTime, MinuteCandles
  <2>4. QED
    BY <1>2, <2>2, <2>3
<1>7. Kept(candles, L) # <<>>
  <2>1. L # {}
    BY <1>5, <1>6
  <2>2. QED
    BY <1>4, <2>1, KeptElements
<1>8. QED
  BY <1>3, <1>7, LastCloseIs

-----------------------------------------------------------------------------
(* The price a replayed window begins at.                                    *)
LEMMA ReferenceAtTick ==
  ASSUME NEW rule, rule.type = "END_PRICE", NEW tick \in Ticks, NEW ticks, ticks = <<tick>>, NEW candles,
         NEW start \in Int, NEW now \in Int, start <= tick.time, tick.time <= now
  PROVE  StartReference(rule, ticks, candles, start, now) = tick.price
<1>1. PICK P : P = {i \in DOMAIN ticks : start <= ticks[i].time /\ ticks[i].time <= now}
  OBVIOUS
<1>2. ticks \in Seq(Ticks) /\ DOMAIN ticks = {1} /\ Len(ticks) = 1 /\ ticks[1] = tick
  OBVIOUS
<1>3. P = {1}
  BY <1>1, <1>2
<1>4. PICK within : within = Kept(ticks, P)
  OBVIOUS
<1>5. within # <<>> /\ within[1] = tick
  <2>1. P \in SUBSET (1 .. Len(ticks)) /\ P # {}
    BY <1>2, <1>3
  <2>2. ticks \in Seq(Ticks)
    BY <1>2
  <2>3. within # <<>>
    BY <1>4, <2>1, <2>2, KeptElements
  <2>4. PICK i \in P : within[1] = ticks[i]
    <3>1. PICK s : s = ticks
      OBVIOUS
    <3>2. s \in Seq(Ticks) /\ P \in SUBSET (1 .. Len(s)) /\ within = Kept(s, P)
      BY <1>4, <2>1, <2>2, <3>1
    <3>3. \E i \in P : within[1] = s[i]
      BY <2>3, <3>2, KeptEndsIn
    <3>4. QED
      BY <3>1, <3>3
  <2>5. QED
    BY <1>2, <1>3, <2>3, <2>4
<1>6. StartReference(rule, ticks, candles, start, now) = within[1].price
  BY <1>1, <1>4, <1>5 DEF StartReference
<1>7. QED
  BY <1>5, <1>6

LEMMA NoReference ==
  ASSUME NEW rule, rule.type = "END_PRICE", NEW start \in Int, NEW now \in Int
  PROVE  StartReference(rule, <<>>, <<>>, start, now) = Null
<1>1. Kept(<<>>, {}) = <<>>
  <2>1. <<>> \in Seq(Int) /\ {} \in SUBSET (1 .. Len(<<>>))
    OBVIOUS
  <2>2. QED
    BY <2>1, KeptElements
<1>2. DOMAIN <<>> = {}
  OBVIOUS
<1>3. QED
  BY <1>1, <1>2 DEF StartReference

LEMMA SignalReference ==
  ASSUME NEW rule, rule.type = "END_PRICE", NEW interval \in WindowIntervals, NEW k \in Int,
         NEW end, end = k * interval, NEW candles \in Seq(MinuteCandles), NEW minConfidence,
         NEW at, at = SignalAt(rule, interval, end - 60, candles, minConfidence)
  PROVE  at.event.reference = LastClose(candles, end - 60)
<1>1. end \in Int /\ interval \in Int /\ ((end - 60) \div interval) * interval = end - interval /\ interval > 60
  <2>1. end \in Int /\ ((end - 60) \div interval) * interval = end - interval
    BY EndTimes
  <2>2. QED
    BY <2>1 DEF WindowIntervals
<1>2. PICK start \in Int, time \in Int : start = end - interval /\ time = end - 60 /\ start <= time
  BY <1>1
<1>3. PICK known : known = KnownBy(candles, time)
  OBVIOUS
<1>4. known \in Seq(MinuteCandles) /\ KnownBy(known, time) = KnownBy(candles, time)
  BY <1>3, KnownAgain
<1>5. PICK price : price = LastClose(known, time)
  OBVIOUS
<1>6. price = LastClose(candles, time)
  BY <1>4, <1>5 DEF LastClose
<1>7. price \in KnownPrices /\ (price = Null <=> known = <<>>)
  BY <1>3, <1>6, LastCloseIs
<1>8. PICK tick : tick = [time |-> time, price |-> price]
  OBVIOUS
<1>9. PICK ticks : ticks = IF price = Null THEN <<>> ELSE <<tick>>
  OBVIOUS
<1>10. PICK event : event = CurrentEvent(rule, interval, time, ticks, known)
  OBVIOUS
<1>11. at.event = event
  <2>1. \E state : at = WithSignal(event, state)
    BY <1>2, <1>3, <1>5, <1>8, <1>9, <1>10 DEF SignalAt
  <2>2. QED
    BY <2>1 DEF WithSignal
<1>12. event.reference = StartReference(rule, ticks, known, start, time)
  <2>1. \E current : event = EventOf(rule, start, start + interval, time,
                                     StartReference(rule, ticks, known, start, time), current)
    BY <1>1, <1>2, <1>10 DEF CurrentEvent
  <2>2. QED
    BY <2>1 DEF EventOf
<1>13. CASE price = Null
  BY <1>2, <1>7, <1>9, <1>12, <1>11, <1>6, <1>13, NoReference
<1>14. CASE price # Null
  <2>1. tick \in Ticks /\ tick.time = time /\ tick.price = price
    BY <1>7, <1>8, <1>14 DEF Ticks, KnownPrices
  <2>2. ticks = <<tick>>
    BY <1>9, <1>14
  <2>3. StartReference(rule, ticks, known, start, time) = price
    BY <1>2, <2>1, <2>2, ReferenceAtTick
  <2>4. QED
    BY <1>2, <1>6, <1>11, <1>12, <2>3
<1>15. QED
  BY <1>13, <1>14

-----------------------------------------------------------------------------
(* A window whose price at the end settles it.                               *)
LEMMA OutcomeAtEnd ==
  ASSUME NEW rule, rule.type = "END_PRICE", rule.tie = "UNKNOWN", NEW event, event.rule = rule,
         NEW from \in KnownPrices, event.reference = from, NEW candles, NEW to \in KnownPrices,
         LastClose(candles, event.end) = to, NEW outcome, outcome = RuleOutcome(event, candles),
         outcome \notin {"UNKNOWN", "TIE"}
  PROVE  /\ from # Null /\ to # Null /\ from # to
         /\ to > from => outcome = "UP"
         /\ ~(to > from) => outcome = "DOWN"
<1>1. from \in Int /\ to \in Int
  BY NullIsNoPrice DEF KnownPrices, Prices
<1>2. Null \notin {from, to}
  <2>1. SUFFICES ASSUME Null \in {from, to} PROVE FALSE
    OBVIOUS
  <2>2. outcome = "UNKNOWN"
    BY <2>1 DEF RuleOutcome
  <2>3. QED
    BY <2>2
<1>3. outcome = IF to > from THEN "UP" ELSE IF to < from THEN "DOWN" ELSE "TIE"
  BY <1>2 DEF RuleOutcome
<1>4. QED
  BY <1>1, <1>2, <1>3

\* What a bet on a window says of its reference and the price at its end.
BetIsHonest(r, before, after) ==
  /\ before # Null /\ after # Null /\ after # before
  /\ r.status = "WIN" <=> (r.signal.side = "LONG_UP" <=> after > before)

SettledWindow(r, rule, candles, end) ==
  /\ IsWindowResult(r) /\ r.event.rule = rule /\ r.event.end = end
  /\ r.counted /\ SettledByEndPrice(rule) => BetIsHonest(r, r.event.reference, LastClose(candles, end))

LEMMA WindowEndingIs ==
  ASSUME NEW rule, NEW interval \in WindowIntervals, NEW k \in Int, NEW end, end = k * interval,
         NEW candles \in Seq(MinuteCandles), NEW checkedAt \in Int,
         NEW r, r = WindowEnding(rule, interval, end, candles, checkedAt)
  PROVE  SettledWindow(r, rule, candles, end)
<1>1. PICK at : at = SignalAt(rule, interval, end - 60, candles, 3800)
  OBVIOUS
<1>2. r = ReplayResult(at, candles, checkedAt)
  BY <1>1 DEF WindowEnding
<1>3. at.event.rule = rule /\ at.event.end = end /\ end \in Int
  <2>1. at.event.rule = rule /\ at.event.end = end
    BY <1>1, SignalAtIs
  <2>2. end \in Int
    BY EndTimes
  <2>3. QED
    BY <2>1, <2>2
<1>4. PICK signal : signal = at.signal /\ IsWindowSignal(signal)
  <2>1. \E event, state : at = WithSignal(event, state)
    BY <1>1 DEF SignalAt
  <2>2. PICK event, state : at = WithSignal(event, state)
    BY <2>1
  <2>3. at.signal = GenerateSignal(event, state)
    BY <2>2 DEF WithSignal
  <2>4. \E f, score, least : at.signal = SignalOf(event, f, score, least)
    BY <2>3 DEF GenerateSignal
  <2>5. QED
    BY <2>4, SidesOfSignals
<1>5. signal.side \in WindowSides
  BY <1>4 DEF IsWindowSignal, SpokenSignal
<1>6. PICK outcome : outcome = RuleOutcome(at.event, candles)
  OBVIOUS
<1>7. /\ IsWindowResult(r) /\ r.event = at.event /\ r.signal = signal
      /\ r.counted => /\ outcome \notin {"UNKNOWN", "TIE"}
                      /\ r.status = "WIN" <=> \/ signal.side = "LONG_UP" /\ outcome = "UP"
                                              \/ signal.side = "LONG_DOWN" /\ outcome = "DOWN"
  BY <1>2, <1>3, <1>4, <1>5, <1>6, ResultOfWindow
<1>8. ASSUME r.counted, SettledByEndPrice(rule)
      PROVE  BetIsHonest(r, r.event.reference, LastClose(candles, end))
  <2>1. PICK before : before = LastClose(candles, end - 60)
    OBVIOUS
  <2>2. PICK after : after = LastClose(candles, end)
    OBVIOUS
  <2>3. before \in KnownPrices /\ after \in KnownPrices
    BY <2>1, <2>2, LastCloseIs
  <2>4. at.event.reference = before
    BY <1>1, <1>8, <2>1, SignalReference DEF SettledByEndPrice
  <2>5. PICK event : event = at.event
    OBVIOUS
  <2>6. event.rule = rule /\ event.reference = before /\ LastClose(candles, event.end) = after
    BY <1>3, <2>2, <2>4, <2>5
  <2>7. outcome \notin {"UNKNOWN", "TIE"} /\ outcome = RuleOutcome(event, candles)
    BY <1>6, <1>7, <1>8, <2>5
  <2>8. rule.type = "END_PRICE" /\ rule.tie = "UNKNOWN"
    BY <1>8 DEF SettledByEndPrice
  <2>9. /\ before # Null /\ after # Null /\ before # after
        /\ after > before => outcome = "UP"
        /\ ~(after > before) => outcome = "DOWN"
    BY <2>3, <2>6, <2>7, <2>8, OutcomeAtEnd
  <2>10. Directional(r.signal.side)
    BY <1>7, <1>8 DEF IsWindowResult
  <2>11. PICK side : side = signal.side /\ side \in {"LONG_UP", "LONG_DOWN"} /\ r.signal.side = side
    BY <1>7, <2>10 DEF Directional
  <2>12. r.status = "WIN" <=> \/ side = "LONG_UP" /\ outcome = "UP"
                              \/ side = "LONG_DOWN" /\ outcome = "DOWN"
    BY <1>7, <1>8, <2>11
  <2>13. r.status = "WIN" <=> (side = "LONG_UP" <=> after > before)
    BY <2>9, <2>11, <2>12
  <2>14. r.event.reference = before
    BY <1>7, <2>4
  <2>15. QED
    BY <2>2, <2>9, <2>11, <2>13, <2>14 DEF BetIsHonest
<1>9. QED
  BY <1>3, <1>7, <1>8 DEF SettledWindow

-----------------------------------------------------------------------------
(* The numbers of windows that are honest.                                   *)
\* What has to be known of a window for its numbers to add up.
HonestWindow(r, candles) ==
  /\ IsWindowResult(r)
  /\ r.counted /\ SettledByEndPrice(r.event.rule) =>
       BetIsHonest(r, r.event.reference, LastClose(candles, r.event.end))

LEMMA HonestWindowsAddUp ==
  ASSUME NEW candles \in Seq(MinuteCandles), NEW S, NEW results \in Seq(S),
         \A i \in DOMAIN results : HonestWindow(results[i], candles)
  PROVE  WindowsAddUp(results, candles)
<1>1. \A i \in DOMAIN results : IsWindowResult(results[i])
  BY Zenon DEF HonestWindow
<1>2. PICK m : m = ShortWindowMetrics(results)
  OBVIOUS
<1>3. NumbersAddUp(results, m)
  BY <1>1, <1>2, WindowMetricsAddUp
<1>4. ASSUME NEW i \in DOMAIN results, NEW r, r = results[i], NEW last, last = LastClose(candles, r.event.end)
      PROVE  /\ r.counted => Directional(r.signal.side)
             /\ r.counted /\ SettledByEndPrice(r.event.rule) =>
                  /\ Null \notin {last, r.event.reference} /\ last # r.event.reference
                  /\ (r.status = "WIN") <=> (r.signal.side = "LONG_UP" <=> last > r.event.reference)
  <2>1. HonestWindow(r, candles)
    BY <1>4
  <2>2. r.counted => Directional(r.signal.side)
    <3>1. PICK label, side : label = r.status /\ side = r.signal.side
      OBVIOUS
    <3>2. r.counted = (label \in {"WIN", "LOSS"})
          /\ (Directional(side) <=> label \in {"WIN", "LOSS", "PENDING", "UNRESOLVED"})
      BY <2>1, <3>1, Zenon DEF HonestWindow, IsWindowResult
    <3>3. QED
      BY <3>1, <3>2
  <2>3. ASSUME r.counted, SettledByEndPrice(r.event.rule)
        PROVE  /\ Null \notin {last, r.event.reference} /\ last # r.event.reference
               /\ (r.status = "WIN") <=> (r.signal.side = "LONG_UP" <=> last > r.event.reference)
    <3>1. BetIsHonest(r, r.event.reference, last)
      BY <1>4, <2>1, <2>3, Zenon DEF HonestWindow
    <3>2. QED
      BY <3>1, Zenon DEF BetIsHonest
  <2>4. QED
    BY <2>2, <2>3
<1>5. QED
  BY <1>2, <1>3, <1>4, Zenon DEF WindowsAddUp, NumbersAddUp

LEMMA ReplayIsASequence ==
  ASSUME NEW rule, NEW interval \in WindowIntervals, NEW candles, NEW from \in Int, NEW to \in Int, NEW checkedAt
  PROVE  \E S : ReplayCandles(rule, interval, candles, from, to, checkedAt) \in Seq(S)
<1>1. interval \in Int /\ interval > 0
  BY DEF WindowIntervals
<1>2. PICK q \in Int : q = (from + interval - 1) \div interval
  BY <1>1
<1>3. PICK first \in Int : first = q * interval
  BY <1>1
<1>4. PICK count \in Nat : count = IF to < first THEN 0 ELSE (to - first) \div interval
  <2>1. CASE to < first
    BY <2>1
  <2>2. CASE ~(to < first)
    <3>1. to - first \in Nat
      BY <2>2
    <3>2. (to - first) \div interval \in Nat
      BY <1>1, <3>1, ShareIsNatural
    <3>3. QED
      BY <2>2, <3>2
  <2>3. QED
    BY <2>1, <2>2
<1> DEFINE At(i) == ReplayResult(SignalAt(rule, interval, first + i * interval - 60, candles, 3800), candles, checkedAt)
<1>5. ReplayCandles(rule, interval, candles, from, to, checkedAt) = [i \in 1 .. count |-> At(i)]
  BY <1>2, <1>3, <1>4 DEF ReplayCandles
<1> HIDE DEF At
<1>6. [i \in 1 .. count |-> At(i)] \in Seq({At(i) : i \in 1 .. count})
  OBVIOUS
<1>7. QED
  BY <1>5, <1>6

\* The replay of past windows adds up: the numbers are those of its results, and
\* a bet on a window that the price at its end settles is counted only if that
\* price and the reference of its event are there and differ, and is won exactly
\* if the price is on its side of the reference (runShortWindowReplay, for any
\* rule and any candles of whole minutes in order of time).
THEOREM WindowsHonest ==
  ASSUME NEW rule, IsWindowRule(rule), NEW interval \in WindowIntervals, NEW duration \in Int,
         NEW candles \in Seq(MinuteCandles), InTime(candles), NEW failed \in BOOLEAN, NEW now \in Int
  PROVE  WindowsAddUp(RunShortWindowReplay(rule, interval, duration, candles, failed, now), candles)
<1>1. PICK from \in Int : from = now - duration
  OBVIOUS
<1>2. PICK early \in Int : early = from - Max({3 * interval, 1800})
  <2>1. interval \in Int
    BY DEF WindowIntervals
  <2>2. 3 * interval \in Int /\ 1800 \in Int
    BY <2>1
  <2>3. Max({3 * interval, 1800}) \in Int
    BY <2>2, MaxOfTwo
  <2>4. QED
    BY <2>3
<1>3. PICK fetched : fetched = FetchedFrom(candles, early)
  OBVIOUS
<1>4. fetched \in Seq(MinuteCandles)
  <2>1. PICK F : F = {i \in DOMAIN candles : candles[i].open >= early}
    OBVIOUS
  <2>2. F \in SUBSET (1 .. Len(candles)) /\ fetched = Kept(candles, F)
    BY <1>3, <2>1 DEF FetchedFrom
  <2>3. QED
    BY <2>2, KeptElements
<1>5. PICK results : results = ReplayCandles(rule, interval, fetched, from, now, now)
  OBVIOUS
<1>6. RunShortWindowReplay(rule, interval, duration, candles, failed, now) = IF failed THEN <<>> ELSE results
  <2>1. FetchedFrom(candles, early)
          = Kept(candles, {i \in DOMAIN candles : candles[i].open >= from - Max({3 * interval, 1800})})
    BY <1>2 DEF FetchedFrom
  <2>2. QED
    BY <1>1, <1>3, <1>5, <2>1 DEF RunShortWindowReplay
<1>7. CASE failed
  <2>1. <<>> \in Seq({}) /\ \A i \in DOMAIN <<>> : HonestWindow(<<>>[i], candles)
    OBVIOUS
  <2>2. WindowsAddUp(<<>>, candles)
    BY <2>1, HonestWindowsAddUp
  <2>3. QED
    BY <1>6, <1>7, <2>2
<1>8. CASE ~failed
  <2>1. PICK S : results \in Seq(S)
    BY <1>5, ReplayIsASequence
  <2>2. PICK count \in Nat :
          /\ DOMAIN results = 1 .. count
          /\ \A i \in 1 .. count : \E k \in Int : \E end \in Int :
               /\ end = k * interval
               /\ results[i] = WindowEnding(rule, interval, end, fetched, now)
    BY SMTT(40), <1>5, ReplayIs
  <2>3. ASSUME NEW i \in DOMAIN results PROVE HonestWindow(results[i], candles)
    <3>1. PICK k \in Int, end \in Int :
            end = k * interval /\ results[i] = WindowEnding(rule, interval, end, fetched, now)
      BY <2>2, <2>3
    <3>2. PICK r : r = results[i]
      OBVIOUS
    <3>3. /\ IsWindowResult(r) /\ r.event.rule = rule /\ r.event.end = end
          /\ r.counted /\ SettledByEndPrice(rule) => BetIsHonest(r, r.event.reference, LastClose(fetched, end))
      <4>1. end = k * interval
        BY <3>1
      <4>2. r = WindowEnding(rule, interval, end, fetched, now)
        BY <3>1, <3>2
      <4>3. SettledWindow(r, rule, fetched, end)
        BY <1>4, <4>1, <4>2, WindowEndingIs
      <4>4. QED
        BY <4>3 DEF SettledWindow
    <3>4. ASSUME r.counted, SettledByEndPrice(rule)
          PROVE  BetIsHonest(r, r.event.reference, LastClose(candles, end))
      <4>1. BetIsHonest(r, r.event.reference, LastClose(fetched, end))
        BY <3>3, <3>4
      <4>2. LastClose(fetched, end) # Null
        BY <4>1 DEF BetIsHonest
      <4>3. LastClose(fetched, end) = LastClose(candles, end)
        BY <1>3, <4>2, FetchedClose
      <4>4. QED
        BY <4>1, <4>3
    <3>5. QED
      BY <3>2, <3>3, <3>4 DEF HonestWindow
  <2>4. WindowsAddUp(results, candles)
    BY <2>1, <2>3, HonestWindowsAddUp
  <2>5. QED
    BY <1>6, <1>8, <2>4
<1>9. QED
  BY <1>7, <1>8

\* The window of a scenario has the side and the status it says.
LEMMA MockResultIs ==
  ASSUME NEW scenario, NEW side \in WindowSides, scenario.side = side,
         NEW label \in WindowStatuses, scenario.status = label,
         Directional(side) <=> label \in {"WIN", "LOSS", "PENDING", "UNRESOLVED"},
         ~Directional(side) => label = side,
         NEW interval, NEW candles, NEW checkedAt,
         NEW r, r = MockScenarioResult(scenario, interval, candles, checkedAt)
  PROVE  HonestWindow(r, candles)
<1>1. PICK given : given = SignalAt(RuleTemplate("mock"), interval, scenario.time, candles, 2500)
  OBVIOUS
<1>2. PICK event, state : given = WithSignal(event, state) /\ event.rule = RuleTemplate("mock")
  <2>1. \E event, state : given = WithSignal(event, state)
                          /\ \E ticks, known : event = CurrentEvent(RuleTemplate("mock"), interval,
                                                                    scenario.time, ticks, known)
    BY <1>1 DEF SignalAt
  <2>2. QED
    BY <2>1 DEF CurrentEvent, EventOf
<1>3. PICK signal : signal = GenerateSignal(event, state) /\ IsWindowSignal(signal)
  <2>1. \E f, score, least : GenerateSignal(event, state) = SignalOf(event, f, score, least)
    BY DEF GenerateSignal
  <2>2. QED
    BY <2>1, SidesOfSignals
<1>4. given = [event |-> event, signal |-> signal]
  BY <1>2, <1>3 DEF WithSignal
<1>5. PICK was, c, score : signal = SpokenSignal(was, c, score)
  BY <1>3 DEF IsWindowSignal
<1>6. PICK sure : sure = IF Directional(side) THEN Max({4200, c}) ELSE c
  OBVIOUS
<1>7. PICK at : at = [given EXCEPT !.signal.side = scenario.side,
                                   !.signal.confidence = IF Directional(scenario.side) THEN Max({4200, @}) ELSE @]
  OBVIOUS
<1>8. at = [event |-> event, signal |-> SpokenSignal(side, sure, score)]
  <2>1. PICK turned : turned = [given EXCEPT !.signal.side = side]
    OBVIOUS
  <2>2. turned = [event |-> event, signal |-> SpokenSignal(side, c, score)]
    BY <1>4, <1>5, <2>1 DEF SpokenSignal
  <2>3. given.signal.confidence = c
    BY <1>4, <1>5 DEF SpokenSignal
  <2>4. at = [given EXCEPT !.signal.side = side, !.signal.confidence = sure]
    BY <1>6, <1>7, <2>3
  <2>5. at = [turned EXCEPT !.signal.confidence = sure]
    BY <2>1, <2>4
  <2>6. QED
    BY <2>2, <2>5 DEF SpokenSignal
<1>9. PICK result : result = ReplayResult(at, candles, checkedAt)
  OBVIOUS
<1>10. \E given_label, given_counted :
          result = [event |-> at.event, signal |-> at.signal, status |-> given_label, counted |-> given_counted]
  BY <1>9 DEF ReplayResult
<1>11. r = [result EXCEPT !.status = label, !.counted = label \in {"WIN", "LOSS"}]
  BY <1>1, <1>7, <1>9 DEF MockScenarioResult
<1>12. /\ r.event = event /\ r.signal.side = side /\ r.status = label
       /\ r.counted = (label \in {"WIN", "LOSS"})
  BY <1>8, <1>10, <1>11 DEF SpokenSignal
<1>13. IsWindowResult(r)
  BY <1>12, Zenon DEF IsWindowResult
<1>14. ~SettledByEndPrice(r.event.rule)
  BY <1>2, <1>12 DEF SettledByEndPrice, RuleTemplate
<1>15. QED
  BY <1>13, <1>14 DEF HonestWindow

=============================================================================
