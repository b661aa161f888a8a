------------------------------ MODULE Indicators ------------------------------
(***************************************************************************)
(* The indicators a directional signal reads from its candles.             *)
(*                                                                         *)
(* Prices and volumes are integers and averages of them thousandths.       *)
(* Ratios to the last price are parts per million, the RSI and the         *)
(* position in the Bollinger band percentages, z-scores tenths.  The       *)
(* logarithm of the ratio of two prices is taken for their relative move.  *)
(***************************************************************************)
EXTENDS ShortWindow

RequiredCandles == 35

Size(n) == Max({n, -n})

\* Rounds towards zero, as rounding of a decimal does of numbers and of their
\* opposites alike.
Over(n, d) == Sign(n) * (Size(n) \div d)
LastN(values, n) == SubSeq(values, Max({1, Len(values) - n + 1}), Len(values))
Total(values) == FoldLeft(LAMBDA sum, v : sum + v, 0, values)
Ppm(thousandths, price) == Over(thousandths * 1000, price)

\* emaSeries: a new value weighs 2 / (period + 1).
Ema(values, period) ==
  FoldLeft(LAMBDA ema, v : Append(ema, Over(2 * v + (period - 1) * Last(ema), period + 1)),
           <<Head(values)>>, Tail(values))

\* slope.
Slope(values) == values[Len(values)] - values[Len(values) - 1]

\* rsiSnapshot: 100 where nothing fell, a flat market included.
Rsi(closes, period) ==
  LET moves == [i \in 1 .. Len(closes) - 1 |-> 1000 * (closes[i + 1] - closes[i])]
      smooth(sign) ==
        LET part == [i \in DOMAIN moves |-> Max({sign * moves[i], 0})]
        IN FoldLeft(LAMBDA mean, v : (mean * (period - 1) + v) \div period,
                    Total(SubSeq(part, 1, period)) \div period,
                    SubSeq(part, period + 1, Len(part)))
      gain == smooth(1)
      loss == smooth(-1)
  IN IF loss = 0 THEN 100 ELSE (100 * gain) \div (gain + loss)

\* macdSnapshot: the histogram.
MacdHistogram(thousandths) ==
  LET fast == Ema(thousandths, 12)
      slow == Ema(thousandths, 26)
      line == [i \in DOMAIN fast |-> fast[i] - slow[i]]
      signal == Ema(line, 9)
  IN [i \in DOMAIN line |-> line[i] - signal[i]]

\* standardDeviation, in tenths.
Deviation(values) ==
  LET mean == (10 * Total(values)) \div Len(values)
      squares == [i \in DOMAIN values |-> (10 * values[i] - mean) * (10 * values[i] - mean)]
  IN SquareRoot(Total(squares) \div Len(values))

\* The width of the band of two deviations around the mean.
Bandwidth(window) ==
  (Deviation(window) * 40000) \div (Total(window) \div (Len(window) * 10))

\* bollingerSnapshot: where the last price is in the band.
BandPosition(window) ==
  LET width == 4 * Deviation(window)
      lower == (10 * Total(window)) \div Len(window) - (width \div 2)
  IN IF width = 0 THEN 50 ELSE Over(100 * (10 * Last(window) - lower), width)

\* atrSnapshot: the mean of the true ranges, in thousandths.
Atr(candles, period) ==
  LET range == [i \in 1 .. Len(candles) - 1 |->
                  LET c == candles[i + 1] before == candles[i].close
                  IN Max({c.high - c.low, Size(c.high - before), Size(c.low - before)})]
  IN (1000 * Total(LastN(range, period))) \div period

\* realizedVolatilitySnapshot, in parts per million.
RealizedVolatility(closes, period) ==
  LET window == LastN(closes, period + 1)
  IN Deviation([i \in 1 .. period |-> Over((window[i + 1] - window[i]) * 100000, window[i])])

\* volumeSnapshot: the z-score of the last volume.
VolumeScoreZ(volumes, period) ==
  LET window == LastN(volumes, period)
      sigma == Deviation(window)
  IN IF sigma = 0 THEN 0 ELSE Over(100 * Last(window) - (100 * Total(window)) \div period, sigma)

\* periodReturn.
PeriodReturn(closes, period) ==
  LET before == closes[Len(closes) - period]
  IN Over((Last(closes) - before) * 100000, before) * 10

\* The snapshot of closes and their indicators, rounded.
Snapshot(closes, fast, slow, histogram, atr, volatility, window, width, before, z) ==
  LET price == Last(closes)
  IN [gap |-> Ppm(Last(fast) - Last(slow), price), slope |-> Ppm(Slope(fast), price),
      above |-> Ppm(1000 * price - Last(slow), price),
      r1 |-> PeriodReturn(closes, 1), r3 |-> PeriodReturn(closes, 3), r5 |-> PeriodReturn(closes, 5),
      hist |-> Ppm(Last(histogram), price), histSlope |-> Ppm(Slope(histogram), price),
      histAtr |-> IF atr = 0 THEN Ppm(Last(histogram), price)
                  ELSE Over(Last(histogram) * 50000, atr) * 20,
      atr |-> Ppm(atr, price),
      regime |-> IF Ppm(atr, price) > 6000 \/ volatility > 4000 THEN "high"
                 ELSE IF Ppm(atr, price) < 2000 THEN "low" ELSE "normal",
      squeeze |-> width < 12000, expansion |-> 100 * width > 108 * before,
      band |-> BandPosition(window), width |-> width, rsi |-> Rsi(closes, 14),
      z |-> z, abnormal |-> Size(z) >= 15]

\* buildFeatureSnapshot, of the candles' closes and volumes.
FeaturesOfSeries(closes, thousandths, volumes, atr) ==
  Snapshot(closes, Ema(thousandths, 8), Ema(thousandths, 21), MacdHistogram(thousandths), atr,
           RealizedVolatility(closes, 14), LastN(closes, 20), Bandwidth(LastN(closes, 20)),
           Bandwidth(SubSeq(closes, Len(closes) - 20, Len(closes) - 1)), VolumeScoreZ(volumes, 20))

FeatureSnapshot(candles) ==
  FeaturesOfSeries([i \in DOMAIN candles |-> candles[i].close],
                   [i \in DOMAIN candles |-> 1000 * candles[i].close],
                   [i \in DOMAIN candles |-> candles[i].volume], Atr(candles, 14))

\* emptyFeatureSnapshot, of too few candles.
EmptyFeatures ==
  [gap |-> 0, slope |-> 0, above |-> 0, r1 |-> 0, r3 |-> 0, r5 |-> 0, hist |-> 0, histSlope |-> 0,
   histAtr |-> 0, atr |-> 0, regime |-> "low", squeeze |-> TRUE, expansion |-> FALSE, band |-> 50,
   width |-> 0, rsi |-> 50, z |-> 0, abnormal |-> FALSE]
=============================================================================
