------------------------------- MODULE StrategyLab -------------------------------
(***************************************************************************)
(* The strategy lab: a grid of parameters, a sweep that replays each of    *)
(* them, the ranking of the results, and the walk-forward validation that  *)
(* chooses parameters on one part of the past and judges them on the next. *)
(*                                                                         *)
(* A parameter set is a sequence of its seven values in the grid's order.  *)
(* Scores, like rates, are in hundredths of a percent.                     *)
(***************************************************************************)
EXTENDS Replay

Product(numbers) ==
  LET upTo[n \in 0 .. Len(numbers)] == IF n = 0 THEN 1 ELSE upTo[n - 1] * numbers[n]
  IN upTo[Len(numbers)]

\* normalizeMaxCombinations.
MaxCombinations(asked) == IF asked = Null THEN 50 ELSE Max({1, Min({100, asked})})

\* sanitizeNumberList: accepted values, each once, the smallest first.
Sanitized(values, accepts) ==
  LET accepted == Range(values) \cap accepts
  IN [i \in 1 .. Cardinality(accepted) |->
        CHOOSE v \in accepted : Cardinality({u \in accepted : u < v}) = i - 1]

\* The accepted intervals in the order given, or the default ones if none is.
SanitizedIntervals(intervals) ==
  LET accepted == Kept(intervals, {i \in DOMAIN intervals : intervals[i] \in {"1m", "5m", "15m", "1h"}})
      first == {i \in DOMAIN accepted : \A j \in 1 .. i - 1 : accepted[j] # accepted[i]}
  IN IF accepted = <<>> THEN <<"5m", "15m">> ELSE Kept(accepted, first)

MinSampleCount(asked) == IF asked \in 1 .. 1000 THEN asked ELSE 3

\* The values of each parameter that the grid combines.
GridLists(options) ==
  <<SanitizedIntervals(options.intervals),
    Sanitized(options.minEdge, 0 .. 5000),
    Sanitized(options.maxSpread, 1 .. One),
    Sanitized(options.lookback, 10 .. 1000),
    Sanitized(options.minConfidence, 0 .. One),
    Sanitized(options.fees, 0 .. 1000),
    Sanitized(options.slippage, 0 .. 1000)>>

\* parameterSetId: spread and confidence have two digits in it.
ParameterSetId(p) ==
  [p EXCEPT ![3] = (@ + 50) \div 100, ![5] = (@ + 50) \div 100]

\* buildFairValueV1ParameterGrid: the combinations in the order of nested
\* loops, the last list's values changing first, up to the most allowed.
ParameterGrid(options) ==
  LET lists == GridLists(options)
      sizes == [i \in DOMAIN lists |-> Len(lists[i])]
      Chosen(k, i) == (k \div Product(SubSeq(sizes, i + 1, Len(sizes)))) % sizes[i]
      count == Min({Product(sizes), MaxCombinations(options.maxCombinations)})
  IN [k \in 1 .. count |-> [i \in DOMAIN lists |-> lists[i][1 + Chosen(k - 1, i)]]]

-----------------------------------------------------------------------------
\* mapWithConcurrency: workers take the next parameter set from a shared cursor
\* and put its result where it belongs.  One that fails rejects the sweep,
\* while the others go on.
Concurrency == 5

SweepStart(count) ==
  [cursor |-> 1, at |-> [w \in 1 .. Min({Concurrency, count}) |-> 0], done |-> {},
   results |-> [k \in 1 .. count |-> 0], failed |-> FALSE]

WorkerTakes(s, w) ==
  IF s.cursor > Len(s.results) THEN [s EXCEPT !.done = @ \cup {w}]
  ELSE [s EXCEPT !.at[w] = s.cursor, !.cursor = @ + 1]

WorkerAnswers(s, w) == [s EXCEPT !.results[s.at[w]] = s.at[w], !.at[w] = 0]

WorkerFails(s, w) == [s EXCEPT !.failed = TRUE, !.at[w] = 0, !.done = @ \cup {w}]

SweepOver(s) == s.done = DOMAIN s.at

-----------------------------------------------------------------------------
\* estimateSweepOverfitRisk.
SweepOverfitRisk(m, minSamples) ==
  IF m.winRate = Null \/ m.sampleCount < Min({3, minSamples}) THEN "unknown"
  ELSE IF m.sampleCount < minSamples THEN IF m.winRate >= 7500 THEN "high" ELSE "medium"
  ELSE IF \/ m.sampleCount < 20 /\ m.winRate >= 8000
          \/ m.cumulativePnl # Null /\ m.cumulativePnl < 0
          \/ m.maxDrawdown > One
  THEN "medium" ELSE "low"

OverfitPenalty == [high |-> 25, medium |-> 10, unknown |-> 6, low |-> 0]

\* buildScoreBreakdown.
Score(m, risk, minSamples) ==
  LET lowSample == IF m.actionableCount < minSamples
                   THEN 20 + 2 * (minSamples - m.actionableCount)
                   ELSE IF m.sampleCount < 20 THEN 8 ELSE 0
      pnl == IF m.cumulativePnl = Null THEN -One ELSE m.cumulativePnl
  IN (IF m.winRate = Null THEN -35 * One ELSE m.winRate * 45)
       + 12 * Max({-2 * One, Min({2 * One, pnl})})
       + 18 * Max({0, m.coverageRate}) - 16 * Max({0, m.maxDrawdown})
       - 12 * Max({0, m.pendingRate}) - One * (lowSample + OverfitPenalty[risk])

\* initialRejectionReasons.
InitialRejectionReasons(m, risk, minSamples) ==
  LET is == [winRate |-> m.winRate = Null, samples |-> m.actionableCount < minSamples,
             pnl |-> m.cumulativePnl # Null /\ m.cumulativePnl < 0, overfit |-> risk = "high"]
  IN {reason \in DOMAIN is : is[reason]}

\* What a replay is asked with, of a parameter set.
ReplayParameters(p) ==
  [minEdge |-> p[2], maxSpread |-> p[3], lookback |-> p[4], minConfidence |-> p[5],
   cost |-> p[6] + p[7]]

\* What a replay's metrics make of a parameter set.
ParameterResult(p, m, minSamples) ==
  LET risk == SweepOverfitRisk(m, minSamples)
  IN [parameters |-> p, metrics |-> m, risk |-> risk, score |-> Score(m, risk, minSamples),
      reasons |-> InitialRejectionReasons(m, risk, minSamples)]

\* runReplayForParameter, with the mock replay.
RunReplayForParameter(fixture, window, p, minSamples) ==
  ParameterResult(p, MockReplay(fixture, window, ReplayParameters(p), p[1]).metrics, minSamples)

-----------------------------------------------------------------------------
\* rejectionReasonsForResult: what the validation adds to a result's reasons.
ValidationReasons(walkForward) ==
  LET is == [riskForward |-> walkForward.risk = "high",
             consistency |-> walkForward.consistency < One \div 2,
             pnlForward |-> walkForward.test.cumulativePnl # Null /\ walkForward.test.cumulativePnl < 0]
  IN {reason \in DOMAIN is : is[reason]}

\* The reasons against a result, with those of its validation if it has one.
Judgement(result, walkForwards) ==
  LET own == {w \in walkForwards : ParameterSetId(w.parameters) = ParameterSetId(result.parameters)}
  IN result.reasons \cup UNION {ValidationReasons(w) : w \in own}

\* rankStrategyParameterResults: the best score first, and of equal ones the
\* one that came first.
Ranked(results, walkForwards) ==
  LET listed == Listed(results)
      sorted == Arranged(listed, [i \in DOMAIN listed |-> -listed[i].score])
  IN [n \in DOMAIN sorted |-> [sorted[n] EXCEPT !.reasons = Judgement(sorted[n], walkForwards)]]

TopCandidates(ranked) ==
  LET sound == Kept(ranked, {n \in DOMAIN ranked : ranked[n].reasons = {}}) IN
  SubSeq(sound, 1, Min({5, Len(sound)}))

-----------------------------------------------------------------------------
\* buildRollingWindows: twelve at most; each test follows its training, and the
\* next training begins a test later.  Ratios are in percent.
RollingWindows(start, end, trainRatio, testRatio) ==
  LET train == ((end - start) * Max({20, Min({80, trainRatio})})) \div 100
      test == ((end - start) * Max({10, Min({50, testRatio})})) \div 100
      Fits(n) == start + (n - 1) * test + train + test <= end
      count == IF train <= 0 \/ test <= 0 THEN 0 ELSE Cardinality({n \in 1 .. 12 : Fits(n)})
  IN [n \in 1 .. count |->
        LET from == start + (n - 1) * test IN
        [trainStart |-> from, trainEnd |-> from + train, testEnd |-> from + train + test]]

TrainWindow(w) == [start |-> w.trainStart, end |-> w.trainEnd]
TestWindow(w) == [start |-> w.trainEnd, end |-> w.testEnd]

\* The first of the candidates, or of all if none is one.
BestOf(ranked) == IF TopCandidates(ranked) # <<>> THEN TopCandidates(ranked)[1] ELSE ranked[1]

\* Mutant of SelectedOn: parameters are chosen on training and test.
SelectedOnAll(fixture, w, grid, minSamples) ==
  LET window == [start |-> w.trainStart, end |-> w.testEnd] IN
  BestOf(Ranked([k \in DOMAIN grid |-> RunReplayForParameter(fixture, window, grid[k], minSamples)], {}))

\* The parameters that did best in training, those turned away only if all were.
SelectedOn(fixture, w, grid, minSamples) ==
  BestOf(Ranked([k \in DOMAIN grid |->
                   RunReplayForParameter(fixture, TrainWindow(w), grid[k], minSamples)], {}))

\* aggregateReplayMetrics: counts and profits add up, and of the drawdowns the
\* deepest counts.
AggregateReplayMetrics(ms) ==
  LET total(field) == Summed([i \in DOMAIN ms |-> ms[i][field]])
      evaluated == total("sampleCount") + total("pendingCount") + total("unresolvedCount")
                     + total("rejectedCount") + total("noSignalCount")
      pnls == LET known == Kept(ms, {i \in DOMAIN ms : ms[i].cumulativePnl # Null}) IN
              [i \in DOMAIN known |-> known[i].cumulativePnl]
  IN [sampleCount |-> total("sampleCount"), winCount |-> total("winCount"),
      lossCount |-> total("lossCount"), actionableCount |-> total("actionableCount"),
      winRate |-> Ratio(total("winCount"), total("winCount") + total("lossCount")),
      coverageRate |-> Ratio(total("actionableCount"), evaluated),
      pendingRate |-> Ratio(total("pendingCount"), evaluated),
      cumulativePnl |-> IF pnls = <<>> THEN Null ELSE Summed(pnls),
      maxDrawdown |-> Max({Null} \cup {ms[i].maxDrawdown : i \in DOMAIN ms})]

PassedOutOfSample(m, minSamples) ==
  /\ m.winRate # Null /\ m.actionableCount >= minSamples
  /\ m.winRate >= One \div 2 /\ m.cumulativePnl # Null /\ m.cumulativePnl >= 0

WalkForwardOverfitRisk(train, test, passed, windows, minSamples) ==
  CASE test.sampleCount < minSamples ->
         IF train.sampleCount < minSamples THEN "unknown" ELSE "medium"
    [] OTHER ->
         IF \/ train.winRate >= 7000 /\ test.winRate < 5000
            \/ train.cumulativePnl > 0 /\ test.cumulativePnl # Null /\ test.cumulativePnl < 0
            \/ 2 * passed < windows
         THEN "high" ELSE IF passed < windows THEN "medium" ELSE "low"

\* consistency: the share of windows passed, less what was lost on the way.
Consistency(train, test, passed, windows) ==
  LET Lost(a, b) == IF Null \in {a, b} THEN 0 ELSE Max({0, a - b})
      rate == Min({3000, Lost(train.winRate, test.winRate)})
      pnl == Min({2000, Lost(train.cumulativePnl, test.cumulativePnl) \div 3})
  IN Max({0, Min({One, (passed * One) \div windows - rate - pnl})})

\* The windows a parameter set was chosen on, taken together.
WalkForwardResult(group, minSamples) ==
  LET Together(train, test, passed) ==
        [parameters |-> group[1].parameters, train |-> train, test |-> test, passed |-> passed,
         windows |-> Len(group),
         risk |-> WalkForwardOverfitRisk(train, test, passed, Len(group), minSamples),
         consistency |-> Consistency(train, test, passed, Len(group))]
  IN Together(AggregateReplayMetrics([i \in DOMAIN group |-> group[i].train]),
              AggregateReplayMetrics([i \in DOMAIN group |-> group[i].test]),
              Cardinality({i \in DOMAIN group : PassedOutOfSample(group[i].test, minSamples)}))

\* buildWalkForwardResults: each parameter set by the windows it was chosen on.
WalkForwardResults(selected, minSamples) ==
  LET Group(id) == Kept(selected, {n \in DOMAIN selected : ParameterSetId(selected[n].parameters) = id})
  IN {WalkForwardResult(Group(ParameterSetId(selected[n].parameters)), minSamples) :
        n \in DOMAIN selected}

\* runWalkForwardValidation: the windows are judged by the parameters chosen on
\* them.
WalkForward(fixture, windows, grid, minSamples) ==
  LET Tested(best, w) ==
        [parameters |-> best.parameters, train |-> best.metrics,
         test |-> RunReplayForParameter(fixture, TestWindow(w), best.parameters, minSamples).metrics]
  IN WalkForwardResults([n \in DOMAIN windows |->
                           Tested(SelectedOn(fixture, windows[n], grid, minSamples), windows[n])],
                        minSamples)

\* The sweep's results in order of merit, given those of the validation.
RankedSweep(fixture, window, grid, walkForwards, minSamples) ==
  Ranked([k \in DOMAIN grid |-> RunReplayForParameter(fixture, window, grid[k], minSamples)],
         walkForwards)

-----------------------------------------------------------------------------
\* The grid holds every combination of accepted values, none twice, none other,
\* and when it is cut, those that come first.
GridIsWhole(options) ==
  LET grid == ParameterGrid(options)  lists == GridLists(options)
      count == Product([i \in DOMAIN lists |-> Len(lists[i])])
  IN /\ Len(grid) <= MaxCombinations(options.maxCombinations)
     /\ Len(grid) < count => Len(grid) = MaxCombinations(options.maxCombinations)
     /\ \A j, k \in DOMAIN grid : j # k => grid[j] # grid[k]
     /\ \A k \in DOMAIN grid : \A i \in DOMAIN lists : grid[k][i] \in Range(lists[i])

\* However the workers of a sweep interleave, a sweep that is over without a
\* failure has the result of each parameter set at its place, and no set is
\* replayed twice.
SweepKeepsPlaces(s) ==
  /\ \A k \in DOMAIN s.results : s.results[k] \in {0, k}
  /\ \A v, w \in DOMAIN s.at : v # w /\ s.at[v] # 0 => s.at[v] # s.at[w] /\ s.results[s.at[v]] = 0
  /\ SweepOver(s) /\ ~s.failed => \A k \in DOMAIN s.results : s.results[k] = k

\* Out of sample is out of sample: what is chosen in a window is chosen without
\* the results that lie after its training, and no test looks at a time that a
\* training before it or a test of another window looked at, but for the moment
\* in which one ends and the other begins.
ChoiceIsOutOfSample(fixture, windows, grid, minSamples) ==
  \A n \in DOMAIN windows :
    LET w == windows[n]
        blind == Kept(fixture, {i \in DOMAIN fixture : fixture[i].signal.time <= w.trainEnd})
    IN /\ SelectedOn(blind, w, grid, minSamples) = SelectedOn(fixture, w, grid, minSamples)
       /\ \A m \in 1 .. n - 1 :
            windows[m].trainEnd < w.trainEnd /\ windows[m].testEnd <= w.trainEnd

\* What the lab recommends has no reason against it: it made money in its
\* sample, often enough, and where the validation judged it, out of sample too;
\* recommended sets come with the best scores, and one is recommended only if it
\* is nowhere turned away.
CandidatesAreSound(fixture, window, grid, walkForwards, minSamples) ==
  \A ranked \in {RankedSweep(fixture, window, grid, walkForwards, minSamples)} :
    LET top == TopCandidates(ranked) IN
     /\ {ranked[n].parameters : n \in DOMAIN ranked} = Range(grid)
     /\ \A n \in DOMAIN top :
          /\ top[n].metrics.actionableCount >= minSamples
          /\ top[n].metrics.winRate # Null /\ top[n].metrics.cumulativePnl >= 0
          /\ top[n].risk # "high"
          /\ \A w \in walkForwards : w.parameters = top[n].parameters =>
               /\ w.test.cumulativePnl = Null \/ w.test.cumulativePnl >= 0
               /\ 2 * w.passed >= w.windows
          /\ \A m \in DOMAIN ranked : ranked[m].reasons = {} /\ ranked[m].score > top[n].score =>
               \E k \in 1 .. n - 1 : top[k] = ranked[m]
=============================================================================
