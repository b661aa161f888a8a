------------------------------ MODULE CaptureRuns ------------------------------
(***************************************************************************)
(* The capture jobs of packages/research-signals over one research store,  *)
(* used by one process at a time: a gateway, whose POST /capture/run       *)
(* requests overlap, or a `pnpm capture:*' command.  Each request goes     *)
(* through the jobs of its mode.                                           *)
(*                                                                         *)
(* A job goes through its parts (symbols, intervals, windows).  For each   *)
(* it fetches a batch of records, awaiting the network, and later inserts  *)
(* the batch, which skips records whose key the store already has.  Then   *)
(* it records a capture run.  Modes with several jobs end in an aggregate. *)
(* Between any two of these steps other requests may act, and the process  *)
(* may die and another one take over.  The store is seen through its       *)
(* interface: a set of rows.                                               *)
(***************************************************************************)
EXTENDS Naturals, Sequences, FiniteSets, Functions

CONSTANTS Requests,       \* capture requests; a command is a process with one
          Modes,          \* the modes they are started with
          Sources,        \* "live", or "mock" under EPT_LIVE_MARKET_DATA_MOCK
          Parts,          \* how many parts each job has
          FullLiveReplay, \* EPT_CAPTURE_FULL_LIVE_REPLAY
          FullLiveLab,    \* EPT_CAPTURE_FULL_LIVE_STRATEGY_LAB
          MaxClock        \* bound: moments that are told apart

SnapshotJobs == <<"binance-candles", "polymarket-markets", "fair-value-signals">>
OnceJobs == SnapshotJobs \o <<"replay-metrics", "strategy-lab">>
JobNames == Range(OnceJobs)

ASSUME CaptureAssumption ==
  /\ Modes \subseteq {"once", "snapshot"} \cup JobNames
  /\ Sources \subseteq {"live", "mock"}
  /\ Parts \in [JobNames -> Nat \ {0}]
  /\ FullLiveReplay \in BOOLEAN /\ FullLiveLab \in BOOLEAN
  /\ MaxClock \in Nat \ {0}

VARIABLES clock,       \* now()
          source,      \* shouldUseMockCapture: what the process captures
          rows,        \* the store's data rows
          captureRuns, \* the store's capture_runs
          req          \* what each request is doing

captureVars == <<clock, source, rows, captureRuns, req>>

-----------------------------------------------------------------------------
Statuses == {"success", "partial", "failed"}
Aggregate == [once |-> "capture-once", snapshot |-> "snapshot-once"]

\* A row: `at' is the time its key holds (a candle's open time, the job's
\* startedAt otherwise); `ample' says that a replay has the samples a strategy
\* needs, and that a strategy-lab row is a computed report and not a warning.
\* `by' tells apart rows that different requests inserted.
RowType == [job : JobNames, part : Nat, source : {"live", "mock"}, at : Nat,
            ample : BOOLEAN, by : Requests]

\* What the store's duplicate checks compare.  A candle has a provider in place
\* of its source, but a mock candle is stored with the provider "mock".
Key(x) == <<x.job, x.part, x.at, x.source>>

\* A candle or market job stops at the first error.  The others count it and
\* go on with the next part.
Continues == {"replay-metrics", "strategy-lab"}

Plan(mode) == CASE mode = "once"     -> OnceJobs
                [] mode = "snapshot" -> SnapshotJobs
                [] OTHER             -> <<mode>>

Phases == {"idle", "next", "fetch", "insert", "record", "aggregate",
           "answered", "refused", "dead"}

Idle == [phase |-> "idle", mode |-> "none", todo |-> <<>>,
         part |-> 0, begunAt |-> 0, startedAt |-> 0, batch |-> {}, warned |-> FALSE,
         error |-> FALSE, failures |-> 0, inserted |-> 0, results |-> <<>>]

Job(r) == Head(req[r].todo)

\* A record of the part that request r is at.
Row(r, at, ample) ==
  [job |-> Job(r), part |-> req[r].part, source |-> source, at |-> at,
   ample |-> ample, by |-> r]

\* The latest replays of a part: getLatestReplayResult returns one of them,
\* whatever its source.
LatestReplays(part) ==
  LET all == {x \in rows : x.job = "replay-metrics" /\ x.part = part}
  IN  {x \in all : \A y \in all : y.at <= x.at}

\* The batches the next part may bring.  A live source may bring nothing, or
\* candles up to some page only, or a market seen before within the window of
\* the near-duplicate check.
Batches(r) ==
  LET job == Job(r)  q == req[r]  live == source = "live"
      one(at, ample) == {Row(r, at, ample)}
      candles(n) == {Row(r, at, FALSE) : at \in 1 .. n}
  IN CASE job = "binance-candles" ->
            {candles(n) : n \in IF live THEN 0 .. q.startedAt ELSE {q.startedAt}}
       [] job = "polymarket-markets" ->
            {one(q.startedAt, FALSE)}
              \cup {one(x.at, FALSE) : x \in {y \in rows : y.job = job /\ y.source = source}}
              \cup (IF live THEN {{}} ELSE {})
       [] job = "fair-value-signals" ->
            {one(q.startedAt, FALSE)} \cup (IF live THEN {{}} ELSE {})
       [] job = "replay-metrics" ->
            {one(q.startedAt, ample) :
               ample \in IF live /\ ~FullLiveReplay THEN {FALSE} ELSE BOOLEAN}
       [] OTHER ->  \* strategy-lab
            IF live /\ ~FullLiveLab THEN {one(q.startedAt, FALSE)}
            ELSE IF ~live THEN {one(q.startedAt, TRUE)}
            ELSE IF LatestReplays(q.part) = {} THEN {one(q.startedAt, FALSE)}
            ELSE {one(q.startedAt, x.ample) : x \in LatestReplays(q.part)}

\* Mutant of New: the store inserts without looking for duplicates.
NewUnchecked(batch) == batch

\* The records of a batch that the store does not have.
New(batch) == {x \in batch : \A y \in rows : Key(y) # Key(x)}

\* Mutant of StatusOf: one stored part is enough for "success".
StatusOfLenient(q) ==
  IF q.error THEN "failed"
  ELSE IF q.failures > 0 /\ q.inserted = 0 THEN "failed"
  ELSE IF q.warned THEN "partial" ELSE "success"

\* The status of a finished job: statusFrom, and what the jobs that continue
\* after an error put in its place.
StatusOf(q) ==
  IF q.error THEN "failed"
  ELSE IF q.failures > 0 THEN IF q.inserted > 0 THEN "partial" ELSE "failed"
  ELSE IF q.warned THEN "partial" ELSE "success"

\* A capture_runs row, with the request it comes from.
Run(r, name, startedAt, status, inserted) ==
  [request |-> r, job |-> name, status |-> status, inserted |-> inserted,
   source |-> source, startedAt |-> startedAt]

CaptureInit ==
  /\ clock = 1 /\ source \in Sources
  /\ rows = {} /\ captureRuns = {}
  /\ req = [r \in Requests |-> Idle]

-----------------------------------------------------------------------------
\* POST /capture/run or a command starts.
Begin(r) ==
  /\ req[r].phase = "idle"
  /\ \E m \in Modes :
       req' = [req EXCEPT ![r] = [Idle EXCEPT !.phase = "next", !.mode = m,
                                              !.begunAt = clock, !.todo = Plan(m)]]
  /\ UNCHANGED <<clock, source, rows, captureRuns>>

\* The store's init() throws: its file cannot be opened, and nothing catches it.
InitThrows(r) ==
  /\ req[r].phase = "next"
  /\ req' = [req EXCEPT ![r].phase = "refused"]
  /\ UNCHANGED <<clock, source, rows, captureRuns>>

\* The next job starts and reads the clock.
StartJob(r) ==
  /\ req[r].phase = "next"
  /\ req' = [req EXCEPT ![r] = [@ EXCEPT !.phase = "fetch", !.startedAt = clock,
                                         !.part = 1, !.warned = FALSE, !.error = FALSE,
                                         !.failures = 0, !.inserted = 0]]
  /\ UNCHANGED <<clock, source, rows, captureRuns>>

\* A live replay or strategy-lab batch that stands for work not done: its own
\* warnings say "fail-closed" or "insufficient", which statusFrom looks for.
Placeholder(r, batch) ==
  /\ Job(r) \in Continues /\ source = "live"
  /\ IF Job(r) = "replay-metrics" THEN ~FullLiveReplay ELSE \A x \in batch : ~x.ample

\* The data of the next part arrives, perhaps with warnings that count.
Fetch(r) ==
  /\ req[r].phase = "fetch" /\ req[r].part <= Parts[Job(r)]
  /\ \E b \in Batches(r), w \in BOOLEAN :
       /\ req[r].warned \/ Placeholder(r, b) => w
       /\ req' = [req EXCEPT ![r] = [@ EXCEPT !.phase = "insert", !.batch = b, !.warned = w]]
  /\ UNCHANGED <<clock, source, rows, captureRuns>>

\* Mutant of Insert: the count is not kept from one part to the next.
InsertCountsLast(r) ==
  LET q == req[r]  new == New(q.batch) IN
  /\ req[r].phase = "insert"
  /\ rows' = rows \cup new
  /\ req' = [req EXCEPT ![r] = [q EXCEPT !.phase = "fetch", !.part = q.part + 1, !.batch = {},
                                         !.inserted = Cardinality(new)]]
  /\ UNCHANGED <<clock, source, captureRuns>>

\* Mutant of Insert: the loop does not move on to the next part.
InsertForgetsPart(r) ==
  LET q == req[r]  new == New(q.batch) IN
  /\ req[r].phase = "insert"
  /\ rows' = rows \cup new
  /\ req' = [req EXCEPT ![r] = [q EXCEPT !.phase = "fetch", !.batch = {},
                                         !.inserted = q.inserted + Cardinality(new)]]
  /\ UNCHANGED <<clock, source, captureRuns>>

\* The part's batch is inserted, in one turn.
Insert(r) ==
  LET q == req[r]  new == New(q.batch) IN
  /\ req[r].phase = "insert"
  /\ rows' = rows \cup new
  /\ req' = [req EXCEPT ![r] = [q EXCEPT !.phase = "fetch", !.part = q.part + 1, !.batch = {},
                                         !.inserted = q.inserted + Cardinality(new)]]
  /\ UNCHANGED <<clock, source, captureRuns>>

\* Fetching or inserting throws, the latter perhaps after the first records of
\* the batch were stored; the record whose write throws is not.  A job that
\* stops reports zero counts from its catch block.
Throws(r) ==
  LET q == req[r]  new == New(q.batch) IN
  /\ req[r].phase = "insert"
  /\ \E stored \in SUBSET new :
       /\ stored = {} \/ stored # new
       /\ rows' = rows \cup stored
  /\ req' = [req EXCEPT ![r] =
       IF Job(r) \in Continues
       THEN [q EXCEPT !.phase = "fetch", !.part = q.part + 1, !.batch = {},
                      !.failures = q.failures + 1]
       ELSE [q EXCEPT !.phase = "record", !.error = TRUE, !.batch = {}, !.inserted = 0]]
  /\ UNCHANGED <<clock, source, captureRuns>>

Finished(r) ==
  \/ req[r].phase = "record"
  \/ req[r].phase = "fetch" /\ req[r].part > Parts[Job(r)]

\* Where a request goes after a job: to the next, to the aggregate, or it is
\* done with the one job it had.
AfterJob(q) == IF Len(q.todo) > 1 THEN "next"
               ELSE IF q.mode \in DOMAIN Aggregate THEN "aggregate" ELSE "answered"

\* recordCaptureJobRun at the end of a job.
Record(r) ==
  LET q == req[r]
      run == Run(r, Job(r), q.startedAt, StatusOf(q), q.inserted)
  IN /\ Finished(r)
     /\ captureRuns' = captureRuns \cup {run}
     /\ req' = [req EXCEPT ![r] = [q EXCEPT !.phase = AfterJob(q), !.todo = Tail(q.todo),
                                            !.inserted = 0, !.results = Append(q.results, run)]]
     /\ UNCHANGED <<clock, source, rows>>

\* recordCaptureJobRun rejects: nothing catches it and the request fails.
RecordThrows(r) ==
  /\ Finished(r) \/ req[r].phase = "aggregate"
  /\ req' = [req EXCEPT ![r].phase = "refused"]
  /\ UNCHANGED <<clock, source, rows, captureRuns>>

\* Mutant of AggregateStatus: partial jobs are not looked at.
AggregateStatusIgnoresPartial(results) ==
  LET runs == Range(results) IN
  IF \A run \in runs : run.status # "failed" THEN "success"
  ELSE IF \E run \in runs : run.inserted > 0 THEN "partial" ELSE "failed"

\* The status of a request with several jobs.
AggregateStatus(results) ==
  LET runs == Range(results) IN
  IF \A run \in runs : run.status = "success" THEN "success"
  ELSE IF \E run \in runs : run.inserted > 0 THEN "partial" ELSE "failed"

\* What they inserted together.
AggregateInserted(results) == SumFunction([i \in DOMAIN results |-> results[i].inserted])

\* recordCaptureJobRun at the end of capture-once and snapshot-once.
RecordAggregate(r) ==
  LET q == req[r] IN
  /\ q.phase = "aggregate"
  /\ captureRuns' = captureRuns \cup
       {Run(r, Aggregate[q.mode], q.begunAt, AggregateStatus(q.results),
            AggregateInserted(q.results))}
  /\ req' = [req EXCEPT ![r].phase = "answered"]
  /\ UNCHANGED <<clock, source, rows>>

\* The process ends, with the requests it has under way, and another one takes
\* over the store.
Restart ==
  /\ \E other \in Sources : source' = other
  /\ req' = [r \in Requests |->
       IF req[r].phase \in {"idle", "answered", "refused"} THEN req[r]
       ELSE [req[r] EXCEPT !.phase = "dead"]]
  /\ UNCHANGED <<clock, rows, captureRuns>>

ClockTicks ==
  /\ clock < MaxClock
  /\ clock' = clock + 1
  /\ UNCHANGED <<source, rows, captureRuns, req>>

Step(r) ==
  \/ InitThrows(r) \/ StartJob(r) \/ Fetch(r) \/ Insert(r) \/ Throws(r)
  \/ Record(r) \/ RecordThrows(r) \/ RecordAggregate(r)

CaptureNext ==
  \/ ClockTicks \/ Restart
  \/ \E r \in Requests : Begin(r) \/ Step(r)

CaptureSpec == CaptureInit /\ [][CaptureNext]_captureVars

\* Every await of a job ends: fetches have a timeout, the store is synchronous.
FairCaptureSpec == CaptureSpec /\ \A r \in Requests : WF_captureVars(Step(r))

-----------------------------------------------------------------------------
\* Types.
CaptureTypeOK ==
  /\ clock \in 1 .. MaxClock /\ source \in Sources
  /\ rows \subseteq RowType
  /\ \A run \in captureRuns :
       /\ run.request \in Requests /\ run.job \in JobNames \cup Range(Aggregate)
       /\ run.status \in Statuses /\ run.inserted \in Nat
  /\ \A r \in Requests :
       /\ req[r].phase \in Phases
       /\ req[r].phase \in {"fetch", "insert", "record"} => req[r].todo # <<>>
       /\ req[r].batch \subseteq RowType
       /\ req[r].inserted \in Nat

\* Safety: the store never holds two rows with one key, whatever requests
\* fetched the same data at the same time and inserted it later.
OneRowPerKey == \A x, y \in rows : Key(x) = Key(y) => x = y

SumInserted(S) == SumFunction([run \in S |-> run.inserted])

\* What requests have inserted for a job and not recorded: in progress, or
\* abandoned when the process died or the record was refused.
Unrecorded(job) ==
  {r \in Requests : /\ req[r].todo # <<>> /\ Job(r) = job
                    /\ req[r].phase \in {"fetch", "insert", "record", "refused", "dead"}}

Stored(job) == Cardinality({x \in rows : x.job = job})
Recorded(job) == SumInserted({run \in captureRuns : run.job = job})
Pending(job) == SumFunction([r \in Unrecorded(job) |-> req[r].inserted])

\* Safety: capture_runs account for the data.  For a job that continues after
\* errors the rows are exactly those its runs recorded, plus those of runs
\* that never got to record; a job that stops never records too many.
RunsAccountForRows ==
  \A job \in JobNames :
    IF job \in Continues THEN Stored(job) = Recorded(job) + Pending(job)
                         ELSE Stored(job) >= Recorded(job) + Pending(job)

\* Safety: a replay or strategy-lab run recorded as "success" is complete: each
\* of its parts has its row, be it inserted by this run or found there.
SuccessIsComplete ==
  \A run \in captureRuns :
    run.job \in Continues /\ run.status = "success" =>
      \A part \in 1 .. Parts[run.job] :
        \E x \in rows : Key(x) = <<run.job, part, run.startedAt, run.source>>

\* Safety: an aggregate is written only when all jobs of its mode have their
\* own records, counts exactly what they count, and is a "success" only if
\* they all are.
AggregateMatchesJobs ==
  \A run \in captureRuns :
    \A mode \in DOMAIN Aggregate : run.job = Aggregate[mode] =>
      LET jobs == {other \in captureRuns : other.request = run.request /\ other # run} IN
      /\ {other.job : other \in jobs} = Range(Plan(mode))
      /\ run.inserted = SumInserted(jobs)
      /\ run.status = "success" <=> \A other \in jobs : other.status = "success"

\* Safety: what requests hold and record is of the kind that the store's tables
\* and the endpoint's answer have (capture/types.ts), and aggregates add up.
RecordsAreSound == CaptureTypeOK /\ AggregateMatchesJobs

\* Liveness: every request is answered, refused, or lost with its process.
RequestsEnd ==
  \A r \in Requests :
    req[r].phase = "next" ~> req[r].phase \in {"answered", "refused", "dead"}

\* docs/adr/0026:38: "Every stored row preserves source provenance.
\* `sourceType=live', `sourceType=mock', and `sourceType=fixture' must not be
\* conflated."  So a live strategy-lab report is computed only if a live replay
\* of that symbol and window has enough samples.
LiveReportsNeedLiveReplays ==
  \A x \in rows :
    x.job = "strategy-lab" /\ x.source = "live" /\ x.ample =>
      \E y \in rows : /\ y.job = "replay-metrics" /\ y.part = x.part
                      /\ y.source = "live" /\ y.ample
=============================================================================
