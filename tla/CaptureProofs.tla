---------------------------- MODULE CaptureProofs ----------------------------
(***************************************************************************)
(* Proofs about concurrent capture requests, for any number of requests,   *)
(* parts and moments.  The store keeps one row per key although a batch is *)
(* fetched long before it is inserted: the insert looks at the rows of its *)
(* own turn, and no batch holds two records with one key.  A run recorded  *)
(* as "success" is complete.  And the recorded runs account for the rows:  *)
(* what a request has inserted for a job is either owed or recorded once.  *)
(* Then the scheduler of captures, over its own variables.                 *)
(***************************************************************************)
EXTENDS CaptureRuns, CaptureScheduler, CollectionTheorems, SequenceTheorems, TLAPS

DistinctKeys(S) == \A x, y \in S : Key(x) = Key(y) => x = y

CaptureIInv ==
  /\ DOMAIN req = Requests
  /\ \A r \in Requests : "batch" \in DOMAIN req[r] /\ DistinctKeys(req[r].batch)
  /\ OneRowPerKey

\* No batch brings two records with one key.
LEMMA BatchKeys ==
  ASSUME NEW r \in Requests, NEW b \in Batches(r)
  PROVE  DistinctKeys(b)
<1> DEFINE job == Job(r)
           one(at, ample) == {Row(r, at, ample)}
           candles(n) == {Row(r, at, FALSE) : at \in 1 .. n}
<1>1. ASSUME NEW at, NEW ample, b = one(at, ample) PROVE DistinctKeys(b)
  BY <1>1 DEF DistinctKeys
<1>2. ASSUME NEW n, b = candles(n) PROVE DistinctKeys(b)
  <2> SUFFICES ASSUME NEW x \in b, NEW y \in b, Key(x) = Key(y) PROVE x = y
    BY DEF DistinctKeys
  <2>1. PICK s \in 1 .. n : x = Row(r, s, FALSE)
    BY <1>2
  <2>2. PICK t \in 1 .. n : y = Row(r, t, FALSE)
    BY <1>2
  <2>3. x.at = s /\ y.at = t
    BY <2>1, <2>2 DEF Row
  <2>4. x.at = y.at
    BY DEF Key
  <2>5. QED
    BY <2>1, <2>2, <2>3, <2>4
<1>3. b = {} => DistinctKeys(b)
  BY DEF DistinctKeys
<1>4. \/ b = {} \/ (\E n : b = candles(n))
      \/ (\E at, ample : b = one(at, ample))
  <2>1. CASE job = "binance-candles"
    BY <2>1 DEF Batches
  <2>2. CASE job = "polymarket-markets"
    BY <2>2 DEF Batches
  <2>3. CASE job = "fair-value-signals"
    BY <2>3 DEF Batches
  <2>4. CASE job = "replay-metrics"
    BY <2>4 DEF Batches
  <2>5. CASE job \notin {"binance-candles", "polymarket-markets", "fair-value-signals",
                         "replay-metrics"}
    BY <2>5 DEF Batches
  <2>6. QED
    BY <2>1, <2>2, <2>3, <2>4, <2>5
<1>5. QED
  BY <1>1, <1>2, <1>3, <1>4

\* Storing some new records of such a batch keeps the keys of the rows apart.
LEMMA NewKeysApart ==
  ASSUME OneRowPerKey, NEW b, DistinctKeys(b), NEW S \in SUBSET New(b),
         rows' = rows \cup S
  PROVE  OneRowPerKey'
<1> SUFFICES ASSUME NEW x \in rows', NEW y \in rows', Key(x) = Key(y) PROVE x = y
  BY DEF OneRowPerKey, Key
<1>1. \A z \in S : z \in b /\ \A w \in rows : Key(w) # Key(z)
  BY DEF New
<1>2. CASE x \in rows /\ y \in rows
  BY <1>2 DEF OneRowPerKey
<1>3. CASE x \in S /\ y \in S
  BY <1>1, <1>3 DEF DistinctKeys
<1>4. CASE (x \in rows /\ y \in S) \/ (x \in S /\ y \in rows)
  BY <1>1, <1>4
<1>5. QED
  BY <1>2, <1>3, <1>4

\* The inductive step, one part per action that touches rows or batches.
LEMMA CaptureIInvStep ==
  ASSUME CaptureIInv, [CaptureNext]_captureVars
  PROVE  CaptureIInv'
<1> USE DEF CaptureIInv
<1>1. ASSUME UNCHANGED rows PROVE OneRowPerKey'
  BY <1>1 DEF OneRowPerKey, Key
<1>2. ASSUME NEW r \in Requests, Begin(r) PROVE CaptureIInv'
  BY <1>1, <1>2 DEF Begin, Idle, DistinctKeys
<1>3. ASSUME NEW r \in Requests,
             InitThrows(r) \/ StartJob(r) \/ RecordThrows(r) \/ Record(r) \/ RecordAggregate(r)
      PROVE  CaptureIInv'
  <2>1. UNCHANGED rows /\ DOMAIN req' = Requests
    BY <1>3 DEF InitThrows, StartJob, RecordThrows, Record, RecordAggregate
  <2>2. \A s \in Requests : "batch" \in DOMAIN req'[s] /\ req'[s].batch = req[s].batch
    <3>1. CASE StartJob(r)
      BY <3>1 DEF StartJob
    <3>2. CASE RecordThrows(r) \/ InitThrows(r)
      BY <3>2 DEF RecordThrows, InitThrows
    <3>3. CASE Record(r)
      BY <3>3 DEF Record
    <3>4. CASE RecordAggregate(r)
      BY <3>4 DEF RecordAggregate
    <3>5. QED
      BY <1>3, <3>1, <3>2, <3>3, <3>4
  <2>3. QED
    BY <1>1, <2>1, <2>2 DEF DistinctKeys, Key
<1>4. ASSUME NEW r \in Requests, Fetch(r) PROVE CaptureIInv'
  BY <1>1, <1>4, BatchKeys DEF Fetch
<1>5. ASSUME NEW r \in Requests, Insert(r) PROVE CaptureIInv'
  <2>1. OneRowPerKey'
    BY <1>5, NewKeysApart DEF Insert
  <2>2. DOMAIN req' = Requests /\ \A s \in Requests : "batch" \in DOMAIN req'[s] /\ DistinctKeys(req'[s].batch)
    BY <1>5 DEF Insert, DistinctKeys
  <2>3. QED
    BY <2>1, <2>2 DEF DistinctKeys, Key
<1>6. ASSUME NEW r \in Requests, Throws(r) PROVE CaptureIInv'
  <2>1. OneRowPerKey'
    BY <1>6, NewKeysApart DEF Throws
  <2>2. DOMAIN req' = Requests /\ \A s \in Requests : "batch" \in DOMAIN req'[s] /\ DistinctKeys(req'[s].batch)
    BY <1>6 DEF Throws, DistinctKeys
  <2>3. QED
    BY <2>1, <2>2 DEF DistinctKeys, Key
<1>7. CASE ClockTicks \/ UNCHANGED captureVars
  BY <1>1, <1>7 DEF ClockTicks, captureVars
<1>8. CASE Restart
  <2>1. UNCHANGED rows /\ DOMAIN req' = Requests
    BY <1>8 DEF Restart
  <2>2. \A r \in Requests : "batch" \in DOMAIN req'[r] /\ req'[r].batch = req[r].batch
    BY <1>8 DEF Restart
  <2>3. QED
    BY <1>1, <2>1, <2>2 DEF DistinctKeys, Key
<1>9. QED
  BY <1>2, <1>3, <1>4, <1>5, <1>6, <1>7, <1>8 DEF CaptureNext, Step

\* Theorem: the store holds one row per key in every reachable state.
THEOREM CaptureOneRowPerKey == CaptureSpec => []OneRowPerKey
<1>1. CaptureInit => CaptureIInv
  BY DEF CaptureInit, CaptureIInv, Idle, DistinctKeys, OneRowPerKey
<1>2. CaptureIInv /\ [CaptureNext]_captureVars => CaptureIInv'
  BY CaptureIInvStep
<1>3. CaptureIInv => OneRowPerKey
  BY DEF CaptureIInv
<1>4. QED
  BY <1>1, <1>2, <1>3, PTL DEF CaptureSpec

-----------------------------------------------------------------------------
\* A record or row of one part of a job that goes on after an error.
IsOf(x, job, part, at, src) == Key(x) = <<job, part, at, src>>

Fields == {"phase", "mode", "todo", "part", "startedAt", "error", "failures", "batch"}

Shape ==
  /\ DOMAIN req = Requests
  /\ \A r \in Requests : /\ Fields \subseteq DOMAIN req[r]
                         /\ req[r].part \in Nat /\ req[r].failures \in Nat

\* The job may still end in "success".
Unfailed(r) ==
  /\ req[r].phase \in {"fetch", "insert", "record"} /\ Job(r) \in Continues
  /\ ~req[r].error /\ req[r].failures = 0

\* Then every part before the current one is stored.
StoredSoFar(r) ==
  Unfailed(r) => \A part \in Nat : 1 <= part /\ part < req[r].part =>
    \E x \in rows : IsOf(x, Job(r), part, req[r].startedAt, source)

\* A batch that waits for its insert has a record of the current part.
BatchIsOfPart(r) ==
  req[r].phase = "insert" /\ Job(r) \in Continues =>
    \E x \in req[r].batch : IsOf(x, Job(r), req[r].part, req[r].startedAt, source)

\* Only an error ends a job before its last part.
EndsEarlyOnError(r) == req[r].phase = "record" => req[r].error

\* Only a mode of several jobs ends in an aggregate.
AggregateHasMode(r) == req[r].phase = "aggregate" => req[r].mode \in DOMAIN Aggregate

InOrder(r) ==
  StoredSoFar(r) /\ BatchIsOfPart(r) /\ EndsEarlyOnError(r) /\ AggregateHasMode(r)

CompleteIInv ==
  /\ Shape /\ SuccessIsComplete
  /\ \A r \in Requests : InOrder(r)

\* Short lists of names.
LEMMA ShortJobs ==
  ASSUME NEW S, NEW a \in S, NEW b \in S, NEW c \in S
  PROVE  /\ <<a, b>> \in Seq(S) /\ Len(<<a, b>>) = 2
         /\ <<a, b, c>> \in Seq(S) /\ Len(<<a, b, c>>) = 3
OBVIOUS

\* The names of the jobs, and of the modes that have several.
LEMMA JobsAreKnown ==
  /\ JobNames = {"binance-candles", "polymarket-markets", "fair-value-signals",
                 "replay-metrics", "strategy-lab"}
  /\ \A s \in {SnapshotJobs, OnceJobs} :
       s \in Seq(JobNames) /\ Len(s) > 0 /\ \A i, j \in 1 .. Len(s) : s[i] = s[j] => i = j
<1> DEFINE S == {"binance-candles", "polymarket-markets", "fair-value-signals",
                 "replay-metrics", "strategy-lab"}
<1>0. /\ "binance-candles" \in S /\ "polymarket-markets" \in S
      /\ "fair-value-signals" \in S
      /\ "replay-metrics" \in S /\ "strategy-lab" \in S
  OBVIOUS
<1>1. PICK first \in Seq(S) :
        first = <<"binance-candles", "polymarket-markets", "fair-value-signals">>
  BY <1>0, ShortJobs, Zenon
<1>2. /\ Len(first) = 3 /\ first[1] = "binance-candles" /\ first[2] = "polymarket-markets"
      /\ first[3] = "fair-value-signals"
  BY <1>1
<1>3. PICK others \in Seq(S) : others = <<"replay-metrics", "strategy-lab">>
  BY <1>0, ShortJobs, Zenon
<1>4. Len(others) = 2 /\ others[1] = "replay-metrics" /\ others[2] = "strategy-lab"
  BY <1>3
<1>5. SnapshotJobs = first /\ OnceJobs = first \o others
  BY <1>1, <1>3 DEF SnapshotJobs, OnceJobs
<1>6. PICK once : once = first \o others
  OBVIOUS
<1>7. /\ once \in Seq(S) /\ Len(once) = Len(first) + Len(others)
      /\ \A k \in 1 .. Len(first) + Len(others) :
           once[k] = IF k <= Len(first) THEN first[k] ELSE others[k - Len(first)]
  BY <1>6, ConcatProperties
<1>8. /\ Len(once) = 5 /\ once[1] = first[1] /\ once[2] = first[2] /\ once[3] = first[3]
      /\ once[4] = others[1] /\ once[5] = others[2]
  BY <1>2, <1>4, <1>7
<1>9. \A i \in 1 .. 5 : i = 1 \/ i = 2 \/ i = 3 \/ i = 4 \/ i = 5
  OBVIOUS
<1>10. JobNames = S
  <2>1. DOMAIN once = 1 .. 5
    <3>1. DOMAIN once = 1 .. Len(once)
      BY <1>7, LenProperties
    <3>2. QED
      BY <1>8, <3>1
  <2>2. Range(once) = {once[1], once[2], once[3], once[4], once[5]}
    BY <1>9, <2>1 DEF Range
  <2>3. QED
    BY <1>2, <1>4, <1>5, <1>6, <1>8, <2>2 DEF JobNames
<1>11. \A i, j \in 1 .. Len(first) : first[i] = first[j] => i = j
  BY <1>2
<1>12. \A i, j \in 1 .. Len(once) : once[i] = once[j] => i = j
  BY <1>2, <1>4, <1>8, <1>9
<1>13. QED
  BY <1>2, <1>5, <1>6, <1>7, <1>8, <1>10, <1>11, <1>12

\* The jobs that continue have parts.
LEMMA PartsOfContinues == \A job \in Continues : Parts[job] \in Nat
BY JobsAreKnown, CaptureAssumption DEF Continues

\* A batch of such a job has a record of the part it was fetched for.
LEMMA BatchOfPart ==
  ASSUME NEW r \in Requests, Job(r) \in Continues, NEW b \in Batches(r)
  PROVE  \E x \in b : IsOf(x, Job(r), req[r].part, req[r].startedAt, source)
<1>1. \E ample : b = {Row(r, req[r].startedAt, ample)}
  <2>1. CASE Job(r) = "replay-metrics"
    BY <2>1 DEF Batches
  <2>2. CASE Job(r) = "strategy-lab"
    BY <2>2 DEF Batches
  <2>3. QED
    BY <2>1, <2>2 DEF Continues
<1>2. PICK ample : b = {Row(r, req[r].startedAt, ample)}
  BY <1>1
<1>3. IsOf(Row(r, req[r].startedAt, ample), Job(r), req[r].part, req[r].startedAt, source)
  BY DEF IsOf, Key, Row
<1>4. QED
  BY <1>2, <1>3

\* A request that is left alone keeps what it has stored.
LEMMA OthersKeep ==
  ASSUME CompleteIInv, NEW r \in Requests, rows \subseteq rows', source' = source,
         req'[r] = req[r]
  PROVE  InOrder(r)'
<1>1. Unfailed(r)' = Unfailed(r) /\ Job(r)' = Job(r)
  BY DEF Unfailed, Job
<1>2. StoredSoFar(r)'
  <2> SUFFICES ASSUME Unfailed(r)', NEW part \in Nat, 1 <= part, part < req[r].part
               PROVE  \E x \in rows' : IsOf(x, Job(r), part, req[r].startedAt, source)
    BY <1>1 DEF StoredSoFar, IsOf, Key
  <2>1. \E x \in rows : IsOf(x, Job(r), part, req[r].startedAt, source)
    BY <1>1 DEF CompleteIInv, InOrder, StoredSoFar
  <2>2. QED
    BY <2>1
<1>3. BatchIsOfPart(r)'
  BY <1>1 DEF CompleteIInv, InOrder, BatchIsOfPart, IsOf, Key
<1>4. EndsEarlyOnError(r)' /\ AggregateHasMode(r)'
  BY DEF CompleteIInv, InOrder, EndsEarlyOnError, AggregateHasMode
<1>5. QED
  BY <1>2, <1>3, <1>4 DEF InOrder

\* A request that is not between the start of a job and its last record is in
\* order.
LEMMA NothingOwed ==
  ASSUME NEW r \in Requests,
         req'[r].phase \notin {"fetch", "insert", "record", "aggregate"}
  PROVE  InOrder(r)'
BY DEF InOrder, StoredSoFar, Unfailed, BatchIsOfPart, EndsEarlyOnError, AggregateHasMode

\* Rows stay, so complete runs stay complete.
LEMMA CompleteStays ==
  ASSUME SuccessIsComplete, rows \subseteq rows', captureRuns' = captureRuns
  PROVE  SuccessIsComplete'
BY DEF SuccessIsComplete, Key

\* One request moves; the others are as they were.
LEMMA OneMoves ==
  ASSUME CompleteIInv, NEW r \in Requests, rows \subseteq rows', source' = source,
         Shape', \A s \in Requests : s # r => req'[s] = req[s], SuccessIsComplete',
         InOrder(r)'
  PROVE  CompleteIInv'
<1>1. ASSUME NEW s \in Requests
      PROVE  InOrder(s)'
  BY OthersKeep
<1>2. QED
  BY <1>1 DEF CompleteIInv

\* The inductive step, one part per action.
LEMMA CompleteIInvStep ==
  ASSUME CompleteIInv, [CaptureNext]_captureVars
  PROVE  CompleteIInv'
<1>0. Shape /\ SuccessIsComplete
  BY DEF CompleteIInv
<1>1. ASSUME NEW r \in Requests, Begin(r) PROVE CompleteIInv'
  <2>1. Shape' /\ req'[r].phase = "next" /\ \A s \in Requests : s # r => req'[s] = req[s]
    BY <1>0, <1>1 DEF Begin, Idle, Shape, Fields
  <2>2. rows' = rows /\ captureRuns' = captureRuns /\ source' = source
    BY <1>1 DEF Begin
  <2>3. QED
    BY <1>0, <2>1, <2>2, NothingOwed, CompleteStays, OneMoves
<1>2. ASSUME NEW r \in Requests, InitThrows(r) \/ RecordThrows(r) PROVE CompleteIInv'
  <2>1. /\ Shape' /\ req'[r].phase = "refused"
        /\ \A s \in Requests : s # r => req'[s] = req[s]
    BY <1>0, <1>2 DEF InitThrows, RecordThrows, Shape, Fields
  <2>2. rows' = rows /\ captureRuns' = captureRuns /\ source' = source
    BY <1>2 DEF InitThrows, RecordThrows
  <2>3. QED
    BY <1>0, <2>1, <2>2, NothingOwed, CompleteStays, OneMoves
<1>3. ASSUME NEW r \in Requests, RecordAggregate(r) PROVE CompleteIInv'
  <2>1. /\ Shape' /\ req'[r].phase = "answered"
        /\ \A s \in Requests : s # r => req'[s] = req[s]
    BY <1>0, <1>3 DEF RecordAggregate, Shape, Fields
  <2>2. rows' = rows /\ source' = source
    BY <1>3 DEF RecordAggregate
  <2>3. SuccessIsComplete'
    <3>1. PICK run : captureRuns' = captureRuns \cup {run} /\ run.job \notin Continues
      <4>1. req[r].mode \in DOMAIN Aggregate
        BY <1>3 DEF RecordAggregate, CompleteIInv, InOrder, AggregateHasMode
      <4>2. Aggregate[req[r].mode] \notin Continues
        BY <4>1 DEF Aggregate, Continues
      <4> DEFINE n == AggregateInserted(req[r].results)
      <4>3. captureRuns' = captureRuns \cup
              {Run(r, Aggregate[req[r].mode], req[r].begunAt,
                   AggregateStatus(req[r].results), n)}
        BY <1>3, Zenon DEF RecordAggregate
      <4> HIDE DEF n
      <4>4. Run(r, Aggregate[req[r].mode], req[r].begunAt,
                AggregateStatus(req[r].results), n).job = Aggregate[req[r].mode]
        BY DEF Run
      <4>5. QED
        BY <4>2, <4>3, <4>4, Zenon
    <3>2. QED
      BY <1>0, <2>2, <3>1 DEF SuccessIsComplete, Key
  <2>4. QED
    BY <2>1, <2>2, <2>3, NothingOwed, OneMoves
<1>4. ASSUME NEW r \in Requests, StartJob(r) PROVE CompleteIInv'
  <2>1. /\ Shape' /\ req'[r].phase = "fetch" /\ req'[r].part = 1
        /\ \A s \in Requests : s # r => req'[s] = req[s]
    BY <1>0, <1>4 DEF StartJob, Shape, Fields
  <2>2. rows' = rows /\ captureRuns' = captureRuns /\ source' = source
    BY <1>4 DEF StartJob
  <2>3. InOrder(r)'
    BY <2>1 DEF InOrder, StoredSoFar, BatchIsOfPart, EndsEarlyOnError, AggregateHasMode
  <2>4. QED
    BY <1>0, <2>1, <2>2, <2>3, CompleteStays, OneMoves
<1>5. ASSUME NEW r \in Requests, Fetch(r) PROVE CompleteIInv'
  <2>1. PICK b \in Batches(r), w \in BOOLEAN :
          req' = [req EXCEPT ![r] = [@ EXCEPT !.phase = "insert", !.batch = b, !.warned = w]]
    BY <1>5 DEF Fetch
  <2>2. rows' = rows /\ captureRuns' = captureRuns /\ source' = source /\ req[r].phase = "fetch"
    BY <1>5 DEF Fetch
  <2>3. /\ Shape' /\ \A s \in Requests : s # r => req'[s] = req[s]
        /\ req'[r].phase = "insert" /\ req'[r].batch = b /\ req'[r].todo = req[r].todo
        /\ req'[r].part = req[r].part /\ req'[r].startedAt = req[r].startedAt
        /\ req'[r].error = req[r].error /\ req'[r].failures = req[r].failures
    BY <1>0, <2>1 DEF Shape, Fields
  <2>4. Job(r)' = Job(r) /\ (Unfailed(r)' => Unfailed(r))
    BY <2>2, <2>3 DEF Job, Unfailed
  <2>5. StoredSoFar(r)'
    BY <2>2, <2>3, <2>4 DEF CompleteIInv, InOrder, StoredSoFar, IsOf, Key
  <2>6. BatchIsOfPart(r)'
    <3>1. Job(r) \in Continues =>
            \E x \in b : IsOf(x, Job(r), req[r].part, req[r].startedAt, source)
      BY BatchOfPart
    <3>2. QED
      BY <2>2, <2>3, <2>4, <3>1 DEF BatchIsOfPart, IsOf, Key
  <2>7. InOrder(r)'
    BY <2>3, <2>5, <2>6 DEF InOrder, EndsEarlyOnError, AggregateHasMode
  <2>8. QED
    BY <1>0, <2>2, <2>3, <2>7, CompleteStays, OneMoves
<1>6. ASSUME NEW r \in Requests, Insert(r) PROVE CompleteIInv'
  <2>1. /\ rows' = rows \cup New(req[r].batch) /\ captureRuns' = captureRuns
        /\ source' = source /\ req[r].phase = "insert"
    BY <1>6 DEF Insert
  <2>2. /\ Shape' /\ \A s \in Requests : s # r => req'[s] = req[s]
        /\ req'[r].phase = "fetch" /\ req'[r].todo = req[r].todo
        /\ req'[r].part = req[r].part + 1 /\ req'[r].startedAt = req[r].startedAt
        /\ req'[r].error = req[r].error /\ req'[r].failures = req[r].failures
    BY <1>0, <1>6 DEF Insert, Shape, Fields
  <2>3. Job(r)' = Job(r) /\ (Unfailed(r)' => Unfailed(r))
    BY <2>1, <2>2 DEF Job, Unfailed
  <2>4. ASSUME Unfailed(r), NEW part \in Nat, 1 <= part, part < req[r].part + 1
        PROVE  \E x \in rows' : IsOf(x, Job(r), part, req[r].startedAt, source)
    <3>1. CASE part < req[r].part
      BY <2>1, <2>4, <3>1 DEF CompleteIInv, InOrder, StoredSoFar
    <3>2. CASE part = req[r].part
      <4>1. PICK x \in req[r].batch :
              IsOf(x, Job(r), req[r].part, req[r].startedAt, source)
        BY <2>1, <2>4 DEF CompleteIInv, InOrder, BatchIsOfPart, Unfailed
      <4>2. x \in rows' \/ \E y \in rows : Key(y) = Key(x)
        BY <2>1 DEF New
      <4>3. QED
        BY <2>1, <3>2, <4>1, <4>2 DEF IsOf
    <3>3. QED
      BY <1>0, <2>4, <3>1, <3>2 DEF Shape
  <2>5. StoredSoFar(r)'
    BY <2>1, <2>2, <2>3, <2>4 DEF StoredSoFar, IsOf, Key
  <2>6. InOrder(r)'
    BY <2>2, <2>5 DEF InOrder, BatchIsOfPart, EndsEarlyOnError, AggregateHasMode
  <2>7. QED
    BY <1>0, <2>1, <2>2, <2>6, CompleteStays, OneMoves
<1>7. ASSUME NEW r \in Requests, Throws(r) PROVE CompleteIInv'
  <2>1. rows \subseteq rows' /\ captureRuns' = captureRuns /\ source' = source
    BY <1>7 DEF Throws
  <2>2. /\ Shape' /\ \A s \in Requests : s # r => req'[s] = req[s]
        /\ req'[r].todo = req[r].todo
        /\ \/ /\ req'[r].phase = "fetch" /\ req'[r].failures = req[r].failures + 1
           \/ /\ Job(r) \notin Continues /\ req'[r].phase = "record" /\ req'[r].error
    <3>1. CASE Job(r) \in Continues
      <4>1. req' = [req EXCEPT ![r] = [@ EXCEPT !.phase = "fetch",
                     !.part = req[r].part + 1, !.batch = {}, !.failures = req[r].failures + 1]]
        BY <1>7, <3>1 DEF Throws
      <4>2. QED
        BY <1>0, <4>1 DEF Shape, Fields
    <3>2. CASE Job(r) \notin Continues
      <4>1. req' = [req EXCEPT ![r] = [@ EXCEPT !.phase = "record", !.error = TRUE,
                                                !.batch = {}, !.inserted = 0]]
        BY <1>7, <3>2 DEF Throws
      <4>2. QED
        BY <1>0, <3>2, <4>1 DEF Shape, Fields
    <3>3. QED
      BY <3>1, <3>2
  <2>3. ~Unfailed(r)'
    BY <1>0, <2>2 DEF Unfailed, Shape, Job
  <2>4. InOrder(r)'
    BY <2>2, <2>3 DEF InOrder, StoredSoFar, BatchIsOfPart, EndsEarlyOnError, AggregateHasMode
  <2>5. QED
    BY <1>0, <2>1, <2>2, <2>4, CompleteStays, OneMoves
<1>8. ASSUME NEW r \in Requests, Record(r) PROVE CompleteIInv'
  <2>1. /\ rows' = rows /\ source' = source /\ Finished(r)
        /\ captureRuns' = captureRuns
             \cup {Run(r, Job(r), req[r].startedAt, StatusOf(req[r]), req[r].inserted)}
    BY <1>8 DEF Record
  <2>2. /\ Shape' /\ \A s \in Requests : s # r => req'[s] = req[s]
        /\ req'[r].phase = AfterJob(req[r]) /\ req'[r].mode = req[r].mode
    BY <1>0, <1>8 DEF Record, Shape, Fields
  <2>3. InOrder(r)'
    BY <2>2 DEF AfterJob, InOrder, StoredSoFar, Unfailed, BatchIsOfPart, EndsEarlyOnError,
       AggregateHasMode
  <2>4. ASSUME Job(r) \in Continues, StatusOf(req[r]) = "success",
               NEW part \in 1 .. Parts[Job(r)]
        PROVE  \E x \in rows : Key(x) = <<Job(r), part, req[r].startedAt, source>>
    <3>1. ~req[r].error /\ req[r].failures = 0
      BY <1>0, <2>4 DEF StatusOf, Shape
    <3>2. req[r].phase = "fetch" /\ req[r].part > Parts[Job(r)]
      BY <2>1, <3>1 DEF Finished, CompleteIInv, InOrder, EndsEarlyOnError
    <3>3. Unfailed(r) /\ part \in Nat /\ 1 <= part /\ part < req[r].part
      BY <1>0, <2>4, <3>1, <3>2, PartsOfContinues DEF Unfailed, Shape
    <3>4. QED
      BY <3>3 DEF CompleteIInv, InOrder, StoredSoFar, IsOf
  <2>5. SuccessIsComplete'
    BY <1>0, <2>1, <2>4 DEF SuccessIsComplete, Run, Key
  <2>6. QED
    BY <2>1, <2>2, <2>3, <2>5, OneMoves
<1>9. CASE Restart
  <2>1. /\ rows' = rows /\ captureRuns' = captureRuns /\ Shape'
    BY <1>0, <1>9 DEF Restart, Shape, Fields
  <2>2. \A r \in Requests : req'[r].phase \notin {"fetch", "insert", "record", "aggregate"}
    BY <1>0, <1>9 DEF Restart, Shape, Fields
  <2>3. QED
    BY <1>0, <2>1, <2>2, NothingOwed, CompleteStays DEF CompleteIInv
<1>10. CASE ClockTicks \/ UNCHANGED captureVars
  <2>1. UNCHANGED <<source, rows, captureRuns, req>>
    BY <1>10 DEF ClockTicks, captureVars
  <2>2. Shape'
    BY <1>0, <2>1 DEF Shape
  <2>3. QED
    BY <1>0, <2>1, <2>2, OthersKeep, CompleteStays DEF CompleteIInv
<1>11. QED
  BY <1>1, <1>2, <1>3, <1>4, <1>5, <1>6, <1>7, <1>8, <1>9, <1>10 DEF CaptureNext, Step

\* Theorem: a replay or strategy-lab run recorded as "success" is complete, in
\* every reachable state and whatever other requests and processes did.
THEOREM CaptureSuccessIsComplete == CaptureSpec => []SuccessIsComplete
<1>1. CaptureInit => CompleteIInv
  <2> SUFFICES ASSUME CaptureInit PROVE CompleteIInv
    OBVIOUS
  <2>1. Shape /\ SuccessIsComplete
    BY DEF CaptureInit, Idle, Shape, Fields, SuccessIsComplete
  <2>2. \A r \in Requests : req[r].phase = "idle"
    BY DEF CaptureInit, Idle
  <2>3. QED
    BY <2>1, <2>2 DEF CompleteIInv, InOrder, StoredSoFar, Unfailed, BatchIsOfPart,
       EndsEarlyOnError, AggregateHasMode
<1>2. CompleteIInv /\ [CaptureNext]_captureVars => CompleteIInv'
  BY CompleteIInvStep
<1>3. CompleteIInv => SuccessIsComplete
  BY DEF CompleteIInv
<1>4. QED
  BY <1>1, <1>2, <1>3, PTL DEF CaptureSpec

-----------------------------------------------------------------------------
(* The account of the rows.                                                  *)
\* The kinds of a recorded run and of what a request holds.
RunType == [request : Requests, job : JobNames \cup Range(Aggregate), status : Statuses,
            inserted : Nat, source : {"live", "mock"}, startedAt : Nat]
RequestType ==
  [phase : Phases, mode : Modes \cup {"none"}, todo : Seq(JobNames), part : Nat, begunAt : Nat,
   startedAt : Nat, batch : SUBSET RowType, warned : BOOLEAN, error : BOOLEAN, failures : Nat,
   inserted : Nat, results : Seq(RunType)]

\* Requests may be infinitely many; those that count anything have begun.
Begun == {r \in Requests : req[r].phase # "idle"}

RecordsTyped ==
  /\ clock \in 1 .. MaxClock /\ source \in Sources
  /\ rows \in SUBSET RowType /\ captureRuns \in SUBSET RunType
  /\ req \in [Requests -> RequestType]
  /\ IsFiniteSet(rows) /\ IsFiniteSet(captureRuns) /\ IsFiniteSet(Begun)

\* A mode's plan is a list of jobs, each of them once.
LEMMA Plans ==
  ASSUME NEW mode \in Modes
  PROVE  /\ Plan(mode) \in Seq(JobNames) /\ Len(Plan(mode)) > 0
         /\ \A i, j \in 1 .. Len(Plan(mode)) : Plan(mode)[i] = Plan(mode)[j] => i = j
         /\ Len(Plan(mode)) > 1 => mode \in DOMAIN Aggregate
<1>1. CASE mode = "once" \/ mode = "snapshot"
  BY <1>1, JobsAreKnown DEF Plan, Aggregate
<1>2. CASE mode # "once" /\ mode # "snapshot"
  <2>1. mode \in JobNames
    BY <1>2, CaptureAssumption
  <2>2. Plan(mode) = <<mode>>
    BY <1>2 DEF Plan
  <2>3. QED
    BY <2>1, <2>2
<1>3. QED
  BY <1>1, <1>2

\* No aggregate has the name of a job.
LEMMA AggregateNames ==
  /\ DOMAIN Aggregate = {"once", "snapshot"}
  /\ \A mode \in DOMAIN Aggregate :
       Aggregate[mode] \in Range(Aggregate) /\ Aggregate[mode] \notin JobNames
  /\ \A a, b \in DOMAIN Aggregate : Aggregate[a] = Aggregate[b] => a = b
BY JobsAreKnown DEF Aggregate, Range

-----------------------------------------------------------------------------
\* The runs that the store has of a request.
RunsOf(r) == {run \in captureRuns : run.request = r}

\* The results and what is still to do make up the plan of the request.
PlanOf(q) ==
  /\ q.phase = "idle" => q.todo = <<>> /\ q.results = <<>>
  /\ q.phase # "idle" =>
       /\ q.mode \in Modes /\ Len(q.results) + Len(q.todo) = Len(Plan(q.mode))
       /\ \A i \in 1 .. Len(q.results) : q.results[i].job = Plan(q.mode)[i]
       /\ \A i \in 1 .. Len(q.todo) : q.todo[i] = Plan(q.mode)[Len(q.results) + i]
  /\ q.phase \in {"next", "fetch", "insert", "record"} => q.todo # <<>>
  /\ q.phase \in {"aggregate", "answered"} => q.todo = <<>>
  /\ q.phase = "aggregate" => q.mode \in DOMAIN Aggregate

PlanKept(r) == PlanOf(req[r])

\* What a request has inserted belongs to the job it is at, and so does a batch.
BatchKept(r) ==
  LET q == req[r] IN
  /\ q.phase \in {"idle", "next", "aggregate", "answered"} => q.inserted = 0
  /\ IsFiniteSet(q.batch)
  /\ q.phase = "insert" => \A x \in q.batch : x.job = Job(r)
  /\ q.phase = "insert" /\ Job(r) \in Continues => \A x, y \in q.batch : x = y

IsAggregate(run, q) ==
  /\ q.phase = "answered" /\ q.mode \in DOMAIN Aggregate
  /\ run.job = Aggregate[q.mode] /\ run.status = AggregateStatus(q.results)
  /\ run.inserted = AggregateInserted(q.results)

\* The store has the results of a request and at most one aggregate of them.
RunsKept(r) ==
  /\ {run \in RunsOf(r) : run.job \in JobNames} = Range(req[r].results)
  /\ \A run \in RunsOf(r) : run.job \notin JobNames => IsAggregate(run, req[r])
  /\ \A run, other \in RunsOf(r) : run.job \notin JobNames /\ other.job \notin JobNames => run = other

RequestKept(r) == PlanKept(r) /\ BatchKept(r) /\ RunsKept(r)

\* What makes the account inductive: a request's runs are the results it holds,
\* its plan says which job they are of, and it owes for one job at a time.
AccountIInv ==
  /\ RecordsTyped /\ RunsAccountForRows
  /\ \A r \in Requests : RequestKept(r)

\* The records of a batch are rows of the job they are fetched for; a job that
\* goes on after errors inserts one at a time.
LEMMA BatchRows ==
  ASSUME RecordsTyped, NEW r \in Requests, req[r].todo # <<>>, NEW b \in Batches(r)
  PROVE  /\ b \in SUBSET RowType /\ IsFiniteSet(b) /\ \A x \in b : x.job = Job(r)
         /\ Job(r) \in Continues => \A x, y \in b : x = y
<1>1. /\ Job(r) \in JobNames /\ req[r].part \in Nat /\ req[r].startedAt \in Nat
      /\ source \in {"live", "mock"}
  <2>1. req[r] \in RequestType
    BY DEF RecordsTyped
  <2>2. req[r].todo \in Seq(JobNames) /\ req[r].part \in Nat /\ req[r].startedAt \in Nat
    BY <2>1 DEF RequestType
  <2>3. Head(req[r].todo) \in JobNames
    BY <2>2, HeadTailProperties
  <2>4. QED
    BY <2>2, <2>3, CaptureAssumption DEF RecordsTyped, Job
<1>2. ASSUME NEW at \in Nat, NEW ample \in BOOLEAN
      PROVE  Row(r, at, ample) \in RowType /\ Row(r, at, ample).job = Job(r)
  BY <1>1 DEF Row, RowType
<1>3. \/ b = {}
      \/ Job(r) = "binance-candles" /\ \E n \in Nat : b = {Row(r, at, FALSE) : at \in 1 .. n}
      \/ \E at \in Nat, ample \in BOOLEAN : b = {Row(r, at, ample)}
  <2>1. CASE Job(r) = "binance-candles"
    <3>1. PICK n \in IF source = "live" THEN 0 .. req[r].startedAt ELSE {req[r].startedAt} :
            b = {Row(r, at, FALSE) : at \in 1 .. n}
      BY <2>1 DEF Batches
    <3>2. n \in Nat
      BY <1>1
    <3>3. QED
      BY <2>1, <3>1, <3>2
  <2>2. CASE Job(r) = "polymarket-markets"
    <3>1. \A x \in rows : x.at \in Nat
      BY DEF RecordsTyped, RowType
    <3>2. QED
      BY <1>1, <2>2, <3>1 DEF Batches
  <2>3. CASE Job(r) = "fair-value-signals"
    BY <1>1, <2>3 DEF Batches
  <2>4. CASE Job(r) = "replay-metrics"
    BY <1>1, <2>4 DEF Batches
  <2>5. CASE Job(r) \notin {"binance-candles", "polymarket-markets", "fair-value-signals",
                            "replay-metrics"}
    <3>1. \A x \in LatestReplays(req[r].part) : x.ample \in BOOLEAN
      BY DEF RecordsTyped, RowType, LatestReplays
    <3>2. QED
      BY <1>1, <2>5, <3>1 DEF Batches
  <2>6. QED
    BY <2>1, <2>2, <2>3, <2>4, <2>5
<1>4. CASE b = {}
  BY <1>4, FS_EmptySet
<1>5. CASE Job(r) = "binance-candles" /\ \E n \in Nat : b = {Row(r, at, FALSE) : at \in 1 .. n}
  <2>1. PICK n \in Nat : b = {Row(r, at, FALSE) : at \in 1 .. n}
    BY <1>5
  <2>2. PICK f : f = [at \in 1 .. n |-> Row(r, at, FALSE)]
    OBVIOUS
  <2>3. f \in Surjection(1 .. n, b)
    BY <2>1, <2>2 DEF Surjection
  <2>4. IsFiniteSet(b)
    BY <2>3, FS_Interval, FS_Surjection
  <2>5. Job(r) \notin Continues
    BY <1>5 DEF Continues
  <2>6. \A x \in b : x \in RowType /\ x.job = Job(r)
    <3>1. ASSUME NEW at \in 1 .. n
          PROVE  Row(r, at, FALSE) \in RowType /\ Row(r, at, FALSE).job = Job(r)
      BY <1>1 DEF Row, RowType
    <3>2. QED
      BY <2>1, <3>1
  <2>7. QED
    BY <2>4, <2>5, <2>6
<1>6. CASE \E at \in Nat, ample \in BOOLEAN : b = {Row(r, at, ample)}
  BY <1>2, <1>6, FS_Singleton
<1>7. QED
  BY <1>3, <1>4, <1>5, <1>6

-----------------------------------------------------------------------------
\* What a request counts for a job and has not recorded.
Owes(r, job) == IF r \in Unrecorded(job) THEN req[r].inserted ELSE 0

LEMMA OwingAreFinite ==
  ASSUME RecordsTyped, NEW job
  PROVE  /\ IsFiniteSet(Unrecorded(job))
         /\ \A r \in Unrecorded(job) : req[r].inserted \in Nat
<1>1. Unrecorded(job) \in SUBSET Begun
  BY DEF Unrecorded, Begun
<1>2. \A r \in Unrecorded(job) : req[r].inserted \in Nat
  BY DEF RecordsTyped, RequestType, Unrecorded
<1>3. QED
  BY <1>1, <1>2, FS_Subset DEF RecordsTyped

\* What is stored, recorded and owed are numbers.
LEMMA Counts ==
  ASSUME RecordsTyped, NEW job
  PROVE  Stored(job) \in Nat /\ Recorded(job) \in Nat /\ Pending(job) \in Nat
<1>1. Stored(job) \in Nat
  <2>1. {x \in rows : x.job = job} \in SUBSET rows
    OBVIOUS
  <2>2. QED
    BY <2>1, FS_Subset, FS_CardinalityType DEF RecordsTyped, Stored
<1>2. Recorded(job) \in Nat
  <2>1. PICK S : S = {run \in captureRuns : run.job = job}
    OBVIOUS
  <2>2. IsFiniteSet(S)
    BY <2>1, FS_Subset DEF RecordsTyped
  <2>3. PICK w : w = [run \in S |-> run.inserted]
    OBVIOUS
  <2>4. \A run \in S : w[run] \in Nat
    BY <2>1, <2>3 DEF RecordsTyped, RunType
  <2>5. SumFunction(w) \in Nat
    BY <2>2, <2>3, <2>4, SumIsNatural DEF SumFunction
  <2>6. QED
    BY <2>1, <2>3, <2>5 DEF Recorded, SumInserted
<1>3. Pending(job) \in Nat
  <2>1. PICK w : w = [r \in Unrecorded(job) |-> req[r].inserted]
    OBVIOUS
  <2>2. DOMAIN w = Unrecorded(job) /\ \A r \in Unrecorded(job) : w[r] \in Nat
    BY <2>1, OwingAreFinite
  <2>3. SumFunction(w) \in Nat
    BY <2>2, OwingAreFinite, SumIsNatural DEF SumFunction
  <2>4. QED
    BY <2>1, <2>3 DEF Pending
<1>4. QED
  BY <1>1, <1>2, <1>3

\* When one request moves, what is owed changes by what it owes.
LEMMA PendingMoves ==
  ASSUME RecordsTyped, RecordsTyped', NEW r \in Requests,
         \A s \in Requests : s # r => req'[s] = req[s], NEW job
  PROVE  /\ Pending(job)' + Owes(r, job) = Pending(job) + Owes(r, job)'
         /\ Pending(job) \in Nat /\ Pending(job)' \in Nat
         /\ Owes(r, job) \in Nat /\ Owes(r, job)' \in Nat
<1>1. PICK v : v = [s \in Unrecorded(job) |-> req[s].inserted]
  OBVIOUS
<1>2. PICK w : w = [s \in Unrecorded(job)' |-> req'[s].inserted]
  OBVIOUS
<1>3. /\ IsFiniteSet(DOMAIN v) /\ IsFiniteSet(DOMAIN w)
      /\ \A s \in DOMAIN v : v[s] \in Nat
      /\ \A s \in DOMAIN w : w[s] \in Nat
  <2>1. /\ DOMAIN v = Unrecorded(job)
        /\ \A s \in DOMAIN v : v[s] = req[s].inserted
        /\ DOMAIN w = Unrecorded(job)' /\ \A s \in DOMAIN w : w[s] = req'[s].inserted
    BY <1>1, <1>2
  <2>2. IsFiniteSet(Unrecorded(job)') /\ \A s \in Unrecorded(job)' : req'[s].inserted \in Nat
    <3>1. Unrecorded(job)' \in SUBSET Begun'
      BY DEF Unrecorded, Begun
    <3>2. \A s \in Unrecorded(job)' : req'[s].inserted \in Nat
      BY DEF RecordsTyped, RequestType, Unrecorded
    <3>3. QED
      BY <3>1, <3>2, FS_Subset DEF RecordsTyped
  <2>3. QED
    BY <2>1, <2>2, OwingAreFinite
<1>4. SumFunction(v) = (IF r \in DOMAIN v THEN v[r] ELSE 0)
                         + SumFunctionOnSet(v, (DOMAIN v) \ {r})
  BY <1>3, SumWithout
<1>5. SumFunction(w) = (IF r \in DOMAIN w THEN w[r] ELSE 0)
                         + SumFunctionOnSet(w, (DOMAIN w) \ {r})
  BY <1>3, SumWithout
<1>6. PICK rest : rest = (DOMAIN v) \ {r}
  OBVIOUS
<1>7. rest = (DOMAIN w) \ {r} /\ \A s \in rest : w[s] = v[s]
  BY <1>1, <1>2, <1>6 DEF Unrecorded, Job
<1>8. IsFiniteSet(rest)
  BY <1>3, <1>6, FS_Subset
<1>9. SumFunctionOnSet(v, rest) = SumFunctionOnSet(w, rest) /\ SumFunctionOnSet(v, rest) \in Nat
  BY <1>3, <1>6, <1>7, <1>8, SumsAgree, SumIsNatural
<1>10. /\ (IF r \in DOMAIN v THEN v[r] ELSE 0) = Owes(r, job)
       /\ (IF r \in DOMAIN w THEN w[r] ELSE 0) = Owes(r, job)'
  BY <1>1, <1>2 DEF Owes
<1>11. Owes(r, job) \in Nat /\ Owes(r, job)' \in Nat
  BY <1>3, <1>10
<1>12. Pending(job) = SumFunction(v) /\ Pending(job)' = SumFunction(w)
  BY <1>1, <1>2 DEF Pending
<1>13. SumFunction(v) \in Nat /\ SumFunction(w) \in Nat
  BY <1>3, SumIsNatural DEF SumFunction
<1>14. QED
  BY <1>4, <1>5, <1>6, <1>7, <1>9, <1>10, <1>11, <1>12, <1>13

\* A new run adds what it counts to its job.
LEMMA RecordedAdds ==
  ASSUME RecordsTyped, NEW run \in RunType, run \notin captureRuns,
         captureRuns' = captureRuns \cup {run}, NEW job
  PROVE  Recorded(job)' = Recorded(job) + (IF run.job = job THEN run.inserted ELSE 0)
<1>1. PICK S : S = {other \in captureRuns : other.job = job}
  OBVIOUS
<1>2. IsFiniteSet(S) /\ \A other \in S : other.inserted \in Nat
  BY <1>1, FS_Subset DEF RecordsTyped, RunType
<1>3. CASE run.job = job
  <2>1. PICK v : v = [other \in S |-> other.inserted]
    OBVIOUS
  <2>2. PICK w : w = [other \in S \cup {run} |-> other.inserted]
    OBVIOUS
  <2>3. SumFunction(w) = w[run] + SumFunction(v)
    <3>1. run \notin S /\ w[run] \in Nat /\ \A x \in S : v[x] \in Nat /\ w[x] = v[x]
      BY <1>1, <1>2, <2>1, <2>2 DEF RunType
    <3>2. DOMAIN v = S /\ DOMAIN w = S \cup {run}
      BY <2>1, <2>2
    <3>3. QED
      BY <1>2, <3>1, <3>2, SumExtends
  <2>4. {other \in captureRuns' : other.job = job} = S \cup {run}
    BY <1>1, <1>3
  <2>5. w[run] = run.inserted /\ run.inserted \in Nat
    BY <2>2 DEF RunType
  <2>6. Recorded(job) = SumFunction(v) /\ Recorded(job)' = SumFunction(w)
    BY <1>1, <2>1, <2>2, <2>4 DEF Recorded, SumInserted
  <2>7. QED
    BY <1>3, <2>3, <2>5, <2>6, Counts
<1>4. CASE run.job # job
  <2>1. {other \in captureRuns' : other.job = job} = S
    BY <1>1, <1>4
  <2>2. Recorded(job)' = Recorded(job)
    BY <1>1, <2>1 DEF Recorded, SumInserted
  <2>3. QED
    BY <1>4, <2>2, Counts
<1>5. QED
  BY <1>3, <1>4

\* New rows of one job are counted there and nowhere else.
LEMMA StoredAdds ==
  ASSUME RecordsTyped, NEW S, IsFiniteSet(S), S \cap rows = {}, rows' = rows \cup S,
         NEW home, \A x \in S : x.job = home, NEW job
  PROVE  Stored(job)' = Stored(job) + (IF job = home THEN Cardinality(S) ELSE 0)
<1>1. PICK R : R = {x \in rows : x.job = job}
  OBVIOUS
<1>2. IsFiniteSet(R) /\ Cardinality(R) \in Nat /\ Cardinality(S) \in Nat
  BY <1>1, FS_Subset, FS_CardinalityType DEF RecordsTyped
<1>3. Stored(job) = Cardinality(R)
  BY <1>1 DEF Stored
<1>4. CASE job = home
  <2>1. {x \in rows' : x.job = job} = R \cup S /\ R \cap S = {}
    BY <1>1, <1>4
  <2>2. Cardinality(R \cup S) = Cardinality(R) + Cardinality(S) - Cardinality(R \cap S)
    BY <1>2, FS_Union
  <2>3. Cardinality(R \cap S) = 0
    BY <2>1, FS_EmptySet
  <2>4. Stored(job)' = Cardinality(R \cup S)
    BY <2>1 DEF Stored
  <2>5. QED
    BY <1>2, <1>3, <1>4, <2>2, <2>3, <2>4
<1>5. CASE job # home
  <2>1. {x \in rows' : x.job = job} = R
    BY <1>1, <1>5
  <2>2. Stored(job)' = Cardinality(R)
    BY <2>1 DEF Stored
  <2>3. QED
    BY <1>2, <1>3, <1>5, <2>2
<1>6. QED
  BY <1>4, <1>5

-----------------------------------------------------------------------------
\* A request that is left alone is kept.
LEMMA OthersKept ==
  ASSUME NEW s \in Requests, RequestKept(s), req'[s] = req[s], RunsOf(s)' = RunsOf(s)
  PROVE  RequestKept(s)'
<1>1. PlanKept(s)' /\ BatchKept(s)'
  BY DEF RequestKept, PlanKept, PlanOf, BatchKept, Job
<1>2. RunsKept(s)'
  BY DEF RequestKept, RunsKept, IsAggregate
<1>3. QED
  BY <1>1, <1>2 DEF RequestKept

\* One request moves; the others are as they were.
LEMMA OneRequestMoves ==
  ASSUME AccountIInv, RecordsTyped', RunsAccountForRows', NEW r \in Requests,
         \A s \in Requests : s # r => req'[s] = req[s] /\ RunsOf(s)' = RunsOf(s), RequestKept(r)'
  PROVE  AccountIInv'
<1>1. ASSUME NEW s \in Requests
      PROVE  RequestKept(s)'
  BY OthersKept DEF AccountIInv
<1>2. QED
  BY <1>1 DEF AccountIInv

\* Types, when one request moves.
LEMMA TypesMove ==
  ASSUME RecordsTyped, NEW r \in Requests, req' \in [Requests -> RequestType],
         \A s \in Requests : s # r => req'[s] = req[s],
         clock' = clock, source' = source,
         rows' \in SUBSET RowType, IsFiniteSet(rows'),
         captureRuns' \in SUBSET RunType, IsFiniteSet(captureRuns')
  PROVE  RecordsTyped'
<1>1. Begun' \in SUBSET (Begun \cup {r})
  BY DEF Begun
<1>2. IsFiniteSet(Begun \cup {r})
  BY FS_AddElement DEF RecordsTyped
<1>3. IsFiniteSet(Begun')
  BY <1>1, <1>2, FS_Subset
<1>4. QED
  BY <1>3 DEF RecordsTyped

\* A request moves that inserts and records nothing.
LEMMA NothingCounted ==
  ASSUME AccountIInv, RecordsTyped', NEW r \in Requests,
         \A s \in Requests : s # r => req'[s] = req[s],
         rows' = rows, captureRuns' = captureRuns,
         \A job \in JobNames : Owes(r, job)' = Owes(r, job)
  PROVE  RunsAccountForRows'
<1> SUFFICES ASSUME NEW job \in JobNames
             PROVE  (IF job \in Continues THEN Stored(job) = Recorded(job) + Pending(job)
                     ELSE Stored(job) >= Recorded(job) + Pending(job))'
  BY DEF RunsAccountForRows
<1>1. Stored(job)' = Stored(job) /\ Recorded(job)' = Recorded(job)
  BY DEF Stored, Recorded, SumInserted
<1>2. /\ Pending(job)' + Owes(r, job) = Pending(job) + Owes(r, job)'
      /\ Pending(job) \in Nat /\ Pending(job)' \in Nat /\ Owes(r, job) \in Nat
  BY PendingMoves DEF AccountIInv
<1>3. Pending(job)' = Pending(job)
  BY <1>2
<1>4. QED
  BY <1>1, <1>3 DEF AccountIInv, RunsAccountForRows

\* Its results and its plan are as they were, and it has no aggregate.
LEMMA RunsStay ==
  ASSUME NEW r \in Requests, RequestKept(r), captureRuns' = captureRuns,
         req'[r].results = req[r].results, req[r].phase # "answered"
  PROVE  RunsKept(r)'
<1>1. RunsOf(r)' = RunsOf(r)
  BY DEF RunsOf
<1>2. \A run \in RunsOf(r) : run.job \in JobNames
  BY DEF RequestKept, RunsKept, IsAggregate
<1>3. QED
  BY <1>1, <1>2 DEF RequestKept, RunsKept

\* Its results and what is to do stay as they were.
LEMMA PlanStays ==
  ASSUME NEW r \in Requests, RequestKept(r), req[r].phase # "idle", req'[r].mode = req[r].mode,
         req'[r].todo = req[r].todo, req'[r].results = req[r].results,
         \/ req'[r].phase \in {"refused", "dead"}
         \/ /\ req[r].phase \in {"next", "fetch", "insert", "record"}
            /\ req'[r].phase \in {"fetch", "insert", "record"}
  PROVE  PlanKept(r)'
BY DEF RequestKept, PlanKept, PlanOf

-----------------------------------------------------------------------------
\* The steps of one request.
LEMMA BeginAccounts ==
  ASSUME AccountIInv, NEW r \in Requests, Begin(r)
  PROVE  AccountIInv'
<1>1. PICK m \in Modes :
        req' = [req EXCEPT ![r] = [Idle EXCEPT !.phase = "next", !.mode = m,
                                               !.begunAt = clock, !.todo = Plan(m)]]
  BY DEF Begin
<1>2. /\ UNCHANGED <<clock, source, rows, captureRuns>> /\ req[r].phase = "idle"
      /\ RecordsTyped /\ RequestKept(r) /\ req \in [Requests -> RequestType]
  BY DEF Begin, AccountIInv, RecordsTyped
<1>3. /\ req'[r].phase = "next" /\ req'[r].mode = m /\ req'[r].todo = Plan(m)
      /\ req'[r].results = <<>> /\ req'[r].inserted = 0 /\ req'[r].batch = {}
      /\ \A s \in Requests : s # r => req'[s] = req[s]
  BY <1>1, <1>2 DEF Idle
<1>4. /\ Plan(m) \in Seq(JobNames) /\ Len(Plan(m)) > 0
      /\ Plan(m) # <<>>
  BY Plans
<1>5. RecordsTyped'
  <2>1. Idle.results \in Seq(RunType)
    BY DEF Idle
  <2>2. clock \in Nat
    BY <1>2, CaptureAssumption DEF RecordsTyped
  <2>3. [Idle EXCEPT !.phase = "next", !.mode = m, !.begunAt = clock, !.todo = Plan(m)]
          \in RequestType
    BY <1>4, <2>1, <2>2 DEF Idle, RequestType, Phases
  <2>4. req' \in [Requests -> RequestType]
    BY <1>1, <1>2, <2>3
  <2>5. QED
    BY <1>2, <1>3, <2>4, TypesMove DEF RecordsTyped
<1>6. PlanKept(r)'
  BY <1>3, <1>4 DEF PlanKept, PlanOf
<1>7. BatchKept(r)'
  BY <1>3, FS_EmptySet DEF BatchKept
<1>8. RunsKept(r)'
  <2>1. req[r].results = req'[r].results
    BY <1>2, <1>3 DEF RequestKept, PlanKept, PlanOf
  <2>2. QED
    BY <1>2, <2>1, RunsStay
<1>9. \A job \in JobNames : Owes(r, job)' = Owes(r, job)
  BY <1>2, <1>3 DEF Owes, Unrecorded
<1>10. \A s \in Requests : RunsOf(s)' = RunsOf(s)
  BY <1>2 DEF RunsOf
<1>11. RunsAccountForRows'
  BY <1>2, <1>3, <1>5, <1>9, NothingCounted
<1>12. QED
  BY <1>3, <1>5, <1>6, <1>7, <1>8, <1>10, <1>11, OneRequestMoves DEF RequestKept

LEMMA FailureAccounts ==
  ASSUME AccountIInv, NEW r \in Requests, InitThrows(r) \/ RecordThrows(r)
  PROVE  AccountIInv'
<1>1. /\ req' = [req EXCEPT ![r].phase = "refused"]
      /\ UNCHANGED <<clock, source, rows, captureRuns>>
      /\ req[r].phase \in {"next", "fetch", "record", "aggregate"}
  BY DEF InitThrows, RecordThrows, Finished
<1>2. RecordsTyped /\ RequestKept(r) /\ req \in [Requests -> RequestType] /\ req[r] \in RequestType
  BY DEF AccountIInv, RecordsTyped
<1>3. /\ req'[r].phase = "refused" /\ req'[r].mode = req[r].mode /\ req'[r].todo = req[r].todo
      /\ req'[r].results = req[r].results /\ req'[r].inserted = req[r].inserted
      /\ req'[r].batch = req[r].batch
      /\ \A s \in Requests : s # r => req'[s] = req[s]
  BY <1>1, <1>2 DEF RequestType
<1>4. RecordsTyped'
  <2>1. req' \in [Requests -> RequestType]
    BY <1>1, <1>2 DEF RequestType, Phases
  <2>2. QED
    BY <1>1, <1>2, <1>3, <2>1, TypesMove DEF RecordsTyped
<1>5. PlanKept(r)' /\ BatchKept(r)'
  <2>1. PlanKept(r)'
    BY <1>1, <1>2, <1>3, PlanStays
  <2>2. BatchKept(r)'
    BY <1>1, <1>2, <1>3 DEF RequestKept, BatchKept
  <2>3. QED
    BY <2>1, <2>2
<1>6. RunsKept(r)'
  BY <1>1, <1>2, <1>3, RunsStay
<1>7. \A job \in JobNames : Owes(r, job)' = Owes(r, job)
  <2>1. CASE req[r].phase \in {"next", "aggregate"}
    <3>1. req[r].inserted = 0
      BY <1>2, <2>1 DEF RequestKept, BatchKept
    <3>2. QED
      BY <1>3, <3>1 DEF Owes
  <2>2. CASE req[r].phase \in {"fetch", "record"}
    BY <1>3, <2>2 DEF Owes, Unrecorded, Job
  <2>3. QED
    BY <1>1, <2>1, <2>2
<1>8. \A s \in Requests : RunsOf(s)' = RunsOf(s)
  BY <1>1 DEF RunsOf
<1>9. RunsAccountForRows'
  BY <1>1, <1>3, <1>4, <1>7, NothingCounted
<1>10. QED
  BY <1>3, <1>4, <1>5, <1>6, <1>8, <1>9, OneRequestMoves DEF RequestKept

LEMMA StartAccounts ==
  ASSUME AccountIInv, NEW r \in Requests, StartJob(r)
  PROVE  AccountIInv'
<1>1. /\ req' = [req EXCEPT ![r] = [req[r] EXCEPT !.phase = "fetch", !.startedAt = clock,
                                         !.part = 1, !.warned = FALSE, !.error = FALSE,
                                         !.failures = 0, !.inserted = 0]]
      /\ UNCHANGED <<clock, source, rows, captureRuns>> /\ req[r].phase = "next"
  BY DEF StartJob
<1>2. RecordsTyped /\ RequestKept(r) /\ req \in [Requests -> RequestType] /\ req[r] \in RequestType
  BY DEF AccountIInv, RecordsTyped
<1>3. /\ req'[r].phase = "fetch" /\ req'[r].mode = req[r].mode /\ req'[r].todo = req[r].todo
      /\ req'[r].results = req[r].results /\ req'[r].inserted = 0
      /\ req'[r].batch = req[r].batch
      /\ \A s \in Requests : s # r => req'[s] = req[s]
  BY <1>1, <1>2 DEF RequestType
<1>4. RecordsTyped'
  <2>1. clock \in Nat
    BY <1>2, CaptureAssumption DEF RecordsTyped
  <2>2. req' \in [Requests -> RequestType]
    BY <1>1, <1>2, <2>1 DEF RequestType, Phases
  <2>3. QED
    BY <1>1, <1>2, <1>3, <2>2, TypesMove DEF RecordsTyped
<1>5. PlanKept(r)' /\ BatchKept(r)'
  <2>1. PlanKept(r)'
    BY <1>1, <1>2, <1>3, PlanStays
  <2>2. BatchKept(r)'
    BY <1>1, <1>2, <1>3 DEF RequestKept, BatchKept
  <2>3. QED
    BY <2>1, <2>2
<1>6. RunsKept(r)'
  BY <1>1, <1>2, <1>3, RunsStay
<1>7. \A job \in JobNames : Owes(r, job)' = Owes(r, job)
  <2>1. req[r].inserted = 0
    BY <1>1, <1>2 DEF RequestKept, BatchKept
  <2>2. QED
    BY <1>3, <2>1 DEF Owes
<1>8. \A s \in Requests : RunsOf(s)' = RunsOf(s)
  BY <1>1 DEF RunsOf
<1>9. RunsAccountForRows'
  BY <1>1, <1>3, <1>4, <1>7, NothingCounted
<1>10. QED
  BY <1>3, <1>4, <1>5, <1>6, <1>8, <1>9, OneRequestMoves DEF RequestKept

LEMMA FetchAccounts ==
  ASSUME AccountIInv, NEW r \in Requests, Fetch(r)
  PROVE  AccountIInv'
<1>1. PICK b \in Batches(r), w \in BOOLEAN :
        req' = [req EXCEPT ![r] = [req[r] EXCEPT !.phase = "insert", !.batch = b, !.warned = w]]
  BY DEF Fetch
<1>2. /\ UNCHANGED <<clock, source, rows, captureRuns>> /\ req[r].phase = "fetch"
      /\ RecordsTyped /\ RequestKept(r) /\ req \in [Requests -> RequestType] /\ req[r] \in RequestType
  BY DEF Fetch, AccountIInv, RecordsTyped
<1>3. /\ req'[r].phase = "insert" /\ req'[r].mode = req[r].mode /\ req'[r].todo = req[r].todo
      /\ req'[r].results = req[r].results /\ req'[r].inserted = req[r].inserted
      /\ req'[r].batch = b
      /\ \A s \in Requests : s # r => req'[s] = req[s]
  BY <1>1, <1>2 DEF RequestType
<1>4. /\ b \in SUBSET RowType /\ IsFiniteSet(b) /\ \A x \in b : x.job = Job(r)
      /\ Job(r) \in Continues => \A x, y \in b : x = y
  <2>1. req[r].todo # <<>>
    BY <1>2 DEF RequestKept, PlanKept, PlanOf
  <2>2. QED
    BY <1>2, <2>1, BatchRows
<1>5. RecordsTyped'
  <2>1. req' \in [Requests -> RequestType]
    BY <1>1, <1>2, <1>4 DEF RequestType, Phases
  <2>2. QED
    BY <1>2, <1>3, <2>1, TypesMove DEF RecordsTyped
<1>6. PlanKept(r)'
  BY <1>2, <1>3, PlanStays
<1>7. BatchKept(r)'
  BY <1>3, <1>4 DEF BatchKept, Job
<1>8. RunsKept(r)'
  BY <1>2, <1>3, RunsStay
<1>9. \A job \in JobNames : Owes(r, job)' = Owes(r, job)
  BY <1>2, <1>3 DEF Owes, Unrecorded, Job
<1>10. \A s \in Requests : RunsOf(s)' = RunsOf(s)
  BY <1>2 DEF RunsOf
<1>11. RunsAccountForRows'
  BY <1>2, <1>3, <1>5, <1>9, NothingCounted
<1>12. QED
  BY <1>3, <1>5, <1>6, <1>7, <1>8, <1>10, <1>11, OneRequestMoves DEF RequestKept

\* Inserting moves a batch from what is fetched to what is owed.
LEMMA InsertAccounts ==
  ASSUME AccountIInv, NEW r \in Requests, Insert(r)
  PROVE  AccountIInv'
<1>1. PICK new : new = New(req[r].batch)
  OBVIOUS
<1>2. /\ req' = [req EXCEPT ![r] = [req[r] EXCEPT !.phase = "fetch", !.part = req[r].part + 1,
                                        !.batch = {}, !.inserted = req[r].inserted + Cardinality(new)]]
      /\ rows' = rows \cup new
      /\ UNCHANGED <<clock, source, captureRuns>> /\ req[r].phase = "insert"
  BY <1>1 DEF Insert
<1>3. RecordsTyped /\ RequestKept(r) /\ req \in [Requests -> RequestType] /\ req[r] \in RequestType
  BY DEF AccountIInv, RecordsTyped
<1>4. /\ req'[r].phase = "fetch" /\ req'[r].mode = req[r].mode /\ req'[r].todo = req[r].todo
      /\ req'[r].results = req[r].results /\ req'[r].batch = {}
      /\ req'[r].inserted = req[r].inserted + Cardinality(new)
      /\ \A s \in Requests : s # r => req'[s] = req[s]
  BY <1>2, <1>3 DEF RequestType
<1>5. /\ new \in SUBSET RowType /\ IsFiniteSet(new) /\ Cardinality(new) \in Nat
      /\ new \cap rows = {} /\ \A x \in new : x.job = Job(r)
  <2>1. req[r].batch \in SUBSET RowType
    BY <1>3 DEF RequestType
  <2>2. IsFiniteSet(req[r].batch) /\ \A x \in req[r].batch : x.job = Job(r)
    BY <1>2, <1>3 DEF RequestKept, BatchKept
  <2>3. new \in SUBSET req[r].batch /\ new \cap rows = {}
    BY <1>1 DEF New
  <2>4. QED
    BY <2>1, <2>2, <2>3, FS_Subset, FS_CardinalityType
<1>6. RecordsTyped'
  <2>1. req[r].part + 1 \in Nat /\ req[r].inserted + Cardinality(new) \in Nat
    BY <1>3, <1>5 DEF RequestType
  <2>2. req' \in [Requests -> RequestType]
    BY <1>2, <1>3, <2>1 DEF RequestType, Phases
  <2>3. rows' \in SUBSET RowType /\ IsFiniteSet(rows')
    BY <1>2, <1>3, <1>5, FS_Union DEF RecordsTyped
  <2>4. QED
    BY <1>2, <1>3, <1>4, <2>2, <2>3, TypesMove DEF RecordsTyped
<1>7. PlanKept(r)'
  BY <1>2, <1>3, <1>4, PlanStays
<1>8. BatchKept(r)'
  BY <1>4, FS_EmptySet DEF BatchKept
<1>9. RunsKept(r)'
  BY <1>2, <1>3, <1>4, RunsStay
<1>10. \A s \in Requests : RunsOf(s)' = RunsOf(s)
  BY <1>2 DEF RunsOf
<1>11. RunsAccountForRows'
  <2> SUFFICES ASSUME NEW job \in JobNames
               PROVE  (IF job \in Continues THEN Stored(job) = Recorded(job) + Pending(job)
                       ELSE Stored(job) >= Recorded(job) + Pending(job))'
    BY DEF RunsAccountForRows
  <2>1. PICK n \in Nat : n = IF job = Job(r) THEN Cardinality(new) ELSE 0
    BY <1>5
  <2>2. Stored(job)' = Stored(job) + n
    BY <1>2, <1>3, <1>5, <2>1, StoredAdds
  <2>3. Recorded(job)' = Recorded(job)
    BY <1>2 DEF Recorded, SumInserted
  <2>4. Owes(r, job)' = Owes(r, job) + n
    <3>1. Job(r)' = Job(r) /\ req[r].todo # <<>>
      BY <1>2, <1>3, <1>4 DEF Job, RequestKept, PlanKept, PlanOf
    <3>2. r \in Unrecorded(job) <=> job = Job(r)
      BY <1>2, <3>1 DEF Unrecorded
    <3>3. r \in Unrecorded(job)' <=> job = Job(r)
      BY <1>4, <3>1 DEF Unrecorded
    <3>4. QED
      BY <1>4, <2>1, <3>2, <3>3 DEF Owes
  <2>5. /\ Pending(job)' + Owes(r, job) = Pending(job) + Owes(r, job)'
        /\ Pending(job) \in Nat /\ Pending(job)' \in Nat /\ Owes(r, job) \in Nat
    BY <1>3, <1>4, <1>6, PendingMoves
  <2>6. Pending(job)' = Pending(job) + n
    BY <2>4, <2>5
  <2>7. Stored(job) \in Nat /\ Recorded(job) \in Nat
    BY <1>3, Counts
  <2>8. QED
    BY <2>2, <2>3, <2>5, <2>6, <2>7 DEF AccountIInv, RunsAccountForRows
<1>12. QED
  BY <1>4, <1>6, <1>7, <1>8, <1>9, <1>10, <1>11, OneRequestMoves DEF RequestKept

\* An error leaves what is owed, and nothing stored, where the job goes on; where
\* it stops, rows may be stored that nobody will count.
LEMMA ThrowAccounts ==
  ASSUME AccountIInv, NEW r \in Requests, Throws(r)
  PROVE  AccountIInv'
<1>1. PICK stored \in SUBSET New(req[r].batch) :
        (stored = {} \/ stored # New(req[r].batch)) /\ rows' = rows \cup stored
  BY DEF Throws
<1>2. UNCHANGED <<clock, source, captureRuns>> /\ req[r].phase = "insert"
  BY DEF Throws
<1>3. RecordsTyped /\ RequestKept(r) /\ req \in [Requests -> RequestType] /\ req[r] \in RequestType
  BY DEF AccountIInv, RecordsTyped
<1>4. /\ req' \in [Requests -> RequestType]
      /\ req'[r].mode = req[r].mode /\ req'[r].todo = req[r].todo
      /\ req'[r].results = req[r].results /\ req'[r].batch = {}
      /\ req'[r].phase \in {"fetch", "record"}
      /\ req'[r].inserted \in Nat
      /\ IF Job(r) \in Continues THEN req'[r].inserted = req[r].inserted
         ELSE req'[r].inserted = 0
      /\ \A s \in Requests : s # r => req'[s] = req[s]
  <2>1. CASE Job(r) \in Continues
    <3>1. req' = [req EXCEPT ![r] = [req[r] EXCEPT !.phase = "fetch", !.part = req[r].part + 1,
                                        !.batch = {}, !.failures = req[r].failures + 1]]
      BY <2>1 DEF Throws
    <3>2. req[r].part + 1 \in Nat /\ req[r].failures + 1 \in Nat
      BY <1>3 DEF RequestType
    <3>3. QED
      BY <1>3, <2>1, <3>1, <3>2 DEF RequestType, Phases
  <2>2. CASE Job(r) \notin Continues
    <3>1. req' = [req EXCEPT ![r] = [req[r] EXCEPT !.phase = "record", !.error = TRUE,
                                        !.batch = {}, !.inserted = 0]]
      BY <2>2 DEF Throws
    <3>2. QED
      BY <1>3, <2>2, <3>1 DEF RequestType, Phases
  <2>3. QED
    BY <2>1, <2>2
<1>5. /\ stored \in SUBSET RowType /\ IsFiniteSet(stored) /\ Cardinality(stored) \in Nat
      /\ stored \cap rows = {} /\ \A x \in stored : x.job = Job(r)
      /\ Job(r) \in Continues => stored = {}
  <2>1. req[r].batch \in SUBSET RowType
    BY <1>3 DEF RequestType
  <2>2. /\ IsFiniteSet(req[r].batch) /\ \A x \in req[r].batch : x.job = Job(r)
        /\ Job(r) \in Continues => \A x, y \in req[r].batch : x = y
    BY <1>2, <1>3 DEF RequestKept, BatchKept
  <2>3. /\ stored \in SUBSET req[r].batch /\ stored \cap rows = {}
        /\ New(req[r].batch) \in SUBSET req[r].batch
    BY <1>1 DEF New
  <2>4. Job(r) \in Continues => stored = {}
    BY <1>1, <2>2, <2>3
  <2>5. QED
    BY <2>1, <2>2, <2>3, <2>4, FS_Subset, FS_CardinalityType
<1>6. RecordsTyped'
  <2>1. rows' \in SUBSET RowType /\ IsFiniteSet(rows')
    BY <1>1, <1>3, <1>5, FS_Union DEF RecordsTyped
  <2>2. QED
    BY <1>2, <1>3, <1>4, <2>1, TypesMove DEF RecordsTyped
<1>7. PlanKept(r)'
  BY <1>2, <1>3, <1>4, PlanStays
<1>8. BatchKept(r)'
  BY <1>4, FS_EmptySet DEF BatchKept
<1>9. RunsKept(r)'
  BY <1>2, <1>3, <1>4, RunsStay
<1>10. \A s \in Requests : RunsOf(s)' = RunsOf(s)
  BY <1>2 DEF RunsOf
<1>11. RunsAccountForRows'
  <2> SUFFICES ASSUME NEW job \in JobNames
               PROVE  (IF job \in Continues THEN Stored(job) = Recorded(job) + Pending(job)
                       ELSE Stored(job) >= Recorded(job) + Pending(job))'
    BY DEF RunsAccountForRows
  <2>1. PICK n \in Nat : n = IF job = Job(r) THEN Cardinality(stored) ELSE 0
    BY <1>5
  <2>2. Stored(job)' = Stored(job) + n
    BY <1>1, <1>3, <1>5, <2>1, StoredAdds
  <2>3. Recorded(job)' = Recorded(job)
    BY <1>2 DEF Recorded, SumInserted
  <2>4. IF job \in Continues THEN Owes(r, job)' = Owes(r, job) /\ n = 0
        ELSE Owes(r, job)' <= Owes(r, job)
    <3>1. Job(r)' = Job(r) /\ req[r].todo # <<>>
      BY <1>2, <1>3, <1>4 DEF Job, RequestKept, PlanKept, PlanOf
    <3>2. r \in Unrecorded(job) <=> job = Job(r)
      BY <1>2, <3>1 DEF Unrecorded
    <3>3. r \in Unrecorded(job)' <=> job = Job(r)
      BY <1>4, <3>1 DEF Unrecorded
    <3>4. req[r].inserted \in Nat /\ Cardinality({}) = 0
      BY <1>3, FS_EmptySet DEF RequestType
    <3>5. QED
      BY <1>4, <1>5, <2>1, <3>2, <3>3, <3>4 DEF Owes
  <2>5. /\ Pending(job)' + Owes(r, job) = Pending(job) + Owes(r, job)'
        /\ Pending(job) \in Nat /\ Pending(job)' \in Nat
        /\ Owes(r, job) \in Nat /\ Owes(r, job)' \in Nat
    BY <1>3, <1>4, <1>6, PendingMoves
  <2>6. Stored(job) \in Nat /\ Recorded(job) \in Nat
    BY <1>3, Counts
  <2>7. CASE job \in Continues
    <3>1. Pending(job)' = Pending(job) /\ n = 0
      BY <2>4, <2>5, <2>7
    <3>2. QED
      BY <2>2, <2>3, <2>6, <2>7, <3>1 DEF AccountIInv, RunsAccountForRows
  <2>8. CASE job \notin Continues
    <3>1. Pending(job)' <= Pending(job)
      BY <2>4, <2>5, <2>8
    <3>2. Stored(job) >= Recorded(job) + Pending(job)
      BY <2>8 DEF AccountIInv, RunsAccountForRows
    <3>3. Stored(job)' >= Recorded(job)' + Pending(job)'
      BY <2>2, <2>3, <2>5, <2>6, <3>1, <3>2
    <3>4. QED
      BY <2>8, <3>3
  <2>9. QED
    BY <2>7, <2>8
<1>12. QED
  BY <1>4, <1>6, <1>7, <1>8, <1>9, <1>10, <1>11, OneRequestMoves DEF RequestKept

\* The run that a job leaves is new: only one job of a plan has its name.
LEMMA RunIsNew ==
  ASSUME AccountIInv, NEW r \in Requests, Finished(r), NEW run,
         run.request = r, run.job = Job(r)
  PROVE  run \notin captureRuns
<1>1. RequestKept(r) /\ req[r] \in RequestType /\ req[r].phase \in {"fetch", "record"}
  BY DEF AccountIInv, RecordsTyped, Finished
<1>2. PICK mode, todo, results :
        mode = req[r].mode /\ todo = req[r].todo /\ results = req[r].results
  OBVIOUS
<1>3. todo \in Seq(JobNames) /\ todo # <<>> /\ results \in Seq(RunType) /\ mode \in Modes
  BY <1>1, <1>2 DEF RequestKept, PlanKept, PlanOf, RequestType
<1>4. Len(todo) > 0 /\ Head(todo) = todo[1] /\ Job(r) \in JobNames
  BY <1>2, <1>3, HeadTailProperties, EmptySeq DEF Job
<1>5. /\ Len(results) + Len(todo) = Len(Plan(mode))
      /\ \A i \in 1 .. Len(results) : results[i].job = Plan(mode)[i]
      /\ todo[1] = Plan(mode)[Len(results) + 1]
  <2>1. /\ Len(results) + Len(todo) = Len(Plan(mode))
        /\ \A i \in 1 .. Len(results) : results[i].job = Plan(mode)[i]
        /\ \A i \in 1 .. Len(todo) : todo[i] = Plan(mode)[Len(results) + i]
    BY <1>1, <1>2 DEF RequestKept, PlanKept, PlanOf
  <2>2. Len(todo) \in Nat /\ 1 \in 1 .. Len(todo)
    BY <1>3, <1>4, LenProperties
  <2>3. QED
    BY <2>1, <2>2
<1>6. ASSUME NEW i \in DOMAIN results PROVE results[i].job # Job(r)
  <2>1. i \in 1 .. Len(results) /\ Len(results) \in Nat
    BY <1>3, <1>6, LenProperties
  <2>2. i # Len(results) + 1 /\ {i, Len(results) + 1} \subseteq 1 .. Len(Plan(mode))
    BY <1>3, <1>4, <1>5, <2>1, LenProperties
  <2>3. Plan(mode)[i] # Plan(mode)[Len(results) + 1]
    BY <1>3, <2>2, Plans
  <2>4. QED
    BY <1>2, <1>4, <1>5, <2>1, <2>3 DEF Job
<1>7. SUFFICES ASSUME run \in captureRuns PROVE FALSE
  OBVIOUS
<1>8. run \in Range(results)
  BY <1>1, <1>2, <1>4, <1>7 DEF RequestKept, RunsKept, RunsOf
<1>9. QED
  BY <1>6, <1>8 DEF Range

\* A recorded job takes the job from what is owed to what is recorded, and from
\* what is to do to the results.
LEMMA RecordAccounts ==
  ASSUME AccountIInv, NEW r \in Requests, Record(r)
  PROVE  AccountIInv'
<1>1. PICK run : run = Run(r, Job(r), req[r].startedAt, StatusOf(req[r]), req[r].inserted)
  OBVIOUS
<1>2. /\ req' = [req EXCEPT ![r] = [req[r] EXCEPT !.phase = AfterJob(req[r]),
                                        !.todo = Tail(req[r].todo), !.inserted = 0,
                                        !.results = Append(req[r].results, run)]]
      /\ captureRuns' = captureRuns \cup {run}
      /\ UNCHANGED <<clock, source, rows>> /\ Finished(r) /\ req[r].phase \in {"fetch", "record"}
  BY <1>1 DEF Record, Finished
<1>3. RecordsTyped /\ RequestKept(r) /\ req \in [Requests -> RequestType] /\ req[r] \in RequestType
  BY DEF AccountIInv, RecordsTyped
<1>4. PICK mode, todo, results :
        mode = req[r].mode /\ todo = req[r].todo /\ results = req[r].results
  OBVIOUS
<1>5. todo \in Seq(JobNames) /\ todo # <<>> /\ results \in Seq(RunType) /\ mode \in Modes
  BY <1>2, <1>3, <1>4 DEF RequestKept, PlanKept, PlanOf, RequestType
<1>6. /\ Job(r) = todo[1] /\ Job(r) \in JobNames /\ Len(todo) \in Nat /\ Len(todo) > 0
      /\ Tail(todo) \in Seq(JobNames) /\ Len(Tail(todo)) = Len(todo) - 1
      /\ \A i \in 1 .. Len(Tail(todo)) : Tail(todo)[i] = todo[i + 1]
  BY <1>4, <1>5, HeadTailProperties, EmptySeq, LenProperties DEF Job
<1>7. run \in RunType /\ run.request = r /\ run.job = Job(r) /\ run.inserted = req[r].inserted
  <2>1. StatusOf(req[r]) \in Statuses
    BY DEF StatusOf, Statuses
  <2>2. source \in {"live", "mock"} /\ req[r].startedAt \in Nat /\ req[r].inserted \in Nat
    BY <1>3, CaptureAssumption DEF RecordsTyped, RequestType
  <2>3. QED
    BY <1>1, <1>6, <2>1, <2>2 DEF Run, RunType
<1>8. run \notin captureRuns
  BY <1>2, <1>7, RunIsNew
<1>9. /\ req'[r].phase = AfterJob(req[r]) /\ req'[r].mode = mode /\ req'[r].todo = Tail(todo)
      /\ req'[r].results = Append(results, run) /\ req'[r].inserted = 0
      /\ req'[r].batch = req[r].batch
      /\ \A s \in Requests : s # r => req'[s] = req[s]
  BY <1>2, <1>3, <1>4 DEF RequestType
<1>10. /\ Append(results, run) \in Seq(RunType) /\ Len(Append(results, run)) = Len(results) + 1
       /\ Append(results, run)[Len(results) + 1] = run
       /\ \A i \in 1 .. Len(results) : Append(results, run)[i] = results[i]
       /\ Len(results) \in Nat
  BY <1>5, <1>7, AppendProperties, LenProperties
<1>11. AfterJob(req[r]) = IF Len(todo) > 1 THEN "next"
                          ELSE IF mode \in DOMAIN Aggregate THEN "aggregate" ELSE "answered"
  BY <1>4 DEF AfterJob
<1>12. RecordsTyped'
  <2>1. AfterJob(req[r]) \in Phases
    BY <1>11 DEF Phases
  <2>2. req' \in [Requests -> RequestType]
    BY <1>2, <1>3, <1>4, <1>6, <1>10, <2>1 DEF RequestType
  <2>3. captureRuns' \in SUBSET RunType /\ IsFiniteSet(captureRuns')
    BY <1>2, <1>3, <1>7, FS_AddElement DEF RecordsTyped
  <2>4. rows' \in SUBSET RowType /\ IsFiniteSet(rows')
    BY <1>2, <1>3 DEF RecordsTyped
  <2>5. QED
    BY <1>2, <1>3, <1>9, <2>2, <2>3, <2>4, TypesMove
<1>13. PlanKept(r)'
  <2>1. /\ Len(results) + Len(todo) = Len(Plan(mode))
        /\ \A i \in 1 .. Len(results) : results[i].job = Plan(mode)[i]
        /\ \A i \in 1 .. Len(todo) : todo[i] = Plan(mode)[Len(results) + i]
    BY <1>2, <1>3, <1>4 DEF RequestKept, PlanKept, PlanOf
  <2>2. PICK after : after = Append(results, run)
    OBVIOUS
  <2>3. PICK left : left = Tail(todo)
    OBVIOUS
  <2>4. Len(after) + Len(left) = Len(Plan(mode))
    BY <1>6, <1>10, <2>1, <2>2, <2>3
  <2>5. \A i \in 1 .. Len(after) : after[i].job = Plan(mode)[i]
    BY <1>6, <1>7, <1>10, <2>1, <2>2
  <2>6. ASSUME NEW i \in 1 .. Len(left) PROVE left[i] = Plan(mode)[Len(after) + i]
    <3>1. i + 1 \in 1 .. Len(todo) /\ left[i] = todo[i + 1]
      BY <1>6, <2>3
    <3>2. todo[i + 1] = Plan(mode)[Len(results) + (i + 1)]
      BY <2>1, <3>1
    <3>3. Len(results) + (i + 1) = Len(after) + i
      BY <1>10, <2>2
    <3>4. QED
      BY <3>1, <3>2, <3>3
  <2>7. left = <<>> <=> Len(todo) = 1
    <3>1. left = <<>> <=> Len(left) = 0
      BY <1>6, <2>3, EmptySeq, Zenon
    <3>2. QED
      BY <1>6, <2>3, <3>1
  <2>8. /\ req'[r].phase \in {"next", "aggregate", "answered"}
        /\ req'[r].phase = "next" => left # <<>>
        /\ req'[r].phase # "next" => left = <<>>
        /\ req'[r].phase = "aggregate" => mode \in DOMAIN Aggregate
    BY <1>6, <1>9, <1>11, <2>7
  <2>9. PICK q : q = req'[r]
    OBVIOUS
  <2>10. /\ q.mode = mode /\ q.results = after /\ q.todo = left
         /\ q.phase \in {"next", "aggregate", "answered"}
         /\ q.phase = "next" => left # <<>>
         /\ q.phase # "next" => left = <<>>
         /\ q.phase = "aggregate" => mode \in DOMAIN Aggregate
    BY <1>9, <2>2, <2>3, <2>8, <2>9
  <2>11. PlanOf(q)
    BY <1>5, <2>4, <2>5, <2>6, <2>10 DEF PlanOf
  <2>12. QED
    BY <2>9, <2>11 DEF PlanKept
<1>14. BatchKept(r)'
  <2>1. IsFiniteSet(req'[r].batch) /\ req'[r].phase # "insert"
    BY <1>3, <1>9, <1>11 DEF RequestKept, BatchKept
  <2>2. QED
    BY <1>9, <2>1 DEF BatchKept
<1>15. RunsKept(r)'
  <2>1. RunsOf(r)' = RunsOf(r) \cup {run}
    BY <1>2, <1>7 DEF RunsOf
  <2>2. Range(Append(results, run)) = Range(results) \cup {run}
    <3>1. PICK after : after = Append(results, run)
      OBVIOUS
    <3>2. /\ DOMAIN after = 1 .. (Len(results) + 1) /\ DOMAIN results = 1 .. Len(results)
          /\ after[Len(results) + 1] = run
          /\ \A i \in 1 .. Len(results) : after[i] = results[i]
      BY <1>5, <1>10, <3>1, LenProperties
    <3>3. QED
      BY <1>10, <3>1, <3>2 DEF Range
  <2>3. /\ {other \in RunsOf(r) : other.job \in JobNames} = Range(results)
        /\ \A other \in RunsOf(r) : other.job \in JobNames
    BY <1>2, <1>3, <1>4 DEF RequestKept, RunsKept, IsAggregate
  <2>4. /\ {other \in RunsOf(r)' : other.job \in JobNames} = Range(results) \cup {run}
        /\ \A other \in RunsOf(r)' : other.job \in JobNames
    BY <1>6, <1>7, <2>1, <2>3
  <2>5. QED
    BY <1>9, <2>2, <2>4 DEF RunsKept
<1>16. \A s \in Requests : s # r => RunsOf(s)' = RunsOf(s)
  BY <1>2, <1>7 DEF RunsOf
<1>17. RunsAccountForRows'
  <2> SUFFICES ASSUME NEW job \in JobNames
               PROVE  (IF job \in Continues THEN Stored(job) = Recorded(job) + Pending(job)
                       ELSE Stored(job) >= Recorded(job) + Pending(job))'
    BY DEF RunsAccountForRows
  <2>1. PICK n \in Nat : n = IF run.job = job THEN run.inserted ELSE 0
    BY <1>7 DEF RunType
  <2>2. Stored(job)' = Stored(job)
    BY <1>2 DEF Stored
  <2>3. Recorded(job)' = Recorded(job) + n
    BY <1>2, <1>3, <1>7, <1>8, <2>1, RecordedAdds
  <2>4. Owes(r, job) = n /\ Owes(r, job)' = 0
    <3>1. r \in Unrecorded(job) <=> job = Job(r)
      BY <1>2, <1>4, <1>5 DEF Unrecorded
    <3>2. QED
      BY <1>7, <1>9, <2>1, <3>1 DEF Owes
  <2>5. /\ Pending(job)' + Owes(r, job) = Pending(job) + Owes(r, job)'
        /\ Pending(job) \in Nat /\ Pending(job)' \in Nat
    BY <1>3, <1>9, <1>12, PendingMoves
  <2>6. Pending(job) = Pending(job)' + n
    BY <2>4, <2>5
  <2>7. Stored(job) \in Nat /\ Recorded(job) \in Nat
    BY <1>3, Counts
  <2>8. IF job \in Continues THEN Stored(job) = Recorded(job) + Pending(job)
        ELSE Stored(job) >= Recorded(job) + Pending(job)
    BY DEF AccountIInv, RunsAccountForRows
  <2>9. QED
    BY <2>2, <2>3, <2>5, <2>6, <2>7, <2>8
<1>18. QED
  BY <1>9, <1>12, <1>13, <1>14, <1>15, <1>16, <1>17, OneRequestMoves DEF RequestKept

\* An aggregate is a run of no job: it is written once and nothing is counted
\* twice.
LEMMA AggregateAccounts ==
  ASSUME AccountIInv, NEW r \in Requests, RecordAggregate(r)
  PROVE  AccountIInv'
<1>1. PICK status, inserted : /\ status = AggregateStatus(req[r].results)
                              /\ inserted = AggregateInserted(req[r].results)
  OBVIOUS
<1>2. PICK run : run = Run(r, Aggregate[req[r].mode], req[r].begunAt, status, inserted)
  OBVIOUS
<1>3. /\ captureRuns' = captureRuns \cup {run}
      /\ req' = [req EXCEPT ![r].phase = "answered"]
      /\ UNCHANGED <<clock, source, rows>> /\ req[r].phase = "aggregate"
  BY <1>1, <1>2 DEF RecordAggregate
<1>4. RecordsTyped /\ RequestKept(r) /\ req \in [Requests -> RequestType] /\ req[r] \in RequestType
  BY DEF AccountIInv, RecordsTyped
<1>5. /\ req'[r].phase = "answered" /\ req'[r].mode = req[r].mode /\ req'[r].todo = req[r].todo
      /\ req'[r].results = req[r].results /\ req'[r].inserted = req[r].inserted
      /\ req'[r].batch = req[r].batch
      /\ \A s \in Requests : s # r => req'[s] = req[s]
  BY <1>3, <1>4 DEF RequestType
<1>6. req[r].mode \in DOMAIN Aggregate /\ req[r].inserted = 0
  BY <1>3, <1>4 DEF RequestKept, PlanKept, PlanOf, BatchKept
<1>7. inserted \in Nat
  <2>1. PICK results \in Seq(RunType) : results = req[r].results
    BY <1>4 DEF RequestType
  <2>2. PICK w : w = [i \in DOMAIN results |-> results[i].inserted]
    OBVIOUS
  <2>3. DOMAIN results = 1 .. Len(results) /\ Len(results) \in Nat
    BY LenProperties
  <2>4. IsFiniteSet(DOMAIN w)
    BY <2>2, <2>3, FS_Interval
  <2>5. \A i \in DOMAIN w : w[i] \in Nat
    <3>1. \A i \in 1 .. Len(results) : results[i] \in RunType
      BY <2>3, ElementOfSeq
    <3>2. \A i \in DOMAIN w : results[i] \in RunType /\ w[i] = results[i].inserted
      BY <2>2, <2>3, <3>1
    <3>3. QED
      BY <3>2 DEF RunType
  <2>6. SumFunction(w) \in Nat
    BY <2>4, <2>5, SumIsNatural DEF SumFunction
  <2>7. QED
    BY <1>1, <2>1, <2>2, <2>6 DEF AggregateInserted
<1>8. /\ run \in RunType /\ run.request = r /\ run.job \notin JobNames
      /\ run.job = Aggregate[req[r].mode] /\ run.status = status /\ run.inserted = inserted
  <2>1. status \in Statuses
    BY <1>1 DEF AggregateStatus, Statuses
  <2>2. source \in {"live", "mock"} /\ req[r].begunAt \in Nat
    BY <1>4, CaptureAssumption DEF RecordsTyped, RequestType
  <2>3. Aggregate[req[r].mode] \in Range(Aggregate) /\ Aggregate[req[r].mode] \notin JobNames
    BY <1>6, AggregateNames
  <2>4. PICK name : name = Aggregate[req[r].mode]
    OBVIOUS
  <2>5. QED
    BY <1>2, <1>7, <2>1, <2>2, <2>3, <2>4 DEF Run, RunType
<1>9. /\ {other \in RunsOf(r) : other.job \in JobNames} = Range(req[r].results)
      /\ \A other \in RunsOf(r) : other.job \in JobNames
  BY <1>3, <1>4 DEF RequestKept, RunsKept, IsAggregate
<1>10. run \notin captureRuns
  BY <1>8, <1>9 DEF RunsOf
<1>11. RecordsTyped'
  <2>1. req' \in [Requests -> RequestType]
    BY <1>3, <1>4 DEF RequestType, Phases
  <2>2. captureRuns' \in SUBSET RunType /\ IsFiniteSet(captureRuns')
    BY <1>3, <1>4, <1>8, FS_AddElement DEF RecordsTyped
  <2>3. rows' \in SUBSET RowType /\ IsFiniteSet(rows')
    BY <1>3, <1>4 DEF RecordsTyped
  <2>4. QED
    BY <1>3, <1>4, <1>5, <2>1, <2>2, <2>3, TypesMove
<1>12. PlanKept(r)' /\ BatchKept(r)'
  <2>1. PlanKept(r)'
    <3>1. PICK q : q = req[r]
      OBVIOUS
    <3>2. PICK after : after = req'[r]
      OBVIOUS
    <3>3. /\ q.phase = "aggregate" /\ after.phase = "answered" /\ after.mode = q.mode
          /\ after.todo = q.todo /\ after.results = q.results
      BY <1>3, <1>5, <3>1, <3>2
    <3>4. PlanOf(q)
      BY <1>4, <3>1 DEF RequestKept, PlanKept
    <3>5. PlanOf(after)
      BY <3>3, <3>4 DEF PlanOf
    <3>6. QED
      BY <3>2, <3>5 DEF PlanKept
  <2>2. BatchKept(r)'
    BY <1>4, <1>5, <1>6 DEF RequestKept, BatchKept
  <2>3. QED
    BY <2>1, <2>2
<1>13. RunsKept(r)'
  <2>1. RunsOf(r)' = RunsOf(r) \cup {run}
    BY <1>3, <1>8 DEF RunsOf
  <2>2. {other \in RunsOf(r)' : other.job \in JobNames} = Range(req[r].results)
    BY <1>8, <1>9, <2>1
  <2>3. \A other \in RunsOf(r)' : other.job \notin JobNames => other = run
    BY <1>9, <2>1
  <2>4. IsAggregate(run, req[r])'
    BY <1>1, <1>5, <1>6, <1>8 DEF IsAggregate
  <2>5. QED
    BY <1>5, <2>2, <2>3, <2>4 DEF RunsKept
<1>14. \A s \in Requests : s # r => RunsOf(s)' = RunsOf(s)
  BY <1>3, <1>8 DEF RunsOf
<1>15. RunsAccountForRows'
  <2> SUFFICES ASSUME NEW job \in JobNames
               PROVE  (IF job \in Continues THEN Stored(job) = Recorded(job) + Pending(job)
                       ELSE Stored(job) >= Recorded(job) + Pending(job))'
    BY DEF RunsAccountForRows
  <2>1. Stored(job)' = Stored(job)
    BY <1>3 DEF Stored
  <2>2. Recorded(job)' = Recorded(job)
    <3>1. Recorded(job)' = Recorded(job) + 0
      <4>1. run.job # job
        BY <1>8
      <4>2. Recorded(job)' = Recorded(job) + (IF run.job = job THEN run.inserted ELSE 0)
        BY <1>3, <1>4, <1>8, <1>10, RecordedAdds
      <4>3. QED
        BY <4>1, <4>2
    <3>2. QED
      BY <1>4, <3>1, Counts
  <2>3. Owes(r, job) = 0 /\ Owes(r, job)' = 0
    BY <1>3, <1>5, <1>6 DEF Owes
  <2>4. /\ Pending(job)' + Owes(r, job) = Pending(job) + Owes(r, job)'
        /\ Pending(job) \in Nat /\ Pending(job)' \in Nat
    BY <1>4, <1>5, <1>11, PendingMoves
  <2>5. Pending(job)' = Pending(job)
    BY <2>3, <2>4
  <2>6. QED
    BY <2>1, <2>2, <2>5 DEF AccountIInv, RunsAccountForRows
<1>16. QED
  BY <1>5, <1>11, <1>12, <1>13, <1>14, <1>15, OneRequestMoves DEF RequestKept

-----------------------------------------------------------------------------
\* The process ends: its requests owe what they owed.
LEMMA RestartAccounts ==
  ASSUME AccountIInv, Restart
  PROVE  AccountIInv'
<1>1. /\ source' \in Sources /\ UNCHANGED <<clock, rows, captureRuns>>
      /\ req' = [r \in Requests |->
           IF req[r].phase \in {"idle", "answered", "refused"} THEN req[r]
           ELSE [req[r] EXCEPT !.phase = "dead"]]
  BY DEF Restart
<1>2. RecordsTyped /\ req \in [Requests -> RequestType] /\ \A r \in Requests : RequestKept(r)
  BY DEF AccountIInv, RecordsTyped
<1>3. ASSUME NEW r \in Requests
      PROVE  /\ req'[r] \in RequestType
             /\ req'[r].phase = IF req[r].phase \in {"idle", "answered", "refused"}
                                THEN req[r].phase ELSE "dead"
             /\ req'[r].mode = req[r].mode /\ req'[r].todo = req[r].todo
             /\ req'[r].results = req[r].results /\ req'[r].inserted = req[r].inserted
             /\ req'[r].batch = req[r].batch
  <2>1. req[r] \in RequestType
    BY <1>2
  <2>2. CASE req[r].phase \in {"idle", "answered", "refused"}
    BY <1>1, <2>1, <2>2
  <2>3. CASE req[r].phase \notin {"idle", "answered", "refused"}
    <3>1. req'[r] = [req[r] EXCEPT !.phase = "dead"]
      BY <1>1, <2>3
    <3>2. QED
      BY <2>1, <2>3, <3>1 DEF RequestType, Phases
  <2>4. QED
    BY <2>2, <2>3
<1>4. RecordsTyped'
  <2>1. Begun' = Begun
    BY <1>3 DEF Begun
  <2>2. req' \in [Requests -> RequestType]
    BY <1>1, <1>3
  <2>3. QED
    BY <1>1, <1>2, <2>1, <2>2 DEF RecordsTyped
<1>5. ASSUME NEW r \in Requests PROVE RequestKept(r)'
  <2>1. RunsOf(r)' = RunsOf(r)
    BY <1>1 DEF RunsOf
  <2>2. CASE req[r].phase \in {"idle", "answered", "refused"}
    <3>1. req'[r] = req[r]
      BY <1>1, <2>2
    <3>2. QED
      BY <1>2, <2>1, <3>1, OthersKept
  <2>3. CASE req[r].phase \notin {"idle", "answered", "refused"}
    <3>1. PlanKept(r)'
      BY <1>2, <1>3, <2>3, PlanStays
    <3>2. BatchKept(r)'
      BY <1>2, <1>3 DEF RequestKept, BatchKept
    <3>3. RunsKept(r)'
      BY <1>1, <1>2, <1>3, <2>3, RunsStay
    <3>4. QED
      BY <3>1, <3>2, <3>3 DEF RequestKept
  <2>4. QED
    BY <2>2, <2>3
<1>6. RunsAccountForRows'
  <2> SUFFICES ASSUME NEW job \in JobNames
               PROVE  (IF job \in Continues THEN Stored(job) = Recorded(job) + Pending(job)
                       ELSE Stored(job) >= Recorded(job) + Pending(job))'
    BY DEF RunsAccountForRows
  <2>1. Stored(job)' = Stored(job) /\ Recorded(job)' = Recorded(job)
    BY <1>1 DEF Stored, Recorded, SumInserted
  <2>2. PICK v : v = [r \in Unrecorded(job) |-> req[r].inserted]
    OBVIOUS
  <2>3. PICK w : w = [r \in Unrecorded(job)' |-> req'[r].inserted]
    OBVIOUS
  <2>4. IsFiniteSet(DOMAIN w)
    <3>1. DOMAIN w \in SUBSET Begun'
      BY <2>3 DEF Unrecorded, Begun
    <3>2. QED
      BY <1>4, <3>1, FS_Subset DEF RecordsTyped
  <2>5. /\ DOMAIN v \subseteq DOMAIN w
        /\ \A r \in DOMAIN w : r \notin DOMAIN v => w[r] = 0
    <3>1. ASSUME NEW r \in Unrecorded(job) PROVE r \in Unrecorded(job)'
      BY <1>3, <3>1 DEF Unrecorded, Job
    <3>2. ASSUME NEW r \in Unrecorded(job)', r \notin Unrecorded(job) PROVE req'[r].inserted = 0
      <4>1. r \in Requests /\ req[r].phase \in {"next", "aggregate"}
        BY <1>2, <1>3, <3>2 DEF Unrecorded, Job, RequestType, Phases
      <4>2. req[r].inserted = 0
        BY <1>2, <4>1 DEF RequestKept, BatchKept
      <4>3. QED
        BY <1>3, <4>1, <4>2
    <3>3. QED
      BY <2>2, <2>3, <3>1, <3>2
  <2>6. \A r \in DOMAIN v : v[r] \in Nat /\ w[r] = v[r]
    <3>1. \A r \in Unrecorded(job) : r \in Requests
      BY DEF Unrecorded
    <3>2. QED
      BY <1>2, <1>3, <2>2, <2>3, <2>5, <3>1, OwingAreFinite
  <2>7. SumFunction(w) = SumFunction(v)
    BY <2>4, <2>5, <2>6, SumIgnoresZeros
  <2>8. Pending(job)' = Pending(job)
    BY <2>2, <2>3, <2>7 DEF Pending
  <2>9. QED
    BY <2>1, <2>8 DEF AccountIInv, RunsAccountForRows
<1>7. QED
  BY <1>4, <1>5, <1>6 DEF AccountIInv

\* The clock, and steps that are not the capture's.
LEMMA OthersAccount ==
  ASSUME AccountIInv, ClockTicks \/ UNCHANGED captureVars
  PROVE  AccountIInv'
<1>1. UNCHANGED <<source, rows, captureRuns, req>> /\ clock' \in 1 .. MaxClock
  <2>1. clock \in 1 .. MaxClock /\ MaxClock \in Nat
    BY CaptureAssumption DEF AccountIInv, RecordsTyped
  <2>2. CASE ClockTicks
    BY <2>1, <2>2 DEF ClockTicks
  <2>3. CASE UNCHANGED captureVars
    BY <2>1, <2>3 DEF captureVars
  <2>4. QED
    BY <2>2, <2>3
<1>2. RecordsTyped'
  BY <1>1 DEF AccountIInv, RecordsTyped, Begun
<1>3. ASSUME NEW r \in Requests PROVE RequestKept(r)'
  <2>1. RunsOf(r)' = RunsOf(r) /\ RequestKept(r)
    BY <1>1 DEF RunsOf, AccountIInv
  <2>2. QED
    BY <1>1, <2>1, OthersKept
<1>4. RunsAccountForRows'
  BY <1>1 DEF AccountIInv, RunsAccountForRows, Stored, Recorded, SumInserted, Pending,
              Unrecorded, Job
<1>5. QED
  BY <1>2, <1>3, <1>4 DEF AccountIInv

LEMMA AccountIInvInit ==
  ASSUME CaptureInit
  PROVE  AccountIInv
<1>1. /\ clock = 1 /\ source \in Sources /\ rows = {} /\ captureRuns = {}
      /\ req = [r \in Requests |-> Idle]
  BY DEF CaptureInit
<1>2. \A r \in Requests :
        /\ req[r].phase = "idle" /\ req[r].todo = <<>> /\ req[r].results = <<>>
        /\ req[r].batch = {} /\ req[r].inserted = 0
  BY <1>1 DEF Idle
<1>3. RecordsTyped
  <2>1. Begun = {}
    BY <1>2 DEF Begun
  <2>2. Idle.todo \in Seq(JobNames) /\ Idle.results \in Seq(RunType)
    BY DEF Idle
  <2>3. Idle \in RequestType
    BY <2>2 DEF Idle, RequestType, Phases
  <2>4. clock \in 1 .. MaxClock
    BY <1>1, CaptureAssumption
  <2>5. QED
    BY <1>1, <2>1, <2>3, <2>4, FS_EmptySet DEF RecordsTyped
<1>4. ASSUME NEW r \in Requests PROVE RequestKept(r)
  <2>1. PlanKept(r)
    BY <1>2 DEF PlanKept, PlanOf
  <2>2. BatchKept(r)
    BY <1>2, FS_EmptySet DEF BatchKept
  <2>3. RunsOf(r) = {} /\ Range(req[r].results) = {}
    BY <1>1, <1>2 DEF RunsOf, Range
  <2>4. RunsKept(r)
    BY <2>3 DEF RunsKept
  <2>5. QED
    BY <2>1, <2>2, <2>4 DEF RequestKept
<1>5. RunsAccountForRows
  <2> SUFFICES ASSUME NEW job \in JobNames
               PROVE  Stored(job) = 0 /\ Recorded(job) = 0 /\ Pending(job) = 0
    BY DEF RunsAccountForRows
  <2>1. Stored(job) = 0
    BY <1>1, FS_EmptySet DEF Stored
  <2>2. PICK w : w = [x \in {} |-> x.inserted]
    OBVIOUS
  <2>3. SumFunction(w) = 0
    BY <2>2, SumOfNone DEF SumFunction
  <2>4. Recorded(job) = 0
    <3>1. {run \in captureRuns : run.job = job} = {}
      BY <1>1
    <3>2. QED
      BY <2>2, <2>3, <3>1 DEF Recorded, SumInserted
  <2>5. Pending(job) = 0
    <3>1. Unrecorded(job) = {}
      BY <1>2 DEF Unrecorded
    <3>2. PICK v : v = [r \in Unrecorded(job) |-> req[r].inserted]
      OBVIOUS
    <3>3. SumFunction(v) = 0
      BY <3>1, <3>2, SumOfNone DEF SumFunction
    <3>4. QED
      BY <3>2, <3>3 DEF Pending
  <2>6. QED
    BY <2>1, <2>4, <2>5
<1>6. QED
  BY <1>3, <1>4, <1>5 DEF AccountIInv

LEMMA AccountIInvStep ==
  ASSUME AccountIInv, [CaptureNext]_captureVars
  PROVE  AccountIInv'
<1>1. ASSUME NEW r \in Requests, Begin(r) \/ Step(r) PROVE AccountIInv'
  <2>1. \/ Begin(r) \/ InitThrows(r) \/ StartJob(r) \/ Fetch(r) \/ Insert(r) \/ Throws(r)
        \/ Record(r) \/ RecordThrows(r) \/ RecordAggregate(r)
    BY <1>1 DEF Step
  <2>2. QED
    BY <2>1, BeginAccounts, FailureAccounts, StartAccounts, FetchAccounts, InsertAccounts,
       ThrowAccounts, RecordAccounts, AggregateAccounts
<1>2. QED
  BY <1>1, RestartAccounts, OthersAccount DEF CaptureNext

LEMMA AccountIInvHolds == CaptureSpec => []AccountIInv
<1>1. CaptureInit => AccountIInv
  BY AccountIInvInit
<1>2. AccountIInv /\ [CaptureNext]_captureVars => AccountIInv'
  BY AccountIInvStep
<1>3. QED
  BY <1>1, <1>2, PTL DEF CaptureSpec

\* Theorem: capture_runs account for the rows of every job in every reachable
\* state, whatever requests overlap, fail or are lost with their process.
THEOREM CaptureAccounts == CaptureSpec => []RunsAccountForRows
<1>1. AccountIInv => RunsAccountForRows
  BY DEF AccountIInv
<1>2. QED
  BY <1>1, AccountIInvHolds, PTL

\* An aggregate adds up what the store holds: the results of a request are its
\* other runs, one for each job of its plan.
LEMMA AggregatesMatch ==
  ASSUME AccountIInv
  PROVE  AggregateMatchesJobs
<1> SUFFICES ASSUME NEW run \in captureRuns, NEW mode \in DOMAIN Aggregate,
                    run.job = Aggregate[mode],
                    NEW jobs,
                    jobs = {other \in captureRuns : other.request = run.request /\ other # run}
             PROVE  /\ {other.job : other \in jobs} = Range(Plan(mode))
                    /\ run.inserted = SumInserted(jobs)
                    /\ run.status = "success" <=> \A other \in jobs : other.status = "success"
  BY DEF AggregateMatchesJobs
<1>1. PICK r \in Requests : r = run.request
  BY DEF AccountIInv, RecordsTyped, RunType
<1>2. RequestKept(r) /\ req[r] \in RequestType
  BY DEF AccountIInv, RecordsTyped
<1>3. PICK todo, results : todo = req[r].todo /\ results = req[r].results
  OBVIOUS
<1>4. IsAggregate(run, req[r]) /\ run \in RunsOf(r) /\ run.job \notin JobNames
  BY <1>1, <1>2, AggregateNames DEF RequestKept, RunsKept, RunsOf
<1>5. req[r].mode = mode /\ req[r].phase = "answered"
  BY <1>4, AggregateNames DEF IsAggregate
<1>6. jobs = Range(results)
  <2>1. \A other \in RunsOf(r) : other = run \/ other.job \in JobNames
    BY <1>2, <1>4 DEF RequestKept, RunsKept
  <2>2. jobs = {other \in RunsOf(r) : other # run}
    BY <1>1 DEF RunsOf
  <2>3. jobs = {other \in RunsOf(r) : other.job \in JobNames}
    BY <1>4, <2>1, <2>2
  <2>4. QED
    BY <1>2, <1>3, <2>3 DEF RequestKept, RunsKept
<1>7. /\ results \in Seq(RunType) /\ mode \in Modes /\ todo = <<>> /\ Len(todo) = 0
      /\ DOMAIN results = 1 .. Len(results) /\ Len(results) \in Nat
  <2>1. results \in Seq(RunType)
    BY <1>2, <1>3 DEF RequestType
  <2>2. todo = <<>> /\ mode \in Modes
    BY <1>2, <1>3, <1>5 DEF RequestKept, PlanKept, PlanOf
  <2>3. QED
    BY <2>1, <2>2, LenProperties, EmptySeq
<1>8. /\ Len(results) = Len(Plan(mode))
      /\ \A i \in 1 .. Len(results) : results[i].job = Plan(mode)[i]
  <2>1. /\ Len(results) + Len(todo) = Len(Plan(mode))
        /\ \A i \in 1 .. Len(results) : results[i].job = Plan(mode)[i]
    BY <1>2, <1>3, <1>5 DEF RequestKept, PlanKept, PlanOf
  <2>2. QED
    BY <1>7, <2>1
<1>9. {other.job : other \in jobs} = Range(Plan(mode))
  <2>1. DOMAIN Plan(mode) = DOMAIN results
    BY <1>7, <1>8, Plans, LenProperties
  <2>2. QED
    BY <1>6, <1>7, <1>8, <2>1 DEF Range
<1>10. run.inserted = SumInserted(jobs)
  <2>1. PICK v : v = [i \in DOMAIN results |-> results[i].inserted]
    OBVIOUS
  <2>2. PICK w : w = [other \in jobs |-> other.inserted]
    OBVIOUS
  <2>3. \A i \in DOMAIN results : results[i] \in RunType
    BY <1>7, ElementOfSeq
  <2>4. /\ DOMAIN v = DOMAIN results /\ IsFiniteSet(DOMAIN v)
        /\ DOMAIN w = {results[i] : i \in DOMAIN v}
        /\ \A i \in DOMAIN v : v[i] \in Nat /\ w[results[i]] = v[i]
    <3>1. DOMAIN v = DOMAIN results /\ DOMAIN w = jobs
      BY <2>1, <2>2
    <3>2. IsFiniteSet(DOMAIN results)
      BY <1>7, FS_Interval
    <3>3. jobs = {results[i] : i \in DOMAIN results}
      BY <1>6 DEF Range
    <3>4. ASSUME NEW i \in DOMAIN results PROVE v[i] \in Nat /\ w[results[i]] = v[i]
      <4>1. results[i] \in jobs /\ results[i].inserted \in Nat
        BY <2>3, <3>3 DEF RunType
      <4>2. QED
        BY <2>1, <2>2, <4>1
    <3>5. QED
      BY <3>1, <3>2, <3>3, <3>4
  <2>5. \A i, j \in DOMAIN v : results[i] = results[j] => i = j
    <3>1. \A i, j \in 1 .. Len(results) : Plan(mode)[i] = Plan(mode)[j] => i = j
      BY <1>7, <1>8, Plans
    <3>2. DOMAIN v = 1 .. Len(results)
      BY <1>7, <2>4
    <3>3. QED
      BY <1>8, <3>1, <3>2
  <2>6. SumFunction(v) = SumFunction(w)
    BY <2>4, <2>5, SumRenames
  <2>7. run.inserted = SumFunction(v)
    BY <1>3, <1>4, <2>1 DEF IsAggregate, AggregateInserted
  <2>8. QED
    BY <2>2, <2>6, <2>7 DEF SumInserted
<1>11. run.status = "success" <=> \A other \in jobs : other.status = "success"
  BY <1>3, <1>4, <1>6 DEF IsAggregate, AggregateStatus
<1>12. QED
  BY <1>9, <1>10, <1>11

\* Theorem: records have their types, and an aggregate names, counts and judges
\* exactly the runs of its own request's jobs.
THEOREM CaptureRecordsSound == CaptureSpec => []RecordsAreSound
<1>1. AccountIInv => RecordsAreSound
  <2> SUFFICES ASSUME AccountIInv PROVE CaptureTypeOK
    BY AggregatesMatch DEF RecordsAreSound
  <2>1. /\ clock \in 1 .. MaxClock /\ source \in Sources /\ rows \subseteq RowType
        /\ captureRuns \in SUBSET RunType /\ req \in [Requests -> RequestType]
    BY DEF AccountIInv, RecordsTyped
  <2>2. \A r \in Requests : req[r].phase \in {"fetch", "insert", "record"} => req[r].todo # <<>>
    BY DEF AccountIInv, RequestKept, PlanKept, PlanOf
  <2>3. QED
    BY <2>1, <2>2 DEF CaptureTypeOK, RunType, RequestType
<1>2. QED
  BY <1>1, AccountIInvHolds, PTL

-----------------------------------------------------------------------------
(* The scheduler, for any jobs and schedules and any number of sweeps at    *)
(* once.  What makes the distance of runs inductive is that a job's lastRun *)
(* is the time of the sweep that started it last; and no job is left due    *)
(* because lastRun never goes back.                                         *)

\* A job's lastRun is its latest start, or 0.
LastStartIsKnown ==
  \A j \in Jobs :
    IF starts[j] = <<>> THEN lastRun[j] = 0 ELSE lastRun[j] = starts[j][Len(starts[j])]

SchedulerIInv == SchedulerIsSound /\ LastStartIsKnown

-----------------------------------------------------------------------------
\* Jobs are numbered from 1, and each has a schedule.
LEMMA JobsAreNumbers ==
  /\ Jobs \subseteq Nat \ {0}
  /\ \A j \in Jobs : /\ Schedule[j] \in Nat /\ Schedule[j] > 0
                     /\ \A i \in Nat : 0 < i /\ i <= j => i \in Jobs
<1>1. Schedule \in Seq(Nat \ {0})
  BY SchedulerAssumption
<1>2. Jobs = 1 .. Len(Schedule) /\ Len(Schedule) \in Nat
  BY <1>1 DEF Jobs
<1>3. \A j \in Jobs : Schedule[j] \in Nat \ {0}
  BY <1>1, <1>2
<1>4. QED
  BY <1>2, <1>3

\* The fresh state, at first and in a process that takes another one's place.
Fresh ==
  /\ time \in Nat /\ ticking = FALSE /\ lastRun = [j \in Jobs |-> 0]
  /\ sweeps = {} /\ starts = [j \in Jobs |-> <<>>] /\ swept = 0

\* The fresh state satisfies the invariant.
LEMMA FreshIsSound == ASSUME Fresh PROVE SchedulerIInv
<1>1. <<>> \in Seq(Nat) /\ Len(<<>>) = 0
  OBVIOUS
<1>2. SchedulerTypeOK
  <2>1. lastRun \in [Jobs -> Nat] /\ starts \in [Jobs -> Seq(Nat)]
    <3>1. [j \in Jobs |-> 0] \in [Jobs -> Nat]
      OBVIOUS
    <3>2. \A e \in Seq(Nat) : [j \in Jobs |-> e] \in [Jobs -> Seq(Nat)]
      OBVIOUS
    <3>3. [j \in Jobs |-> <<>>] \in [Jobs -> Seq(Nat)]
      BY <1>1, <3>2, Zenon
    <3>4. lastRun = [j \in Jobs |-> 0] /\ starts = [j \in Jobs |-> <<>>]
      BY DEF Fresh
    <3>5. QED
      BY <3>1, <3>3, <3>4, Zenon
  <2>2. sweeps = {} /\ time \in Nat /\ swept = 0
    BY DEF Fresh
  <2>3. ticking \in BOOLEAN
    BY Zenon DEF Fresh
  <2>4. QED
    BY <2>1, <2>2, <2>3 DEF SchedulerTypeOK
<1>3. RunsKeepTheirDistance
  BY <1>1 DEF Fresh, RunsKeepTheirDistance
<1>4. NoneIsLeftDue
  BY JobsAreNumbers DEF Fresh, NoneIsLeftDue
<1>5. LastStartIsKnown
  BY DEF Fresh, LastStartIsKnown
<1>6. QED
  BY <1>2, <1>3, <1>4, <1>5 DEF SchedulerIInv, SchedulerIsSound

-----------------------------------------------------------------------------
\* A sweep on its way: a new one has job 0, which is no job.
OnItsWay(sweep) ==
  /\ sweep \in [at : Nat, job : Jobs \cup {0}, by : {"timer", "caller"}]
  /\ sweep.at <= time
  /\ \A j \in 1 .. sweep.job : sweep.at - lastRun[j] < Schedule[j]

\* What a sweep's turn leaves of the invariant when it comes to its end.
LEMMA SweepEnds ==
  ASSUME SchedulerIInv, NEW sweep, OnItsWay(sweep), NEW others \in SUBSET sweeps,
         DueJobs(sweep.at, sweep.job) = {}, sweeps' = others,
         swept' = (IF sweep.at > swept THEN sweep.at ELSE swept),
         UNCHANGED <<time, ticking, lastRun, starts>>
  PROVE  SchedulerIInv'
<1>1. sweep.at \in Nat /\ swept \in Nat /\ sweep.job \in Nat /\ sweep.at <= time /\ time \in Nat
  <2>1. Jobs \cup {0} \subseteq Nat
    BY JobsAreNumbers
  <2>2. sweep.job \in Jobs \cup {0}
    BY DEF OnItsWay
  <2>3. sweep.at \in Nat /\ sweep.at <= time
    BY DEF OnItsWay
  <2>4. swept \in Nat /\ time \in Nat
    BY DEF SchedulerIInv, SchedulerIsSound, SchedulerTypeOK
  <2>5. QED
    BY <2>1, <2>2, <2>3, <2>4
<1>2. SchedulerTypeOK'
  <2>1. swept' \in Nat /\ swept' <= time' /\ sweeps' \subseteq sweeps
    <3>1. swept <= time
      BY DEF SchedulerIInv, SchedulerIsSound, SchedulerTypeOK
    <3>2. QED
      BY <1>1, <3>1
  <2>2. QED
    BY <2>1 DEF SchedulerIInv, SchedulerIsSound, SchedulerTypeOK
<1>3. ASSUME NEW j \in Jobs PROVE swept' - lastRun[j] < Schedule[j]
  <2>1. CASE swept' = swept
    BY <2>1 DEF SchedulerIInv, SchedulerIsSound, NoneIsLeftDue
  <2>2. CASE swept' = sweep.at /\ j <= sweep.job
    <3>1. j \in 1 .. sweep.job
      BY <1>1, <2>2, JobsAreNumbers
    <3>2. QED
      BY <2>2, <3>1 DEF OnItsWay
  <2>3. CASE swept' = sweep.at /\ ~(j <= sweep.job)
    <3>1. j \in Nat /\ lastRun[j] \in Nat /\ Schedule[j] \in Nat
      BY JobsAreNumbers DEF SchedulerIInv, SchedulerIsSound, SchedulerTypeOK
    <3>2. ~(sweep.at - lastRun[j] >= Schedule[j])
      BY <1>1, <2>3, <3>1 DEF DueJobs
    <3>3. QED
      BY <1>1, <2>3, <3>1, <3>2
  <2>4. QED
    BY <2>1, <2>2, <2>3
<1>4. NoneIsLeftDue'
  BY <1>3 DEF SchedulerIInv, SchedulerIsSound, NoneIsLeftDue
<1>5. RunsKeepTheirDistance' /\ LastStartIsKnown'
  BY DEF SchedulerIInv, SchedulerIsSound, RunsKeepTheirDistance, LastStartIsKnown
<1>6. QED
  BY <1>2, <1>4, <1>5 DEF SchedulerIInv, SchedulerIsSound

\* What it leaves when it starts a job.
LEMMA SweepStarts ==
  ASSUME SchedulerIInv, NEW sweep, OnItsWay(sweep), NEW others \in SUBSET sweeps,
         NEW j \in DueJobs(sweep.at, sweep.job),
         \A k \in DueJobs(sweep.at, sweep.job) : j <= k,
         lastRun' = [lastRun EXCEPT ![j] = sweep.at],
         sweeps' = others \cup {[sweep EXCEPT !.job = j]},
         starts' = [starts EXCEPT ![j] = Append(@, sweep.at)],
         UNCHANGED <<time, ticking, swept>>
  PROVE  SchedulerIInv'
<1>1. /\ j \in Jobs /\ j \in Nat /\ j > sweep.job /\ sweep.at - lastRun[j] >= Schedule[j]
      /\ sweep.at \in Nat /\ swept \in Nat /\ sweep.job \in Nat /\ sweep.at <= time /\ time \in Nat
      /\ lastRun \in [Jobs -> Nat] /\ starts \in [Jobs -> Seq(Nat)]
      /\ sweeps \subseteq [at : Nat, job : Jobs, by : {"timer", "caller"}]
  <2>1. Jobs \cup {0} \subseteq Nat
    BY JobsAreNumbers
  <2>2. QED
    BY <2>1 DEF SchedulerIInv, SchedulerIsSound, SchedulerTypeOK, OnItsWay, DueJobs
<1>0. \A k \in Jobs : k \in Nat /\ 0 < k /\ Schedule[k] \in Nat /\ Schedule[k] > 0
  BY JobsAreNumbers
<1>2. \A k \in Jobs : lastRun'[k] \in Nat /\ lastRun[k] \in Nat /\ lastRun[k] <= lastRun'[k]
  <2>1. lastRun[j] <= sweep.at /\ lastRun[j] \in Nat
    BY <1>0, <1>1
  <2>2. lastRun'[j] = sweep.at /\ \A k \in Jobs : k # j => lastRun'[k] = lastRun[k]
    BY <1>1
  <2>3. QED
    BY <1>1, <2>1, <2>2
<1>3. starts'[j] = Append(starts[j], sweep.at) /\ \A k \in Jobs : k # j => starts'[k] = starts[k]
  BY <1>1
<1>4. SchedulerTypeOK'
  <2>1. starts' \in [Jobs -> Seq(Nat)] /\ lastRun' \in [Jobs -> Nat]
    BY <1>1
  <2>2. [sweep EXCEPT !.job = j] \in [at : Nat, job : Jobs, by : {"timer", "caller"}]
    BY <1>1 DEF OnItsWay
  <2>3. [sweep EXCEPT !.job = j].at = sweep.at
    BY DEF OnItsWay
  <2>4. QED
    BY <1>1, <2>1, <2>2, <2>3 DEF SchedulerIInv, SchedulerIsSound, SchedulerTypeOK
<1>5. RunsKeepTheirDistance'
  <2> SUFFICES ASSUME NEW k \in Jobs, NEW i \in 1 .. Len(starts'[k]) - 1
               PROVE  starts'[k][i + 1] - starts'[k][i] >= Schedule[k]
    BY DEF RunsKeepTheirDistance
  <2>1. CASE k # j
    BY <1>3, <2>1 DEF SchedulerIInv, SchedulerIsSound, RunsKeepTheirDistance
  <2>2. CASE k = j
    <3>1. starts[j] \in Seq(Nat) /\ Len(starts[j]) \in Nat /\ Len(starts'[j]) = Len(starts[j]) + 1
      BY <1>1, <1>3
    <3>2. CASE i < Len(starts[j])
      <4>1. starts'[j][i] = starts[j][i] /\ starts'[j][i + 1] = starts[j][i + 1]
        <5>1. i \in 1 .. Len(starts[j]) /\ i + 1 \in 1 .. Len(starts[j])
          BY <2>2, <3>1, <3>2
        <5>2. \A n \in 1 .. Len(starts[j]) : Append(starts[j], sweep.at)[n] = starts[j][n]
          BY <1>1, <3>1, AppendProperties
        <5>3. QED
          BY <1>3, <5>1, <5>2
      <4>2. i \in 1 .. Len(starts[j]) - 1
        BY <2>2, <3>1, <3>2
      <4>3. QED
        BY <1>1, <2>2, <4>1, <4>2 DEF SchedulerIInv, SchedulerIsSound, RunsKeepTheirDistance
    <3>3. CASE ~(i < Len(starts[j]))
      <4>1. i = Len(starts[j]) /\ starts[j] # <<>>
        BY <2>2, <3>1, <3>3
      <4>2. starts'[j][i] = lastRun[j] /\ starts'[j][i + 1] = sweep.at
        BY <1>1, <1>3, <2>2, <3>1, <4>1 DEF SchedulerIInv, LastStartIsKnown
      <4>3. QED
        <5>1. lastRun[j] \in Nat
          BY <1>1
        <5>2. QED
          BY <1>1, <2>2, <4>2, <5>1
    <3>4. QED
      BY <3>2, <3>3
  <2>3. QED
    BY <2>1, <2>2
<1>6. NoneIsLeftDue'
  <2>1. ASSUME NEW k \in Jobs PROVE swept - lastRun'[k] < Schedule[k]
    <3>1. swept - lastRun[k] < Schedule[k]
      BY DEF SchedulerIInv, SchedulerIsSound, NoneIsLeftDue
    <3>2. /\ lastRun'[k] \in Nat /\ lastRun[k] \in Nat /\ lastRun[k] <= lastRun'[k]
          /\ Schedule[k] \in Nat /\ swept \in Nat
      BY <1>0, <1>1, <1>2
    <3>3. QED
      BY <3>1, <3>2
  <2>2. ASSUME NEW other \in others, NEW k \in 1 .. other.job
        PROVE  other.at - lastRun'[k] < Schedule[k]
    <3>1. other \in sweeps /\ other.at \in Nat /\ other.job \in Jobs
      BY <1>1
    <3>2. k \in Jobs
      BY <3>1, JobsAreNumbers
    <3>3. other.at - lastRun[k] < Schedule[k]
      BY <3>1 DEF SchedulerIInv, SchedulerIsSound, NoneIsLeftDue
    <3>4. QED
      BY <1>0, <1>2, <3>1, <3>2, <3>3
  <2>3. ASSUME NEW k \in 1 .. j PROVE sweep.at - lastRun'[k] < Schedule[k]
    <3>0. k \in Nat /\ 0 < k /\ k <= j
      BY <1>1
    <3>1. /\ k \in Jobs /\ Schedule[k] \in Nat /\ Schedule[k] > 0
          /\ lastRun'[k] \in Nat /\ lastRun[k] \in Nat /\ lastRun[k] <= lastRun'[k]
      BY <1>1, <1>2, <3>0, JobsAreNumbers
    <3>2. CASE k = j
      <4>1. lastRun'[j] = sweep.at
        BY <1>1
      <4>2. QED
        BY <1>1, <3>1, <3>2, <4>1
    <3>3. CASE k <= sweep.job
      <4>1. sweep.at - lastRun[k] < Schedule[k]
        BY <1>1, <3>0, <3>3 DEF OnItsWay
      <4>2. QED
        BY <1>1, <3>1, <4>1
    <3>4. CASE k # j /\ ~(k <= sweep.job)
      <4>1. k \notin DueJobs(sweep.at, sweep.job)
        BY <1>1, <3>0, <3>4
      <4>2. ~(sweep.at - lastRun[k] >= Schedule[k])
        BY <1>1, <3>0, <3>1, <3>4, <4>1 DEF DueJobs
      <4>3. QED
        BY <1>1, <3>1, <4>2
    <3>5. QED
      BY <3>2, <3>3, <3>4
  <2>4. [sweep EXCEPT !.job = j].at = sweep.at /\ [sweep EXCEPT !.job = j].job = j
    BY DEF OnItsWay
  <2>5. QED
    BY <2>1, <2>2, <2>3, <2>4 DEF NoneIsLeftDue
<1>7. LastStartIsKnown'
  <2>1. ASSUME NEW k \in Jobs
        PROVE  IF starts'[k] = <<>> THEN lastRun'[k] = 0 ELSE lastRun'[k] = starts'[k][Len(starts'[k])]
    <3>1. CASE k # j
      BY <1>1, <1>3, <2>1, <3>1 DEF SchedulerIInv, LastStartIsKnown
    <3>2. CASE k = j
      <4>1. /\ starts'[j] # <<>> /\ Len(starts'[j]) = Len(starts[j]) + 1
            /\ starts'[j][Len(starts[j]) + 1] = sweep.at
        <5>1. starts[j] \in Seq(Nat)
          BY <1>1
        <5>2. /\ Append(starts[j], sweep.at) \in Seq(Nat)
              /\ Len(Append(starts[j], sweep.at)) = Len(starts[j]) + 1
              /\ Append(starts[j], sweep.at)[Len(starts[j]) + 1] = sweep.at
              /\ Len(starts[j]) \in Nat
          BY <1>1, <5>1
        <5>3. Append(starts[j], sweep.at) # <<>>
          <6>1. Len(Append(starts[j], sweep.at)) # 0
            BY <5>2
          <6>2. Len(<<>>) = 0
            BY EmptySeq
          <6>3. QED
            BY <6>1, <6>2, Zenon
        <5>4. QED
          BY <1>3, <5>2, <5>3
      <4>2. lastRun'[j] = sweep.at
        BY <1>1
      <4>3. QED
        BY <3>2, <4>1, <4>2
    <3>3. QED
      BY <3>1, <3>2
  <2>2. QED
    BY <2>1 DEF LastStartIsKnown
<1>8. QED
  BY <1>4, <1>5, <1>6, <1>7 DEF SchedulerIInv, SchedulerIsSound

\* A sweep's turn, whoever else is under way.
LEMMA ATurnIsSound ==
  ASSUME SchedulerIInv, NEW sweep, OnItsWay(sweep), NEW others \in SUBSET sweeps,
         Proceed(sweep, others), UNCHANGED <<time, ticking>>
  PROVE  SchedulerIInv'
<1>1. CASE DueJobs(sweep.at, sweep.job) = {}
  BY <1>1, SweepEnds DEF Proceed
<1>2. CASE DueJobs(sweep.at, sweep.job) # {}
  <2>1. PICK j \in DueJobs(sweep.at, sweep.job) :
          /\ \A k \in DueJobs(sweep.at, sweep.job) : j <= k
          /\ lastRun' = [lastRun EXCEPT ![j] = sweep.at]
          /\ sweeps' = others \cup {[sweep EXCEPT !.job = j]}
          /\ starts' = [starts EXCEPT ![j] = Append(@, sweep.at)]
          /\ UNCHANGED swept
    BY <1>2 DEF Proceed
  <2>2. QED
    BY <2>1, SweepStarts
<1>3. QED
  BY <1>1, <1>2

-----------------------------------------------------------------------------
\* The inductive step, one part per action.
LEMMA StepIsSound ==
  ASSUME SchedulerIInv, [SchedulerNext]_schedulerVars
  PROVE  SchedulerIInv'
<1>1. CASE UNCHANGED schedulerVars
  BY <1>1 DEF schedulerVars, SchedulerIInv, SchedulerIsSound, SchedulerTypeOK,
              RunsKeepTheirDistance, NoneIsLeftDue, LastStartIsKnown
<1>2. CASE TimePasses
  BY <1>2 DEF TimePasses, SchedulerIInv, SchedulerIsSound, SchedulerTypeOK,
              RunsKeepTheirDistance, NoneIsLeftDue, LastStartIsKnown
<1>3. CASE StartOrStop
  BY <1>3 DEF StartOrStop, SchedulerIInv, SchedulerIsSound, SchedulerTypeOK,
              RunsKeepTheirDistance, NoneIsLeftDue, LastStartIsKnown
<1>4. ASSUME NEW by \in {"timer", "caller"}, SweepBegins(by)
      PROVE  SchedulerIInv'
  <2>1. OnItsWay([at |-> time, job |-> 0, by |-> by])
    BY DEF OnItsWay, SchedulerIInv, SchedulerIsSound, SchedulerTypeOK
  <2>2. QED
    BY <1>4, <2>1, ATurnIsSound DEF SweepBegins
<1>5. CASE JobEnds
  <2>1. PICK sweep \in sweeps : Proceed(sweep, sweeps \ {sweep}) /\ UNCHANGED <<time, ticking>>
    BY <1>5 DEF JobEnds
  <2>2. OnItsWay(sweep)
    BY DEF OnItsWay, SchedulerIInv, SchedulerIsSound, SchedulerTypeOK, NoneIsLeftDue
  <2>3. QED
    BY <2>1, <2>2, ATurnIsSound
<1>6. CASE JobRejects
  <2>1. PICK sweep \in sweeps :
          IF sweep.by = "timer"
          THEN /\ ticking' = FALSE /\ lastRun' = [j \in Jobs |-> 0]
               /\ sweeps' = {} /\ starts' = [j \in Jobs |-> <<>>] /\ swept' = 0
               /\ UNCHANGED time
          ELSE /\ sweeps' = sweeps \ {sweep}
               /\ UNCHANGED <<time, ticking, lastRun, starts, swept>>
    BY <1>6 DEF JobRejects
  <2>2. CASE sweep.by = "timer"
    <3>1. Fresh'
      BY <2>1, <2>2 DEF Fresh, SchedulerIInv, SchedulerIsSound, SchedulerTypeOK
    <3>2. QED
      BY <3>1, FreshIsSound, PTL
  <2>3. CASE sweep.by # "timer"
    BY <2>1, <2>3 DEF SchedulerIInv, SchedulerIsSound, SchedulerTypeOK,
                      RunsKeepTheirDistance, NoneIsLeftDue, LastStartIsKnown
  <2>4. QED
    BY <2>2, <2>3
<1>7. QED
  BY <1>1, <1>2, <1>3, <1>4, <1>5, <1>6 DEF SchedulerNext

\* Although a sweep goes on with the time it began at, and other sweeps run in
\* its waits for jobs, the runs of a job keep their distance and no sweep leaves
\* a job behind that was due (runDueJobs).
THEOREM SchedulerSound == SchedulerSpec => []SchedulerIsSound
<1>1. SchedulerInit => SchedulerIInv
  <2>1. SchedulerInit => Fresh
    BY SchedulerAssumption DEF SchedulerInit, Fresh
  <2>2. QED
    BY <2>1, FreshIsSound
<1>2. SchedulerIInv /\ [SchedulerNext]_schedulerVars => SchedulerIInv'
  BY StepIsSound
<1>3. SchedulerIInv => SchedulerIsSound
  BY DEF SchedulerIInv
<1>4. QED
  BY <1>1, <1>2, <1>3, PTL DEF SchedulerSpec
=============================================================================
