------------------------------ MODULE SqliteStore ------------------------------
(***************************************************************************)
(* SqliteResearchStore: one database file and the processes that use it,   *)
(* the gateway and capture commands beside it.  An insert goes through its *)
(* records in one turn of its process, each with a query for a duplicate   *)
(* and an INSERT.  Each statement commits by itself, so statements of      *)
(* other processes come in between, and an insert that throws leaves the   *)
(* records it has come past in the database.                               *)
(*                                                                         *)
(* A record has the columns its table compares; "checkedAt" stands for the *)
(* time column that orders a table.  A row also says, for the properties,  *)
(* how many rows there were when its duplicate was looked for.             *)
(***************************************************************************)
EXTENDS Integers, Sequences, FiniteSets, Functions, SequencesExt

CONSTANTS Processes, Records,
          NearWindow, \* MARKET_SNAPSHOT_DEDUP_WINDOW_MS
          LookBack,   \* the LIMIT of the near-duplicate query
          MaxBatch,   \* bound: records of one insert call
          MaxRows     \* bound: rows of the database when a call starts

ASSUME SqliteAssumption ==
  /\ NearWindow \in Nat /\ LookBack \in Nat /\ MaxBatch \in Nat /\ MaxRows \in Nat
  /\ \A r \in Records : r.checkedAt \in Nat /\ r.table \in
       {"market_snapshots", "underlying_candles", "fair_value_signals", "replay_results",
        "short_window_signals", "short_window_replay_results", "strategy_lab_results",
        "capture_runs"}

VARIABLES rows,      \* the rows of all tables in the order of their insertion
          open,      \* of each process: it has a database handle
          todo,      \* of each process: records its insert has yet to come to
          checked,   \* of each process: the first of them has no duplicate
          seen,      \* of each process: rows there were at that check
          done,      \* of each process: records its insert has come past
          answered   \* history: records of inserts that returned

sqliteVars == <<rows, open, todo, checked, seen, done, answered>>

-----------------------------------------------------------------------------
\* The tables and the columns of their UNIQUE constraints.
UniqueColumns ==
  [market_snapshots            |-> {},
   underlying_candles          |-> {"symbol", "interval", "openTime", "provider"},
   fair_value_signals          |-> {"sourceType", "symbol", "marketId", "signalTime", "side"},
   replay_results              |-> {"sourceType", "symbol", "window", "strategyId", "checkedAt"},
   short_window_signals        |-> {"sourceType", "venue", "symbol", "interval", "eventId",
                                    "signalTime", "side"},
   short_window_replay_results |-> {"sourceType", "venue", "symbol", "interval", "window",
                                    "checkedAt"},
   strategy_lab_results        |-> {"sourceType", "symbol", "window", "strategyId",
                                    "parameterSet", "checkedAt"},
   capture_runs                |-> {}]

\* What the duplicate query of each insert compares.
CandleLookup == {"symbol", "interval", "openTime", "provider"}
SignalLookup == {"sourceType", "symbol", "marketId", "signalTime", "side"}
ReplayLookup == {"sourceType", "symbol", "window", "strategyId", "checkedAt"}
ShortSignalLookup ==
  {"sourceType", "venue", "symbol", "interval", "eventId", "signalTime", "side"}
ShortReplayLookup == {"sourceType", "venue", "symbol", "interval", "window", "checkedAt"}
LabLookup == {"sourceType", "symbol", "window", "strategyId", "parameterSet", "checkedAt"}
SnapshotLookup == {"provider", "sourceType", "symbol", "marketId", "rawHash"}

Lookup ==
  [market_snapshots |-> SnapshotLookup, underlying_candles |-> CandleLookup,
   fair_value_signals |-> SignalLookup, replay_results |-> ReplayLookup,
   short_window_signals |-> ShortSignalLookup,
   short_window_replay_results |-> ShortReplayLookup, strategy_lab_results |-> LabLookup]

SameIn(columns, r, s) ==
  r.table = s.table /\ \A c \in columns[r.table] : r[c] = s[c]

\* A constraint of no columns is no constraint.
Conflicts(r, s) == UniqueColumns[r.table] # {} /\ SameIn(UniqueColumns, r, s)

Near(r, s) ==
  /\ r.checkedAt - s.checkedAt <= NearWindow /\ s.checkedAt - r.checkedAt <= NearWindow

\* The ids of the rows whose columns a record's duplicate query finds.
Found(r) == {i \in DOMAIN rows : SameIn(Lookup, r, rows[i].record)}

\* ORDER BY checked_at DESC: the rows that come before row i, of those in ids.
\* The near-duplicate query leaves equal times in any order; which of them it
\* returns changes nothing, since it reads their times only.
Before(i, ids) ==
  {j \in ids : \/ rows[j].record.checkedAt > rows[i].record.checkedAt
               \/ rows[j].record.checkedAt = rows[i].record.checkedAt /\ j > i}

\* Mutant of Latest: ORDER BY checked_at without DESC.
LatestAscending(ids, limit) ==
  {i \in ids : Cardinality({j \in ids : rows[j].record.checkedAt < rows[i].record.checkedAt})
                 < limit}

\* ORDER BY checked_at DESC, id DESC LIMIT limit.
Latest(ids, limit) == {i \in ids : Cardinality(Before(i, ids)) < limit}

HasNearDuplicate(r) == \E i \in Latest(Found(r), LookBack) : Near(r, rows[i].record)

Duplicate(r) ==
  IF r.table = "market_snapshots" THEN HasNearDuplicate(r)
  ELSE r.table \in DOMAIN Lookup /\ Found(r) # {}

\* assertStoreSource, and the check of fair-value signals: the insert throws.
Refused(r) ==
  \/ "provider" \in DOMAIN r /\ r.provider = "mock" /\ r.sourceType # "mock"
  \/ r.table = "fair_value_signals" /\ r.sourceType = "mock" /\ r.liveMarker

-----------------------------------------------------------------------------
SqliteInit ==
  /\ rows = <<>>
  /\ open = [p \in Processes |-> FALSE]
  /\ todo = [p \in Processes |-> <<>>]
  /\ checked = [p \in Processes |-> FALSE]
  /\ seen = [p \in Processes |-> 0]
  /\ done = [p \in Processes |-> {}]
  /\ answered = {}

Returned(p) == todo[p] = <<>> /\ done[p] = {}

\* An insert is called; the first call of a process, and the first one after
\* close(), opens the database.
Call(p) ==
  /\ Returned(p) /\ Len(rows) < MaxRows
  /\ \E n \in 1 .. MaxBatch : \E records \in [1 .. n -> Records] :
       todo' = [todo EXCEPT ![p] = records]
  /\ open' = [open EXCEPT ![p] = TRUE]
  /\ UNCHANGED <<rows, checked, seen, done, answered>>

\* The insert is over without an answer.
GivesUp(p) ==
  /\ todo' = [todo EXCEPT ![p] = <<>>]
  /\ checked' = [checked EXCEPT ![p] = FALSE]
  /\ seen' = [seen EXCEPT ![p] = 0]
  /\ done' = [done EXCEPT ![p] = {}]
  /\ UNCHANGED answered

\* The insert is past its next record.
Passes(p) ==
  /\ todo' = [todo EXCEPT ![p] = Tail(@)]
  /\ done' = [done EXCEPT ![p] = @ \cup {Head(todo[p])}]
  /\ checked' = [checked EXCEPT ![p] = FALSE]
  /\ seen' = [seen EXCEPT ![p] = 0]
  /\ UNCHANGED answered

\* Mutant of Refuse: the record is skipped.
RefuseSkips(p) ==
  /\ todo[p] # <<>> /\ ~checked[p] /\ Refused(Head(todo[p]))
  /\ Passes(p)
  /\ UNCHANGED <<rows, open>>

\* The next record may not be stored: the insert throws, and the records
\* before it stay.
Refuse(p) ==
  /\ todo[p] # <<>> /\ ~checked[p] /\ Refused(Head(todo[p]))
  /\ GivesUp(p)
  /\ UNCHANGED <<rows, open>>

\* The query for a duplicate of the next record.  recordCaptureRun has none.
Select(p) ==
  /\ todo[p] # <<>> /\ ~checked[p] /\ ~Refused(Head(todo[p]))
  /\ IF Duplicate(Head(todo[p])) THEN Passes(p)
     ELSE /\ checked' = [checked EXCEPT ![p] = TRUE]
          /\ seen' = [seen EXCEPT ![p] = Len(rows)]
          /\ UNCHANGED <<todo, done, answered>>
  /\ UNCHANGED <<rows, open>>

\* Mutant of InsertRow: the table's constraint is not there.
InsertRowAnyway(p) ==
  LET record == Head(todo[p]) IN
  /\ todo[p] # <<>> /\ checked[p]
  /\ rows' = Append(rows, [record |-> record, seen |-> seen[p]])
  /\ Passes(p)
  /\ UNCHANGED open

\* Mutant of InsertRow: one query for a whole batch.
InsertRowOneQuery(p) ==
  LET record == Head(todo[p])  more == Len(todo[p]) > 1 IN
  /\ todo[p] # <<>> /\ checked[p]
  /\ rows' = IF \E i \in DOMAIN rows : Conflicts(record, rows[i].record) THEN rows
             ELSE Append(rows, [record |-> record, seen |-> seen[p]])
  /\ todo' = [todo EXCEPT ![p] = Tail(@)]
  /\ done' = [done EXCEPT ![p] = @ \cup {record}]
  /\ checked' = [checked EXCEPT ![p] = more]
  /\ seen' = [seen EXCEPT ![p] = IF more THEN @ ELSE 0]
  /\ UNCHANGED <<open, answered>>

\* INSERT OR IGNORE, and INSERT where the table has no constraint.  A record
\* that conflicts after all counts as skipped.
InsertRow(p) ==
  LET record == Head(todo[p]) IN
  /\ todo[p] # <<>> /\ checked[p]
  /\ rows' = IF \E i \in DOMAIN rows : Conflicts(record, rows[i].record) THEN rows
             ELSE Append(rows, [record |-> record, seen |-> seen[p]])
  /\ Passes(p)
  /\ UNCHANGED open

\* SQLITE_BUSY: another process has the database, and there is no timeout to
\* wait for it.  The statement throws out of the insert.
Busy(p) ==
  /\ todo[p] # <<>> /\ \E q \in Processes \ {p} : open[q]
  /\ GivesUp(p)
  /\ UNCHANGED <<rows, open>>

\* The insert returns its summary.
Return(p) ==
  /\ todo[p] = <<>> /\ ~Returned(p)
  /\ answered' = answered \cup done[p]
  /\ done' = [done EXCEPT ![p] = {}]
  /\ UNCHANGED <<rows, open, todo, checked, seen>>

\* Mutant of Close: also while an insert is under way.
CloseAtOnce(p) ==
  /\ open[p]
  /\ open' = [open EXCEPT ![p] = FALSE]
  /\ UNCHANGED <<rows, todo, checked, seen, done, answered>>

\* close(), at the end of a command or in the gateway's onClose.
Close(p) ==
  /\ open[p] /\ Returned(p)
  /\ open' = [open EXCEPT ![p] = FALSE]
  /\ UNCHANGED <<rows, todo, checked, seen, done, answered>>

\* The process dies between two statements; another one takes its place.
Dies(p) ==
  /\ open[p]
  /\ open' = [open EXCEPT ![p] = FALSE]
  /\ GivesUp(p)
  /\ UNCHANGED rows

SqliteNext ==
  \E p \in Processes : \/ Call(p) \/ Refuse(p) \/ Select(p) \/ InsertRow(p)
                       \/ Busy(p) \/ Return(p) \/ Close(p) \/ Dies(p)

SqliteSpec == SqliteInit /\ [][SqliteNext]_sqliteVars

-----------------------------------------------------------------------------
\* getLatestReplayResult and its like: of the rows that match, the latest one
\* and among equal times the one inserted last.
LatestRow(table) ==
  Latest({i \in DOMAIN rows : rows[i].record.table = table}, 1)

LatestTime(table) ==
  IF LatestRow(table) = {} THEN -1
  ELSE rows[CHOOSE i \in LatestRow(table) : TRUE].record.checkedAt

-----------------------------------------------------------------------------
\* Types.
SqliteTypeOK ==
  /\ rows \in Seq([record : Records, seen : Nat])
  /\ open \in [Processes -> BOOLEAN]
  /\ todo \in [Processes -> Seq(Records)]
  /\ checked \in [Processes -> BOOLEAN]
  /\ seen \in [Processes -> Nat]
  /\ done \in [Processes -> SUBSET Records]
  /\ answered \in SUBSET Records
  /\ \A p \in Processes : (todo[p] # <<>> => open[p]) /\ (checked[p] => todo[p] # <<>>)

\* Safety: no two rows share the columns of their table's constraint, although
\* the duplicate query and the INSERT of two processes can cross.
KeysAreUnique ==
  \A i, j \in DOMAIN rows : Conflicts(rows[i].record, rows[j].record) => i = j

\* Safety: two near snapshots of one content are both stored only if they came
\* from two processes at the same time, or if the query stopped before the
\* first: LookBack snapshots of that content were as late as it.
NearSnapshotsAreExplained ==
  \A i, j \in DOMAIN rows :
    LET first == rows[i].record  second == rows[j].record IN
    (/\ i < j /\ second.table = "market_snapshots"
     /\ SameIn(Lookup, second, first) /\ Near(second, first))
    => \/ i > rows[j].seen
       \/ Cardinality({k \in 1 .. rows[j].seen : /\ SameIn(Lookup, second, rows[k].record)
                                                  /\ k # i
                                                  /\ rows[k].record.checkedAt >= first.checkedAt})
            >= LookBack

\* Safety: a race costs little.  The inserts whose query did not see a row that
\* was already there are at most one of each other process, however many records
\* an insert has: after each record the process asks the database again.
RacesAreFew ==
  \A i \in DOMAIN rows :
    Cardinality({j \in DOMAIN rows : i < j /\ rows[j].seen < i}) < Cardinality(Processes)

\* Action: the latest row never gets older, whatever order rows come in.
LatestNeverGoesBack ==
  [][\A t \in {"replay_results", "market_snapshots"} :
       LatestTime(t)' >= LatestTime(t)]_sqliteVars

\* A record is like a stored one when the duplicate query or the constraint
\* says so.
LikeStored(r, s) ==
  \/ r = s
  \/ r.table \in DOMAIN Lookup /\ SameIn(Lookup, r, s)
       /\ (r.table = "market_snapshots" => Near(r, s))

Contract == INSTANCE ResearchStore
  WITH Like <- LikeStored, stored <- {rows[i].record : i \in DOMAIN rows}

\* Refinement: every record that an insert answered for is in the database or
\* has its like there, and no row is ever lost.
KeepsStorePromise == Contract!StoreSpec
=============================================================================
