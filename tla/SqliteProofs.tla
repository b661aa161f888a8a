------------------------------ MODULE SqliteProofs ------------------------------
(***************************************************************************)
(* Proofs about the SQLite store, for any number of processes, any records *)
(* and any limits.  Rows are only ever appended, so what a process found   *)
(* out in its duplicate query stays true of the rows it saw: the invariant *)
(* adds what a checked record has been checked for, and that a row was     *)
(* checked against rows before it.                                         *)
(***************************************************************************)
EXTENDS SqliteStore, SequenceTheorems, FiniteSetTheorems, TLAPS

\* The rows of db like record r, of the first `at', that a query for r can
\* return before row i.
Hiding(db, r, i, at) ==
  {k \in 1 .. at : /\ SameIn(Lookup, r, db[k].record) /\ k # i
                   /\ db[k].record.checkedAt >= db[i].record.checkedAt}

\* Each near snapshot among the first rows was hidden from the query.
Explained(db, r, at) ==
  \A i \in 1 .. at :
    SameIn(Lookup, r, db[i].record) /\ Near(r, db[i].record)
      => Cardinality(Hiding(db, r, i, at)) >= LookBack

IsSnapshot(r) == r.table = "market_snapshots"

\* What a checked record has been checked for.
CheckedIsKnown ==
  \A p \in Processes : checked[p] =>
    /\ seen[p] <= Len(rows)
    /\ IsSnapshot(Head(todo[p])) => Explained(rows, Head(todo[p]), seen[p])

RowsAreKnown ==
  \A j \in DOMAIN rows :
    /\ rows[j].seen < j
    /\ IsSnapshot(rows[j].record) => Explained(rows, rows[j].record, rows[j].seen)

SqliteIInv == SqliteTypeOK /\ CheckedIsKnown /\ RowsAreKnown

-----------------------------------------------------------------------------
\* What a row is made of.
LEMMA RowType ==
  ASSUME SqliteTypeOK, NEW k \in DOMAIN rows
  PROVE  /\ k \in 1 .. Len(rows) /\ k \in Nat /\ Len(rows) \in Nat
         /\ rows[k].record \in Records /\ rows[k].seen \in Nat
<1> DEFINE Rows == [record : Records, seen : Nat]
<1>1. rows \in Seq(Rows)
  BY DEF SqliteTypeOK
<1> HIDE DEF Rows
<1>2. k \in 1 .. Len(rows) /\ k \in Nat /\ Len(rows) \in Nat
  BY <1>1
<1>3. rows[k] \in Rows
  BY <1>1, <1>2, ElementOfSeq
<1>4. rows[k].record \in Records /\ rows[k].seen \in Nat
  BY <1>3 DEF Rows
<1>5. QED
  BY <1>2, <1>4

-----------------------------------------------------------------------------
\* What steps do to the rows: nothing, or they append a checked record that
\* conflicts with none.
Appends(p) ==
  /\ checked[p] /\ todo[p] # <<>>
  /\ \A i \in DOMAIN rows : ~Conflicts(Head(todo[p]), rows[i].record)
  /\ rows' = Append(rows, [record |-> Head(todo[p]), seen |-> seen[p]])

\* A step leaves the rows alone or appends one.
LEMMA RowsOfAStep ==
  ASSUME SqliteNext
  PROVE  rows' = rows \/ \E p \in Processes : Appends(p)
<1>1. PICK p \in Processes : \/ Call(p) \/ Refuse(p) \/ Select(p) \/ InsertRow(p)
                             \/ Busy(p) \/ Return(p) \/ Close(p) \/ Dies(p)
  BY DEF SqliteNext
<1>2. CASE Call(p) \/ Refuse(p) \/ Select(p) \/ Busy(p) \/ Return(p) \/ Close(p) \/ Dies(p)
  BY <1>2 DEF Call, Refuse, Select, Busy, Return, Close, Dies
<1>3. CASE InsertRow(p)
  BY <1>3 DEF InsertRow, Appends
<1>4. QED
  BY <1>1, <1>2, <1>3

\* A row more: the others keep their place.
LEMMA OneRowMore ==
  ASSUME SqliteTypeOK, NEW p \in Processes, Appends(p)
  PROVE  /\ rows' \in Seq([record : Records, seen : Nat])
         /\ Len(rows') = Len(rows) + 1 /\ Len(rows) \in Nat
         /\ DOMAIN rows = 1 .. Len(rows) /\ DOMAIN rows' = 1 .. Len(rows) + 1
         /\ \A i \in DOMAIN rows : rows'[i] = rows[i]
         /\ rows'[Len(rows) + 1] = [record |-> Head(todo[p]), seen |-> seen[p]]
         /\ Head(todo[p]) \in Records
<1> DEFINE row == [record |-> Head(todo[p]), seen |-> seen[p]]
<1>1. Head(todo[p]) \in Records
  BY DEF SqliteTypeOK, Appends
<1>2. row \in [record : Records, seen : Nat] /\ rows \in Seq([record : Records, seen : Nat])
  BY <1>1 DEF SqliteTypeOK
<1>3. rows' = Append(rows, row)
  BY DEF Appends
<1> HIDE DEF row
<1>4. QED
  BY <1>1, <1>2, <1>3 DEF row

\* Whatever a step does, rows that are there stay what they are.
LEMMA RowsStay ==
  ASSUME SqliteTypeOK, [SqliteNext]_sqliteVars
  PROVE  /\ Len(rows) \in Nat /\ Len(rows') \in Nat /\ Len(rows) <= Len(rows')
         /\ DOMAIN rows = 1 .. Len(rows) /\ DOMAIN rows' = 1 .. Len(rows')
         /\ \A i \in 1 .. Len(rows) : rows'[i] = rows[i]
<1>0. rows \in Seq([record : Records, seen : Nat])
  BY DEF SqliteTypeOK
<1>1. CASE rows' = rows
  BY <1>0, <1>1
<1>2. ASSUME NEW p \in Processes, Appends(p)
      PROVE  /\ Len(rows) \in Nat /\ Len(rows') \in Nat /\ Len(rows) <= Len(rows')
             /\ DOMAIN rows = 1 .. Len(rows) /\ DOMAIN rows' = 1 .. Len(rows')
             /\ \A i \in 1 .. Len(rows) : rows'[i] = rows[i]
  <2>1. /\ Len(rows') = Len(rows) + 1 /\ Len(rows) \in Nat
        /\ DOMAIN rows = 1 .. Len(rows) /\ DOMAIN rows' = 1 .. Len(rows) + 1
        /\ \A i \in DOMAIN rows : rows'[i] = rows[i]
    BY <1>2, OneRowMore
  <2>2. Len(rows') \in Nat /\ Len(rows) <= Len(rows')
    BY <2>1
  <2>3. QED
    BY <2>1, <2>2
<1>3. QED
  BY <1>1, <1>2, RowsOfAStep DEF sqliteVars

-----------------------------------------------------------------------------
\* Types, one part per action.
LEMMA SqliteTypeStep ==
  ASSUME SqliteTypeOK, [SqliteNext]_sqliteVars
  PROVE  SqliteTypeOK'
<1> USE SqliteAssumption
<1>1. rows' \in Seq([record : Records, seen : Nat])
  BY OneRowMore, RowsOfAStep DEF SqliteTypeOK, sqliteVars
<1>2. ASSUME NEW p \in Processes, Call(p) PROVE SqliteTypeOK'
  BY <1>1, <1>2 DEF Call, SqliteTypeOK
<1>3. ASSUME NEW p \in Processes, GivesUp(p), open' = open PROVE SqliteTypeOK'
  BY <1>1, <1>3 DEF GivesUp, SqliteTypeOK
<1>4. ASSUME NEW p \in Processes, Passes(p), open' = open, todo[p] # <<>> PROVE SqliteTypeOK'
  BY <1>1, <1>4 DEF Passes, SqliteTypeOK
<1>5. ASSUME NEW p \in Processes, Refuse(p) \/ Busy(p) PROVE SqliteTypeOK'
  BY <1>3, <1>5 DEF Refuse, Busy
<1>6. ASSUME NEW p \in Processes, InsertRow(p) PROVE SqliteTypeOK'
  BY <1>4, <1>6 DEF InsertRow
<1>7. ASSUME NEW p \in Processes, Select(p) PROVE SqliteTypeOK'
  <2>1. CASE Duplicate(Head(todo[p]))
    BY <1>4, <1>7, <2>1 DEF Select
  <2>2. CASE ~Duplicate(Head(todo[p]))
    <3>1. Len(rows) \in Nat
      BY DEF SqliteTypeOK
    <3>2. /\ checked' = [checked EXCEPT ![p] = TRUE] /\ seen' = [seen EXCEPT ![p] = Len(rows)]
          /\ UNCHANGED <<open, todo, done, answered>> /\ todo[p] # <<>>
      BY <1>7, <2>2 DEF Select
    <3>3. seen' \in [Processes -> Nat]
      BY <3>1, <3>2 DEF SqliteTypeOK
    <3>4. checked' \in [Processes -> BOOLEAN]
      BY <3>2, Zenon DEF SqliteTypeOK
    <3>5. \A q \in Processes : checked'[q] => checked[q] \/ q = p
      BY <3>2 DEF SqliteTypeOK
    <3>6. \A q \in Processes : (todo'[q] # <<>> => open'[q]) /\ (checked'[q] => todo'[q] # <<>>)
      BY <3>2, <3>5 DEF SqliteTypeOK
    <3>7. QED
      BY <1>1, <3>2, <3>3, <3>4, <3>6 DEF SqliteTypeOK
  <2>3. QED
    BY <2>1, <2>2
<1>8. ASSUME NEW p \in Processes, Return(p) PROVE SqliteTypeOK'
  BY <1>1, <1>8 DEF Return, SqliteTypeOK
<1>9. ASSUME NEW p \in Processes, Close(p) PROVE SqliteTypeOK'
  BY <1>1, <1>9 DEF Close, Returned, SqliteTypeOK
<1>10. ASSUME NEW p \in Processes, Dies(p) PROVE SqliteTypeOK'
  BY <1>1, <1>10 DEF Dies, GivesUp, SqliteTypeOK
<1>11. CASE UNCHANGED sqliteVars
  BY <1>1, <1>11 DEF sqliteVars, SqliteTypeOK
<1>12. QED
  BY <1>2, <1>5, <1>6, <1>7, <1>8, <1>9, <1>10, <1>11 DEF SqliteNext

\* Theorem: the variables have their types, an insert under way has its
\* database open, and only a record that is still to come is checked.
THEOREM SqliteTypes == SqliteSpec => []SqliteTypeOK
<1>1. SqliteInit => SqliteTypeOK
  BY DEF SqliteInit, SqliteTypeOK
<1>2. SqliteTypeOK /\ [SqliteNext]_sqliteVars => SqliteTypeOK'
  BY SqliteTypeStep
<1>3. QED
  BY <1>1, <1>2, PTL DEF SqliteSpec

-----------------------------------------------------------------------------
\* A unique index does not care which record came first.
LEMMA ConflictsBothWays ==
  ASSUME NEW r, NEW s, Conflicts(r, s)
  PROVE  Conflicts(s, r)
BY DEF Conflicts, SameIn

\* The unique indexes hold on: a row is appended in the turn that looks for conflicts.
LEMMA KeysStep ==
  ASSUME SqliteTypeOK, KeysAreUnique, [SqliteNext]_sqliteVars
  PROVE  KeysAreUnique'
<1>1. CASE rows' = rows
  BY <1>1 DEF KeysAreUnique, Conflicts, SameIn
<1>2. ASSUME NEW p \in Processes, Appends(p) PROVE KeysAreUnique'
  <2> DEFINE new == Len(rows) + 1
  <2> SUFFICES ASSUME NEW i \in DOMAIN rows', NEW j \in DOMAIN rows',
                      Conflicts(rows'[i].record, rows'[j].record)
               PROVE  i = j
    BY DEF KeysAreUnique, Conflicts, SameIn
  <2>1. /\ DOMAIN rows = 1 .. Len(rows) /\ DOMAIN rows' = 1 .. Len(rows) + 1 /\ Len(rows) \in Nat
        /\ \A k \in DOMAIN rows : rows'[k] = rows[k]
    BY <1>2, OneRowMore
  <2>0. rows'[Len(rows) + 1].record = Head(todo[p])
    <3>1. rows'[Len(rows) + 1] = [record |-> Head(todo[p]), seen |-> seen[p]]
      BY <1>2, OneRowMore
    <3>2. QED
      BY <3>1
  <2>2. \A k \in DOMAIN rows : ~Conflicts(Head(todo[p]), rows[k].record)
    BY <1>2 DEF Appends
  <2>3. CASE i \in DOMAIN rows /\ j \in DOMAIN rows
    BY <2>1, <2>3 DEF KeysAreUnique
  <2>4. CASE i \in DOMAIN rows /\ j = new
    BY <2>0, <2>1, <2>2, <2>4, ConflictsBothWays
  <2>5. CASE i = new /\ j \in DOMAIN rows
    BY <2>0, <2>1, <2>2, <2>5
  <2>6. QED
    BY <2>1, <2>3, <2>4, <2>5
<1>3. QED
  BY <1>1, <1>2, RowsOfAStep DEF sqliteVars

\* Theorem: no two rows share the columns of their table's constraint, however
\* the queries and the inserts of the processes cross.
THEOREM SqliteKeys == SqliteSpec => []KeysAreUnique
<1>1. SqliteInit => KeysAreUnique
  BY DEF SqliteInit, KeysAreUnique
<1>2. SqliteTypeOK /\ KeysAreUnique /\ [SqliteNext]_sqliteVars => KeysAreUnique'
  BY KeysStep
<1>3. QED
  BY <1>1, <1>2, SqliteTypes, PTL DEF SqliteSpec

-----------------------------------------------------------------------------
\* What hides a row from a query hides it whatever is appended.
LEMMA ExplainedStays ==
  ASSUME SqliteTypeOK, [SqliteNext]_sqliteVars,
         NEW r, NEW at \in Nat, at <= Len(rows), Explained(rows, r, at)
  PROVE  Explained(rows', r, at)
<1>1. \A i \in 1 .. at : rows'[i] = rows[i]
  BY RowsStay
<1>2. SUFFICES ASSUME NEW i \in 1 .. at, SameIn(Lookup, r, rows'[i].record), Near(r, rows'[i].record)
               PROVE  Cardinality(Hiding(rows', r, i, at)) >= LookBack
  BY DEF Explained
<1>3. Hiding(rows', r, i, at) = Hiding(rows, r, i, at)
  BY <1>1 DEF Hiding
<1>4. SameIn(Lookup, r, rows[i].record) /\ Near(r, rows[i].record)
  BY <1>1, <1>2
<1>5. QED
  BY <1>3, <1>4 DEF Explained

\* A query that finds no near snapshot leaves all it saw explained.
LEMMA QueryExplains ==
  ASSUME SqliteTypeOK, NEW r \in Records, ~HasNearDuplicate(r)
  PROVE  Explained(rows, r, Len(rows))
<1> DEFINE n == Len(rows)
<1>1. n \in Nat /\ DOMAIN rows = 1 .. n
  BY DEF SqliteTypeOK
<1>2. SUFFICES ASSUME NEW i \in 1 .. n, SameIn(Lookup, r, rows[i].record), Near(r, rows[i].record)
               PROVE  Cardinality(Hiding(rows, r, i, n)) >= LookBack
  BY DEF Explained
<1>3. i \in Found(r)
  BY <1>1, <1>2 DEF Found
<1>4. ~(Cardinality(Before(i, Found(r))) < LookBack)
  BY <1>2, <1>3 DEF HasNearDuplicate, Latest
<1>5. ASSUME NEW k \in DOMAIN rows PROVE rows[k].record.checkedAt \in Int
  <2>1. rows[k].record \in Records
    BY <1>5, RowType
  <2>2. PICK s \in Records : s = rows[k].record
    BY <2>1
  <2>3. s.checkedAt \in Int
    BY SqliteAssumption
  <2>4. QED
    BY <2>2, <2>3
<1>6. Before(i, Found(r)) \subseteq Hiding(rows, r, i, n)
  BY <1>1, <1>5 DEF Before, Found, Hiding
<1>7. IsFiniteSet(Hiding(rows, r, i, n))
  <2>1. IsFiniteSet(1 .. n)
    BY <1>1, FS_Interval
  <2>2. Hiding(rows, r, i, n) \subseteq 1 .. n
    BY DEF Hiding
  <2>3. QED
    BY <2>1, <2>2, FS_Subset
<1>8. /\ Cardinality(Before(i, Found(r))) <= Cardinality(Hiding(rows, r, i, n))
      /\ Cardinality(Before(i, Found(r))) \in Nat /\ Cardinality(Hiding(rows, r, i, n)) \in Nat
  BY <1>6, <1>7, FS_Subset, FS_CardinalityType
<1>9. QED
  BY <1>4, <1>8, SqliteAssumption

-----------------------------------------------------------------------------
\* A checked record was checked before this step, or in it.
LEMMA CheckedInAStep ==
  ASSUME SqliteTypeOK, [SqliteNext]_sqliteVars, NEW q \in Processes, checked'[q]
  PROVE  /\ todo'[q] = todo[q] /\ todo[q] # <<>>
         /\ \/ checked[q] /\ seen'[q] = seen[q]
            \/ /\ ~Duplicate(Head(todo[q]))
               /\ seen'[q] = Len(rows) /\ rows' = rows
<1>0. /\ \A p \in Processes : checked[p] => todo[p] # <<>>
      /\ DOMAIN todo = Processes /\ DOMAIN checked = Processes /\ DOMAIN seen = Processes
  BY DEF SqliteTypeOK
<1> DEFINE Goal == /\ todo'[q] = todo[q] /\ todo[q] # <<>>
                   /\ \/ checked[q] /\ seen'[q] = seen[q]
                      \/ /\ ~Duplicate(Head(todo[q]))
                         /\ seen'[q] = Len(rows) /\ rows' = rows
<1>1. ASSUME NEW p \in Processes, Call(p) PROVE Goal
  BY <1>0, <1>1 DEF Call, Returned
<1>2. ASSUME NEW p \in Processes, GivesUp(p) PROVE Goal
  BY <1>0, <1>2 DEF GivesUp
<1>3. ASSUME NEW p \in Processes, Passes(p) PROVE Goal
  BY <1>0, <1>3 DEF Passes
<1>4. ASSUME NEW p \in Processes, Refuse(p) \/ Busy(p) \/ Dies(p) PROVE Goal
  BY <1>2, <1>4 DEF Refuse, Busy, Dies
<1>5. ASSUME NEW p \in Processes, InsertRow(p) PROVE Goal
  BY <1>3, <1>5 DEF InsertRow
<1>6. ASSUME NEW p \in Processes, Select(p) PROVE Goal
  <2>1. CASE Duplicate(Head(todo[p]))
    BY <1>3, <1>6, <2>1 DEF Select
  <2>2. CASE ~Duplicate(Head(todo[p]))
    BY <1>0, <1>6, <2>2 DEF Select
  <2>3. QED
    BY <2>1, <2>2
<1>7. ASSUME NEW p \in Processes, Return(p) \/ Close(p) PROVE Goal
  BY <1>0, <1>7 DEF Return, Close
<1>8. CASE UNCHANGED sqliteVars
  BY <1>0, <1>8 DEF sqliteVars
<1>9. QED
  BY <1>1, <1>4, <1>5, <1>6, <1>7, <1>8 DEF SqliteNext

\* What a duplicate query found stays explained until its insert.
LEMMA CheckedIsKnownStep ==
  ASSUME SqliteTypeOK, CheckedIsKnown, [SqliteNext]_sqliteVars
  PROVE  CheckedIsKnown'
<1>1. SUFFICES ASSUME NEW q \in Processes, checked'[q]
               PROVE  /\ seen'[q] <= Len(rows')
                      /\ IsSnapshot(Head(todo'[q])) => Explained(rows', Head(todo'[q]), seen'[q])
  BY DEF CheckedIsKnown
<1> DEFINE r == Head(todo[q])
<1>2. /\ todo'[q] = todo[q] /\ todo[q] # <<>>
      /\ \/ checked[q] /\ seen'[q] = seen[q]
         \/ /\ ~Duplicate(r) /\ seen'[q] = Len(rows) /\ rows' = rows
  BY <1>1, CheckedInAStep
<1>3. /\ Len(rows) \in Nat /\ Len(rows') \in Nat /\ Len(rows) <= Len(rows') /\ seen[q] \in Nat
      /\ r \in Records /\ Head(todo'[q]) = r
  BY <1>2, RowsStay DEF SqliteTypeOK
<1> HIDE DEF r
<1>4. CASE checked[q] /\ seen'[q] = seen[q]
  <2>1. seen[q] <= Len(rows)
    BY <1>4 DEF CheckedIsKnown, r
  <2>2. IsSnapshot(r) => Explained(rows, r, seen[q])
    BY <1>4 DEF CheckedIsKnown, r
  <2>3. IsSnapshot(r) => Explained(rows', r, seen[q])
    BY <1>3, <2>1, <2>2, ExplainedStays
  <2>4. seen[q] <= Len(rows')
    BY <1>3, <2>1
  <2>5. QED
    BY <1>3, <1>4, <2>1, <2>3, <2>4
<1>5. CASE ~Duplicate(r) /\ seen'[q] = Len(rows) /\ rows' = rows
  <2>1. IsSnapshot(r) => ~HasNearDuplicate(r)
    BY <1>5 DEF Duplicate, IsSnapshot
  <2>2. IsSnapshot(r) => Explained(rows, r, Len(rows))
    BY <1>3, <2>1, QueryExplains
  <2>3. QED
    BY <1>3, <1>5, <2>2
<1>6. QED
  BY <1>2, <1>4, <1>5

\* Every row stays explained by what its query could see.
LEMMA RowsAreKnownStep ==
  ASSUME SqliteTypeOK, CheckedIsKnown, RowsAreKnown, [SqliteNext]_sqliteVars
  PROVE  RowsAreKnown'
<1>1. SUFFICES ASSUME NEW j \in DOMAIN rows'
               PROVE  /\ rows'[j].seen < j
                      /\ IsSnapshot(rows'[j].record)
                           => Explained(rows', rows'[j].record, rows'[j].seen)
  BY DEF RowsAreKnown
<1>2. CASE j \in DOMAIN rows
  <2>1. rows'[j] = rows[j] /\ j \in 1 .. Len(rows) /\ Len(rows) \in Nat
    BY <1>2, RowsStay
  <2>2. rows[j].seen \in Nat
    BY <1>2, RowType
  <2>3. rows[j].seen < j
    BY <1>2 DEF RowsAreKnown
  <2>4. rows[j].seen <= Len(rows)
    BY <2>1, <2>2, <2>3
  <2>5. IsSnapshot(rows[j].record) => Explained(rows, rows[j].record, rows[j].seen)
    BY <1>2 DEF RowsAreKnown
  <2>6. IsSnapshot(rows[j].record) => Explained(rows', rows[j].record, rows[j].seen)
    BY <2>2, <2>4, <2>5, ExplainedStays
  <2>7. QED
    BY <2>1, <2>3, <2>6
<1>3. CASE j \notin DOMAIN rows
  <2>1. PICK p \in Processes : Appends(p)
    BY <1>1, <1>3, RowsOfAStep DEF sqliteVars
  <2>2. /\ DOMAIN rows = 1 .. Len(rows) /\ DOMAIN rows' = 1 .. Len(rows) + 1 /\ Len(rows) \in Nat
        /\ rows'[Len(rows) + 1] = [record |-> Head(todo[p]), seen |-> seen[p]]
    BY <2>1, OneRowMore
  <2>3. j = Len(rows) + 1
    BY <1>3, <2>2
  <2>4. rows'[j].record = Head(todo[p]) /\ rows'[j].seen = seen[p]
    BY <2>2, <2>3
  <2>5. checked[p] /\ seen[p] \in Nat
    BY <2>1 DEF Appends, SqliteTypeOK
  <2>6. seen[p] <= Len(rows)
    BY <2>5 DEF CheckedIsKnown
  <2>7. IsSnapshot(Head(todo[p])) => Explained(rows, Head(todo[p]), seen[p])
    BY <2>5 DEF CheckedIsKnown
  <2>8. IsSnapshot(Head(todo[p])) => Explained(rows', Head(todo[p]), seen[p])
    BY <2>5, <2>6, <2>7, ExplainedStays
  <2>9. seen[p] < j
    BY <2>2, <2>3, <2>5, <2>6
  <2>10. QED
    BY <2>4, <2>6, <2>8, <2>9
<1>4. QED
  BY <1>2, <1>3

\* The inductive invariant behind the theorem that follows.
LEMMA SqliteInvariant == SqliteSpec => []SqliteIInv
<1>1. SqliteInit => CheckedIsKnown /\ RowsAreKnown
  BY DEF SqliteInit, CheckedIsKnown, RowsAreKnown
<1>2. /\ SqliteTypeOK /\ CheckedIsKnown /\ RowsAreKnown /\ [SqliteNext]_sqliteVars
      => CheckedIsKnown' /\ RowsAreKnown'
  BY CheckedIsKnownStep, RowsAreKnownStep
<1>3. QED
  BY <1>1, <1>2, SqliteTypes, PTL DEF SqliteSpec, SqliteIInv

\* Theorem: two near snapshots of one content are both stored only if their
\* inserts crossed, or if LookBack others as late hid the first from the query.
THEOREM SqliteNearExplained == SqliteSpec => []NearSnapshotsAreExplained
<1>1. ASSUME SqliteIInv PROVE NearSnapshotsAreExplained
  <2>1. SUFFICES ASSUME NEW i \in DOMAIN rows, NEW j \in DOMAIN rows,
                        i < j, rows[j].record.table = "market_snapshots",
                        SameIn(Lookup, rows[j].record, rows[i].record),
                        Near(rows[j].record, rows[i].record), ~(i > rows[j].seen)
                 PROVE  Cardinality({k \in 1 .. rows[j].seen :
                           /\ SameIn(Lookup, rows[j].record, rows[k].record) /\ k # i
                           /\ rows[k].record.checkedAt >= rows[i].record.checkedAt}) >= LookBack
    BY DEF NearSnapshotsAreExplained
  <2>2. Explained(rows, rows[j].record, rows[j].seen)
    BY <1>1, <2>1 DEF SqliteIInv, RowsAreKnown, IsSnapshot
  <2>3. i \in Nat /\ i \in 1 .. Len(rows) /\ rows[j].seen \in Nat
    BY <1>1, RowType DEF SqliteIInv
  <2>4. i \in 1 .. rows[j].seen
    BY <2>1, <2>3
  <2>5. Cardinality(Hiding(rows, rows[j].record, i, rows[j].seen)) >= LookBack
    BY <2>1, <2>2, <2>4 DEF Explained
  <2>6. QED
    BY <2>5 DEF Hiding
<1>2. QED
  BY <1>1, SqliteInvariant, PTL

-----------------------------------------------------------------------------
(* Races.  While a row is inserted, each other process has at most one      *)
(* record whose query is done, and after that record the process asks       *)
(* again: the rows that overlook a row and the records that still may are   *)
(* fewer than the processes.                                                *)
Overlooking(i) == {j \in DOMAIN rows : i < j /\ rows[j].seen < i}

Pending(i) == {q \in Processes : checked[q] /\ seen[q] < i}

RacesAreBounded ==
  \A i \in DOMAIN rows :
    Cardinality(Overlooking(i)) + Cardinality(Pending(i)) < Cardinality(Processes)

\* The sets counted are finite.
LEMMA RacesAreFinite ==
  ASSUME SqliteTypeOK, IsFiniteSet(Processes), NEW i
  PROVE  /\ IsFiniteSet(Overlooking(i)) /\ Cardinality(Overlooking(i)) \in Nat
         /\ IsFiniteSet(Pending(i)) /\ Cardinality(Pending(i)) \in Nat
<1>1. Len(rows) \in Nat /\ DOMAIN rows = 1 .. Len(rows)
  BY DEF SqliteTypeOK
<1>2. IsFiniteSet(1 .. Len(rows))
  BY <1>1, FS_Interval
<1>3. Overlooking(i) \in SUBSET (1 .. Len(rows)) /\ Pending(i) \in SUBSET Processes
  BY <1>1 DEF Overlooking, Pending
<1>4. IsFiniteSet(Overlooking(i)) /\ IsFiniteSet(Pending(i))
  BY <1>2, <1>3, FS_Subset
<1>5. QED
  BY <1>4, FS_CardinalityType

\* A step that inserts nothing: no record overlooks a row that was not about to.
LEMMA RacesWithoutInsert ==
  ASSUME SqliteTypeOK, IsFiniteSet(Processes), RacesAreBounded, [SqliteNext]_sqliteVars, rows' = rows
  PROVE  RacesAreBounded'
<1>1. SUFFICES ASSUME NEW i \in DOMAIN rows
               PROVE  Cardinality(Overlooking(i)') + Cardinality(Pending(i)') < Cardinality(Processes)
  BY DEF RacesAreBounded
<1>2. Overlooking(i)' = Overlooking(i)
  BY DEF Overlooking
<1>3. Pending(i)' \in SUBSET Pending(i)
  <2>1. SUFFICES ASSUME NEW q \in Processes, checked'[q], seen'[q] < i
                 PROVE  checked[q] /\ seen[q] < i
    BY DEF Pending
  <2>2. (checked[q] /\ seen'[q] = seen[q]) \/ seen'[q] = Len(rows)
    BY <2>1, CheckedInAStep
  <2>3. i <= Len(rows) /\ i \in Nat /\ Len(rows) \in Nat
    BY RowType
  <2>4. QED
    BY <2>1, <2>2, <2>3
<1>4. IsFiniteSet(Pending(i)) /\ Cardinality(Pending(i)) \in Nat /\ Cardinality(Overlooking(i)) \in Nat
  BY RacesAreFinite
<1>5. Cardinality(Pending(i)') <= Cardinality(Pending(i)) /\ Cardinality(Pending(i)') \in Nat
  BY <1>3, <1>4, FS_Subset, FS_CardinalityType
<1>6. Cardinality(Overlooking(i)) + Cardinality(Pending(i)) < Cardinality(Processes)
  BY DEF RacesAreBounded
<1>7. Cardinality(Processes) \in Nat
  BY FS_CardinalityType
<1>8. QED
  BY <1>2, <1>4, <1>5, <1>6, <1>7

\* The processes after an insert: the one that inserted has no record whose
\* query is done, and the others are as they were.
LEMMA InsertOfOne ==
  ASSUME SqliteTypeOK, SqliteNext, rows' # rows
  PROVE  \E p \in Processes : /\ Appends(p)
                              /\ checked' = [checked EXCEPT ![p] = FALSE]
                              /\ seen' = [seen EXCEPT ![p] = 0]
<1>1. PICK p \in Processes : \/ Call(p) \/ Refuse(p) \/ Select(p) \/ InsertRow(p)
                             \/ Busy(p) \/ Return(p) \/ Close(p) \/ Dies(p)
  BY DEF SqliteNext
<1>2. InsertRow(p)
  BY <1>1 DEF Call, Refuse, Select, Busy, Return, Close, Dies
<1>3. QED
  BY <1>2 DEF InsertRow, Passes, Appends

\* An insert: the new row overlooks the rows its query did not see, and its
\* process is one less that may.
LEMMA RacesAtInsert ==
  ASSUME SqliteTypeOK, IsFiniteSet(Processes), RacesAreBounded, NEW p \in Processes, Appends(p),
         checked' = [checked EXCEPT ![p] = FALSE], seen' = [seen EXCEPT ![p] = 0]
  PROVE  RacesAreBounded'
<1>1. PICK n \in Nat : n = Len(rows)
  BY DEF SqliteTypeOK
<1>2. /\ DOMAIN rows = 1 .. n /\ DOMAIN rows' = 1 .. n + 1
      /\ \A i \in 1 .. n : rows'[i] = rows[i]
      /\ rows'[n + 1].seen = seen[p]
  <2>1. /\ DOMAIN rows = 1 .. Len(rows) /\ DOMAIN rows' = 1 .. Len(rows) + 1
        /\ \A i \in DOMAIN rows : rows'[i] = rows[i]
        /\ rows'[Len(rows) + 1] = [record |-> Head(todo[p]), seen |-> seen[p]]
    BY OneRowMore
  <2>2. rows'[n + 1] = [record |-> Head(todo[p]), seen |-> seen[p]]
    BY <1>1, <2>1
  <2>3. rows'[n + 1].seen = seen[p]
    BY <2>2
  <2>4. QED
    BY <1>1, <2>1, <2>3
<1>3. /\ checked \in [Processes -> BOOLEAN] /\ seen \in [Processes -> Nat] /\ checked[p]
  BY DEF SqliteTypeOK, Appends
<1>4. ASSUME NEW i \in 1 .. n + 1 PROVE Pending(i)' = Pending(i) \ {p}
  BY <1>3 DEF Pending
<1>5. ASSUME NEW i \in 1 .. n + 1
      PROVE  /\ IsFiniteSet(Overlooking(i)) /\ Cardinality(Overlooking(i)) \in Nat
             /\ IsFiniteSet(Pending(i)) /\ Cardinality(Pending(i)) \in Nat
  BY RacesAreFinite
<1>6. Cardinality(Processes) \in Nat
  BY FS_CardinalityType
<1>7. ASSUME NEW i \in 1 .. n
      PROVE  Cardinality(Overlooking(i)') + Cardinality(Pending(i)') < Cardinality(Processes)
  <2>1. Cardinality(Overlooking(i)) + Cardinality(Pending(i)) < Cardinality(Processes)
    BY <1>2, <1>7 DEF RacesAreBounded
  <2>2. i \in 1 .. n + 1 /\ i < n + 1 /\ n + 1 \notin Overlooking(i)
    BY <1>2 DEF Overlooking
  <2>3. CASE seen[p] < i
    <3>1. Overlooking(i)' = Overlooking(i) \cup {n + 1}
      BY <1>2, <2>2, <2>3 DEF Overlooking
    <3>2. Cardinality(Overlooking(i)') = Cardinality(Overlooking(i)) + 1
      BY <1>5, <2>2, <3>1, FS_AddElement
    <3>3. p \in Pending(i)
      BY <1>3, <2>3 DEF Pending
    <3>4. Cardinality(Pending(i)') = Cardinality(Pending(i)) - 1
      BY <1>4, <1>5, <2>2, <3>3, FS_RemoveElement
    <3>5. QED
      BY <1>5, <1>6, <2>1, <2>2, <3>2, <3>4
  <2>4. CASE ~(seen[p] < i)
    <3>1. Overlooking(i)' = Overlooking(i)
      BY <1>2, <2>2, <2>4 DEF Overlooking
    <3>2. p \notin Pending(i)
      BY <2>4 DEF Pending
    <3>3. Pending(i)' = Pending(i)
      BY <1>4, <2>2, <3>2
    <3>4. QED
      BY <2>1, <3>1, <3>3
  <2>5. QED
    BY <2>3, <2>4
<1>8. Cardinality(Overlooking(n + 1)') + Cardinality(Pending(n + 1)') < Cardinality(Processes)
  <2>1. Overlooking(n + 1)' = {}
    BY <1>2 DEF Overlooking
  <2>2. Cardinality(Overlooking(n + 1)') = 0
    BY <2>1, FS_EmptySet
  <2>3. Pending(n + 1)' \in SUBSET (Processes \ {p})
    BY <1>4 DEF Pending
  <2>4. IsFiniteSet(Processes \ {p}) /\ Cardinality(Processes \ {p}) = Cardinality(Processes) - 1
    BY FS_RemoveElement
  <2>5. Cardinality(Pending(n + 1)') <= Cardinality(Processes) - 1 /\ Cardinality(Pending(n + 1)') \in Nat
    BY <2>3, <2>4, FS_Subset, FS_CardinalityType
  <2>6. QED
    BY <1>6, <2>2, <2>5
<1>9. \A i \in 1 .. n + 1 : i \in 1 .. n \/ i = n + 1
  OBVIOUS
<1>10. QED
  BY <1>2, <1>7, <1>8, <1>9 DEF RacesAreBounded

\* Theorem: a row is overlooked by at most one insert of each other process,
\* however many records an insert has (for any finite number of processes).
THEOREM SqliteRacesFew ==
  ASSUME IsFiniteSet(Processes)
  PROVE  SqliteSpec => []RacesAreFew
<1>1. SqliteInit => RacesAreBounded
  BY DEF SqliteInit, RacesAreBounded
<1>2. SqliteTypeOK /\ RacesAreBounded /\ [SqliteNext]_sqliteVars => RacesAreBounded'
  <2>1. SUFFICES ASSUME SqliteTypeOK, RacesAreBounded, [SqliteNext]_sqliteVars PROVE RacesAreBounded'
    OBVIOUS
  <2>2. CASE rows' = rows
    BY <2>1, <2>2, RacesWithoutInsert
  <2>3. CASE rows' # rows
    <3>1. SqliteNext
      BY <2>1, <2>3 DEF sqliteVars
    <3>2. PICK p \in Processes : /\ Appends(p)
                                /\ checked' = [checked EXCEPT ![p] = FALSE]
                                /\ seen' = [seen EXCEPT ![p] = 0]
      BY <2>1, <2>3, <3>1, InsertOfOne
    <3>3. QED
      BY <2>1, <3>2, RacesAtInsert
  <2>4. QED
    BY <2>2, <2>3
<1>3. SqliteTypeOK /\ RacesAreBounded => RacesAreFew
  <2>1. SUFFICES ASSUME SqliteTypeOK, RacesAreBounded, NEW i \in DOMAIN rows
                 PROVE  Cardinality({j \in DOMAIN rows : i < j /\ rows[j].seen < i})
                          < Cardinality(Processes)
    BY DEF RacesAreFew
  <2>2. Cardinality(Overlooking(i)) + Cardinality(Pending(i)) < Cardinality(Processes)
    BY <2>1 DEF RacesAreBounded
  <2>3. Cardinality(Overlooking(i)) \in Nat /\ Cardinality(Pending(i)) \in Nat
    BY <2>1, RacesAreFinite
  <2>4. Cardinality(Processes) \in Nat
    BY FS_CardinalityType
  <2>5. Cardinality(Overlooking(i)) < Cardinality(Processes)
    BY <2>2, <2>3, <2>4
  <2>6. QED
    BY <2>5 DEF Overlooking
<1>4. QED
  BY <1>1, <1>2, <1>3, SqliteTypes, PTL DEF SqliteSpec

-----------------------------------------------------------------------------
\* The refinement: a step is a Put, an Answer or a stutter of ResearchStore,
\* because what an insert has come past is covered when it comes past it.
Stored(db, r) == \E i \in DOMAIN db : LikeStored(r, db[i].record)

DoneIsStored == \A p \in Processes : \A r \in done[p] : Stored(rows, r)

\* Who refuses a record over a unique index stands for it.
LEMMA LikeWhenConflicts ==
  ASSUME NEW r \in Records, NEW s, Conflicts(r, s)
  PROVE  LikeStored(r, s)
<1>1. UniqueColumns[r.table] # {} /\ r.table = s.table /\ \A c \in UniqueColumns[r.table] : r[c] = s[c]
  BY DEF Conflicts, SameIn
<1>2. r.table \in {"market_snapshots", "underlying_candles", "fair_value_signals",
                   "replay_results", "short_window_signals", "short_window_replay_results",
                   "strategy_lab_results", "capture_runs"}
  BY SqliteAssumption
<1>3. r.table # "market_snapshots" /\ r.table # "capture_runs"
  BY <1>1 DEF UniqueColumns
<1>4. r.table \in DOMAIN Lookup
  BY <1>2, <1>3 DEF Lookup
<1>5. Lookup[r.table] = UniqueColumns[r.table]
  <2>1. CASE r.table = "underlying_candles"
    <3>1. Lookup["underlying_candles"] = CandleLookup /\ UniqueColumns["underlying_candles"] = CandleLookup
      BY DEF Lookup, UniqueColumns, CandleLookup
    <3>2. QED
      BY <2>1, <3>1
  <2>2. CASE r.table = "fair_value_signals"
    <3>1. Lookup["fair_value_signals"] = SignalLookup /\ UniqueColumns["fair_value_signals"] = SignalLookup
      BY DEF Lookup, UniqueColumns, SignalLookup
    <3>2. QED
      BY <2>2, <3>1
  <2>3. CASE r.table = "replay_results"
    <3>1. Lookup["replay_results"] = ReplayLookup /\ UniqueColumns["replay_results"] = ReplayLookup
      BY DEF Lookup, UniqueColumns, ReplayLookup
    <3>2. QED
      BY <2>3, <3>1
  <2>4. CASE r.table = "short_window_signals"
    <3>1. Lookup["short_window_signals"] = ShortSignalLookup /\ UniqueColumns["short_window_signals"] = ShortSignalLookup
      BY DEF Lookup, UniqueColumns, ShortSignalLookup
    <3>2. QED
      BY <2>4, <3>1
  <2>5. CASE r.table = "short_window_replay_results"
    <3>1. Lookup["short_window_replay_results"] = ShortReplayLookup /\ UniqueColumns["short_window_replay_results"] = ShortReplayLookup
      BY DEF Lookup, UniqueColumns, ShortReplayLookup
    <3>2. QED
      BY <2>5, <3>1
  <2>6. CASE r.table = "strategy_lab_results"
    <3>1. Lookup["strategy_lab_results"] = LabLookup /\ UniqueColumns["strategy_lab_results"] = LabLookup
      BY DEF Lookup, UniqueColumns, LabLookup
    <3>2. QED
      BY <2>6, <3>1
  <2>7. QED
    BY <1>2, <1>3, <2>1, <2>2, <2>3, <2>4, <2>5, <2>6
<1>6. QED
  BY <1>1, <1>3, <1>4, <1>5 DEF LikeStored, SameIn

\* A duplicate that the query finds is like the record.
LEMMA LikeWhenDuplicate ==
  ASSUME NEW r \in Records, Duplicate(r)
  PROVE  Stored(rows, r)
<1>1. CASE r.table = "market_snapshots"
  <2>1. PICK i \in Latest(Found(r), LookBack) : Near(r, rows[i].record)
    BY <1>1 DEF Duplicate, HasNearDuplicate
  <2>2. i \in DOMAIN rows /\ SameIn(Lookup, r, rows[i].record)
    BY <2>1 DEF Latest, Found
  <2>3. QED
    BY <1>1, <2>1, <2>2 DEF Stored, LikeStored, Lookup
<1>2. CASE r.table # "market_snapshots"
  <2>1. r.table \in DOMAIN Lookup /\ Found(r) # {}
    BY <1>2 DEF Duplicate
  <2>2. PICK i \in DOMAIN rows : SameIn(Lookup, r, rows[i].record)
    BY <2>1 DEF Found
  <2>3. QED
    BY <1>2, <2>1, <2>2 DEF Stored, LikeStored
<1>3. QED
  BY <1>1, <1>2

\* What is covered stays covered.
LEMMA StoredStays ==
  ASSUME SqliteTypeOK, [SqliteNext]_sqliteVars, NEW r, Stored(rows, r)
  PROVE  Stored(rows', r)
<1>1. PICK i \in DOMAIN rows : LikeStored(r, rows[i].record)
  BY DEF Stored
<1>2. i \in DOMAIN rows' /\ rows'[i] = rows[i]
  BY RowsStay
<1>3. QED
  BY <1>1, <1>2 DEF Stored

\* The record an INSERT was for is covered by it, ignored or not.
LEMMA InsertStores ==
  ASSUME SqliteTypeOK, NEW p \in Processes, InsertRow(p)
  PROVE  Stored(rows', Head(todo[p]))
<1>1. checked[p] /\ todo[p] # <<>> /\ Head(todo[p]) \in Records
  BY DEF InsertRow, SqliteTypeOK
<1>2. CASE \E i \in DOMAIN rows : Conflicts(Head(todo[p]), rows[i].record)
  <2>1. rows' = rows
    BY <1>2 DEF InsertRow
  <2>2. PICK i \in DOMAIN rows : Conflicts(Head(todo[p]), rows[i].record)
    BY <1>2
  <2>3. LikeStored(Head(todo[p]), rows[i].record)
    BY <1>1, <2>2, LikeWhenConflicts
  <2>4. QED
    BY <2>1, <2>3 DEF Stored
<1>3. CASE \A i \in DOMAIN rows : ~Conflicts(Head(todo[p]), rows[i].record)
  <2>1. Appends(p)
    BY <1>1, <1>3 DEF InsertRow, Appends
  <2>2. /\ rows'[Len(rows) + 1] = [record |-> Head(todo[p]), seen |-> seen[p]]
        /\ DOMAIN rows' = 1 .. Len(rows) + 1 /\ Len(rows) \in Nat
    BY <2>1, OneRowMore
  <2>3. rows'[Len(rows) + 1].record = Head(todo[p]) /\ Len(rows) + 1 \in DOMAIN rows'
    BY <2>2
  <2>4. QED
    BY <2>3 DEF Stored, LikeStored
<1>4. QED
  BY <1>2, <1>3

\* What was answered for stays stored.
LEMMA DoneIsStoredStep ==
  ASSUME SqliteTypeOK, DoneIsStored, [SqliteNext]_sqliteVars
  PROVE  DoneIsStored'
<1>1. SUFFICES ASSUME NEW q \in Processes, NEW r \in done'[q] PROVE Stored(rows', r)
  BY DEF DoneIsStored
<1>2. r \in done[q] => Stored(rows', r)
  BY StoredStays DEF DoneIsStored
<1>3. DOMAIN done = Processes /\ \A p \in Processes : todo[p] # <<>> => Head(todo[p]) \in Records
  BY DEF SqliteTypeOK
<1>4. ASSUME NEW p \in Processes, Call(p) \/ Close(p) \/ Return(p) PROVE Stored(rows', r)
  BY <1>1, <1>2, <1>3, <1>4 DEF Call, Close, Return
<1>5. ASSUME NEW p \in Processes, Refuse(p) \/ Busy(p) \/ Dies(p) PROVE Stored(rows', r)
  BY <1>1, <1>2, <1>3, <1>5 DEF Refuse, Busy, Dies, GivesUp
<1>6. ASSUME NEW p \in Processes, Passes(p), Stored(rows', Head(todo[p])) PROVE Stored(rows', r)
  BY <1>1, <1>2, <1>3, <1>6 DEF Passes
<1>7. ASSUME NEW p \in Processes, InsertRow(p) PROVE Stored(rows', r)
  <2>1. Passes(p)
    BY <1>7 DEF InsertRow
  <2>2. QED
    BY <1>6, <1>7, <2>1, InsertStores
<1>8. ASSUME NEW p \in Processes, Select(p) PROVE Stored(rows', r)
  <2>1. CASE Duplicate(Head(todo[p]))
    <3>1. Passes(p) /\ rows' = rows /\ Head(todo[p]) \in Records
      BY <1>3, <1>8, <2>1 DEF Select
    <3>2. Stored(rows', Head(todo[p]))
      BY <2>1, <3>1, LikeWhenDuplicate
    <3>3. QED
      BY <1>6, <3>1, <3>2
  <2>2. CASE ~Duplicate(Head(todo[p]))
    BY <1>1, <1>2, <1>8, <2>2 DEF Select
  <2>3. QED
    BY <2>1, <2>2
<1>9. CASE UNCHANGED sqliteVars
  BY <1>1, <1>2, <1>9 DEF sqliteVars
<1>10. QED
  BY <1>4, <1>5, <1>7, <1>8, <1>9 DEF SqliteNext

\* One concrete step is one abstract step, or none.
LEMMA StoreStep ==
  ASSUME SqliteTypeOK, DoneIsStored, [SqliteNext]_sqliteVars
  PROVE  [Contract!StoreNext]_(Contract!storeVars)
<1> DEFINE S == {rows[i].record : i \in DOMAIN rows}
<1>1. S \subseteq S'
  BY RowsStay
<1>2. ASSUME answered' = answered PROVE Contract!StoreNext
  BY <1>1, <1>2 DEF Contract!StoreNext, Contract!Put
<1>3. ASSUME NEW p \in Processes, Return(p) PROVE Contract!StoreNext
  <2>1. answered' = answered \cup done[p] /\ rows' = rows
    BY <1>3 DEF Return
  <2>2. \A r \in answered' \ answered : Stored(rows, r)
    BY <2>1 DEF DoneIsStored
  <2>3. \A r \in answered' \ answered : \E s \in S : LikeStored(r, s)
    BY <2>2 DEF Stored
  <2>4. QED
    BY <2>1, <2>3 DEF Contract!StoreNext, Contract!Answer, Contract!Covered
<1>4. ASSUME NEW p \in Processes,
             \/ Call(p) \/ Refuse(p) \/ Select(p) \/ InsertRow(p) \/ Busy(p) \/ Close(p) \/ Dies(p)
      PROVE  answered' = answered
  BY <1>4 DEF Call, Refuse, Select, InsertRow, Busy, Close, Dies, GivesUp, Passes
<1>5. UNCHANGED sqliteVars => answered' = answered
  BY DEF sqliteVars
<1>6. QED
  BY <1>2, <1>3, <1>4, <1>5 DEF SqliteNext

\* Theorem: the SQLite store keeps the promise of ResearchStore: no row is
\* lost, and what an insert answered for is stored or has its like there, with
\* queries that cross inserts, refusals, SQLITE_BUSY and deaths in between.
THEOREM SqliteKeepsStorePromise == SqliteSpec => KeepsStorePromise
<1>1. SqliteInit => DoneIsStored /\ Contract!StoreInit
  BY DEF SqliteInit, DoneIsStored, Contract!StoreInit
<1>2. SqliteTypeOK /\ DoneIsStored /\ [SqliteNext]_sqliteVars => DoneIsStored'
  BY DoneIsStoredStep
<1>3. /\ SqliteTypeOK /\ DoneIsStored /\ [SqliteNext]_sqliteVars
      => [Contract!StoreNext]_(Contract!storeVars)
  BY StoreStep
<1>4. QED
  BY <1>1, <1>2, <1>3, SqliteTypes, PTL DEF SqliteSpec, KeepsStorePromise, Contract!StoreSpec

-----------------------------------------------------------------------------
\* Row k is the one that a latest-row query of the table returns.
IsLatest(k, t) ==
  /\ k \in DOMAIN rows /\ rows[k].record.table = t
  /\ \A i \in DOMAIN rows : rows[i].record.table = t =>
       \/ rows[i].record.checkedAt < rows[k].record.checkedAt
       \/ rows[i].record.checkedAt = rows[k].record.checkedAt /\ i <= k

NoRow(t) == \A i \in DOMAIN rows : rows[i].record.table # t

\* Tables with a latest-row query; those that have rows have a latest one.
Queried == {"replay_results", "market_snapshots"}

TablesHaveLatest == \A t \in Queried : NoRow(t) \/ \E k \in DOMAIN rows : IsLatest(k, t)

\* The query with its limit of one returns just that row.
LEMMA LatestIsOne ==
  ASSUME SqliteTypeOK, NEW t, NEW k, IsLatest(k, t)
  PROVE  LatestTime(t) = rows[k].record.checkedAt
<1> DEFINE ids == {i \in DOMAIN rows : rows[i].record.table = t}
<1>1. DOMAIN rows = 1 .. Len(rows) /\ Len(rows) \in Nat
  BY DEF SqliteTypeOK
<1>2. k \in ids /\ k \in Nat
  BY <1>1 DEF IsLatest
<1>3. ASSUME NEW i \in ids
      PROVE  Cardinality(Before(i, ids)) < 1 <=> Before(i, ids) = {}
  <2>1. Before(i, ids) \in SUBSET (1 .. Len(rows))
    BY <1>1 DEF Before
  <2>2. IsFiniteSet(Before(i, ids))
    <3>1. IsFiniteSet(1 .. Len(rows))
      BY <1>1, FS_Interval
    <3>2. QED
      BY <2>1, <3>1, FS_Subset
  <2>3. /\ Cardinality(Before(i, ids)) \in Nat
        /\ Cardinality(Before(i, ids)) = 0 <=> Before(i, ids) = {}
    BY <2>2, FS_CardinalityType, FS_EmptySet
  <2> HIDE DEF ids
  <2>4. QED
    BY <2>3
<1>4. \A i \in ids : i \in Nat /\ rows[i].record.checkedAt \in Nat
  BY <1>1, RowType, SqliteAssumption
<1>5. Before(k, ids) = {}
  BY <1>2, <1>4 DEF Before, IsLatest
<1>6. ASSUME NEW i \in ids, i # k PROVE k \in Before(i, ids)
  BY <1>2, <1>4, <1>6 DEF Before, IsLatest
<1>7. LatestRow(t) = {k}
  <2>1. LatestRow(t) = {i \in ids : Cardinality(Before(i, ids)) < 1}
    BY DEF LatestRow, Latest
  <2> HIDE DEF ids
  <2>2. QED
    BY <1>2, <1>3, <1>5, <1>6, <2>1
<1>8. QED
  <2>1. (CHOOSE i \in {k} : TRUE) = k /\ {k} # {}
    OBVIOUS
  <2>2. QED
    BY <1>7, <2>1, Zenon DEF LatestTime

\* The time of a table without rows.
LEMMA NoLatest == ASSUME NEW t, NoRow(t) PROVE LatestTime(t) = -1
<1>1. LatestRow(t) = {}
  BY DEF LatestRow, Latest, NoRow
<1>2. QED
  BY <1>1 DEF LatestTime

\* A step keeps the latest row or puts a later one in its place.
LEMMA LatestStep ==
  ASSUME SqliteTypeOK, [SqliteNext]_sqliteVars, NEW t
  PROVE  /\ \A k \in DOMAIN rows : IsLatest(k, t) =>
              \E m \in DOMAIN rows' : /\ IsLatest(m, t)'
                                      /\ rows'[m].record.checkedAt >= rows[k].record.checkedAt
         /\ NoRow(t) => NoRow(t)' \/ \E m \in DOMAIN rows' : IsLatest(m, t)'
<1>0. \A i \in DOMAIN rows : i \in Nat /\ rows[i].record.checkedAt \in Nat
  BY RowType, SqliteAssumption
<1>1. CASE rows' = rows
  BY <1>0, <1>1 DEF IsLatest, NoRow
<1>2. ASSUME NEW p \in Processes, Appends(p)
      PROVE  /\ \A k \in DOMAIN rows : IsLatest(k, t) =>
                  \E m \in DOMAIN rows' : /\ IsLatest(m, t)'
                                          /\ rows'[m].record.checkedAt >= rows[k].record.checkedAt
             /\ NoRow(t) => NoRow(t)' \/ \E m \in DOMAIN rows' : IsLatest(m, t)'
  <2>0. /\ DOMAIN rows = 1 .. Len(rows) /\ Len(rows) \in Nat
        /\ DOMAIN rows' = 1 .. Len(rows) + 1
        /\ \A i \in DOMAIN rows : rows'[i] = rows[i]
        /\ rows'[Len(rows) + 1].record = Head(todo[p]) /\ Head(todo[p]) \in Records
    <3>1. /\ DOMAIN rows = 1 .. Len(rows) /\ Len(rows) \in Nat
          /\ DOMAIN rows' = 1 .. Len(rows) + 1
          /\ \A i \in DOMAIN rows : rows'[i] = rows[i]
      BY <1>2, OneRowMore
    <3>2. /\ rows'[Len(rows) + 1] = [record |-> Head(todo[p]), seen |-> seen[p]]
          /\ Head(todo[p]) \in Records
      BY <1>2, OneRowMore
    <3>3. QED
      BY <3>1, <3>2
  <2>1. PICK n \in Nat, new \in Records :
          /\ n = Len(rows) + 1
          /\ DOMAIN rows = 1 .. Len(rows) /\ Len(rows) \in Nat /\ DOMAIN rows' = 1 .. n
          /\ \A i \in DOMAIN rows : rows'[i] = rows[i]
          /\ rows'[n].record = new
    <3>1. Len(rows) + 1 \in Nat
      BY <2>0
    <3>2. QED
      BY <2>0, <3>1, Zenon
  <2>2. new.checkedAt \in Nat
    BY SqliteAssumption
  <2>3. \A i \in DOMAIN rows' : i \in DOMAIN rows \/ i = n
    BY <2>1
  <2>4. n \in DOMAIN rows' /\ n \in Nat /\ \A i \in DOMAIN rows : i < n /\ i \in DOMAIN rows'
    BY <2>1
  <2>5. ASSUME NEW k \in DOMAIN rows, IsLatest(k, t)
        PROVE  \E m \in DOMAIN rows' : /\ IsLatest(m, t)'
                                       /\ rows'[m].record.checkedAt >= rows[k].record.checkedAt
    <3>1. CASE new.table = t /\ new.checkedAt >= rows[k].record.checkedAt
      <4>1. IsLatest(n, t)'
        <5>1. n \in DOMAIN rows' /\ rows'[n].record.table = t
          BY <2>1, <2>4, <3>1
        <5>2. ASSUME NEW i \in DOMAIN rows, rows'[i].record.table = t
              PROVE  \/ rows'[i].record.checkedAt < rows'[n].record.checkedAt
                     \/ rows'[i].record.checkedAt = rows'[n].record.checkedAt /\ i <= n
          BY <1>0, <2>1, <2>2, <2>4, <2>5, <3>1, <5>2 DEF IsLatest
        <5>3. QED
          BY <2>1, <2>3, <2>4, <5>1, <5>2 DEF IsLatest
      <4>2. QED
        BY <2>1, <2>4, <3>1, <4>1
    <3>2. CASE ~(new.table = t /\ new.checkedAt >= rows[k].record.checkedAt)
      <4>1. IsLatest(k, t)'
        <5>1. k \in DOMAIN rows' /\ rows'[k] = rows[k] /\ rows[k].record.table = t
          BY <2>1, <2>4, <2>5 DEF IsLatest
        <5>2. rows'[n].record.table = t => rows'[n].record.checkedAt < rows[k].record.checkedAt
          BY <1>0, <2>1, <2>2, <3>2
        <5>3. ASSUME NEW i \in DOMAIN rows, rows'[i].record.table = t
              PROVE  \/ rows'[i].record.checkedAt < rows[k].record.checkedAt
                     \/ rows'[i].record.checkedAt = rows[k].record.checkedAt /\ i <= k
          BY <2>1, <2>5, <5>3 DEF IsLatest
        <5>4. QED
          BY <2>3, <5>1, <5>2, <5>3 DEF IsLatest
      <4>2. QED
        BY <1>0, <2>1, <2>4, <4>1
    <3>3. QED
      BY <3>1, <3>2
  <2>6. ASSUME NoRow(t) PROVE NoRow(t)' \/ \E m \in DOMAIN rows' : IsLatest(m, t)'
    <3>1. CASE new.table = t
      <4>1. IsLatest(n, t)'
        BY <2>1, <2>3, <2>4, <2>6, <3>1 DEF IsLatest, NoRow
      <4>2. QED
        BY <2>4, <4>1
    <3>2. CASE new.table # t
      BY <2>1, <2>3, <2>6, <3>2 DEF NoRow
    <3>3. QED
      BY <3>1, <3>2
  <2>7. QED
    BY <2>5, <2>6
<1>3. QED
  BY <1>1, <1>2, RowsOfAStep DEF sqliteVars

\* The lemmas about the latest row, of every state.
LatestIsKnown ==
  \A t \in Queried : /\ NoRow(t) => LatestTime(t) = -1
                     /\ \A k \in DOMAIN rows : IsLatest(k, t) =>
                          LatestTime(t) = rows[k].record.checkedAt /\ LatestTime(t) \in Nat

\* Theorem: LatestNeverGoesBack of every behaviour: rows that come late and
\* processes that cross never give a latest-row query an older answer.
THEOREM SqliteLatest == SqliteSpec => LatestNeverGoesBack
<1>1. SqliteInit => TablesHaveLatest
  BY DEF SqliteInit, TablesHaveLatest, NoRow
<1>2. SqliteTypeOK /\ TablesHaveLatest /\ [SqliteNext]_sqliteVars => TablesHaveLatest'
  BY LatestStep DEF TablesHaveLatest
<1>3. SqliteTypeOK => LatestIsKnown
  <2>1. SqliteTypeOK => \A k \in DOMAIN rows : rows[k].record.checkedAt \in Nat
    BY RowType, SqliteAssumption
  <2>2. QED
    BY <2>1, NoLatest, LatestIsOne DEF LatestIsKnown
<1>4. /\ SqliteTypeOK /\ TablesHaveLatest /\ LatestIsKnown /\ LatestIsKnown'
      /\ [SqliteNext]_sqliteVars
      => [\A t \in {"replay_results", "market_snapshots"} :
            LatestTime(t)' >= LatestTime(t)]_sqliteVars
  <2>1. ASSUME SqliteTypeOK, TablesHaveLatest, LatestIsKnown, LatestIsKnown', SqliteNext,
               NEW t \in Queried
        PROVE  LatestTime(t)' >= LatestTime(t)
    <3>1. CASE NoRow(t)
      <4>1. NoRow(t)' \/ \E m \in DOMAIN rows' : IsLatest(m, t)'
        BY <2>1, <3>1, LatestStep
      <4>2. LatestTime(t)' = -1 \/ LatestTime(t)' \in Nat
        BY <2>1, <4>1 DEF LatestIsKnown
      <4>3. LatestTime(t) = -1
        BY <2>1, <3>1 DEF LatestIsKnown
      <4>4. \A a, b : (a = -1 \/ a \in Nat) /\ b = -1 => a >= b
        OBVIOUS
      <4>5. QED
        BY <4>2, <4>3, <4>4, Zenon
    <3>2. ASSUME NEW k \in DOMAIN rows, IsLatest(k, t)
          PROVE  LatestTime(t)' >= LatestTime(t)
      <4>1. PICK m \in DOMAIN rows' : /\ IsLatest(m, t)'
                                      /\ rows'[m].record.checkedAt >= rows[k].record.checkedAt
        BY <2>1, <3>2, LatestStep
      <4>2. LatestTime(t)' = rows'[m].record.checkedAt
        BY <2>1, <4>1 DEF LatestIsKnown
      <4>3. LatestTime(t) = rows[k].record.checkedAt
        BY <2>1, <3>2 DEF LatestIsKnown
      <4>4. QED
        BY <4>1, <4>2, <4>3
    <3>3. QED
      BY <2>1, <3>1, <3>2 DEF TablesHaveLatest
  <2>2. QED
    BY <2>1, Zenon DEF Queried
<1>5. QED
  BY <1>1, <1>2, <1>3, <1>4, SqliteTypes, PTL DEF SqliteSpec, LatestNeverGoesBack
=============================================================================
