------------------------------- MODULE JsonlStore -------------------------------
(***************************************************************************)
(* JsonlResearchStore: one keyed table of the JSONL fallback of the        *)
(* research store, its file, and the processes that use it (the gateway    *)
(* and capture commands).  A process loads the file when it opens the      *)
(* store.  From then on it looks for duplicates in memory only, and a new  *)
(* record goes to memory first and is then appended to the file.           *)
(*                                                                         *)
(* An insert runs in one turn of its process, but the file is written      *)
(* record by record: another process may write in between, the disk may    *)
(* refuse an append or take only the beginning of a line, and the process  *)
(* may die.  A record stands for what its duplicate check compares.        *)
(***************************************************************************)
EXTENDS Naturals, Sequences, Functions, SequencesExt

CONSTANTS Processes, Records,
          Shared,     \* two processes may have the store open at once
          Faults,     \* which of "refused", "torn" and "death" may happen
          MaxBatch    \* bound: records of one insert call

ASSUME JsonlAssumption ==
  /\ Shared \in BOOLEAN /\ MaxBatch \in Nat
  /\ Faults \subseteq {"refused", "torn", "death"}

VARIABLES file,        \* the lines of the table's file
          terminated,  \* the file is empty or ends with a newline
          initialized, \* of each process
          table,       \* of each process: the table in memory
          batch,       \* of each process: records its insert has yet to come to
          inserted,    \* of each process: records its insert has inserted
          skipped,     \* of each process: records its insert has skipped
          reported,    \* history: what inserts that returned said of records
          whole        \* history: no append was refused or cut off

jsonlVars == <<file, terminated, initialized, table, batch, inserted, skipped, reported, whole>>

-----------------------------------------------------------------------------
\* A line: the complete records in its text, and whether JSON.parse accepts it.
Line(records, parses) == [records |-> records, parses |-> parses]
LineType == [records : Seq(Records), parses : BOOLEAN]

RecordsIn(lines) == UNION {Range(lines[i].records) : i \in DOMAIN lines}
Loadable == \A i \in DOMAIN file : file[i].parses

\* Text at the end of the file: a new line, or more of an unfinished one, which
\* then no longer parses.
Extended(records, parses) ==
  IF terminated THEN Append(file, Line(records, parses))
  ELSE LET n == Len(file) IN
       [file EXCEPT ![n] = Line(file[n].records \o records, FALSE)]

JsonlInit ==
  /\ file = <<>> /\ terminated = TRUE
  /\ initialized = [p \in Processes |-> FALSE]
  /\ table = [p \in Processes |-> {}]
  /\ batch = [p \in Processes |-> <<>>]
  /\ inserted = [p \in Processes |-> {}]
  /\ skipped = [p \in Processes |-> {}]
  /\ reported = [inserted |-> {}, skipped |-> {}]
  /\ whole = TRUE

-----------------------------------------------------------------------------
\* Mutant of Open: the table gets the lines and not what they parse to.
OpenKeepsLines(p) ==
  /\ ~initialized[p] /\ Loadable
  /\ Shared \/ \A q \in Processes : ~initialized[q]
  /\ initialized' = [initialized EXCEPT ![p] = TRUE]
  /\ table' = [table EXCEPT ![p] = Range(file)]
  /\ UNCHANGED <<file, terminated, batch, inserted, skipped, reported, whole>>

\* Mutant of Open: lines that do not parse are left out.
OpenSkipsBadLines(p) ==
  /\ ~initialized[p]
  /\ Shared \/ \A q \in Processes : ~initialized[q]
  /\ initialized' = [initialized EXCEPT ![p] = TRUE]
  /\ table' = [table EXCEPT ![p] = RecordsIn(SelectSeq(file, LAMBDA l : l.parses))]
  /\ UNCHANGED <<file, terminated, batch, inserted, skipped, reported, whole>>

\* init(): every line has to parse, or it throws and the store stays closed.
Open(p) ==
  /\ ~initialized[p] /\ Loadable
  /\ Shared \/ \A q \in Processes : ~initialized[q]
  /\ initialized' = [initialized EXCEPT ![p] = TRUE]
  /\ table' = [table EXCEPT ![p] = RecordsIn(file)]
  /\ UNCHANGED <<file, terminated, batch, inserted, skipped, reported, whole>>

Returned(p) == batch[p] = <<>> /\ inserted[p] = {} /\ skipped[p] = {}

\* An insert is called.
Insert(p) ==
  /\ initialized[p] /\ Returned(p)
  /\ \E n \in 1 .. MaxBatch : \E records \in [1 .. n -> Records] :
       batch' = [batch EXCEPT ![p] = records]
  /\ UNCHANGED <<file, terminated, initialized, table, inserted, skipped, reported, whole>>

\* The insert's next record has a duplicate in memory.
SkipRecord(p) ==
  /\ batch[p] # <<>> /\ Head(batch[p]) \in table[p]
  /\ skipped' = [skipped EXCEPT ![p] = @ \cup {Head(batch[p])}]
  /\ batch' = [batch EXCEPT ![p] = Tail(@)]
  /\ UNCHANGED <<file, terminated, initialized, table, inserted, reported, whole>>

\* Mutant of AppendRecord: the record is not added to the table in memory.
AppendRecordToFileOnly(p) ==
  LET record == Head(batch[p]) IN
  /\ batch[p] # <<>> /\ record \notin table[p]
  /\ file' = Extended(<<record>>, TRUE) /\ terminated' = TRUE
  /\ inserted' = [inserted EXCEPT ![p] = @ \cup {record}]
  /\ batch' = [batch EXCEPT ![p] = Tail(@)]
  /\ UNCHANGED <<initialized, table, skipped, reported, whole>>

\* Mutant of AppendRecord: the record is not written.
AppendRecordToTableOnly(p) ==
  LET record == Head(batch[p]) IN
  /\ batch[p] # <<>> /\ record \notin table[p]
  /\ table' = [table EXCEPT ![p] = @ \cup {record}]
  /\ inserted' = [inserted EXCEPT ![p] = @ \cup {record}]
  /\ batch' = [batch EXCEPT ![p] = Tail(@)]
  /\ UNCHANGED <<file, terminated, initialized, skipped, reported, whole>>

\* The next record is new: it is added to the table and to the file.
AppendRecord(p) ==
  LET record == Head(batch[p]) IN
  /\ batch[p] # <<>> /\ record \notin table[p]
  /\ table' = [table EXCEPT ![p] = @ \cup {record}]
  /\ file' = Extended(<<record>>, TRUE) /\ terminated' = TRUE
  /\ inserted' = [inserted EXCEPT ![p] = @ \cup {record}]
  /\ batch' = [batch EXCEPT ![p] = Tail(@)]
  /\ UNCHANGED <<initialized, skipped, reported, whole>>

\* What reaches the file of an append that fails: nothing, a part of the
\* record, or all of it without the newline.
AppendFails(record) ==
  \/ UNCHANGED <<file, terminated>>
  \/ /\ "torn" \in Faults
     /\ terminated' = FALSE
     /\ file' = Extended(<<>>, FALSE) \/ file' = Extended(<<record>>, TRUE)

\* Mutant of AppendThrows: the error is swallowed and the record counted.
AppendThrowsUnnoticed(p) ==
  LET record == Head(batch[p]) IN
  /\ "refused" \in Faults \/ "torn" \in Faults
  /\ batch[p] # <<>> /\ record \notin table[p]
  /\ AppendFails(record) /\ whole' = FALSE
  /\ table' = [table EXCEPT ![p] = @ \cup {record}]
  /\ inserted' = [inserted EXCEPT ![p] = @ \cup {record}]
  /\ batch' = [batch EXCEPT ![p] = Tail(@)]
  /\ UNCHANGED <<initialized, skipped, reported>>

\* The append throws out of the insert.  The record is in the table already.
AppendThrows(p) ==
  LET record == Head(batch[p]) IN
  /\ "refused" \in Faults \/ "torn" \in Faults
  /\ batch[p] # <<>> /\ record \notin table[p]
  /\ AppendFails(record) /\ whole' = FALSE
  /\ table' = [table EXCEPT ![p] = @ \cup {record}]
  /\ inserted' = [inserted EXCEPT ![p] = {}]
  /\ skipped' = [skipped EXCEPT ![p] = {}]
  /\ batch' = [batch EXCEPT ![p] = <<>>]
  /\ UNCHANGED <<initialized, reported>>

\* The insert returns its summary.
Return(p) ==
  /\ batch[p] = <<>> /\ ~Returned(p)
  /\ reported' = [inserted |-> reported.inserted \cup inserted[p],
                  skipped  |-> reported.skipped \cup skipped[p]]
  /\ inserted' = [inserted EXCEPT ![p] = {}]
  /\ skipped' = [skipped EXCEPT ![p] = {}]
  /\ UNCHANGED <<file, terminated, initialized, table, batch, whole>>

\* close(): the next call of any operation loads the file again.
Close(p) ==
  /\ initialized[p] /\ Returned(p)
  /\ initialized' = [initialized EXCEPT ![p] = FALSE]
  /\ UNCHANGED <<file, terminated, table, batch, inserted, skipped, reported, whole>>

\* The process dies, perhaps while the next record is being appended, and
\* another one may take its place.
Dies(p) ==
  /\ "death" \in Faults /\ initialized[p]
  /\ \/ UNCHANGED <<file, terminated, whole>>
     \/ /\ batch[p] # <<>> /\ Head(batch[p]) \notin table[p]
        /\ AppendFails(Head(batch[p])) /\ whole' = FALSE
  /\ initialized' = [initialized EXCEPT ![p] = FALSE]
  /\ table' = [table EXCEPT ![p] = {}]
  /\ batch' = [batch EXCEPT ![p] = <<>>]
  /\ inserted' = [inserted EXCEPT ![p] = {}]
  /\ skipped' = [skipped EXCEPT ![p] = {}]
  /\ UNCHANGED reported

JsonlNext ==
  \E p \in Processes : \/ Open(p) \/ Insert(p) \/ SkipRecord(p) \/ AppendRecord(p)
                       \/ AppendThrows(p) \/ Return(p) \/ Close(p) \/ Dies(p)

JsonlSpec == JsonlInit /\ [][JsonlNext]_jsonlVars

-----------------------------------------------------------------------------
\* Types.
JsonlTypeOK ==
  /\ file \in Seq(LineType) /\ terminated \in BOOLEAN
  /\ ~terminated => file # <<>>
  /\ initialized \in [Processes -> BOOLEAN]
  /\ table \in [Processes -> SUBSET Records]
  /\ batch \in [Processes -> Seq(Records)]
  /\ inserted \in [Processes -> SUBSET Records]
  /\ skipped \in [Processes -> SUBSET Records]
  /\ reported \in [inserted : SUBSET Records, skipped : SUBSET Records]
  /\ whole \in BOOLEAN

\* Safety: the file never gets a second copy of a record, although duplicates
\* are looked for in memory only and failed appends leave memory ahead of it.
NoRecordTwice ==
  \A i, j \in DOMAIN file :
    \A m \in DOMAIN file[i].records, n \in DOMAIN file[j].records :
      file[i].records[m] = file[j].records[n] => i = j /\ m = n

\* Safety: an open store knows every record in the file, also one that shares
\* a broken line with an append that failed.
OpenStoreKnowsFile ==
  \A p \in Processes : initialized[p] => RecordsIn(file) \subseteq table[p]

\* Safety: a record counted as inserted is in the text of the file, whatever
\* failed before it or after it.
InsertedIsWritten ==
  /\ reported.inserted \subseteq RecordsIn(file)
  /\ \A p \in Processes : inserted[p] \subseteq RecordsIn(file)

\* Action: a process that opens the store gets every record ever reported as
\* inserted, or does not get to open it.  A damaged file is never served in part.
AllOrNothing ==
  [][\A p \in Processes :
       ~initialized[p] /\ initialized'[p] => reported.inserted \subseteq table'[p]]_jsonlVars

\* docs/api/research-signals.md:386: "a local research data store for durable
\* public/read-only research samples".  So while the store is closed, the file
\* can be loaded and has every record whose insert said that it is stored.
DurableSamples ==
  (\A p \in Processes : ~initialized[p]) =>
    /\ Loadable
    /\ reported.inserted \cup reported.skipped \subseteq RecordsIn(file)

\* What a process that opens the store gets from the file.
OnFile == IF Loadable THEN RecordsIn(file) ELSE {}

SameRecord(r, s) == r = s

Contract == INSTANCE ResearchStore
  WITH Like <- SameRecord, stored <- OnFile,
       answered <- reported.inserted \cup reported.skipped

\* Refinement: until an append fails, a record that an insert answered for is in
\* a file that loads, and no record of it is lost, whichever processes die and
\* however many write to the file.  A failed append breaks it: the table in
\* memory is then ahead of the file.
KeepsStorePromise ==
  Contract!StoreInit /\ [][whole' => Contract!StoreNext]_(Contract!storeVars)
=============================================================================
