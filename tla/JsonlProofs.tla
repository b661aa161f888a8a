------------------------------ MODULE JsonlProofs ------------------------------
(***************************************************************************)
(* Proofs about the JSONL table, for any number of processes and records   *)
(* and whatever fails.  A record enters the file only when the table in    *)
(* memory does not have it, and while only one process has the store open, *)
(* its table has everything the file has: the invariant adds that a closed *)
(* process has no insert under way and that only one is open.              *)
(***************************************************************************)
EXTENDS JsonlStore, SequenceTheorems, TLAPS

Resting == \A p \in Processes : ~initialized[p] => Returned(p)

OneOpen == \A p, q \in Processes : initialized[p] /\ initialized[q] => p = q

-----------------------------------------------------------------------------
\* A sequence with one more element at the end.
LEMMA OneMore ==
  ASSUME NEW S, NEW s \in Seq(S), NEW e \in S
  PROVE  /\ s \o <<e>> = Append(s, e)
         /\ Append(s, e) \in Seq(S)
         /\ DOMAIN Append(s, e) = DOMAIN s \cup {Len(s) + 1}
         /\ \A i \in DOMAIN s : Append(s, e)[i] = s[i]
         /\ Append(s, e)[Len(s) + 1] = e
         /\ Len(s) + 1 \notin DOMAIN s
<1>1. DOMAIN s = 1 .. Len(s) /\ Len(s) \in Nat
  OBVIOUS
<1>2. Append(s, e) \in Seq(S) /\ Len(Append(s, e)) = Len(s) + 1
  OBVIOUS
<1>3. DOMAIN Append(s, e) = 1 .. Len(s) + 1
  BY <1>2
<1>4. 1 .. Len(s) + 1 = 1 .. Len(s) \cup {Len(s) + 1}
  BY <1>1
<1>5. /\ \A i \in 1 .. Len(s) : Append(s, e)[i] = s[i]
      /\ Append(s, e)[Len(s) + 1] = e
  OBVIOUS
<1>6. s \o <<e>> = Append(s, e)
  OBVIOUS
<1>7. QED
  BY <1>1, <1>2, <1>3, <1>4, <1>5, <1>6

\* Its elements.
LEMMA OneMoreRange ==
  ASSUME NEW S, NEW s \in Seq(S), NEW e \in S
  PROVE  Range(Append(s, e)) = Range(s) \cup {e}
BY OneMore DEF Range

\* The text of one or no record behind a sequence of records.
LEMMA OneOrNoneMore ==
  ASSUME NEW S, NEW s \in Seq(S), NEW e \in S, NEW u, u = <<>> \/ u = <<e>>
  PROVE  /\ s \o u \in Seq(S)
         /\ Range(s \o u) = Range(s) \cup Range(u)
         /\ \A m \in DOMAIN (s \o u) :
              \/ m \in DOMAIN s /\ (s \o u)[m] = s[m]
              \/ m = Len(s) + 1 /\ (s \o u)[m] = e
<1> DEFINE t == s \o u
<1>1. CASE u = <<>>
  <2>1. t = s /\ Range(u) = {}
    BY <1>1 DEF Range
  <2> HIDE DEF t
  <2>2. t \in Seq(S) /\ Range(t) = Range(s) \cup Range(u)
    BY <2>1
  <2>3. \A m \in DOMAIN t : m \in DOMAIN s /\ t[m] = s[m]
    BY <2>1
  <2>4. QED
    BY <2>2, <2>3 DEF t
<1>2. CASE u = <<e>>
  <2>1. t = Append(s, e) /\ Append(s, e) \in Seq(S)
    BY <1>2, OneMore
  <2>2. Range(Append(s, e)) = Range(s) \cup {e} /\ Range(u) = {e}
    BY <1>2, OneMoreRange DEF Range
  <2>3. \A m \in DOMAIN Append(s, e) :
          \/ m \in DOMAIN s /\ Append(s, e)[m] = s[m]
          \/ m = Len(s) + 1 /\ Append(s, e)[m] = e
    BY OneMore
  <2> HIDE DEF t
  <2>4. /\ t \in Seq(S) /\ Range(t) = Range(s) \cup Range(u)
        /\ \A m \in DOMAIN t :
             \/ m \in DOMAIN s /\ t[m] = s[m]
             \/ m = Len(s) + 1 /\ t[m] = e
    BY <2>1, <2>2, <2>3
  <2>5. QED
    BY <2>4 DEF t
<1>3. QED
  BY <1>1, <1>2

\* A file with one more line.
LEMMA LineAdded ==
  ASSUME NEW f \in Seq(LineType), NEW l \in LineType
  PROVE  RecordsIn(Append(f, l)) = RecordsIn(f) \cup Range(l.records)
<1> DEFINE g == Append(f, l)
<1>1. DOMAIN g = DOMAIN f \cup {Len(f) + 1}
  BY OneMore
<1>2. \A i \in DOMAIN f : g[i] = f[i]
  BY OneMore
<1>3. g[Len(f) + 1] = l
  BY SMTT(40), OneMore
<1> HIDE DEF g
<1>4. QED
  BY <1>1, <1>2, <1>3 DEF RecordsIn

\* A file whose last line was replaced by one with at least its records.
LEMMA LineReplaced ==
  ASSUME NEW f \in Seq(LineType), f # <<>>, NEW l \in LineType,
         Range(f[Len(f)].records) \subseteq Range(l.records),
         NEW g, g = [f EXCEPT ![Len(f)] = l]
  PROVE  /\ g \in Seq(LineType) /\ g # <<>> /\ DOMAIN g = DOMAIN f
         /\ g[Len(f)] = l /\ \A i \in DOMAIN f : i # Len(f) => g[i] = f[i]
         /\ RecordsIn(g) = RecordsIn(f) \cup Range(l.records)
<1> DEFINE n == Len(f)
<1>1. n \in 1 .. n /\ DOMAIN f = 1 .. n
  OBVIOUS
<1>2. g \in Seq(LineType) /\ Len(g) = n
  BY <1>1, ExceptSeq
<1>3. DOMAIN g = 1 .. n /\ g # <<>>
  BY SMTT(40), <1>1, <1>2
<1>4. g[n] = l /\ \A i \in 1 .. n : i # n => g[i] = f[i]
  BY <1>1
<1>5. RecordsIn(g) = RecordsIn(f) \cup Range(l.records)
  BY <1>1, <1>3, <1>4 DEF RecordsIn
<1>6. QED
  BY <1>1, <1>2, <1>3, <1>4, <1>5

-----------------------------------------------------------------------------
\* NoRecordTwice of any file.
Distinct(f) ==
  \A i, j \in DOMAIN f : \A m \in DOMAIN f[i].records, n \in DOMAIN f[j].records :
    f[i].records[m] = f[j].records[n] => i = j /\ m = n

\* Text of at most one record at the end of the file adds that record.
LEMMA ExtendedFile ==
  ASSUME JsonlTypeOK, NEW r \in Records, NEW recs, recs = <<>> \/ recs = <<r>>,
         NEW parses \in BOOLEAN
  PROVE  /\ Extended(recs, parses) \in Seq(LineType) /\ Extended(recs, parses) # <<>>
         /\ RecordsIn(Extended(recs, parses)) = RecordsIn(file) \cup Range(recs)
<1> DEFINE new == Extended(recs, parses)
           n == Len(file)
           old == file[n].records
<1>1. file \in Seq(LineType) /\ recs \in Seq(Records)
  <2>1. CASE recs = <<>>
    BY <2>1 DEF JsonlTypeOK
  <2>2. CASE recs = <<r>>
    BY <2>2 DEF JsonlTypeOK
  <2>3. QED
    BY <2>1, <2>2
<1>2. CASE terminated
  <2>1. new = Append(file, Line(recs, parses)) /\ Line(recs, parses) \in LineType
    BY <1>1, <1>2 DEF Extended, Line, LineType
  <2>2. Line(recs, parses).records = recs
    BY DEF Line
  <2>3. new \in Seq(LineType) /\ new # <<>>
    BY <1>1, <2>1
  <2>4. QED
    BY <1>1, <2>1, <2>2, <2>3, LineAdded
<1>3. CASE ~terminated
  <2>1. file # <<>> /\ file[n] \in LineType
    BY <1>3 DEF JsonlTypeOK
  <2>2. old \in Seq(Records)
    BY <2>1 DEF LineType
  <2>3. old \o recs \in Seq(Records) /\ Range(old \o recs) = Range(old) \cup Range(recs)
    BY <2>2, OneOrNoneMore
  <2>4. /\ new = [file EXCEPT ![Len(file)] = Line(old \o recs, FALSE)]
        /\ Line(old \o recs, FALSE) \in LineType
        /\ Line(old \o recs, FALSE).records = old \o recs
    BY <1>3, <2>3 DEF Extended, Line, LineType
  <2>5. /\ new \in Seq(LineType) /\ new # <<>>
        /\ RecordsIn(new) = RecordsIn(file) \cup Range(old \o recs)
    <3> DEFINE l == Line(old \o recs, FALSE)
    <3>1. l \in LineType /\ l.records = old \o recs
      BY <2>4
    <3>2. new = [file EXCEPT ![Len(file)] = l]
      BY <2>4
    <3>3. Range(file[Len(file)].records) \subseteq Range(l.records)
      BY <2>3, <3>1
    <3> HIDE DEF new, l
    <3>4. new \in Seq(LineType) /\ new # <<>> /\ RecordsIn(new) = RecordsIn(file) \cup Range(l.records)
      BY <1>1, <2>1, <3>1, <3>2, <3>3, LineReplaced
    <3>5. QED
      BY <3>1, <3>4
  <2>6. Range(old) \subseteq RecordsIn(file)
    BY <1>1, <2>1 DEF RecordsIn
  <2>7. QED
    BY <2>3, <2>5, <2>6
<1>4. QED
  BY <1>2, <1>3

\* It keeps the file free of second copies if the file does not have the record.
LEMMA ExtendedDistinct ==
  ASSUME JsonlTypeOK, Distinct(file), NEW r \in Records, r \notin RecordsIn(file),
         NEW recs, recs = <<>> \/ recs = <<r>>, NEW parses \in BOOLEAN
  PROVE  Distinct(Extended(recs, parses))
<1> DEFINE new == Extended(recs, parses)
           n == Len(file)
           old == file[n].records
<1>1. file \in Seq(LineType)
  BY DEF JsonlTypeOK
<1>2. \A i \in DOMAIN file : \A m \in DOMAIN file[i].records : file[i].records[m] # r
  BY DEF RecordsIn, Range
<1>3. recs \in Seq(Records) /\ \A m \in DOMAIN recs : m = 1 /\ recs[m] = r
  <2>1. CASE recs = <<>>
    BY <2>1
  <2>2. CASE recs = <<r>>
    BY <2>2
  <2>3. QED
    BY <2>1, <2>2
<1>4. CASE terminated
  <2>1. new = Append(file, Line(recs, parses)) /\ Line(recs, parses) \in LineType
    BY <1>1, <1>4, <1>3 DEF Extended, Line, LineType
  <2>2. Line(recs, parses).records = recs
    BY DEF Line
  <2>3. /\ DOMAIN new = DOMAIN file \cup {n + 1} /\ n + 1 \notin DOMAIN file
        /\ \A i \in DOMAIN file : new[i] = file[i]
        /\ new[n + 1].records = recs
    BY <1>1, <2>1, <2>2, OneMore
  <2> HIDE DEF new
  <2>4. Distinct(new)
    BY <1>2, <1>3, <2>3 DEF Distinct
  <2>5. QED
    BY <2>4 DEF new
<1>5. CASE ~terminated
  <2>1. file # <<>> /\ n \in DOMAIN file /\ file[n] \in LineType
    BY <1>5 DEF JsonlTypeOK
  <2>2. old \in Seq(Records)
    BY <2>1 DEF LineType
  <2>3. \A m \in DOMAIN (old \o recs) :
          \/ m \in DOMAIN old /\ (old \o recs)[m] = old[m]
          \/ m = Len(old) + 1 /\ (old \o recs)[m] = r
    BY <2>2, OneOrNoneMore
  <2>4. /\ Range(old) \subseteq Range(old \o recs) /\ old \o recs \in Seq(Records)
    BY <2>2, OneOrNoneMore
  <2>5. /\ new = [file EXCEPT ![Len(file)] = Line(old \o recs, FALSE)]
        /\ Line(old \o recs, FALSE) \in LineType
        /\ Line(old \o recs, FALSE).records = old \o recs
    BY <1>5, <2>4 DEF Extended, Line, LineType
  <2>6. /\ DOMAIN new = DOMAIN file
        /\ \A i \in DOMAIN file : i # n => new[i] = file[i]
        /\ new[n].records = old \o recs
    <3>1. Range(file[Len(file)].records) \subseteq Range(Line(old \o recs, FALSE).records)
      BY <2>4, <2>5
    <3>2. QED
      BY <1>1, <2>1, <2>5, <3>1, LineReplaced
  <2> HIDE DEF new
  <2>7. Distinct(new)
    <3> SUFFICES ASSUME NEW i \in DOMAIN file, NEW j \in DOMAIN file,
                        NEW m \in DOMAIN new[i].records, NEW k \in DOMAIN new[j].records,
                        new[i].records[m] = new[j].records[k]
                 PROVE  i = j /\ m = k
      BY <2>6 DEF Distinct
    <3>1. CASE i # n /\ j # n
      BY <2>6, <3>1 DEF Distinct
    <3>2. CASE i = n /\ j # n
      <4>1. /\ m \in DOMAIN (old \o recs) /\ k \in DOMAIN file[j].records
            /\ (old \o recs)[m] = file[j].records[k]
        BY <2>6, <3>2
      <4>2. (old \o recs)[m] # r
        BY <1>2, <4>1
      <4>3. m \in DOMAIN old /\ old[m] = file[j].records[k]
        BY <2>3, <4>1, <4>2
      <4>4. QED
        BY <2>1, <3>2, <4>1, <4>3 DEF Distinct
    <3>3. CASE i # n /\ j = n
      <4>1. /\ k \in DOMAIN (old \o recs) /\ m \in DOMAIN file[i].records
            /\ (old \o recs)[k] = file[i].records[m]
        BY <2>6, <3>3
      <4>2. (old \o recs)[k] # r
        BY <1>2, <4>1
      <4>3. k \in DOMAIN old /\ old[k] = file[i].records[m]
        BY <2>3, <4>1, <4>2
      <4>4. QED
        BY <2>1, <3>3, <4>1, <4>3 DEF Distinct
    <3>4. CASE i = n /\ j = n
      <4>1. m \in DOMAIN (old \o recs) /\ k \in DOMAIN (old \o recs)
            /\ (old \o recs)[m] = (old \o recs)[k]
        BY <2>6, <3>4
      <4>2. \A x, y \in DOMAIN old : old[x] = old[y] => x = y
        BY <2>1 DEF Distinct
      <4>3. QED
        BY <1>2, <2>1, <2>3, <3>4, <4>1, <4>2
    <3>5. QED
      BY <3>1, <3>2, <3>3, <3>4
  <2>8. QED
    BY <2>7 DEF new
<1>6. QED
  BY <1>4, <1>5
-----------------------------------------------------------------------------
\* How a step changes the file: not at all, or by text of at most the record r.
Grows(r) ==
  \/ file' = file /\ terminated' = terminated
  \/ \E recs \in {<<>>, <<r>>}, parses \in BOOLEAN : file' = Extended(recs, parses)

\* What a step that writes one record leaves of the file's properties.
LEMMA GrownFile ==
  ASSUME JsonlTypeOK, NEW r \in Records, Grows(r)
  PROVE  /\ file' \in Seq(LineType) /\ (file' = file \/ file' # <<>>)
         /\ RecordsIn(file) \subseteq RecordsIn(file')
         /\ RecordsIn(file') \subseteq RecordsIn(file) \cup {r}
         /\ Distinct(file) /\ r \notin RecordsIn(file) => Distinct(file')
<1>1. CASE file' = file
  BY <1>1 DEF JsonlTypeOK
<1>2. CASE \E recs \in {<<>>, <<r>>}, parses \in BOOLEAN : file' = Extended(recs, parses)
  <2>1. PICK recs \in {<<>>, <<r>>}, parses \in BOOLEAN : file' = Extended(recs, parses)
    BY <1>2
  <2>2. Range(recs) \subseteq {r}
    BY DEF Range
  <2>3. /\ file' \in Seq(LineType) /\ file' # <<>>
        /\ RecordsIn(file') = RecordsIn(file) \cup Range(recs)
    BY <2>1, ExtendedFile
  <2>4. Distinct(file) /\ r \notin RecordsIn(file) => Distinct(file')
    BY <2>1, ExtendedDistinct
  <2>5. QED
    BY <2>2, <2>3, <2>4
<1>3. QED
  BY <1>1, <1>2 DEF Grows

\* The steps that write to the file, for a new record at the head of a batch.
LEMMA WritesGrow ==
  ASSUME NEW p \in Processes
  PROVE  /\ AppendRecord(p) => Grows(Head(batch[p]))
         /\ AppendThrows(p) => Grows(Head(batch[p]))
         /\ Dies(p) => \/ file' = file /\ terminated' = terminated
                       \/ /\ batch[p] # <<>> /\ Head(batch[p]) \notin table[p]
                          /\ Grows(Head(batch[p]))
<1>1. AppendFails(Head(batch[p])) => Grows(Head(batch[p]))
  BY DEF AppendFails, Grows
<1>2. AppendRecord(p) => Grows(Head(batch[p]))
  BY DEF AppendRecord, Grows
<1>3. AppendThrows(p) => Grows(Head(batch[p]))
  BY <1>1 DEF AppendThrows
<1>4. QED
  BY <1>1, <1>2, <1>3 DEF Dies

\* A failed append leaves a file that is unfinished only if it has some text.
LEMMA FailedAppend ==
  ASSUME JsonlTypeOK, NEW r \in Records, AppendFails(r)
  PROVE  file' \in Seq(LineType) /\ terminated' \in BOOLEAN /\ (~terminated' => file' # <<>>)
<1>1. CASE UNCHANGED <<file, terminated>>
  BY <1>1 DEF JsonlTypeOK
<1>2. CASE ~ UNCHANGED <<file, terminated>>
  <2>1. terminated' = FALSE
    BY <1>2 DEF AppendFails
  <2>2. \E recs \in {<<>>, <<r>>}, parses \in BOOLEAN : file' = Extended(recs, parses)
    BY <1>2 DEF AppendFails
  <2>3. QED
    BY <2>1, <2>2, ExtendedFile
<1>3. QED
  BY <1>1, <1>2

\* The record at the head of a batch, and the rest.
LEMMA HeadOfBatch ==
  ASSUME JsonlTypeOK, NEW p \in Processes, batch[p] # <<>>
  PROVE  Head(batch[p]) \in Records /\ Tail(batch[p]) \in Seq(Records)
<1>1. batch[p] \in Seq(Records)
  BY DEF JsonlTypeOK
<1>2. QED
  BY <1>1
-----------------------------------------------------------------------------
\* JsonlTypeOK (types of the file and of what each process holds) holds always,
\* in particular that only a file with something in it can end in the middle
\* of a line.
THEOREM JsonlTypes == JsonlSpec => []JsonlTypeOK
<1>1. JsonlInit => JsonlTypeOK
  BY DEF JsonlInit, JsonlTypeOK
<1>2. JsonlTypeOK /\ [JsonlNext]_jsonlVars => JsonlTypeOK'
  <2> SUFFICES ASSUME JsonlTypeOK, [JsonlNext]_jsonlVars
               PROVE  JsonlTypeOK'
    OBVIOUS
  <2>1. CASE UNCHANGED jsonlVars
    BY <2>1 DEF jsonlVars, JsonlTypeOK
  <2>2. ASSUME NEW p \in Processes, Open(p)
        PROVE  JsonlTypeOK'
    <3>1. RecordsIn(file) \subseteq Records
      <4> SUFFICES ASSUME NEW i \in DOMAIN file PROVE Range(file[i].records) \subseteq Records
        BY DEF RecordsIn
      <4>1. file[i] \in LineType
        BY DEF JsonlTypeOK
      <4>2. file[i].records \in Seq(Records)
        BY <4>1 DEF LineType
      <4>3. QED
        BY <4>2 DEF Range
    <3>2. QED
      BY <2>2, <3>1 DEF Open, JsonlTypeOK
  <2>3. ASSUME NEW p \in Processes, Insert(p)
        PROVE  JsonlTypeOK'
    <3>1. PICK n \in 1 .. MaxBatch : \E records \in [1 .. n -> Records] :
            batch' = [batch EXCEPT ![p] = records]
      BY <2>3 DEF Insert
    <3>2. PICK records \in [1 .. n -> Records] : batch' = [batch EXCEPT ![p] = records]
      BY <3>1
    <3>3. records \in Seq(Records)
      BY JsonlAssumption, SeqDef DEF JsonlAssumption
    <3>4. batch' \in [Processes -> Seq(Records)]
      BY <3>2, <3>3 DEF JsonlTypeOK
    <3>5. QED
      BY <2>3, <3>4 DEF Insert, JsonlTypeOK
  <2>4. ASSUME NEW p \in Processes, SkipRecord(p)
        PROVE  JsonlTypeOK'
    <3>1. Head(batch[p]) \in Records /\ Tail(batch[p]) \in Seq(Records)
      BY <2>4, HeadOfBatch DEF SkipRecord
    <3>2. QED
      BY <2>4, <3>1 DEF SkipRecord, JsonlTypeOK
  <2>5. ASSUME NEW p \in Processes, AppendRecord(p)
        PROVE  JsonlTypeOK'
    <3>1. Head(batch[p]) \in Records /\ Tail(batch[p]) \in Seq(Records)
      BY <2>5, HeadOfBatch DEF AppendRecord
    <3>2. file' \in Seq(LineType)
      BY <2>5, <3>1, WritesGrow, GrownFile
    <3>3. QED
      BY <2>5, <3>1, <3>2 DEF AppendRecord, JsonlTypeOK
  <2>6. ASSUME NEW p \in Processes, AppendThrows(p)
        PROVE  JsonlTypeOK'
    <3>1. Head(batch[p]) \in Records
      BY <2>6, HeadOfBatch DEF AppendThrows
    <3>2. file' \in Seq(LineType) /\ terminated' \in BOOLEAN /\ (~terminated' => file' # <<>>)
      BY <2>6, <3>1, FailedAppend DEF AppendThrows
    <3>3. <<>> \in Seq(Records)
      OBVIOUS
    <3>4. QED
      BY <2>6, <3>1, <3>2, <3>3 DEF AppendThrows, JsonlTypeOK
  <2>7. ASSUME NEW p \in Processes, Return(p)
        PROVE  JsonlTypeOK'
    BY <2>7 DEF Return, JsonlTypeOK
  <2>8. ASSUME NEW p \in Processes, Close(p)
        PROVE  JsonlTypeOK'
    BY <2>8 DEF Close, JsonlTypeOK
  <2>9. ASSUME NEW p \in Processes, Dies(p)
        PROVE  JsonlTypeOK'
    <3>1. file' \in Seq(LineType) /\ terminated' \in BOOLEAN /\ (~terminated' => file' # <<>>)
      <4>1. CASE UNCHANGED <<file, terminated>>
        BY <4>1 DEF JsonlTypeOK
      <4>2. CASE batch[p] # <<>> /\ AppendFails(Head(batch[p]))
        BY <4>2, HeadOfBatch, FailedAppend
      <4>3. QED
        BY <2>9, <4>1, <4>2 DEF Dies
    <3>2. <<>> \in Seq(Records)
      OBVIOUS
    <3>3. QED
      BY <2>9, <3>1, <3>2 DEF Dies, JsonlTypeOK
  <2>10. QED
    BY <2>1, <2>2, <2>3, <2>4, <2>5, <2>6, <2>7, <2>8, <2>9 DEF JsonlNext
<1>3. QED
  BY <1>1, <1>2, PTL DEF JsonlSpec
-----------------------------------------------------------------------------
\* No step takes a record out of the file.
LEMMA FileKeepsRecords ==
  ASSUME JsonlTypeOK, [JsonlNext]_jsonlVars
  PROVE  RecordsIn(file) \subseteq RecordsIn(file')
<1>1. CASE file' = file
  BY <1>1
<1>2. ASSUME NEW p \in Processes, AppendRecord(p) \/ AppendThrows(p) \/ Dies(p), file' # file
      PROVE  RecordsIn(file) \subseteq RecordsIn(file')
  <2>1. batch[p] # <<>> /\ Grows(Head(batch[p]))
    BY <1>2, WritesGrow DEF AppendRecord, AppendThrows
  <2>2. QED
    BY <2>1, HeadOfBatch, GrownFile
<1>3. QED
  BY <1>1, <1>2 DEF JsonlNext, jsonlVars, Open, Insert, SkipRecord, Return, Close

\* A record that an insert appends is in the file.
LEMMA AppendedIsInFile ==
  ASSUME JsonlTypeOK, NEW p \in Processes, AppendRecord(p)
  PROVE  Head(batch[p]) \in RecordsIn(file')
<1> DEFINE r == Head(batch[p])
<1>1. r \in Records /\ file' = Extended(<<r>>, TRUE)
  BY HeadOfBatch DEF AppendRecord
<1>2. RecordsIn(file') = RecordsIn(file) \cup Range(<<r>>)
  BY <1>1, ExtendedFile
<1>3. r \in Range(<<r>>)
  BY DEF Range
<1>4. QED
  BY <1>2, <1>3

\* InsertedIsWritten holds always, for processes that share the store too:
\* what an insert counted as inserted is in the text of the file.
THEOREM JsonlInserted == JsonlSpec => []InsertedIsWritten
<1>1. JsonlInit => InsertedIsWritten
  BY DEF JsonlInit, InsertedIsWritten
<1>2. JsonlTypeOK /\ InsertedIsWritten /\ [JsonlNext]_jsonlVars => InsertedIsWritten'
  <2> SUFFICES ASSUME JsonlTypeOK, InsertedIsWritten, [JsonlNext]_jsonlVars
               PROVE  InsertedIsWritten'
    OBVIOUS
  <2>1. RecordsIn(file) \subseteq RecordsIn(file')
    BY FileKeepsRecords
  <2>2. CASE UNCHANGED <<inserted, reported>>
    BY <2>1, <2>2 DEF InsertedIsWritten
  <2>3. ASSUME NEW p \in Processes, AppendRecord(p)
        PROVE  InsertedIsWritten'
    <3>1. Head(batch[p]) \in RecordsIn(file')
      BY <2>3, AppendedIsInFile
    <3>2. /\ reported' = reported
          /\ inserted' = [inserted EXCEPT ![p] = @ \cup {Head(batch[p])}]
      BY <2>3 DEF AppendRecord
    <3>3. QED
      BY <2>1, <3>1, <3>2 DEF InsertedIsWritten, JsonlTypeOK
  <2>4. ASSUME NEW p \in Processes, Return(p)
        PROVE  InsertedIsWritten'
    <3>1. /\ reported'.inserted = reported.inserted \cup inserted[p]
          /\ inserted' = [inserted EXCEPT ![p] = {}]
      BY <2>4 DEF Return
    <3>2. QED
      BY <2>1, <3>1 DEF InsertedIsWritten, JsonlTypeOK
  <2>5. ASSUME NEW p \in Processes, AppendThrows(p) \/ Dies(p)
        PROVE  InsertedIsWritten'
    <3>1. reported' = reported /\ inserted' = [inserted EXCEPT ![p] = {}]
      BY <2>5 DEF AppendThrows, Dies
    <3>2. QED
      BY <2>1, <3>1 DEF InsertedIsWritten, JsonlTypeOK
  <2>6. QED
    BY <2>2, <2>3, <2>4, <2>5 DEF JsonlNext, jsonlVars, Open, Insert, SkipRecord, Close
<1>3. QED
  BY <1>1, <1>2, JsonlTypes, PTL DEF JsonlSpec

\* AllOrNothing holds: whoever opens the store gets every record that an
\* insert of any process ever reported as inserted.
THEOREM JsonlAllOrNothing == JsonlSpec => AllOrNothing
<1>1. InsertedIsWritten /\ JsonlTypeOK /\ [JsonlNext]_jsonlVars =>
        [\A p \in Processes :
           ~initialized[p] /\ initialized'[p] => reported.inserted \subseteq table'[p]]_jsonlVars
  <2> SUFFICES ASSUME InsertedIsWritten, JsonlTypeOK, JsonlNext,
                      NEW p \in Processes, ~initialized[p], initialized'[p]
               PROVE  reported.inserted \subseteq table'[p]
    OBVIOUS
  <2>1. PICK q \in Processes : \/ Open(q) \/ Insert(q) \/ SkipRecord(q) \/ AppendRecord(q)
                               \/ AppendThrows(q) \/ Return(q) \/ Close(q) \/ Dies(q)
    BY DEF JsonlNext
  <2>2. Open(q) /\ q = p
    BY <2>1 DEF JsonlTypeOK, Open, Insert, SkipRecord, AppendRecord, AppendThrows,
                Return, Close, Dies
  <2>3. table'[p] = RecordsIn(file)
    BY <2>2 DEF Open, JsonlTypeOK
  <2>4. QED
    BY <2>3 DEF InsertedIsWritten
<1>2. QED
  BY <1>1, JsonlTypes, JsonlInserted, PTL DEF JsonlSpec, AllOrNothing

-----------------------------------------------------------------------------
\* While one process has the store open, its memory has all of the file.  This
\* is what makes a duplicate check in memory enough.
JsonlIInv == Resting /\ OneOpen /\ OpenStoreKnowsFile /\ Distinct(file)

\* The invariant holds as long as one process at a time uses the store.
LEMMA JsonlInductive ==
  ASSUME ~Shared
  PROVE  JsonlSpec => []JsonlIInv
<1>1. JsonlInit => JsonlIInv
  <2> SUFFICES ASSUME JsonlInit PROVE JsonlIInv
    OBVIOUS
  <2>1. file = <<>> /\ \A p \in Processes : ~initialized[p] /\ Returned(p)
    BY DEF JsonlInit, Returned
  <2>2. QED
    BY <2>1 DEF JsonlIInv, Resting, OneOpen, OpenStoreKnowsFile, Distinct
<1>2. JsonlTypeOK /\ JsonlIInv /\ [JsonlNext]_jsonlVars => JsonlIInv'
  <2> SUFFICES ASSUME JsonlTypeOK, JsonlIInv, [JsonlNext]_jsonlVars
               PROVE  JsonlIInv'
    OBVIOUS
  <2> USE DEF JsonlIInv
  <2>1. CASE UNCHANGED jsonlVars
    BY <2>1 DEF jsonlVars, Resting, Returned, OneOpen, OpenStoreKnowsFile
  <2>2. ASSUME NEW p \in Processes, Open(p)
        PROVE  JsonlIInv'
    <3>1. /\ \A q \in Processes : ~initialized[q]
          /\ initialized' = [initialized EXCEPT ![p] = TRUE]
          /\ table' = [table EXCEPT ![p] = RecordsIn(file)]
          /\ UNCHANGED <<file, batch, inserted, skipped>>
      BY <2>2 DEF Open
    <3>2. QED
      BY <3>1 DEF JsonlTypeOK, Resting, Returned, OneOpen, OpenStoreKnowsFile
  <2>3. ASSUME NEW p \in Processes, Insert(p) \/ SkipRecord(p) \/ Return(p)
        PROVE  JsonlIInv'
    <3>1. /\ initialized[p]
          /\ UNCHANGED <<file, initialized, table>>
          /\ \A q \in Processes \ {p} : /\ batch'[q] = batch[q]
                                        /\ inserted'[q] = inserted[q] /\ skipped'[q] = skipped[q]
      BY <2>3 DEF Insert, SkipRecord, Return, Resting, Returned, JsonlTypeOK
    <3>2. QED
      BY <3>1 DEF Resting, Returned, OneOpen, OpenStoreKnowsFile
  <2>4. ASSUME NEW p \in Processes, AppendRecord(p) \/ AppendThrows(p)
        PROVE  JsonlIInv'
    <3> DEFINE r == Head(batch[p])
    <3>1. /\ batch[p] # <<>> /\ r \notin table[p] /\ initialized[p]
          /\ initialized' = initialized
          /\ table' = [table EXCEPT ![p] = table[p] \cup {r}]
          /\ \A q \in Processes \ {p} : /\ batch'[q] = batch[q]
                                        /\ inserted'[q] = inserted[q] /\ skipped'[q] = skipped[q]
      <4>1. batch[p] # <<>> /\ r \notin table[p]
        BY <2>4 DEF AppendRecord, AppendThrows
      <4>2. initialized[p]
        BY <4>1 DEF Resting, Returned
      <4>3. /\ initialized' = initialized
            /\ table' = [table EXCEPT ![p] = table[p] \cup {r}]
            /\ \A q \in Processes \ {p} : /\ batch'[q] = batch[q]
                                          /\ inserted'[q] = inserted[q] /\ skipped'[q] = skipped[q]
        BY <2>4 DEF AppendRecord, AppendThrows, JsonlTypeOK
      <4>4. QED
        BY <4>1, <4>2, <4>3
    <3>2. r \in Records /\ Grows(r)
      BY <2>4, <3>1, HeadOfBatch, WritesGrow
    <3>3. r \notin RecordsIn(file)
      BY <3>1 DEF OpenStoreKnowsFile
    <3>4. RecordsIn(file') \subseteq RecordsIn(file) \cup {r} /\ Distinct(file')
      BY <3>2, <3>3, GrownFile
    <3>5. OpenStoreKnowsFile'
      <4>1. \A q \in Processes : initialized[q] => q = p
        BY <3>1 DEF OneOpen
      <4>2. table'[p] = table[p] \cup {r} /\ RecordsIn(file) \subseteq table[p]
        BY <3>1 DEF JsonlTypeOK, OpenStoreKnowsFile
      <4>3. QED
        BY <3>1, <3>4, <4>1, <4>2 DEF OpenStoreKnowsFile
    <3>6. Resting' /\ OneOpen'
      BY <3>1 DEF Resting, Returned, OneOpen
    <3>7. QED
      BY <3>4, <3>5, <3>6
  <2>5. ASSUME NEW p \in Processes, Close(p)
        PROVE  JsonlIInv'
    BY <2>5 DEF Close, Resting, Returned, OneOpen, OpenStoreKnowsFile, JsonlTypeOK
  <2>6. ASSUME NEW p \in Processes, Dies(p)
        PROVE  JsonlIInv'
    <3>1. /\ initialized[p]
          /\ initialized' = [initialized EXCEPT ![p] = FALSE]
          /\ batch' = [batch EXCEPT ![p] = <<>>]
          /\ inserted' = [inserted EXCEPT ![p] = {}] /\ skipped' = [skipped EXCEPT ![p] = {}]
      BY <2>6 DEF Dies
    <3>2. \A q \in Processes : ~initialized'[q]
      BY <3>1 DEF OneOpen, JsonlTypeOK
    <3>3. Resting' /\ OneOpen' /\ OpenStoreKnowsFile'
      BY <3>1, <3>2 DEF Resting, Returned, OneOpen, OpenStoreKnowsFile, JsonlTypeOK
    <3>4. Distinct(file')
      <4>1. CASE file' = file
        BY <4>1
      <4>2. CASE batch[p] # <<>> /\ Head(batch[p]) \notin table[p] /\ Grows(Head(batch[p]))
        <5>1. Head(batch[p]) \notin RecordsIn(file)
          BY <3>1, <4>2 DEF OpenStoreKnowsFile
        <5>2. QED
          BY <4>2, <5>1, HeadOfBatch, GrownFile
      <4>3. QED
        BY <2>6, <4>1, <4>2, WritesGrow
    <3>5. QED
      BY <3>3, <3>4
  <2>7. QED
    BY <2>1, <2>2, <2>3, <2>4, <2>5, <2>6 DEF JsonlNext
<1>3. QED
  BY <1>1, <1>2, JsonlTypes, PTL DEF JsonlSpec

\* NoRecordTwice holds always when only one process has the store open at a
\* time: the file never gets a second copy of a record, although duplicates
\* are looked for in memory only.
THEOREM JsonlNoRecordTwice ==
  ASSUME ~Shared
  PROVE  JsonlSpec => []NoRecordTwice
<1>1. JsonlIInv => NoRecordTwice
  BY DEF JsonlIInv, Distinct, NoRecordTwice
<1>2. QED
  BY <1>1, JsonlInductive, PTL

\* OpenStoreKnowsFile holds always under the same assumption: a store that is
\* open has every record of its file in memory.
THEOREM JsonlKnowsFile ==
  ASSUME ~Shared
  PROVE  JsonlSpec => []OpenStoreKnowsFile
<1>1. JsonlIInv => OpenStoreKnowsFile
  BY DEF JsonlIInv
<1>2. QED
  BY <1>1, JsonlInductive, PTL

-----------------------------------------------------------------------------
\* Until an append fails, memory is never ahead of a file that loads.
TableIsWritten ==
  /\ terminated /\ Loadable
  /\ \A p \in Processes : /\ table[p] \subseteq RecordsIn(file)
                          /\ inserted[p] \cup skipped[p] \subseteq RecordsIn(file)

\* An append keeps that.
LEMMA AppendKeepsPromise ==
  ASSUME JsonlTypeOK, TableIsWritten, NEW p \in Processes, AppendRecord(p)
  PROVE  TableIsWritten'
<1> DEFINE r == Head(batch[p])
<1>1. r \in Records /\ file \in Seq(LineType)
  BY HeadOfBatch DEF AppendRecord, JsonlTypeOK
<1>2. r \in RecordsIn(file') /\ RecordsIn(file) \subseteq RecordsIn(file')
  BY AppendedIsInFile, FileKeepsRecords DEF JsonlNext
<1>3. terminated' /\ Loadable'
  <2>1. file' = Append(file, Line(<<r>>, TRUE)) /\ terminated'
    BY DEF AppendRecord, Extended, TableIsWritten
  <2>2. Line(<<r>>, TRUE) \in LineType /\ Line(<<r>>, TRUE).parses
    BY <1>1 DEF Line, LineType
  <2>3. /\ DOMAIN file' = DOMAIN file \cup {Len(file) + 1}
        /\ \A i \in DOMAIN file : file'[i] = file[i]
        /\ file'[Len(file) + 1] = Line(<<r>>, TRUE)
    <3> DEFINE line == Line(<<r>>, TRUE)
    <3>1. line \in LineType /\ file' = Append(file, line)
      BY <2>1, <2>2
    <3> HIDE DEF line
    <3>2. /\ DOMAIN Append(file, line) = DOMAIN file \cup {Len(file) + 1}
          /\ \A i \in DOMAIN file : Append(file, line)[i] = file[i]
          /\ Append(file, line)[Len(file) + 1] = line
      BY <1>1, <3>1, OneMore
    <3>3. QED
      BY <3>1, <3>2 DEF line
  <2>4. QED
    BY <2>1, <2>2, <2>3 DEF Loadable, TableIsWritten
<1>4. ASSUME NEW q \in Processes
      PROVE  /\ table'[q] \subseteq table[q] \cup {r}
             /\ inserted'[q] \subseteq inserted[q] \cup {r}
             /\ skipped'[q] = skipped[q]
  BY DEF AppendRecord, JsonlTypeOK
<1>5. QED
  BY <1>2, <1>3, <1>4 DEF TableIsWritten

\* What every step leaves then.
LEMMA TableIsWrittenStep ==
  ASSUME JsonlTypeOK, TableIsWritten, [JsonlNext]_jsonlVars, whole'
  PROVE  TableIsWritten'
<1>1. CASE UNCHANGED jsonlVars
  BY <1>1 DEF jsonlVars, TableIsWritten, Loadable
<1>2. ASSUME NEW p \in Processes, Open(p) PROVE TableIsWritten'
  <2>1. \A q \in Processes : table'[q] \subseteq table[q] \cup RecordsIn(file)
    BY <1>2 DEF Open, JsonlTypeOK
  <2>2. QED
    BY <1>2, <2>1 DEF Open, TableIsWritten, Loadable
<1>3. ASSUME NEW p \in Processes, Insert(p) \/ Close(p) PROVE TableIsWritten'
  BY <1>3 DEF Insert, Close, TableIsWritten, Loadable
<1>4. ASSUME NEW p \in Processes, SkipRecord(p) PROVE TableIsWritten'
  <2>1. \A q \in Processes : skipped'[q] \subseteq skipped[q] \cup table[p]
    BY <1>4 DEF SkipRecord, JsonlTypeOK
  <2>2. QED
    BY <1>4, <2>1 DEF SkipRecord, TableIsWritten, Loadable
<1>5. ASSUME NEW p \in Processes, AppendRecord(p) PROVE TableIsWritten'
  BY <1>5, AppendKeepsPromise
<1>6. ASSUME NEW p \in Processes, AppendThrows(p) PROVE FALSE
  BY <1>6 DEF AppendThrows
<1>7. ASSUME NEW p \in Processes, Return(p) PROVE TableIsWritten'
  <2>1. \A q \in Processes : inserted'[q] \subseteq inserted[q] /\ skipped'[q] \subseteq skipped[q]
    BY <1>7 DEF Return, JsonlTypeOK
  <2>2. QED
    BY <1>7, <2>1 DEF Return, TableIsWritten, Loadable
<1>8. ASSUME NEW p \in Processes, Dies(p) PROVE TableIsWritten'
  <2>1. UNCHANGED <<file, terminated>>
    BY <1>8 DEF Dies
  <2>2. \A q \in Processes : /\ table'[q] \subseteq table[q]
                             /\ inserted'[q] \subseteq inserted[q] /\ skipped'[q] \subseteq skipped[q]
    BY <1>8 DEF Dies, JsonlTypeOK
  <2>3. QED
    BY <2>1, <2>2 DEF TableIsWritten, Loadable
<1>9. QED
  BY <1>1, <1>2, <1>3, <1>4, <1>5, <1>6, <1>7, <1>8 DEF JsonlNext

\* A step of the store is a step of the contract, or none.
LEMMA JsonlStoreStep ==
  ASSUME JsonlTypeOK, TableIsWritten, TableIsWritten',
         [JsonlNext]_jsonlVars
  PROVE  [Contract!StoreNext]_(Contract!storeVars)
<1>1. OnFile = RecordsIn(file) /\ OnFile' = RecordsIn(file')
  BY DEF OnFile, TableIsWritten
<1>2. RecordsIn(file) \subseteq RecordsIn(file')
  BY FileKeepsRecords
<1>3. CASE reported' = reported
  BY <1>1, <1>2, <1>3 DEF Contract!StoreNext, Contract!Put
<1>4. ASSUME NEW p \in Processes, Return(p)
      PROVE  Contract!Answer
  <2>1. /\ file' = file
        /\ reported'.inserted = reported.inserted \cup inserted[p]
        /\ reported'.skipped = reported.skipped \cup skipped[p]
    BY <1>4 DEF Return
  <2>2. inserted[p] \cup skipped[p] \subseteq OnFile
    BY <1>1 DEF TableIsWritten
  <2>3. OnFile' = OnFile
    BY <1>1, <2>1
  <2>4. QED
    BY <2>1, <2>2, <2>3 DEF Contract!Answer, Contract!Covered, SameRecord
<1>5. ASSUME NEW p \in Processes,
             \/ Open(p) \/ Insert(p) \/ SkipRecord(p) \/ AppendRecord(p) \/ AppendThrows(p)
             \/ Close(p) \/ Dies(p)
      PROVE  reported' = reported
  BY <1>5 DEF Open, Insert, SkipRecord, AppendRecord, AppendThrows, Close, Dies
<1>6. UNCHANGED jsonlVars => reported' = reported
  BY DEF jsonlVars
<1>7. QED
  BY <1>3, <1>4, <1>5, <1>6 DEF JsonlNext, Contract!StoreNext

\* Once an append failed, that is so forever.
LEMMA FailureIsKnown == [JsonlNext]_jsonlVars /\ whole' => whole
<1>1. ASSUME NEW p \in Processes,
             \/ Open(p) \/ Insert(p) \/ SkipRecord(p) \/ AppendRecord(p) \/ AppendThrows(p)
             \/ Return(p) \/ Close(p) \/ Dies(p)
      PROVE  whole' => whole
  BY <1>1, Zenon DEF Open, Insert, SkipRecord, AppendRecord, AppendThrows, Return, Close, Dies
<1>2. QED
  BY <1>1, Zenon DEF JsonlNext, jsonlVars

\* Theorem: until an append fails, the JSONL store keeps the promise of
\* ResearchStore, however many processes share the file and whenever they die:
\* what an insert answered for is in a file that loads.
THEOREM JsonlKeepsStorePromise == JsonlSpec => KeepsStorePromise
<1>1. JsonlInit => TableIsWritten /\ Contract!StoreInit
  <2> SUFFICES ASSUME JsonlInit PROVE TableIsWritten /\ Contract!StoreInit
    OBVIOUS
  <2>1. file = <<>> /\ terminated
    BY DEF JsonlInit
  <2>2. DOMAIN file = {}
    BY <2>1
  <2>3. Loadable /\ RecordsIn(file) = {}
    BY <2>2 DEF Loadable, RecordsIn
  <2>4. TableIsWritten
    BY <2>1, <2>3 DEF JsonlInit, TableIsWritten
  <2>5. OnFile = {} /\ reported.inserted \cup reported.skipped = {}
    BY <2>3 DEF JsonlInit, OnFile
  <2>6. QED
    BY <2>4, <2>5 DEF Contract!StoreInit
<1>2. /\ JsonlTypeOK /\ (whole => TableIsWritten) /\ [JsonlNext]_jsonlVars
      => (whole => TableIsWritten)'
  BY TableIsWrittenStep, FailureIsKnown
<1>3. /\ JsonlTypeOK /\ (whole => TableIsWritten) /\ (whole => TableIsWritten)'
      /\ [JsonlNext]_jsonlVars
      => [whole' => Contract!StoreNext]_(Contract!storeVars)
  BY JsonlStoreStep, FailureIsKnown
<1>4. QED
  BY <1>1, <1>2, <1>3, JsonlTypes, PTL DEF JsonlSpec, KeepsStorePromise
=============================================================================
