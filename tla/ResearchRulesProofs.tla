--------------------------- MODULE ResearchRulesProofs ---------------------------
(***************************************************************************)
(* Proofs about the rules of the research packages and the signal panel,   *)
(* for any minutes, prices, consoles and length of the log.                *)
(*                                                                         *)
(* The panel's log is honest because an entry's time to resolve lies after *)
(* the console that made it, and every console that is shown resolves what *)
(* it makes due before it takes the place of the one before.               *)
(***************************************************************************)
EXTENDS MCResearchRules, MarketProofs, SignalProofs, SequenceTheorems, FiniteSetTheorems, TLAPS

EntryStatuses == {"pending", "hit", "miss", "invalidated", "no_signal"}
Entries ==
  [createdAt : Nat \ {0}, horizon : PanelHorizons, profile : PanelProfiles,
   direction : {"LONG", "SHORT", "NO_SIGNAL"}, score : Int, entryPrice : Int, resolveAt : Int,
   status : EntryStatuses, resolvePrice : Int, resolvedAt : Int]

\* An entry says how it stands, and of what is pending when it is due.
EntryKept(o) ==
  /\ o \in Entries
  /\ o.status = "no_signal" <=> o.direction = "NO_SIGNAL"
  /\ o.status = "pending" =>
       o.resolveAt > o.createdAt /\ o.resolvePrice = Null /\ o.resolvedAt = Null
  /\ o.status \in {"hit", "miss"} =>
       /\ o.resolvedAt >= o.resolveAt /\ o.resolvedAt > o.createdAt
       /\ o.status = "hit" <=> IsHit(o, o.resolvePrice)

\* What a console that is shown leaves pending is due later.
DueLater(o, c) == o.status = "pending" /\ o.horizon = c.horizon => c.candle < o.resolveAt

Log == {log \in Seq(Entries) : \A i \in DOMAIN log : EntryKept(log[i])}
LogFor(c) == {log \in Log : /\ Len(log) \in 1 .. MaxStored
                            /\ \A i \in DOMAIN log : DueLater(log[i], c)}

ConsoleKept(c) ==
  /\ c.createdAt \in Nat \ {0} /\ c.horizon \in PanelHorizons /\ c.profile \in PanelProfiles
  /\ c.direction \in {"LONG", "SHORT", "NO_SIGNAL"} /\ c.score \in Int /\ c.close \in Int
  /\ c.candle \in {c.createdAt - 1, Null}

\* What makes the panel's honesty inductive.
PanelIInv ==
  /\ selected \in PanelProfiles /\ clock \in ClockMinutes /\ loads \in Nat
  /\ ConsoleKept(snapshot)
  /\ observations \in LogFor(snapshot) /\ stored = observations
  /\ status = "idle" => snapshot.profile = selected
  /\ request # NoRequest =>
       /\ status = "loading"
       /\ request.profile \in PanelProfiles /\ request.horizon \in PanelHorizons

-----------------------------------------------------------------------------
\* The gateway's answers are consoles.
LEMMA ConsolesKept ==
  ASSUME NEW minute \in ClockMinutes, NEW horizon \in PanelHorizons, NEW profile \in PanelProfiles,
         NEW c \in Consoles(minute, horizon, profile)
  PROVE  ConsoleKept(c) /\ c.horizon = horizon /\ c.profile = profile
<1>1. PICK s \in ConsoleSignals :
        c = [createdAt |-> minute, horizon |-> horizon, profile |-> profile, direction |-> s[1],
             score |-> s[2], candle |-> IF s[3] THEN minute - 1 ELSE Null,
             close |-> IF s[3] THEN PriceAt[minute] ELSE Null]
  BY DEF Consoles
<1>2. s \in {"LONG", "SHORT", "NO_SIGNAL"} \X Int \X BOOLEAN /\ minute \in Nat \ {0}
      /\ PriceAt[minute] \in Nat
  BY PanelAssumption
<1>3. s[1] \in {"LONG", "SHORT", "NO_SIGNAL"} /\ s[2] \in Int
  BY <1>2
<1>4. QED
  BY <1>1, <1>2, <1>3, NullIsNegative DEF ConsoleKept

\* A new entry is kept, and what a console says is not due by itself.
LEMMA CreatedKept ==
  ASSUME NEW c, ConsoleKept(c)
  PROVE  EntryKept(CreateObservation(c)) /\ DueLater(CreateObservation(c), c)
<1>1. PICK o : o = CreateObservation(c)
  OBVIOUS
<1>2. /\ o.createdAt = c.createdAt /\ o.horizon = c.horizon /\ o.profile = c.profile
      /\ o.direction = c.direction /\ o.score = c.score /\ o.entryPrice = c.close
      /\ o.resolveAt = (IF c.candle = Null THEN Null ELSE c.candle + WindowMinutes(c.horizon))
      /\ o.status = (IF c.direction = "NO_SIGNAL" THEN "no_signal"
                     ELSE IF c.candle # Null THEN "pending" ELSE "invalidated")
      /\ o.resolvePrice = Null /\ o.resolvedAt = Null
  BY <1>1 DEF CreateObservation
<1>3. WindowMinutes(c.horizon) \in {5, 10}
  BY DEF WindowMinutes
<1>4. o.resolveAt \in Int /\ Null \in Int
  BY <1>2, <1>3, NullIsNegative DEF ConsoleKept
<1>5. o.status \in EntryStatuses
  BY <1>2 DEF EntryStatuses
<1>6. o \in Entries
  <2>1. o = [createdAt |-> o.createdAt, horizon |-> o.horizon, profile |-> o.profile,
             direction |-> o.direction, score |-> o.score, entryPrice |-> o.entryPrice,
             resolveAt |-> o.resolveAt, status |-> o.status, resolvePrice |-> o.resolvePrice,
             resolvedAt |-> o.resolvedAt]
    BY <1>1 DEF CreateObservation
  <2>2. QED
    BY <1>2, <1>4, <1>5, <2>1 DEF ConsoleKept, Entries
<1>7. o.status = "pending" => o.resolveAt > o.createdAt /\ c.candle < o.resolveAt
  BY <1>2, <1>3, NullIsNegative DEF ConsoleKept
<1>8. QED
  BY <1>1, <1>2, <1>6, <1>7 DEF EntryKept, DueLater

\* Resolving by a console keeps an entry, and leaves it pending only if it is due
\* later.
LEMMA ResolvedKept ==
  ASSUME NEW c, ConsoleKept(c), NEW o, EntryKept(o), o.status = "pending"
  PROVE  /\ EntryKept(Resolved(o, c))
         /\ DueLater(Resolved(o, c), c)
         /\ [Resolved(o, c) EXCEPT !.status = "pending", !.resolvePrice = Null,
                                   !.resolvedAt = Null] = o
<1>1. o \in Entries /\ o.resolveAt > o.createdAt /\ o.direction # "NO_SIGNAL"
      /\ o.resolvePrice = Null /\ o.resolvedAt = Null
  BY DEF EntryKept
<1>2. c.createdAt \in Nat \ {0} /\ c.candle \in {c.createdAt - 1, Null} /\ c.close \in Int
      /\ Null \in Int
  BY NullIsNegative DEF ConsoleKept
<1>3. CASE \/ c.candle = Null /\ ~(c.createdAt >= o.resolveAt)
           \/ c.candle # Null /\ c.candle < o.resolveAt
  <2>1. Resolved(o, c) = o
    BY <1>3 DEF Resolved
  <2>2. c.candle < o.resolveAt
    BY <1>1, <1>2, <1>3, NullIsNegative DEF Entries
  <2>3. [o EXCEPT !.status = "pending", !.resolvePrice = Null, !.resolvedAt = Null] = o
    BY <1>1 DEF Entries
  <2>4. QED
    BY <1>1, <2>1, <2>2, <2>3 DEF DueLater
<1>4. CASE c.candle = Null /\ c.createdAt >= o.resolveAt
  <2>1. PICK after : after = [o EXCEPT !.status = "invalidated", !.resolvedAt = c.createdAt]
    OBVIOUS
  <2>2. Resolved(o, c) = after
    BY <1>4, <2>1 DEF Resolved
  <2>3. after \in Entries /\ after.status = "invalidated" /\ after.direction = o.direction
    <3>1. PICK minute \in Int : minute = c.createdAt
      BY <1>2
    <3>2. after = [o EXCEPT !.status = "invalidated", !.resolvedAt = minute]
      BY <2>1, <3>1
    <3>3. QED
      BY <1>1, <3>2 DEF Entries, EntryStatuses
  <2>4. [after EXCEPT !.status = "pending", !.resolvePrice = Null, !.resolvedAt = Null] = o
    BY <1>1, <2>1 DEF Entries
  <2>5. QED
    BY <1>1, <2>2, <2>3, <2>4 DEF EntryKept, DueLater
<1>5. CASE c.candle # Null /\ c.candle >= o.resolveAt
  <2>1. PICK verdict : verdict = IF IsHit(o, c.close) THEN "hit" ELSE "miss"
    OBVIOUS
  <2>2. PICK after : after = Resolved(o, c)
    OBVIOUS
  <2>3. after = [o EXCEPT !.status = verdict, !.resolvePrice = c.close, !.resolvedAt = c.candle]
    BY <1>1, <1>2, <1>5, <2>1, <2>2 DEF Resolved, Entries
  <2>4. verdict \in {"hit", "miss"} /\ c.candle \in Int
    BY <1>2, <2>1
  <2>5. /\ after \in Entries /\ after.status = verdict /\ after.resolvePrice = c.close
        /\ after.resolvedAt = c.candle /\ after.direction = o.direction
        /\ after.entryPrice = o.entryPrice /\ after.resolveAt = o.resolveAt
        /\ after.createdAt = o.createdAt
    BY <1>1, <1>2, <2>3, <2>4 DEF Entries, EntryStatuses
  <2>6. IsHit(after, after.resolvePrice) <=> IsHit(o, c.close)
    BY <2>5 DEF IsHit
  <2>7. after.status = "hit" <=> IsHit(after, after.resolvePrice)
    BY <2>1, <2>5, <2>6
  <2>8. after.resolvedAt >= after.resolveAt /\ after.resolvedAt > after.createdAt
    BY <1>1, <1>2, <1>5, <2>4, <2>5 DEF Entries
  <2>9. EntryKept(after) /\ DueLater(after, c)
    BY <1>1, <2>4, <2>5, <2>7, <2>8 DEF EntryKept, DueLater
  <2>10. [after EXCEPT !.status = "pending", !.resolvePrice = Null, !.resolvedAt = Null] = o
    BY <1>1, <2>3 DEF Entries
  <2>11. QED
    BY <2>2, <2>9, <2>10
<1>6. QED
  BY <1>1, <1>2, <1>3, <1>4, <1>5 DEF Entries

\* An entry that a later log keeps: as it was, or pending then.
StaysAs(before, after) ==
  \/ after = before
  \/ before.status = "pending"
       /\ [after EXCEPT !.status = "pending", !.resolvePrice = Null, !.resolvedAt = Null] = before

\* Resolving goes over the log entry by entry.
LEMMA ResolvePendingKept ==
  ASSUME NEW c, ConsoleKept(c), NEW log \in Log
  PROVE  /\ ResolvePending(log, c) \in Seq(Entries) /\ Len(ResolvePending(log, c)) = Len(log)
         /\ \A i \in 1 .. Len(log) :
              /\ EntryKept(ResolvePending(log, c)[i]) /\ DueLater(ResolvePending(log, c)[i], c)
              /\ StaysAs(log[i], ResolvePending(log, c)[i])
<1>1. DOMAIN log = 1 .. Len(log) /\ Len(log) \in Nat /\ \A i \in 1 .. Len(log) : EntryKept(log[i])
  BY LenProperties DEF Log
<1>2. PICK resolved : resolved = ResolvePending(log, c)
  OBVIOUS
<1>3. /\ DOMAIN resolved = 1 .. Len(log)
      /\ resolved = [i \in 1 .. Len(log) |->
           IF log[i].status = "pending" /\ log[i].horizon = c.horizon THEN Resolved(log[i], c)
           ELSE log[i]]
  BY <1>1, <1>2 DEF ResolvePending
<1>4. ASSUME NEW i \in 1 .. Len(log)
      PROVE  /\ EntryKept(resolved[i]) /\ DueLater(resolved[i], c)
             /\ StaysAs(log[i], resolved[i])
  <2>1. CASE log[i].status = "pending" /\ log[i].horizon = c.horizon
    <3>1. resolved[i] = Resolved(log[i], c)
      BY <1>3, <2>1
    <3>2. PICK o : o = log[i]
      OBVIOUS
    <3>3. EntryKept(o) /\ o.status = "pending" /\ resolved[i] = Resolved(o, c)
      BY <1>1, <2>1, <3>1, <3>2
    <3>4. /\ EntryKept(Resolved(o, c)) /\ DueLater(Resolved(o, c), c)
          /\ [Resolved(o, c) EXCEPT !.status = "pending", !.resolvePrice = Null,
                                    !.resolvedAt = Null] = o
      BY <3>3, ResolvedKept
    <3>5. StaysAs(o, Resolved(o, c))
      BY <3>3, <3>4 DEF StaysAs
    <3>6. QED
      BY <3>2, <3>3, <3>4, <3>5
  <2>2. CASE ~(log[i].status = "pending" /\ log[i].horizon = c.horizon)
    BY <1>1, <1>3, <2>2 DEF DueLater, StaysAs
  <2>3. QED
    BY <2>1, <2>2
<1>5. resolved \in Seq(Entries) /\ Len(resolved) = Len(log)
  <2>1. \A i \in 1 .. Len(log) : resolved[i] \in Entries
    BY <1>4 DEF EntryKept
  <2>2. resolved \in [1 .. Len(log) -> Entries]
    BY <1>3, <2>1
  <2>3. resolved \in Seq(Entries)
    BY <1>1, <2>2, SeqDef
  <2>4. QED
    BY <1>1, <1>3, <2>3, LenProperties
<1>6. QED
  BY <1>2, <1>4, <1>5

LEMMA OneEntry ==
  ASSUME NEW S, NEW x \in S
  PROVE  <<x>> \in Seq(S) /\ Len(<<x>>) = 1 /\ <<x>>[1] = x
OBVIOUS

\* Merging cuts, behind its first MaxStored entries, what was resolved with at
\* most one entry in front; an empty log gets one.
LEMMA MergeShape ==
  ASSUME NEW c, ConsoleKept(c), NEW log \in Log
  PROVE  \E new \in {0, 1} :
           /\ log = <<>> => new = 1
           /\ Merge(log, c) \in Seq(Entries)
           /\ Len(Merge(log, c)) = Min({Len(log) + new, MaxStored})
           /\ \A i \in 1 .. Len(Merge(log, c)) :
                Merge(log, c)[i] = IF i <= new THEN CreateObservation(c)
                                   ELSE ResolvePending(log, c)[i - new]
<1>1. PICK resolved, next : resolved = ResolvePending(log, c) /\ next = CreateObservation(c)
  OBVIOUS
<1>2. /\ resolved \in Seq(Entries) /\ Len(resolved) = Len(log) /\ Len(log) \in Nat
      /\ DOMAIN resolved = 1 .. Len(log) /\ next \in Entries
  BY <1>1, ResolvePendingKept, CreatedKept, LenProperties DEF Log, EntryKept
<1>3. PICK new : new = IF ShouldRecord(resolved, next) THEN 1 ELSE 0
  OBVIOUS
<1>4. PICK all : all = IF ShouldRecord(resolved, next) THEN <<next>> \o resolved ELSE resolved
  OBVIOUS
<1>5. /\ new \in {0, 1} /\ all \in Seq(Entries) /\ Len(all) = Len(log) + new
      /\ \A i \in 1 .. Len(all) : all[i] = IF i <= new THEN next ELSE resolved[i - new]
  <2>1. CASE ShouldRecord(resolved, next)
    <3>1. PICK front \in Seq(Entries) : front = <<next>> /\ Len(front) = 1 /\ front[1] = next
      BY <1>2, OneEntry
    <3>2. /\ front \o resolved \in Seq(Entries)
          /\ Len(front \o resolved) = Len(front) + Len(resolved)
          /\ \A i \in 1 .. Len(front) + Len(resolved) :
               (front \o resolved)[i] = IF i <= Len(front) THEN front[i]
                                        ELSE resolved[i - Len(front)]
      BY <1>2, ConcatProperties
    <3>3. all = front \o resolved /\ new = 1
      BY <1>3, <1>4, <2>1, <3>1
    <3>4. \A i \in 1 .. Len(all) : i <= 1 => i = 1
      OBVIOUS
    <3>5. QED
      BY <1>2, <3>1, <3>2, <3>3, <3>4
  <2>2. CASE ~ShouldRecord(resolved, next)
    BY <1>2, <1>3, <1>4, <2>2
  <2>3. QED
    BY <2>1, <2>2
<1>6. log = <<>> => new = 1
  <2>1. SUFFICES ASSUME log = <<>> PROVE ShouldRecord(resolved, next)
    BY <1>3
  <2>2. DOMAIN resolved = {}
    BY <1>2, <2>1, EmptySeq
  <2>3. QED
    BY <2>2 DEF ShouldRecord
<1>7. PICK cut : cut = Min({Len(all), MaxStored})
  OBVIOUS
<1>8. cut \in 0 .. Len(all) /\ Len(all) \in Nat
  BY <1>2, <1>5, <1>7, MinOfTwo, PanelAssumption
<1>9. Merge(log, c) = SubSeq(all, 1, cut)
  BY <1>1, <1>4, <1>7 DEF Merge
<1>10. /\ SubSeq(all, 1, cut) \in Seq(Entries)
       /\ Len(SubSeq(all, 1, cut)) = cut
       /\ \A i \in 1 .. cut : SubSeq(all, 1, cut)[i] = all[i]
  BY <1>5, <1>8, SubSeqProperties
<1>11. PICK merged : merged = SubSeq(all, 1, cut)
  OBVIOUS
<1>12. /\ merged \in Seq(Entries) /\ Len(merged) = cut
       /\ cut = Min({Len(log) + new, MaxStored})
  BY <1>5, <1>7, <1>10, <1>11
<1>13. \A i \in 1 .. Len(merged) : merged[i] = IF i <= new THEN next ELSE resolved[i - new]
  <2> SUFFICES ASSUME NEW i \in 1 .. cut
               PROVE  merged[i] = IF i <= new THEN next ELSE resolved[i - new]
    BY <1>12
  <2>1. i \in 1 .. Len(all) /\ merged[i] = all[i]
    BY <1>8, <1>10, <1>11
  <2>2. QED
    BY <1>5, <2>1
<1>14. QED
  BY <1>1, <1>5, <1>6, <1>9, <1>11, <1>12, <1>13

\* Merging a console makes a log for that console.
LEMMA MergeKept ==
  ASSUME NEW c, ConsoleKept(c), NEW log \in Log
  PROVE  Merge(log, c) \in LogFor(c)
<1>1. PICK new \in {0, 1} :
        /\ log = <<>> => new = 1
        /\ Merge(log, c) \in Seq(Entries)
        /\ Len(Merge(log, c)) = Min({Len(log) + new, MaxStored})
        /\ \A i \in 1 .. Len(Merge(log, c)) :
             Merge(log, c)[i] = IF i <= new THEN CreateObservation(c)
                                ELSE ResolvePending(log, c)[i - new]
  BY MergeShape
<1>2. PICK merged : merged = Merge(log, c)
  OBVIOUS
<1>3. /\ Len(log) \in Nat /\ log # <<>> => Len(log) > 0
      /\ DOMAIN merged = 1 .. Len(merged) /\ Len(merged) \in Nat
  BY <1>1, <1>2, LenProperties, EmptySeq DEF Log
<1>4. Len(merged) \in 1 .. MaxStored /\ Len(merged) <= Len(log) + new
  <2>1. Len(log) + new \in Nat /\ Len(log) + new >= 1
    BY <1>1, <1>3
  <2>2. Len(merged) = IF Len(log) + new <= MaxStored THEN Len(log) + new ELSE MaxStored
    BY <1>1, <1>2, <2>1, MinOfTwo, PanelAssumption
  <2>3. QED
    BY <2>1, <2>2, PanelAssumption
<1>5. ASSUME NEW i \in 1 .. Len(merged)
      PROVE  EntryKept(merged[i]) /\ DueLater(merged[i], c)
  <2>1. CASE i <= new
    BY <1>1, <1>2, <2>1, CreatedKept
  <2>2. CASE ~(i <= new)
    <3>1. i - new \in 1 .. Len(log)
      BY <1>1, <1>3, <1>4, <2>2
    <3>2. merged[i] = ResolvePending(log, c)[i - new]
      BY <1>1, <1>2, <2>2
    <3>3. QED
      BY <3>1, <3>2, ResolvePendingKept
  <2>3. QED
    BY <2>1, <2>2
<1>6. QED
  BY <1>1, <1>2, <1>3, <1>4, <1>5 DEF LogFor, Log

\* And keeps the past of the log.
LEMMA MergeKeepsPast ==
  ASSUME NEW c, ConsoleKept(c), NEW log \in Log
  PROVE  \E new \in {0, 1} :
           /\ Len(Merge(log, c)) = Min({Len(log) + new, MaxStored})
           /\ \A i \in 1 .. Len(Merge(log, c)) - new : StaysAs(log[i], Merge(log, c)[i + new])
<1>1. PICK new \in {0, 1} :
        /\ Merge(log, c) \in Seq(Entries)
        /\ Len(Merge(log, c)) = Min({Len(log) + new, MaxStored})
        /\ \A i \in 1 .. Len(Merge(log, c)) :
             Merge(log, c)[i] = IF i <= new THEN CreateObservation(c)
                                ELSE ResolvePending(log, c)[i - new]
  BY MergeShape
<1>2. PICK merged : merged = Merge(log, c)
  OBVIOUS
<1>3. Len(log) \in Nat /\ Len(merged) \in Nat
  BY <1>1, <1>2, LenProperties DEF Log
<1>4. Len(merged) <= Len(log) + new
  <2>1. Len(merged) = IF Len(log) + new <= MaxStored THEN Len(log) + new ELSE MaxStored
    BY <1>1, <1>2, <1>3, MinOfTwo, PanelAssumption
  <2>2. QED
    BY <1>3, <2>1, PanelAssumption
<1>5. ASSUME NEW i \in 1 .. Len(merged) - new
      PROVE  StaysAs(log[i], merged[i + new])
  <2>1. i \in 1 .. Len(log) /\ i + new \in 1 .. Len(merged) /\ ~(i + new <= new)
        /\ (i + new) - new = i
    BY <1>1, <1>3, <1>4
  <2>2. merged[i + new] = ResolvePending(log, c)[(i + new) - new]
    BY <1>1, <1>2, <2>1
  <2>3. QED
    BY <2>1, <2>2, ResolvePendingKept
<1>6. QED
  BY <1>1, <1>2, <1>5

-----------------------------------------------------------------------------
\* Three kinds without a common member are counted one by one.
LEMMA KindsAddUp ==
  ASSUME NEW A, NEW B, NEW C, IsFiniteSet(A), IsFiniteSet(B), IsFiniteSet(C),
         A \cap B = {}, A \cap C = {}, B \cap C = {}
  PROVE  Cardinality(A \cup B \cup C) = Cardinality(A) + Cardinality(B) + Cardinality(C)
<1>1. /\ Cardinality(A) \in Nat /\ Cardinality(B) \in Nat /\ Cardinality(C) \in Nat
      /\ Cardinality({}) = 0
  BY FS_CardinalityType, FS_EmptySet
<1>2. /\ IsFiniteSet(A \cup B)
      /\ Cardinality(A \cup B) = Cardinality(A) + Cardinality(B) - Cardinality(A \cap B)
  BY FS_Union
<1>3. Cardinality(A \cap B) = 0 /\ Cardinality((A \cup B) \cap C) = 0
  <2>1. A \cap B = {} /\ (A \cup B) \cap C = {}
    OBVIOUS
  <2>2. QED
    BY <2>1, FS_EmptySet, Zenon
<1>4. Cardinality((A \cup B) \cup C)
        = Cardinality(A \cup B) + Cardinality(C) - Cardinality((A \cup B) \cap C)
  BY <1>2, FS_Union
<1>5. PICK a \in Nat, b \in Nat, c \in Nat :
        a = Cardinality(A) /\ b = Cardinality(B) /\ c = Cardinality(C)
  BY <1>1
<1>6. Cardinality(A \cup B) = a + b
  BY <1>2, <1>3, <1>5
<1>7. Cardinality((A \cup B) \cup C) = a + b + c
  BY <1>3, <1>4, <1>5, <1>6
<1>8. QED
  BY <1>5, <1>7

\* The numbers of a log add up: what is not counted as resolved, pending or
\* invalidated has no direction.
LEMMA SummaryAddsUp ==
  ASSUME NEW log \in Log
  PROVE  BucketSummary(log).total =
           BucketSummary(log).resolved + BucketSummary(log).pending + BucketSummary(log).invalidated
<1> DEFINE of(statuses) ==
             {i \in DOMAIN log : log[i].direction # "NO_SIGNAL" /\ log[i].status \in statuses}
<1>1. \A i \in DOMAIN log :
        /\ log[i].status \in EntryStatuses
        /\ log[i].status = "no_signal" <=> log[i].direction = "NO_SIGNAL"
  BY DEF Log, EntryKept, Entries
<1>2. of(EntryStatuses) = of({"hit", "miss"}) \cup of({"pending"}) \cup of({"invalidated"})
  BY <1>1 DEF EntryStatuses
<1>3. /\ of({"hit", "miss"}) \cap of({"pending"}) = {}
      /\ of({"hit", "miss"}) \cap of({"invalidated"}) = {}
      /\ of({"pending"}) \cap of({"invalidated"}) = {}
  OBVIOUS
<1>4. IsFiniteSet(DOMAIN log)
  BY LenProperties, FS_Interval DEF Log
<1>5. /\ IsFiniteSet(of({"hit", "miss"})) /\ IsFiniteSet(of({"pending"}))
      /\ IsFiniteSet(of({"invalidated"}))
  BY <1>4, FS_Subset
<1>6. PICK A, B, C : /\ A = of({"hit", "miss"}) /\ B = of({"pending"})
                     /\ C = of({"invalidated"})
  OBVIOUS
<1>7. Cardinality(A \cup B \cup C) = Cardinality(A) + Cardinality(B) + Cardinality(C)
  <2>1. A \cap B = {} /\ A \cap C = {} /\ B \cap C = {}
    BY <1>3, <1>6
  <2>2. IsFiniteSet(A) /\ IsFiniteSet(B) /\ IsFiniteSet(C)
    BY <1>5, <1>6
  <2> HIDE DEF of
  <2>3. QED
    BY <2>1, <2>2, KindsAddUp
<1>8. /\ BucketSummary(log).total = Cardinality(of(EntryStatuses))
      /\ BucketSummary(log).resolved = Cardinality(of({"hit", "miss"}))
      /\ BucketSummary(log).pending = Cardinality(of({"pending"}))
      /\ BucketSummary(log).invalidated = Cardinality(of({"invalidated"}))
  BY DEF BucketSummary, EntryStatuses
<1>9. QED
  BY <1>2, <1>6, <1>7, <1>8

\* The inductive invariant is honesty, and more.
LEMMA KeptIsHonest ==
  ASSUME PanelIInv
  PROVE  PanelIsHonest
<1>1. observations \in Log /\ Len(observations) \in 1 .. MaxStored /\ stored = observations
  BY DEF PanelIInv, LogFor
<1>2. DOMAIN observations = 1 .. Len(observations)
  BY <1>1, LenProperties DEF Log
<1>3. ASSUME NEW i \in DOMAIN observations
      PROVE  /\ observations[i].status \in {"hit", "miss"} =>
                  /\ observations[i].resolvedAt >= observations[i].resolveAt
                  /\ observations[i].resolvedAt > observations[i].createdAt
                  /\ observations[i].status = "hit"
                       <=> IsHit(observations[i], observations[i].resolvePrice)
             /\ observations[i].status = "pending" =>
                  /\ observations[i].direction # "NO_SIGNAL"
                  /\ observations[i].horizon = snapshot.horizon =>
                       snapshot.candle < observations[i].resolveAt
  <2>1. EntryKept(observations[i]) /\ DueLater(observations[i], snapshot)
    BY <1>1 DEF PanelIInv, LogFor, Log
  <2>2. QED
    BY <2>1 DEF EntryKept, DueLater
<1>4. PICK summary : summary = BucketSummary(observations)
  OBVIOUS
<1>5. summary.total = summary.resolved + summary.pending + summary.invalidated
  BY <1>1, <1>4, SummaryAddsUp
<1>6. /\ status = "idle" => snapshot.profile = selected
      /\ request # NoRequest => status = "loading"
  BY DEF PanelIInv
<1>7. QED
  BY <1>1, <1>3, <1>4, <1>5, <1>6 DEF PanelIsHonest

-----------------------------------------------------------------------------
\* A console that is shown and merged, by an answer or by navigation.
LEMMA ShownKept ==
  ASSUME PanelIInv, NEW c, ConsoleKept(c), Show(c), stored' = observations'
  PROVE  /\ ConsoleKept(snapshot') /\ selected' \in PanelProfiles
         /\ snapshot'.profile = selected' /\ observations' \in LogFor(snapshot')
<1>1. observations \in Log
  BY DEF PanelIInv, LogFor
<1>2. snapshot' = c /\ selected' = c.profile /\ observations' = Merge(observations, c)
  BY DEF Show
<1>3. observations' \in LogFor(c)
  BY <1>1, <1>2, MergeKept
<1>4. QED
  BY <1>2, <1>3 DEF ConsoleKept

\* A page that is loaded starts a log of its own.
LEMMA MountedKept ==
  ASSUME NEW c, ConsoleKept(c)
  PROVE  /\ Mounted(c) \in LogFor(c)
         /\ Merge(Merge(<<>>, c), c) \in LogFor(c)
<1>1. <<>> \in Log
  <2>1. <<>> \in Seq(Entries) /\ Len(<<>>) = 0
    BY EmptySeq
  <2>2. DOMAIN <<>> = {}
    OBVIOUS
  <2>3. QED
    BY <2>1, <2>2 DEF Log
<1>2. Merge(<<>>, c) \in LogFor(c)
  BY <1>1, MergeKept
<1>3. PICK first : first = Merge(<<>>, c)
  OBVIOUS
<1>4. first \in Log /\ first # <<>>
  BY <1>2, <1>3, EmptySeq DEF LogFor
<1>5. Merge(first, c) \in LogFor(c)
  BY <1>4, MergeKept
<1>6. Mounted(c) = Merge(first, c)
  BY <1>3, <1>4 DEF Mounted
<1>7. QED
  BY <1>3, <1>5, <1>6

LEMMA PanelStarts ==
  ASSUME PanelInit
  PROVE  PanelIInv
<1>1. PICK horizon \in PanelHorizons, profile \in PanelProfiles :
        snapshot \in Consoles(1, horizon, profile)
  BY DEF PanelInit
<1>2. /\ clock = 1 /\ 1 \in ClockMinutes /\ loads = 1 /\ selected = snapshot.profile /\ request = NoRequest
      /\ observations = Merge(Merge(<<>>, snapshot), snapshot) /\ stored = observations
  BY PanelAssumption DEF PanelInit
<1>3. ConsoleKept(snapshot)
  BY <1>1, <1>2, ConsolesKept
<1>4. observations \in LogFor(snapshot)
  BY <1>2, <1>3, MountedKept
<1>5. QED
  BY <1>2, <1>3, <1>4 DEF PanelIInv, ConsoleKept

\* The inductive step, one part per action.
LEMMA PanelIInvStep ==
  ASSUME PanelIInv, PanelNext \/ UNCHANGED panelVars
  PROVE  PanelIInv'
<1>1. ASSUME UNCHANGED <<snapshot, observations, stored>>
      PROVE  ConsoleKept(snapshot)' /\ (observations \in LogFor(snapshot) /\ stored = observations)'
  BY <1>1 DEF PanelIInv
<1>2. CASE Tick
  BY <1>1, <1>2 DEF Tick, PanelIInv
<1>3. CASE Load
  <2>1. PICK horizon \in PanelHorizons, profile \in PanelProfiles :
          \E c \in Consoles(clock, horizon, profile) :
            /\ snapshot' = c /\ selected' = c.profile
            /\ observations' = Mounted(c) /\ stored' = Mounted(c)
    BY <1>3 DEF Load
  <2>2. PICK c \in Consoles(clock, horizon, profile) :
          /\ snapshot' = c /\ selected' = c.profile
          /\ observations' = Mounted(c) /\ stored' = Mounted(c)
    BY <2>1
  <2>3. ConsoleKept(c)
    BY ConsolesKept DEF PanelIInv
  <2>4. Mounted(c) \in LogFor(c)
    BY <2>3, MountedKept
  <2>5. request' = NoRequest /\ clock' = clock /\ loads' \in Nat
    BY <1>3 DEF Load, PanelIInv
  <2>6. QED
    BY <2>2, <2>3, <2>4, <2>5 DEF PanelIInv, ConsoleKept
<1>4. CASE Navigate
  <2>1. PICK horizon \in PanelHorizons, profile \in PanelProfiles :
          \E c \in Consoles(clock, horizon, profile) :
            Show(c) /\ request' \in {NoRequest, request}
    BY <1>4 DEF Navigate
  <2>2. PICK c \in Consoles(clock, horizon, profile) : Show(c) /\ request' \in {NoRequest, request}
    BY <2>1
  <2>3. ConsoleKept(c)
    BY ConsolesKept DEF PanelIInv
  <2>4. stored' = observations' /\ UNCHANGED <<clock, status, loads>>
    BY <1>4 DEF Navigate
  <2>5. /\ ConsoleKept(snapshot') /\ selected' \in PanelProfiles
        /\ snapshot'.profile = selected' /\ observations' \in LogFor(snapshot')
    BY <2>2, <2>3, <2>4, ShownKept
  <2>6. QED
    BY <2>2, <2>4, <2>5 DEF PanelIInv
<1>5. CASE SetInterval
  <2>1. /\ request' \in {NoRequest, request}
        /\ UNCHANGED <<clock, selected, snapshot, observations, stored, status, loads>>
    BY <1>5 DEF SetInterval
  <2>2. QED
    BY <1>1, <2>1 DEF PanelIInv
<1>6. CASE ClickRefresh \/ TimerFires
  <2>1. /\ status' = "loading"
        /\ request' = [profile |-> selected, horizon |-> snapshot.horizon, at |-> clock]
        /\ UNCHANGED <<clock, selected, snapshot, observations, stored, loads>>
    BY <1>6 DEF ClickRefresh, TimerFires, RefreshSnapshot
  <2>2. QED
    BY <1>1, <2>1 DEF PanelIInv, ConsoleKept
<1>7. CASE ApplyProfile
  <2>1. PICK profile \in PanelProfiles :
          /\ selected' = profile /\ status' = "loading"
          /\ \/ request' = NoRequest
             \/ request' = [profile |-> profile, horizon |-> snapshot.horizon, at |-> clock]
          /\ UNCHANGED <<clock, snapshot, observations, stored, loads>>
    BY <1>7 DEF ApplyProfile, RefreshSnapshot
  <2>2. QED
    BY <1>1, <2>1 DEF PanelIInv, ConsoleKept
<1>8. CASE Answer
  <2>1. PICK minute \in ClockMinutes : \E c \in Consoles(minute, request.horizon, request.profile) : Show(c)
    BY <1>8 DEF Answer
  <2>2. PICK c \in Consoles(minute, request.horizon, request.profile) : Show(c)
    BY <2>1
  <2>3. request.profile \in PanelProfiles /\ request.horizon \in PanelHorizons
    BY <1>8 DEF Answer, PanelIInv
  <2>4. ConsoleKept(c)
    BY <2>3, ConsolesKept
  <2>5. stored' = observations' /\ request' = NoRequest /\ clock' = clock /\ loads' = loads
    BY <1>8 DEF Answer
  <2>6. /\ ConsoleKept(snapshot') /\ selected' \in PanelProfiles
        /\ snapshot'.profile = selected' /\ observations' \in LogFor(snapshot')
    BY <2>2, <2>4, <2>5, ShownKept
  <2>7. QED
    BY <2>5, <2>6 DEF PanelIInv
<1>9. CASE AnswerFails
  <2>1. /\ request' = NoRequest /\ status' = "error"
        /\ UNCHANGED <<clock, selected, snapshot, observations, stored, loads>>
    BY <1>9 DEF AnswerFails
  <2>2. QED
    BY <1>1, <2>1 DEF PanelIInv
<1>10. CASE UNCHANGED panelVars
  BY <1>10 DEF panelVars, PanelIInv
<1>11. QED
  BY <1>2, <1>3, <1>4, <1>5, <1>6, <1>7, <1>8, <1>9, <1>10 DEF PanelNext

\* What is not a console that is shown leaves the log alone, and a page that
\* stays keeps its past.
LEMMA PastIsKeptByPanel ==
  ASSUME PanelIInv, PanelNext
  PROVE  LogKeepsItsPast
<1>1. observations \in Log /\ Len(observations) \in 1 .. MaxStored /\ MaxStored \in Nat
  BY PanelAssumption DEF PanelIInv, LogFor
<1>2. CASE observations' = observations
  <2>1. Len(observations) = Min({Len(observations) + 0, MaxStored})
    BY <1>1, MinOfTwo
  <2>2. \A i \in 1 .. Len(observations) - 0 : observations'[i + 0] = observations[i]
    BY <1>1, <1>2
  <2>3. QED
    BY <1>2, <2>1, <2>2 DEF LogKeepsItsPast
<1>3. ASSUME NEW c, ConsoleKept(c), Show(c) PROVE LogKeepsItsPast
  <2>1. observations' = Merge(observations, c)
    BY <1>3 DEF Show
  <2>2. PICK new \in {0, 1} :
          /\ Len(Merge(observations, c)) = Min({Len(observations) + new, MaxStored})
          /\ \A i \in 1 .. Len(Merge(observations, c)) - new :
               StaysAs(observations[i], Merge(observations, c)[i + new])
    BY <1>1, <1>3, MergeKeepsPast
  <2>3. QED
    BY <2>1, <2>2 DEF LogKeepsItsPast, StaysAs
<1>4. CASE Load
  <2>1. loads' # loads
    <3>1. loads' = loads + 1
      BY <1>4 DEF Load
    <3>2. QED
      BY <3>1 DEF PanelIInv
  <2>2. QED
    BY <2>1 DEF LogKeepsItsPast
<1>5. CASE Navigate
  <2>1. PICK horizon \in PanelHorizons, profile \in PanelProfiles :
          \E c \in Consoles(clock, horizon, profile) : Show(c)
    BY <1>5 DEF Navigate
  <2>2. PICK c \in Consoles(clock, horizon, profile) : Show(c)
    BY <2>1
  <2>3. ConsoleKept(c)
    BY ConsolesKept DEF PanelIInv
  <2>4. QED
    BY <1>3, <2>2, <2>3
<1>6. CASE Answer
  <2>1. PICK minute \in ClockMinutes : \E c \in Consoles(minute, request.horizon, request.profile) : Show(c)
    BY <1>6 DEF Answer
  <2>2. PICK c \in Consoles(minute, request.horizon, request.profile) : Show(c)
    BY <2>1
  <2>3. request.profile \in PanelProfiles /\ request.horizon \in PanelHorizons
    BY <1>6 DEF Answer, PanelIInv
  <2>4. ConsoleKept(c)
    BY <2>3, ConsolesKept
  <2>5. QED
    BY <1>3, <2>2, <2>4
<1>7. CASE Tick \/ SetInterval \/ ClickRefresh \/ TimerFires \/ ApplyProfile \/ AnswerFails
  BY <1>2, <1>7 DEF Tick, SetInterval, ClickRefresh, TimerFires, ApplyProfile, AnswerFails
<1>8. QED
  BY <1>4, <1>5, <1>6, <1>7 DEF PanelNext

-----------------------------------------------------------------------------
\* The rules beside the panel.
PanelTopicKept == topic = "panel" => PanelIInv

\* No rule is of the panel's topic, and each has a topic of its own.
RuleTopics ==
  /\ topic' # "panel"
  /\ topic' = "market data" => AskMarketData
  /\ topic' = "fair value" => AskFairValue
  /\ topic' = "history" => AskHistory
  /\ topic' = "chart" => AskChart
  /\ topic' = "range" => AskRange
  /\ topic' = "confluence" => AskConfluence
  /\ topic' = "discovery" => AskDiscovery
  /\ topic' = "odds" => AskOdds
  /\ topic' = "past odds" => AskPastOdds
  /\ topic' = "scanner" => AskScanner
  /\ topic' = "replay" => AskReplay
  /\ topic' = "grid" => AskGrid
  /\ topic' = "lab" => AskLab
  /\ topic' = "window" => AskWindow
  /\ topic' = "windows" => AskWindows
  /\ topic' = "past" => AskPast
  /\ topic' = "console" => AskConsole
  /\ topic' = "backtest" => AskBacktest
  /\ topic' = "sweep" => AskSweep \/ SweepTakes \/ SweepAnswers \/ SweepFails

LEMMA TopicsOfRules ==
  ASSUME Rules
  PROVE  RuleTopics
<1>1. CASE AskMarketData
  <2>1. topic' = "market data"
    BY <1>1, PTL DEF AskMarketData
  <2>2. QED
    BY <1>1, <2>1, Zenon DEF RuleTopics
<1>2. CASE AskDiscovery
  <2>1. topic' = "discovery"
    BY <1>2, PTL DEF AskDiscovery
  <2>2. QED
    BY <1>2, <2>1, Zenon DEF RuleTopics
<1>3. CASE AskOdds
  <2>1. topic' = "odds"
    BY <1>3, PTL DEF AskOdds
  <2>2. QED
    BY <1>3, <2>1, Zenon DEF RuleTopics
<1>4. CASE AskPastOdds
  <2>1. topic' = "past odds"
    BY <1>4, PTL DEF AskPastOdds
  <2>2. QED
    BY <1>4, <2>1, Zenon DEF RuleTopics
<1>5. CASE AskScanner
  <2>1. topic' = "scanner"
    BY <1>5, PTL DEF AskScanner
  <2>2. QED
    BY <1>5, <2>1, Zenon DEF RuleTopics
<1>6. CASE AskHistory
  <2>1. topic' = "history"
    BY <1>6, PTL DEF AskHistory
  <2>2. QED
    BY <1>6, <2>1, Zenon DEF RuleTopics
<1>7. CASE AskChart
  <2>1. topic' = "chart"
    BY <1>7, PTL DEF AskChart
  <2>2. QED
    BY <1>7, <2>1, Zenon DEF RuleTopics
<1>8. CASE AskRange
  <2>1. topic' = "range"
    BY <1>8, PTL DEF AskRange
  <2>2. QED
    BY <1>8, <2>1, Zenon DEF RuleTopics
<1>9. CASE AskFairValue
  <2>1. topic' = "fair value"
    BY <1>9, PTL DEF AskFairValue
  <2>2. QED
    BY <1>9, <2>1, Zenon DEF RuleTopics
<1>10. CASE AskReplay
  <2>1. topic' = "replay"
    BY <1>10, PTL DEF AskReplay
  <2>2. QED
    BY <1>10, <2>1, Zenon DEF RuleTopics
<1>11. CASE AskGrid
  <2>1. topic' = "grid"
    BY <1>11, PTL DEF AskGrid
  <2>2. QED
    BY <1>11, <2>1, Zenon DEF RuleTopics
<1>12. CASE AskSweep
  <2>1. topic' = "sweep"
    BY <1>12, PTL DEF AskSweep
  <2>2. QED
    BY <1>12, <2>1, Zenon DEF RuleTopics
<1>13. CASE SweepTakes
  <2>1. topic' = "sweep"
    BY <1>13, PTL DEF SweepTakes
  <2>2. QED
    BY <1>13, <2>1, Zenon DEF RuleTopics
<1>14. CASE SweepAnswers
  <2>1. topic' = "sweep"
    BY <1>14, PTL DEF SweepAnswers
  <2>2. QED
    BY <1>14, <2>1, Zenon DEF RuleTopics
<1>15. CASE SweepFails
  <2>1. topic' = "sweep"
    BY <1>15, PTL DEF SweepFails
  <2>2. QED
    BY <1>15, <2>1, Zenon DEF RuleTopics
<1>16. CASE AskLab
  <2>1. topic' = "lab"
    BY <1>16, PTL DEF AskLab
  <2>2. QED
    BY <1>16, <2>1, Zenon DEF RuleTopics
<1>17. CASE AskConfluence
  <2>1. topic' = "confluence"
    BY <1>17, PTL DEF AskConfluence
  <2>2. QED
    BY <1>17, <2>1, Zenon DEF RuleTopics
<1>18. CASE AskBacktest
  <2>1. topic' = "backtest"
    BY <1>18, PTL DEF AskBacktest
  <2>2. QED
    BY <1>18, <2>1, Zenon DEF RuleTopics
<1>19. CASE AskWindow
  <2>1. topic' = "window"
    BY <1>19, PTL DEF AskWindow
  <2>2. QED
    BY <1>19, <2>1, Zenon DEF RuleTopics
<1>20. CASE AskWindows
  <2>1. topic' = "windows"
    BY <1>20, PTL DEF AskWindows
  <2>2. QED
    BY <1>20, <2>1, Zenon DEF RuleTopics
<1>21. CASE AskPast
  <2>1. topic' = "past"
    BY <1>21, PTL DEF AskPast
  <2>2. QED
    BY <1>21, <2>1, Zenon DEF RuleTopics
<1>22. CASE AskConsole
  <2>1. topic' = "console"
    BY <1>22, PTL DEF AskConsole
  <2>2. QED
    BY <1>22, <2>1, Zenon DEF RuleTopics
<1>23. QED
  BY <1>1, <1>2, <1>3, <1>4, <1>5, <1>6, <1>7, <1>8, <1>9, <1>10, <1>11,
     <1>12, <1>13, <1>14, <1>15, <1>16, <1>17, <1>18, <1>19, <1>20, <1>21, <1>22 DEF Rules

LEMMA PanelTopicStays ==
  ASSUME PanelTopicKept, [Next]_<<vars, panelVars, schedulerVars>>
  PROVE  /\ PanelTopicKept'
         /\ [topic = "panel" => LogKeepsItsPast]_panelVars
<1>1. CASE Rules /\ UNCHANGED <<panelVars, schedulerVars>>
  BY <1>1, TopicsOfRules DEF PanelTopicKept, RuleTopics
<1>2. CASE topic = "panel" /\ PanelNext /\ UNCHANGED <<topic, input, schedulerVars>>
  <2>1. PanelIInv
    BY <1>2 DEF PanelTopicKept
  <2>2. PanelIInv' /\ LogKeepsItsPast
    BY <1>2, <2>1, PanelIInvStep, PastIsKeptByPanel
  <2>3. QED
    BY <2>2 DEF PanelTopicKept
<1>3. CASE topic = "scheduler" /\ SchedulerNext /\ UNCHANGED <<topic, input, panelVars>>
  BY <1>3 DEF PanelTopicKept
<1>4. CASE UNCHANGED <<vars, panelVars, schedulerVars>>
  <2>1. UNCHANGED panelVars /\ topic' = topic
    BY <1>4 DEF vars
  <2>2. topic = "panel" => PanelIInv'
    BY <2>1, PanelIInvStep DEF PanelTopicKept
  <2>3. QED
    BY <2>1, <2>2 DEF PanelTopicKept
<1>5. QED
  BY <1>1, <1>2, <1>3, <1>4 DEF Next

LEMMA PanelTopicStarts ==
  ASSUME Init
  PROVE  PanelTopicKept
BY PanelStarts DEF Init, PanelTopicKept

\* Theorem: in every reachable state the panel's log agrees with the prices it
\* names, leaves nothing due pending and adds up, and the panel shows what is
\* selected and announces a request that may still answer.
THEOREM PanelHonest == Spec => []PanelStaysHonest
<1>1. Init => PanelTopicKept
  BY PanelTopicStarts
<1>2. PanelTopicKept /\ [Next]_<<vars, panelVars, schedulerVars>> => PanelTopicKept'
  BY PanelTopicStays
<1>3. PanelTopicKept => PanelStaysHonest
  BY KeptIsHonest DEF PanelTopicKept, PanelStaysHonest
<1>4. QED
  BY <1>1, <1>2, <1>3, PTL DEF Spec

\* Theorem: while a page stays, its log grows in front by at most one entry at a
\* time, loses entries at its end only, and what is not pending never changes.
THEOREM PanelPastKept == Spec => PanelKeepsItsPast
<1>1. Init => PanelTopicKept
  BY PanelTopicStarts
<1>2. PanelTopicKept /\ [Next]_<<vars, panelVars, schedulerVars>>
        => PanelTopicKept' /\ [topic = "panel" => LogKeepsItsPast]_panelVars
  BY PanelTopicStays
<1>3. QED
  BY <1>1, <1>2, PTL DEF Spec, PanelKeepsItsPast

-----------------------------------------------------------------------------
(* The sweep of the strategy lab.                                            *)
Workers(count) == 1 .. Min({Concurrency, count})
Sweeps(count) ==
  [cursor : 1 .. count + 1, at : [Workers(count) -> 0 .. count], done : SUBSET Workers(count),
   results : [1 .. count -> 0 .. count], failed : BOOLEAN]

\* What makes the places of a sweep's results inductive: every set before the
\* cursor has its result or one worker that is at it, and a worker leaves, unless
\* by a failure, only when the cursor is past the last one.
SweepIInv(s, count) ==
  /\ s \in Sweeps(count)
  /\ \A k \in 1 .. count : s.results[k] \in {0, k} /\ (s.results[k] # 0 => k < s.cursor)
  /\ \A w \in Workers(count) :
       s.at[w] # 0 => s.at[w] < s.cursor /\ s.results[s.at[w]] = 0 /\ w \notin s.done
  /\ \A v, w \in Workers(count) : v # w /\ s.at[v] # 0 => s.at[v] # s.at[w]
  /\ ~s.failed =>
       /\ \A k \in 1 .. s.cursor - 1 : s.results[k] = k \/ \E w \in Workers(count) : s.at[w] = k
       /\ s.done # {} => s.cursor = count + 1

LEMMA SweepStartKept ==
  ASSUME NEW count \in Nat
  PROVE  SweepIInv(SweepStart(count), count)
<1>1. PICK s : s = SweepStart(count)
  OBVIOUS
<1>2. /\ s = [cursor |-> 1, at |-> [w \in Workers(count) |-> 0], done |-> {},
              results |-> [k \in 1 .. count |-> 0], failed |-> FALSE]
  BY <1>1 DEF SweepStart, Workers
<1>3. s \in Sweeps(count)
  BY <1>2 DEF Sweeps
<1>4. QED
  BY <1>1, <1>2, <1>3 DEF SweepIInv

LEMMA SweepTakesKept ==
  ASSUME NEW count \in Nat, NEW s, SweepIInv(s, count), NEW w \in Workers(count), s.at[w] = 0,
         w \notin s.done
  PROVE  SweepIInv(WorkerTakes(s, w), count)
<1>1. PICK t : t = WorkerTakes(s, w)
  OBVIOUS
<1>2. /\ s \in Sweeps(count) /\ Len(s.results) = count
      /\ s.cursor \in 1 .. count + 1 /\ s.at \in [Workers(count) -> 0 .. count]
      /\ s.done \in SUBSET Workers(count) /\ s.results \in [1 .. count -> 0 .. count]
  <2>1. s \in Sweeps(count)
    BY DEF SweepIInv
  <2>2. s.results \in [1 .. count -> 0 .. count]
    BY <2>1 DEF Sweeps
  <2>3. Len(s.results) = count
    BY <2>2
  <2>4. QED
    BY <2>1, <2>2, <2>3 DEF Sweeps
<1>3. CASE s.cursor > count
  <2>1. t = [s EXCEPT !.done = @ \cup {w}]
    BY <1>1, <1>2, <1>3 DEF WorkerTakes
  <2>2. /\ t \in Sweeps(count) /\ t.cursor = s.cursor /\ t.at = s.at /\ t.results = s.results
        /\ t.failed = s.failed /\ t.done = s.done \cup {w}
    BY <1>2, <2>1 DEF Sweeps
  <2>3. t.cursor = count + 1
    BY <1>2, <1>3, <2>2
  <2>4. QED
    BY <1>1, <2>2, <2>3 DEF SweepIInv
<1>4. CASE ~(s.cursor > count)
  <2>1. t = [s EXCEPT !.at[w] = s.cursor, !.cursor = s.cursor + 1]
    BY <1>1, <1>2, <1>4 DEF WorkerTakes
  <2>2. /\ t.cursor = s.cursor + 1 /\ t.at = [s.at EXCEPT ![w] = s.cursor]
        /\ t.results = s.results /\ t.failed = s.failed /\ t.done = s.done
        /\ t \in Sweeps(count)
    <3>1. s.cursor \in 0 .. count /\ s.cursor + 1 \in 1 .. count + 1
      BY <1>2, <1>4
    <3>2. PICK places \in [Workers(count) -> 0 .. count] : places = [s.at EXCEPT ![w] = s.cursor]
      BY <1>2, <3>1
    <3>3. PICK next \in 1 .. count + 1 : next = s.cursor + 1
      BY <3>1
    <3>4. t = [s EXCEPT !.at = places, !.cursor = next]
      BY <2>1, <3>2, <3>3
    <3>5. QED
      BY <1>2, <3>2, <3>3, <3>4 DEF Sweeps
  <2>3. t.at[w] = s.cursor /\ \A v \in Workers(count) : v # w => t.at[v] = s.at[v]
    BY <1>2, <2>2
  <2>4. s.results[s.cursor] = 0 /\ s.cursor \in 1 .. count
    BY <1>2, <1>4 DEF SweepIInv
  <2>5. \A v \in Workers(count) : s.at[v] # s.cursor
    BY <1>2 DEF SweepIInv
  <2>6. ASSUME ~s.failed
        PROVE  /\ \A k \in 1 .. t.cursor - 1 :
                    t.results[k] = k \/ \E v \in Workers(count) : t.at[v] = k
               /\ t.done = {}
    <3>1. s.done = {}
      BY <1>2, <1>4, <2>6 DEF SweepIInv
    <3>2. ASSUME NEW k \in 1 .. t.cursor - 1
          PROVE  t.results[k] = k \/ \E v \in Workers(count) : t.at[v] = k
      <4>1. CASE k = s.cursor
        BY <2>3, <4>1
      <4>2. CASE k # s.cursor
        <5>1. k \in 1 .. s.cursor - 1
          BY <1>2, <2>2, <4>2
        <5>2. CASE s.results[k] = k
          BY <2>2, <5>2
        <5>3. CASE \E v \in Workers(count) : s.at[v] = k
          <6>1. PICK v \in Workers(count) : s.at[v] = k
            BY <5>3
          <6>2. v # w
            BY <5>1, <6>1
          <6>3. QED
            BY <2>3, <6>1, <6>2
        <5>4. QED
          BY <2>6, <5>1, <5>2, <5>3 DEF SweepIInv
      <4>3. QED
        BY <4>1, <4>2
    <3>3. QED
      BY <2>2, <3>1, <3>2
  <2>7. ASSUME NEW v \in Workers(count), t.at[v] # 0
        PROVE  t.at[v] < t.cursor /\ t.results[t.at[v]] = 0 /\ v \notin t.done
    <3>1. CASE v = w
      BY <1>2, <2>2, <2>3, <2>4, <3>1
    <3>2. CASE v # w
      BY <1>2, <2>2, <2>3, <2>7, <3>2 DEF SweepIInv
    <3>3. QED
      BY <3>1, <3>2
  <2>8. ASSUME NEW u \in Workers(count), NEW v \in Workers(count), u # v, t.at[u] # 0
        PROVE  t.at[u] # t.at[v]
    BY <2>3, <2>5, <2>8 DEF SweepIInv
  <2>9. \A k \in 1 .. count : t.results[k] \in {0, k} /\ (t.results[k] # 0 => k < t.cursor)
    BY <1>2, <2>2 DEF SweepIInv
  <2>10. QED
    BY <1>1, <2>2, <2>6, <2>7, <2>8, <2>9 DEF SweepIInv
<1>5. QED
  BY <1>3, <1>4

LEMMA SweepAnswersKept ==
  ASSUME NEW count \in Nat, NEW s, SweepIInv(s, count), NEW w \in Workers(count), s.at[w] # 0
  PROVE  SweepIInv(WorkerAnswers(s, w), count)
<1>1. PICK t, at : t = WorkerAnswers(s, w) /\ at = s.at[w]
  OBVIOUS
<1>2. /\ s \in Sweeps(count) /\ s.cursor \in 1 .. count + 1
      /\ s.at \in [Workers(count) -> 0 .. count] /\ s.results \in [1 .. count -> 0 .. count]
  BY DEF SweepIInv, Sweeps
<1>3. at \in 1 .. count /\ at < s.cursor /\ w \notin s.done /\ s.results[at] = 0
  BY <1>1, <1>2 DEF SweepIInv
<1>4. /\ t.cursor = s.cursor /\ t.done = s.done /\ t.failed = s.failed
      /\ t.at = [s.at EXCEPT ![w] = 0] /\ t.results = [s.results EXCEPT ![at] = at]
      /\ t \in Sweeps(count)
  <2>1. t = [s EXCEPT !.results[at] = at, !.at[w] = 0]
    BY <1>1 DEF WorkerAnswers
  <2>2. PICK places : places = [s.at EXCEPT ![w] = 0] /\ places \in [Workers(count) -> 0 .. count]
    <3>1. [s.at EXCEPT ![w] = 0] \in [Workers(count) -> 0 .. count]
      BY <1>2
    <3>2. QED
      BY <3>1
  <2>3. PICK results : /\ results = [s.results EXCEPT ![at] = at]
                      /\ results \in [1 .. count -> 0 .. count]
    <3>1. [s.results EXCEPT ![at] = at] \in [1 .. count -> 0 .. count]
      BY <1>2, <1>3
    <3>2. QED
      BY <3>1
  <2>4. t = [s EXCEPT !.results = results, !.at = places]
    BY <1>2, <2>1, <2>2, <2>3 DEF Sweeps
  <2>5. /\ t.cursor = s.cursor /\ t.done = s.done /\ t.failed = s.failed
        /\ t.at = places /\ t.results = results
    BY <1>2, <2>4, Zenon DEF Sweeps
  <2>6. t \in Sweeps(count)
    BY <1>2, <2>2, <2>3, <2>4 DEF Sweeps
  <2>7. QED
    BY <2>2, <2>3, <2>5, <2>6
<1>5. t.at[w] = 0 /\ \A v \in Workers(count) : v # w => t.at[v] = s.at[v]
  BY <1>2, <1>4
<1>6. t.results[at] = at /\ \A k \in 1 .. count : k # at => t.results[k] = s.results[k]
  BY <1>2, <1>3, <1>4
<1>7. ASSUME NEW v \in Workers(count), t.at[v] # 0
      PROVE  t.at[v] < t.cursor /\ t.results[t.at[v]] = 0 /\ v \notin t.done
  <2>1. v # w /\ t.at[v] = s.at[v] /\ s.at[v] # at
    BY <1>1, <1>5, <1>7 DEF SweepIInv
  <2>2. s.at[v] \in 1 .. count
    BY <1>2, <1>7, <2>1
  <2>3. QED
    BY <1>4, <1>6, <1>7, <2>1, <2>2 DEF SweepIInv
<1>8. ASSUME NEW u \in Workers(count), NEW v \in Workers(count), u # v, t.at[u] # 0
      PROVE  t.at[u] # t.at[v]
  BY <1>5, <1>8 DEF SweepIInv
<1>9. \A k \in 1 .. count : t.results[k] \in {0, k} /\ (t.results[k] # 0 => k < t.cursor)
  BY <1>2, <1>3, <1>4, <1>6 DEF SweepIInv
<1>10. ASSUME ~s.failed, NEW k \in 1 .. t.cursor - 1
       PROVE  t.results[k] = k \/ \E v \in Workers(count) : t.at[v] = k
  <2>1. k \in 1 .. s.cursor - 1 /\ k \in 1 .. count
    BY <1>2, <1>4
  <2>2. CASE k = at
    BY <1>6, <2>2
  <2>3. CASE k # at
    BY <1>1, <1>5, <1>6, <1>10, <2>1, <2>3 DEF SweepIInv
  <2>4. QED
    BY <2>2, <2>3
<1>11. QED
  BY <1>1, <1>4, <1>7, <1>8, <1>9, <1>10 DEF SweepIInv

LEMMA SweepFailsKept ==
  ASSUME NEW count \in Nat, NEW s, SweepIInv(s, count), NEW w \in Workers(count)
  PROVE  SweepIInv(WorkerFails(s, w), count)
<1>1. PICK t : t = WorkerFails(s, w)
  OBVIOUS
<1>2. s \in Sweeps(count) /\ s.at \in [Workers(count) -> 0 .. count]
  BY DEF SweepIInv, Sweeps
<1>3. /\ t.cursor = s.cursor /\ t.done = s.done \cup {w} /\ t.failed = TRUE
      /\ t.at = [s.at EXCEPT ![w] = 0] /\ t.results = s.results /\ t \in Sweeps(count)
  <2>1. PICK places : places = [s.at EXCEPT ![w] = 0] /\ places \in [Workers(count) -> 0 .. count]
    <3>1. [s.at EXCEPT ![w] = 0] \in [Workers(count) -> 0 .. count]
      BY <1>2
    <3>2. QED
      BY <3>1
  <2>2. t = [s EXCEPT !.failed = TRUE, !.at = places, !.done = s.done \cup {w}]
    BY <1>1, <1>2, <2>1 DEF WorkerFails, Sweeps
  <2>3. PICK left \in SUBSET Workers(count) : left = s.done \cup {w}
    BY <1>2 DEF Sweeps
  <2>4. t = [s EXCEPT !.failed = TRUE, !.at = places, !.done = left]
    BY <2>2, <2>3
  <2>5. t \in Sweeps(count)
    BY <1>2, <2>1, <2>3, <2>4 DEF Sweeps
  <2>6. /\ t.cursor = s.cursor /\ t.done = left /\ t.failed = TRUE
        /\ t.at = places /\ t.results = s.results
    BY <1>2, <2>4, Zenon DEF Sweeps
  <2>7. QED
    BY <2>1, <2>3, <2>5, <2>6
<1>4. t.at[w] = 0 /\ \A v \in Workers(count) : v # w => t.at[v] = s.at[v]
  BY <1>2, <1>3
<1>5. QED
  BY <1>1, <1>3, <1>4 DEF SweepIInv

\* The property, of what is kept.
LEMMA KeptSweepIsSound ==
  ASSUME NEW count \in Nat, NEW s, SweepIInv(s, count)
  PROVE  SweepKeepsPlaces(s)
<1>1. /\ s.cursor \in 1 .. count + 1 /\ s.done \subseteq Workers(count)
      /\ DOMAIN s.at = Workers(count) /\ DOMAIN s.results = 1 .. count
  BY DEF SweepIInv, Sweeps
<1>2. ASSUME SweepOver(s), ~s.failed, NEW k \in 1 .. count PROVE s.results[k] = k
  <2>1. 1 \in Workers(count)
    <3>1. Min({Concurrency, count}) \in 1 .. count
      BY MinOfTwo DEF Concurrency
    <3>2. QED
      BY <3>1 DEF Workers
  <2>2. s.cursor = count + 1
    BY <1>1, <1>2, <2>1 DEF SweepOver, SweepIInv
  <2>3. s.results[k] = k \/ \E w \in Workers(count) : s.at[w] = k
    BY <1>2, <2>2 DEF SweepIInv
  <2>4. \A w \in Workers(count) : s.at[w] = 0
    BY <1>1, <1>2 DEF SweepOver, SweepIInv
  <2>5. QED
    BY <2>3, <2>4
<1>3. QED
  BY <1>1, <1>2 DEF SweepKeepsPlaces, SweepIInv

-----------------------------------------------------------------------------
\* The sweep among the topics.
SweepTopicKept == topic = "sweep" => \E count \in Nat : SweepIInv(input, count)

LEMMA SweepTopicStays ==
  ASSUME SweepTopicKept, [Next]_<<vars, panelVars, schedulerVars>>
  PROVE  SweepTopicKept'
<1>1. CASE Rules
  <2>1. CASE AskSweep
    <3>1. PICK n \in {0, 1, 3, 7} : input' = SweepStart(n)
      BY <2>1 DEF AskSweep
    <3>2. PICK count \in Nat : count = n
      OBVIOUS
    <3>3. SweepIInv(SweepStart(count), count)
      BY SweepStartKept
    <3>4. QED
      BY <3>1, <3>2, <3>3 DEF SweepTopicKept
  <2>2. CASE SweepTakes \/ SweepAnswers \/ SweepFails
    <3>1. topic = "sweep"
      BY <2>2, Zenon DEF SweepTakes, SweepAnswers, SweepFails
    <3>2. PICK count \in Nat : SweepIInv(input, count)
      BY <3>1 DEF SweepTopicKept
    <3>3. DOMAIN input.at = Workers(count)
      BY <3>2 DEF SweepIInv, Sweeps
    <3>4. CASE SweepTakes
      <4>1. PICK w \in DOMAIN input.at :
              input.at[w] = 0 /\ w \notin input.done /\ input' = WorkerTakes(input, w)
        BY <3>4 DEF SweepTakes
      <4>2. SweepIInv(input', count)
        BY <3>2, <3>3, <4>1, SweepTakesKept
      <4>3. QED
        BY <4>2 DEF SweepTopicKept
    <3>5. CASE SweepAnswers
      <4>1. PICK w \in DOMAIN input.at : input.at[w] # 0 /\ input' = WorkerAnswers(input, w)
        BY <3>5 DEF SweepAnswers
      <4>2. SweepIInv(input', count)
        BY <3>2, <3>3, <4>1, SweepAnswersKept
      <4>3. QED
        BY <4>2 DEF SweepTopicKept
    <3>6. CASE SweepFails
      <4>1. PICK w \in DOMAIN input.at : input' = WorkerFails(input, w)
        BY <3>6 DEF SweepFails
      <4>2. SweepIInv(input', count)
        BY <3>2, <3>3, <4>1, SweepFailsKept
      <4>3. QED
        BY <4>2 DEF SweepTopicKept
    <3>7. QED
      BY <2>2, <3>4, <3>5, <3>6
  <2>3. QED
    BY <1>1, <2>1, <2>2, TopicsOfRules, Zenon DEF RuleTopics, SweepTopicKept
<1>2. CASE ~Rules
  <2>1. topic' = topic /\ input' = input
    BY <1>2 DEF Next, vars
  <2>2. QED
    BY <2>1 DEF SweepTopicKept
<1>3. QED
  BY <1>1, <1>2

\* Theorem: however the workers of a sweep of any number of parameter sets take
\* turns and fail, no set is replayed twice, each result is at its place, and a
\* sweep that is over without a failure has them all.
THEOREM SweepSound == Spec => [](topic = "sweep" => SweepKeepsPlaces(input))
<1>1. Init => SweepTopicKept
  BY Zenon DEF Init, SweepTopicKept
<1>2. SweepTopicKept /\ [Next]_<<vars, panelVars, schedulerVars>> => SweepTopicKept'
  BY SweepTopicStays
<1>3. SweepTopicKept => (topic = "sweep" => SweepKeepsPlaces(input))
  BY KeptSweepIsSound DEF SweepTopicKept
<1>4. QED
  BY <1>1, <1>2, <1>3, PTL DEF Spec


-----------------------------------------------------------------------------
(* Historical candles among the topics.  The run's requests and providers are *)
(* of the kind that the theorems of MarketProofs are about.                 *)

LEMMA PricesAreNumbers ==
  ASSUME NEW o \in Nat
  PROVE  /\ CandleAt(o).open = o /\ CandleAt(o).volume \in Nat
         /\ CandleAt(o).high \in Int /\ CandleAt(o).low \in Int
<1>1. (o * 5) % 4 \in Int /\ ((o + 1) * 5) % 4 \in Int /\ o % 3 \in Nat
  OBVIOUS
<1>2. Price(o) \in Int /\ Price(o + 1) \in Int
  BY <1>1 DEF Price
<1>3. PICK c : c = CandleAt(o)
  OBVIOUS
<1>4. c.open = o /\ c.volume = 1 + (o % 3) /\ c.high = Price(o) + Price(o + 1) /\ c.low = 0
  BY <1>3 DEF CandleAt
<1>5. QED
  BY <1>1, <1>2, <1>3, <1>4

\* Candles at even times, as the run has them.
LEMMA EvenCandles ==
  ASSUME NEW opens, IsFiniteSet(opens), opens \subseteq Nat, \A o \in opens : o % 2 = 0,
         NEW candles, candles = {CandleAt(o) : o \in opens}
  PROVE  /\ Distinct(candles)
         /\ \A c \in candles : c.open % 2 = 0
         /\ \A c, d \in candles : c.open < d.open => c.open + 2 <= d.open
         /\ \A c \in candles : c.volume \in Nat /\ c.high \in Int /\ c.low \in Int
<1>1. PICK f : f = [o \in opens |-> CandleAt(o)]
  OBVIOUS
<1>2. f \in Surjection(opens, candles)
  BY <1>1 DEF Surjection
<1>3. IsFiniteSet(candles)
  BY <1>2, FS_Surjection
<1>4. ASSUME NEW c \in candles
      PROVE  /\ c.open \in opens /\ c = CandleAt(c.open)
             /\ c.volume \in Nat /\ c.high \in Int /\ c.low \in Int
  <2>1. PICK o \in opens : c = CandleAt(o)
    OBVIOUS
  <2>2. o \in Nat
    OBVIOUS
  <2>3. QED
    BY <2>1, <2>2, PricesAreNumbers
<1>5. \A c \in candles : c.open \in Int /\ c.open % 2 = 0
  BY <1>4
<1>6. \A c, d \in candles : c.open = d.open => c = d
  BY <1>4
<1>7. ASSUME NEW c \in candles, NEW d \in candles, c.open < d.open PROVE c.open + 2 <= d.open
  <2>1. PICK a \in Int, b \in Int : a = c.open /\ b = d.open
    BY <1>5
  <2>2. a % 2 = 0 /\ b % 2 = 0 /\ a < b
    BY <1>5, <1>7, <2>1
  <2>3. a + 2 <= b
    BY <2>2
  <2>4. QED
    BY <2>1, <2>3
<1>8. QED
  BY <1>3, <1>4, <1>5, <1>6, <1>7 DEF Distinct

LEMMA RequestsAreNumbers ==
  ASSUME NEW start \in Nat, NEW end \in Nat, NEW now \in Nat, NEW source, NEW ratio \in Nat \ {0},
         NEW limit, NEW req, req = KlineRequest(start, end, now, source, ratio, limit)
  PROVE  /\ req.start \in Int /\ req.end \in Int /\ req.now \in Int /\ req.now = now /\ req.end = end
         /\ req.step = 2 /\ req.pageLimit = 2 /\ req.maxPages = 3 /\ req.ratio = ratio
BY DEF KlineRequest

LEMMA BoundedIsFinite ==
  ASSUME NEW last \in Nat, NEW S, \A o \in S : o \in 0 .. last
  PROVE  IsFiniteSet(S)
<1>1. IsFiniteSet(0 .. last) /\ S \in SUBSET (0 .. last)
  BY FS_Interval
<1>2. QED
  BY <1>1, FS_Subset

LEMMA HistoriesAreSound ==
  ASSUME NEW req \in KlineRequests, NEW provider \in Providers
  PROVE  HistoryIsHonest(provider, req) /\ FetchedOnceIsEnough(provider, req)
<1>1. PICK w \in {<<0, 9>>, <<0, 12>>, <<2, 16>>, <<4, 4>>}, source \in {"any", "live"},
           ratio \in {1, 3}, limit \in {1, 3} : req = KlineRequest(w[1], w[2], w[2], source, ratio, limit)
  BY DEF KlineRequests
<1>2. PICK start \in Nat, end \in Nat : start = w[1] /\ end = w[2]
  <2>1. w[1] \in Nat /\ w[2] \in Nat
    OBVIOUS
  <2>2. QED
    BY <2>1
<1>3. /\ req.start \in Int /\ req.end \in Int /\ req.now \in Int /\ req.now = req.end
      /\ req.step = 2 /\ req.pageLimit = 2 /\ req.maxPages = 3
  BY <1>1, <1>2, RequestsAreNumbers
<1>4. PICK opens \in SUBSET {0, 2, 4, 6, 8} : provider.candles = {CandleAt(o) : o \in opens}
  BY DEF Providers
<1>5. IsFiniteSet(opens) /\ opens \subseteq Nat /\ \A o \in opens : o % 2 = 0
  <2>1. PICK last \in Nat : last = 8
    OBVIOUS
  <2>2. \A o \in opens : o \in 0 .. last
    BY <2>1
  <2>3. IsFiniteSet(opens)
    BY <2>2, BoundedIsFinite
  <2>4. QED
    BY <2>3
<1>6. PICK candles : candles = provider.candles
  OBVIOUS
<1>7. /\ Distinct(candles) /\ \A c \in candles : c.open % 2 = 0
      /\ \A c, d \in candles : c.open < d.open => c.open + 2 <= d.open
  BY <1>4, <1>5, <1>6, EvenCandles
<1>8. provider.pages \in [1 .. 3 -> PageKinds]
  BY DEF Providers
<1>9. Fetchable(provider, req)
  BY <1>3, <1>6, <1>7, <1>8 DEF Fetchable
<1>10. OnGrid(provider.candles, req)
  BY <1>3, <1>6, <1>7 DEF OnGrid, Distinct
<1>11. req.now >= req.end
  BY <1>3
<1>12. QED
  BY <1>9, <1>10, <1>11, HistoryHonest, FetchedOnce

LEMMA ChartsAreSound ==
  ASSUME NEW opens \in SUBSET {2 * i : i \in 0 .. 9}, NEW ratio \in {1, 2, 3}, NEW end \in {12, 17, 19},
         NEW store, store = {CandleAt(o) : o \in opens},
         NEW req, req = KlineRequest(2, end, end, "any", ratio, 4)
  PROVE  CacheIsWhole(store, req) /\ DerivedCandlesAreRight(store, req)
<1>1. IsFiniteSet(opens) /\ opens \subseteq Nat /\ \A o \in opens : o % 2 = 0
  <2>1. PICK last \in Nat : last = 18
    OBVIOUS
  <2>2. \A o \in opens : o \in 0 .. last
    BY <2>1
  <2>3. IsFiniteSet(opens)
    BY <2>2, BoundedIsFinite
  <2>4. \A o \in opens : o \in Nat /\ o % 2 = 0
    OBVIOUS
  <2>5. QED
    BY <2>3, <2>4
<1>2. /\ Distinct(store) /\ \A c \in store : c.open % 2 = 0
      /\ \A c \in store : c.volume \in Nat /\ c.high \in Int /\ c.low \in Int
  BY <1>1, EvenCandles
<1>3. /\ req.start \in Int /\ req.end \in Int /\ req.step = 2
      /\ req.ratio \in Nat \ {0} /\ req.step \in Nat \ {0}
  <2>1. 2 \in Nat /\ end \in Nat /\ ratio \in Nat \ {0}
    OBVIOUS
  <2>2. QED
    BY <2>1, RequestsAreNumbers
<1>4. OnGrid(store, req)
  BY <1>2, <1>3 DEF OnGrid, Distinct
<1>5. CacheIsWhole(store, req)
  BY <1>3, <1>4, CacheWhole
<1>6. DerivedCandlesAreRight(store, req)
  BY <1>2, <1>3, DerivedRight
<1>7. QED
  BY <1>5, <1>6

LEMMA RangesAreSound ==
  ASSUME NEW interval \in {"1m", "5m", "10m", "15m", "30m", "1h", "4h", "1d", "1w", "1M"},
         NEW range \in Range(RangeOrder), NEW days \in {3000, 5000}
  PROVE  RangeFitsPages(interval, range, 80, 1000, days)
<1>1. range \in {"1D", "3D", "1W", "1M", "3M", "1Y", "ALL"}
  BY DEF Range, RangeOrder
<1>2. days \in Nat /\ 0 < days /\ days <= 80000
  OBVIOUS
<1>3. QED
  BY <1>1, <1>2, RangeFits

(* Live market data among the topics.                                        *)
LEMMA ListsOf ==
  ASSUME NEW R
  PROVE  /\ \A n \in Nat : \A rows \in [1 .. n -> R] : rows \in Seq(R)
         /\ \A a, b \in R : <<a>> \in Seq(R) /\ <<a, b>> \in Seq(R)
OBVIOUS

LEMMA RepliesAreRows ==
  /\ \A reply \in AllCandles : IsReply(reply)
  /\ \A reply \in FewCandles : IsReply(reply)
<1>1. RowSet \subseteq [open : Int, ok : BOOLEAN]
  <2>1. {3, 5, 7, 9} \subseteq Int /\ {7} \subseteq Int /\ {TRUE} \subseteq BOOLEAN /\ {FALSE} \subseteq BOOLEAN
    OBVIOUS
  <2>2. \A A, B : A \subseteq Int /\ B \subseteq BOOLEAN => [open : A, ok : B] \subseteq [open : Int, ok : BOOLEAN]
    OBVIOUS
  <2>3. QED
    BY <2>1, <2>2, Zenon DEF RowSet
<1>2. ASSUME NEW S, NEW reply \in Answers(S) PROVE reply.rows \in S
  BY DEF Answers
<1>3. ASSUME NEW n \in Nat, NEW rows \in [1 .. n -> RowSet] PROVE rows \in ProviderRows
  <2>1. rows \in [1 .. n -> [open : Int, ok : BOOLEAN]]
    BY <1>1
  <2>2. QED
    BY <2>1, ListsOf, Zenon DEF ProviderRows
<1>4. ASSUME NEW reply \in AllCandles PROVE IsReply(reply)
  <2>1. CASE reply \in Answers(UNION {[1 .. n -> RowSet] : n \in 0 .. 3})
    <3>1. reply.rows \in UNION {[1 .. n -> RowSet] : n \in 0 .. 3}
      BY <1>2, <2>1
    <3>2. PICK n \in 0 .. 3 : reply.rows \in [1 .. n -> RowSet]
      BY <3>1
    <3>3. QED
      BY <1>3, <3>2 DEF IsReply
  <2>2. CASE reply.kind # "answer"
    BY <2>2 DEF IsReply
  <2>3. \/ reply \in Answers(UNION {[1 .. n -> RowSet] : n \in 0 .. 3})
        \/ reply \in {[kind |-> "http error"], [kind |-> "other shape"], [kind |-> "exception"]}
    BY Zenon DEF AllCandles
  <2>4. CASE reply = [kind |-> "http error"]
    <3>1. reply.kind = "http error"
      BY <2>4, Zenon
    <3>2. QED
      BY <2>2, <3>1
  <2>5. CASE reply = [kind |-> "other shape"]
    <3>1. reply.kind = "other shape"
      BY <2>5, Zenon
    <3>2. QED
      BY <2>2, <3>1
  <2>6. CASE reply = [kind |-> "exception"]
    <3>1. reply.kind = "exception"
      BY <2>6, Zenon
    <3>2. QED
      BY <2>2, <3>1
  <2>7. QED
    BY <2>1, <2>3, <2>4, <2>5, <2>6, Zenon
<1>5. ASSUME NEW reply \in FewCandles PROVE IsReply(reply)
  <2>1. CASE reply \in Answers({<<[open |-> 5, ok |-> TRUE], [open |-> 7, ok |-> TRUE]>>,
                                <<[open |-> 9, ok |-> TRUE]>>})
    <3>1. reply.rows \in {<<[open |-> 5, ok |-> TRUE], [open |-> 7, ok |-> TRUE]>>,
                          <<[open |-> 9, ok |-> TRUE]>>}
      BY <1>2, <2>1
    <3>2. [open |-> 5, ok |-> TRUE] \in [open : Int, ok : BOOLEAN]
          /\ [open |-> 7, ok |-> TRUE] \in [open : Int, ok : BOOLEAN]
          /\ [open |-> 9, ok |-> TRUE] \in [open : Int, ok : BOOLEAN]
      OBVIOUS
    <3>3. QED
      BY <3>1, <3>2, ListsOf, Zenon DEF IsReply, ProviderRows
  <2>2. CASE reply.kind # "answer"
    BY <2>2 DEF IsReply
  <2>3. QED
    BY <2>1, <2>2 DEF FewCandles
<1>6. QED
  BY <1>4, <1>5

LEMMA LiveIsSound ==
  ASSUME NEW req \in MarketDataRequests, NEW net \in Nets
  PROVE  ResponseIsSound(req, net) /\ ResponseIsBest(req, net)
<1>1. req.lookback \in {1, 2} /\ req.step \in {2, 10} /\ req.now \in {11, 12, 15, 16, 17, 25}
      /\ req.provider \in {"binance", "coinbase"}
  BY DEF MarketDataRequests
<1>2. IsRequest(req)
  BY <1>1 DEF IsRequest
<1>3. /\ net.binanceCandles \in AllCandles \cup FewCandles
      /\ net.coinbaseCandles \in AllCandles \cup FewCandles
  BY DEF Nets
<1>4. IsReply(net.binanceCandles) /\ IsReply(net.coinbaseCandles)
  BY <1>3, RepliesAreRows
<1>5. QED
  BY <1>2, <1>4, ResponseSound

LEMMA AskedCandlesAreSound ==
  ASSUME Rules
  PROVE  CandlesAreSound'
<1>1. RuleTopics
  BY TopicsOfRules
<1>2. ASSUME topic' = "history"
      PROVE  HistoryIsHonest(input'.provider, input'.req) /\ FetchedOnceIsEnough(input'.provider, input'.req)
  <2>1. PICK req \in KlineRequests, provider \in Providers : input' = [req |-> req, provider |-> provider]
    BY <1>1, <1>2 DEF RuleTopics, AskHistory
  <2>2. input'.req = req /\ input'.provider = provider
    BY <2>1
  <2>3. QED
    BY <2>2, HistoriesAreSound
<1>3. ASSUME topic' = "chart"
      PROVE  CacheIsWhole(input'.store, input'.req) /\ DerivedCandlesAreRight(input'.store, input'.req)
  <2>1. PICK opens \in SUBSET {2 * i : i \in 0 .. 9}, ratio \in {1, 2, 3}, end \in {12, 17, 19} :
          input' = [store |-> {CandleAt(o) : o \in opens},
                    req |-> KlineRequest(2, end, end, "any", ratio, 4)]
    BY <1>1, <1>3 DEF RuleTopics, AskChart
  <2>2. /\ input'.store = {CandleAt(o) : o \in opens}
        /\ input'.req = KlineRequest(2, end, end, "any", ratio, 4)
    BY <2>1
  <2>3. QED
    BY <2>2, ChartsAreSound
<1>4. ASSUME topic' = "range"
      PROVE  RangeFitsPages(input'.interval, input'.range, 80, 1000, input'.days)
  <2>1. PICK interval \in {"1m", "5m", "10m", "15m", "30m", "1h", "4h", "1d", "1w", "1M"},
             range \in Range(RangeOrder), days \in {3000, 5000} :
               input' = [interval |-> interval, range |-> range, days |-> days]
    BY <1>1, <1>4 DEF RuleTopics, AskRange
  <2>2. input'.interval = interval /\ input'.range = range /\ input'.days = days
    BY <2>1
  <2>3. QED
    BY <2>2, RangesAreSound
<1>5. ASSUME topic' = "market data"
      PROVE  ResponseIsSound(input'.req, input'.net) /\ ResponseIsBest(input'.req, input'.net)
  <2>1. PICK req \in MarketDataRequests, net \in Nets : input' = [req |-> req, net |-> net]
    BY <1>1, <1>5 DEF RuleTopics, AskMarketData
  <2>2. input'.req = req /\ input'.net = net
    BY <2>1
  <2>3. QED
    BY <2>2, LiveIsSound
<1>6. QED
  BY <1>2, <1>3, <1>4, <1>5 DEF CandlesAreSound

\* Theorem: what a chart shows is sound, whatever was asked for and answered.
THEOREM CandlesSound == Spec => []CandlesAreSound
<1>1. Init => CandlesAreSound
  <2>1. Init => /\ topic # "history" /\ topic # "chart" /\ topic # "range"
                /\ topic # "market data"
    BY Zenon DEF Init
  <2>2. QED
    BY <2>1 DEF CandlesAreSound
<1>2. CandlesAreSound /\ [Next]_<<vars, panelVars, schedulerVars>> => CandlesAreSound'
  <2>1. Rules => CandlesAreSound'
    BY AskedCandlesAreSound
  <2>2. ASSUME CandlesAreSound, [Next]_<<vars, panelVars, schedulerVars>>, ~Rules PROVE CandlesAreSound'
    <3>1. topic' = topic /\ input' = input
      BY <2>2 DEF Next, vars
    <3>2. topic' = "market data"
            => ResponseIsSound(input'.req, input'.net) /\ ResponseIsBest(input'.req, input'.net)
      BY ZenonT(40), <2>2, <3>1 DEF CandlesAreSound
    <3>3. topic' = "history"
            => HistoryIsHonest(input'.provider, input'.req) /\ FetchedOnceIsEnough(input'.provider, input'.req)
      BY <2>2, <3>1 DEF CandlesAreSound
    <3>4. topic' = "chart"
            => CacheIsWhole(input'.store, input'.req) /\ DerivedCandlesAreRight(input'.store, input'.req)
      BY <2>2, <3>1 DEF CandlesAreSound
    <3>5. topic' = "range" => RangeFitsPages(input'.interval, input'.range, 80, 1000, input'.days)
      BY <2>2, <3>1 DEF CandlesAreSound
    <3>6. QED
      BY <3>2, <3>3, <3>4, <3>5 DEF CandlesAreSound
  <2>3. QED
    BY <2>1, <2>2
<1>3. QED
  BY <1>1, <1>2, PTL DEF Spec
-----------------------------------------------------------------------------
\* The directional signal.
LEMMA AskedFeatures == Features \subseteq FeatureSets
<1>1. \A t \in Trends : t.gap \in Int /\ t.slope \in Int /\ t.above \in Int
  BY DEF Trends
<1>2. \A m \in Moves : m.r1 \in Int /\ m.r3 \in Int /\ m.r5 \in Int
  BY DEF Moves
<1>3. \A d \in Macds : d.hist \in Int /\ d.histSlope \in Int
  BY DEF Macds
<1>4. \A b \in Bands : /\ b.regime \in {"low", "normal", "high"} /\ b.expansion \in BOOLEAN
                       /\ b.width \in Int /\ b.atr \in Nat \ {0}
  <2>1. \A b \in Bands : b.regime \in {"low", "normal", "high"}
    BY DEF Bands
  <2>2. \A b \in Bands : b.expansion \in BOOLEAN
    <3>1. Bands \subseteq [regime : {"low", "normal", "high"}, expansion : BOOLEAN, width : Int, atr : Int]
      BY DEF Bands
    <3>2. QED
      BY <3>1
  <2>3. \A b \in Bands : b.width \in Int
    BY DEF Bands
  <2>4. \A b \in Bands : b.atr \in Nat \ {0}
    BY DEF Bands
  <2>5. QED
    BY <2>1, <2>2, <2>3, <2>4
<1>5. ASSUME NEW d \in Macds, NEW b \in Bands
      PROVE  Over(d.hist * 1000, b.atr) * 1000 \in Int
  <2>1. PICK n \in Int, atr \in Nat \ {0} : n = d.hist * 1000 /\ atr = b.atr
    BY <1>3, <1>4
  <2>2. Over(n, atr) \in Int
    BY OverIs
  <2>3. QED
    BY <2>1, <2>2
<1>6. ASSUME NEW t \in Trends, NEW m \in Moves, NEW d \in Macds, NEW b \in Bands,
             NEW rsi \in {50, 80}, NEW band \in {50, 95}, NEW z \in {-20, 6, 25}
      PROVE  ConfluenceFeatures(t, m, d, b, rsi, band, z) \in FeatureSets
  <2>1. t.gap \in Int /\ t.slope \in Int /\ t.above \in Int
    BY <1>1
  <2>2. m.r1 \in Int /\ m.r3 \in Int /\ m.r5 \in Int
    BY <1>2
  <2>3. d.hist \in Int /\ d.histSlope \in Int /\ Over(d.hist * 1000, b.atr) * 1000 \in Int
    BY <1>3, <1>5
  <2>4. /\ b.regime \in {"low", "normal", "high"} /\ b.expansion \in BOOLEAN
         /\ b.width \in Int /\ b.atr \in Int
    BY <1>4
  <2>5. rsi \in Int /\ band \in Int /\ z \in Int
    OBVIOUS
  <2>6. (b.width < 12000) \in BOOLEAN /\ (Size(z) >= 15) \in BOOLEAN
    OBVIOUS
  <2>7. QED
    BY <2>1, <2>2, <2>3, <2>4, <2>5, <2>6 DEF FeatureSets, ConfluenceFeatures
<1>7. \A features \in Features :
        \E t \in Trends, m \in Moves, d \in Macds, b \in Bands, rsi \in {50, 80},
           band \in {50, 95}, z \in {-20, 6, 25} : features = ConfluenceFeatures(t, m, d, b, rsi, band, z)
  BY DEF Features
<1>8. QED
  BY <1>6, <1>7

LEMMA AskedContexts == Contexts \subseteq SignalContexts
BY DEF Contexts, NoContext, SignalContexts

\* What is asked of the confluence is even.
ConfluenceKept ==
  topic = "confluence" => DirectionsAreEven(input.features, "ok", input.context, input.horizon)

LEMMA AskedSignalsAreEven ==
  ASSUME Rules
  PROVE  ConfluenceKept'
<1>1. RuleTopics
  BY TopicsOfRules
<1>2. ASSUME topic' = "confluence"
      PROVE  DirectionsAreEven(input'.features, "ok", input'.context, input'.horizon)
  <2>1. PICK features \in Features, context \in Contexts, horizon \in {"5m", "10m"} :
          input' = [features |-> features, context |-> context, horizon |-> horizon]
    BY <1>1, <1>2 DEF RuleTopics, AskConfluence
  <2>2. input'.features = features /\ input'.context = context /\ input'.horizon = horizon
    BY <2>1
  <2>3. features \in FeatureSets /\ context \in SignalContexts
    BY AskedFeatures, AskedContexts
  <2>4. DirectionsAreEven(features, "ok", context, horizon)
    BY <2>3, DirectionsEven
  <2>5. QED
    BY <2>2, <2>4
<1>3. QED
  BY <1>2 DEF ConfluenceKept

\* Theorem: the signals asked for are even, and backed by a trend; the first part
\* of SignalsAreSound.
THEOREM ConfluenceIsEven == Spec => []ConfluenceKept
<1>1. Init => ConfluenceKept
  <2>1. Init => topic # "confluence"
    BY Zenon DEF Init
  <2>2. QED
    BY <2>1 DEF ConfluenceKept
<1>2. ConfluenceKept /\ [Next]_<<vars, panelVars, schedulerVars>> => ConfluenceKept'
  <2>1. Rules => ConfluenceKept'
    BY AskedSignalsAreEven
  <2>2. ASSUME ConfluenceKept, [Next]_<<vars, panelVars, schedulerVars>>, ~Rules
        PROVE  ConfluenceKept'
    <3>1. topic' = topic /\ input' = input
      BY <2>2 DEF Next, vars
    <3>2. QED
      BY <2>2, <3>1 DEF ConfluenceKept
  <2>3. QED
    BY <2>1, <2>2
<1>3. QED
  BY <1>1, <1>2, PTL DEF Spec
-----------------------------------------------------------------------------
(* The fair value signal among the topics.                                   *)
IsPricedMarket(m) ==
  m.text.expiry \in Int /\ m.odds.yes \in Int /\ m.odds.no \in Int /\ m.odds.spread \in Int
IsFairValueInput(in) ==
  /\ SignalOptions(in.options) /\ in.candles \in Seq(PricedCandles)
  /\ \E n \in Nat : DOMAIN in.markets = 1 .. n /\ Len(in.markets) = n
  /\ \A i \in DOMAIN in.markets : IsPricedMarket(in.markets[i])

LEMMA BoundIs ==
  ASSUME NEW candidate, candidate.expiry \in Int,
         NEW odds, odds.yes \in Int, odds.no \in Int, odds.spread \in Int, NEW priceOf
  PROVE  /\ IsBoundMarket(BindMarket(candidate, odds, priceOf))
         /\ BindMarket(candidate, odds, priceOf).symbol \in {"BTC", "ETH"}
<1>1. PICK market : market = BindMarket(candidate, odds, priceOf)
  OBVIOUS
<1>2. /\ market.candidate = candidate /\ market.odds = odds
      /\ market.symbol = IF candidate.named = {"ETH"} THEN "ETH" ELSE "BTC"
      /\ market.bindingStatus = CASE Cardinality(candidate.named) = 1 -> "bound"
                                  [] Cardinality(candidate.named) = 2 -> "ambiguous"
                                  [] OTHER                            -> "unsupported"
  BY <1>1 DEF BindMarket
<1>3. market.bindingStatus = "bound" => Cardinality(market.candidate.named) = 1
  BY <1>2
<1>4. QED
  BY <1>1, <1>2, <1>3 DEF IsBoundMarket

LEMMA AnswersArePriced ==
  ASSUME NEW in, IsFairValueInput(in)
  PROVE  LET response == FairValueAnswer(in) IN
         SignalsArePriced(response, in.options) /\ EveryMarketIsAccounted(in.markets, response)
<1>1. PICK N \in Nat : DOMAIN in.markets = 1 .. N /\ Len(in.markets) = N
  BY DEF IsFairValueInput
<1>2. PICK markets : markets = [i \in 1 .. N |->
                       BindMarket(in.markets[i].text, in.markets[i].odds, [BTC |-> 101])]
  OBVIOUS
<1>3. PICK candlesOf : candlesOf = [BTC |-> in.candles, ETH |-> <<>>]
  OBVIOUS
<1>4. candlesOf["BTC"] \in Seq(PricedCandles) /\ candlesOf["ETH"] \in Seq(PricedCandles)
  <2>1. candlesOf["BTC"] = in.candles /\ candlesOf["ETH"] = <<>>
    BY <1>3
  <2>2. <<>> \in Seq(PricedCandles)
    OBVIOUS
  <2>3. QED
    BY <2>1, <2>2 DEF IsFairValueInput
<1>5. \A i \in 1 .. N : IsBoundMarket(markets[i]) /\ markets[i].symbol \in {"BTC", "ETH"}
  BY <1>1, <1>2, BoundIs DEF IsFairValueInput, IsPricedMarket
<1>6. PICK S : S = {markets[i] : i \in 1 .. N}
  OBVIOUS
<1>7. markets \in Seq(S) /\ DOMAIN markets = 1 .. N /\ Len(markets) = N
  <2>1. markets \in [1 .. N -> S]
    BY <1>2, <1>6
  <2>2. QED
    BY <2>1, LenProperties
<1>8. \A i \in DOMAIN markets : candlesOf[markets[i].symbol] \in Seq(PricedCandles)
  BY <1>4, <1>5, <1>7
<1>9. PICK response : response =
        FairValueResponse(markets, [BTC |-> Null, ETH |-> 99], candlesOf, 15, in.options)
  OBVIOUS
<1>10. SignalsArePriced(response, in.options) /\ EveryMarketIsAccounted(markets, response)
  BY <1>5, <1>7, <1>8, <1>9, FairValueSound DEF IsFairValueInput
<1>11. FairValueAnswer(in) = response
  BY <1>1, <1>2, <1>3, <1>9 DEF FairValueAnswer
<1>12. EveryMarketIsAccounted(in.markets, response)
  BY <1>1, <1>7, <1>10 DEF EveryMarketIsAccounted
<1>13. QED
  BY <1>10, <1>11, <1>12

LEMMA OptionsAreNumbers == \A options \in FairValueOptions : SignalOptions(options)
<1>1. ASSUME NEW options \in FairValueOptions PROVE SignalOptions(options)
  <2>1. /\ options.cost \in {0, 25} /\ options.minEdge \in {0, 250} /\ options.minConfidence \in {0, 1000}
        /\ options.maxSpread \in {800} /\ options.now \in {45} /\ options.cdf \in {0, 4900, 9000}
        /\ options.lookback \in {Null, 11}
    BY SMTT(40) DEF FairValueOptions
  <2>2. options.cdf \in 0 .. One
    BY <2>1 DEF One
  <2>3. QED
    BY <2>1, <2>2 DEF SignalOptions
<1>2. QED
  BY <1>1

LEMMA CandlesToArePriced ==
  ASSUME NEW last \in Nat, NEW kind
  PROVE  CandlesTo(last, kind) \in Seq(PricedCandles)
<1>1. PICK n \in Nat : n = last
  OBVIOUS
<1>2. PICK candles : candles = CandlesTo(n, kind)
  OBVIOUS
<1>3. ASSUME NEW i \in 1 .. n
      PROVE  [time |-> 4 * i, close |-> CASE kind = "flat" -> 101
                                          [] kind = "gap"  -> IF i = 3 THEN 0 ELSE 101
                                          [] OTHER         -> 95 + (i % 7)] \in PricedCandles
  <2>1. 4 * i \in Int /\ 95 + (i % 7) \in Int
    OBVIOUS
  <2>2. (CASE kind = "flat" -> 101
           [] kind = "gap"  -> IF i = 3 THEN 0 ELSE 101
           [] OTHER         -> 95 + (i % 7)) \in Int
    BY <2>1
  <2>3. QED
    BY <2>1, <2>2 DEF PricedCandles
<1>4. CandlesTo(n, kind) \in [1 .. n -> PricedCandles]
  BY <1>3 DEF CandlesTo
<1>5. QED
  BY <1>1, <1>4

LEMMA TextsAndOdds ==
  /\ \A text \in Texts : text.expiry \in Int
  /\ \A words : TextOf(words).expiry \in Int
  /\ GoodText.expiry \in Int
  /\ \A odds \in Odds : odds.yes \in Int /\ odds.no \in Int /\ odds.spread \in Int
  /\ GoodOdds.yes \in Int /\ GoodOdds.no \in Int /\ GoodOdds.spread \in Int
<1>1. \A words : TextOf(words).expiry \in Int
  BY DEF MarketText, TextOf
<1>2. GoodText.expiry \in Int
  BY DEF MarketText, TextOf, GoodText
<1>3. GoodOdds.yes \in Int /\ GoodOdds.no \in Int /\ GoodOdds.spread \in Int
  BY DEF GoodOdds
<1>4. Null \in Int
  BY DEF Null
<1>5. ASSUME NEW text \in Texts PROVE text.expiry \in Int
  <2>1. CASE text \in [named : {{}, {"BTC"}, {"ETH"}, {"BTC", "ETH"}}, tokens : {TRUE},
                       dollars : {<<>>, <<5, 100>>}, suffixed : {<<>>, Million},
                       expiry : {Null, 30, 60}, source : {TRUE},
                       words : SUBSET {"above", "below", "hit", "before"}]
    <3>1. text.expiry \in {Null, 30, 60}
      BY <2>1, Zenon
    <3>2. QED
      BY <1>4, <3>1
  <2>2. CASE text \in {MarketText({"above", "definite"}, FALSE, TRUE),
                       MarketText({"above", "definite"}, TRUE, FALSE),
                       TextOf({"below", "vague"}), TextOf({"above", "trades above"}),
                       TextOf({"above", "touch"})}
    <3>1. CASE text = MarketText({"above", "definite"}, FALSE, TRUE)
      BY <3>1 DEF MarketText
    <3>2. CASE text = MarketText({"above", "definite"}, TRUE, FALSE)
      BY <3>2 DEF MarketText
    <3>3. CASE \/ text = TextOf({"below", "vague"}) \/ text = TextOf({"above", "trades above"})
               \/ text = TextOf({"above", "touch"})
      BY <1>1, <3>3, Zenon
    <3>4. QED
      BY <2>2, <3>1, <3>2, <3>3, Zenon
  <2>3. QED
    BY <2>1, <2>2, Zenon DEF Texts
<1>6. ASSUME NEW odds \in Odds PROVE odds.yes \in Int /\ odds.no \in Int /\ odds.spread \in Int
  <2>1. odds \in [yes : {Null, 3000, 5000, 9500}, no : {Null, 4800, 5200}, spread : {Null, 400, 900},
                  liquidity : {"unknown", "thin", "ok"}, failClosedReasons : OddsReasons]
    BY DEF Odds
  <2>2. /\ odds.yes \in {Null, 3000, 5000, 9500} /\ odds.no \in {Null, 4800, 5200}
        /\ odds.spread \in {Null, 400, 900}
    BY <2>1
  <2>3. QED
    BY <1>4, <2>2
<1>7. QED
  BY <1>1, <1>2, <1>3, <1>5, <1>6, Zenon

LEMMA AskedIsPriced ==
  ASSUME NEW options \in FairValueOptions, NEW last \in {9, 14}, NEW kind, NEW n \in Nat,
         NEW markets, DOMAIN markets = 1 .. n, Len(markets) = n,
         \A i \in 1 .. n : IsPricedMarket(markets[i]),
         NEW in, in = [options |-> options, candles |-> CandlesTo(last, kind), markets |-> markets]
  PROVE  IsFairValueInput(in)
<1>1. in.options = options /\ in.candles = CandlesTo(last, kind) /\ in.markets = markets
  OBVIOUS
<1>2. SignalOptions(in.options)
  BY <1>1, OptionsAreNumbers
<1>3. in.candles \in Seq(PricedCandles)
  BY <1>1, CandlesToArePriced
<1>4. QED
  BY <1>1, <1>2, <1>3 DEF IsFairValueInput

LEMMA AskedFairValues ==
  ASSUME AskFairValue
  PROVE  IsFairValueInput(input')
<1>1. PICK options \in FairValueOptions, last \in {9, 14}, kind \in {"flat", "gap", "rough"} :
        FairValueOfTexts(options, last, kind) \/ FairValueOfOdds(options, last, kind)
  BY DEF AskFairValue
<1>2. ASSUME NEW text \in Texts,
             input' = [options |-> options, candles |-> CandlesTo(last, kind),
                       markets |-> <<[text |-> text, odds |-> GoodOdds], [text |-> GoodText, odds |-> GoodOdds]>>]
      PROVE  IsFairValueInput(input')
  <2>1. PICK markets : markets = <<[text |-> text, odds |-> GoodOdds], [text |-> GoodText, odds |-> GoodOdds]>>
    OBVIOUS
  <2>2. DOMAIN markets = 1 .. 2 /\ Len(markets) = 2 /\ 2 \in Nat
    BY <2>1
  <2>3. IsPricedMarket(markets[1]) /\ IsPricedMarket(markets[2])
    BY <2>1, TextsAndOdds DEF IsPricedMarket
  <2>4. \A i \in 1 .. 2 : IsPricedMarket(markets[i])
    BY <2>3
  <2>5. QED
    BY <1>2, <2>1, <2>2, <2>4, AskedIsPriced
<1>3. ASSUME NEW odds \in Odds, NEW words \in {{"above"}, {"below"}},
             input' = [options |-> options, candles |-> CandlesTo(last, kind),
                       markets |-> <<[text |-> TextOf(words), odds |-> odds]>>]
      PROVE  IsFairValueInput(input')
  <2>1. PICK markets : markets = <<[text |-> TextOf(words), odds |-> odds]>>
    OBVIOUS
  <2>2. DOMAIN markets = 1 .. 1 /\ Len(markets) = 1 /\ 1 \in Nat
    BY <2>1
  <2>3. IsPricedMarket(markets[1])
    BY <2>1, TextsAndOdds DEF IsPricedMarket
  <2>4. \A i \in 1 .. 1 : IsPricedMarket(markets[i])
    BY <2>3
  <2>5. QED
    BY <1>3, <2>1, <2>2, <2>4, AskedIsPriced
<1>4. CASE FairValueOfTexts(options, last, kind)
  <2>1. PICK text \in Texts :
          input' = [options |-> options, candles |-> CandlesTo(last, kind),
                    markets |-> <<[text |-> text, odds |-> GoodOdds], [text |-> GoodText, odds |-> GoodOdds]>>]
    BY <1>4 DEF FairValueOfTexts
  <2>2. QED
    BY <1>2, <2>1, Zenon
<1>5. CASE FairValueOfOdds(options, last, kind)
  <2>1. PICK odds \in Odds, words \in {{"above"}, {"below"}} :
          input' = [options |-> options, candles |-> CandlesTo(last, kind),
                    markets |-> <<[text |-> TextOf(words), odds |-> odds]>>]
    BY <1>5, Zenon DEF FairValueOfOdds
  <2>2. QED
    BY <1>3, <2>1, Zenon
<1>6. QED
  BY <1>1, <1>4, <1>5

LEMMA AskedFairValueIsSound ==
  ASSUME Rules
  PROVE  FairValueIsSound'
<1>1. RuleTopics
  BY TopicsOfRules
<1>2. ASSUME topic' = "fair value"
      PROVE  /\ SignalsArePriced(FairValueAnswer(input'), input'.options)
             /\ EveryMarketIsAccounted(input'.markets, FairValueAnswer(input'))
  <2>1. IsFairValueInput(input')
    BY <1>1, <1>2, AskedFairValues DEF RuleTopics
  <2>2. QED
    BY <2>1, AnswersArePriced
<1>3. QED
  BY <1>2, Zenon DEF FairValueIsSound

\* Theorem: a signal to buy is priced and no market gets lost, whatever markets,
\* candles and options the fair value is asked with.
THEOREM FairValuesSound == Spec => []FairValueIsSound
<1>1. Init => FairValueIsSound
  <2>1. Init => topic # "fair value"
    BY Zenon DEF Init
  <2>2. QED
    BY <2>1, Zenon DEF FairValueIsSound
<1>2. FairValueIsSound /\ [Next]_<<vars, panelVars, schedulerVars>> => FairValueIsSound'
  <2>1. Rules => FairValueIsSound'
    BY AskedFairValueIsSound
  <2>2. ASSUME FairValueIsSound, [Next]_<<vars, panelVars, schedulerVars>>, ~Rules
        PROVE  FairValueIsSound'
    <3>1. topic' = topic /\ input' = input
      BY <2>2 DEF Next, vars
    <3>2. QED
      BY <2>2, <3>1, Zenon DEF FairValueIsSound
  <2>3. QED
    BY <2>1, <2>2
<1>3. QED
  BY <1>1, <1>2, PTL DEF Spec

-----------------------------------------------------------------------------
(* The odds a market is eligible by.                                         *)

ListedMarkets ==
  [id : Int, named : SUBSET {"BTC", "ETH"}, active : BOOLEAN, closed : BOOLEAN, archived : BOOLEAN, ends : Int,
   source : BOOLEAN, tokens : Int, prices : Seq(Int), liquidity : Int]
BookAnswers == [kind : {"book", "none", "failed", "no list"}, bids : SUBSET Int, asks : SUBSET Int]
AnswersOfClob ==
  [yesBook : BookAnswers, noBook : BookAnswers, yesMid : Int, noMid : Int, yesSpread : Int, noSpread : Int,
   yesPrice : Int, noPrice : Int]

\* The price of an outcome, of what is known of it.
OutcomePrice(prices, mid, book, price, n) ==
  FirstNumber(mid, FirstNumber(MidpointFromBook(book), FirstNumber(price,
    IF n \in DOMAIN prices THEN prices[n] ELSE Null)))
OddsReasonsOf(candidate, used, yes, no) ==
  (IF Null \in {yes, no} THEN {"no odds"} ELSE {})
    \cup (IF Null \in {used.yesMid, used.noMid} /\ candidate.prices # <<>> THEN {"outcome prices"} ELSE {})

LEMMA OddsAre ==
  ASSUME NEW candidate, NEW used, NEW reasons, NEW source,
         NEW odds, odds = OddsOf(candidate, used, reasons, source)
  PROVE  /\ odds.yes = OutcomePrice(candidate.prices, used.yesMid, used.yesBook, used.yesPrice, 1)
         /\ odds.no = OutcomePrice(candidate.prices, used.noMid, used.noBook, used.noPrice, 2)
         /\ odds.sourceType = source
         /\ odds.failClosedReasons = reasons \cup OddsReasonsOf(candidate, used, odds.yes, odds.no)
<1>1. PICK spread, standing :
        odds = [yes |-> OutcomePrice(candidate.prices, used.yesMid, used.yesBook, used.yesPrice, 1),
                no |-> OutcomePrice(candidate.prices, used.noMid, used.noBook, used.noPrice, 2),
                spread |-> spread, sourceType |-> source, liquidity |-> standing,
                failClosedReasons |-> reasons \cup OddsReasonsOf(candidate, used,
                  OutcomePrice(candidate.prices, used.yesMid, used.yesBook, used.yesPrice, 1),
                  OutcomePrice(candidate.prices, used.noMid, used.noBook, used.noPrice, 2))]
  BY DEF OddsOf, OutcomePrice, OddsReasonsOf
<1>2. PICK yes, no, all :
        /\ yes = OutcomePrice(candidate.prices, used.yesMid, used.yesBook, used.yesPrice, 1)
        /\ no = OutcomePrice(candidate.prices, used.noMid, used.noBook, used.noPrice, 2)
        /\ all = reasons \cup OddsReasonsOf(candidate, used, yes, no)
  OBVIOUS
<1>3. odds = [yes |-> yes, no |-> no, spread |-> spread, sourceType |-> source, liquidity |-> standing,
              failClosedReasons |-> all]
  BY <1>1, <1>2, Zenon
<1>4. odds.yes = yes /\ odds.no = no /\ odds.sourceType = source /\ odds.failClosedReasons = all
  BY <1>3
<1>5. QED
  BY <1>2, <1>4, Zenon

\* A price that is not Gamma's does not change with Gamma's.
LEMMA OwnPriceStays ==
  ASSUME NEW prices, NEW mid, NEW book, NEW price, NEW n, mid # Null \/ prices = <<>>,
         OutcomePrice(prices, mid, book, price, n) # Null
  PROVE  \A others : OutcomePrice(others, mid, book, price, n) = OutcomePrice(prices, mid, book, price, n)
<1>1. CASE mid # Null
  BY <1>1 DEF OutcomePrice, FirstNumber
<1>2. CASE prices = <<>>
  <2>1. n \notin DOMAIN prices
    BY <1>2
  <2>2. mid # Null \/ MidpointFromBook(book) # Null \/ price # Null
    BY <2>1, Zenon DEF OutcomePrice, FirstNumber
  <2>3. QED
    BY <2>2, Zenon DEF OutcomePrice, FirstNumber
<1>3. QED
  BY <1>1, <1>2

\* Theorem: a market that is fit for research has the odds of the CLOB's own
\* answers, whatever Gamma lists as its prices.
THEOREM EligibleOddsLive ==
  ASSUME NEW candidate \in ListedMarkets, NEW clob \in AnswersOfClob
  PROVE  EligibleOddsAreLive(candidate, clob)
<1>1. PICK odds : odds = BuildEventMarketOdds(candidate, clob)
  OBVIOUS
<1>2. PICK used : used = ClobUsed(candidate, clob)
  OBVIOUS
<1>3. SUFFICES ASSUME odds.failClosedReasons = {}
      PROVE  /\ odds.sourceType = "live" /\ Null \notin {odds.yes, odds.no}
             /\ Failed \notin {clob.yesMid, clob.noMid, clob.yesSpread, clob.noSpread}
             /\ \A prices \in {<<>>, <<1, 2>>} :
                  LET other == BuildEventMarketOdds([candidate EXCEPT !.prices = prices], clob) IN
                  other.yes = odds.yes /\ other.no = odds.no
  <2>1. ResearchRejectReasons(candidate, odds) = {} => odds.failClosedReasons = {}
    BY DEF ResearchRejectReasons
  <2>2. QED
    BY <1>1, <2>1, Zenon DEF EligibleOddsAreLive
<1>4. PICK tokens, failed :
        /\ tokens = IF candidate.tokens < 2 THEN {"no tokens"} ELSE {}
        /\ failed = IF used = NoClob /\ candidate.tokens >= 2 THEN {"no clob"} ELSE {}
  OBVIOUS
<1>5. odds = IF "no list" \in {used.yesBook.kind, used.noBook.kind}
             THEN OddsOf(candidate, NoClob, tokens \cup {"exception"}, "mock")
             ELSE OddsOf(candidate, used, tokens \cup failed, "live")
  BY <1>1, <1>2, <1>4, Zenon DEF BuildEventMarketOdds
<1>6. "no list" \notin {used.yesBook.kind, used.noBook.kind}
  <2>1. ASSUME odds = OddsOf(candidate, NoClob, tokens \cup {"exception"}, "mock") PROVE FALSE
    <3>1. "exception" \in odds.failClosedReasons
      BY <2>1, OddsAre
    <3>2. QED
      BY <1>3, <3>1
  <2>2. QED
    BY <1>5, <2>1
<1>7. odds = OddsOf(candidate, used, tokens \cup failed, "live")
  BY <1>5, <1>6
<1>8. /\ odds.yes = OutcomePrice(candidate.prices, used.yesMid, used.yesBook, used.yesPrice, 1)
      /\ odds.no = OutcomePrice(candidate.prices, used.noMid, used.noBook, used.noPrice, 2)
      /\ odds.sourceType = "live" /\ tokens = {} /\ failed = {}
      /\ OddsReasonsOf(candidate, used, odds.yes, odds.no) = {}
  <2>1. /\ odds.yes = OutcomePrice(candidate.prices, used.yesMid, used.yesBook, used.yesPrice, 1)
        /\ odds.no = OutcomePrice(candidate.prices, used.noMid, used.noBook, used.noPrice, 2)
        /\ odds.sourceType = "live"
        /\ odds.failClosedReasons = (tokens \cup failed) \cup OddsReasonsOf(candidate, used, odds.yes, odds.no)
    <3>1. PICK reasons : reasons = tokens \cup failed
      OBVIOUS
    <3>2. odds = OddsOf(candidate, used, reasons, "live")
      BY <1>7, <3>1, Zenon
    <3>3. QED
      BY <3>1, <3>2, OddsAre
  <2>2. tokens = {} /\ failed = {} /\ OddsReasonsOf(candidate, used, odds.yes, odds.no) = {}
    BY <1>3, <2>1
  <2>3. QED
    BY <2>1, <2>2, Zenon
<1>9. candidate.tokens >= 2 /\ used # NoClob
  <2>1. PICK n \in Int : n = candidate.tokens
    BY DEF ListedMarkets
  <2>2. ~(n < 2)
    BY <1>4, <1>8, <2>1
  <2>3. candidate.tokens >= 2
    BY <2>1, <2>2
  <2>4. QED
    BY <1>4, <1>8, <2>3
<1>10. /\ "failed" \notin {clob.yesBook.kind, clob.noBook.kind}
       /\ Failed \notin {clob.yesMid, clob.noMid, clob.yesSpread, clob.noSpread}
  BY <1>2, <1>9, Zenon DEF ClobUsed
<1>11. /\ Null \notin {odds.yes, odds.no}
       /\ (used.yesMid # Null /\ used.noMid # Null) \/ candidate.prices = <<>>
  <2>1. Null \notin {odds.yes, odds.no}
    BY <1>8 DEF OddsReasonsOf
  <2>2. ~(Null \in {used.yesMid, used.noMid} /\ candidate.prices # <<>>)
    BY <1>8 DEF OddsReasonsOf
  <2>3. QED
    BY <2>1, <2>2, Zenon
<1>12. ASSUME NEW prices \in {<<>>, <<1, 2>>},
              NEW listed, listed = [candidate EXCEPT !.prices = prices],
              NEW other, other = BuildEventMarketOdds(listed, clob)
       PROVE  other.yes = odds.yes /\ other.no = odds.no
  <2>1. listed.tokens = candidate.tokens /\ listed.prices = prices
    BY <1>12 DEF ListedMarkets
  <2>2. ClobUsed(listed, clob) = used
    BY <1>2, <2>1, Zenon DEF ClobUsed
  <2>3. other = OddsOf(listed, used, tokens \cup failed, "live")
    BY <1>4, <1>6, <1>12, <2>1, <2>2, Zenon DEF BuildEventMarketOdds
  <2>4. /\ other.yes = OutcomePrice(prices, used.yesMid, used.yesBook, used.yesPrice, 1)
        /\ other.no = OutcomePrice(prices, used.noMid, used.noBook, used.noPrice, 2)
    BY <2>1, <2>3, OddsAre
  <2>5. QED
    BY <1>8, <1>11, <2>4, OwnPriceStays
<1>13. QED
  BY <1>8, <1>10, <1>11, <1>12, Zenon

-----------------------------------------------------------------------------
(* Signals.                                                                  *)
LEMMA ClosesAreNumbers ==
  ASSUME NEW shape \in DOMAIN Closes, NEW i \in 1 .. 48
  PROVE  Closes[shape][i] \in Int
<1>1. PICK square \in Int : square = (i * i) \div 4
  OBVIOUS
<1>2. DOMAIN Closes = {"up", "down", "turn", "chop", "flat"}
  BY DEF Closes
<1>3. Closes.up[i] = 10000 + 2 * i + square
  BY <1>1 DEF Closes
<1>4. Closes.down[i] = 10000 - 2 * i - square
  BY <1>1 DEF Closes
<1>5. Closes.turn[i] = IF i <= 40 THEN 10000 + 2 * i + square ELSE 10480 - 25 * (i - 40)
  BY <1>1 DEF Closes
<1>6. Closes.chop[i] = 10000 + 13 * (i % 2)
  BY DEF Closes
<1>7. Closes.flat[i] = 10000
  BY DEF Closes
<1>8. Closes.up[i] \in Int /\ Closes.down[i] \in Int /\ Closes.turn[i] \in Int /\ Closes.flat[i] \in Int
  BY <1>1, <1>3, <1>4, <1>5, <1>7
<1>9. Closes.chop[i] \in Int
  BY <1>6
<1>10. QED
  BY <1>2, <1>8, <1>9

LEMMA ShapesOfCloses == DOMAIN Closes = {"up", "down", "turn", "chop", "flat"}
BY DEF Closes

LEMMA SignalCandlesAre ==
  ASSUME NEW shape \in DOMAIN Closes, NEW n \in 0 .. 48, NEW last \in Nat, last >= n
  PROVE  /\ SignalCandles(shape, n, last) \in Seq(CandleRecords)
         /\ Len(SignalCandles(shape, n, last)) = n
         /\ \A i \in 1 .. n : SignalCandles(shape, n, last)[i].time = last - n + i
<1>1. PICK candles : candles = SignalCandles(shape, n, last)
  OBVIOUS
<1>2. ASSUME NEW i \in 1 .. n
      PROVE  candles[i] \in CandleRecords /\ candles[i].time = last - n + i
  <2>1. PICK close \in Int : close = Closes[shape][i]
    <3>1. i \in 1 .. 48
      OBVIOUS
    <3>2. QED
      BY <3>1, ClosesAreNumbers
  <2>2. PICK open \in Int : open = IF i = 1 THEN close ELSE Closes[shape][i - 1]
    <3>1. CASE i = 1
      BY <3>1
    <3>2. CASE i # 1
      <4>1. i - 1 \in 1 .. 48
        BY <3>2
      <4>2. QED
        BY <3>2, <4>1, ClosesAreNumbers
    <3>3. QED
      BY <3>1, <3>2
  <2>3. PICK high \in Int : high = Max({open, close}) + 10
    <3>1. Max({open, close}) = IF open >= close THEN open ELSE close
      BY MaxOfTwo
    <3>2. QED
      BY <3>1
  <2>4. PICK low \in Int : low = Min({open, close}) - 10
    <3>1. Min({open, close}) = IF open <= close THEN open ELSE close
      BY MinOfTwo
    <3>2. QED
      BY <3>1
  <2>5. PICK volume \in Int : volume = 180 + 7 * i + 8 * (i % 5) + (IF i > n - 5 THEN 22 ELSE 0)
    OBVIOUS
  <2>6. candles[i] = [time |-> last - n + i, close |-> close, high |-> high, low |-> low, volume |-> volume]
    BY <1>1, <2>1, <2>2, <2>3, <2>4, <2>5 DEF SignalCandles
  <2>7. last - n + i \in Nat
    OBVIOUS
  <2>8. QED
    BY <2>6, <2>7 DEF CandleRecords
<1>3. candles = [i \in 1 .. n |-> candles[i]]
  BY <1>1 DEF SignalCandles
<1>4. candles \in Seq(CandleRecords) /\ Len(candles) = n
  <2>1. candles \in [1 .. n -> CandleRecords]
    BY <1>2, <1>3
  <2>2. n \in Nat
    OBVIOUS
  <2>3. QED
    BY <2>1, <2>2
<1>5. QED
  BY <1>1, <1>2, <1>4

LEMMA AskedPast ==
  ASSUME AskPast
  PROVE  PastIsKept(input'.ask, input'.candles, input'.n)
<1>1. PICK ask \in Asks, shape \in DOMAIN Closes, n \in {40, 46} :
        input' = [ask |-> ask, candles |-> SignalCandles(shape, 48, 99), n |-> n]
  BY SMTT(40) DEF AskPast
<1>2. PICK candles \in Seq(CandleRecords) :
        /\ candles = SignalCandles(shape, 48, 99) /\ Len(candles) = 48
        /\ \A i \in 1 .. 48 : candles[i].time = 99 - 48 + i
  <2>1. 48 \in 0 .. 48 /\ 99 \in Nat /\ 99 >= 48
    OBVIOUS
  <2>2. QED
    BY <2>1, SignalCandlesAre
<1>11. candles = SignalCandles(shape, 48, 99) /\ Len(candles) = 48
  BY Zenon, <1>2
<1>12. \A i \in 1 .. 48 : candles[i].time = 99 - 48 + i
  BY Zenon, <1>2
<1>3. \A i, j \in 1 .. Len(candles) : i < j => candles[i].time < candles[j].time
  <2>1. ASSUME NEW i \in 1 .. 48, NEW j \in 1 .. 48, i < j
        PROVE  candles[i].time < candles[j].time
    <3>1. PICK a \in Int, b \in Int : a = 99 - 48 + i /\ b = 99 - 48 + j /\ a < b
      BY <2>1
    <3>2. candles[i].time = a /\ candles[j].time = b
      BY Zenon, <1>12, <3>1
    <3>3. QED
      BY Zenon, <3>1, <3>2
  <2>2. 1 .. Len(candles) = 1 .. 48
    BY Zenon, <1>11
  <2>3. QED
    BY Zenon, <2>1, <2>2
<1>4. n \in 1 .. Len(candles)
  <2>1. Len(candles) = 48
    BY <1>11
  <2>2. QED
    BY <2>1
<1>5. PastIsKept(ask, candles, n)
  BY <1>3, <1>4, PastKept
<1>6. PICK rec : rec = input'
  OBVIOUS
<1>7. rec = [ask |-> ask, candles |-> candles, n |-> n]
  BY Zenon, <1>1, <1>11, <1>6
<1>8. rec.ask = ask /\ rec.candles = candles /\ rec.n = n
  BY <1>7
<1>9. input'.ask = ask /\ input'.candles = candles /\ input'.n = n
  BY <1>6, <1>8
<1>10. QED
  BY <1>5, <1>9

LEMMA SampleIs ==
  ASSUME NEW e \in Int, NEW o \in Int, NEW entryPrice \in Nat \ {0}, NEW price \in Nat, price <= 2 * entryPrice,
         NEW candles \in Seq(CandleRecords)
  PROVE  [entry |-> e, outcome |-> o, entryPrice |-> entryPrice, outcomePrice |-> price,
          candles |-> candles] \in SampleRecords
<1>1. PICK s : s = [entry |-> e, outcome |-> o, entryPrice |-> entryPrice, outcomePrice |-> price, candles |-> candles]
  OBVIOUS
<1>2. s \in [entry : Int, outcome : Int, entryPrice : Nat \ {0}, outcomePrice : Nat, candles : Seq(CandleRecords)]
  BY <1>1
<1>3. s.outcomePrice <= 2 * s.entryPrice
  BY <1>1
<1>4. s \in SampleRecords
  BY <1>2, <1>3 DEF SampleRecords
<1>5. QED
  BY Zenon, <1>1, <1>4

LEMMA SampleCandlesAre ==
  ASSUME NEW shape \in {"up", "down", "flat"}, NEW n \in {3, 5}
  PROVE  SignalCandles(shape, n, 80) \in Seq(CandleRecords)
<1>1. shape \in DOMAIN Closes
  BY ShapesOfCloses
<1>2. n \in 0 .. 48 /\ 80 \in Nat /\ 80 >= n
  OBVIOUS
<1>3. QED
  BY Zenon, <1>1, <1>2, SignalCandlesAre

LEMMA AskedBacktest ==
  ASSUME AskBacktest
  PROVE  BacktestIsHonest(input')
<1>1. ASSUME NEW s \in Samples PROVE s \in SampleRecords
  <2>1. PICK e \in {79, 80}, o \in {80, 85}, price \in {9900, 10200}, shape \in {"up", "down", "flat"},
             n \in {3, 5} :
          s = [entry |-> e, outcome |-> o, entryPrice |-> 10000, outcomePrice |-> price,
               candles |-> SignalCandles(shape, n, 80)]
    BY DEF Samples
  <2>2. PICK candles : candles = SignalCandles(shape, n, 80)
    OBVIOUS
  <2>3. candles \in Seq(CandleRecords)
    BY <2>2, SampleCandlesAre
  <2>4. PICK entryPrice \in Nat \ {0} : entryPrice = 10000
    OBVIOUS
  <2>5. s = [entry |-> e, outcome |-> o, entryPrice |-> entryPrice, outcomePrice |-> price,
             candles |-> candles]
    BY <2>1, <2>2, <2>4
  <2>6. e \in Int /\ o \in Int /\ price \in Nat /\ price <= 2 * entryPrice
    BY <2>4
  <2>7. [entry |-> e, outcome |-> o, entryPrice |-> entryPrice, outcomePrice |-> price,
         candles |-> candles] \in SampleRecords
    BY <2>3, <2>6, SampleIs
  <2>8. QED
    BY <2>5, <2>7
<1>2. PICK a \in Samples, b \in Samples : input' = <<a, b>>
  BY DEF AskBacktest
<1>3. input' \in Seq(SampleRecords)
  BY <1>1, <1>2
<1>4. QED
  BY <1>3, BacktestSound

\* A console of a source with the freshness that its kind states.
LEMMA ConsoleOfSource ==
  ASSUME NEW ask, NEW candles \in Seq(CandleRecords), NEW N \in Nat, Len(candles) = N, N # 0, N <= 48, NEW kind, kind # "exception",
         NEW failures, kind = "fixture" => failures = {},
         NEW in, in = [ask |-> ask, wanted |-> TRUE, fetched |-> SourceOf(kind, candles, kind = "candles", failures)]
  PROVE  /\ ConsoleFailsClosed(in.fetched.source.failures, ConsoleOf(in), 100)
         /\ FailuresStayApart(in.ask, in.fetched, 100)
<1>5. PICK fetched : fetched = SourceOf(kind, candles, kind = "candles", failures)
  OBVIOUS
<1>6. PICK source : source = fetched.source
  OBVIOUS
<1>9. in.ask = ask /\ in.wanted = TRUE /\ in.fetched = fetched
  BY <1>5
<1>10. PICK freshness : freshness = IF kind = "candles"
                                    THEN [stale |-> FALSE, age |-> Max({0, 100 - LatestTime(candles) - 1}), maxAge |-> 3]
                                    ELSE NoFreshness
  OBVIOUS
<1>11. /\ fetched.kind = kind
       /\ source = [candles |-> candles, price |-> Null, failures |-> failures, health |-> "ok",
                    freshness |-> freshness]
  BY <1>5, <1>6, <1>10 DEF SourceOf
<1>12. /\ source.candles = candles /\ source.failures = failures /\ source.freshness = freshness
  BY <1>11
<1>14. PICK now \in Int : now = 100
  OBVIOUS
<1>15. FailuresStayApart(ask, fetched, now)
  BY <1>11, FailuresApart
<1>16. NoFreshness.age = Null /\ NoFreshness.maxAge = 3 /\ Null \in Int
  BY NullIsNegative DEF NoFreshness
<1>17. LatestTime(candles) \in Int
  <2>1. candles # <<>>
    <3>1. Len(<<>>) = 0
      OBVIOUS
    <3>2. N # 0 /\ Len(candles) = N
      OBVIOUS
    <3>3. QED
      BY Zenon, <3>1, <3>2
  <2>2. Last(candles) = candles[Len(candles)]
    BY DEF Last
  <2>3. candles[Len(candles)] \in CandleRecords
    <3>1. N \in 1 .. N /\ DOMAIN candles = 1 .. N /\ candles \in [1 .. N -> CandleRecords]
      OBVIOUS
    <3>2. candles[N] \in CandleRecords
      BY <3>1
    <3>3. QED
      BY Zenon, <3>2
  <2>4. candles[Len(candles)].time \in Int
    BY <2>3 DEF CandleRecords
  <2>5. QED
    BY <2>1, <2>2, <2>4 DEF LatestTime
<1>18. IsTimedSource(source, now)
  <2>1. CASE kind = "candles"
    <3>1. PICK age : age = Max({0, 100 - LatestTime(candles) - 1})
      OBVIOUS
    <3>2. PICK implied \in Int : implied = 100 - LatestTime(candles) - 1
      BY <1>17
    <3>3. age \in Int /\ age >= implied
      <4>1. PICK zero \in Int : zero = 0
        OBVIOUS
      <4>2. age = IF zero >= implied THEN zero ELSE implied
        BY <3>1, <3>2, <4>1, MaxOfTwo
      <4>3. QED
        BY <4>1, <4>2
    <3>4. freshness = [stale |-> FALSE, age |-> age, maxAge |-> 3]
      BY <1>10, <2>1, <3>1
    <3>5. freshness.age = age /\ freshness.maxAge = 3
      BY <3>4
    <3>6. QED
      BY <1>12, <1>14, <3>2, <3>3, <3>5 DEF IsTimedSource
  <2>2. CASE kind # "candles"
    <3>1. freshness = NoFreshness
      BY <1>10, <2>2
    <3>2. QED
      BY <1>12, <1>16, <3>1 DEF IsTimedSource
  <2>3. QED
    BY <2>1, <2>2
<1>19. CASE kind = "fixture"
  <2>1. PICK made : made = FixtureConsole(ask, candles, now)
    OBVIOUS
  <2>2. PICK rebased : rebased = RebaseFixtureCandles(candles, now)
    OBVIOUS
  <2>3. rebased \in Seq(CandleRecords)
    <3>1. ASSUME NEW i \in 1 .. Len(candles)
          PROVE  rebased[i] \in CandleRecords
      <4>1. DOMAIN candles = 1 .. Len(candles) /\ candles[i] \in CandleRecords
        OBVIOUS
      <4>2. rebased[i] = [candles[i] EXCEPT !.time = now - 1 - Len(candles) + i]
        BY <2>2, <4>1 DEF RebaseFixtureCandles
      <4>3. now - 1 - Len(candles) + i \in Nat
        <5>1. N \in Nat /\ N <= 48 /\ i \in 1 .. N /\ Len(candles) = N
          OBVIOUS
        <5>2. 100 - 1 - N + i \in Nat
          BY <5>1
        <5>3. QED
          BY <1>14, <5>1, <5>2, Zenon
      <4>4. QED
        BY <4>1, <4>2, <4>3 DEF CandleRecords
    <3>2. rebased = [i \in 1 .. Len(candles) |-> rebased[i]]
      BY <2>2 DEF RebaseFixtureCandles
    <3>3. rebased \in [1 .. N -> CandleRecords]
      <4>1. 1 .. Len(candles) = 1 .. N
        OBVIOUS
      <4>2. QED
        BY Zenon, <3>1, <3>2, <4>1
    <3>4. QED
      BY <3>3
  <2>4. made.source = [candles |-> rebased, freshness |-> NoFreshness, price |-> Null, failures |-> {}]
    BY <2>1, <2>2 DEF FixtureConsole
  <2>5. made.source.candles = rebased /\ made.source.freshness = NoFreshness /\ made.source.failures = {}
    BY <2>4
  <2>6. IsTimedSource(made.source, now)
    BY <1>16, <2>3, <2>5 DEF IsTimedSource
  <2>7. ConsoleFailsClosed({}, BuildConsoleResponse(made, TRUE, now), now)
    BY <2>5, <2>6, ConsoleClosed
  <2>8. ConsoleOf(in) = BuildConsoleResponse(made, TRUE, now)
    BY <1>6, <1>9, <1>11, <1>12, <1>14, <1>19, <2>1 DEF ConsoleOf
  <2>9. failures = {}
    BY <1>19
  <2>10. QED
    BY <1>6, <1>9, <1>12, <1>14, <1>15, <2>7, <2>8, <2>9
<1>20. CASE kind # "fixture"
  <2>1. PICK made : made = LiveConsole(ask, fetched)
    OBVIOUS
  <2>2. made.source = IF kind = "market data" THEN [source EXCEPT !.freshness = NoFreshness] ELSE source
    BY <1>6, <1>11, <2>1 DEF LiveConsole
  <2>3. made.source = source
    <3>1. CASE kind = "market data"
      BY <1>10, <1>11, <2>2, <3>1
    <3>2. CASE kind # "market data"
      BY <2>2, <3>2
    <3>3. QED
      BY <3>1, <3>2
  <2>4. ConsoleFailsClosed(failures, BuildConsoleResponse(made, TRUE, now), now)
    BY <1>12, <1>18, <2>3, ConsoleClosed
  <2>5. ConsoleOf(in) = BuildConsoleResponse(made, TRUE, now)
    BY <1>9, <1>11, <1>14, <1>20, <2>1 DEF ConsoleOf
  <2>6. QED
    BY <1>6, <1>9, <1>12, <1>14, <1>15, <2>4, <2>5
<1>21. QED
  BY <1>19, <1>20

LEMMA SignalCandlesListed ==
  ASSUME NEW shape \in DOMAIN Closes, NEW n \in 0 .. 48, NEW last \in Nat, last >= n,
         NEW candles, candles = SignalCandles(shape, n, last)
  PROVE  candles \in Seq(CandleRecords) /\ Len(candles) = n
BY Zenon, SignalCandlesAre

LEMMA ConsoleCandlesAre ==
  ASSUME NEW candles \in ConsoleCandles
  PROVE  \E N \in 1 .. 48 : candles \in Seq(CandleRecords) /\ Len(candles) = N
<1>1. PICK shape, n, last : /\ shape \in {"up", "down", "turn"} /\ n \in {34, 35, 46} /\ last \in {95, 96, 99}
                           /\ candles = SignalCandles(shape, n, last)
  BY DEF ConsoleCandles
<1>2. shape \in DOMAIN Closes
  BY <1>1, ShapesOfCloses
<1>3. PICK N \in 0 .. 48, to \in Nat : N = n /\ to = last /\ to >= N /\ N \in 1 .. 48
  BY <1>1
<1>4. candles = SignalCandles(shape, N, to)
  BY <1>1, <1>3
<1>5. candles \in Seq(CandleRecords) /\ Len(candles) = N
  BY <1>2, <1>3, <1>4, SignalCandlesListed
<1>6. QED
  BY <1>3, <1>5

LEMMA AskedConsole ==
  ASSUME AskConsole
  PROVE  /\ ConsoleFailsClosed(input'.fetched.source.failures, ConsoleOf(input'), 100)
         /\ FailuresStayApart(input'.ask, input'.fetched, 100)
<1>1. PICK base \in Asks, candles \in ConsoleCandles, kind \in ConsoleKinds, failures \in FailureSets, risk \in Risks :
        /\ kind = "fixture" => failures = {}
        /\ input' = ConsoleInput([base EXCEPT !.context = risk], kind, candles, failures)
  BY DEF AskConsole
<1>2. kind # "exception"
  BY DEF ConsoleKinds
<1>4. PICK N \in 1 .. 48 : candles \in Seq(CandleRecords) /\ Len(candles) = N
  BY ConsoleCandlesAre
<1>5. PICK ask : ask = [base EXCEPT !.context = risk]
  OBVIOUS
<1>6. PICK in : in = ConsoleInput(ask, kind, candles, failures)
  OBVIOUS
<1>7. in = input'
  BY <1>1, <1>5, <1>6
<1>8. in = [ask |-> ask, wanted |-> TRUE, fetched |-> SourceOf(kind, candles, kind = "candles", failures)]
  BY <1>6 DEF ConsoleInput
<1>9. kind = "fixture" => failures = {}
  BY Zenon, <1>1
<1>10. /\ ConsoleFailsClosed(in.fetched.source.failures, ConsoleOf(in), 100)
       /\ FailuresStayApart(in.ask, in.fetched, 100)
  <2>1. N \in Nat /\ N # 0 /\ N <= 48
    OBVIOUS
  <2>2. QED
    BY ZenonT(40), <1>2, <1>4, <1>8, <1>9, <2>1, ConsoleOfSource
<1>11. QED
  BY <1>7, <1>10

LEMMA AskedSignalIsSound ==
  ASSUME Rules
  PROVE  SignalsAreSound'
<1>1. RuleTopics
  BY TopicsOfRules
<1>2. topic' = "confluence" => DirectionsAreEven(input'.features, "ok", input'.context, input'.horizon)
  BY AskedSignalsAreEven, Zenon DEF ConfluenceKept
<1>3. topic' = "console" => /\ ConsoleFailsClosed(input'.fetched.source.failures, ConsoleOf(input'), 100)
                            /\ FailuresStayApart(input'.ask, input'.fetched, 100)
  BY <1>1, AskedConsole, Zenon DEF RuleTopics
<1>4. topic' = "past" => PastIsKept(input'.ask, input'.candles, input'.n)
  BY <1>1, AskedPast, Zenon DEF RuleTopics
<1>5. topic' = "backtest" => BacktestIsHonest(input')
  BY <1>1, AskedBacktest, Zenon DEF RuleTopics
<1>6. QED
  BY <1>2, <1>3, <1>4, <1>5, Zenon DEF SignalsAreSound

\* Theorem: what the run asks of the signal engine is answered as SignalsAreSound
\* says: directions are even and backed, consoles fail closed, failures of one
\* asset leave the other's signal alone, later candles change no earlier marker
\* or observation, and a backtest knows nothing of what came after its entries.
THEOREM SignalsSound == Spec => []SignalsAreSound
<1>1. Init => SignalsAreSound
  <2>1. Init => topic \notin {"confluence", "console", "past", "backtest"}
    BY Zenon DEF Init
  <2>2. QED
    BY <2>1, Zenon DEF SignalsAreSound
<1>2. SignalsAreSound /\ [Next]_<<vars, panelVars, schedulerVars>> => SignalsAreSound'
  <2>1. Rules => SignalsAreSound'
    BY AskedSignalIsSound
  <2>2. ASSUME SignalsAreSound, [Next]_<<vars, panelVars, schedulerVars>>, ~Rules
        PROVE  SignalsAreSound'
    <3>1. topic' = topic /\ input' = input
      BY <2>2 DEF Next, vars
    <3>2. QED
      BY <2>2, <3>1, Zenon DEF SignalsAreSound
  <2>3. QED
    BY <2>1, <2>2
<1>3. QED
  BY <1>1, <1>2, PTL DEF Spec

-----------------------------------------------------------------------------
(* The replays that the run asks for.                                        *)
LEMMA ReplayTextsAre ==
  ASSUME NEW words, NEW expiry \in Int
  PROVE  /\ IsText(ReplayText(words, expiry)) /\ ReplayText(words, expiry).expiry = expiry
         /\ IsText(GoodText)
<1>1. PICK text : text = GoodText
  OBVIOUS
<1>2. text = [named |-> {"BTC"}, tokens |-> TRUE, dollars |-> <<100>>, suffixed |-> <<>>,
              words |-> {"above", "definite"}, expiry |-> 60, source |-> TRUE]
  BY <1>1, Zenon DEF GoodText, TextOf, MarketText
<1>3. <<100>> \in Seq(Int) /\ <<>> \in Seq(Int)
  OBVIOUS
<1>4. text.dollars \in Seq(Int) /\ text.suffixed \in Seq(Int) /\ text.expiry \in Int
  BY <1>2, <1>3
<1>5. PICK replay : replay = ReplayText(words, expiry)
  OBVIOUS
<1>6. replay = [text EXCEPT !.words = words, !.expiry = expiry]
  BY <1>1, <1>5, Zenon DEF ReplayText
<1>7. replay.dollars = text.dollars /\ replay.suffixed = text.suffixed /\ replay.expiry = expiry
  BY <1>2, <1>6
<1>8. QED
  BY <1>1, <1>4, <1>5, <1>7, Zenon DEF IsText

LEMMA OfferedAre ==
  ASSUME NEW text, IsText(text), NEW odds, odds.yes \in 0 .. One, odds.no \in 0 .. One, odds.spread \in Int,
         NEW priceOf
  PROVE  IsOfferedMarket(BindMarket(text, odds, priceOf))
<1>1. PICK market : market = BindMarket(text, odds, priceOf)
  OBVIOUS
<1>2. odds.yes \in Int /\ odds.no \in Int /\ text.expiry \in Int
  <2>1. text.expiry \in Int
    BY DEF IsText
  <2>2. odds.yes \in Int /\ odds.no \in Int
    OBVIOUS
  <2>3. QED
    BY <2>1, <2>2
<1>3. IsBoundMarket(market)
  BY <1>1, <1>2, BoundIs
<1>4. market.candidate = text /\ market.odds = odds
  BY <1>1 DEF BindMarket
<1>5. QED
  BY <1>1, <1>3, <1>4, Zenon DEF IsOfferedMarket, OutcomePrices

LEMMA PricesAreWithin ==
  /\ 2000 \in 0 .. One /\ 8100 \in 0 .. One
  /\ 8000 \in 0 .. One /\ 2100 \in 0 .. One
BY SMT DEF One

LEMMA PricesReplaced ==
  ASSUME NEW g, {"yes", "no", "spread"} \subseteq DOMAIN g, g.spread \in Int,
         NEW yes \in 0 .. One, NEW no \in 0 .. One,
         NEW odds, odds = [g EXCEPT !.yes = yes, !.no = no]
  PROVE  odds.yes \in 0 .. One /\ odds.no \in 0 .. One /\ odds.spread \in Int
<1>1. "yes" \in DOMAIN g /\ "no" \in DOMAIN g /\ "spread" \in DOMAIN g
  BY Zenon
<1>2. odds.yes = yes /\ odds.no = no /\ odds.spread = g.spread
  BY <1>1, Zenon
<1>3. QED
  BY <1>2, Zenon

LEMMA ReplayOddsAre ==
  ASSUME NEW odds \in ReplayOdds
  PROVE  odds.yes \in 0 .. One /\ odds.no \in 0 .. One /\ odds.spread \in Int
<1>1. {"yes", "no", "spread"} \subseteq DOMAIN GoodOdds /\ GoodOdds.spread \in Int
  BY DEF GoodOdds
<1>2. PICK low, high, less, more, sum : low = 2000 /\ high = 8000 /\ less = 2100 /\ more = 8100 /\ sum = 10100
  OBVIOUS
<1>3. low \in 0 .. One /\ high \in 0 .. One /\ less \in 0 .. One /\ more \in 0 .. One
  BY <1>2, PricesAreWithin
<1>4. sum - low = more /\ sum - high = less
  BY <1>2
<1>5. ReplayOdds = {[GoodOdds EXCEPT !.yes = p, !.no = sum - p] : p \in {low, high}}
  BY <1>2 DEF ReplayOdds
<1>6. \/ odds = [GoodOdds EXCEPT !.yes = low, !.no = sum - low]
      \/ odds = [GoodOdds EXCEPT !.yes = high, !.no = sum - high]
  BY <1>5, Zenon
<1>7. odds = [GoodOdds EXCEPT !.yes = low, !.no = more] \/ odds = [GoodOdds EXCEPT !.yes = high, !.no = less]
  BY <1>4, <1>6, Zenon
<1>8. QED
  BY <1>1, <1>3, <1>7, PricesReplaced, Zenon

LEMMA OpenMarketsAre ==
  ASSUME NEW list \in ActiveLists
  PROVE  DOMAIN list = 1 .. 2 /\ \A i \in 1 .. 2 : IsOfferedMarket(list[i])
<1>1. PICK text \in ReplayTexts, odds \in ReplayOdds : list = OpenMarkets(text, odds)
  BY DEF ActiveLists
<1>2. IsText(text) /\ IsText(GoodText)
  <2>1. PICK words, expiry : text = ReplayText(words, expiry) /\ expiry \in {Null, 40, 50, 70}
    BY DEF ReplayTexts
  <2>2. expiry \in Int
    BY <2>1, NullIsNegative
  <2>3. QED
    BY <2>1, <2>2, ReplayTextsAre
<1>3. odds.yes \in 0 .. One /\ odds.no \in 0 .. One /\ odds.spread \in Int
  BY ReplayOddsAre
<1>4. GoodOdds.yes \in 0 .. One /\ GoodOdds.no \in 0 .. One /\ GoodOdds.spread \in Int
  BY DEF GoodOdds, One
<1>5. PICK priceOf : priceOf = [BTC |-> 101]
  OBVIOUS
<1>6. PICK one, two : one = BindMarket(text, odds, priceOf) /\ two = BindMarket(GoodText, GoodOdds, priceOf)
  OBVIOUS
<1>7. IsOfferedMarket(one) /\ IsOfferedMarket(two)
  BY <1>2, <1>3, <1>4, <1>6, OfferedAre
<1>8. list = <<one, two>>
  BY <1>1, <1>5, <1>6, Zenon DEF OpenMarkets
<1>9. QED
  BY <1>7, <1>8

LEMMA ClosedListsAre ==
  ASSUME NEW list \in ClosedLists
  PROVE  \E k \in Nat : DOMAIN list = 1 .. k /\ \A i \in 1 .. k : list[i].candidate.expiry \in Int
<1>1. CASE list = <<>>
  <2>1. DOMAIN list = 1 .. 0
    BY <1>1
  <2>2. QED
    BY <2>1
<1>2. CASE list # <<>>
  <2>1. PICK closed \in ClosedMarkets : list = <<closed>>
    BY <1>2 DEF ClosedLists
  <2>2. PICK expiry : expiry \in {Null, 30, 60} /\ closed.candidate = ReplayText({"above", "definite"}, expiry)
    BY DEF ClosedMarkets
  <2>3. expiry \in Int
    BY <2>2, NullIsNegative
  <2>4. PICK words : words = {"above", "definite"}
    OBVIOUS
  <2>5. closed.candidate.expiry \in Int
    BY <2>2, <2>3, <2>4, ReplayTextsAre
  <2>6. DOMAIN list = 1 .. 1 /\ list[1] = closed
    BY <2>1
  <2>7. QED
    BY <2>5, <2>6
<1>3. QED
  BY <1>1, <1>2

LEMMA WindowsOfRuns ==
  ASSUME NEW window \in ReplayWindows
  PROVE  window.start \in Int /\ window.end \in Int
<1>1. PICK end \in {5, 45, 60} : window = ResolveWindow([id |-> "custom", start |-> 10, end |-> end], 60)
  BY DEF ReplayWindows
<1>2. PICK asked : asked = [id |-> "custom", start |-> 10, end |-> end]
  OBVIOUS
<1>3. asked.id = "custom" /\ asked.start = 10 /\ asked.end = end
  BY <1>2
<1>4. window = [ok |-> asked.start < asked.end, start |-> asked.start, end |-> asked.end]
  BY <1>1, <1>2, <1>3 DEF ResolveWindow
<1>5. QED
  BY <1>3, <1>4

LEMMA AskedReplays ==
  ASSUME NEW run \in ReplayRuns
  PROVE  IsReplayRun(run)
<1>1. /\ DOMAIN run = RunFields
      /\ run.window \in ReplayWindows /\ run.checkedAt = 60 /\ run.minutes \in {1, 30}
      /\ run.candles \in PricesOfRuns /\ run.options \in ReplayOptions /\ run.activeFailed = FALSE
      /\ run.active \in ActiveLists /\ run.closed \in ClosedLists
  BY DEF ReplayRuns, RunFields
<1>2. run.window.start \in Int /\ run.window.end \in Int
  BY <1>1, WindowsOfRuns
<1>3. run.checkedAt \in Int /\ run.minutes \in Int
  BY <1>1
<1>4. run.candles \in Seq(PricedCandles)
  <2>1. PICK last \in {11, 16} : \E kind : run.candles = CandlesTo(last, kind)
    BY <1>1 DEF PricesOfRuns
  <2>2. PICK n \in Nat : n = last
    OBVIOUS
  <2>3. PICK kind : run.candles = CandlesTo(n, kind)
    BY <2>1, <2>2
  <2>4. CandlesTo(n, kind) \in Seq(PricedCandles)
    BY CandlesToArePriced
  <2>5. QED
    BY <2>3, <2>4
<1>5. "now" \in DOMAIN run.options
  BY <1>1 DEF ReplayOptions
<1>6. DOMAIN run.active = 1 .. 2 /\ \A i \in 1 .. 2 : IsOfferedMarket(run.active[i])
  BY <1>1, OpenMarketsAre
<1>7. PICK k \in Nat : DOMAIN run.closed = 1 .. k /\ \A i \in 1 .. k : run.closed[i].candidate.expiry \in Int
  BY <1>1, ClosedListsAre
<1>8. HasMarkets(run, 2, k)
  BY <1>1, <1>6, <1>7 DEF HasMarkets
<1>9. \E n \in Nat, m \in Nat : n <= 20 /\ HasMarkets(run, n, m)
  BY <1>8
<1>10. /\ \A i \in DOMAIN run.active : IsOfferedMarket(run.active[i])
       /\ \A i \in DOMAIN run.closed : run.closed[i].candidate.expiry \in Int
  BY <1>6, <1>7
<1>11. QED
  BY <1>1, <1>2, <1>3, <1>4, <1>5, <1>9, <1>10, Zenon DEF IsReplayRun

LEMMA AskedReplayIsSound ==
  ASSUME Rules
  PROVE  ReplayIsSound'
<1>1. RuleTopics
  BY TopicsOfRules
<1>2. topic' = "replay" => ReplayIsHonest(input', RunSignalReplay(input'))
  <2>1. ASSUME AskReplay PROVE ReplayIsHonest(input', RunSignalReplay(input'))
    <3>1. PICK run \in ReplayRuns : run = input'
      BY <2>1 DEF AskReplay
    <3>2. ReplayIsHonest(run, RunSignalReplay(run))
      BY AskedReplays, ReplayHonest
    <3>3. QED
      BY <3>1, <3>2
  <2>2. QED
    BY <1>1, <2>1, Zenon DEF RuleTopics
<1>3. QED
  BY <1>2, Zenon DEF ReplayIsSound

\* Theorem: what the run asks of the replay is answered as ReplayIsSound says:
\* signals know nothing of what came after them, rates and sums are those of bets
\* the market decided, and a window that ends now has no rate.
THEOREM ReplaysSound == Spec => []ReplayIsSound
<1>1. Init => ReplayIsSound
  <2>1. Init => topic # "replay"
    BY Zenon DEF Init
  <2>2. QED
    BY <2>1, Zenon DEF ReplayIsSound
<1>2. ReplayIsSound /\ [Next]_<<vars, panelVars, schedulerVars>> => ReplayIsSound'
  <2>1. Rules => ReplayIsSound'
    BY AskedReplayIsSound
  <2>2. ASSUME ReplayIsSound, [Next]_<<vars, panelVars, schedulerVars>>, ~Rules
        PROVE  ReplayIsSound'
    <3>1. topic' = topic /\ input' = input
      BY <2>2 DEF Next, vars
    <3>2. QED
      BY <2>2, <3>1, Zenon DEF ReplayIsSound
  <2>3. QED
    BY <2>1, <2>2
<1>3. QED
  BY <1>1, <1>2, PTL DEF Spec

-----------------------------------------------------------------------------
(* What the run asks of the discovery and of the scanner.                    *)

LEMMA GammaRepliesAre ==
  ASSUME NEW rows, NEW most \in Nat, NEW reply \in GammaReplies(rows, most), NEW M, rows \subseteq M
  PROVE  IsGammaReply(reply, M)
<1>1. SUFFICES ASSUME reply.kind = "answer" PROVE reply.rows \in Seq(M)
  BY DEF IsGammaReply
<1>2. PICK lists : lists = UNION {[1 .. n -> rows] : n \in 0 .. most}
  OBVIOUS
<1>2a. PICK failed, other : failed = [kind |-> "failed"] /\ other = [kind |-> "another shape"]
  OBVIOUS
<1>2b. failed.kind = "failed" /\ other.kind = "another shape"
  BY <1>2a
<1>3. reply \in {[kind |-> "answer", rows |-> r] : r \in lists}
  <2>1. reply \in {[kind |-> "answer", rows |-> r] : r \in lists} \cup {failed, other}
    BY <1>2, <1>2a, Zenon DEF GammaReplies
  <2>2. reply # failed /\ reply # other
    BY <1>1, <1>2b, Zenon
  <2>3. QED
    BY <2>1, <2>2, Zenon
<1>4. PICK list \in lists : reply.rows = list
  BY <1>3
<1>5. PICK n \in 0 .. most : list \in [1 .. n -> rows]
  BY <1>2
<1>6. n \in Nat /\ list \in [1 .. n -> M]
  BY <1>5
<1>7. list \in Seq(M)
  BY <1>6
<1>8. QED
  BY <1>4, <1>7

LEMMA AskedDiscovery ==
  ASSUME AskDiscovery
  PROVE  DiscoveryIsSound(input'.gamma, EachClob, input'.req)
<1>1. PICK listed : listed = FoundRows
  OBVIOUS
<1>2. PICK active \in GammaReplies(GammaRows, 3), symbol \in {"BTC", "ETH", "ALL"}, limit \in {1, 2},
           btc \in GammaReplies(listed, 1), eth \in GammaReplies({}, 0) :
        input' = [gamma |-> [active |-> active, BTC |-> btc, ETH |-> eth],
                  req |-> [symbol |-> symbol, limit |-> limit]]
  BY <1>1, Zenon DEF AskDiscovery
<1>3. PICK gamma, req : gamma = [active |-> active, BTC |-> btc, ETH |-> eth] /\ req = [symbol |-> symbol, limit |-> limit]
  OBVIOUS
<1>4. gamma.active = active /\ gamma.BTC = btc /\ gamma.ETH = eth /\ req.limit \in Nat
  BY <1>3
<1>5. input'.gamma = gamma /\ input'.req = req
  BY <1>2, <1>3
<1>6. PICK M : M = GammaRows \cup listed
  OBVIOUS
<1>7. GammaRows \subseteq M /\ listed \subseteq M /\ {} \subseteq M
  BY <1>6
<1>8. IsGammaReply(active, M)
  BY <1>7, GammaRepliesAre
<1>9. IsGammaReply(btc, M)
  BY <1>7, GammaRepliesAre
<1>10. IsGammaReply(eth, M)
  BY <1>7, GammaRepliesAre
<1>11. AreGammaReplies(gamma, M)
  BY <1>4, <1>8, <1>9, <1>10 DEF AreGammaReplies
<1>12. PICK clob : clob = EachClob
  OBVIOUS
<1>13. DiscoveryIsSound(gamma, clob, req)
  BY <1>4, <1>11, DiscoverySound
<1>14. QED
  BY <1>5, <1>12, <1>13

LEMMA ClobAnswersAre == ClobAnswers \subseteq AnswersOfClob
<1>1. ClobBooks \subseteq BookAnswers
  <2>1. ASSUME NEW bids \in SUBSET Int, NEW asks \in SUBSET Int
        PROVE  ClobBook(bids, asks) \in BookAnswers
    BY DEF ClobBook, BookAnswers
  <2>2. /\ {3900, 4000} \in SUBSET Int /\ {4200, 4400} \in SUBSET Int /\ {4000} \in SUBSET Int
        /\ {} \in SUBSET Int
    OBVIOUS
  <2>3. FullBook \in BookAnswers
    BY <2>1, <2>2, SMT DEF FullBook
  <2>4. HalfBook \in BookAnswers
    BY <2>1, <2>2, SMT DEF HalfBook
  <2>5. ClobBook({}, {}) \in BookAnswers
    BY <2>1, <2>2
  <2>6. FailedBook \in BookAnswers
    BY <2>2 DEF BookAnswers, FailedBook
  <2>7. NoListBook \in BookAnswers
    BY <2>2 DEF BookAnswers, NoListBook
  <2>8. QED
    BY <2>3, <2>4, <2>5, <2>6, <2>7, Zenon DEF ClobBooks
<1>2. Null \in Int /\ Failed \in Int
  BY NullIsNegative DEF Failed
<1>3. QED
  BY <1>1, <1>2 DEF ClobAnswers, AnswersOfClob

LEMMA MappedIsListed ==
  ASSUME NEW market, market.id \in Int, market.named \in SUBSET {"BTC", "ETH"}, market.ends \in Int,
         market.source \in BOOLEAN, market.tokens \in Int, market.prices \in Seq(Int), market.liquidity \in Int
  PROVE  MapGammaMarket(market) \in ListedMarkets
  BY DEF MapGammaMarket, ListedMarkets

LEMMA AskedPricesAre == OddsPrices \subseteq Seq(Int)
<1>1. ASSUME NEW prices, prices = <<4000, 6100>> PROVE prices \in Seq(Int)
  BY <1>1
<1>2. ASSUME NEW prices, prices = <<>> PROVE prices \in Seq(Int)
  BY <1>2
<1>3. QED
  BY <1>1, <1>2, SMT DEF OddsPrices

LEMMA AskedMarketIsListed ==
  ASSUME NEW prices \in OddsPrices, NEW tokens \in {1, 2}, NEW liquidity \in OddsLiquidities
  PROVE  MapGammaMarket(OddsMarket(prices, tokens, liquidity)) \in ListedMarkets
<1>1. PICK market : market = OddsMarket(prices, tokens, liquidity)
  OBVIOUS
<1>2. /\ market.id = 1 /\ market.named = {"BTC"} /\ market.ends = 50 /\ market.source = TRUE
      /\ market.tokens = tokens /\ market.prices = prices /\ market.liquidity = liquidity
  BY <1>1 DEF OddsMarket, GammaMarket
<1>3. tokens \in Int /\ liquidity \in Int
  BY NullIsNegative DEF OddsLiquidities
<1>4. prices \in Seq(Int)
  BY AskedPricesAre
<1>5. {"BTC"} \in SUBSET {"BTC", "ETH"}
  OBVIOUS
<1>5a. /\ market.id \in Int /\ market.named \in SUBSET {"BTC", "ETH"} /\ market.ends \in Int
       /\ market.source \in BOOLEAN
  <2>1. market.named \in SUBSET {"BTC", "ETH"}
    BY <1>2, <1>5, Zenon
  <2>2. market.id \in Int /\ market.ends \in Int
    BY <1>2
  <2>3. market.source \in BOOLEAN
    BY <1>2, Zenon
  <2>4. QED
    BY <2>1, <2>2, <2>3
<1>5b. market.tokens \in Int /\ market.prices \in Seq(Int) /\ market.liquidity \in Int
  BY <1>2, <1>3, <1>4
<1>6. MapGammaMarket(market) \in ListedMarkets
  BY <1>5a, <1>5b, MappedIsListed
<1>7. QED
  BY <1>1, <1>6

LEMMA AskedOdds ==
  ASSUME AskOdds
  PROVE  EligibleOddsAreLive(input'.candidate, input'.clob)
<1>1. PICK clob \in ClobAnswers, prices \in OddsPrices, tokens \in {1, 2}, liquidity \in OddsLiquidities :
        input' = [clob |-> clob, candidate |-> MapGammaMarket(OddsMarket(prices, tokens, liquidity))]
  BY Zenon DEF AskOdds
<1>2. PICK candidate : candidate = MapGammaMarket(OddsMarket(prices, tokens, liquidity))
  OBVIOUS
<1>3. candidate \in ListedMarkets
  BY <1>2, AskedMarketIsListed
<1>4. clob \in AnswersOfClob
  BY ClobAnswersAre
<1>5. EligibleOddsAreLive(candidate, clob)
  BY <1>3, <1>4, EligibleOddsLive
<1>6. input' = [clob |-> clob, candidate |-> candidate]
  BY <1>1, <1>2, Zenon
<1>7. input'.candidate = candidate /\ input'.clob = clob
  BY <1>6
<1>8. QED
  BY <1>5, <1>7

\* The window that the run asks of, and its parts.
LEMMA AskedClosed ==
  ASSUME NEW reply \in GammaReplies(ClosedRows, 2), NEW symbol, NEW part \in ClosedParts
  PROVE  ClosedWindowsNest(reply, symbol, ClosedWindow, part)
<1>1. PICK M : M = ClosedRows
  OBVIOUS
<1>2. \A market \in M : market.ends \in Int
  <2>1. ASSUME NEW market \in ClosedRows PROVE market.ends \in Int
    <3>1. \/ market = [GammaMarket EXCEPT !.id = 1, !.ends = 30, !.result = "yes"]
          \/ market = [GammaMarket EXCEPT !.id = 2, !.ends = Null]
          \/ market = [GammaMarket EXCEPT !.id = 3, !.ends = 70, !.named = {"ETH"}, !.result = "50-50"]
          \/ market = [GammaMarket EXCEPT !.id = 4, !.ends = 50, !.result = "no"]
      BY DEF ClosedRows
    <3>2. CASE market = [GammaMarket EXCEPT !.id = 1, !.ends = 30, !.result = "yes"]
      <4>1. market.ends = 30
        BY <3>2 DEF GammaMarket
      <4>2. QED
        BY <4>1
    <3>3. CASE market = [GammaMarket EXCEPT !.id = 2, !.ends = Null]
      <4>1. market.ends = Null
        BY <3>3 DEF GammaMarket
      <4>2. QED
        BY <4>1, NullIsNegative
    <3>4. CASE market = [GammaMarket EXCEPT !.id = 3, !.ends = 70, !.named = {"ETH"}, !.result = "50-50"]
      <4>1. market.ends = 70
        BY <3>4 DEF GammaMarket
      <4>2. QED
        BY <4>1
    <3>5. CASE market = [GammaMarket EXCEPT !.id = 4, !.ends = 50, !.result = "no"]
      <4>1. market.ends = 50
        BY <3>5 DEF GammaMarket
      <4>2. QED
        BY <4>1
    <3>6. QED
      BY <3>1, <3>2, <3>3, <3>4, <3>5
  <2>2. QED
    BY <1>1, <2>1
<1>3. IsGammaReply(reply, M)
  <2>1. ClosedRows \subseteq M
    BY <1>1
  <2>2. QED
    BY <2>1, GammaRepliesAre
<1>4. PICK window : window = ClosedWindow
  OBVIOUS
<1>5. window.start = 20 /\ window.end = 70
  BY <1>4 DEF ClosedWindow
<1>6. part.start = 30 /\ part.end \in {40, 50, 69}
  BY DEF ClosedParts
<1>7. /\ window.start \in Int /\ window.end \in Int /\ part.start \in Int /\ part.end \in Int
      /\ window.start <= part.start /\ part.end <= window.end
  BY <1>5, <1>6
<1>8. ClosedWindowsNest(reply, symbol, window, part)
  BY <1>2, <1>3, <1>7, ClosedNest
<1>9. QED
  BY <1>4, <1>8

LEMMA AskedPoints ==
  ASSUME NEW reply \in GammaReplies(PricePoints, 3), NEW when \in {5, 20, 30}
  PROVE  HistoryIsWhole(reply, when)
<1>1. PICK M : M = PointsInTime
  OBVIOUS
<1>2. PricePoints \subseteq M
  BY <1>1, NullIsNegative DEF PricePoints, PointsInTime
<1>3. IsGammaReply(reply, M)
  BY <1>2, GammaRepliesAre
<1>4. reply.kind = "answer" => reply.rows \in Seq(PointsInTime)
  BY <1>1, <1>3 DEF IsGammaReply
<1>5. when \in Int
  OBVIOUS
<1>6. QED
  BY <1>4, <1>5, HistoryWhole

LEMMA AskedPastOdds ==
  ASSUME AskPastOdds
  PROVE  IF "closed" \in DOMAIN input'
         THEN ClosedWindowsNest(input'.closed, input'.symbol, ClosedWindow, input'.part)
         ELSE HistoryIsWhole(input'.points, input'.time)
<1>1. \/ \E reply \in GammaReplies(ClosedRows, 2), symbol \in {"BTC", "ALL"}, part \in ClosedParts :
           input' = [closed |-> reply, symbol |-> symbol, part |-> part]
      \/ \E reply \in GammaReplies(PricePoints, 3), when \in {5, 20, 30} :
           input' = [points |-> reply, time |-> when]
  BY Zenon DEF AskPastOdds
<1>2. ASSUME NEW reply \in GammaReplies(ClosedRows, 2), NEW symbol, NEW part \in ClosedParts,
             input' = [closed |-> reply, symbol |-> symbol, part |-> part]
      PROVE  /\ "closed" \in DOMAIN input'
             /\ ClosedWindowsNest(input'.closed, input'.symbol, ClosedWindow, input'.part)
  <2>1. "closed" \in DOMAIN input' /\ input'.closed = reply /\ input'.symbol = symbol /\ input'.part = part
    BY <1>2
  <2>2. ClosedWindowsNest(reply, symbol, ClosedWindow, part)
    BY AskedClosed
  <2>3. QED
    BY <2>1, <2>2, Zenon
<1>3. ASSUME NEW reply \in GammaReplies(PricePoints, 3), NEW when \in {5, 20, 30},
             input' = [points |-> reply, time |-> when]
      PROVE  "closed" \notin DOMAIN input' /\ HistoryIsWhole(input'.points, input'.time)
  <2>1. "closed" \notin DOMAIN input' /\ input'.points = reply /\ input'.time = when
    BY <1>3
  <2>2. HistoryIsWhole(reply, when)
    BY AskedPoints
  <2>3. QED
    BY <2>1, <2>2, Zenon
<1>4. QED
  BY <1>1, <1>2, <1>3, Zenon

LEMMA OneIsAList ==
  ASSUME NEW M, NEW list \in [1 .. 1 -> M]
  PROVE  list \in Seq(M)
<1>1. PICK n \in Nat : n = 1
  OBVIOUS
<1>2. list \in [1 .. n -> M]
  BY <1>1, Zenon
<1>3. QED
  BY <1>2

LEMMA AskedScanner ==
  ASSUME AskScanner
  PROVE  ScannerIsHonest(input'.events, input'.mode, Classes, ScannerScope, input'.engine)
<1>1. PICK M : M = IngestedMarkets
  OBVIOUS
<1>2. PICK first \in [1 .. 2 -> M], second \in {<<>>} \cup [1 .. 1 -> M],
           mode \in {"fixture", "live_public"}, engine \in [1 .. 3 -> {"works", "down"}] :
        input' = [events |-> <<first, second>>, mode |-> mode, engine |-> engine]
  BY <1>1, Zenon DEF AskScanner
<1>3. PICK T : T = Seq(M)
  OBVIOUS
<1>4. first \in T /\ second \in T
  <2>1. first \in Seq(M)
    OBVIOUS
  <2>2. second = <<>> \/ second \in [1 .. 1 -> M]
    OBVIOUS
  <2>3. second \in Seq(M)
    <3>1. ASSUME NEW list \in [1 .. 1 -> M] PROVE list \in Seq(M)
      BY OneIsAList
    <3>2. <<>> \in Seq(M)
      OBVIOUS
    <3>3. QED
      BY <2>2, <3>1, <3>2, Zenon
  <2>4. QED
    BY <1>3, <2>1, <2>3
<1>5. PICK events : events = <<first, second>>
  OBVIOUS
<1>6. events \in Seq(T)
  BY <1>4, <1>5
<1>7. events \in Seq(Seq(M))
  BY <1>3, <1>6
<1>8. ScannerIsHonest(events, mode, Classes, ScannerScope, engine)
  BY <1>7, ScannerHonest
<1>9. input' = [events |-> events, mode |-> mode, engine |-> engine]
  BY <1>2, <1>5, Zenon
<1>10. input'.events = events /\ input'.mode = mode /\ input'.engine = engine
  BY <1>9
<1>11. QED
  BY <1>8, <1>10, Zenon

LEMMA AskedPolymarketIsSound ==
  ASSUME Rules
  PROVE  PolymarketIsSound'
<1>1. RuleTopics
  BY TopicsOfRules
<1>2. topic' = "discovery" => DiscoveryIsSound(input'.gamma, EachClob, input'.req)
  BY <1>1, AskedDiscovery, Zenon DEF RuleTopics
<1>3. topic' = "odds" => EligibleOddsAreLive(input'.candidate, input'.clob)
  BY <1>1, AskedOdds, Zenon DEF RuleTopics
<1>4. topic' = "past odds" =>
        IF "closed" \in DOMAIN input'
        THEN ClosedWindowsNest(input'.closed, input'.symbol, ClosedWindow, input'.part)
        ELSE HistoryIsWhole(input'.points, input'.time)
  BY <1>1, AskedPastOdds, Zenon DEF RuleTopics
<1>5. topic' = "scanner" => ScannerIsHonest(input'.events, input'.mode, Classes, ScannerScope, input'.engine)
  BY <1>1, AskedScanner, Zenon DEF RuleTopics
<1>6. QED
  BY <1>2, <1>3, <1>4, <1>5, Zenon DEF PolymarketIsSound

\* Theorem: what the run asks of Polymarket's markets and of the scanner is
\* answered as PolymarketIsSound says: each market is found once and only where it
\* fits, is eligible only with odds of the CLOB's, and has its past whole; and the
\* scanner's list and its summary add up, whoever makes the quotes.
THEOREM PolymarketSound == Spec => []PolymarketIsSound
<1>1. Init => PolymarketIsSound
  <2>1. Init => topic \notin {"discovery", "odds", "past odds", "scanner"}
    BY Zenon DEF Init
  <2>2. QED
    BY <2>1, Zenon DEF PolymarketIsSound
<1>2. PolymarketIsSound /\ [Next]_<<vars, panelVars, schedulerVars>> => PolymarketIsSound'
  <2>1. Rules => PolymarketIsSound'
    BY AskedPolymarketIsSound
  <2>2. ASSUME PolymarketIsSound, [Next]_<<vars, panelVars, schedulerVars>>, ~Rules
        PROVE  PolymarketIsSound'
    <3>1. topic' = topic /\ input' = input
      BY <2>2 DEF Next, vars
    <3>2. QED
      BY <2>2, <3>1, Zenon DEF PolymarketIsSound
  <2>3. QED
    BY <2>1, <2>2
<1>3. QED
  BY <1>1, <1>2, PTL DEF Spec

-----------------------------------------------------------------------------
(* The windows that the run asks for.                                        *)
\* Five steps of a price, of which none is larger than three hundred.
IsShape(moves) ==
  /\ moves \in Seq(Int) /\ Len(moves) = 5
  /\ \A i \in 1 .. 5 : moves[i] \in Int /\ -300 <= moves[i] /\ moves[i] <= 300
  /\ moves[1] + moves[2] + moves[3] + moves[4] + moves[5] \in Int
  /\ moves[1] + moves[2] + moves[3] + moves[4] + moves[5] >= -100

LEMMA FiveMoves ==
  ASSUME NEW a \in Int, NEW b \in Int, NEW c \in Int, NEW d \in Int, NEW e \in Int,
         -300 <= a /\ a <= 300, -300 <= b /\ b <= 300, -300 <= c /\ c <= 300,
         -300 <= d /\ d <= 300, -300 <= e /\ e <= 300, a + b + c + d + e >= -100,
         NEW moves, moves = <<a, b, c, d, e>>
  PROVE  IsShape(moves)
<1>1. moves \in Seq(Int) /\ Len(moves) = 5
  OBVIOUS
<1>2. moves[1] = a /\ moves[2] = b /\ moves[3] = c /\ moves[4] = d /\ moves[5] = e
  OBVIOUS
<1>3. \A i \in 1 .. 5 : i = 1 \/ i = 2 \/ i = 3 \/ i = 4 \/ i = 5
  OBVIOUS
<1>4. \A i \in 1 .. 5 : moves[i] \in Int /\ -300 <= moves[i] /\ moves[i] <= 300
  BY <1>2, <1>3
<1>5. QED
  BY <1>1, <1>2, <1>4 DEF IsShape

LEMMA ShapesAre ==
  ASSUME NEW shape \in DOMAIN Shapes
  PROVE  IsShape(Shapes[shape])
<1>1. shape \in {"up", "down", "turn", "fade", "flat", "jump", "drift"}
  BY DEF Shapes
<1>2. CASE shape = "up"
  <2>1. PICK a \in Int, b \in Int, c \in Int, d \in Int, e \in Int :
          a = 20 /\ b = 20 /\ c = 20 /\ d = 20 /\ e = 20
    OBVIOUS
  <2>2. Shapes["up"] = <<20, 20, 20, 20, 20>>
    BY DEF Shapes
  <2>3. Shapes[shape] = <<a, b, c, d, e>>
    BY <1>2, <2>1, <2>2
  <2>4. /\ -300 <= a /\ a <= 300 /\ -300 <= b /\ b <= 300 /\ -300 <= c /\ c <= 300
        /\ -300 <= d /\ d <= 300 /\ -300 <= e /\ e <= 300 /\ a + b + c + d + e >= -100
    BY <2>1
  <2>5. QED
    BY <2>3, <2>4, FiveMoves, Zenon
<1>3. CASE shape = "down"
  <2>1. PICK a \in Int, b \in Int, c \in Int, d \in Int, e \in Int :
          a = -20 /\ b = -20 /\ c = -20 /\ d = -20 /\ e = -20
    OBVIOUS
  <2>2. Shapes["down"] = <<-20, -20, -20, -20, -20>>
    BY DEF Shapes
  <2>3. Shapes[shape] = <<a, b, c, d, e>>
    BY <1>3, <2>1, <2>2
  <2>4. /\ -300 <= a /\ a <= 300 /\ -300 <= b /\ b <= 300 /\ -300 <= c /\ c <= 300
        /\ -300 <= d /\ d <= 300 /\ -300 <= e /\ e <= 300 /\ a + b + c + d + e >= -100
    BY <2>1
  <2>5. QED
    BY <2>3, <2>4, FiveMoves, Zenon
<1>4. CASE shape = "turn"
  <2>1. PICK a \in Int, b \in Int, c \in Int, d \in Int, e \in Int :
          a = 30 /\ b = 30 /\ c = 30 /\ d = -50 /\ e = -40
    OBVIOUS
  <2>2. Shapes["turn"] = <<30, 30, 30, -50, -40>>
    BY DEF Shapes
  <2>3. Shapes[shape] = <<a, b, c, d, e>>
    BY <1>4, <2>1, <2>2
  <2>4. /\ -300 <= a /\ a <= 300 /\ -300 <= b /\ b <= 300 /\ -300 <= c /\ c <= 300
        /\ -300 <= d /\ d <= 300 /\ -300 <= e /\ e <= 300 /\ a + b + c + d + e >= -100
    BY <2>1
  <2>5. QED
    BY <2>3, <2>4, FiveMoves, Zenon
<1>5. CASE shape = "flat"
  <2>1. PICK a \in Int, b \in Int, c \in Int, d \in Int, e \in Int :
          a = 0 /\ b = 0 /\ c = 0 /\ d = 0 /\ e = 0
    OBVIOUS
  <2>2. Shapes["flat"] = <<0, 0, 0, 0, 0>>
    BY DEF Shapes
  <2>3. Shapes[shape] = <<a, b, c, d, e>>
    BY <1>5, <2>1, <2>2
  <2>4. /\ -300 <= a /\ a <= 300 /\ -300 <= b /\ b <= 300 /\ -300 <= c /\ c <= 300
        /\ -300 <= d /\ d <= 300 /\ -300 <= e /\ e <= 300 /\ a + b + c + d + e >= -100
    BY <2>1
  <2>5. QED
    BY <2>3, <2>4, FiveMoves, Zenon
<1>6. CASE shape = "jump"
  <2>1. PICK a \in Int, b \in Int, c \in Int, d \in Int, e \in Int :
          a = 300 /\ b = -300 /\ c = 200 /\ d = -200 /\ e = 0
    OBVIOUS
  <2>2. Shapes["jump"] = <<300, -300, 200, -200, 0>>
    BY DEF Shapes
  <2>3. Shapes[shape] = <<a, b, c, d, e>>
    BY <1>6, <2>1, <2>2
  <2>4. /\ -300 <= a /\ a <= 300 /\ -300 <= b /\ b <= 300 /\ -300 <= c /\ c <= 300
        /\ -300 <= d /\ d <= 300 /\ -300 <= e /\ e <= 300 /\ a + b + c + d + e >= -100
    BY <2>1
  <2>5. QED
    BY <2>3, <2>4, FiveMoves, Zenon
<1>7. CASE shape = "drift"
  <2>1. PICK a \in Int, b \in Int, c \in Int, d \in Int, e \in Int :
          a = 3 /\ b = 3 /\ c = 3 /\ d = 3 /\ e = 3
    OBVIOUS
  <2>2. Shapes["drift"] = <<3, 3, 3, 3, 3>>
    BY DEF Shapes
  <2>3. Shapes[shape] = <<a, b, c, d, e>>
    BY <1>7, <2>1, <2>2
  <2>4. /\ -300 <= a /\ a <= 300 /\ -300 <= b /\ b <= 300 /\ -300 <= c /\ c <= 300
        /\ -300 <= d /\ d <= 300 /\ -300 <= e /\ e <= 300 /\ a + b + c + d + e >= -100
    BY <2>1
  <2>5. QED
    BY <2>3, <2>4, FiveMoves, Zenon
<1>8. CASE shape = "fade"
  <2>1. PICK a \in Int, b \in Int, c \in Int, d \in Int, e \in Int :
          a = 20 /\ b = 20 /\ c = 20 /\ d = 20 /\ e = -10
    OBVIOUS
  <2>2. Shapes["fade"] = <<20, 20, 20, 20, -10>>
    BY DEF Shapes
  <2>3. Shapes[shape] = <<a, b, c, d, e>>
    BY <1>8, <2>1, <2>2
  <2>4. /\ -300 <= a /\ a <= 300 /\ -300 <= b /\ b <= 300 /\ -300 <= c /\ c <= 300
        /\ -300 <= d /\ d <= 300 /\ -300 <= e /\ e <= 300 /\ a + b + c + d + e >= -100
    BY <2>1
  <2>5. QED
    BY <2>3, <2>4, FiveMoves, Zenon
<1>9. QED
  BY <1>1, <1>2, <1>3, <1>4, <1>5, <1>6, <1>7, <1>8

LEMMA MinutePricesAre ==
  ASSUME NEW shape \in DOMAIN Shapes, NEW n \in 0 .. 30
  PROVE  MinutePrice(shape, n) \in Int /\ MinutePrice(shape, n) > 1000
<1>1. PICK moves : moves = Shapes[shape] /\ IsShape(moves)
  BY ShapesAre
<1>2. moves \in Seq(Int) /\ Len(moves) = 5 /\ \A i \in 1 .. 5 : moves[i] \in Int /\ -300 <= moves[i] /\ moves[i] <= 300
  BY <1>1 DEF IsShape
<1>3. PICK total \in Int : total = moves[1] + moves[2] + moves[3] + moves[4] + moves[5] /\ total >= -100
  BY <1>1 DEF IsShape
<1>4. PICK turns \in 0 .. 6 : turns = n \div 5
  OBVIOUS
<1>5. PICK rest \in 0 .. 4 : rest = n % 5
  OBVIOUS
<1>6. PICK part : part = SubSeq(moves, 1, rest)
  OBVIOUS
<1>7. part \in Seq(Int) /\ Len(part) = rest /\ \A i \in 1 .. rest : -300 <= part[i] /\ part[i] <= 300
  BY SMTT(40), <1>2, <1>6
<1>8. PICK sum \in Int : sum = Summed(part) /\ sum >= -1200
  <2>1. PICK low \in Int, high \in Int : low = -300 /\ high = 300
    OBVIOUS
  <2>2. \A i \in 1 .. Len(part) : low <= part[i] /\ part[i] <= high
    BY <1>7, <2>1
  <2>3. Len(part) * low <= Summed(part) /\ Summed(part) \in Int
    BY <1>7, <2>2, SummedWithin
  <2>4. rest * low >= -1200
    BY <2>1
  <2>5. QED
    BY <1>7, <2>1, <2>3, <2>4
<1>9. PICK climb \in Int : climb = turns * total /\ climb >= -600
  <2>1. turns \in {0, 1, 2, 3, 4, 5, 6}
    OBVIOUS
  <2>2. turns * total \in Int /\ turns * total >= -600
    BY <1>3, <2>1
  <2>3. QED
    BY <2>2
<1>10. MinutePrice(shape, n) = 10000 + climb + sum
  BY <1>1, <1>3, <1>4, <1>5, <1>6, <1>8, <1>9 DEF MinutePrice
<1>11. QED
  BY <1>8, <1>9, <1>10

LEMMA MinutesAre ==
  ASSUME NEW shape \in DOMAIN Shapes, NEW from \in Nat, NEW to \in 0 .. 29, NEW gaps
  PROVE  AreMinutes(Minutes(shape, from, to, gaps)) /\ InTime(Minutes(shape, from, to, gaps))
<1> DEFINE MinuteAt(i) == [open |-> 60 * (from + i - 1), first |-> MinutePrice(shape, from + i - 1),
                         last |-> MinutePrice(shape, from + i)]
<1>1. PICK all : all = [i \in 1 .. to - from + 1 |-> MinuteAt(i)]
  OBVIOUS
<1>2. PICK count \in Nat : 1 .. to - from + 1 = 1 .. count /\ count <= 30
  <2>1. PICK count \in Nat : count = IF from <= to THEN to - from + 1 ELSE 0
    <3>1. (IF from <= to THEN to - from + 1 ELSE 0) \in Nat
      OBVIOUS
    <3>2. QED
      BY <3>1
  <2>2. count <= 30 /\ \A i \in Int : i <= count /\ 1 <= i <=> i <= to - from + 1 /\ 1 <= i
    BY <2>1
  <2>3. 1 .. to - from + 1 = 1 .. count
    BY <2>2
  <2>4. QED
    BY <2>2, <2>3
<1>3. ASSUME NEW i \in 1 .. count
      PROVE  /\ all[i] \in MinuteCandles /\ all[i].open = 60 * (from + i - 1)
  <2>1. from + i - 1 \in 0 .. 30 /\ from + i \in 0 .. 30
    BY <1>2
  <2>2. PICK first \in Prices, last \in Prices :
          first = MinutePrice(shape, from + i - 1) /\ last = MinutePrice(shape, from + i)
    BY <2>1, MinutePricesAre DEF Prices
  <2>3. all[i] = [open |-> 60 * (from + i - 1), first |-> first, last |-> last]
    BY <1>1, <1>2, <2>2
  <2>4. QED
    BY <2>3 DEF MinuteCandles
<1>4. all = [i \in 1 .. count |-> MinuteAt(i)]
  BY <1>1, <1>2
<1> HIDE DEF MinuteAt
<1>5. DOMAIN all = 1 .. count /\ Len(all) = count /\ all \in Seq(MinuteCandles)
  <2>1. DOMAIN all = 1 .. count
    BY <1>4
  <2>2. all \in [1 .. count -> MinuteCandles]
    BY <1>3, <1>4
  <2>3. QED
    BY <2>1, <2>2
<1>6. PICK P : P = {i \in DOMAIN all : all[i].open \notin gaps} /\ P \in SUBSET (1 .. Len(all))
  BY <1>5
<1>7. PICK list : list = Minutes(shape, from, to, gaps) /\ list = Kept(all, P)
  BY <1>1, <1>6 DEF Minutes, MinuteAt
<1>8. AreMinutes(list)
  <2>1. list \in Seq(MinuteCandles) /\ \A k \in 1 .. Len(list) : \E i \in P : list[k] = all[i]
    <3>1. all \in Seq(MinuteCandles) /\ P \in SUBSET (1 .. Len(all)) /\ list = Kept(all, P)
      BY <1>5, <1>6, <1>7
    <3>2. list \in Seq(MinuteCandles)
      BY <3>1, KeptElements
    <3>3. PICK n \in Nat : \E at : IsKept(list, all, P, n, at)
      BY <3>1, KeptEnumerates
    <3>4. PICK at : IsKept(list, all, P, n, at)
      BY <3>3
    <3>5. Enumerates(at, n, P) /\ list = [k \in 1 .. n |-> all[at[k]]] /\ P \in SUBSET Int
      BY <1>6, <3>4 DEF IsKept
    <3>6. \A k \in 1 .. n : at[k] \in P
      BY <3>5, EnumerationIs
    <3>7. Len(list) = n
      BY <3>5
    <3>8. QED
      BY <3>2, <3>5, <3>6, <3>7
  <2>2. ASSUME NEW k \in DOMAIN list PROVE \E m \in Int : list[k].open = 60 * m
    <3>1. PICK i \in P : list[k] = all[i]
      BY <2>1
    <3>2. i \in 1 .. count /\ from + i - 1 \in Int
      BY <1>5, <1>6
    <3>3. list[k].open = 60 * (from + i - 1)
      BY <1>3, <3>1, <3>2
    <3>4. QED
      BY <3>2, <3>3
  <2>3. QED
    BY <2>1, <2>2 DEF AreMinutes
<1>9. InTime(list)
  <2>1. PICK n \in Nat : \E at : IsKept(list, all, P, n, at)
    BY <1>5, <1>6, <1>7, KeptEnumerates
  <2>2. PICK at : IsKept(list, all, P, n, at)
    BY <2>1
  <2>3. Enumerates(at, n, P) /\ list = [k \in 1 .. n |-> all[at[k]]]
    BY <2>2 DEF IsKept
  <2>4. /\ \A k \in 1 .. n : at[k] \in P /\ at[k] \in Int
        /\ \A k, l \in 1 .. n : k < l => at[k] < at[l]
    <3>1. P \in SUBSET Int
      BY <1>6
    <3>2. QED
      BY <2>3, <3>1, EnumerationIs
  <2>5. ASSUME NEW k \in DOMAIN list, NEW l \in DOMAIN list, k < l PROVE list[k].open < list[l].open
    <3>1. PICK i \in 1 .. count, j \in 1 .. count : i = at[k] /\ j = at[l] /\ i < j
      BY <1>5, <1>6, <2>3, <2>4, <2>5
    <3>2. list[k] = all[i] /\ list[l] = all[j]
      BY <2>3, <3>1
    <3>3. list[k].open = 60 * (from + i - 1) /\ list[l].open = 60 * (from + j - 1)
      BY <1>3, <3>2
    <3>4. QED
      BY <3>1, <3>3
  <2>6. QED
    BY <2>5 DEF InTime
<1>10. QED
  BY <1>7, <1>8, <1>9

LEMMA WindowRulesAre ==
  ASSUME NEW rule \in WindowRules
  PROVE  IsWindowRule(rule)
<1>1. CASE rule = RuleTemplate("proxy-generic")
  BY <1>1 DEF RuleTemplate, IsWindowRule
<1>2. CASE rule = RuleTemplate("mock")
  BY <1>2 DEF RuleTemplate, IsWindowRule
<1>3. CASE rule = RuleTemplate("hibit")
  BY <1>3 DEF RuleTemplate, IsWindowRule
<1>4. CASE rule = AverageTemplate(60, 60)
  BY <1>4 DEF AverageTemplate, IsWindowRule
<1>5. QED
  BY <1>1, <1>2, <1>3, <1>4 DEF WindowRules

\* A market as the run has it: a ticker near the candles' next price, or none.
AskedMarket(shape, tick, tickerTime, last, spread) ==
  [price |-> IF tick = Null THEN Null ELSE MinutePrice(shape, last + 1) + tick,
   tickerTime |-> tickerTime, spread |-> spread, candles |-> Minutes(shape, 12, last, {})]

IsTicker(tick, tickerTime, last, spread) ==
  /\ tick \in {Null, -5, 0, 60} /\ tickerTime \in {Null, 1190, 1360, 1481}
  /\ last \in {17, 22} /\ spread \in {2, 90}

LEMMA AskedMarketIs ==
  ASSUME NEW shape \in DOMAIN Shapes, NEW tick, NEW tickerTime, NEW last, NEW spread,
         IsTicker(tick, tickerTime, last, spread)
  PROVE  IsMarket(AskedMarket(shape, tick, tickerTime, last, spread))
<1>0. /\ tick \in Int /\ (tick = Null \/ tick >= -5) /\ tickerTime \in Nat \cup {Null}
      /\ last \in 0 .. 29 /\ spread \in Int
  BY NullIsNoPrice DEF IsTicker
<1>1. PICK market : market = AskedMarket(shape, tick, tickerTime, last, spread)
  OBVIOUS
<1>2. /\ market.price = IF tick = Null THEN Null ELSE MinutePrice(shape, last + 1) + tick
      /\ market.tickerTime = tickerTime /\ market.spread = spread
      /\ market.candles = Minutes(shape, 12, last, {})
  BY <1>1 DEF AskedMarket
<1>3. market.candles \in Seq(MinuteCandles)
  <2>1. PICK from \in Nat : from = 12
    OBVIOUS
  <2>2. AreMinutes(Minutes(shape, from, last, {}))
    BY <1>0, MinutesAre
  <2>3. QED
    BY <1>2, <2>1, <2>2 DEF AreMinutes
<1>4. market.price \in KnownPrices
  <2>1. CASE tick = Null
    BY <1>2, <2>1 DEF KnownPrices
  <2>2. CASE tick # Null
    <3>1. PICK n \in 0 .. 30 : n = last + 1
      BY <1>0
    <3>2. MinutePrice(shape, n) \in Int /\ MinutePrice(shape, n) > 1000
      BY MinutePricesAre
    <3>3. market.price = MinutePrice(shape, n) + tick
      BY <1>2, <2>2, <3>1
    <3>4. QED
      BY <1>0, <2>2, <3>2, <3>3 DEF KnownPrices, Prices
  <2>3. QED
    BY <2>1, <2>2
<1>5. QED
  BY <1>0, <1>1, <1>2, <1>3, <1>4 DEF IsMarket

LEMMA AskedWindow ==
  ASSUME AskWindow
  PROVE  DirectionIsBacked(input'.rule, input'.interval, input'.now, input'.market)
<1>1. PICK rule \in WindowRules, shape \in DOMAIN Shapes, interval \in {300, 600},
           now \in {1215, 1290, 1380, 1480, 1481, 1560}, tick \in {Null, -5, 0, 60},
           tickerTime \in {Null, 1190, 1360, 1481}, last \in {17, 22}, spread \in {2, 90} :
        /\ tick = Null => tickerTime = Null
        /\ input' = [rule |-> rule, interval |-> interval, now |-> now,
                     market |-> [price |-> IF tick = Null THEN Null ELSE MinutePrice(shape, last + 1) + tick,
                                 tickerTime |-> tickerTime, spread |-> spread,
                                 candles |-> Minutes(shape, 12, last, {})]]
  BY Zenon DEF AskWindow
<1>2. PICK market : market = AskedMarket(shape, tick, tickerTime, last, spread)
  OBVIOUS
<1>3. IsMarket(market)
  <2>1. IsTicker(tick, tickerTime, last, spread)
    BY DEF IsTicker
  <2>2. IsMarket(AskedMarket(shape, tick, tickerTime, last, spread))
    BY <2>1, AskedMarketIs
  <2>3. QED
    BY <1>2, <2>2
<1>4. interval \in Nat \ {0} /\ now \in Nat
  OBVIOUS
<1>5. DirectionIsBacked(rule, interval, now, market)
  BY <1>3, <1>4, WindowRulesAre, DirectionBacked
<1>6. input'.rule = rule /\ input'.interval = interval /\ input'.now = now /\ input'.market = market
  <2>1. input'.rule = rule /\ input'.interval = interval /\ input'.now = now
    BY <1>1
  <2>2. input'.market = market
    BY <1>1, <1>2 DEF AskedMarket
  <2>3. QED
    BY <2>1, <2>2
<1>7. QED
  BY <1>5, <1>6

LEMMA MockWindowsAddUp ==
  ASSUME NEW in, in.candles \in Seq(MinuteCandles)
  PROVE  WindowsAddUp(MockWindows(in), in.candles)
<1>1. PICK candles : candles = in.candles
  OBVIOUS
<1>2. DOMAIN MockScenarios = 1 .. 5
  BY DEF MockScenarios
<1>3. PICK results : results = MockWindows(in)
  OBVIOUS
<1>4. results = [i \in 1 .. 5 |-> MockScenarioResult(MockScenarios[i], in.interval, candles, in.now)]
  BY <1>1, <1>2, <1>3, Zenon DEF MockWindows
<1>5. ASSUME NEW i \in 1 .. 5 PROVE HonestWindow(results[i], candles)
  <2>1. PICK scenario : scenario = MockScenarios[i]
    OBVIOUS
  <2>2. PICK side \in WindowSides, label \in WindowStatuses :
          /\ scenario.side = side /\ scenario.status = label
          /\ <<side, label>> \in {<<"LONG_UP", "WIN">>, <<"LONG_DOWN", "WIN">>, <<"LONG_UP", "LOSS">>,
                                  <<"WAIT", "WAIT">>, <<"REJECTED", "REJECTED">>}
    BY <2>1 DEF MockScenarios, WindowSides, WindowStatuses
  <2>3. /\ Directional(side) <=> label \in {"WIN", "LOSS", "PENDING", "UNRESOLVED"}
        /\ ~Directional(side) => label = side
    BY <2>2 DEF Directional
  <2>4. PICK r : r = results[i] /\ r = MockScenarioResult(scenario, in.interval, candles, in.now)
    BY <1>4, <2>1
  <2>5. HonestWindow(r, candles)
    BY <2>2, <2>3, <2>4, MockResultIs
  <2>6. QED
    BY <2>4, <2>5
<1>6. DOMAIN results = 1 .. 5 /\ results \in Seq({results[i] : i \in 1 .. 5})
  BY <1>4
<1>7. QED
  BY <1>1, <1>3, <1>5, <1>6, HonestWindowsAddUp

\* What is asked of past windows, and what they are then.
PastWindowsAreSound(in) ==
  /\ WindowsKnowThePast(in.rule, in.interval, in.candles, in.now - in.duration, in.now)
  /\ WindowsAddUp(RunShortWindowReplay(in.rule, in.interval, in.duration, in.candles, in.failed, in.now),
                  in.candles)
  /\ WindowsAddUp(MockWindows(in), in.candles)

LEMMA PastWindowsSound ==
  ASSUME NEW in, NEW rule, IsWindowRule(rule), NEW interval \in WindowIntervals, NEW duration \in Int,
         NEW now \in Int, NEW failed \in BOOLEAN, NEW candles, AreMinutes(candles), InTime(candles),
         in.rule = rule, in.interval = interval, in.duration = duration, in.now = now,
         in.failed = failed, in.candles = candles
  PROVE  PastWindowsAreSound(in)
<1>1. candles \in Seq(MinuteCandles)
  BY DEF AreMinutes
<1>2. PICK from \in Int : from = now - duration
  OBVIOUS
<1>3. WindowsKnowThePast(rule, interval, candles, from, now)
  BY WindowsPast
<1>4. WindowsAddUp(RunShortWindowReplay(rule, interval, duration, candles, failed, now), candles)
  BY <1>1, WindowsHonest
<1>5. WindowsAddUp(MockWindows(in), in.candles)
  BY <1>1, MockWindowsAddUp
<1>6. QED
  BY <1>2, <1>3, <1>4, <1>5 DEF PastWindowsAreSound

LEMMA AskedWindows ==
  ASSUME AskWindows
  PROVE  PastWindowsAreSound(input')
<1>1. PICK rule \in WindowRules, shape \in DOMAIN Shapes, interval \in {300, 600},
           gaps \in SUBSET {600, 1080, 1140}, duration \in {700, 900}, failed \in BOOLEAN :
        input' = [rule |-> rule, interval |-> interval, duration |-> duration, now |-> 1230,
                  failed |-> failed, candles |-> Minutes(shape, 0, 22, gaps)]
  BY Zenon DEF AskWindows
<1>2. PICK candles : candles = Minutes(shape, 0, 22, gaps) /\ AreMinutes(candles) /\ InTime(candles)
  <2>1. PICK from \in Nat, to \in 0 .. 29 : from = 0 /\ to = 22
    OBVIOUS
  <2>2. AreMinutes(Minutes(shape, from, to, gaps)) /\ InTime(Minutes(shape, from, to, gaps))
    BY MinutesAre
  <2>3. QED
    BY <2>1, <2>2
<1>3. PICK in : in = input'
  OBVIOUS
<1>4. /\ in.rule = rule /\ in.interval = interval /\ in.duration = duration /\ in.now = 1230
      /\ in.failed = failed /\ in.candles = candles
  BY <1>1, <1>2, <1>3
<1>5. IsWindowRule(rule) /\ interval \in WindowIntervals /\ duration \in Int
  BY WindowRulesAre DEF WindowIntervals
<1>6. PICK now \in Int : in.now = now
  BY <1>4
<1>7. PastWindowsAreSound(in)
  BY <1>2, <1>4, <1>5, <1>6, PastWindowsSound
<1>8. QED
  BY <1>3, <1>7

LEMMA AskedShortWindowIsSound ==
  ASSUME Rules
  PROVE  ShortWindowIsSound'
<1>1. RuleTopics
  BY TopicsOfRules
<1>2. topic' = "window" => DirectionIsBacked(input'.rule, input'.interval, input'.now, input'.market)
  BY <1>1, AskedWindow, Zenon DEF RuleTopics
<1>3. topic' = "windows" => PastWindowsAreSound(input')
  BY <1>1, AskedWindows, Zenon DEF RuleTopics
<1>4. QED
  BY <1>2, <1>3, Zenon DEF ShortWindowIsSound, PastWindowsAreSound

\* Theorem: what the run asks of the short-window terminal is answered as
\* ShortWindowIsSound says: a direction is backed by its rule, its time and a
\* fresh price, past windows know nothing of what came after them, and their
\* numbers are those of bets the market decided.
THEOREM ShortWindowSound == Spec => []ShortWindowIsSound
<1>1. Init => ShortWindowIsSound
  <2>1. Init => topic \notin {"window", "windows"}
    BY Zenon DEF Init
  <2>2. QED
    BY <2>1, Zenon DEF ShortWindowIsSound
<1>2. ShortWindowIsSound /\ [Next]_<<vars, panelVars, schedulerVars>> => ShortWindowIsSound'
  <2>1. Rules => ShortWindowIsSound'
    BY AskedShortWindowIsSound
  <2>2. ASSUME ShortWindowIsSound, [Next]_<<vars, panelVars, schedulerVars>>, ~Rules
        PROVE  ShortWindowIsSound'
    <3>1. topic' = topic /\ input' = input
      BY <2>2 DEF Next, vars
    <3>2. QED
      BY <2>2, <3>1, Zenon DEF ShortWindowIsSound
  <2>3. QED
    BY <2>1, <2>2
<1>3. QED
  BY <1>1, <1>2, PTL DEF Spec

-----------------------------------------------------------------------------
(* What the run asks of the strategy lab.                                    *)

LEMMA ShortLists ==
  /\ <<>> \in Seq(Int)
  /\ \A a, b, c \in Int : <<a>> \in Seq(Int) /\ <<a, b>> \in Seq(Int) /\ <<a, b, c>> \in Seq(Int)
OBVIOUS

LEMMA AskedGrid ==
  ASSUME NEW options \in GridOptions
  PROVE  GridIsWhole(options)
<1>1. PICK T : options.intervals \in Seq(T)
  <2>1. \A a, b, c, d : <<a>> \in Seq({a}) /\ <<a, b, c, d>> \in Seq({a, b, c, d})
    OBVIOUS
  <2>2. options.intervals \in {<<"5m">>, <<"1h", "10m", "5m", "1h">>, <<"4h">>}
    BY DEF GridOptions
  <2>3. options.intervals = <<"5m">> \/ options.intervals = <<"1h", "10m", "5m", "1h">> \/ options.intervals = <<"4h">>
    BY <2>2, Zenon
  <2>4. CASE options.intervals = <<"5m">>
    BY <2>1, <2>4, Zenon
  <2>5. CASE options.intervals = <<"1h", "10m", "5m", "1h">>
    <3>1. <<"1h", "10m", "5m", "1h">> \in Seq({"1h", "10m", "5m", "1h"})
      BY <2>1
    <3>2. QED
      BY <2>5, <3>1
  <2>6. CASE options.intervals = <<"4h">>
    BY <2>1, <2>6, Zenon
  <2>7. QED
    BY <2>3, <2>4, <2>5, <2>6
<1>2. options.minEdge \in Seq(Int)
  <2>1. options.minEdge \in {<<>>, <<500, 200, 500>>}
    BY DEF GridOptions
  <2>2. <<>> \in Seq(Int)
    BY ShortLists
  <2>3. PICK a : a = <<>>
    OBVIOUS
  <2>4. a \in Seq(Int)
    BY <2>2, <2>3
  <2>5. <<500, 200, 500>> \in Seq(Int)
    BY ShortLists
  <2>6. PICK b : b = <<500, 200, 500>>
    OBVIOUS
  <2>7. b \in Seq(Int)
    BY <2>5, <2>6
  <2>8. options.minEdge \in {a, b}
    BY <2>1, <2>3, <2>6
  <2>9. QED
    BY <2>4, <2>7, <2>8, Zenon
<1>3. options.maxSpread \in Seq(Int)
  <2>1. options.maxSpread \in {<<500>>, <<0, 1500, 500>>}
    BY DEF GridOptions
  <2>2. <<500>> \in Seq(Int)
    BY ShortLists
  <2>3. PICK a : a = <<500>>
    OBVIOUS
  <2>4. a \in Seq(Int)
    BY <2>2, <2>3
  <2>5. <<0, 1500, 500>> \in Seq(Int)
    BY ShortLists
  <2>6. PICK b : b = <<0, 1500, 500>>
    BY ZenonT(40)
  <2>7. b \in Seq(Int)
    BY <2>5, <2>6
  <2>8. options.maxSpread \in {a, b}
    BY <2>1, <2>3, <2>6
  <2>9. QED
    BY <2>4, <2>7, <2>8, Zenon
<1>4. options.lookback \in Seq(Int)
  <2>1. options.lookback \in {<<20, 100>>, <<5, 2000, 50>>}
    BY DEF GridOptions
  <2>2. <<20, 100>> \in Seq(Int)
    BY ShortLists
  <2>3. PICK a : a = <<20, 100>>
    OBVIOUS
  <2>4. a \in Seq(Int)
    BY <2>2, <2>3
  <2>5. <<5, 2000, 50>> \in Seq(Int)
    BY ShortLists
  <2>6. PICK b : b = <<5, 2000, 50>>
    <3>1. PICK n \in Int : n = 2000
      OBVIOUS
    <3>2. \E list : list = <<5, n, 50>>
      OBVIOUS
    <3>3. QED
      BY <3>1, <3>2
  <2>7. b \in Seq(Int)
    BY <2>5, <2>6
  <2>8. options.lookback \in {a, b}
    BY <2>1, <2>3, <2>6
  <2>9. QED
    BY <2>4, <2>7, <2>8, Zenon
<1>5. options.minConfidence \in Seq(Int)
  <2>1. options.minConfidence \in {<<0, 4000>>}
    BY DEF GridOptions
  <2>2. <<0, 4000>> \in Seq(Int)
    BY ShortLists
  <2>3. PICK a : a = <<0, 4000>>
    <3>1. PICK n \in Int : n = 4000
      OBVIOUS
    <3>2. \E list : list = <<0, n>>
      OBVIOUS
    <3>3. QED
      BY <3>1, <3>2
  <2>4. a \in Seq(Int)
    BY <2>2, <2>3
  <2>5. options.minConfidence \in {a}
    BY <2>1, <2>3
  <2>6. QED
    BY <2>4, <2>5, Zenon
<1>6. options.fees \in Seq(Int)
  <2>1. options.fees \in {<<50, 0>>, <<-1, 25>>}
    BY DEF GridOptions
  <2>2. <<50, 0>> \in Seq(Int)
    BY ShortLists
  <2>3. PICK a : a = <<50, 0>>
    OBVIOUS
  <2>4. a \in Seq(Int)
    BY <2>2, <2>3
  <2>5. <<-1, 25>> \in Seq(Int)
    BY ShortLists
  <2>6. PICK b : b = <<-1, 25>>
    OBVIOUS
  <2>7. b \in Seq(Int)
    BY <2>5, <2>6
  <2>8. options.fees \in {a, b}
    BY <2>1, <2>3, <2>6
  <2>9. QED
    BY <2>4, <2>7, <2>8, Zenon
<1>7. options.slippage \in Seq(Int)
  <2>1. options.slippage \in {<<0, 50>>}
    BY DEF GridOptions
  <2>2. <<0, 50>> \in Seq(Int)
    BY ShortLists
  <2>3. PICK a : a = <<0, 50>>
    OBVIOUS
  <2>4. a \in Seq(Int)
    BY <2>2, <2>3
  <2>5. options.slippage \in {a}
    BY <2>1, <2>3
  <2>6. QED
    BY <2>4, <2>5, Zenon
<1>8. options.maxCombinations \in Int
  <2>1. options.maxCombinations \in {Null, 0, 5, 20, 500}
    BY DEF GridOptions
  <2>2. QED
    BY <2>1 DEF Null
<1>9. GridAsked(options)
  BY <1>2, <1>3, <1>4, <1>5, <1>6, <1>7, <1>8 DEF GridAsked
<1>10. QED
  BY <1>1, <1>9, GridWhole

\* The parts of a result of the run's file.
SignalOfBet(kind, when) ==
  [side |-> IF kind = "rejected" THEN "REJECTED" ELSE "LONG_YES", time |-> when,
   edge |-> IF kind = "rejected" THEN Null ELSE 600, confidence |-> 5000]
StatusOfBet(kind) ==
  CASE kind = "win" -> "WIN" [] kind = "loss" -> "LOSS" [] kind = "open" -> "PENDING" [] OTHER -> "REJECTED"
EntryOfBet(kind) == IF kind = "rejected" THEN Null ELSE 4500
PnlOfBet(kind) == CASE kind = "win" -> 5500 [] kind = "loss" -> -4500 [] OTHER -> Null

LEMMA MockResultParts ==
  ASSUME NEW kind, NEW when
  PROVE  MockResult(kind, when) =
           [signal |-> SignalOfBet(kind, when), status |-> StatusOfBet(kind), counted |-> kind \in {"win", "loss"},
            entry |-> EntryOfBet(kind), pnl |-> PnlOfBet(kind)]
BY SMT DEF MockResult, SignalOfBet, StatusOfBet, EntryOfBet, PnlOfBet

LEMMA SignalOfBetIs ==
  ASSUME NEW kind \in {"win", "loss", "open"}, NEW when \in Int, NEW signal, signal = SignalOfBet(kind, when)
  PROVE  /\ {"side", "edge"} \subseteq DOMAIN signal
         /\ signal.time \in Int /\ signal.edge \in Int /\ signal.confidence \in Int
<1>1. kind # "rejected"
  OBVIOUS
<1>2. DOMAIN signal = {"side", "time", "edge", "confidence"}
  BY SMT DEF SignalOfBet
<1>3. signal.time = when /\ signal.edge = 600 /\ signal.confidence = 5000
  BY <1>1, SMT DEF SignalOfBet
<1>4. QED
  BY <1>2, <1>3, SMT

LEMMA OutsideIsFalse ==
  ASSUME NEW x, NEW S, x \notin S
  PROVE  (x \in S) = FALSE
OBVIOUS

LEMMA AskedBet ==
  ASSUME NEW kind \in {"win", "loss", "open"}, NEW when \in Int
  PROVE  IsMockResult(MockResult(kind, when))
<1>1. PICK b : b = MockResult(kind, when)
  OBVIOUS
<1>2. b = [signal |-> SignalOfBet(kind, when), status |-> StatusOfBet(kind), counted |-> kind \in {"win", "loss"},
           entry |-> EntryOfBet(kind), pnl |-> PnlOfBet(kind)]
  BY <1>1, MockResultParts
<1>3. /\ DOMAIN b = {"signal", "status", "counted", "entry", "pnl"}
      /\ b.signal = SignalOfBet(kind, when) /\ b.status = StatusOfBet(kind) /\ b.pnl = PnlOfBet(kind)
  BY <1>2
<1>4. b.counted = (kind \in {"win", "loss"})
  BY <1>2, Zenon
<1>5. /\ b.counted \in BOOLEAN /\ b.counted = (b.status \in {"WIN", "LOSS"})
      /\ b.pnl \in Int /\ (b.counted <=> b.pnl # Null) /\ (b.counted => b.pnl \in -One .. One)
  <2>1. CASE kind = "win"
    <3>1. b.status = "WIN"
      BY <1>3, <2>1, SMT DEF StatusOfBet
    <3>2. b.counted = TRUE
      BY <1>4, <2>1, Zenon
    <3>3. b.pnl = 5500
      BY <1>3, <2>1, SMT DEF PnlOfBet
    <3>4. b.pnl \in Int /\ b.pnl # Null /\ b.pnl \in -One .. One
      BY <3>3, SMT DEF Null, One
    <3>5. b.counted = (b.status \in {"WIN", "LOSS"})
      BY <3>1, <3>2, Zenon
    <3>6. QED
      BY <3>2, <3>4, <3>5, Zenon
  <2>2. CASE kind = "loss"
    <3>1. b.status = "LOSS"
      BY <1>3, <2>2, SMT DEF StatusOfBet
    <3>2. b.counted = TRUE
      BY <1>4, <2>2, Zenon
    <3>3. b.pnl = -4500
      BY <1>3, <2>2, SMT DEF PnlOfBet
    <3>4. b.pnl \in Int /\ b.pnl # Null /\ b.pnl \in -One .. One
      BY <3>3, SMT DEF Null, One
    <3>5. b.counted = (b.status \in {"WIN", "LOSS"})
      BY <3>1, <3>2, Zenon
    <3>6. QED
      BY <3>2, <3>4, <3>5, Zenon
  <2>3. CASE kind = "open"
    <3>1. b.status = "PENDING"
      BY <1>3, <2>3, SMT DEF StatusOfBet
    <3>2. b.counted = FALSE
      <4>1. kind \notin {"win", "loss"}
        BY <2>3
      <4>2. QED
        BY <1>4, <4>1, OutsideIsFalse, Zenon
    <3>3. b.pnl = Null
      BY <1>3, <2>3, SMT DEF PnlOfBet
    <3>4. b.pnl \in Int /\ b.pnl = Null
      BY <3>3, SMT DEF Null, One
    <3>5. b.counted = (b.status \in {"WIN", "LOSS"})
      <4>1. b.status \notin {"WIN", "LOSS"}
        BY <3>1
      <4>2. QED
        BY <3>2, <4>1, OutsideIsFalse, Zenon
    <3>6. QED
      BY <3>2, <3>4, <3>5, Zenon
  <2>4. QED
    BY <2>1, <2>2, <2>3
<1>6. /\ {"side", "edge"} \subseteq DOMAIN b.signal
      /\ b.signal.time \in Int /\ b.signal.edge \in Int /\ b.signal.confidence \in Int
  BY <1>3, SignalOfBetIs
<1>7. IsMockResult(b)
  BY <1>3, <1>5, <1>6, Zenon DEF IsMockResult, ResultFields
<1>8. QED
  BY <1>1, <1>7

LEMMA LabGridIs ==
  /\ LabGrid # <<>> /\ \E G : LabGrid \in Seq(G)
  /\ \A k \in DOMAIN LabGrid : /\ IsParameters(ReplayParameters(LabGrid[k]))
                               /\ IsStricter([ReplayParameters(LabGrid[k]) EXCEPT !.minEdge = @ + 100],
                                             ReplayParameters(LabGrid[k]))
<1>1. LabGrid # <<>> /\ DOMAIN LabGrid = 1 .. 3
      /\ LabGrid \in Seq({LabGrid[k] : k \in 1 .. 3})
  BY DEF LabGrid
<1>2. ASSUME NEW k \in 1 .. 3
      PROVE  /\ IsParameters(ReplayParameters(LabGrid[k]))
             /\ IsStricter([ReplayParameters(LabGrid[k]) EXCEPT !.minEdge = @ + 100],
                           ReplayParameters(LabGrid[k]))
  <2>1. PICK spread \in Int, lookback \in Int, cost \in Int :
          /\ 0 <= cost /\ cost <= 2000
          /\ ReplayParameters(LabGrid[k]) =
               [minEdge |-> 200, maxSpread |-> spread, lookback |-> lookback, minConfidence |-> 0, cost |-> cost]
    <3>1. CASE k = 1
      BY <3>1 DEF LabGrid, ReplayParameters
    <3>2. CASE k = 2
      BY <3>2 DEF LabGrid, ReplayParameters
    <3>3. CASE k = 3
      BY <3>3 DEF LabGrid, ReplayParameters
    <3>4. k = 1 \/ k = 2 \/ k = 3
      OBVIOUS
    <3>5. QED
      BY <3>1, <3>2, <3>3, <3>4
  <2>2. PICK p : p = ReplayParameters(LabGrid[k])
    OBVIOUS
  <2>3. IsParameters(p)
    BY <2>1, <2>2 DEF IsParameters
  <2>4. PICK q : q = [p EXCEPT !.minEdge = @ + 100]
    OBVIOUS
  <2>5. q = [minEdge |-> 300, maxSpread |-> spread, lookback |-> lookback, minConfidence |-> 0, cost |-> cost]
    BY <2>1, <2>2, <2>4
  <2>6. IsParameters(q)
    BY <2>1, <2>5 DEF IsParameters
  <2>7. IsStricter(q, p)
    <3>1. /\ p.minEdge = 200 /\ p.maxSpread = spread /\ p.lookback = lookback /\ p.minConfidence = 0 /\ p.cost = cost
      BY <2>1, <2>2
    <3>2. /\ q.minEdge = 300 /\ q.maxSpread = spread /\ q.lookback = lookback /\ q.minConfidence = 0 /\ q.cost = cost
      BY <2>5
    <3>3. QED
      BY <2>1, <2>6, <3>1, <3>2 DEF IsStricter
  <2>8. QED
    BY <2>2, <2>3, <2>4, <2>7
<1>3. QED
  BY <1>1, <1>2

\* What LabIsSound says of the lab.
LabAnswers(asked) ==
  /\ ChoiceIsOutOfSample(asked.fixture, asked.windows, LabGrid, asked.minSamples)
  /\ \A p \in Range(LabGrid) :
       ParametersOnlyFilter(asked.fixture, [start |-> 0, end |-> 90], ReplayParameters(p),
                            [ReplayParameters(p) EXCEPT !.minEdge = @ + 100], p[1])
  /\ CandidatesAreSound(asked.fixture, [start |-> 0, end |-> 90], LabGrid,
                        WalkForward(asked.fixture, asked.windows, LabGrid, asked.minSamples),
                        asked.minSamples)

LEMMA AskedLab ==
  ASSUME AskLab
  PROVE  LabAnswers(input')
<1>1. PICK kinds \in [1 .. 7 -> {"win", "loss", "open"}], ratios \in {<<50, 25>>, <<40, 10>>} :
        input' = [fixture |-> [i \in 1 .. 7 |-> MockResult(kinds[i], 12 * i)], minSamples |-> MinSampleCount(2),
                  windows |-> RollingWindows(0, 90, ratios[1], ratios[2])]
  BY DEF AskLab
<1>2. PICK train \in Int, test \in Int : train = ratios[1] /\ test = ratios[2]
  OBVIOUS
<1>3. PICK fixture : fixture = [i \in 1 .. 7 |-> MockResult(kinds[i], 12 * i)]
  OBVIOUS
<1>4. PICK minSamples \in Nat : minSamples = MinSampleCount(2)
  BY DEF MinSampleCount
<1>5. PICK windows : windows = RollingWindows(0, 90, train, test)
  OBVIOUS
<1>6. input' = [fixture |-> fixture, minSamples |-> minSamples, windows |-> windows]
  BY <1>1, <1>2, <1>3, <1>4, <1>5, Zenon
<1>7. input'.fixture = fixture /\ input'.minSamples = minSamples /\ input'.windows = windows
  BY <1>6
<1>8. IsMockFixture(fixture)
  <2>1. fixture \in Seq({fixture[i] : i \in 1 .. 7}) /\ Len(fixture) = 7
    BY <1>3
  <2>2. ASSUME NEW i \in 1 .. 7
        PROVE  IsMockResult(fixture[i])
    <3>1. PICK kind \in {"win", "loss", "open"}, when \in Int : kind = kinds[i] /\ when = 12 * i
      OBVIOUS
    <3>2. IsMockResult(MockResult(kind, when))
      BY AskedBet
    <3>3. fixture[i] = MockResult(kind, when)
      BY <1>3, <3>1
    <3>4. QED
      BY <3>2, <3>3
  <2>3. QED
    BY <2>1, <2>2 DEF IsMockFixture
<1>9. ChoiceIsOutOfSample(fixture, windows, LabGrid, minSamples)
  BY <1>5, <1>8, ChosenOutOfSample
<1>10. ASSUME NEW p \in Range(LabGrid)
       PROVE  ParametersOnlyFilter(fixture, [start |-> 0, end |-> 90], ReplayParameters(p),
                                   [ReplayParameters(p) EXCEPT !.minEdge = @ + 100], p[1])
  <2>1. PICK k \in DOMAIN LabGrid : p = LabGrid[k]
    BY DEF Range
  <2>2. PICK q : q = ReplayParameters(p)
    OBVIOUS
  <2>3. PICK stricter : stricter = [q EXCEPT !.minEdge = @ + 100]
    OBVIOUS
  <2>4. IsParameters(q) /\ IsStricter(stricter, q)
    BY <2>1, <2>2, <2>3, LabGridIs
  <2>5. PICK window, interval : window = [start |-> 0, end |-> 90] /\ interval = p[1]
    OBVIOUS
  <2>6. ParametersOnlyFilter(fixture, window, q, stricter, interval)
    BY <1>8, <2>4, StricterLeavesLess
  <2>7. QED
    BY <2>2, <2>3, <2>5, <2>6
<1>11. CandidatesAreSound(fixture, [start |-> 0, end |-> 90], LabGrid,
                          WalkForward(fixture, windows, LabGrid, minSamples), minSamples)
  <2>1. PICK T : windows \in Seq(T)
    BY <1>5, WindowsRoll
  <2>2. PICK G : LabGrid \in Seq(G)
    BY LabGridIs
  <2>3. PICK grid : grid = LabGrid
    OBVIOUS
  <2>4. grid \in Seq(G) /\ grid # <<>> /\ \A k \in DOMAIN grid : IsParameters(ReplayParameters(grid[k]))
    BY <2>2, <2>3, LabGridIs
  <2>5. PICK window : window = [start |-> 0, end |-> 90]
    OBVIOUS
  <2>6. CandidatesAreSound(fixture, window, grid, WalkForward(fixture, windows, grid, minSamples), minSamples)
    BY <1>8, <2>1, <2>4, CandidatesHold
  <2>7. QED
    BY <2>3, <2>5, <2>6
<1>12. QED
  BY <1>7, <1>9, <1>10, <1>11, Zenon DEF LabAnswers

\* The lab among the topics.
LabKept == SweepTopicKept /\ LabIsSound

LEMMA LabStays ==
  ASSUME LabKept, [Next]_<<vars, panelVars, schedulerVars>>
  PROVE  LabKept'
<1>1. SweepTopicKept'
  BY SweepTopicStays DEF LabKept
<1>2. topic' = "sweep" => SweepKeepsPlaces(input')
  BY <1>1, KeptSweepIsSound DEF SweepTopicKept
<1>3. (topic' = "grid" => GridIsWhole(input')) /\ (topic' = "lab" => LabAnswers(input'))
  <2>1. CASE Rules
    <3>1. (topic' = "grid" => AskGrid) /\ (topic' = "lab" => AskLab)
      BY <2>1, TopicsOfRules, Zenon DEF RuleTopics
    <3>2. ASSUME AskGrid PROVE GridIsWhole(input')
      <4>1. PICK options \in GridOptions : input' = options
        BY <3>2 DEF AskGrid
      <4>2. QED
        BY <4>1, AskedGrid
    <3>3. QED
      BY <3>1, <3>2, AskedLab, Zenon
  <2>2. CASE ~Rules
    <3>1. topic' = topic /\ input' = input
      BY <2>2 DEF Next, vars
    <3>2. (topic = "grid" => GridIsWhole(input)) /\ (topic = "lab" => LabAnswers(input))
      BY Zenon DEF LabKept, LabIsSound, LabAnswers
    <3>3. QED
      BY <3>1, <3>2, Zenon
  <2>3. QED
    BY <2>1, <2>2
<1>4. LabIsSound'
  BY <1>2, <1>3, Zenon DEF LabIsSound, LabAnswers
<1>5. QED
  BY <1>1, <1>4 DEF LabKept

\* Theorem: what the run asks of the strategy lab is answered as LabIsSound says:
\* the grid is whole, the sweep keeps its places, the choice is out of sample and
\* the candidates have nothing against them.
THEOREM LabSound == Spec => []LabIsSound
<1>1. Init => LabKept
  <2>1. Init => topic \notin {"grid", "sweep", "lab"}
    BY Zenon DEF Init
  <2>2. QED
    BY <2>1, Zenon DEF LabKept, LabIsSound, SweepTopicKept
<1>2. LabKept /\ [Next]_<<vars, panelVars, schedulerVars>> => LabKept'
  BY LabStays
<1>3. LabKept => LabIsSound
  BY DEF LabKept
<1>4. QED
  BY <1>1, <1>2, <1>3, PTL DEF Spec
=============================================================================
