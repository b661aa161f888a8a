----------------------------- MODULE SignalPanel -----------------------------
(***************************************************************************)
(* The scanner's panel that refreshes the signal console and keeps a log   *)
(* of its signals in the browser: the requests a click, a timer and a      *)
(* change of profile start and abort, navigation to another horizon, and   *)
(* the observations that later consoles resolve.                           *)
(*                                                                         *)
(* Handlers and effects of the browser run to completion one at a time;    *)
(* what runs between them is the request.  An aborted request has no       *)
(* effect.  Minutes are counted, and a console's last candle opened in the *)
(* minute before it.                                                       *)
(***************************************************************************)
EXTENDS FairValue

CONSTANTS ClockMinutes, MaxConsoles, MaxStored, ConsoleSignals, PanelProfiles, PanelHorizons, PriceAt

ASSUME PanelAssumption ==
  /\ MaxConsoles \in Nat /\ MaxStored \in Nat \ {0}
  /\ 1 \in ClockMinutes /\ ClockMinutes \subseteq Nat \ {0}
  /\ \A minute \in ClockMinutes : PriceAt[minute] \in Nat \ {0}
  /\ ConsoleSignals \subseteq {"LONG", "SHORT", "NO_SIGNAL"} \X Int \X BOOLEAN
  /\ PanelHorizons \subseteq {"5m", "10m"}

VARIABLES clock, auto, selected, snapshot, observations, stored, status, request, consoles, loads
panelVars == <<clock, auto, selected, snapshot, observations, stored, status, request, consoles, loads>>

NoRequest == [profile |-> "none"]
WindowMinutes(horizon) == IF horizon = "5m" THEN 5 ELSE 10

\* cooldownSeconds, in minutes.
Cooldown(horizon) == IF horizon = "5m" THEN 2 ELSE 3

\* What the gateway may answer: a direction or none, with a candle or none.
Consoles(time, horizon, profile) ==
  {[createdAt |-> time, horizon |-> horizon, profile |-> profile, direction |-> s[1], score |-> s[2],
    candle |-> IF s[3] THEN time - 1 ELSE Null, close |-> IF s[3] THEN PriceAt[time] ELSE Null] :
     s \in ConsoleSignals}

-----------------------------------------------------------------------------
(* The log.                                                                  *)
\* createSignalObservation.
CreateObservation(c) ==
  [createdAt |-> c.createdAt, horizon |-> c.horizon, profile |-> c.profile, direction |-> c.direction,
   score |-> c.score, entryPrice |-> c.close,
   resolveAt |-> IF c.candle = Null THEN Null ELSE c.candle + WindowMinutes(c.horizon),
   status |-> CASE c.direction = "NO_SIGNAL" -> "no_signal"
                [] c.direction # "NO_SIGNAL" /\ c.candle # Null -> "pending"
                [] OTHER -> "invalidated",
   resolvePrice |-> Null, resolvedAt |-> Null]

IsHit(o, close) ==
  IF o.direction = "LONG" THEN close > o.entryPrice ELSE close < o.entryPrice

\* Mutant of Resolved: due by the time of the console, not of its candle.
ResolvedByClock(o, c) ==
  IF c.candle = Null \/ c.createdAt < o.resolveAt THEN o
  ELSE [o EXCEPT !.status = IF IsHit(o, c.close) THEN "hit" ELSE "miss",
                 !.resolvePrice = c.close, !.resolvedAt = c.candle]

Resolved(o, c) ==
  IF c.candle = Null
  THEN IF c.createdAt >= o.resolveAt THEN [o EXCEPT !.status = "invalidated", !.resolvedAt = c.createdAt]
       ELSE o
  ELSE IF c.candle < o.resolveAt THEN o
  ELSE [o EXCEPT !.status = IF IsHit(o, c.close) THEN "hit" ELSE "miss",
                 !.resolvePrice = c.close, !.resolvedAt = c.candle]

\* resolvePendingObservations: by the console's last candle, however late.
ResolvePending(log, c) ==
  [i \in DOMAIN log |->
     IF log[i].status = "pending" /\ log[i].horizon = c.horizon THEN Resolved(log[i], c) ELSE log[i]]

\* shouldRecordObservation: unlike the last comparable one, or late enough.
ShouldRecord(log, next) ==
  LET comparable == {i \in DOMAIN log : log[i].horizon = next.horizon /\ log[i].profile = next.profile}
      last == log[Min(comparable)]
      moved == Max({next.score - last.score, last.score - next.score}) >= 8
  IN \/ comparable = {}
     \/ last.direction # next.direction
     \/ moved /\ next.status # "no_signal"
     \/ next.createdAt - last.createdAt >= Cooldown(next.horizon) /\ (moved \/ next.status # "no_signal")

\* Mutant of Merge: a new entry comes last, where the log is cut.
MergeLast(log, c) ==
  LET resolved == ResolvePending(log, c)
      next == CreateObservation(c)
      all == IF ShouldRecord(resolved, next) THEN Append(resolved, next) ELSE resolved
  IN SubSeq(all, 1, Min({Len(all), MaxStored}))

\* mergeObservationSnapshot, pruneObservations.
Merge(log, c) ==
  LET resolved == ResolvePending(log, c)
      next == CreateObservation(c)
      all == IF ShouldRecord(resolved, next) THEN <<next>> \o resolved ELSE resolved
  IN SubSeq(all, 1, Min({Len(all), MaxStored}))

\* bucketSummary.
BucketSummary(log) ==
  LET of(statuses) == Cardinality({i \in DOMAIN log : log[i].direction # "NO_SIGNAL" /\ log[i].status \in statuses})
      resolved == of({"hit", "miss"})
  IN [total |-> of({"pending", "hit", "miss", "invalidated", "no_signal"}), resolved |-> resolved,
      pending |-> of({"pending"}), invalidated |-> of({"invalidated"}),
      matchRate |-> IF resolved = 0 THEN Null ELSE (of({"hit"}) * One) \div resolved]

-----------------------------------------------------------------------------
(* The panel.                                                                *)
Show(c) ==
  /\ snapshot' = c /\ selected' = c.profile
  /\ observations' = Merge(observations, c)

\* The first render's log is never empty, so that the effect which follows it
\* does not read what is stored, and overwrites it.
Mounted(c) ==
  LET first == Merge(<<>>, c) IN Merge(IF first # <<>> THEN first ELSE stored, c)

PanelInit ==
  /\ clock = 1 /\ auto = FALSE /\ status = "idle" /\ request = NoRequest /\ consoles = 0 /\ loads = 1
  /\ \E horizon \in PanelHorizons, profile \in PanelProfiles :
       snapshot \in Consoles(1, horizon, profile)
  /\ selected = snapshot.profile
  /\ observations = Merge(Merge(<<>>, snapshot), snapshot) /\ stored = observations

Tick ==
  /\ clock' \in {minute \in ClockMinutes : minute > clock}
  /\ UNCHANGED <<auto, selected, snapshot, observations, stored, status, request, consoles, loads>>

\* The page is loaded anew.
Load ==
  /\ consoles < MaxConsoles /\ consoles' = consoles + 1 /\ loads' = loads + 1
  /\ \E horizon \in PanelHorizons, profile \in PanelProfiles : \E c \in Consoles(clock, horizon, profile) :
       /\ snapshot' = c /\ selected' = c.profile
       /\ observations' = Mounted(c) /\ stored' = Mounted(c)
  /\ auto' = FALSE /\ status' = "idle" /\ request' = NoRequest
  /\ UNCHANGED clock

\* Another console of the page: the effect on initialConsole, and, with a timer,
\* the cleanup of its effect where what it depends on changed.
Navigate ==
  /\ consoles < MaxConsoles /\ consoles' = consoles + 1
  /\ \E horizon \in PanelHorizons, profile \in PanelProfiles : \E c \in Consoles(clock, horizon, profile) :
       /\ Show(c)
       /\ request' = IF auto /\ <<c.horizon, c.profile>> # <<snapshot.horizon, selected>>
                     THEN NoRequest ELSE request
  /\ stored' = observations'
  /\ UNCHANGED <<clock, auto, status, loads>>

\* The timer is set, cleared or set to another time; the cleanup of its effect
\* aborts the request, whatever started it.
SetInterval ==
  /\ auto' \in BOOLEAN /\ (auto' => ~auto \/ request # NoRequest)
  /\ request' = IF auto THEN NoRequest ELSE request
  /\ UNCHANGED <<clock, selected, snapshot, observations, stored, status, consoles, loads>>

\* refreshSnapshot: aborts the request before it.
RefreshSnapshot(profile) ==
  /\ status' = "loading"
  /\ request' = [profile |-> profile, horizon |-> snapshot.horizon, at |-> clock]

ClickRefresh ==
  /\ status # "loading"
  /\ RefreshSnapshot(selected)
  /\ UNCHANGED <<clock, auto, selected, snapshot, observations, stored, consoles, loads>>

TimerFires ==
  /\ auto
  /\ RefreshSnapshot(selected)
  /\ UNCHANGED <<clock, auto, selected, snapshot, observations, stored, consoles, loads>>

\* applyProfile: the timer's effect is cleaned up when the profile changed, and
\* takes the request that was just started with it.
ApplyProfile ==
  \E profile \in PanelProfiles :
    /\ selected' = profile
    /\ IF auto /\ profile # selected THEN status' = "loading" /\ request' = NoRequest
       ELSE RefreshSnapshot(profile)
    /\ UNCHANGED <<clock, auto, snapshot, observations, stored, consoles, loads>>

\* The console as of a minute between the request and its answer.
Answer ==
  /\ request # NoRequest /\ consoles < MaxConsoles /\ consoles' = consoles + 1
  /\ \E time \in ClockMinutes \cap (request.at .. clock) : \E c \in Consoles(time, request.horizon, request.profile) : Show(c)
  /\ stored' = observations' /\ status' = "idle" /\ request' = NoRequest
  /\ UNCHANGED <<clock, auto, loads>>

AnswerFails ==
  /\ request # NoRequest
  /\ status' = "error" /\ request' = NoRequest
  /\ UNCHANGED <<clock, auto, selected, snapshot, observations, stored, consoles, loads>>

PanelNext == Tick \/ Load \/ Navigate \/ SetInterval \/ ClickRefresh \/ TimerFires
             \/ ApplyProfile \/ Answer \/ AnswerFails

-----------------------------------------------------------------------------
\* The log holds what consoles said: what is resolved was due and agrees with the
\* prices it names, nothing that the shown console makes due is pending, and the
\* numbers add up.  A panel at rest shows the profile that is selected, and a
\* request that may still answer is announced.
PanelIsHonest ==
  LET summary == BucketSummary(observations) IN
  /\ Len(observations) \in 1 .. MaxStored /\ stored = observations
  /\ \A i \in DOMAIN observations :
       LET o == observations[i] IN
       /\ o.status \in {"hit", "miss"} =>
            /\ o.resolvedAt >= o.resolveAt /\ o.resolvedAt > o.createdAt
            /\ o.status = "hit" <=> IsHit(o, o.resolvePrice)
       /\ o.status = "pending" =>
            o.direction # "NO_SIGNAL" /\ (o.horizon = snapshot.horizon => snapshot.candle < o.resolveAt)
  /\ summary.total = summary.resolved + summary.pending + summary.invalidated
  /\ status = "idle" => snapshot.profile = selected
  /\ request # NoRequest => status = "loading"

\* While the page stays, at most one entry comes in front of the log, entries
\* leave it at its end, and an entry that is not pending stays as it is.
LogKeepsItsPast ==
  loads' = loads =>
    \E new \in {0, 1} :
      /\ Len(observations') = Min({Len(observations) + new, MaxStored})
      /\ \A i \in 1 .. Len(observations') - new :
           \/ observations'[i + new] = observations[i]
           \/ observations[i].status = "pending"
                /\ [observations'[i + new] EXCEPT !.status = "pending", !.resolvePrice = Null,
                                                  !.resolvedAt = Null] = observations[i]
=============================================================================
