--------------------------- MODULE CaptureScheduler ---------------------------
(***************************************************************************)
(* createCaptureScheduler: sweeps over the capture jobs, one by each tick  *)
(* of a timer or call of runDueJobs.  A sweep reads the clock once, takes  *)
(* the jobs in their order, and waits for each that it starts, so that     *)
(* other sweeps start and go on in between.                                *)
(***************************************************************************)
EXTENDS Integers, Sequences, FiniteSets

CONSTANTS Schedule,   \* of each job, in the order of sweeps: time between runs
          FirstTime,  \* bound: the clock when the scheduler is made
          LastTime,   \* bound: the last time of the clock
          MaxSweeps   \* bound: sweeps under way at once

Jobs == DOMAIN Schedule

\* A job that never ran counts as run at 0, which is long ago.
ASSUME SchedulerAssumption ==
  /\ Schedule \in Seq(Nat \ {0})
  /\ FirstTime \in Nat /\ LastTime \in Nat /\ MaxSweeps \in Nat
  /\ \A j \in Jobs : FirstTime >= Schedule[j]

VARIABLES time, ticking, lastRun,
          sweeps,  \* the sweeps that wait for a job: their time, job and caller
          starts,  \* history: of each job, the times of the sweeps that started it
          swept    \* history: the latest time of a sweep that came to its end

schedulerVars == <<time, ticking, lastRun, sweeps, starts, swept>>

SchedulerInit ==
  /\ time = FirstTime /\ ticking = FALSE
  /\ lastRun = [j \in Jobs |-> 0]
  /\ sweeps = {} /\ starts = [j \in Jobs |-> <<>>] /\ swept = 0

\* The jobs behind job number done that are due for a sweep.
DueJobs(at, done) == {j \in Jobs : j > done /\ at - lastRun[j] >= Schedule[j]}

\* Mutant of Proceed: a job is marked as run when it has ended.
ProceedUnmarked(sweep, others) ==
  LET due == DueJobs(sweep.at, sweep.job)
      ended == IF sweep.job = 0 THEN lastRun ELSE [lastRun EXCEPT ![sweep.job] = sweep.at] IN
  /\ lastRun' = ended
  /\ \/ /\ due = {}
        /\ sweeps' = others /\ swept' = (IF sweep.at > swept THEN sweep.at ELSE swept)
        /\ UNCHANGED starts
     \/ \E j \in due :
          /\ \A k \in due : j <= k
          /\ sweeps' = others \cup {[sweep EXCEPT !.job = j]}
          /\ starts' = [starts EXCEPT ![j] = Append(@, sweep.at)]
          /\ UNCHANGED swept

\* The loop of runDueJobs up to its next await, or to its end.
Proceed(sweep, others) ==
  LET due == DueJobs(sweep.at, sweep.job) IN
  \/ /\ due = {}
     /\ sweeps' = others /\ swept' = (IF sweep.at > swept THEN sweep.at ELSE swept)
     /\ UNCHANGED <<lastRun, starts>>
  \/ \E j \in due :
       /\ \A k \in due : j <= k
       /\ lastRun' = [lastRun EXCEPT ![j] = sweep.at]
       /\ sweeps' = others \cup {[sweep EXCEPT !.job = j]}
       /\ starts' = [starts EXCEPT ![j] = Append(@, sweep.at)]
       /\ UNCHANGED swept

TimePasses ==
  /\ time < LastTime /\ time' = time + 1
  /\ UNCHANGED <<ticking, lastRun, sweeps, starts, swept>>

\* start() and stop(): the sweeps under way go on.
StartOrStop ==
  /\ ticking' = ~ticking
  /\ UNCHANGED <<time, lastRun, sweeps, starts, swept>>

\* The timer's callback, and a caller of runDueJobs.
SweepBegins(by) ==
  /\ by = "timer" => ticking
  /\ Cardinality(sweeps) < MaxSweeps
  /\ Proceed([at |-> time, job |-> 0, by |-> by], sweeps)
  /\ UNCHANGED <<time, ticking>>

JobEnds ==
  /\ \E sweep \in sweeps : Proceed(sweep, sweeps \ {sweep})
  /\ UNCHANGED <<time, ticking>>

\* A job's promise rejects, as it does when its run cannot be recorded: the
\* sweep ends before the jobs behind it.  Of a sweep of the timer nobody
\* catches that, which ends the process; another one starts from nothing.
JobRejects ==
  \E sweep \in sweeps :
    IF sweep.by = "timer"
    THEN /\ ticking' = FALSE /\ lastRun' = [j \in Jobs |-> 0]
         /\ sweeps' = {} /\ starts' = [j \in Jobs |-> <<>>] /\ swept' = 0
         /\ UNCHANGED time
    ELSE /\ sweeps' = sweeps \ {sweep}
         /\ UNCHANGED <<time, ticking, lastRun, starts, swept>>

SchedulerNext ==
  TimePasses \/ StartOrStop \/ (\E by \in {"timer", "caller"} : SweepBegins(by)) \/ JobEnds
  \/ JobRejects

SchedulerSpec == SchedulerInit /\ [][SchedulerNext]_schedulerVars

-----------------------------------------------------------------------------
SchedulerTypeOK ==
  /\ time \in Nat /\ ticking \in BOOLEAN /\ swept \in Nat
  /\ lastRun \in [Jobs -> Nat] /\ starts \in [Jobs -> Seq(Nat)]
  /\ sweeps \subseteq [at : Nat, job : Jobs, by : {"timer", "caller"}]
  /\ swept <= time /\ \A sweep \in sweeps : sweep.at <= time

\* The runs of a job are as far apart as its schedule says.
RunsKeepTheirDistance ==
  \A j \in Jobs : \A i \in 1 .. Len(starts[j]) - 1 :
    starts[j][i + 1] - starts[j][i] >= Schedule[j]

\* A sweep that came to its end left no job behind that was due, whoever
\* started those jobs, and one that waits has left none before its own.
NoneIsLeftDue ==
  /\ \A j \in Jobs : swept - lastRun[j] < Schedule[j]
  /\ \A sweep \in sweeps : \A j \in 1 .. sweep.job : sweep.at - lastRun[j] < Schedule[j]

\* Safety: sweeps that go on with times that others have passed keep the runs of
\* a job apart all the same, and leave no job behind that is due (runDueJobs,
\* which marks a job as run before it waits for it).
SchedulerIsSound == SchedulerTypeOK /\ RunsKeepTheirDistance /\ NoneIsLeftDue
=============================================================================
