------------------------------- MODULE JobLoop -------------------------------
(***************************************************************************)
(* The lifecycle of the jobs of one plugin process (src/modules/job.go):   *)
(* the driver calls Job.Init, Job.Check and Job.PostCheck, starts the      *)
(* MainLoop goroutine of every job that passed them, broadcasts the ticks  *)
(* of the process-wide clock with Job.Tick and, on stop, calls             *)
(* Job.Shutdown on every started job.  Tick and Shutdown are non-blocking  *)
(* sends on the unbuffered channels j.tick and j.shutdownHook: a send      *)
(* succeeds only when MainLoop is parked in its select.                    *)
(*                                                                         *)
(* The driver and the ticker live outside src/ (go-orchestrator); they are *)
(* modelled from the spec (sections 4.1, 4.2, 5).                          *)
(***************************************************************************)
EXTENDS Naturals, FiniteSets

CONSTANTS
    Jobs,               \* the configured jobs
    UpdateEvery,        \* [Jobs -> Nat \ {0}], JobConfig.UpdateEvery
    AutoDetectionRetry, \* [Jobs -> Nat], JobConfig.AutoDetectionRetry
    MaxAttempts,        \* bound on Init attempts under auto-detection retry
    ClockPeriod,        \* the clock is kept modulo a common multiple of UpdateEvery
    InitOutcomes,       \* what the collector's Init may do: SUBSET {"ok","fail","panic"}
    CheckOutcomes,      \* what the collector's Check may do
    ChartsOutcomes      \* what GetCharts may return: SUBSET {"nil","empty","set"}

ASSUME
    /\ UpdateEvery \in [Jobs -> Nat \ {0}]
    /\ AutoDetectionRetry \in [Jobs -> Nat]
    /\ MaxAttempts \in Nat \ {0}
    /\ ClockPeriod \in Nat \ {0}
    /\ \A j \in Jobs : ClockPeriod % UpdateEvery[j] = 0
    /\ InitOutcomes \subseteq {"ok", "fail", "panic"}
    /\ CheckOutcomes \subseteq {"ok", "fail", "panic"}
    /\ ChartsOutcomes \subseteq {"nil", "empty", "set"}

VARIABLES
    phase,          \* driver's view of a job: created, inited, checked, running, failed
    attempts,       \* Init attempts made so far
    panicked,       \* Job.Panicked
    charts,         \* Job.charts: "none" before PostCheck, else what GetCharts returned
    loop,           \* MainLoop control point: none, starting, select, busy, exited
    got,            \* the tick value MainLoop received last
    clock,          \* the ticker's clock (mod ClockPeriod)
    pending,        \* jobs still to be sent the current tick
    stopping,       \* the driver has begun the shutdown broadcast
    shutPending,    \* started jobs still to be sent Shutdown
    shutdownCalled, \* Job.Shutdown has been called on the job
    escaped         \* the collector call whose panic escaped the job, or "none"

vars == <<phase, attempts, panicked, charts, loop, got, clock, pending,
          stopping, shutPending, shutdownCalled, escaped>>

Phases == {"created", "inited", "checked", "running", "failed"}
LoopPoints == {"none", "starting", "select", "busy", "exited"}

\* An unrecovered panic ends the Go process: nothing runs afterwards.
Alive == escaped = "none"

-----------------------------------------------------------------------------
Init ==
    /\ phase = [j \in Jobs |-> "created"]
    /\ attempts = [j \in Jobs |-> 0]
    /\ panicked = [j \in Jobs |-> FALSE]
    /\ charts = [j \in Jobs |-> "none"]
    /\ loop = [j \in Jobs |-> "none"]
    /\ got = [j \in Jobs |-> 0]
    /\ clock = 0
    /\ pending = {}
    /\ stopping = FALSE
    /\ shutPending = {}
    /\ shutdownCalled = [j \in Jobs |-> FALSE]
    /\ escaped = "none"



\* A failed Init or Check: re-attempted while auto-detection retry is
\* configured and attempts remain, otherwise the job is given up.
\* n is the number of Init attempts made.
Failed(j, n) ==
    phase' = [phase EXCEPT ![j] =
                IF AutoDetectionRetry[j] > 0 /\ n < MaxAttempts
                THEN "created" ELSE "failed"]

\* Job.Init: configures the collector and returns its Init() result.
\* There is no recover: a panic in the collector's Init leaves Job.Init.
JobInit(j) ==
    /\ Alive /\ ~stopping
    /\ phase[j] = "created"
    /\ attempts[j] < MaxAttempts
    /\ attempts' = [attempts EXCEPT ![j] = @ + 1]
    /\ \E r \in InitOutcomes :
         \/ r = "ok"    /\ phase' = [phase EXCEPT ![j] = "inited"] /\ UNCHANGED escaped
         \/ r = "fail"  /\ Failed(j, attempts[j] + 1) /\ UNCHANGED escaped
         \/ r = "panic" /\ escaped' = "Init" /\ UNCHANGED phase
    /\ UNCHANGED <<panicked, charts, loop, got, clock, pending, stopping,
                   shutPending, shutdownCalled>>


\* Job.Check: the deferred recover turns a panic into Panicked = TRUE and
\* the zero result false.
JobCheck(j) ==
    /\ Alive /\ ~stopping
    /\ phase[j] = "inited"
    /\ \E r \in CheckOutcomes :
         \/ r = "ok"    /\ phase' = [phase EXCEPT ![j] = "checked"]
                        /\ UNCHANGED panicked
         \/ r = "fail"  /\ Failed(j, attempts[j]) /\ UNCHANGED panicked
         \/ r = "panic" /\ panicked' = [panicked EXCEPT ![j] = TRUE]
                        /\ Failed(j, attempts[j])
    /\ UNCHANGED <<attempts, charts, loop, got, clock, pending, stopping,
                   shutPending, shutdownCalled, escaped>>


\* Job.PostCheck, then the driver starts "go job.MainLoop()" when it
\* returned true.  Only a nil chart set is refused: an empty, non-nil
\* *Charts passes "charts == nil".
PostCheck(j) ==
    /\ Alive /\ ~stopping
    /\ phase[j] = "checked"
    /\ \E c \in ChartsOutcomes :
         \/ /\ c = "nil"
            /\ phase' = [phase EXCEPT ![j] = "failed"]
            /\ UNCHANGED <<charts, loop>>
         \/ /\ c # "nil"
            /\ charts' = [charts EXCEPT ![j] = c]
            /\ phase' = [phase EXCEPT ![j] = "running"]
            /\ loop' = [loop EXCEPT ![j] = "starting"]
    /\ UNCHANGED <<attempts, panicked, got, clock, pending, stopping,
                   shutPending, shutdownCalled, escaped>>

-----------------------------------------------------------------------------
(* The MainLoop goroutine.                                                  *)

\* The new goroutine reaches the select of its first iteration.
LoopStart(j) ==
    /\ Alive
    /\ loop[j] = "starting"
    /\ loop' = [loop EXCEPT ![j] = "select"]
    /\ UNCHANGED <<phase, attempts, panicked, charts, got, clock, pending,
                   stopping, shutPending, shutdownCalled, escaped>>

LoopFiltered(j) ==
    /\ Alive
    /\ loop[j] = "busy"
    /\ got[j] % UpdateEvery[j] # 0
    /\ loop' = [loop EXCEPT ![j] = "select"]
    /\ UNCHANGED <<phase, attempts, panicked, charts, got, clock, pending,
                   stopping, shutPending, shutdownCalled, escaped>>

LoopAccepted(j) ==
    /\ Alive
    /\ loop[j] = "busy"
    /\ got[j] % UpdateEvery[j] = 0
    /\ loop' = [loop EXCEPT ![j] = "select"]
    /\ UNCHANGED <<phase, attempts, panicked, charts, got, clock, pending,
                   stopping, shutPending, shutdownCalled, escaped>>

-----------------------------------------------------------------------------
(* The ticker and the shutdown broadcast (driver, outside src/).            *)


\* The clock advances and the tick is to be broadcast to every started job.
NextClock ==
    /\ Alive
    /\ pending = {}
    /\ clock' = (clock + 1) % ClockPeriod
    /\ pending' = {j \in Jobs : phase[j] = "running"}
    /\ UNCHANGED <<phase, attempts, panicked, charts, loop, got, stopping,
                   shutPending, shutdownCalled, escaped>>


\* Job.Tick: non-blocking send of the clock; when MainLoop is not parked
\* in its select the tick is dropped with an error log.
Tick(j) ==
    /\ Alive
    /\ j \in pending
    /\ pending' = pending \ {j}
    /\ IF loop[j] = "select"
       THEN /\ loop' = [loop EXCEPT ![j] = "busy"]
            /\ got' = [got EXCEPT ![j] = clock]
       ELSE UNCHANGED <<loop, got>>
    /\ UNCHANGED <<phase, attempts, panicked, charts, clock, stopping,
                   shutPending, shutdownCalled, escaped>>

\* The driver stops: no job is started any more and every started job is
\* to be sent Shutdown.
StopAll ==
    /\ Alive /\ ~stopping
    /\ stopping' = TRUE
    /\ shutPending' = {j \in Jobs : phase[j] = "running"}
    /\ UNCHANGED <<phase, attempts, panicked, charts, loop, got, clock,
                   pending, shutdownCalled, escaped>>

\* Job.Shutdown: non-blocking send on shutdownHook; MainLoop leaves its
\* loop ("break LOOP") only if it was parked in the select.
Shutdown(j) ==
    /\ Alive
    /\ j \in shutPending
    /\ shutPending' = shutPending \ {j}
    /\ shutdownCalled' = [shutdownCalled EXCEPT ![j] = TRUE]
    /\ IF loop[j] = "select"
       THEN loop' = [loop EXCEPT ![j] = "exited"]
       ELSE UNCHANGED loop
    /\ UNCHANGED <<phase, attempts, panicked, charts, got, clock, pending,
                   stopping, escaped>>

-----------------------------------------------------------------------------
Driver(j) == JobInit(j) \/ JobCheck(j) \/ PostCheck(j)
MainLoop(j) == LoopStart(j) \/ LoopFiltered(j) \/ LoopAccepted(j)

Next ==
    \/ \E j \in Jobs : Driver(j) \/ MainLoop(j) \/ Tick(j) \/ Shutdown(j)
    \/ NextClock
    \/ StopAll

\* Every goroutine that can run eventually runs: the driver, each MainLoop,
\* the ticker (it fires every second) and the shutdown broadcast once begun.
\* StopAll is the operator's decision and is not fair.
Fairness ==
    /\ \A j \in Jobs : WF_vars(Driver(j)) /\ WF_vars(MainLoop(j))
                       /\ WF_vars(Tick(j)) /\ WF_vars(Shutdown(j))
    /\ WF_vars(NextClock)

Spec == Init /\ [][Next]_vars /\ Fairness

-----------------------------------------------------------------------------
TypeOK ==
    /\ phase \in [Jobs -> Phases]
    /\ attempts \in [Jobs -> 0..MaxAttempts]
    /\ panicked \in [Jobs -> BOOLEAN]
    /\ charts \in [Jobs -> {"none", "nil", "empty", "set"}]
    /\ loop \in [Jobs -> LoopPoints]
    /\ got \in [Jobs -> 0..(ClockPeriod - 1)]
    /\ clock \in 0..(ClockPeriod - 1)
    /\ pending \subseteq Jobs
    /\ stopping \in BOOLEAN
    /\ shutPending \subseteq Jobs
    /\ shutdownCalled \in [Jobs -> BOOLEAN]
    /\ escaped \in {"none", "Init", "Check"}

-----------------------------------------------------------------------------
(* Properties.                                                              *)

\* Spec 4.2: a nil or empty chart set is a hard failure for the job, so
\* only a job whose GetCharts returned charts runs its MainLoop.  PostCheck
\* checks only "charts == nil" (job.go:110).
RunsOnlyWithCharts ==
    \A j \in Jobs : loop[j] # "none" => charts[j] = "set"




ShutdownStopsLoop ==
    \A j \in Jobs : shutdownCalled[j] ~> (loop[j] = "exited")





\* Spec 4.2 and 7: a panic in the collector's Init, Check or Collect is
\* recovered at the Job boundary and never ends the process.
PanicIsolation == escaped = "none"

====
