------------------------------ MODULE ChartState ------------------------------
(***************************************************************************)
(* The chart lifecycle of src/modules/job.go: Job.PopulateMetrics walks    *)
(* the job's charts in order and, for each, calls switchChartState in a    *)
(* loop until it answers "skip" or "break".  Each job has its own          *)
(* priority counter (Job.priority, 70000 in NewJob).                       *)
(*                                                                         *)
(* In the code the "break" in "case switchBreak: break" leaves the switch, *)
(* not the enclosing "for": the loop asks switchChartState again, gets     *)
(* "break" again, and never ends.  PopulateMetrics is modelled as one      *)
(* action per call; a call that reaches that loop never returns and its    *)
(* job is marked hung.  The per-chart body after the loop (Begin/Set/End,  *)
(* the update-miss counter) is only reached through "break" and so is      *)
(* never executed.                                                         *)
(***************************************************************************)
EXTENDS Naturals, Sequences, FiniteSets

CONSTANTS
    Jobs,           \* the jobs; each owns a copy of the charts below
    ChartOrder,     \* the job's charts, in the order of *j.charts
    Dims,           \* [chart -> SUBSET Keys]: the IDs of its dimensions
    Keys,           \* the metric keys a snapshot may contain
    FirstPriority,  \* Job.priority as set by NewJob (70000)
    MaxCalls        \* bound on PopulateMetrics calls per job

Charts == {ChartOrder[i] : i \in DOMAIN ChartOrder}

ASSUME
    /\ ChartOrder \in Seq(Charts) /\ Len(ChartOrder) = Cardinality(Charts)
    /\ Dims \in [Charts -> SUBSET Keys]
    /\ FirstPriority \in Nat
    /\ MaxCalls \in Nat \ {0}

\* The values of chartstate.
States == {"Initial", "New", "Created", "Rebuilt", "Recovered",
           "MarkedObsolete", "Obsoleted", "MarkedRemove", "MarkedDelete"}

VARIABLES
    state,      \* [Jobs -> [Charts -> States]]: chart.state
    priority,   \* [Jobs -> [Charts -> Nat]]: chart.priority (0 until assigned)
    counter,    \* [Jobs -> Nat]: Job.priority, the next priority to hand out
    hung,       \* [Jobs -> BOOLEAN]: a PopulateMetrics call never returned
    calls       \* [Jobs -> Nat]: PopulateMetrics calls made

vars == <<state, priority, counter, hung, calls>>

-----------------------------------------------------------------------------
\* canChartBeUpdated: some dimension of the chart is in the snapshot.
CanChartBeUpdated(c, data) == Dims[c] \cap data # {}

\* switchChartState for a chart in state s: the state it leaves behind and
\* what it answers.  Only the Obsoleted case looks at the snapshot.
SwitchChartState(s, canUpdate) ==
    LET next == [Initial |-> "New", New |-> "Created", Created |-> "Created",
                 Rebuilt |-> "New", Recovered |-> "New",
                 MarkedObsolete |-> "Obsoleted",
                 Obsoleted |-> IF canUpdate THEN "New" ELSE "Obsoleted",
                 MarkedRemove |-> "MarkedDelete", MarkedDelete |-> "MarkedDelete"]
        res  == [Initial |-> "continue", New |-> "continue", Created |-> "break",
                 Rebuilt |-> "continue", Recovered |-> "continue",
                 MarkedObsolete |-> "continue",
                 Obsoleted |-> IF canUpdate THEN "continue" ELSE "skip",
                 MarkedRemove |-> "continue", MarkedDelete |-> "skip"]
    IN [state |-> next[s], result |-> res[s]]

\* The inner "for" of PopulateMetrics for one chart, from chart state s and
\* priority counter n: the chart's final state, its priority (0 when not
\* assigned here), the counter, and whether the loop spins forever.  Only
\* the Initial case takes a priority ("chart.priority = j.priority;
\* j.priority++").
RECURSIVE ChartLoop(_, _, _, _)
ChartLoop(s, n, p, canUpdate) ==
    LET r  == SwitchChartState(s, canUpdate)
        p2 == IF s = "Initial" THEN n ELSE p
        n2 == IF s = "Initial" THEN n + 1 ELSE n
    IN CASE r.result = "continue" -> ChartLoop(r.state, n2, p2, canUpdate)
         [] r.result = "skip"     -> [state |-> r.state, prio |-> p2, next |-> n2, spins |-> FALSE]
         [] r.result = "break"    -> [state |-> r.state, prio |-> p2, next |-> n2, spins |-> TRUE]

\* The outer loop of PopulateMetrics over charts i.. of the job, applied to
\* acc = [st, pr, n, spins]; it stops at the first chart whose loop spins.
RECURSIVE Populate(_, _, _)
Populate(i, acc, data) ==
    IF i > Len(ChartOrder) \/ acc.spins THEN acc
    ELSE LET c == ChartOrder[i]
             r == ChartLoop(acc.st[c], acc.n, acc.pr[c], CanChartBeUpdated(c, data))
         IN Populate(i + 1,
                     [st |-> [acc.st EXCEPT ![c] = r.state],
                      pr |-> [acc.pr EXCEPT ![c] = r.prio],
                      n  |-> r.next, spins |-> r.spins], data)

-----------------------------------------------------------------------------
Init ==
    /\ state = [j \in Jobs |-> [c \in Charts |-> "Initial"]]
    /\ priority = [j \in Jobs |-> [c \in Charts |-> 0]]
    /\ counter = [j \in Jobs |-> FirstPriority]
    /\ hung = [j \in Jobs |-> FALSE]
    /\ calls = [j \in Jobs |-> 0]

\* Job.PopulateMetrics(data, sinceLast) on a snapshot holding the keys in
\* data, called from the job's own goroutine.
PopulateMetrics(j, data) ==
    /\ ~hung[j]
    /\ calls[j] < MaxCalls
    /\ LET r == Populate(1, [st |-> state[j], pr |-> priority[j],
                             n |-> counter[j], spins |-> FALSE], data)
       IN /\ state' = [state EXCEPT ![j] = r.st]
          /\ priority' = [priority EXCEPT ![j] = r.pr]
          /\ counter' = [counter EXCEPT ![j] = r.n]
          /\ hung' = [hung EXCEPT ![j] = r.spins]
    /\ calls' = [calls EXCEPT ![j] = @ + 1]

\* The collector, on the job's goroutine between two calls, asks for a
\* chart to be removed, or rebuilt after its definition changed (chart
\* methods outside src/, spec 4.3).  A removed chart is never brought back.
CollectorMarks(j) ==
    /\ ~hung[j]
    /\ calls[j] < MaxCalls
    /\ \E c \in Charts, s \in {"Rebuilt", "MarkedRemove"} :
         /\ state[j][c] \notin {"MarkedRemove", "MarkedDelete"}
         /\ state' = [state EXCEPT ![j][c] = s]
    /\ UNCHANGED <<priority, counter, hung, calls>>

Next == \E j \in Jobs :
          \/ \E data \in SUBSET Keys : PopulateMetrics(j, data)
          \/ CollectorMarks(j)

Spec == Init /\ [][Next]_vars

-----------------------------------------------------------------------------
TypeOK ==
    /\ state \in [Jobs -> [Charts -> States]]
    /\ priority \in [Jobs -> [Charts -> Nat]]
    /\ counter \in [Jobs -> Nat]
    /\ hung \in [Jobs -> BOOLEAN]
    /\ calls \in [Jobs -> 0..MaxCalls]

-----------------------------------------------------------------------------
(* Properties.                                                              *)

\* Spec 4.2 and 5: the reconciliation of one tick always completes before
\* the next is considered: every PopulateMetrics call returns.
PopulateMetricsReturns == \A j \in Jobs : ~hung[j]

\* Spec 3 and 5: chart priorities come from one process-wide counter, so no
\* two charts, of the same job or of different jobs, share a priority.
PrioritiesDistinct ==
    \A ja, jb \in Jobs, ca, cb \in Charts :
        /\ <<ja, ca>> # <<jb, cb>>
        /\ priority[ja][ca] # 0 /\ priority[jb][cb] # 0
        => priority[ja][ca] # priority[jb][cb]

====
