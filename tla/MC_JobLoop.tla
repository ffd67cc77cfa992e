----------------------------- MODULE MC_JobLoop -----------------------------
(* Two jobs, one ticked every second and one every second tick, so that    *)
(* both accepted and filtered ticks occur; the second job has              *)
(* auto-detection retry so that failed Init/Check attempts are repeated.   *)
EXTENDS JobLoop, TLC

CONSTANTS j1, j2

MCJobs == {j1, j2}
MCUpdateEvery == (j1 :> 1) @@ (j2 :> 2)
MCAutoDetectionRetry == (j1 :> 0) @@ (j2 :> 1)
====
