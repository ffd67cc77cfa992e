---------------------------- MODULE MC_ChartState ----------------------------
(* Two jobs with two charts of one dimension each, and two keys, so that a *)
(* snapshot can feed either chart, both or neither.                        *)
EXTENDS ChartState, TLC

CONSTANTS j1, j2, c1, c2, k1, k2

MCJobs == {j1, j2}
MCChartOrder == <<c1, c2>>
MCDims == (c1 :> {k1}) @@ (c2 :> {k2})
MCKeys == {k1, k2}
====
