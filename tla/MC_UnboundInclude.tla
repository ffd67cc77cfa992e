-------------------------- MODULE MC_UnboundInclude --------------------------
(* Two files of up to two lines: enough for an include of a missing file, *)
(* an empty glob, a glob of both files, a file included twice, and an    *)
(* include cycle.                                                          *)
EXTENDS UnboundInclude, TLC

CONSTANTS f1, f2, f3, missing

\* The lexical order of the three names.
MCGlobOrder == <<f1, f2, f3>>
====
