----------------------------- MODULE MC_CSVFormat -----------------------------
(* Three names, two of them "$" fields; offsets 0 and 1; formats of up to  *)
(* three entries and records of up to four columns.                       *)
EXTENDS CSVFormat, TLC

CONSTANTS na, nb, nx
====
