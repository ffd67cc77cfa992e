----------------------------- MODULE MC_UnboundLine -----------------------------
(* Lines of up to six characters over a letter, a quote, ':', '#', ' '.    *)
EXTENDS UnboundLine, TLC

CONSTANTS k, q
====
