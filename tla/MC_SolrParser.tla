----------------------------- MODULE MC_SolrParser -----------------------------
(* One core with two query handlers, so that two handlers' metrics of the *)
(* same type and stat share a key, and a malformed metric name.           *)
EXTENDS SolrParser, TLC

CONSTANTS c1, h1, h2, bad
====
