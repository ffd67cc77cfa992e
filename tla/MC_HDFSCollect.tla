---------------------------- MODULE MC_HDFSCollect ----------------------------
(* The three node types the collector sets, and responses of up to three  *)
(* beans: enough for a JVM or FSNamesystem bean to come after another of  *)
(* its type, decodable or not, and after a bean of another type.          *)
EXTENDS HDFSCollect, TLC
====
