------------------------------ MODULE HDFSCollect ------------------------------
(***************************************************************************)
(* One collection of the HDFS collector, src/modules/hdfs/collect.go.      *)
(* collect fetches the JMX document (doOKWithDecodeJSON, outside src/) and *)
(* fails on a fetch error or an empty bean list.  It then dispatches on    *)
(* the node type: a name node collects the JVM and the FSNamesystem beans, *)
(* a data node and an unknown node only the JVM bean, any other type       *)
(* panics.  Each of these finds the FIRST bean of its modelerType, re-     *)
(* encodes it and decodes it into a fresh struct; a JVM bean that is       *)
(* missing or does not decode, and an FSNamesystem bean that does not      *)
(* decode, are only logged; a missing FSNamesystem bean is no error.       *)
(*                                                                         *)
(* A bean is its modelerType and whether its fields decode into the        *)
(* struct of that type; the metrics a collection returns are abstracted   *)
(* to the index of the bean each struct was decoded from (0: not set).     *)
(***************************************************************************)
EXTENDS Naturals, Sequences

CONSTANTS
    NodeTypes,   \* the node types h.nodeType can hold
    MaxBeans     \* bound on the beans of a JMX response

ModelerTypes == {"JvmMetrics", "FSNamesystem", "Other"}

\* rawData: a bean, its "modelerType" and whether json.Unmarshal of its
\* re-encoded fields into the struct of that type succeeds.
Beans == [type : ModelerTypes, decodes : BOOLEAN]

\* What doOKWithDecodeJSON yields: an error, or rawJMX.Beans.
Responses == [fetched : {FALSE}, beans : {<<>>}]
               \cup [fetched : {TRUE}, beans : UNION {[1..n -> Beans] : n \in 0..MaxBeans}]

NoResponse == [fetched |-> FALSE, beans |-> <<>>]

NotSet == [jvm |-> 0, fsn |-> 0]

VARIABLES
    nodeType,  \* h.nodeType
    resp,      \* what the last fetch returned
    status,    \* "none", "ok", "err", "panic"
    mx         \* the metrics of the last collection: [jvm, fsn] bean indices

vars == <<nodeType, resp, status, mx>>

-----------------------------------------------------------------------------
\* rawJMX.isEmpty.
IsEmpty(beans) == Len(beans) = 0

\* Mutant: the loop does not return at a match; the last match wins.
FindLast(beans, t) ==
    LET RECURSIVE From(_)
        From(i) == IF i = 0 THEN 0
                   ELSE IF beans[i].type = t THEN i ELSE From(i - 1)
    IN From(Len(beans))

\* rawJMX.find with isJvm or isFsn (findJvm, findFsn): the index of the
\* first bean whose modelerType is t, 0 (nil) for none.
Find(beans, t) ==
    LET RECURSIVE From(_)
        From(i) == IF i > Len(beans) THEN 0
                   ELSE IF beans[i].type = t THEN i ELSE From(i + 1)
    IN From(1)

\* collectJVM / collectFsn: the bean found, when it decodes, is set in mx;
\* otherwise mx is left alone (the error is returned and only logged).
CollectBean(m, field, beans, t) ==
    LET i == Find(beans, t)
    IN IF i # 0 /\ beans[i].decodes THEN [m EXCEPT ![field] = i] ELSE m

CollectJVM(m, beans) == CollectBean(m, "jvm", beans, "JvmMetrics")
CollectFsn(m, beans) == CollectBean(m, "fsn", beans, "FSNamesystem")

\* collectDataNode, and collectUnknownNode which calls it: the JVM only.
CollectDataNode(beans) == CollectJVM(NotSet, beans)

CollectUnknownNode(beans) == CollectDataNode(beans)

\* collectNameNode: the JVM, then the FSNamesystem, whatever the first gave.
CollectNameNode(beans) == CollectFsn(CollectJVM(NotSet, beans), beans)

-----------------------------------------------------------------------------
Init ==
    /\ nodeType \in NodeTypes
    /\ resp = NoResponse
    /\ status = "none"
    /\ mx = NotSet

\* HDFS.collect on the response r.
Collect ==
    /\ \E r \in Responses :
         /\ resp' = r
         /\ IF ~r.fetched \/ IsEmpty(r.beans)
            THEN status' = "err" /\ mx' = NotSet
            ELSE CASE nodeType = "unknown" -> status' = "ok" /\ mx' = CollectUnknownNode(r.beans)
                   [] nodeType = "name"    -> status' = "ok" /\ mx' = CollectNameNode(r.beans)
                   [] nodeType = "data"    -> status' = "ok" /\ mx' = CollectDataNode(r.beans)
                   [] OTHER                -> status' = "panic" /\ mx' = NotSet
    /\ UNCHANGED nodeType

Spec == Init /\ [][Collect]_vars

-----------------------------------------------------------------------------
\* Reference: the first bean of a modelerType, stated without a loop.
FirstOf(beans, t) ==
    IF \E i \in DOMAIN beans : beans[i].type = t
    THEN CHOOSE i \in DOMAIN beans :
             beans[i].type = t /\ \A j \in 1..(i - 1) : beans[j].type # t
    ELSE 0
Used(beans, t) == LET i == FirstOf(beans, t) IN IF i # 0 /\ beans[i].decodes THEN i ELSE 0

\* A collection fails only when the fetch fails or no bean comes back; a
\* missing or undecodable bean only leaves its metrics out.  The JVM
\* metrics come from the first JvmMetrics bean, and only a name node
\* reports the first FSNamesystem bean, even when a later bean of the same
\* type would decode.
CollectedAsReference ==
    /\ status = "err" <=> resp.beans = <<>> /\ status # "none"
    /\ status = "ok" =>
         mx = [jvm |-> Used(resp.beans, "JvmMetrics"),
               fsn |-> IF nodeType = "name" THEN Used(resp.beans, "FSNamesystem") ELSE 0]
====
