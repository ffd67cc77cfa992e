------------------------------ MODULE SolrParser ------------------------------
(***************************************************************************)
(* The core-metrics parsers of the Solr collector,                        *)
(* src/modules/solr/parser.go.  A response maps core registry names       *)
(* ("solr.core.<core>") to maps from metric names to raw JSON.  parse      *)
(* resets v.parsed, decodes the response and, for every core in map order, *)
(* parseCore walks the metrics in map order: a name that does not split    *)
(* into three parts at '.', and the update handler, are skipped; the stat  *)
(* selects the struct the JSON is decoded into, and the count (and for     *)
(* requestTimes the mean and percentiles) is added to the key              *)
(* <core>_<lower(type)>_<stat>_<suffix>.  A decode error ends parse with   *)
(* nil.  v6Parser decodes requests and totalTime into a {Count} object,    *)
(* v7Parser into a plain number.                                           *)
(*                                                                         *)
(* A raw JSON value is a record: its kind ("object" or "number"), its     *)
(* count and its mean; the mean stands for every percentile field of      *)
(* requestTimes, which the code treats alike.  A response is a set of     *)
(* entries [core, name, val], at most one per core and name.              *)
(***************************************************************************)
EXTENDS Naturals, FiniteSets, Sequences, SequencesExt, FiniteSetsExt

CONSTANTS
    Cores,        \* core names
    Handlers,     \* request handler names other than updateHandler
    Malformed,    \* a metric name that does not split into three parts
    MaxEntries    \* bound on the entries of a response

Prefix == "solr.core."

\* The registry name of a core: the 10-character prefix and the core.
CoreKey(c) == <<Prefix, c>>

Types == {"QUERY", "UPDATE"}

Names == {[typ |-> "QUERY", handler |-> h, stat |-> s] :
             h \in Handlers, s \in {"errors", "requests", "requestTimes"}}
         \cup {[typ |-> "UPDATE", handler |-> "updateHandler", stat |-> "adds"], Malformed}

\* The raw JSON a metric of a name can carry.
Vals(n) ==
    IF n = Malformed \/ n.stat = "adds"
    THEN {[kind |-> "object", count |-> 1, mean |-> 0]}
    ELSE CASE n.stat = "errors"   -> {[kind |-> "object", count |-> c, mean |-> 0] : c \in {1, 2}}
           [] n.stat = "requests" -> {[kind |-> k, count |-> 1, mean |-> 0] : k \in {"object", "number"}}
           [] OTHER               -> {[kind |-> "object", count |-> 1, mean |-> m] : m \in {1, 3}}

Entries == UNION {{[core |-> CoreKey(c), name |-> n, val |-> v] : v \in Vals(n)} :
                    c \in Cores, n \in Names}

Responses == {r \in UNION {kSubset(k, Entries) : k \in 0..MaxEntries} :
                \A e, f \in r : e.core = f.core /\ e.name = f.name => e = f}

Nil == <<>>

VARIABLES
    version,  \* the parser: 6 (v6Parser) or 7 (v7Parser)
    resp,     \* the response of the last collection
    parsed,   \* what parse returned: a function from keys to counts, or Nil
    status    \* "none", "ok", "err"

vars == <<version, resp, parsed, status>>

-----------------------------------------------------------------------------
\* strings.ToLower of a type.
Lower(t) == IF t = "QUERY" THEN "query" ELSE "update"

\* Mutant: the core key used as it is, without core[10:].
CoreNameUnsliced(key) == key

\* core[10:]: the registry name without "solr.core.".
CoreName(key) == key[2]

\* json.Unmarshal of raw into the struct the stat selects: requests and
\* totalTime into v.count, a {Count} object for v6 and an int64 for v7;
\* every other stat into an object.
Decodes(ver, stat, raw) ==
    IF stat = "requests" /\ ver = 7 THEN raw.kind = "number" ELSE raw.kind = "object"

\* Mutant: v.parsed[key] = n, the last metric of a key wins.
AssignKey(p, key, n) ==
    IF key \in DOMAIN p THEN [p EXCEPT ![key] = n] ELSE p @@ (key :> n)

\* v.parsed[key] += n.
Add(p, key, n) ==
    IF key \in DOMAIN p THEN [p EXCEPT ![key] = @ + n] ELSE p @@ (key :> n)

\* One iteration of parseCore's loop over the metrics of core, with the
\* accumulator [ok, p]; a decode error returns the error.
ParseMetric(ver, core, acc, e) ==
    LET n == e.name IN
    IF ~acc.ok \/ n = Malformed \/ n.handler = "updateHandler"
       \/ n.stat \notin {"errors", "requests", "requestTimes"}
    THEN acc
    ELSE IF ~Decodes(ver, n.stat, e.val) THEN [ok |-> FALSE, p |-> acc.p]
    ELSE LET key(suffix) == <<core, Lower(n.typ), n.stat, suffix>>
             p1 == Add(acc.p, key("count"), e.val.count)
         IN [ok |-> TRUE,
             p  |-> IF n.stat = "requestTimes" THEN Add(p1, key("mean_ms"), e.val.mean)
                    ELSE p1]

\* parse: for each core, in the order ords gives the cores and each core's
\* metrics, parseCore(core[10:], data); nil on the first error.
ParseResponse(ver, r, coreOrder, ords) ==
    LET acc == FoldLeft(LAMBDA a, ck :
                          FoldLeft(LAMBDA b, e : ParseMetric(ver, CoreName(ck), b, e),
                                   a, ords[ck]),
                        [ok |-> TRUE, p |-> <<>>], coreOrder)
    IN IF acc.ok THEN [status |-> "ok", parsed |-> acc.p]
                 ELSE [status |-> "err", parsed |-> Nil]

\* The cores of a response and the entries of one core.
CoreKeys(r) == {e.core : e \in r}
EntriesOf(r, ck) == {e \in r : e.core = ck}

-----------------------------------------------------------------------------
Init ==
    /\ version \in {6, 7}
    /\ resp = {}
    /\ parsed = Nil
    /\ status = "none"

\* A collection: the server answers r and parse runs over it, in any order
\* of Go's map iteration.
Parse ==
    /\ \E r \in Responses :
       \E coreOrder \in SetToSeqs(CoreKeys(r)) :
       \E ords \in [CoreKeys(r) -> UNION {SetToSeqs(EntriesOf(r, ck)) : ck \in CoreKeys(r)}] :
         /\ \A ck \in CoreKeys(r) : ords[ck] \in SetToSeqs(EntriesOf(r, ck))
         /\ LET res == ParseResponse(version, r, coreOrder, ords)
            IN /\ parsed' = res.parsed
               /\ status' = res.status
         /\ resp' = r
    /\ UNCHANGED version

Spec == Init /\ [][Parse]_vars

-----------------------------------------------------------------------------
Keys == Cores \X {"query", "update"} \X {"errors", "requests", "requestTimes"}
                \X {"count", "mean_ms"}

TypeOK ==
    /\ version \in {6, 7}
    /\ resp \in Responses
    /\ parsed = Nil \/ \E ks \in SUBSET Keys : parsed \in [ks -> Nat]
    /\ status \in {"none", "ok", "err"}

\* Reference: the metrics of a response that parse counts, and the key of
\* each.
Counted(r) == {e \in r : e.name # Malformed /\ e.name.handler # "updateHandler"}
CountKey(e) == <<CoreName(e.core), Lower(e.name.typ), e.name.stat, "count">>

\* A collection fails exactly when some counted metric carries JSON its
\* parser cannot decode; otherwise every count key holds the sum of the
\* counts of all handlers of that type and stat, whatever the map order,
\* and nothing of an earlier collection is left in the result.
ParsedAsSummed ==
    /\ status = "err" <=> (status # "none" /\
                           \E e \in Counted(resp) : ~Decodes(version, e.name.stat, e.val))
    /\ status = "ok" =>
         /\ {k \in DOMAIN parsed : k[4] = "count"} = {CountKey(e) : e \in Counted(resp)}
         /\ \A e \in Counted(resp) :
              parsed[CountKey(e)] =
                  MapThenSumSet(LAMBDA f : f.val.count,
                                {f \in Counted(resp) : CountKey(f) = CountKey(e)})
====
