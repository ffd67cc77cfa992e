------------------------------- MODULE ESScrape -------------------------------
(***************************************************************************)
(* The concurrent scrape of the Elasticsearch collector,                   *)
(* src/modules/elasticsearch/collect.go.  collect calls                    *)
(* scrapeElasticsearch, which declares a fresh esMetrics, starts one       *)
(* goroutine per scrape task (local node stats, cluster health, cluster    *)
(* stats) after wg.Add(1), waits with wg.Wait and returns the struct; each *)
(* task does one HTTP request with doOKDecode and, on success, sets its   *)
(* own field of the struct; "defer wg.Done()" runs when the task returns, *)
(* on every path.  doOKDecode fails on a transport error (no response),   *)
(* on a status other than 200 and on a body that does not decode; once a  *)
(* response has come back, its deferred closeBody drains and closes the   *)
(* body on every path.  A task is split at the HTTP round trip, so the    *)
(* other goroutines can run while its body is open.                       *)
(*                                                                         *)
(* A collection is one pass of the caller; the three tasks are the         *)
(* elements of the sequence TaskOrder, in the order of the code's slice.   *)
(***************************************************************************)
EXTENDS Naturals, Sequences, FiniteSets

CONSTANTS
    TaskOrder,    \* the scrape functions in the order of the slice literal
    MaxCollects   \* bound on the collections

Tasks == {TaskOrder[i] : i \in DOMAIN TaskOrder}

\* What es.httpClient.Do returns to task t: an error (NoResp), or a
\* response with its status, whether its JSON decodes, and (for the local
\* node stats, the first task) whether it lists a node.
NoResp == [status |-> 0, decodes |-> FALSE, nodes |-> FALSE]

Responses(t) ==
    {NoResp, [status |-> 500, decodes |-> FALSE, nodes |-> FALSE]}
      \cup [status : {200}, decodes : BOOLEAN,
             nodes : IF t = TaskOrder[1] THEN BOOLEAN ELSE {TRUE}]

ASSUME Len(TaskOrder) = Cardinality(Tasks) /\ MaxCollects \in Nat \ {0}

VARIABLES
    main,      \* the collect goroutine: "idle", "spawning", "waiting"
    next,      \* the index of the next task to start in the for loop
    wg,        \* the WaitGroup counter
    task,      \* [Tasks -> {"none", "running", "responded", "returned", "done"}]
    got,       \* [Tasks -> response]: what the task's request returned
    body,      \* [Tasks -> {"none", "open", "closed"}]: its response body
    mx,        \* the fields of this collection's esMetrics that are set
    last,      \* the fields set in the struct the last collect returned
    lastDone,  \* the tasks that had run wg.Done when it was returned
    collects   \* collections started

vars == <<main, next, wg, task, got, body, mx, last, lastDone, collects>>

-----------------------------------------------------------------------------
Init ==
    /\ main = "idle"
    /\ next = 1
    /\ wg = 0
    /\ task = [t \in Tasks |-> "none"]
    /\ got = [t \in Tasks |-> NoResp]
    /\ body = [t \in Tasks |-> "none"]
    /\ mx = {}
    /\ last = {}
    /\ lastDone = Tasks
    /\ collects = 0

\* Elasticsearch.collect is called: "var mx esMetrics", a new WaitGroup.
StartCollect ==
    /\ main = "idle"
    /\ collects < MaxCollects
    /\ main' = "spawning"
    /\ next' = 1
    /\ wg' = 0
    /\ task' = [t \in Tasks |-> "none"]
    /\ got' = [t \in Tasks |-> NoResp]
    /\ body' = [t \in Tasks |-> "none"]
    /\ mx' = {}
    /\ collects' = collects + 1
    /\ UNCHANGED <<last, lastDone>>

\* Mutant: the goroutine started without wg.Add(1).
SpawnNoAdd ==
    /\ main = "spawning"
    /\ next <= Len(TaskOrder)
    /\ task' = [task EXCEPT ![TaskOrder[next]] = "running"]
    /\ next' = next + 1
    /\ main' = IF next = Len(TaskOrder) THEN "waiting" ELSE "spawning"
    /\ UNCHANGED <<wg, got, body, mx, last, lastDone, collects>>

\* One iteration of the for loop: wg.Add(1), then "go func() {...}()".
Spawn ==
    /\ main = "spawning"
    /\ next <= Len(TaskOrder)
    /\ wg' = wg + 1
    /\ task' = [task EXCEPT ![TaskOrder[next]] = "running"]
    /\ next' = next + 1
    /\ main' = IF next = Len(TaskOrder) THEN "waiting" ELSE "spawning"
    /\ UNCHANGED <<got, body, mx, last, lastDone, collects>>

\* The task builds its request (NewHTTPRequest, its URL path) and
\* doOKDecode sends it: httpClient.Do returns an error or a response.
Request(t) ==
    /\ task[t] = "running"
    /\ \E r \in Responses(t) :
         /\ got' = [got EXCEPT ![t] = r]
         /\ body' = [body EXCEPT ![t] = IF r = NoResp THEN "none" ELSE "open"]
    /\ task' = [task EXCEPT ![t] = "responded"]
    /\ UNCHANGED <<main, next, wg, mx, last, lastDone, collects>>

\* closeBody: drain and close a body that is there.
CloseBody(b) == IF b = "open" THEN "closed" ELSE b

\* Mutant: "defer closeBody(resp)" placed after the status check, so a
\* response with a bad status is returned with its body open.
CloseAfterStatus(r, b) == IF r.status = 200 THEN CloseBody(b) ELSE b

\* The body after doOKDecode returns: no response, nothing to close;
\* otherwise the deferred closeBody runs on every return path.
BodyAfterDecode(r, b) == IF r = NoResp THEN b ELSE CloseBody(b)

\* doOKDecode returns nil: a response, status 200, a body that decodes.
DecodeOK(r) == r # NoResp /\ r.status = 200 /\ r.decodes

\* The rest of the task: on an error it logs and returns; on success it
\* stores its result in its own field of mx (scrapeLocalNodeStats only
\* when the response lists a node).
Handle(t) ==
    /\ task[t] = "responded"
    /\ mx' = IF DecodeOK(got[t]) /\ got[t].nodes THEN mx \cup {t} ELSE mx
    /\ body' = [body EXCEPT ![t] = BodyAfterDecode(got[t], @)]
    /\ task' = [task EXCEPT ![t] = "returned"]
    /\ UNCHANGED <<main, next, wg, got, last, lastDone, collects>>

\* Mutant: wg.Done() called at the end of the success path only, instead
\* of deferred.
DoneOnSuccess(t) ==
    /\ task[t] = "returned"
    /\ t \in mx
    /\ wg' = wg - 1
    /\ task' = [task EXCEPT ![t] = "done"]
    /\ UNCHANGED <<main, next, got, body, mx, last, lastDone, collects>>

\* The deferred wg.Done() as the goroutine's function returns.
Done(t) ==
    /\ task[t] = "returned"
    /\ wg' = wg - 1
    /\ task' = [task EXCEPT ![t] = "done"]
    /\ UNCHANGED <<main, next, got, body, mx, last, lastDone, collects>>

\* Mutant: collect returns &mx without wg.Wait().
ReturnWithoutWait ==
    /\ main = "waiting"
    /\ main' = "idle"
    /\ last' = mx
    /\ lastDone' = {t \in Tasks : task[t] = "done"}
    /\ UNCHANGED <<next, wg, task, got, body, mx, collects>>

\* wg.Wait() returns once the counter is zero; collect returns &mx
\* (stm.ToMap reads it).
Wait ==
    /\ main = "waiting"
    /\ wg = 0
    /\ main' = "idle"
    /\ last' = mx
    /\ lastDone' = {t \in Tasks : task[t] = "done"}
    /\ UNCHANGED <<next, wg, task, got, body, mx, collects>>

Next ==
    \/ StartCollect \/ Spawn \/ Wait
    \/ \E t \in Tasks : Request(t) \/ Handle(t) \/ Done(t)

\* The Go scheduler runs every runnable goroutine; the caller collects on
\* every tick; each HTTP request is assumed to return (response or error).
Spec == Init /\ [][Next]_vars /\ WF_vars(Next)

-----------------------------------------------------------------------------
TypeOK ==
    /\ main \in {"idle", "spawning", "waiting"}
    /\ next \in 1..Len(TaskOrder) + 1
    /\ wg \in 0..Len(TaskOrder)
    /\ task \in [Tasks -> {"none", "running", "responded", "returned", "done"}]
    /\ \A t \in Tasks : got[t] \in Responses(t)
    /\ body \in [Tasks -> {"none", "open", "closed"}]
    /\ mx \subseteq Tasks /\ last \subseteq Tasks /\ lastDone \subseteq Tasks
    /\ collects \in 0..MaxCollects

\* wg.Wait joins every scrape: the struct collect returns is read only
\* after every task goroutine of that collection has finished, so no task
\* writes a field while stm.ToMap reads it.
ReturnedAfterAllTasks == lastDone = Tasks

\* Every collection returns, whichever requests fail: wg.Done runs on the
\* error path too, so wg.Wait never waits forever.
CollectReturns == [](main = "waiting" ~> main = "idle")

\* No connection is leaked: once a scrape task has returned, whatever its
\* request gave (a bad status, JSON that does not decode, a node stats
\* answer with no node), the response body it received has been drained
\* and closed, so the transport can reuse the connection.
BodiesClosed == \A t \in Tasks : task[t] \in {"returned", "done"} => body[t] # "open"
====
