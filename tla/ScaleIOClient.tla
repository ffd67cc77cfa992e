---------------------------- MODULE ScaleIOClient ----------------------------
(***************************************************************************)
(* The session handling of the ScaleIO (VxFlex OS) gateway client,         *)
(* src/modules/scaleio/client/client.go, as used by the scaleio collector  *)
(* (src/modules/scaleio/scaleio.go): Check logs in, every collection does  *)
(* requests through doJSONWithRetry, Cleanup logs out.                     *)
(*                                                                         *)
(* A request carries the token that was current when it was created        *)
(* (req.Password = c.token.get()).  On 401 doOKWithRetry logs in again and *)
(* re-sends the same request.  The gateway accepts the tokens in live; a   *)
(* token leaves live on logout or when it expires (8 hours, or 10 minutes  *)
(* without activity).  Tokens are numbered in the order the gateway        *)
(* issues them; 0 is the empty token.  The gateway answers 401 to a token *)
(* it does not accept, else 200 or, as a fault, another status.  Network   *)
(* errors, failed logins, lost logouts, such statuses and expiries are     *)
(* faults, at most MaxFaults of them.                                      *)
(***************************************************************************)
EXTENDS Naturals

CONSTANTS
    MaxFaults,  \* bound on network errors, failed logins and expiries
    MaxLogins   \* bound on tokens the gateway issues

ASSUME MaxFaults \in Nat /\ MaxLogins \in Nat \ {0}

NoToken == 0

VARIABLES
    token,   \* c.token.value
    live,    \* the tokens the gateway accepts
    issued,  \* the number of tokens issued so far
    faults,  \* faults that have happened
    phase,   \* the collector: "init", "failed" (Init returned false),
             \* "check" (Check not yet passed), "collect", "stopped"
    last     \* how the last data request went

vars == <<token, live, issued, faults, phase, last>>

Results == {"none", "net", "ok", "401", "err"}

Outcome == [first : Results, login : {"none", "ok", "fail"}, retry : Results, ok : BOOLEAN]

NoRequest == [first |-> "none", login |-> "none", retry |-> "none", ok |-> FALSE]

Cost(b) == IF b THEN 1 ELSE 0

\* Statuses the gateway answers other than 200 and 401 (a redirect, a
\* server error): faults.
FaultCodes == {302, 500}

\* The gateway's answer to a request carrying password pw.
Answers(pw, lv) == IF pw \in lv THEN {200} \cup FaultCodes ELSE {401}

\* checkStatusCode: 4xx and 5xx are errors, and so is anything outside
\* 200..299.
CheckStatusCode(code) ==
    IF code >= 400 \/ code < 200 \/ code > 299 THEN "err" ELSE "ok"

\* How a response is recorded: 401 by itself, else by checkStatusCode.
Result(code) == IF code = 401 THEN "401" ELSE CheckStatusCode(code)

\* The requests of a collection: SelectedStatistics, Instances,
\* StoragePool and Sdc, each through doJSONWithRetry.
DataRequests == {"selectedStatistics", "instances", "storagePool", "sdc"}

\* createXRequest: a copy of the configured request with the path of the
\* call and req.Password = c.token.get().
NewRequest(tk) == [password |-> tk]

\* createLogoutRequest: built before c.token.unset, with the token then
\* current as its password.
CreateLogoutRequest(tk) == [password |-> tk]

-----------------------------------------------------------------------------
\* Client.Logout from token tk and gateway state lv: nothing when not logged
\* in; otherwise the token is unset first and the logout request, unless it
\* is lost, makes the gateway drop the token.
Logout(tk, lv, lost) ==
    IF tk = NoToken THEN [tk |-> tk, lv |-> lv]
    ELSE LET req == CreateLogoutRequest(tk)
         IN [tk |-> NoToken, lv |-> IF lost THEN lv ELSE lv \ {req.password}]

\* Mutant: the error of doOK ignored; the body of the refused login is
\* decoded and stored as a token the gateway never issued.
LoginNoErrCheck(tk, lv, n, lost, ok) ==
    LET lo == Logout(tk, lv, lost)
    IN IF ok THEN [tk |-> n + 1, lv |-> lo.lv \cup {n + 1}, n |-> n + 1]
             ELSE [tk |-> n + 1, lv |-> lo.lv, n |-> n]

\* Client.Login: log out when logged in (the error is ignored), then the
\* login request; on success the gateway issues token n + 1 and
\* c.token.set stores it, on failure the token stays as Logout left it.
Login(tk, lv, n, lost, ok) ==
    LET lo == Logout(tk, lv, lost)
    IN IF ok THEN [tk |-> n + 1, lv |-> lo.lv \cup {n + 1}, n |-> n + 1]
             ELSE [tk |-> lo.tk, lv |-> lo.lv, n |-> n]

-----------------------------------------------------------------------------
Init ==
    /\ token = NoToken
    /\ live = {}
    /\ issued = 0
    /\ faults = 0
    /\ phase = "init"
    /\ last = NoRequest

\* ScaleIO.Init: false when username or password is not set, or when
\* client.New fails (the HTTP client or the URL is invalid); else the
\* client, with an empty token, is stored.
ScaleIOInit ==
    /\ phase = "init"
    /\ \E credentials, clientOK \in BOOLEAN :
         phase' = IF credentials /\ clientOK THEN "check" ELSE "failed"
    /\ UNCHANGED <<token, live, issued, faults, last>>

\* ScaleIO.Check: Client.Login.  A failed Check is tried again by the job
\* driver (auto-detection retry).
Check ==
    /\ phase = "check"
    /\ \E lost, ok \in BOOLEAN :
         LET r == Login(token, live, issued, lost, ok)
         IN /\ ok => issued < MaxLogins
            /\ faults' = faults + Cost(lost /\ token # NoToken) + Cost(~ok)
            /\ faults' <= MaxFaults
            /\ token' = r.tk /\ live' = r.lv /\ issued' = r.n
            /\ phase' = IF ok THEN "collect" ELSE "check"
    /\ UNCHANGED last

\* Mutant: doOKWithRetry that gives up on 401 instead of logging in again.
DataRequestNoRelogin ==
    /\ phase = "collect"
    /\ \E kind \in DataRequests :
       LET req == NewRequest(token) IN
       \/ /\ faults < MaxFaults
          /\ faults' = faults + 1
          /\ last' = [NoRequest EXCEPT !.first = "net"]
          /\ UNCHANGED <<token, live, issued>>
       \/ \E code \in Answers(req.password, live) :
            /\ faults' = faults + Cost(code \in FaultCodes)
            /\ faults' <= MaxFaults
            /\ last' = [NoRequest EXCEPT !.first = Result(code), !.ok = (Result(code) = "ok")]
            /\ UNCHANGED <<token, live, issued>>
    /\ UNCHANGED phase

\* One request of a collection: doJSONWithRetry(createXRequest()).  The
\* request is built with the current token; do(req) may fail on the
\* network; a status other than 401 goes through checkStatusCode; a 401
\* leads to Login and, if that succeeds, to doOK of the same request,
\* still carrying the token it was built with.
DataRequest ==
    /\ phase = "collect"
    /\ \E kind \in DataRequests :
       LET req == NewRequest(token) IN
       \/ /\ faults < MaxFaults
          /\ faults' = faults + 1
          /\ last' = [NoRequest EXCEPT !.first = "net"]
          /\ UNCHANGED <<token, live, issued>>
       \/ \E code \in Answers(req.password, live) \ {401} :
            /\ faults' = faults + Cost(code \in FaultCodes)
            /\ faults' <= MaxFaults
            /\ last' = [NoRequest EXCEPT !.first = Result(code), !.ok = (Result(code) = "ok")]
            /\ UNCHANGED <<token, live, issued>>
       \/ /\ 401 \in Answers(req.password, live)
          /\ \E lost, ok, net \in BOOLEAN :
               LET r == Login(token, live, issued, lost, ok)
               IN \E code \in Answers(req.password, r.lv) :
                  LET retry == IF net THEN "net" ELSE Result(code)
                  IN /\ ok => issued < MaxLogins
                     /\ ~ok => ~net
                     /\ faults' = faults + Cost(lost /\ token # NoToken) + Cost(~ok)
                                  + Cost(net) + Cost(ok /\ ~net /\ code \in FaultCodes)
                     /\ faults' <= MaxFaults
                     /\ token' = r.tk /\ live' = r.lv /\ issued' = r.n
                     /\ last' = [first |-> "401", login |-> IF ok THEN "ok" ELSE "fail",
                                 retry |-> IF ok THEN retry ELSE "none",
                                 ok |-> ok /\ retry = "ok"]
    /\ UNCHANGED phase

\* ScaleIO.Cleanup: Client.Logout, unless Init never created the client
\* (then the token is empty and Logout does nothing); the job is over.
Cleanup ==
    /\ phase \in {"failed", "check", "collect"}
    /\ \E lost \in BOOLEAN :
         LET r == Logout(token, live, lost)
         IN /\ faults' = faults + Cost(lost /\ token # NoToken)
            /\ faults' <= MaxFaults
            /\ token' = r.tk /\ live' = r.lv
    /\ phase' = "stopped"
    /\ UNCHANGED <<issued, last>>

\* The gateway expires a session.
Expire ==
    /\ faults < MaxFaults
    /\ \E t \in live : live' = live \ {t}
    /\ faults' = faults + 1
    /\ UNCHANGED <<token, issued, phase, last>>

Next == ScaleIOInit \/ Check \/ DataRequest \/ Cleanup \/ Expire

\* The job calls Init, then Check until it passes, and then collects on
\* every tick; Cleanup and the gateway's expiries are not forced.
Spec == Init /\ [][Next]_vars
        /\ WF_vars(ScaleIOInit) /\ WF_vars(Check) /\ WF_vars(DataRequest)

-----------------------------------------------------------------------------
TypeOK ==
    /\ token \in 0..issued
    /\ live \subseteq 1..MaxLogins
    /\ issued \in 0..MaxLogins
    /\ faults \in 0..MaxFaults
    /\ phase \in {"init", "failed", "check", "collect", "stopped"}
    /\ last \in Outcome

\* Once the faults stop, a collector whose Init passed recovers: from some
\* point on every data request succeeds, however sessions expired, logins
\* failed and the gateway erred before (the 401 path must store a fresh
\* token).
EventuallyCollects == <>[](phase \in {"failed", "stopped"} \/ last.ok)

\* A request that got 401 and was followed by a successful re-login is
\* re-sent authorized: the gateway does not refuse the retry of
\* doOKWithRetry as unauthorized.
RetryAfterReloginSucceeds ==
    (last.first = "401" /\ last.login = "ok") => last.retry # "401"

====
