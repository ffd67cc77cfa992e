\* doOKWithRetry: a request that got 401 is re-sent after a successful
\* re-login.
CONSTANTS
    MaxFaults = 3
    MaxLogins = 6
SPECIFICATION Spec
INVARIANT RetryAfterReloginSucceeds
\* Cleanup ends the job: the stopped states have no successor.
CHECK_DEADLOCK FALSE
