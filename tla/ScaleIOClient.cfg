\* Up to three faults (network errors, failed logins, lost logouts, session
\* expiries) and enough tokens for every login they can cause.
CONSTANTS
    MaxFaults = 3
    MaxLogins = 6
SPECIFICATION Spec
INVARIANT TypeOK
PROPERTY EventuallyCollects
\* Cleanup ends the job: the stopped states have no successor.
CHECK_DEADLOCK FALSE
