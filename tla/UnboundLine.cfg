\* Every trimmed non-comment line of up to six characters.
CONSTANTS
    k = k
    q = q
    K = k
    Q = q
    MaxLen = 6
SPECIFICATION Spec
INVARIANT ValueAsConfigured
\* One call of parseLine: the parsed states have no successor.
CHECK_DEADLOCK FALSE
