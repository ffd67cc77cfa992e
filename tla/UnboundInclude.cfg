\* Every configuration of three files: the entry of at most two lines, the
\* others of one.
CONSTANTS
    f1 = f1
    f2 = f2
    f3 = f3
    missing = missing
    Files = {f1, f2, f3}
    Missing = missing
    Entry = f1
    MaxLines = 2
    MaxIncLines = 1
    MaxDepth = 4
    GlobOrder <- MCGlobOrder
SPECIFICATION Spec
INVARIANT TypeOK
INVARIANT ParsedAsIncluded
\* Parse returns (done or error) or the goroutine stack is exhausted; those
\* states end the computation.
CHECK_DEADLOCK FALSE
