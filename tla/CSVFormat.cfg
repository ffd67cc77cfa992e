\* Every format of up to three entries over three names, with the default
\* check or any hook returning offsets 0 or 1.
CONSTANTS
    na = na
    nb = nb
    nx = nx
    Names = {na, nb, nx}
    Dollar = {na, nb}
    Offsets = {0, 1}
    MaxFormat = 3
    MaxRecord = 4
SPECIFICATION Spec
INVARIANT TypeOK
INVARIANT MatchedLinesInRange
INVARIANT FieldsAtTheirColumns
\* ReadLine stays enabled in "ready"; a parser that failed to be created
\* is never used again.
CHECK_DEADLOCK FALSE
