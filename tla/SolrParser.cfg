\* Responses of up to three metrics of one core, repeated collections, both
\* parser versions.
CONSTANTS
    c1 = c1
    h1 = h1
    h2 = h2
    bad = bad
    Cores = {c1}
    Handlers = {h1, h2}
    Malformed = bad
    MaxEntries = 3
SPECIFICATION Spec
INVARIANT TypeOK
INVARIANT ParsedAsSummed
