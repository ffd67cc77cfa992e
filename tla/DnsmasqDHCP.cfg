\* Leases files of up to three lines over three IPs and a junk line,
\* rewritten up to twice between collections.
CONSTANTS
    i1 = i1
    i2 = i2
    i3 = i3
    junk = junk
    IPs = {i1, i2, i3}
    Junk = junk
    Ranges <- MCRanges
    MaxLines = 3
    MaxWrites = 2
SPECIFICATION Spec
INVARIANT TypeOK
INVARIANT CollectedCharted
INVARIANT CountsPartitionLeases
