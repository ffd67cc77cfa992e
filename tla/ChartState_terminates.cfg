CONSTANTS
    j1 = j1
    j2 = j2
    c1 = c1
    c2 = c2
    k1 = k1
    k2 = k2
    Jobs <- MCJobs
    ChartOrder <- MCChartOrder
    Dims <- MCDims
    Keys <- MCKeys
    FirstPriority = 70000
    MaxCalls = 2
SPECIFICATION Spec
INVARIANT PopulateMetricsReturns
