\* Two collections, each with every success or failure of the three tasks
\* and every interleaving of their goroutines.
CONSTANTS
    nodeStats = nodeStats
    clusterHealth = clusterHealth
    clusterStats = clusterStats
    TaskOrder <- MCTaskOrder
    MaxCollects = 2
SPECIFICATION Spec
INVARIANT TypeOK
INVARIANT ReturnedAfterAllTasks
INVARIANT BodiesClosed
PROPERTY CollectReturns
\* The caller stops after MaxCollects collections.
CHECK_DEADLOCK FALSE
