\* Spec 5: a job sent Shutdown leaves MainLoop. Collector calls succeed here.
CONSTANTS
    j1 = j1
    j2 = j2
    Jobs <- MCJobs
    UpdateEvery <- MCUpdateEvery
    AutoDetectionRetry <- MCAutoDetectionRetry
    MaxAttempts = 2
    ClockPeriod = 2
    InitOutcomes = {"ok"}
    CheckOutcomes = {"ok"}
    ChartsOutcomes = {"set"}
SPECIFICATION Spec
PROPERTY ShutdownStopsLoop
