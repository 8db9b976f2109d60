\* Two workers over two jobs, a slot for each, crashes only.
SPECIFICATION Spec
CONSTANTS
    Jobs = {j1, j2}
    Workers = {w1, w2}
    MaxRetries = 1
    StaleAfter = 3
    StartStaleAfter = 4
    MaxRequeues = 1
    MaxConcurrentJobs = 2
    MaxFaults = 1
    Faults = {"crash"}
SYMMETRY Symmetry
INVARIANTS FailedOnlyAfterRetries
PROPERTIES ImplementsStrictLifecycle
CHECK_DEADLOCK FALSE
