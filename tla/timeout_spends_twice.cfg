\* One worker, one job that may time out, nothing else going wrong.
SPECIFICATION Spec
CONSTANTS
    Jobs = {j1}
    Workers = {w1}
    MaxRetries = 1
    StaleAfter = 3
    StartStaleAfter = 4
    MaxRequeues = 0
    MaxConcurrentJobs = 1
    MaxFaults = 0
    Faults = {"timeout"}
INVARIANTS FailedOnlyAfterRetries
CHECK_DEADLOCK FALSE
