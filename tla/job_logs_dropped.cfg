\* One execution whose flush fails.
SPECIFICATION Spec
CONSTANTS
    Jobs = {j1}
    Final = Final
    MaxRuns = 1
    MaxLogs = 1
    MaxFaults = 1
INVARIANTS PreservedForRetry
CHECK_DEADLOCK FALSE
