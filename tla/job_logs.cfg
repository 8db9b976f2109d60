\* Two jobs, one of them executed again; entries of both, and two faults.
SPECIFICATION Spec
CONSTANTS
    Jobs = {j1, j2}
    Final = Final
    MaxRuns = 2
    MaxLogs = 1
    MaxFaults = 2
INVARIANTS LogsTypeOK StoredOnce Numbered
PROPERTIES LostOnlyByOwner
SYMMETRY Symmetry
CHECK_DEADLOCK FALSE
