\* Two workers over one job, every kind of fault.
SPECIFICATION Spec
CONSTANTS
    Jobs = {j1}
    Workers = {w1, w2}
    MaxRetries = 1
    StaleAfter = 3
    StartStaleAfter = 4
    MaxRequeues = 2
    MaxConcurrentJobs = 1
    MaxFaults = 3
    Faults = {"crash", "shutdown", "timeout", "publish", "statement", "heartbeat"}
SYMMETRY WorkerSymmetry
INVARIANTS TypeOK AttemptBudget NoHeartbeatLeak
PROPERTIES HealthyNotRequeued ImplementsLifecycle
CHECK_DEADLOCK FALSE
