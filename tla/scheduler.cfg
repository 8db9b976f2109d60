\* Two processes, two schedules, two releases.
SPECIFICATION FairSpec
CONSTANTS
    Apps = {a1, a2}
    Names = {n1, n2}
    Configs = {c1, c2}
    None = None
    MaxDeaths = 1
INVARIANTS SchedulerTypeOK UpIsScheduled
PROPERTIES  EveryScheduleTreated
CHECK_DEADLOCK FALSE
