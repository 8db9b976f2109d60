\* One process, one schedule that never changes, nothing fails.
SPECIFICATION FairSpec
CONSTANTS
    Apps = {a1}
    Names = {n1}
    Configs = {c1}
    None = None
    MaxDeaths = 0
PROPERTIES Recurs
CHECK_DEADLOCK FALSE
