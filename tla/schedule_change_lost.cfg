\* One process started twice, the second time with a changed schedule.
SPECIFICATION Spec
CONSTANTS
    Apps = {a1}
    Names = {n1}
    Configs = {c1, c2}
    None = None
    MaxDeaths = 1
INVARIANTS ChangeTakesEffect
CHECK_DEADLOCK FALSE
