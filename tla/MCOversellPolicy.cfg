\* Three groups, two variants, one handler at a time, one fault.
CONSTANTS
    BilledGroups = {g1, g2, g3}
    Oversold = {v1, v2}
    Restorers = {p1}
    MaxFailures = 1
    Nil = Nil
SPECIFICATION OrderlyFairSpec
INVARIANTS ChosenKept
PROPERTIES ReleasedIsRestored
CHECK_DEADLOCK FALSE
