\* One payment, delivered up to three times and two at once, a failure and a restart.
CONSTANTS
    Lines = {l1, l2}
    Events = {e1}
    Workers = {w1, w2}
    MaxTries = 3
    MaxFailures = 1
    MaxRestarts = 1
    None = None
SPECIFICATION Spec
INVARIANTS EffectsInOrder OneSettlement AckedIsDone CancelledGivesBack
CHECK_DEADLOCK FALSE
