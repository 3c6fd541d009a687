\* Two workers: checkouts, releases, webhooks and the job overlap.
CONSTANTS
    MaxCheckouts = 2
    MaxQty = 2
    Supply = 2
    Shoppers = {s1, s2}
    Admin = Admin
    Workers = {w1, w2}
    MaxFaults = 1
    None = None
SPECIFICATION MCSpec
INVARIANTS ReservedWithinStock DraftReachable
PROPERTIES LocksReleased
CHECK_DEADLOCK FALSE
