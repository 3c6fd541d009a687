\* Two groups that share a line and a prepayment, an admin at a time, faults.
CONSTANTS
    l1 = l1
    l2 = l2
    NumGroups = 2
    Lines <- MCLines
    Holds <- MCHolds
    GoodsPrice <- MCGoods
    Pool = 2
    MaxPrice = 2
    MaxDrafts = 3
    Requests = {r1}
    MaxGlitches = 1
    NoDraft = NoDraft
SPECIFICATION FairSpec
INVARIANTS PrepaidInTurn BilledIsSaved
PROPERTIES LastGroupAdvances
CHECK_DEADLOCK FALSE
