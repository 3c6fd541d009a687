\* Two groups that share the half; the price of one is changed while the edit of the other is interrupted.
CONSTANTS
    v1 = v1
    v2 = v2
    Nothing = Nothing
    NumGroups = 2
    NumItems = 2
    Share <- MCTwoGroups
    Variant <- MCVariant
    Known = {1}
    Full <- MCFull
    Deposit <- MCDeposit
    Estimate = 3
    Bought = {v1}
    GoodsPrice = 4
    Freight = 0
    Title <- MCTitle
    CatalogPrices = {4, 5}
    MaxPrice = 3
    MaxEdits = 5
    MaxFaults = 2
SPECIFICATION BillSpec
CHECK_DEADLOCK FALSE
INVARIANTS BillMatchesRows
