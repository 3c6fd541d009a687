\* Three groups of two items, a unit of the first bought at once, freight 1, shipping up to 3.
CONSTANTS
    v1 = v1
    v2 = v2
    Nothing = Nothing
    NumGroups = 3
    NumItems = 2
    Share <- MCShare
    Variant <- MCVariant
    Known = {1}
    Full <- MCFull
    Deposit <- MCDeposit
    Estimate = 3
    Bought = {v1}
    GoodsPrice = 4
    Freight = 1
    Title <- MCTitle
    CatalogPrices = {4, 5}
    MaxPrice = 3
    MaxEdits = 5
    MaxFaults = 2
SPECIFICATION OrderlySpec
CHECK_DEADLOCK FALSE
INVARIANTS PlanIsApplied BillMatchesRows OwnLines
