\* Two requests at once; one at a time with re-pricing; one repeated until it is answered.
CONSTANTS
    g1 = g1
    shelf = shelf
    Groups = {g1, g2}
    Lines = {shelf}
    LineOf <- MCSharedLine
    Goods <- MCGoods
    MaxPrice = 2
    Requests = {r1, r2}
    Desk = r1
    Auditors = {a1, a2}
    MaxFaults = 2
    None = None
SPECIFICATION SceneSpec
INVARIANTS NoUnitTwice EditedOnce PaidWasCollected OneAwaiting SavedPriceIsBilled
PROPERTIES ClaimResolved
CHECK_DEADLOCK FALSE
