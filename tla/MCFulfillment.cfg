\* A ship-ready line and a pre-order line whose units wait in two groups.
CONSTANTS
    g1 = g1
    g2 = g2
    desk = desk
    shelf = shelf
    Ready = {desk}
    Pre = {shelf}
    Groups = {g1, g2}
    UnitsIn <- MCUnits
    Qty <- MCQty
    Requests = {r1}
    MaxShips = 2
    MaxRecords = 2
    MaxFaults = 1
    MaxAsked = 3
    None = None
SPECIFICATION Spec
INVARIANTS OwnGoods RecordedOnce CompletedHasArrived ShipmentsRecorded
SYMMETRY GroupSymmetry
CHECK_DEADLOCK FALSE
