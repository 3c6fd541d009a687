\* Two pre-order lines, two batches, one ship-ready line of two units; three fulfillments.
CONSTANTS
    a = a
    b = b
    r = r
    NoGroup = NoGroup
    Lines = {a, b}
    Ready = {r}
    Qty <- MCQty
    Weight <- MCWeight
    NumBatches = 2
    Sequence <- MCSequence
    ShipTogether = TRUE
    MaxCards = 3
    MaxBoxes = 2
SPECIFICATION TameSpec
CHECK_DEADLOCK FALSE
INVARIANTS OwnShown PackedWhole
