\* Two requests at once on two batches; one request at a time on three.
CONSTANTS
    MaxBatches = 3
    MaxQuota = 2
    l1 = l1
    l2 = l2
    Lines = {l1, l2}
    LineQty <- MCLineQty
    Workers = {w1, w2}
    None = None
SPECIFICATION SceneSpec
SYMMETRY WorkerSymmetry
INVARIANTS SoldMatchesAllocations PlanIsTheLoop ShownIsSold
PROPERTIES ImplementsBook ReorderIsTheSplice
CHECK_DEADLOCK FALSE
