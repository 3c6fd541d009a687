----------------------------- MODULE MCBatches -----------------------------
(***************************************************************************)
(* An instance of BatchAllocation for TLC, from a variant without batches, *)
(* in one of two scenes.  "together": administrators create, resize, close,*)
(* cancel and reorder two batches while payments and cancellations run,    *)
(* two requests at once.  "in turn": every request there is, on three      *)
(* batches, each served to its end before the next.                        *)
(***************************************************************************)
EXTENDS BatchAlgorithms, BatchReorder, TLC

CONSTANTS l1, l2

VARIABLE scene

MCLineQty == [l \in Lines |-> IF l = l1 THEN 2 ELSE 1]

WorkerSymmetry == Permutations(Workers)

(* Bound: only two batches are created in the first scene.                  *)
TwoBatches == row'[3].status = "absent"

Payment(w) ==
    \/ \E l \in Lines : StartAllocate(w, l)
    \/ ReadLocks(w) \/ TakeSnapshot(w) \/ AllocateUnlimited(w) \/ AllocateAgain(w)
    \/ AllocateToBatch(w)

Together ==
    /\ scene = "together"
    /\ \/ \E w \in Workers : Admin(w) \/ Payment(w) \/ ReadLabel(w) \/ SyncLabel(w) \/ Abandon(w)
       \/ \E l \in Lines : ReleaseAllocations(l)
    /\ TwoBatches

Alone(w) == \A v \in Workers \ {w} : At(v, "idle")

(* One order is paid and cancelled while one shopper reserves and looks.     *)
InTurn ==
    /\ scene = "in turn"
    /\ \/ \E w \in Workers :
             /\ Alone(w)
             /\ \/ CreateBatch(w) \/ ReadLabel(w) \/ SyncLabel(w)
                \/ ReadLocks(w) \/ TakeSnapshot(w) \/ AllocateUnlimited(w) \/ AllocateAgain(w)
                \/ AllocateToBatch(w) \/ PreviewAllocation(w) \/ CreateBatchLocks(w)
                \/ StartAllocate(w, l1) \/ StartReserve(w, l2) \/ StartPreview(w, l2)
                \/ \E q \in 1 .. MaxQuota : StartCreate(w, q)
                \/ \E b \in Batches : CloseBatch(w, b) \/ CancelBatch(w, b)
                \/ \E b, to \in Batches : ReorderBatch(w, b, to)
       \/ ReleaseLocks(l2) \/ ReleaseAllocations(l1)

SceneInit == Init /\ scene \in {"together", "in turn"}
SceneNext == (Together \/ InTurn) /\ UNCHANGED scene
SceneSpec == SceneInit /\ [][SceneNext]_<<vars, scene>>
=============================================================================
