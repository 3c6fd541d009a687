---------------------- MODULE BatchesAndBillsProofs ------------------------
(***************************************************************************)
(* Proofs about two components.  BatchAllocation, for every number of      *)
(* batches, quotas, order lines, quantities and workers: the inductive     *)
(* invariant and what follows from it, then the queue of the batches, the  *)
(* surgery of a reorder (BatchReorder), the loop of a sale and what the    *)
(* shop shows of it (BatchAlgorithms).                                     *)
(* BalanceBill, in its orderly runs, for every order, shares of the groups,*)
(* prices, titles that tell the groups apart, edits and faults: Shopify    *)
(* charges what was planned, the order amounts to what the rows say, and   *)
(* the lines of a group are its own.  All three rest on BillInv, which says*)
(* line by line what the order holds for which group.                      *)
(***************************************************************************)
EXTENDS BatchAlgorithms, BatchReorder, BalanceBill, TotalsProofs, SequenceTheorems

----------------------------------------------------------------------------
(* What a request carries while it is at a step that uses it.               *)
Sound(r) ==
    /\ r \in Request
    /\ r.step \in {"insert", "write"} => r.quota > 0
    /\ r.step = "write" => r.batch \in Batches
    /\ r.step \in {"readLocks", "snapshot", "execute", "reserve"} => r.line \in Lines

SoundRequests == req \in [Workers -> {r \in Request : Sound(r)}]

SoundRows == row \in [Batches -> [status: Statuses, quota: Nat, sold: Nat, seq: Nat]]

SoundBooks ==
    /\ alloc \in [Lines -> [Batches -> Nat]]
    /\ held \in [Lines -> [Batches -> Nat]]
    /\ label \in Batches \cup {None}

(* A row that was never inserted has sold nothing.                          *)
AbsentSoldNothing == \A b \in Batches : row[b].status = "absent" => row[b].sold = 0

TypeInv == SoundRows /\ SoundBooks /\ SoundRequests

(* A finished step leaves sound requests when the request it becomes is.    *)
LEMMA BecomeSound ==
    ASSUME SoundRequests, NEW w \in Workers, NEW r \in Request, Sound(r), Become(w, r)
    PROVE  SoundRequests'
  BY DEF SoundRequests, Become, Sound, Request

LEMMA IdleSound == Zero \in [Batches -> Nat] /\ Idle \in Request /\ Sound(Idle)
  BY DEF Idle, Request, Sound, Zero, Steps

LEMMA FinishSound ==
    ASSUME SoundRequests, NEW w \in Workers, Finish(w)
    PROVE  SoundRequests'
  BY IdleSound, BecomeSound DEF Finish

LEMMA LabelSound ==
    ASSUME SoundRequests, NEW w \in Workers, NEW b \in Batches \cup {None}, ThenLabel(w, b)
    PROVE  SoundRequests'
<1>1. [Idle EXCEPT !.step = "label", !.batch = b] \in Request
  BY IdleSound DEF Request, Idle, Steps
<1>2. Sound([Idle EXCEPT !.step = "label", !.batch = b])
  BY <1>1 DEF Sound, Idle
<1> QED
  BY <1>1, <1>2, BecomeSound DEF ThenLabel

LEMMA RelabelSound ==
    ASSUME SoundRequests, NEW w \in Workers, ThenRelabel(w)
    PROVE  SoundRequests'
<1>1. [Idle EXCEPT !.step = "relabel"] \in Request
  BY IdleSound DEF Request, Idle, Steps
<1>2. Sound([Idle EXCEPT !.step = "relabel"])
  BY <1>1 DEF Sound, Idle
<1> QED
  BY <1>1, <1>2, BecomeSound DEF ThenRelabel

(* What a worker at a step carries.                                         *)
LEMMA RequestAt ==
    ASSUME SoundRequests, NEW w \in Workers
    PROVE  req[w] \in Request /\ Sound(req[w])
  BY DEF SoundRequests

LEMMA ActiveBatchType == ASSUME NEW rows PROVE ActiveBatch(rows) \in Batches \cup {None}
  BY DEF ActiveBatch, ActiveIn

LEMMA SnapshotType == ASSUME SoundRows PROVE Snapshot \in [Batches -> Nat]
  BY DEF SoundRows, Snapshot

LEMMA FreeType ==
    ASSUME SoundRows, SoundRequests, NEW w \in Workers, NEW b \in Batches
    PROVE  /\ Free(w, b) \in Nat
           /\ Free(w, b) > 0 => b \in OpenBatches /\ row[b].sold + Free(w, b) <= row[b].quota
<1>1. row[b].quota \in Nat /\ row[b].sold \in Nat
  BY DEF SoundRows
<1>2. req[w].locked[b] \in Nat
  BY RequestAt DEF Request
<1> QED
  BY <1>1, <1>2 DEF Free, Remaining, Slice

(* The place of a row is a positive number, before and after a move.        *)
LEMMA MovedType ==
    ASSUME NEW a \in Batches, NEW b \in Batches, NEW to \in Batches
    PROVE  Moved(b, to)[a] \in Nat
<1>1. \A c \in Batches : Place(c) \in Nat /\ Place(c) >= 1
  <2> TAKE c \in Batches
  <2>1. IsFiniteSet(Batches)
    BY BoundsAssumption, FS_Interval DEF Batches
  <2>2. {d \in Existing : Ahead(d, c)} \in SUBSET Batches
    BY DEF Existing
  <2>3. Cardinality({d \in Existing : Ahead(d, c)}) \in Nat
    BY <2>1, <2>2, FS_Subset, FS_CardinalityType
  <2> QED
    BY <2>3 DEF Place
<1>2. Place(a) \in Nat /\ Place(a) >= 1 /\ Place(b) \in Nat /\ Place(b) >= 1 /\ to \in Nat
  BY <1>1 DEF Batches
<1> QED
  BY <1>2 DEF Moved

THEOREM TypeInvInit == Init => TypeInv
<1> SUFFICES ASSUME Init PROVE TypeInv
  OBVIOUS
<1>1. SoundRows
  BY DEF Init, SoundRows, Statuses
<1>2. SoundBooks
  BY IdleSound DEF Init, SoundBooks
<1>3. SoundRequests
  BY IdleSound DEF Init, SoundRequests
<1> QED
  BY <1>1, <1>2, <1>3 DEF TypeInv

(* Every administrator's step keeps the types.                              *)
LEMMA AdminType ==
    ASSUME TypeInv, NEW w \in Workers, Admin(w)
    PROVE  TypeInv'
<1> USE DEF TypeInv
<1>1. ASSUME NEW q \in 1 .. MaxQuota, StartCreate(w, q) PROVE TypeInv'
  <2>1. q \in Nat /\ q > 0
    BY BoundsAssumption
  <2> DEFINE r == [Idle EXCEPT !.step = "insert", !.quota = q, !.rank = Snapshot]
  <2>2. r \in Request
    BY <2>1, IdleSound, SnapshotType DEF Request, Idle, Steps
  <2>3. Sound(r)
    BY <2>1, <2>2 DEF Sound, Idle
  <2> QED
    BY <1>1, <2>2, <2>3, BecomeSound DEF StartCreate, SoundRows, SoundBooks
<1>2. CASE CreateBatch(w)
  <2>1. req[w].quota \in Nat
    BY RequestAt DEF Request
  <2>2. \A n \in Nat : /\ NewRow(w, "active", n) \in [status: Statuses, quota: Nat, sold: Nat, seq: Nat]
                       /\ NewRow(w, "queued", n) \in [status: Statuses, quota: Nat, sold: Nat, seq: Nat]
    BY <2>1 DEF NewRow, Statuses, Open
  <2>3. SoundRows' /\ SoundRequests'
    <3>1. PICK b \in Batches :
             \/ /\ row' = [row EXCEPT ![b] = NewRow(w, "active", 1)]
                /\ ThenLabel(w, b)
             \/ \E last \in Slice(w) :
                /\ row' = [row EXCEPT ![b] = NewRow(w, "queued", row[last].seq + 1)]
                /\ Finish(w)
      BY <1>2 DEF CreateBatch
    <3>2. \A last \in Slice(w) : row[last].seq + 1 \in Nat
      BY DEF SoundRows, Slice, OpenBatches
    <3> QED
      BY <2>2, <3>1, <3>2, LabelSound, FinishSound DEF SoundRows
  <2> QED
    BY <1>2, <2>3 DEF CreateBatch, SoundBooks
<1>3. ASSUME NEW b \in Batches, NEW q \in 1 .. MaxQuota, StartUpdate(w, b, q) PROVE TypeInv'
  <2>1. q \in Nat /\ q > 0
    BY BoundsAssumption
  <2> DEFINE r == [Idle EXCEPT !.step = "write", !.batch = b, !.quota = q]
  <2>2. r \in Request
    BY <2>1, IdleSound DEF Request, Idle, Steps
  <2>3. Sound(r)
    BY <2>1, <2>2 DEF Sound, Idle
  <2> QED
    BY <1>3, <2>2, <2>3, BecomeSound DEF StartUpdate, SoundRows, SoundBooks
<1>4. CASE UpdateBatch(w)
  <2>1. req[w].quota \in Nat
    BY RequestAt DEF Request
  <2> QED
    BY <1>4, <2>1, FinishSound DEF UpdateBatch, SoundRows, SoundBooks
<1>5. ASSUME NEW b \in Batches, CloseBatch(w, b) PROVE TypeInv'
  <2>1. SoundRequests'
    BY <1>5, ActiveBatchType, LabelSound DEF CloseBatch
  <2>2. SoundRows'
    BY <1>5 DEF CloseBatch, SoundRows, Statuses, Open
  <2> QED
    BY <1>5, <2>1, <2>2 DEF CloseBatch, SoundBooks
<1>6. ASSUME NEW b \in Batches, CancelBatch(w, b) PROVE TypeInv'
  BY <1>6, RelabelSound DEF CancelBatch, SoundRows, SoundBooks, Statuses
<1>7. ASSUME NEW b \in Batches, NEW to \in Batches, ReorderBatch(w, b, to) PROVE TypeInv'
  <2> DEFINE place == Moved(b, to)
             first(a) == \A c \in OpenBatches : place[a] <= place[c]
             st(a) == IF a \notin OpenBatches THEN row[a].status
                      ELSE IF first(a) THEN "active" ELSE "queued"
             sq(a) == IF to = Place(b) THEN row[a].seq ELSE place[a]
  <2>1. \A a \in Batches : sq(a) \in Nat /\ st(a) \in Statuses
    BY MovedType DEF SoundRows, Statuses, Open
  <2>2. row' = [a \in Batches |-> IF a \notin Existing THEN row[a]
                                  ELSE [row[a] EXCEPT !.seq = sq(a), !.status = st(a)]]
    BY <1>7 DEF ReorderBatch
  <2> HIDE DEF st, sq
  <2>3. SoundRows'
    BY <2>1, <2>2 DEF SoundRows
  <2> QED
    BY <1>7, <2>3, RelabelSound DEF ReorderBatch, SoundBooks
<1>8. CASE StartCancelOpen(w)
  <2> DEFINE r == [Idle EXCEPT !.step = "cancelOpen", !.rank = Snapshot]
  <2>1. r \in Request
    BY IdleSound, SnapshotType DEF Request, Idle, Steps
  <2>2. Sound(r)
    BY <2>1 DEF Sound, Idle
  <2> QED
    BY <1>8, <2>1, <2>2, BecomeSound DEF StartCancelOpen, SoundRows, SoundBooks
<1>9. CASE CancelOpenBatches(w)
  BY <1>9, LabelSound DEF CancelOpenBatches, SoundRows, SoundBooks, Statuses
<1> QED
  BY <1>1, <1>2, <1>3, <1>4, <1>5, <1>6, <1>7, <1>8, <1>9 DEF Admin

(* A preview keeps the counters, and an open row open.                      *)
LEMMA PreviewRow ==
    ASSUME SoundRows, NEW w \in Workers, PreviewAllocation(w)
    PROVE  /\ SoundRows'
           /\ \A b \in Batches :
                 /\ row'[b].sold = row[b].sold /\ row'[b].quota = row[b].quota
                 /\ \/ row'[b].status = row[b].status
                    \/ row'[b].status \in Open /\ row[b].status \in Open
<1>1. NextUp(w) \subseteq OpenBatches
  BY DEF NextUp, Slice
<1>2. row' = [b \in Batches |-> IF b \in NextUp(w) THEN [row[b] EXCEPT !.status = "active"]
                                                  ELSE row[b]]
  BY DEF PreviewAllocation
<1>3. ASSUME NEW b \in Batches
      PROVE  /\ row'[b] \in [status: Statuses, quota: Nat, sold: Nat, seq: Nat]
             /\ row'[b].sold = row[b].sold /\ row'[b].quota = row[b].quota
             /\ \/ row'[b].status = row[b].status
                \/ row'[b].status \in Open /\ row[b].status \in Open
  <2>1. row[b] \in [status: Statuses, quota: Nat, sold: Nat, seq: Nat]
    BY DEF SoundRows
  <2>2. "active" \in Open /\ "active" \in Statuses
    BY DEF Statuses, Open
  <2>3. CASE b \in NextUp(w)
    <3>1. row'[b] = [row[b] EXCEPT !.status = "active"]
      BY <1>2, <2>3
    <3>2. row[b].status \in Open
      BY <1>1, <2>3 DEF OpenBatches
    <3> QED
      BY <2>1, <2>2, <3>1, <3>2
  <2>4. CASE b \notin NextUp(w)
    <3>1. row'[b] = row[b]
      BY <1>2, <2>4
    <3> QED
      BY <2>1, <3>1
  <2> QED
    BY <2>3, <2>4
<1> QED
  BY <1>2, <1>3 DEF SoundRows

(* Every shopper's or webhook's step keeps the types.                       *)
LEMMA AllocationType ==
    ASSUME TypeInv, NEW w \in Workers, Allocation(w)
    PROVE  TypeInv'
<1> USE DEF TypeInv
<1>1. ASSUME NEW l \in Lines, StartAllocate(w, l) PROVE TypeInv'
  <2> DEFINE r == [Idle EXCEPT !.step = "readLocks", !.line = l, !.commit = TRUE,
                               !.rank = Snapshot]
  <2>1. r \in Request
    BY IdleSound, SnapshotType DEF Request, Idle, Steps
  <2>2. Sound(r)
    BY <2>1 DEF Sound, Idle
  <2>3. SoundRequests'
    BY <1>1, <2>1, <2>2, BecomeSound DEF StartAllocate
  <2> QED
    BY <1>1, <2>3, IdleSound DEF StartAllocate, SoundRows, SoundBooks
<1>2. ASSUME NEW l \in Lines, StartReserve(w, l) PROVE TypeInv'
  <2> DEFINE seen == [b \in Batches |-> IF b \in OpenBatches THEN Remaining(b) ELSE 0]
             r == [Idle EXCEPT !.step = "readLocks", !.line = l, !.rank = Snapshot,
                               !.seen = seen]
  <2>1. seen \in [Batches -> Nat]
    BY DEF SoundRows, Remaining
  <2> HIDE DEF seen
  <2>2. r \in Request
    BY <2>1, IdleSound, SnapshotType DEF Request, Idle, Steps
  <2>3. Sound(r)
    BY <2>2 DEF Sound, Idle
  <2>4. Finish(w) \/ Become(w, r)
    BY <1>2 DEF StartReserve, seen
  <2>5. SoundRequests'
    BY <2>2, <2>3, <2>4, FinishSound, BecomeSound
  <2> QED
    BY <1>2, <2>5, IdleSound DEF StartReserve, SoundRows, SoundBooks
<1>3. CASE ReadLocks(w)
  <2> DEFINE others == IF req[w].commit THEN Lines ELSE Lines \ {req[w].line}
             locked == [b \in Batches |-> IF req[w].rank[b] > 0 THEN LockedBy(others, b) ELSE 0]
             r == [req[w] EXCEPT !.step = "snapshot", !.rank = Zero, !.locked = locked]
  <2>1. \A b \in Batches : LockedBy(others, b) \in Nat
    <3> TAKE b \in Batches
    <3>1. others \in SUBSET Lines
      OBVIOUS
    <3>2. IsFiniteSet(others)
      BY <3>1, LinesAssumption, FS_Subset
    <3>3. \A l \in others : [k \in Lines |-> held[k][b]][l] \in Nat
      BY <3>1 DEF SoundBooks
    <3> HIDE DEF others
    <3> QED
      BY <3>2, <3>3, TotalType DEF LockedBy
  <2>2. locked \in [Batches -> Nat]
    BY <2>1
  <2>3. req[w] \in Request /\ Sound(req[w]) /\ req[w].step = "readLocks"
    BY <1>3, RequestAt DEF ReadLocks, At
  <2>4. Become(w, r)
    BY <1>3 DEF ReadLocks
  <2> HIDE DEF locked
  <2>5. r \in Request
    BY <2>2, <2>3, IdleSound DEF Request, Steps
  <2>6. Sound(r)
    BY <2>3, <2>5 DEF Sound, Request
  <2> QED
    BY <1>3, <2>4, <2>5, <2>6, BecomeSound DEF ReadLocks, SoundRows, SoundBooks
<1>4. CASE TakeSnapshot(w)
  <2> DEFINE r == [req[w] EXCEPT !.step = "execute", !.rank = Snapshot]
  <2>1. req[w] \in Request /\ Sound(req[w]) /\ req[w].step = "snapshot"
    BY <1>4, RequestAt DEF TakeSnapshot, At
  <2>2. r \in Request
    BY <2>1, SnapshotType DEF Request, Steps
  <2>3. Sound(r)
    BY <2>1, <2>2 DEF Sound, Request
  <2> QED
    BY <1>4, <2>2, <2>3, BecomeSound DEF TakeSnapshot, SoundRows, SoundBooks
<1>5. CASE AllocateUnlimited(w)
  BY <1>5, FinishSound DEF AllocateUnlimited, SoundRows, SoundBooks
<1>6. CASE AllocateAgain(w)
  BY <1>6, ActiveBatchType, LabelSound DEF AllocateAgain, SoundRows, SoundBooks
<1>7. CASE AllocateToBatch(w)
  <2>1. req[w].line \in Lines /\ Qty(w) \in Nat
    BY <1>7, RequestAt, LinesAssumption DEF AllocateToBatch, At, Sound, Qty
  <2>2. PICK take \in [Batches -> 0 .. Qty(w)] :
           /\ row' = Settled(w, take)
           /\ alloc' = [alloc EXCEPT ![req[w].line] = take]
           /\ ThenLabel(w, IF Successor(w, take) = {} THEN None
                           ELSE CHOOSE b \in Successor(w, take) : TRUE)
    BY <1>7 DEF AllocateToBatch
  <2>3. take \in [Batches -> Nat]
    BY <2>1
  <2>4. SoundRows'
    <3> DEFINE st(b) == IF b \in Spent(w, take) THEN "closed"
                        ELSE IF b \in Successor(w, take) THEN "active" ELSE row[b].status
    <3>1. \A b \in Batches : st(b) \in Statuses /\ row[b].sold + take[b] \in Nat
      BY <2>3 DEF SoundRows, Statuses, Open
    <3>2. row' = [b \in Batches |-> [row[b] EXCEPT !.sold = row[b].sold + take[b],
                                                   !.status = st(b)]]
      BY <2>2 DEF Settled
    <3> HIDE DEF st
    <3> QED
      BY <3>1, <3>2 DEF SoundRows
  <2>5. (IF Successor(w, take) = {} THEN None ELSE CHOOSE b \in Successor(w, take) : TRUE)
           \in Batches \cup {None}
    BY DEF Successor, Slice, OpenBatches
  <2>6. SoundRequests'
    BY <2>2, <2>5, LabelSound
  <2> QED
    BY <1>7, <2>1, <2>2, <2>3, <2>4, <2>6 DEF AllocateToBatch, SoundBooks
<1>8. CASE PreviewAllocation(w)
  <2>1. req[w].line \in Lines /\ Qty(w) \in Nat
    BY <1>8, RequestAt, LinesAssumption DEF PreviewAllocation, At, Sound, Qty
  <2>2. PICK take \in [Batches -> 0 .. Qty(w)] :
           \/ Become(w, [Idle EXCEPT !.step = "reserve", !.line = req[w].line, !.take = take])
           \/ Finish(w)
    BY <1>8 DEF PreviewAllocation
  <2> DEFINE r == [Idle EXCEPT !.step = "reserve", !.line = req[w].line, !.take = take]
  <2>3. take \in [Batches -> Nat]
    BY <2>1
  <2>4. r \in Request
    BY <2>1, <2>3, IdleSound DEF Request, Idle, Steps
  <2>5. Sound(r)
    BY <2>1, <2>4 DEF Sound, Idle
  <2>6. SoundRequests'
    BY <2>2, <2>4, <2>5, BecomeSound, FinishSound
  <2> QED
    BY <1>8, <2>6, PreviewRow DEF SoundBooks, PreviewAllocation
<1>9. CASE CreateBatchLocks(w)
  <2> DEFINE sum == [b \in Batches |-> held[req[w].line][b] + req[w].take[b]]
  <2>1. req[w].take \in [Batches -> Nat] /\ req[w].line \in Lines
    BY <1>9, RequestAt DEF Request, Sound, CreateBatchLocks, At
  <2>2. held[req[w].line] \in [Batches -> Nat]
    BY <2>1 DEF SoundBooks
  <2>3. sum \in [Batches -> Nat]
    BY <2>1, <2>2
  <2>4. held' = [held EXCEPT ![req[w].line] = sum]
    BY <1>9 DEF CreateBatchLocks
  <2>5. SoundRequests'
    BY <1>9, FinishSound DEF CreateBatchLocks
  <2> HIDE DEF sum
  <2>6. SoundBooks'
    BY <1>9, <2>3, <2>4 DEF CreateBatchLocks, SoundBooks
  <2> QED
    BY <1>9, <2>5, <2>6 DEF CreateBatchLocks, SoundRows
<1>10. ASSUME NEW l \in Lines, StartPreview(w, l) PROVE TypeInv'
  <2> DEFINE r == [Idle EXCEPT !.step = "readLocks", !.line = l, !.rank = Snapshot]
  <2>1. r \in Request
    BY IdleSound, SnapshotType DEF Request, Idle, Steps
  <2>2. Sound(r)
    BY <2>1 DEF Sound, Idle
  <2> QED
    BY <1>10, <2>1, <2>2, BecomeSound DEF StartPreview, SoundRows, SoundBooks
<1> QED
  BY <1>1, <1>2, <1>3, <1>4, <1>5, <1>6, <1>7, <1>8, <1>9, <1>10 DEF Allocation

LEMMA TypeInvStep == TypeInv /\ [Next]_vars => TypeInv'
<1> SUFFICES ASSUME TypeInv, [Next]_vars PROVE TypeInv'
  OBVIOUS
<1> USE DEF TypeInv
<1>1. ASSUME NEW w \in Workers, ReadLabel(w) PROVE TypeInv'
  BY <1>1, ActiveBatchType, LabelSound DEF ReadLabel, SoundRows, SoundBooks
<1>2. ASSUME NEW w \in Workers, SyncLabel(w) PROVE TypeInv'
  <2>1. req[w].batch \in Batches \cup {None}
    BY RequestAt DEF Request
  <2> QED
    BY <1>2, <2>1, FinishSound DEF SyncLabel, SoundRows, SoundBooks
<1>3. ASSUME NEW w \in Workers, Abandon(w) PROVE TypeInv'
  BY <1>3, FinishSound DEF Abandon, SoundRows, SoundBooks
<1>4. ASSUME NEW l \in Lines, ReleaseLocks(l) PROVE TypeInv'
  BY <1>4, IdleSound DEF ReleaseLocks, SoundRows, SoundBooks, SoundRequests
<1>5. ASSUME NEW l \in Lines, ReleaseAllocations(l) PROVE TypeInv'
  <2>1. \A b \in Batches : /\ alloc[l][b] \in Nat /\ row[b].sold \in Nat
                           /\ (IF row[b].sold > alloc[l][b] THEN row[b].sold - alloc[l][b] ELSE 0) \in Nat
    BY DEF SoundRows, SoundBooks
  <2>2. SoundRows'
    BY <1>5, <2>1 DEF ReleaseAllocations, SoundRows
  <2> QED
    BY <1>5, <2>2, IdleSound DEF ReleaseAllocations, SoundBooks, SoundRequests
<1>6. CASE UNCHANGED vars
  BY <1>6 DEF vars, SoundRows, SoundBooks, SoundRequests
<1> QED
  BY <1>1, <1>2, <1>3, <1>4, <1>5, <1>6, AdminType, AllocationType DEF Next

(* Whatever requests interleave, every variable keeps its type.             *)
THEOREM TypeCorrect == Spec => []TypeOK
<1>1. TypeInv => TypeOK
  BY DEF TypeInv, SoundRows, SoundBooks, SoundRequests, TypeOK
<1> QED
  BY <1>1, TypeInvInit, TypeInvStep, PTL DEF Spec
----------------------------------------------------------------------------
(* The inductive invariant: types, rows never inserted, the counter.        *)
SoldInv == TypeInv /\ AbsentSoldNothing /\ SoldMatchesAllocations

(* What most steps do to the counters: nothing.                             *)
KeepsSold ==
    /\ alloc' = alloc
    /\ \A b \in Batches : /\ row'[b].sold = row[b].sold
                          /\ row'[b].status = "absent" => row[b].status = "absent"

LEMMA KeepsSoldInv ==
    ASSUME AbsentSoldNothing, SoldMatchesAllocations, KeepsSold
    PROVE  AbsentSoldNothing' /\ SoldMatchesAllocations'
  BY DEF AbsentSoldNothing, SoldMatchesAllocations, KeepsSold

LEMMA AdminKeepsSold ==
    ASSUME TypeInv, AbsentSoldNothing, NEW w \in Workers, Admin(w)
    PROVE  KeepsSold
<1> USE DEF TypeInv
<1>1. ASSUME NEW q \in 1 .. MaxQuota, StartCreate(w, q) PROVE KeepsSold
  BY <1>1 DEF StartCreate, KeepsSold
<1>2. CASE CreateBatch(w)
  <2>1. PICK b \in Batches :
           /\ row[b].status = "absent"
           /\ \/ row' = [row EXCEPT ![b] = NewRow(w, "active", 1)]
              \/ \E last \in Slice(w) :
                    row' = [row EXCEPT ![b] = NewRow(w, "queued", row[last].seq + 1)]
    BY <1>2 DEF CreateBatch
  <2>2. row[b].sold = 0
    BY <2>1 DEF AbsentSoldNothing
  <2>3. /\ row'[b].sold = 0 /\ row'[b].status # "absent"
        /\ \A a \in Batches \ {b} : row'[a] = row[a]
    BY <2>1 DEF NewRow, SoundRows
  <2> QED
    BY <1>2, <2>2, <2>3 DEF KeepsSold, CreateBatch
<1>3. ASSUME NEW b \in Batches, NEW q \in 1 .. MaxQuota, StartUpdate(w, b, q) PROVE KeepsSold
  BY <1>3 DEF StartUpdate, KeepsSold
<1>4. CASE UpdateBatch(w)
  BY <1>4 DEF UpdateBatch, KeepsSold, SoundRows
<1>5. ASSUME NEW b \in Batches, CloseBatch(w, b) PROVE KeepsSold
  BY <1>5 DEF CloseBatch, KeepsSold, SoundRows
<1>6. ASSUME NEW b \in Batches, CancelBatch(w, b) PROVE KeepsSold
  BY <1>6 DEF CancelBatch, KeepsSold, SoundRows
<1>7. ASSUME NEW b \in Batches, NEW to \in Batches, ReorderBatch(w, b, to) PROVE KeepsSold
  <2> DEFINE st(a) == IF a \notin OpenBatches THEN row[a].status
                      ELSE IF \A c \in OpenBatches : Moved(b, to)[a] <= Moved(b, to)[c]
                           THEN "active" ELSE "queued"
             sq(a) == IF to = Place(b) THEN row[a].seq ELSE Moved(b, to)[a]
  <2>1. \A a \in Batches : st(a) = "absent" => row[a].status = "absent"
    OBVIOUS
  <2>2. row' = [a \in Batches |-> IF a \notin Existing THEN row[a]
                                  ELSE [row[a] EXCEPT !.seq = sq(a), !.status = st(a)]]
    BY <1>7 DEF ReorderBatch
  <2>3. alloc' = alloc
    BY <1>7 DEF ReorderBatch
  <2> HIDE DEF st, sq
  <2>4. \A a \in Batches : /\ row'[a].sold = row[a].sold
                          /\ row'[a].status = IF a \in Existing THEN st(a) ELSE row[a].status
    BY <2>2 DEF SoundRows
  <2> QED
    BY <2>1, <2>3, <2>4 DEF KeepsSold
<1>8. CASE StartCancelOpen(w)
  BY <1>8 DEF StartCancelOpen, KeepsSold
<1>9. CASE CancelOpenBatches(w)
  BY <1>9 DEF CancelOpenBatches, KeepsSold, SoundRows
<1> QED
  BY <1>1, <1>2, <1>3, <1>4, <1>5, <1>6, <1>7, <1>8, <1>9 DEF Admin

(* The rows a sale leaves, field by field.                                  *)
LEMMA SettledRow ==
    ASSUME SoundRows, NEW w \in Workers, NEW take, NEW b \in Batches
    PROVE  /\ Settled(w, take)[b].sold = row[b].sold + take[b]
           /\ Settled(w, take)[b].quota = row[b].quota
           /\ Settled(w, take)[b].status =
                 IF b \in Spent(w, take) THEN "closed"
                 ELSE IF b \in Successor(w, take) THEN "active" ELSE row[b].status
<1> DEFINE st == IF b \in Spent(w, take) THEN "closed"
                 ELSE IF b \in Successor(w, take) THEN "active" ELSE row[b].status
           n == row[b].sold + take[b]
<1>1. Settled(w, take)[b] = [row[b] EXCEPT !.sold = n, !.status = st]
  BY DEF Settled
<1>2. row[b] \in [status: Statuses, quota: Nat, sold: Nat, seq: Nat]
  BY DEF SoundRows
<1> HIDE DEF st, n
<1>3. /\ Settled(w, take)[b].sold = n /\ Settled(w, take)[b].quota = row[b].quota
      /\ Settled(w, take)[b].status = st
  BY <1>1, <1>2
<1> QED
  BY <1>3 DEF st, n

(* A sale: the units a batch counts are the units the line's row records.   *)
LEMMA SaleKeepsSoldInv ==
    ASSUME SoldInv, NEW w \in Workers, AllocateToBatch(w)
    PROVE  AbsentSoldNothing' /\ SoldMatchesAllocations'
<1> DEFINE l == req[w].line
<1>1. l \in Lines /\ Qty(w) \in Nat
  BY RequestAt, LinesAssumption DEF AllocateToBatch, At, Sound, Qty, SoldInv, TypeInv
<1>2. PICK take \in [Batches -> 0 .. Qty(w)] :
         /\ Plan(w, take)
         /\ row' = Settled(w, take)
         /\ alloc' = [alloc EXCEPT ![l] = take]
  BY DEF AllocateToBatch
<1>3. alloc[l] = Zero /\ alloc \in [Lines -> [Batches -> Nat]]
  BY DEF AllocateToBatch, SoldInv, TypeInv, SoundBooks
<1>4. \A b \in Batches : /\ take[b] \in Nat /\ row[b].sold \in Nat
                         /\ row'[b].sold = row[b].sold + take[b]
  <2>1. SoundRows
    BY DEF SoldInv, TypeInv
  <2> QED
    BY <1>1, <1>2, <2>1, SettledRow DEF SoundRows
<1>5. ASSUME NEW b \in Batches
      PROVE  row'[b].sold = Total([k \in Lines |-> alloc'[k][b]], Lines)
  <2> DEFINE f == [k \in Lines |-> alloc[k][b]]
             g == [k \in Lines |-> alloc'[k][b]]
  <2>1. f[l] = 0 /\ g[l] = take[b]
    BY <1>1, <1>2, <1>3 DEF Zero
  <2>2. \A k \in Lines : f[k] \in Nat /\ g[k] \in Nat
    BY <1>1, <1>2, <1>3, <1>4
  <2>3. \A k \in Lines \ {l} : f[k] = g[k]
    BY <1>1, <1>2, <1>3
  <2>4. row[b].sold = Total(f, Lines)
    BY DEF SoldInv, SoldMatchesAllocations
  <2> HIDE DEF f, g
  <2>5. Total(g, Lines) = Total(f, Lines) - f[l] + g[l]
    BY <1>1, <2>2, <2>3, LinesAssumption, TotalReplace
  <2>6. row'[b].sold = Total(g, Lines)
    BY <1>4, <2>1, <2>4, <2>5
  <2> QED
    BY <2>6 DEF g
<1>6. ASSUME NEW b \in Batches, row'[b].status = "absent" PROVE row'[b].sold = 0
  <2>1. row[b].status = "absent"
    BY <1>2, <1>6, SettledRow DEF SoldInv, TypeInv
  <2>2. Free(w, b) = 0
    BY <2>1 DEF Free, Slice, OpenBatches, Open
  <2>3. take[b] = 0
    BY <1>2, <1>4, <2>2 DEF Plan
  <2> QED
    BY <1>4, <2>1, <2>3 DEF SoldInv, AbsentSoldNothing
<1> QED
  BY <1>5, <1>6 DEF AbsentSoldNothing, SoldMatchesAllocations

(* A line never gives back more than the batch counts.                      *)
LEMMA AllocWithinSold ==
    ASSUME SoldInv, NEW l \in Lines, NEW b \in Batches
    PROVE  /\ alloc[l][b] \in Nat /\ row[b].sold \in Nat
           /\ row[b].sold >= alloc[l][b]
<1> DEFINE f == [k \in Lines |-> alloc[k][b]]
<1>1. \A k \in Lines : f[k] \in Nat
  BY DEF SoldInv, TypeInv, SoundBooks
<1>2. row[b].sold = Total(f, Lines) /\ row[b].sold \in Nat
  BY DEF SoldInv, TypeInv, SoundRows, SoldMatchesAllocations
<1>3. f[l] = alloc[l][b]
  OBVIOUS
<1> HIDE DEF f
<1>4. Total(f, Lines) >= f[l]
  BY <1>1, LinesAssumption, TotalReplace
<1> QED
  BY <1>1, <1>2, <1>3, <1>4

LEMMA ReturnKeepsSoldInv ==
    ASSUME SoldInv, NEW l \in Lines, ReleaseAllocations(l)
    PROVE  AbsentSoldNothing' /\ SoldMatchesAllocations'
<1>1. alloc \in [Lines -> [Batches -> Nat]] /\ alloc' = [alloc EXCEPT ![l] = Zero]
  BY DEF ReleaseAllocations, SoldInv, TypeInv, SoundBooks
<1>2. \A b \in Batches : row'[b].sold = row[b].sold - alloc[l][b]
  <2> TAKE b \in Batches
  <2>1. row[b].sold >= alloc[l][b] /\ alloc[l][b] \in Nat /\ row[b].sold \in Nat
    BY AllocWithinSold
  <2>2. row[b] \in [status: Statuses, quota: Nat, sold: Nat, seq: Nat]
    BY DEF SoldInv, TypeInv, SoundRows
  <2> QED
    BY <2>1, <2>2 DEF ReleaseAllocations
<1>3. ASSUME NEW b \in Batches
      PROVE  row'[b].sold = Total([k \in Lines |-> alloc'[k][b]], Lines)
  <2> DEFINE f == [k \in Lines |-> alloc[k][b]]
             g == [k \in Lines |-> alloc'[k][b]]
  <2>1. f[l] = alloc[l][b] /\ g[l] = 0
    BY <1>1 DEF Zero
  <2>2. \A k \in Lines : f[k] \in Nat /\ g[k] \in Nat
    BY <1>1 DEF Zero
  <2>3. \A k \in Lines \ {l} : f[k] = g[k]
    BY <1>1
  <2>4. row[b].sold = Total(f, Lines) /\ row[b].sold \in Nat
    BY DEF SoldInv, TypeInv, SoundRows, SoldMatchesAllocations
  <2> HIDE DEF f, g
  <2>5. Total(g, Lines) = Total(f, Lines) - f[l] + g[l]
    BY <2>2, <2>3, LinesAssumption, TotalReplace
  <2>6. row'[b].sold = Total(g, Lines)
    BY <1>2, <2>1, <2>2, <2>4, <2>5
  <2> QED
    BY <2>6 DEF g
<1>4. ASSUME NEW b \in Batches, row'[b].status = "absent" PROVE row'[b].sold = 0
  <2>1. row[b].status = "absent"
    BY <1>4 DEF ReleaseAllocations, SoldInv, TypeInv, SoundRows
  <2>2. row[b].sold = 0
    BY <2>1 DEF SoldInv, AbsentSoldNothing
  <2> QED
    BY <1>2, <2>2, AllocWithinSold
<1> QED
  BY <1>3, <1>4 DEF AbsentSoldNothing, SoldMatchesAllocations

THEOREM SoldInvInit == Init => SoldInv
<1> SUFFICES ASSUME Init PROVE SoldInv
  OBVIOUS
<1>1. AbsentSoldNothing
  BY DEF Init, AbsentSoldNothing
<1>2. ASSUME NEW b \in Batches PROVE row[b].sold = Total([l \in Lines |-> alloc[l][b]], Lines)
  BY TotalZero DEF Init, Zero
<1> QED
  BY <1>1, <1>2, TypeInvInit DEF SoldInv, SoldMatchesAllocations

LEMMA SoldInvStep == SoldInv /\ [Next]_vars => SoldInv'
<1> SUFFICES ASSUME SoldInv, [Next]_vars PROVE AbsentSoldNothing' /\ SoldMatchesAllocations'
  BY TypeInvStep DEF SoldInv
<1> USE DEF SoldInv
<1>1. ASSUME NEW w \in Workers, Admin(w) PROVE KeepsSold
  BY <1>1, AdminKeepsSold
<1>2. ASSUME NEW w \in Workers, Allocation(w) PROVE KeepsSold \/ AllocateToBatch(w)
  <2>1. CASE PreviewAllocation(w)
    BY <2>1, PreviewRow DEF KeepsSold, PreviewAllocation, TypeInv, Open
  <2> QED
    BY <1>2, <2>1 DEF Allocation, KeepsSold, StartAllocate, StartReserve, StartPreview,
                      ReadLocks, TakeSnapshot, AllocateUnlimited, AllocateAgain,
                      CreateBatchLocks
<1>3. ASSUME NEW w \in Workers, ReadLabel(w) \/ SyncLabel(w) \/ Abandon(w) PROVE KeepsSold
  BY <1>3 DEF KeepsSold, ReadLabel, SyncLabel, Abandon
<1>4. ASSUME NEW l \in Lines, ReleaseLocks(l) PROVE KeepsSold
  BY <1>4 DEF KeepsSold, ReleaseLocks
<1>5. ASSUME UNCHANGED vars PROVE KeepsSold
  BY <1>5 DEF KeepsSold, vars
<1> QED
  BY <1>1, <1>2, <1>3, <1>4, <1>5, KeepsSoldInv, SaleKeepsSoldInv, ReturnKeepsSoldInv DEF Next

(* The counter qty_sold equals the ledger in every reachable state: no sale *)
(* is counted twice, and no cancelled line is subtracted twice.             *)
THEOREM SoldCorrect == Spec => []SoldMatchesAllocations
<1>1. SoldInv => SoldMatchesAllocations
  BY DEF SoldInv
<1> QED
  BY <1>1, SoldInvInit, SoldInvStep, PTL DEF Spec
----------------------------------------------------------------------------
(* A sale of line l leaves every other line as it is and gives l the plan,  *)
(* whose total the plan bounds.                                             *)
LEMMA LineStep ==
    ASSUME TypeInv, LineWithinQuantity, [Next]_vars
    PROVE  LineWithinQuantity'
<1> SUFFICES ASSUME NEW l \in Lines PROVE Total(alloc'[l], Batches) <= LineQty[l]
  BY DEF LineWithinQuantity
<1>1. Total(alloc[l], Batches) <= LineQty[l] /\ LineQty[l] \in Nat
  BY LinesAssumption DEF LineWithinQuantity
<1>2. CASE alloc'[l] = alloc[l]
  BY <1>1, <1>2
<1>3. CASE alloc'[l] = Zero
  BY <1>1, <1>3, TotalZero DEF Zero
<1>4. ASSUME NEW w \in Workers, AllocateToBatch(w), alloc'[l] # alloc[l]
      PROVE  Total(alloc'[l], Batches) <= LineQty[l]
  <2>1. PICK take \in [Batches -> 0 .. Qty(w)] :
           Plan(w, take) /\ alloc' = [alloc EXCEPT ![req[w].line] = take]
    BY <1>4 DEF AllocateToBatch
  <2>2. l = req[w].line /\ alloc'[l] = take
    BY <1>4, <2>1 DEF TypeInv, SoundBooks
  <2> QED
    BY <2>1, <2>2 DEF Plan, Qty
<1>5. \/ alloc' = alloc
      \/ \E k \in Lines : alloc' = [alloc EXCEPT ![k] = Zero]
      \/ \E w \in Workers : AllocateToBatch(w)
  BY DEF Next, vars, Admin, StartCreate, CreateBatch, StartUpdate, UpdateBatch, CloseBatch,
         CancelBatch, ReorderBatch, StartCancelOpen, CancelOpenBatches, Allocation,
         StartAllocate, StartReserve, StartPreview, ReadLocks, TakeSnapshot,
         AllocateUnlimited, AllocateAgain, PreviewAllocation, CreateBatchLocks, ReadLabel, SyncLabel, Abandon,
         ReleaseLocks, ReleaseAllocations
<1>6. \A k \in Lines : alloc' = [alloc EXCEPT ![k] = Zero] =>
                          alloc'[l] = alloc[l] \/ alloc'[l] = Zero
  BY DEF TypeInv, SoundBooks
<1> QED
  BY <1>2, <1>3, <1>4, <1>5, <1>6

(* Whatever webhooks are delivered again, a line holds at most the units it *)
(* ordered, over all the batches of the variant.                            *)
THEOREM LineCorrect == Spec => []LineWithinQuantity
<1>1. Init => LineWithinQuantity
  BY TotalZero, LinesAssumption DEF Init, LineWithinQuantity, Zero
<1>2. TypeInv /\ LineWithinQuantity /\ [Next]_vars => LineWithinQuantity'
  BY LineStep
<1> QED
  BY <1>1, <1>2, TypeInvInit, TypeInvStep, PTL DEF Spec
----------------------------------------------------------------------------
(* A step that leaves the counters and moves phases forward only.           *)
LEMMA RetireStep ==
    ASSUME alloc' = alloc,
           \A b \in Batches :
              /\ row'[b].quota = row[b].quota /\ row'[b].sold = row[b].sold
              /\ row'[b].status \in Statuses /\ row[b].status \in Statuses
              /\ \/ Phase(row'[b].status) = Phase(row[b].status)
                 \/ row[b].status \in Open /\ row'[b].status \in {"closed", "cancelled"}
    PROVE  Book!Retire
<1> DEFINE ph == [b \in Batches |-> Phase(row'[b].status)]
<1>1. ph \in [Batches -> {"absent", "open", "over"}]
  BY DEF Phase, Statuses, Open
<1>2. \A b \in Batches : ph[b] # Phase(row[b].status) =>
                            Phase(row[b].status) = "open" /\ ph[b] = "over"
  BY DEF Phase, Open
<1>3. Book!SomeEnd
  BY <1>1, <1>2 DEF Book!SomeEnd
<1> QED
  BY <1>3 DEF Book!Retire

LEMMA AdminRefines ==
    ASSUME SoldInv, NEW w \in Workers, Admin(w)
    PROVE  [Book!Next]_(Book!vars)
<1> USE DEF SoldInv, TypeInv
<1>1. ASSUME UNCHANGED <<row, alloc>> PROVE UNCHANGED Book!vars
  BY <1>1 DEF Book!vars
<1>2. CASE CreateBatch(w)
  <2>1. PICK b \in Batches :
           /\ row[b].status = "absent"
           /\ \/ row' = [row EXCEPT ![b] = NewRow(w, "active", 1)]
              \/ \E last \in Slice(w) :
                    row' = [row EXCEPT ![b] = NewRow(w, "queued", row[last].seq + 1)]
    BY <1>2 DEF CreateBatch
  <2>2. req[w].quota \in Nat \ {0}
    BY <1>2, RequestAt DEF CreateBatch, At, Request, Sound
  <2>3. row[b].sold = 0
    BY <2>1 DEF AbsentSoldNothing
  <2>4. /\ row'[b].sold = 0 /\ row'[b].status \in Open /\ row'[b].quota \in Nat \ {0}
        /\ \A a \in Batches \ {b} : row'[a] = row[a]
    BY <2>1, <2>2 DEF NewRow, SoundRows, Open
  <2>5. alloc' = alloc
    BY <1>2 DEF CreateBatch
  <2>6. Book!Offer(b)
    BY <2>1, <2>3, <2>4, <2>5 DEF Book!Offer, Phase, Open
  <2> QED
    BY <2>6 DEF Book!Next
<1>3. CASE UpdateBatch(w)
  <2>1. PICK b \in Batches : b = req[w].batch /\ b \in OpenBatches
                            /\ req[w].quota \in Nat \ {0}
    BY <1>3, RequestAt DEF UpdateBatch, At, Request, Sound, OpenBatches
  <2>2. /\ row'[b].sold = row[b].sold /\ row'[b].status = row[b].status
        /\ row'[b].quota = req[w].quota
        /\ \A a \in Batches \ {b} : row'[a] = row[a]
    BY <1>3, <2>1 DEF UpdateBatch, SoundRows
  <2>3. alloc' = alloc
    BY <1>3 DEF UpdateBatch
  <2>4. Book!Resize(b)
    BY <2>1, <2>2, <2>3 DEF Book!Resize, Phase, OpenBatches, Open
  <2> QED
    BY <2>1, <2>4 DEF Book!Next
<1>4. ASSUME NEW b \in Batches, CloseBatch(w, b) PROVE Book!Retire
  BY <1>4, RetireStep DEF CloseBatch, SoundRows, Phase, Open, Active, Queued, Statuses
<1>5. ASSUME NEW b \in Batches, CancelBatch(w, b) PROVE Book!Retire
  BY <1>5, RetireStep DEF CancelBatch, SoundRows, Phase, Open, Queued, Statuses
<1>6. ASSUME NEW b \in Batches, NEW to \in Batches, ReorderBatch(w, b, to) PROVE Book!Retire
  <2> DEFINE st(a) == IF a \notin OpenBatches THEN row[a].status
                      ELSE IF \A c \in OpenBatches : Moved(b, to)[a] <= Moved(b, to)[c]
                           THEN "active" ELSE "queued"
             sq(a) == IF to = Place(b) THEN row[a].seq ELSE Moved(b, to)[a]
  <2>1. \A a \in Batches : /\ \/ st(a) = row[a].status
                              \/ st(a) \in Open /\ row[a].status \in Open
                           /\ st(a) \in Statuses /\ row[a].status \in Statuses
    BY DEF Open, OpenBatches, Statuses, SoundRows
  <2>2. row' = [a \in Batches |-> IF a \notin Existing THEN row[a]
                                  ELSE [row[a] EXCEPT !.seq = sq(a), !.status = st(a)]]
    BY <1>6 DEF ReorderBatch
  <2>3. alloc' = alloc
    BY <1>6 DEF ReorderBatch
  <2> HIDE DEF st, sq
  <2>4. \A a \in Batches : /\ row'[a].sold = row[a].sold /\ row'[a].quota = row[a].quota
                           /\ row'[a].status = IF a \in Existing THEN st(a) ELSE row[a].status
    BY <2>2 DEF SoundRows
  <2>5. \A a \in Batches : /\ Phase(row'[a].status) = Phase(row[a].status)
                           /\ row'[a].status \in Statuses /\ row[a].status \in Statuses
    BY <2>1, <2>4 DEF Phase, Open
  <2> QED
    BY <2>3, <2>4, <2>5, RetireStep
<1>7. CASE CancelOpenBatches(w)
  <2>1. Book!Retire
    BY <1>7, RetireStep DEF CancelOpenBatches, SoundRows, Slice, OpenBatches, Statuses
  <2> QED
    BY <2>1 DEF Book!Next
<1>8. ASSUME \/ StartCancelOpen(w) \/ \E q \in 1 .. MaxQuota : StartCreate(w, q)
             \/ \E b \in Batches, q \in 1 .. MaxQuota : StartUpdate(w, b, q)
      PROVE  UNCHANGED Book!vars
  BY <1>1, <1>8 DEF StartCancelOpen, StartCreate, StartUpdate
<1> QED
  BY <1>2, <1>3, <1>4, <1>5, <1>6, <1>7, <1>8 DEF Admin, Book!Next

(* A sale of the code is a purchase of the book.                            *)
LEMMA SaleRefines ==
    ASSUME SoldInv, NEW w \in Workers, AllocateToBatch(w)
    PROVE  Book!Next
<1> USE DEF SoldInv, TypeInv
<1>1. PICK l \in Lines : l = req[w].line
  BY RequestAt DEF AllocateToBatch, At, Sound
<1>2. Qty(w) \in Nat
  BY <1>1, LinesAssumption DEF Qty
<1>3. PICK take \in [Batches -> 0 .. Qty(w)] :
         /\ Plan(w, take)
         /\ row' = Settled(w, take)
         /\ alloc' = [alloc EXCEPT ![l] = take]
  BY <1>1 DEF AllocateToBatch
<1>4. alloc[l] = Book!Nothing
  BY <1>1 DEF AllocateToBatch, Book!Nothing, Zero
<1>5. take \in [Batches -> Nat] /\ alloc'[l] = take
  BY <1>2, <1>3 DEF SoundBooks
<1>6. \A b \in Batches : take[b] > 0 =>
         Phase(row[b].status) = "open" /\ row[b].sold + take[b] <= row[b].quota
  <2> SUFFICES ASSUME NEW b \in Batches, take[b] > 0
               PROVE  b \in OpenBatches /\ row[b].sold + take[b] <= row[b].quota
    BY DEF Phase, Open, OpenBatches
  <2>1. take[b] <= Free(w, b) /\ take[b] \in Nat
    BY <1>3, <1>5 DEF Plan
  <2>2. row[b].sold \in Nat /\ row[b].quota \in Nat
    BY DEF SoundRows
  <2> QED
    BY <2>1, <2>2, FreeType
<1>7. \A b \in Batches : /\ row'[b].sold = row[b].sold + take[b]
                         /\ row'[b].quota = row[b].quota
  BY <1>3, SettledRow
<1>8. Book!SomeEnd
  <2> DEFINE ph == [b \in Batches |-> Phase(row'[b].status)]
  <2>1. \A b \in Batches : /\ row[b].status \in Statuses
                           /\ \/ row'[b].status = row[b].status
                              \/ row[b].status \in Open /\ row'[b].status \in {"closed", "active"}
    <3> TAKE b \in Batches
    <3>1. b \in Spent(w, take) \/ b \in Successor(w, take) => row[b].status \in Open
      BY DEF Spent, Successor, Slice, OpenBatches
    <3>2. row'[b].status = IF b \in Spent(w, take) THEN "closed"
                           ELSE IF b \in Successor(w, take) THEN "active" ELSE row[b].status
      BY <1>3, SettledRow
    <3> QED
      BY <3>1, <3>2 DEF SoundRows
  <2>2. ph \in [Batches -> {"absent", "open", "over"}]
    BY DEF Phase
  <2>3. \A b \in Batches : ph[b] # Phase(row[b].status) =>
                              Phase(row[b].status) = "open" /\ ph[b] = "over"
    BY <2>1 DEF Phase, Open
  <2> QED
    BY <2>2, <2>3 DEF Book!SomeEnd
<1>9. Book!Buy(l)
  BY <1>3, <1>4, <1>5, <1>6, <1>7, <1>8 DEF Book!Buy
<1> QED
  BY <1>9 DEF Book!Next

LEMMA ReturnRefines ==
    ASSUME SoldInv, NEW l \in Lines, ReleaseAllocations(l)
    PROVE  Book!Next
<1>1. \A b \in Batches : /\ row'[b].sold = row[b].sold - alloc[l][b]
                         /\ row'[b].quota = row[b].quota
                         /\ row'[b].status = row[b].status
  <2> TAKE b \in Batches
  <2>1. row[b].sold >= alloc[l][b] /\ alloc[l][b] \in Nat /\ row[b].sold \in Nat
    BY AllocWithinSold
  <2>2. row[b] \in [status: Statuses, quota: Nat, sold: Nat, seq: Nat]
    BY DEF SoldInv, TypeInv, SoundRows
  <2> QED
    BY <2>1, <2>2 DEF ReleaseAllocations
<1>2. alloc' = [alloc EXCEPT ![l] = Zero]
  BY DEF ReleaseAllocations
<1>3. Book!Return(l)
  BY <1>1, <1>2 DEF Book!Return, Book!Nothing, Zero
<1> QED
  BY <1>3 DEF Book!Next

LEMMA PreviewRefines ==
    ASSUME SoldInv, NEW w \in Workers, PreviewAllocation(w)
    PROVE  Book!Next
<1>1. alloc' = alloc
  BY DEF PreviewAllocation
<1>2. SoundRows /\ SoundRows'
  BY PreviewRow DEF SoldInv, TypeInv
<1>3. \A b \in Batches : row[b].status \in Statuses /\ row'[b].status \in Statuses
  BY <1>2 DEF SoundRows
<1>4. \A b \in Batches : Phase(row'[b].status) = Phase(row[b].status)
  BY <1>2, PreviewRow DEF Phase, Open
<1>5. Book!Retire
  BY <1>1, <1>2, <1>3, <1>4, PreviewRow, RetireStep
<1> QED
  BY <1>5 DEF Book!Next

(* The rows, the ledger and all the requests in flight implement the book.  *)
THEOREM Implementation == Spec => ImplementsBook
<1>1. Init => Book!Init
  BY DEF Init, Book!Init, Book!Nothing, Phase, Zero
<1>2. ASSUME SoldInv, [Next]_vars PROVE [Book!Next]_(Book!vars)
  <2>1. ASSUME UNCHANGED <<row, alloc>> PROVE UNCHANGED Book!vars
    BY <2>1 DEF Book!vars
  <2>2. ASSUME NEW w \in Workers, Allocation(w) PROVE [Book!Next]_(Book!vars)
    <3>1. AllocateToBatch(w) \/ PreviewAllocation(w) \/ UNCHANGED <<row, alloc>>
      BY <2>2 DEF Allocation, StartAllocate, StartReserve, StartPreview, ReadLocks,
                  TakeSnapshot, AllocateUnlimited, AllocateAgain, CreateBatchLocks
    <3>2. PreviewAllocation(w) => Book!Next
      BY <1>2, PreviewRefines
    <3> QED
      BY <1>2, <2>1, <3>1, <3>2, SaleRefines
  <2>3. ASSUME NEW w \in Workers, ReadLabel(w) \/ SyncLabel(w) \/ Abandon(w)
        PROVE  UNCHANGED <<row, alloc>>
    BY <2>3 DEF ReadLabel, SyncLabel, Abandon
  <2>4. ASSUME NEW l \in Lines, ReleaseLocks(l) PROVE UNCHANGED <<row, alloc>>
    BY <2>4 DEF ReleaseLocks
  <2>5. ASSUME UNCHANGED vars PROVE UNCHANGED <<row, alloc>>
    BY <2>5 DEF vars
  <2> QED
    BY <1>2, <2>1, <2>2, <2>3, <2>4, <2>5, AdminRefines, ReturnRefines DEF Next
<1> QED
  BY <1>1, <1>2, SoldInvInit, SoldInvStep, PTL DEF Spec, ImplementsBook, Book!Spec

----------------------------------------------------------------------------
(* The rows form a queue: one is active at most, those that are open have a *)
(* number.                                                                  *)
OneActive == \A a, b \in Batches : Active(a) /\ Active(b) => a = b
Numbered  == \A b \in OpenBatches : row[b].seq > 0
QueueInv  == TypeInv /\ OneActive /\ Numbered

(* The loop visits the rows in a total order.                               *)
LEMMA EarlierOrder ==
    ASSUME SoundRequests, NEW w \in Workers
    PROVE  /\ \A a \in Batches : ~ Earlier(w, a, a)
           /\ \A a, b, c \in Batches : Earlier(w, a, b) /\ Earlier(w, b, c) => Earlier(w, a, c)
           /\ \A a, b \in Batches : a # b => Earlier(w, a, b) \/ Earlier(w, b, a)
<1>1. \A b \in Batches : req[w].rank[b] \in Nat /\ b \in Nat
  BY RequestAt, BoundsAssumption DEF Request, Batches
<1>2. \A a, b \in Batches : a # b => Ranked(w, a, b) \/ Ranked(w, b, a)
  BY <1>1 DEF Ranked
<1>3. \A a, b, c \in Batches : Ranked(w, a, b) /\ Ranked(w, b, c) => Ranked(w, a, c)
  BY <1>1 DEF Ranked
<1>4. \A a \in Batches : ~ Ranked(w, a, a)
  BY <1>1 DEF Ranked
<1>5. \A a \in Batches : Active(a) \in BOOLEAN
  BY DEF Active
<1>6. \A a, b, c \in Batches : Earlier(w, a, b) /\ Earlier(w, b, c) => Earlier(w, a, c)
  BY <1>3, <1>5 DEF Earlier
<1>7. \A a, b \in Batches : a # b => Earlier(w, a, b) \/ Earlier(w, b, a)
  BY <1>2, <1>5 DEF Earlier
<1>8. \A a \in Batches : ~ Earlier(w, a, a)
  BY <1>4, <1>5 DEF Earlier
<1> QED
  BY <1>6, <1>7, <1>8

LEMMA BatchesFinite == IsFiniteSet(Batches) /\ Cardinality(Batches) = MaxBatches
  BY BoundsAssumption, FS_Interval DEF Batches

(* The rows that exist, in a total order.                                   *)
LEMMA AheadOrder ==
    ASSUME SoundRows
    PROVE  /\ Existing \subseteq Batches
           /\ \A a \in Existing : ~ Ahead(a, a)
           /\ \A a, b \in Existing : a # b => Ahead(a, b) \/ Ahead(b, a)
           /\ \A a, b \in Existing : ~ (Ahead(a, b) /\ Ahead(b, a))
           /\ \A a, b, c \in Existing : Ahead(a, b) /\ Ahead(b, c) => Ahead(a, c)
<1>1. Existing \subseteq Batches /\ \A c \in Existing : row[c].seq \in Nat /\ c \in Nat
  BY BoundsAssumption DEF Existing, Batches, SoundRows
<1> QED
  BY <1>1 DEF Ahead

(* A place counts the rows ahead, so it tells who is ahead.                 *)
LEMMA PlaceAhead ==
    ASSUME SoundRows, NEW c \in Existing, NEW d \in Existing, Ahead(c, d)
    PROVE  Place(c) \in Nat /\ Place(d) \in Nat /\ Place(c) < Place(d)
<1> DEFINE Sooners(e) == {x \in Existing : Ahead(x, e)}
<1>1. IsFiniteSet(Sooners(d)) /\ IsFiniteSet(Sooners(c))
  BY AheadOrder, BatchesFinite, FS_Subset
<1>2. c \in Sooners(d)
  OBVIOUS
<1>3. Sooners(c) \subseteq Sooners(d) \ {c}
  BY AheadOrder
<1>4. IsFiniteSet(Sooners(d) \ {c}) /\ Cardinality(Sooners(d) \ {c}) = Cardinality(Sooners(d)) - 1
  BY <1>1, <1>2, FS_RemoveElement
<1>5. Cardinality(Sooners(c)) <= Cardinality(Sooners(d) \ {c})
  BY <1>3, <1>4, FS_Subset
<1>6. Cardinality(Sooners(c)) \in Nat /\ Cardinality(Sooners(d)) \in Nat
  BY <1>1, FS_CardinalityType
<1>7. Place(c) = 1 + Cardinality(Sooners(c)) /\ Place(d) = 1 + Cardinality(Sooners(d))
  BY DEF Place
<1> HIDE DEF Sooners
<1> QED
  BY <1>4, <1>5, <1>6, <1>7

(* Rows that exist have places of their own, before a move and after it.    *)
LEMMA PlaceStrict ==
    ASSUME SoundRows, NEW a \in Existing, NEW b \in Existing, a # b
    PROVE  Place(a) \in Nat /\ Place(b) \in Nat /\ Place(a) # Place(b)
<1>1. Ahead(a, b) \/ Ahead(b, a)
  BY AheadOrder
<1> QED
  BY <1>1, PlaceAhead

LEMMA MovedStrict ==
    ASSUME SoundRows, NEW b \in Existing, NEW to \in Batches,
           NEW a \in Existing, NEW c \in Existing, a # c
    PROVE  Moved(b, to)[a] # Moved(b, to)[c] /\ Moved(b, to)[a] > 0
<1>1. \A d \in Existing : d \in Batches /\ Place(d) \in Nat /\ Place(d) > 0
  <2> SUFFICES ASSUME NEW d \in Existing PROVE d \in Batches /\ Place(d) \in Nat /\ Place(d) > 0
    OBVIOUS
  <2>1. {e \in Existing : Ahead(e, d)} \in SUBSET Batches
    BY DEF Existing
  <2>2. Cardinality({e \in Existing : Ahead(e, d)}) \in Nat
    BY <2>1, BatchesFinite, FS_Subset, FS_CardinalityType
  <2> QED
    BY <2>2 DEF Place, Existing
<1>2. \A d, e \in Existing : d # e => Place(d) # Place(e)
  BY PlaceStrict
<1>3. to \in Nat /\ to > 0
  BY BoundsAssumption DEF Batches
<1>4. \A d \in Existing : Moved(b, to)[d] = LET p == IF Place(d) > Place(b) THEN Place(d) - 1 ELSE Place(d)
                                            IN  IF d = b THEN to ELSE IF p >= to THEN p + 1 ELSE p
  BY <1>1 DEF Moved
<1>5. Place(a) # Place(c) /\ (a # b => Place(a) # Place(b)) /\ (c # b => Place(c) # Place(b))
  BY <1>2
<1>6. Place(a) \in Nat /\ Place(b) \in Nat /\ Place(c) \in Nat /\ Place(a) > 0 /\ Place(b) > 0 /\ Place(c) > 0
  BY <1>1
<1> QED
  BY <1>3, <1>4, <1>5, <1>6

(* What most steps do to the queue: nothing is added to it.                 *)
KeepsQueue ==
    \A b \in Batches : /\ row'[b].status = "active" => row[b].status = "active"
                       /\ row'[b].status \in Open => row[b].status \in Open /\ row'[b].seq = row[b].seq

LEMMA KeepsQueueInv ==
    ASSUME OneActive, Numbered, KeepsQueue
    PROVE  OneActive' /\ Numbered'
  BY DEF OneActive, Numbered, KeepsQueue, Active, OpenBatches

(* One row is made active when no other is.                                 *)
LEMMA ActivateInv ==
    ASSUME OneActive, Numbered, NEW q \in Batches,
           \A b \in Batches \ {q} : row'[b].status # "active",
           \A b \in Batches : row'[b].status \in Open => row'[b].seq > 0
    PROVE  OneActive' /\ Numbered'
  BY DEF OneActive, Numbered, Active, OpenBatches

LEMMA AdminQueue ==
    ASSUME QueueInv, NEW w \in Workers, Admin(w)
    PROVE  OneActive' /\ Numbered'
<1> USE DEF QueueInv, TypeInv
<1>1. ASSUME NEW q \in 1 .. MaxQuota, StartCreate(w, q) PROVE KeepsQueue
  BY <1>1 DEF StartCreate, KeepsQueue
<1>2. ASSUME CreateBatch(w) PROVE OneActive' /\ Numbered'
  <2>1. PICK b \in Batches :
           \/ /\ ActiveIn(row) = {}
              /\ row' = [row EXCEPT ![b] = NewRow(w, "active", 1)]
           \/ \E last \in Slice(w) : row' = [row EXCEPT ![b] = NewRow(w, "queued", row[last].seq + 1)]
    BY <1>2 DEF CreateBatch
  <2>2. CASE ActiveIn(row) = {} /\ row' = [row EXCEPT ![b] = NewRow(w, "active", 1)]
    <3>1. row'[b].seq = 1 /\ \A a \in Batches \ {b} : row'[a] = row[a]
      BY <2>2 DEF NewRow, SoundRows
    <3>2. \A a \in Batches \ {b} : row'[a].status # "active"
      BY <2>2, <3>1 DEF ActiveIn
    <3>3. \A a \in Batches : row'[a].status \in Open => row'[a].seq > 0
      BY <3>1 DEF Numbered, OpenBatches
    <3> QED
      BY <3>2, <3>3, ActivateInv
  <2>3. ASSUME NEW last \in Slice(w), row' = [row EXCEPT ![b] = NewRow(w, "queued", row[last].seq + 1)]
        PROVE  OneActive' /\ Numbered'
    <3>1. row[last].seq \in Nat
      BY DEF Slice, OpenBatches, SoundRows
    <3>2. /\ row'[b].status = "queued" /\ row'[b].seq > 0
          /\ \A a \in Batches \ {b} : row'[a] = row[a]
      BY <2>3, <3>1 DEF NewRow, SoundRows
    <3> QED
      BY <3>2 DEF OneActive, Numbered, Active, OpenBatches
  <2> QED
    BY <2>1, <2>2, <2>3
<1>3. ASSUME NEW b \in Batches, NEW q \in 1 .. MaxQuota, StartUpdate(w, b, q) PROVE KeepsQueue
  BY <1>3 DEF StartUpdate, KeepsQueue
<1>4. ASSUME UpdateBatch(w) PROVE KeepsQueue
  BY <1>4 DEF UpdateBatch, KeepsQueue, SoundRows
<1>5. ASSUME NEW b \in Batches, CloseBatch(w, b) PROVE OneActive' /\ Numbered'
  <2> DEFINE closed == [row EXCEPT ![b].status = "closed"]
  <2>1. /\ closed \in [Batches -> [status: Statuses, quota: Nat, sold: Nat, seq: Nat]]
        /\ closed[b].status = "closed" /\ \A a \in Batches \ {b} : closed[a] = row[a]
    BY DEF SoundRows, Statuses
  <2>2. Active(b) /\ \/ row' = closed
                     \/ \E q \in Batches : Queued(q) /\ row' = [closed EXCEPT ![q].status = "active"]
    BY <1>5 DEF CloseBatch
  <2> HIDE DEF closed
  <2>3. \A a \in Batches : closed[a].status # "active"
    BY <2>1, <2>2 DEF OneActive, Active
  <2>4. CASE row' = closed
    BY <2>1, <2>4, KeepsQueueInv DEF KeepsQueue, Open
  <2>5. ASSUME NEW q \in Batches, Queued(q), row' = [closed EXCEPT ![q].status = "active"]
        PROVE  OneActive' /\ Numbered'
    <3>1. q # b
      BY <2>2, <2>5 DEF Active, Queued
    <3>2. \A a \in Batches \ {q} : row'[a] = closed[a]
      BY <2>1, <2>5
    <3>3. row'[q].seq = row[q].seq /\ q \in OpenBatches
      BY <2>1, <2>5, <3>1 DEF OpenBatches, Queued, Open
    <3>4. \A a \in Batches : row'[a].status \in Open => row'[a].seq > 0
      BY <2>1, <3>2, <3>3 DEF Numbered, OpenBatches, Open
    <3> QED
      BY <2>3, <3>2, <3>4, ActivateInv
  <2> QED
    BY <2>2, <2>4, <2>5
<1>6. ASSUME NEW b \in Batches, CancelBatch(w, b) PROVE KeepsQueue
  BY <1>6 DEF CancelBatch, KeepsQueue, SoundRows, Open
<1>7. ASSUME NEW b \in Batches, NEW to \in Batches, ReorderBatch(w, b, to) PROVE OneActive' /\ Numbered'
  <2> DEFINE m == Moved(b, to)
             st(a) == IF a \notin OpenBatches THEN row[a].status
                      ELSE IF \A c \in OpenBatches : m[a] <= m[c] THEN "active" ELSE "queued"
             sq(a) == IF to = Place(b) THEN row[a].seq ELSE m[a]
  <2>1. b \in Existing /\ OpenBatches \subseteq Existing /\ Existing \subseteq Batches
    BY <1>7 DEF ReorderBatch, OpenBatches, Existing, Open
  <2>2. \A a, c \in Existing : a # c => m[a] # m[c]
    BY <2>1, MovedStrict
  <2>3. \A a \in Existing : m[a] \in Nat /\ m[a] > 0
    <3> SUFFICES ASSUME NEW a \in Existing PROVE m[a] \in Nat /\ m[a] > 0
      OBVIOUS
    <3>1. m[a] \in Nat
      BY <2>1, MovedType
    <3>2. CASE \E c \in Existing : c # a
      BY <2>1, <3>1, <3>2, MovedStrict
    <3>3. CASE \A c \in Existing : c = a
      <4>1. a = b /\ m[a] = to
        BY <2>1, <3>3 DEF Moved
      <4> QED
        BY <4>1, BoundsAssumption DEF Batches
    <3> QED
      BY <3>2, <3>3
  <2>4. row' = [a \in Batches |-> IF a \notin Existing THEN row[a]
                                  ELSE [row[a] EXCEPT !.seq = sq(a), !.status = st(a)]]
    BY <1>7 DEF ReorderBatch
  <2>5. \A a \in OpenBatches : sq(a) > 0
    BY <2>1, <2>3 DEF Numbered
  <2>6. \A a \in Existing : st(a) \in Open => a \in OpenBatches
    BY <2>1 DEF OpenBatches
  <2>7. \A a, c \in Existing : st(a) = "active" /\ st(c) = "active" => a = c
    <3> SUFFICES ASSUME NEW a \in Existing, NEW c \in Existing, st(a) = "active", st(c) = "active" PROVE a = c
      OBVIOUS
    <3>1. a \in OpenBatches /\ c \in OpenBatches
      BY <2>1 DEF OpenBatches, Open
    <3>2. m[a] <= m[c] /\ m[c] <= m[a]
      BY <3>1
    <3> QED
      BY <2>2, <2>3, <3>2
  <2> HIDE DEF st, sq, m
  <2>8. \A a \in Batches : a \in Existing => row'[a].status = st(a) /\ row'[a].seq = sq(a)
    BY <2>4 DEF SoundRows
  <2>9. \A a \in Batches : a \notin Existing => row'[a].status = "absent"
    BY <2>4 DEF Existing
  <2> QED
    BY <2>5, <2>6, <2>7, <2>8, <2>9 DEF OneActive, Numbered, Active, OpenBatches, Open
<1>8. ASSUME StartCancelOpen(w) PROVE KeepsQueue
  BY <1>8 DEF StartCancelOpen, KeepsQueue
<1>9. ASSUME CancelOpenBatches(w) PROVE KeepsQueue
  BY <1>9 DEF CancelOpenBatches, KeepsQueue, SoundRows, Open
<1> QED
  BY <1>1, <1>2, <1>3, <1>4, <1>5, <1>6, <1>7, <1>8, <1>9, KeepsQueueInv DEF Admin

(* A sale closes the active row before it makes another one active.         *)
LEMMA SaleQueue ==
    ASSUME QueueInv, NEW w \in Workers, AllocateToBatch(w)
    PROVE  OneActive' /\ Numbered'
<1> USE DEF QueueInv, TypeInv
<1>1. PICK take : ~ Refused(w, take) /\ row' = Settled(w, take)
  BY DEF AllocateToBatch
<1>2. \A b \in Batches : row'[b].status = IF b \in Spent(w, take) THEN "closed"
                                          ELSE IF b \in Successor(w, take) THEN "active" ELSE row[b].status
  BY <1>1, SettledRow
<1>3. \A b \in Batches : row'[b].seq = row[b].seq
  BY <1>1 DEF Settled, SoundRows
<1>4. /\ Slice(w) \subseteq OpenBatches
      /\ Spent(w, take) \subseteq Slice(w) /\ Successor(w, take) \subseteq Slice(w)
  BY DEF Slice, Spent, Successor
<1>5. \A b \in Batches : row'[b].status \in Open => row'[b].seq > 0
  BY <1>2, <1>3, <1>4 DEF Numbered, OpenBatches, Open
<1>6. CASE Successor(w, take) = {}
  BY <1>2, <1>3, <1>6, KeepsQueueInv DEF KeepsQueue, Open
<1>7. ASSUME NEW q \in Successor(w, take) PROVE OneActive' /\ Numbered'
  <2>1. q \in Batches
    BY <1>4 DEF OpenBatches
  <2>2. ASSUME NEW b \in Batches \ {q}, row'[b].status = "active" PROVE FALSE
    <3>1. b \notin Spent(w, take)
      BY <1>2, <2>2
    <3>2. CASE b \in Successor(w, take)
      <4>1. ~ Earlier(w, b, q) /\ ~ Earlier(w, q, b)
        BY <1>7, <3>2 DEF Successor
      <4> QED
        BY <2>1, <2>2, <4>1, EarlierOrder
    <3>3. CASE Active(b) /\ b \in Slice(w)
      <4>1. ~ Earlier(w, b, q)
        BY <1>7, <3>1, <3>3 DEF Successor
      <4>2. Active(q)
        BY <3>3, <4>1 DEF Earlier
      <4> QED
        BY <2>1, <2>2, <3>3, <4>2 DEF OneActive
    <3>4. CASE Active(b) /\ b \notin Slice(w)
      <4>1. ~ Active(q)
        BY <2>1, <2>2, <3>4 DEF OneActive
      <4>2. Queued(q) /\ q \in Slice(w)
        BY <1>4, <1>7, <4>1 DEF OpenBatches, Open, Queued, Active
      <4>3. b \in ActiveIn(row) \ Slice(w)
        BY <3>4 DEF ActiveIn, Active
      <4> QED
        BY <1>1, <1>7, <4>2, <4>3 DEF Refused
    <3> QED
      BY <1>2, <2>2, <3>1, <3>2, <3>3, <3>4 DEF Active
  <2> QED
    BY <1>5, <2>1, <2>2, ActivateInv
<1> QED
  BY <1>6, <1>7

LEMMA PreviewQueue ==
    ASSUME QueueInv, NEW w \in Workers, PreviewAllocation(w)
    PROVE  OneActive' /\ Numbered'
<1> USE DEF QueueInv, TypeInv
<1>1. /\ NextUp(w) # {} => ActiveIn(row) = {}
      /\ row' = [b \in Batches |-> IF b \in NextUp(w) THEN [row[b] EXCEPT !.status = "active"] ELSE row[b]]
  BY DEF PreviewAllocation
<1>2. NextUp(w) \subseteq OpenBatches
  BY DEF NextUp, Slice
<1>3. \A b \in Batches : /\ row'[b].seq = row[b].seq
                         /\ row'[b].status = IF b \in NextUp(w) THEN "active" ELSE row[b].status
  BY <1>1 DEF SoundRows
<1>4. \A b \in Batches : row'[b].status \in Open => row'[b].seq > 0
  BY <1>2, <1>3 DEF Numbered, OpenBatches
<1>5. CASE NextUp(w) = {}
  BY <1>3, <1>5, KeepsQueueInv DEF KeepsQueue, Open
<1>6. ASSUME NEW q \in NextUp(w) PROVE OneActive' /\ Numbered'
  <2>1. q \in Batches /\ \A b \in Batches : row[b].status # "active"
    BY <1>1, <1>2, <1>6 DEF OpenBatches, ActiveIn
  <2>2. \A b \in NextUp(w) : b \in Batches /\ ~ Earlier(w, b, q) /\ ~ Earlier(w, q, b)
    BY <1>2, <1>6 DEF NextUp, OpenBatches
  <2>3. NextUp(w) = {q}
    BY <1>6, <2>1, <2>2, EarlierOrder
  <2> QED
    BY <1>3, <1>4, <2>1, <2>3, ActivateInv
<1> QED
  BY <1>5, <1>6

LEMMA QueueInvInit == Init => QueueInv
<1> SUFFICES ASSUME Init PROVE OneActive /\ Numbered
  BY TypeInvInit DEF QueueInv
<1> QED
  BY DEF Init, OneActive, Numbered, Active, OpenBatches, Open

LEMMA QueueInvStep == QueueInv /\ [Next]_vars => QueueInv'
<1> SUFFICES ASSUME QueueInv, [Next]_vars PROVE OneActive' /\ Numbered'
  BY TypeInvStep DEF QueueInv
<1>1. ASSUME NEW w \in Workers, Allocation(w) PROVE OneActive' /\ Numbered'
  <2>1. CASE AllocateToBatch(w)
    BY <2>1, SaleQueue
  <2>2. CASE PreviewAllocation(w)
    BY <2>2, PreviewQueue
  <2>3. CASE row' = row
    BY <2>3, KeepsQueueInv DEF KeepsQueue, QueueInv
  <2> QED
    BY <1>1, <2>1, <2>2, <2>3 DEF Allocation, StartAllocate, StartReserve, StartPreview, ReadLocks,
                                  TakeSnapshot, AllocateUnlimited, AllocateAgain, CreateBatchLocks
<1>2. ASSUME NEW l \in Lines, ReleaseAllocations(l) PROVE OneActive' /\ Numbered'
  BY <1>2, KeepsQueueInv DEF ReleaseAllocations, KeepsQueue, QueueInv, TypeInv, SoundRows
<1>3. CASE row' = row
  BY <1>3, KeepsQueueInv DEF KeepsQueue, QueueInv
<1> QED
  BY <1>1, <1>2, <1>3, AdminQueue DEF Next, vars, ReadLabel, SyncLabel, Abandon, ReleaseLocks

(* However requests race, stop and fail, one batch of a variant is active   *)
(* at most: the partial unique index is only asked where two might be.      *)
THEOREM ActiveCorrect == Spec => []OneActive
<1>1. QueueInv => OneActive
  BY DEF QueueInv
<1> QED
  BY <1>1, QueueInvInit, QueueInvStep, PTL DEF Spec

----------------------------------------------------------------------------
(* The rows in their order.                                                 *)
Rows == Cardinality(Existing)

IsList(list) ==
    /\ list \in [1 .. Rows -> Existing]
    /\ \A m, n \in 1 .. Rows : m < n => Ahead(list[m], list[n])

LEMMA PlaceType ==
    ASSUME SoundRows
    PROVE  /\ IsFiniteSet(Existing) /\ Rows \in Nat
           /\ \A c \in Existing : Place(c) \in 1 .. Rows
<1>1. IsFiniteSet(Existing) /\ Rows \in Nat
  BY AheadOrder, BatchesFinite, FS_Subset, FS_CardinalityType DEF Rows
<1>2. ASSUME NEW c \in Existing PROVE Place(c) \in 1 .. Rows
  <2> DEFINE S == {d \in Existing : Ahead(d, c)}
  <2>1. S \subseteq Existing \ {c}
    BY AheadOrder
  <2>2. IsFiniteSet(Existing \ {c}) /\ Cardinality(Existing \ {c}) = Rows - 1
    BY <1>1, FS_RemoveElement DEF Rows
  <2>3. IsFiniteSet(S) /\ Cardinality(S) <= Rows - 1
    BY <2>1, <2>2, FS_Subset
  <2>4. Cardinality(S) \in Nat
    BY <2>3, FS_CardinalityType
  <2>5. Place(c) = 1 + Cardinality(S)
    BY DEF Place
  <2> HIDE DEF S
  <2> QED
    BY <1>1, <2>3, <2>4, <2>5
<1> QED
  BY <1>1, <1>2

LEMMA ListedIs ==
    ASSUME SoundRows
    PROVE  IsList(Listed)
<1> DEFINE f == [c \in Existing |-> Place(c)]
<1>1. f \in [Existing -> 1 .. Rows]
  BY PlaceType
<1>2. \A a, b \in Existing : f[a] = f[b] => a = b
  BY PlaceStrict
<1>3. f \in Injection(Existing, 1 .. Rows)
  BY <1>1, <1>2 DEF Injection, IsInjective
<1>4. Rows \in Nat /\ IsFiniteSet(1 .. Rows) /\ Cardinality(1 .. Rows) = Rows
  <2>1. Rows \in Nat
    BY PlaceType
  <2>2. IsFiniteSet(1 .. Rows) /\ Cardinality(1 .. Rows) = IF 1 > Rows THEN 0 ELSE Rows - 1 + 1
    BY <2>1, FS_Interval
  <2> QED
    BY <2>1, <2>2
<1>5. f \in Surjection(Existing, 1 .. Rows)
  BY <1>3, <1>4, FS_Injection DEF Rows
<1>6. \A n \in 1 .. Rows : \E c \in Existing : Place(c) = n
  BY <1>5 DEF Surjection
<1> DEFINE list == [n \in 1 .. Rows |-> CHOOSE c \in Existing : Place(c) = n]
<1>7. \A n \in 1 .. Rows : list[n] \in Existing /\ Place(list[n]) = n
  BY <1>6
<1>8. ASSUME NEW m \in 1 .. Rows, NEW n \in 1 .. Rows, m < n PROVE Ahead(list[m], list[n])
  <2>1. list[m] # list[n]
    BY <1>7, <1>8
  <2>2. ~ Ahead(list[n], list[m])
    <3> SUFFICES ASSUME Ahead(list[n], list[m]) PROVE FALSE
      OBVIOUS
    <3> HIDE DEF list
    <3>1. Place(list[n]) < Place(list[m])
      BY <1>7, PlaceAhead
    <3> QED
      BY <1>7, <1>8, <3>1
  <2> HIDE DEF list
  <2> QED
    BY <1>7, <2>1, <2>2, AheadOrder
<1>9. list \in [1 .. Rows -> Existing]
  BY <1>7
<1> HIDE DEF list
<1>10. \E l \in [1 .. Rows -> Existing] : \A m, n \in DOMAIN l : m < n => Ahead(l[m], l[n])
  BY <1>8, <1>9
<1>11. /\ Listed \in [1 .. Rows -> Existing]
       /\ \A m, n \in DOMAIN Listed : m < n => Ahead(Listed[m], Listed[n])
  BY <1>10 DEF Listed, Rows
<1> QED
  BY <1>11 DEF IsList

(* A row stands in the list at its place.                                   *)
LEMMA ListedPlace ==
    ASSUME SoundRows
    PROVE  /\ \A n \in 1 .. Rows : Place(Listed[n]) = n
           /\ \A a \in Existing : Listed[Place(a)] = a
<1> DEFINE list == Listed
<1> HIDE DEF list
<1>1. /\ list \in [1 .. Rows -> Existing]
      /\ \A m, n \in 1 .. Rows : m < n => Ahead(list[m], list[n])
  BY ListedIs DEF IsList, list
<1>2. Rows \in Nat /\ IsFiniteSet(Existing)
  BY PlaceType
<1>3. \A m, n \in 1 .. Rows : list[m] = list[n] => m = n
  <2> SUFFICES ASSUME NEW m \in 1 .. Rows, NEW n \in 1 .. Rows, list[m] = list[n], m # n PROVE FALSE
    OBVIOUS
  <2>1. m < n \/ n < m
    BY <1>2
  <2>2. Ahead(list[m], list[m])
    BY <1>1, <2>1
  <2> QED
    BY <1>1, <2>2, AheadOrder
<1>4. list \in Injection(1 .. Rows, Existing)
  BY <1>1, <1>3 DEF Injection, IsInjective
<1>5. IsFiniteSet(1 .. Rows) /\ Cardinality(1 .. Rows) = Cardinality(Existing)
  <2>1. IsFiniteSet(1 .. Rows) /\ Cardinality(1 .. Rows) = IF 1 > Rows THEN 0 ELSE Rows - 1 + 1
    BY <1>2, FS_Interval
  <2> QED
    BY <1>2, <2>1 DEF Rows
<1>6. list \in Surjection(1 .. Rows, Existing)
  BY <1>2, <1>4, <1>5, FS_Injection
<1>7. ASSUME NEW n \in 1 .. Rows PROVE Place(list[n]) = n
  <2> DEFINE S == {d \in Existing : Ahead(d, list[n])}
             g == [m \in 1 .. n - 1 |-> list[m]]
  <2>1. list[n] \in Existing /\ \A m \in 1 .. n - 1 : m \in 1 .. Rows /\ m < n
    BY <1>1, <1>2
  <2>2. g \in [1 .. n - 1 -> S]
    BY <1>1, <2>1
  <2>3. \A m, k \in 1 .. n - 1 : g[m] = g[k] => m = k
    BY <1>3, <2>1
  <2>4. \A d \in S : \E m \in 1 .. n - 1 : g[m] = d
    <3> SUFFICES ASSUME NEW d \in S PROVE \E m \in 1 .. n - 1 : list[m] = d
      OBVIOUS
    <3>1. PICK m \in 1 .. Rows : list[m] = d
      BY <1>6 DEF Surjection
    <3>2. ~ n < m /\ n # m
      BY <1>1, <2>1, <3>1, AheadOrder
    <3>3. m \in 1 .. n - 1
      BY <1>2, <3>2
    <3> QED
      BY <3>1, <3>3
  <2>5. g \in Bijection(1 .. n - 1, S)
    BY <2>2, <2>3, <2>4 DEF Bijection, Injection, Surjection, IsInjective
  <2>6. ExistsBijection(1 .. n - 1, S)
    BY <2>5 DEF ExistsBijection
  <2>7. n \in Nat /\ n >= 1
    BY <1>2
  <2>8. IsFiniteSet(1 .. n - 1) /\ Cardinality(1 .. n - 1) = IF 1 > n - 1 THEN 0 ELSE n - 1 - 1 + 1
    BY <2>7, FS_Interval
  <2>9. Cardinality(S) = Cardinality(1 .. n - 1)
    BY <2>6, <2>8, FS_Bijection
  <2>10. Place(list[n]) = 1 + Cardinality(S)
    BY DEF Place
  <2> HIDE DEF S
  <2> QED
    BY <2>7, <2>8, <2>9, <2>10
<1>8. ASSUME NEW a \in Existing PROVE list[Place(a)] = a
  <2>1. PICK n \in 1 .. Rows : list[n] = a
    BY <1>6 DEF Surjection
  <2> QED
    BY <1>7, <2>1
<1> QED
  BY <1>7, <1>8 DEF list

(* Cutting a row out of a list and inserting it at its place.               *)
Without(list, from, i) == IF i < from THEN list[i] ELSE list[i + 1]

Inserted(list, k, from, to, e, s) ==
    \A n \in 1 .. k : s[n] = IF n = to THEN e ELSE Without(list, from, IF n > to THEN n - 1 ELSE n)

LEMMA InsertRemove ==
    ASSUME NEW S, NEW k \in Nat, NEW list \in [1 .. k -> S],
           NEW from \in 1 .. k, NEW to \in 1 .. k, NEW e \in S, NEW s,
           s = InsertAt(RemoveAt(list, from), to, e)
    PROVE  /\ s \in [1 .. k -> S]
           /\ Inserted(list, k, from, to, e, s)
<1>1. list \in Seq(S) /\ Len(list) = k
  OBVIOUS
<1> DEFINE front == SubSeq(list, 1, from - 1)
           back  == SubSeq(list, from + 1, k)
           cut   == front \o back
<1>2. /\ front \in Seq(S) /\ Len(front) = from - 1
      /\ \A i \in 1 .. from - 1 : front[i] = list[i]
  <2>1. \A i \in 1 .. from - 1 : list[i] \in S
    OBVIOUS
  <2>2. /\ front \in Seq(S)
        /\ Len(front) = IF 1 <= from - 1 THEN from - 1 - 1 + 1 ELSE 0
        /\ \A i \in 1 .. from - 1 - 1 + 1 : front[i] = list[1 + i - 1]
    BY <2>1, SubSeqProperties
  <2> HIDE DEF front
  <2> QED
    BY <2>2
<1>3. /\ back \in Seq(S) /\ Len(back) = k - from
      /\ \A i \in 1 .. k - from : back[i] = list[from + i]
  <2>1. \A i \in from + 1 .. k : list[i] \in S
    OBVIOUS
  <2>2. /\ back \in Seq(S)
        /\ Len(back) = IF from + 1 <= k THEN k - (from + 1) + 1 ELSE 0
        /\ \A i \in 1 .. k - (from + 1) + 1 : back[i] = list[from + 1 + i - 1]
    BY <2>1, SubSeqProperties
  <2> HIDE DEF back
  <2> QED
    BY <2>2
<1>4. /\ cut \in Seq(S) /\ Len(cut) = k - 1
      /\ \A i \in 1 .. k - 1 : cut[i] = Without(list, from, i)
  <2> HIDE DEF front, back
  <2>0. /\ cut \in Seq(S) /\ Len(cut) = Len(front) + Len(back)
        /\ \A i \in 1 .. Len(front) + Len(back) :
              cut[i] = IF i <= Len(front) THEN front[i] ELSE back[i - Len(front)]
    BY <1>2, <1>3, ConcatProperties
  <2> HIDE DEF cut
  <2>1. /\ cut \in Seq(S) /\ Len(cut) = k - 1
        /\ \A i \in 1 .. k - 1 : cut[i] = IF i <= from - 1 THEN front[i] ELSE back[i - (from - 1)]
    BY <1>2, <1>3, <2>0
  <2>2. ASSUME NEW i \in 1 .. k - 1 PROVE cut[i] = Without(list, from, i)
    <3>1. CASE i < from
      BY <1>2, <2>1, <3>1 DEF Without
    <3>2. CASE i >= from
      <4>1. i - (from - 1) \in 1 .. k - from /\ from + (i - (from - 1)) = i + 1
        BY <3>2
      <4> QED
        BY <1>3, <2>1, <3>2, <4>1 DEF Without
    <3> QED
      BY <3>1, <3>2
  <2> QED
    BY <2>1, <2>2
<1>5. RemoveAt(list, from) = cut
  BY <1>1 DEF RemoveAt
<1> HIDE DEF cut
<1> DEFINE first == SubSeq(cut, 1, to - 1)
           rest  == SubSeq(cut, to, k - 1)
<1>6. \A i \in 1 .. k - 1 : cut[i] \in S
  BY <1>4, ElementOfSeq
<1>7. /\ first \in Seq(S) /\ Len(first) = to - 1
      /\ \A i \in 1 .. to - 1 : first[i] = cut[i]
  <2>1. \A i \in 1 .. to - 1 : cut[i] \in S
    BY <1>6
  <2>2. /\ first \in Seq(S)
        /\ Len(first) = IF 1 <= to - 1 THEN to - 1 - 1 + 1 ELSE 0
        /\ \A i \in 1 .. to - 1 - 1 + 1 : first[i] = cut[1 + i - 1]
    BY <2>1, SubSeqProperties
  <2> HIDE DEF first
  <2> QED
    BY <2>2
<1>8. /\ rest \in Seq(S) /\ Len(rest) = k - to
      /\ \A i \in 1 .. k - to : rest[i] = cut[to + i - 1]
  <2>1. \A i \in to .. k - 1 : cut[i] \in S
    BY <1>6
  <2>2. /\ rest \in Seq(S)
        /\ Len(rest) = IF to <= k - 1 THEN k - 1 - to + 1 ELSE 0
        /\ \A i \in 1 .. k - 1 - to + 1 : rest[i] = cut[to + i - 1]
    BY <2>1, SubSeqProperties
  <2> HIDE DEF rest
  <2> QED
    BY <2>2
<1>9. <<e>> \in Seq(S) /\ Len(<<e>>) = 1 /\ <<e>>[1] = e
  OBVIOUS
<1>10. s = first \o <<e>> \o rest
  BY <1>4, <1>5 DEF InsertAt
<1> HIDE DEF first, rest
<1> DEFINE mid == first \o <<e>>
<1>11. /\ mid \in Seq(S) /\ Len(mid) = to
       /\ \A i \in 1 .. to : mid[i] = IF i <= to - 1 THEN first[i] ELSE e
  <2>1. /\ mid \in Seq(S) /\ Len(mid) = to - 1 + 1
        /\ \A i \in 1 .. to - 1 + 1 : mid[i] = IF i <= to - 1 THEN first[i] ELSE <<e>>[i - (to - 1)]
    BY <1>7, <1>9, ConcatProperties
  <2>2. to - 1 + 1 = to /\ \A i \in 1 .. to : ~ (i <= to - 1) => i - (to - 1) = 1
    OBVIOUS
  <2> QED
    BY <1>9, <2>1, <2>2
<1>12. s = mid \o rest
  BY <1>10
<1> HIDE DEF mid
<1>13. /\ s \in Seq(S) /\ Len(s) = k
       /\ \A i \in 1 .. k : s[i] = IF i <= to THEN mid[i] ELSE rest[i - to]
  <2>0. mid \in Seq(S) /\ rest \in Seq(S)
    BY <1>8, <1>11
  <2>1. /\ s \in Seq(S) /\ Len(s) = Len(mid) + Len(rest)
        /\ \A i \in 1 .. Len(mid) + Len(rest) :
              s[i] = IF i <= Len(mid) THEN mid[i] ELSE rest[i - Len(mid)]
    BY <1>12, <2>0, ConcatProperties
  <2>2. Len(mid) + Len(rest) = k
    BY <1>8, <1>11
  <2> QED
    BY <1>11, <2>1, <2>2
<1>14. s \in [1 .. k -> S]
  BY <1>13, LenProperties
<1>15. ASSUME NEW n \in 1 .. k
       PROVE  s[n] = IF n = to THEN e ELSE Without(list, from, IF n > to THEN n - 1 ELSE n)
  <2>1. CASE n = to
    BY <1>11, <1>13, <2>1
  <2>2. CASE n < to
    <3>1. s[n] = cut[n] /\ n \in 1 .. k - 1
      BY <1>7, <1>11, <1>13, <2>2
    <3> QED
      BY <1>4, <2>2, <3>1
  <2>3. CASE n > to
    <3>1. n - to \in 1 .. k - to /\ to + (n - to) - 1 = n - 1 /\ n - 1 \in 1 .. k - 1
      BY <2>3
    <3>2. s[n] = rest[n - to]
      BY <1>13, <2>3
    <3>3. rest[n - to] = cut[n - 1]
      BY <1>8, <3>1
    <3> QED
      BY <1>4, <2>3, <3>1, <3>2, <3>3
  <2> QED
    BY <2>1, <2>2, <2>3
<1> QED
  BY <1>14, <1>15 DEF Inserted

(* After the surgery every row stands at the place Moved gives it.          *)
LEMMA SplicedIs ==
    ASSUME SoundRows, NEW b \in Existing, NEW to \in 1 .. Rows, NEW s, s = Spliced(b, to)
    PROVE  /\ s \in [1 .. Rows -> Existing]
           /\ \A a \in Existing : Moved(b, to)[a] \in 1 .. Rows /\ s[Moved(b, to)[a]] = a
           /\ s = Listed <=> to = Place(b)
<1> DEFINE list == Listed
           from == Place(b)
<1>1. Index(list, b) = from
  <2>1. DOMAIN list = 1 .. Rows
    BY ListedIs DEF IsList
  <2>2. \A n \in 1 .. Rows : list[n] = b <=> n = from
    BY ListedPlace, PlaceType
  <2>3. from \in 1 .. Rows
    BY PlaceType
  <2> HIDE DEF list, from
  <2> QED
    BY <2>1, <2>2, <2>3 DEF Index
<1>2. s = IF from = to THEN list ELSE InsertAt(RemoveAt(list, from), to, b)
  BY <1>1 DEF Spliced
<1>3. list \in [1 .. Rows -> Existing] /\ Rows \in Nat
  BY ListedIs, PlaceType DEF IsList
<1>4. \A a \in Existing : Place(a) \in 1 .. Rows /\ list[Place(a)] = a
  BY PlaceType, ListedPlace
<1>5. \A a \in Existing : a # b => Place(a) # from
  BY PlaceStrict
<1>6. \A n \in 1 .. Rows : Place(list[n]) = n
  BY ListedPlace
<1>7. \A a \in Existing : a \in Batches
  BY DEF Existing
<1>8. \A a \in Existing :
         Moved(b, to)[a] = LET p == IF Place(a) > from THEN Place(a) - 1 ELSE Place(a)
                           IN  IF a = b THEN to ELSE IF p >= to THEN p + 1 ELSE p
  BY <1>7 DEF Moved
<1> HIDE DEF list
<1>9. from \in 1 .. Rows
  BY <1>4
<1> HIDE DEF from
<1>10. CASE from = to
  <2>1. s = list
    BY <1>2, <1>10
  <2>2. ASSUME NEW a \in Existing PROVE Moved(b, to)[a] = Place(a)
    <3>1. Place(a) \in 1 .. Rows /\ (a # b => Place(a) # from)
      BY <1>4, <1>5
    <3>2. a = b => Place(a) = from
      BY DEF from
    <3> QED
      BY <1>3, <1>8, <1>10, <3>1, <3>2
  <2> QED
    BY <1>3, <1>4, <1>10, <2>1, <2>2 DEF list, from
<1>11. CASE from # to
  <2>1. s = InsertAt(RemoveAt(list, from), to, b)
    BY <1>2, <1>11
  <2>2. /\ s \in [1 .. Rows -> Existing]
        /\ Inserted(list, Rows, from, to, b, s)
    BY <1>3, <1>9, <2>1, InsertRemove
  <2>3. ASSUME NEW a \in Existing PROVE Moved(b, to)[a] \in 1 .. Rows /\ s[Moved(b, to)[a]] = a
    <3>1. Place(a) \in 1 .. Rows /\ (a # b => Place(a) # from) /\ list[Place(a)] = a
      BY <1>4, <1>5
    <3>2. CASE a = b
      BY <1>8, <2>2, <3>2 DEF Inserted
    <3>3. CASE a # b
      <4> DEFINE p == IF Place(a) > from THEN Place(a) - 1 ELSE Place(a)
                 m == IF p >= to THEN p + 1 ELSE p
      <4>1. Moved(b, to)[a] = m
        BY <1>8, <3>3
      <4>2. m \in 1 .. Rows /\ m # to /\ p = IF m > to THEN m - 1 ELSE m
        BY <1>3, <1>9, <3>1, <3>3
      <4>3. s[m] = IF p < from THEN list[p] ELSE list[p + 1]
        BY <2>2, <4>2 DEF Without, Inserted
      <4>4. Place(a) = IF p < from THEN p ELSE p + 1
        BY <1>3, <1>9, <3>1, <3>3
      <4> HIDE DEF m, p
      <4> QED
        BY <3>1, <4>1, <4>2, <4>3, <4>4
    <3> QED
      BY <3>2, <3>3
  <2>4. s # list
    <3>1. s[to] = b
      BY <2>2 DEF Inserted
    <3>2. Place(list[to]) = to
      BY <1>6
    <3> QED
      BY <1>11, <3>1, <3>2 DEF from
  <2> QED
    BY <1>11, <2>2, <2>3, <2>4 DEF list, from
<1> QED
  BY <1>10, <1>11

(* What applyReorder returns is what ReorderBatch writes.                   *)
LEMMA SpliceInv ==
    ASSUME SoundRows, NEW w \in Workers, NEW b \in Batches, NEW to \in Batches, ReorderBatch(w, b, to)
    PROVE  row' = Renumbered(b, to)
<1> DEFINE s == Spliced(b, to)
           place == Moved(b, to)
<1>1. b \in Existing /\ to \in 1 .. Rows /\ OpenBatches \subseteq Existing
  BY DEF ReorderBatch, OpenBatches, Existing, Open, Rows
<1>2. /\ s \in [1 .. Rows -> Existing]
      /\ \A a \in Existing : place[a] \in 1 .. Rows /\ s[place[a]] = a
      /\ s = Listed <=> to = Place(b)
  BY <1>1, SplicedIs
<1>3. row' = [a \in Batches |->
                IF a \notin Existing THEN row[a]
                ELSE [row[a] EXCEPT
                        !.seq = IF to = Place(b) THEN @ ELSE place[a],
                        !.status = IF a \notin OpenBatches THEN @
                                   ELSE IF \A c \in OpenBatches : place[a] <= place[c] THEN "active"
                                   ELSE "queued"]]
  BY DEF ReorderBatch
<1>4. Renumbered(b, to) =
        [a \in Batches |->
            IF a \notin Existing THEN row[a]
            ELSE [row[a] EXCEPT
                     !.seq = IF s = Listed THEN @ ELSE Index(s, a),
                     !.status = SyncedStatus(s, a)]]
  BY DEF Renumbered
<1>5. IsFiniteSet(Existing) /\ Rows \in Nat
  BY PlaceType
<1> HIDE DEF s, place
<1>6. \A m, n \in 1 .. Rows : s[m] = s[n] => m = n
  <2>1. s \in Surjection(1 .. Rows, Existing)
    BY <1>2 DEF Surjection
  <2>2. IsFiniteSet(1 .. Rows) /\ Cardinality(1 .. Rows) = IF 1 > Rows THEN 0 ELSE Rows - 1 + 1
    BY <1>5, FS_Interval
  <2>3. Cardinality(1 .. Rows) = Cardinality(Existing)
    BY <1>5, <2>2 DEF Rows
  <2>4. s \in Injection(1 .. Rows, Existing)
    BY <2>1, <2>2, <2>3, FS_Surjection
  <2>5. DOMAIN s = 1 .. Rows
    BY <1>2
  <2> QED
    BY <2>4, <2>5 DEF Injection, IsInjective
<1>7. ASSUME NEW a \in Existing PROVE Index(s, a) = place[a]
  <2>1. DOMAIN s = 1 .. Rows /\ \A n \in DOMAIN s : s[n] = a <=> n = place[a]
    BY <1>2, <1>6
  <2> QED
    BY <1>2, <2>1 DEF Index
<1>8. ASSUME NEW a \in Existing
      PROVE  SyncedStatus(s, a) = IF a \notin OpenBatches THEN row[a].status
                                  ELSE IF \A c \in OpenBatches : place[a] <= place[c] THEN "active"
                                  ELSE "queued"
  <2>1. a \in Batches /\ (a \in OpenBatches <=> row[a].status \in Open)
    BY DEF Existing, OpenBatches
  <2>2. SyncedStatus(s, a) = IF row[a].status \notin Open THEN row[a].status
                             ELSE IF \A n \in 1 .. place[a] - 1 : row[s[n]].status \notin Open
                                  THEN "active" ELSE "queued"
    BY <1>7 DEF SyncedStatus
  <2>3. ASSUME \A n \in 1 .. place[a] - 1 : row[s[n]].status \notin Open, NEW c \in OpenBatches
        PROVE  place[a] <= place[c]
    <3>1. c \in Existing /\ row[c].status \in Open
      BY <1>1 DEF OpenBatches
    <3>2. place[c] \in 1 .. Rows /\ place[a] \in 1 .. Rows /\ s[place[c]] = c
      BY <1>2, <3>1
    <3>3. ~ place[c] \in 1 .. place[a] - 1
      BY <2>3, <3>1, <3>2
    <3> QED
      BY <1>5, <3>2, <3>3
  <2>4. ASSUME \A c \in OpenBatches : place[a] <= place[c], NEW n \in 1 .. place[a] - 1
        PROVE  row[s[n]].status \notin Open
    <3>1. place[a] \in 1 .. Rows
      BY <1>2
    <3>2. n \in 1 .. Rows /\ n < place[a]
      BY <1>5, <3>1
    <3>3. s[n] \in Existing /\ s[n] \in Batches
      BY <1>2, <3>2 DEF Existing
    <3>4. place[s[n]] = n
      BY <1>2, <1>6, <3>2, <3>3
    <3>5. s[n] \notin OpenBatches
      BY <2>4, <3>1, <3>2, <3>4
    <3> QED
      BY <3>3, <3>5 DEF OpenBatches
  <2> QED
    BY <2>1, <2>2, <2>3, <2>4
<1>9. ASSUME NEW a \in Existing
      PROVE  (IF s = Listed THEN row[a].seq ELSE Index(s, a)) = IF to = Place(b) THEN row[a].seq ELSE place[a]
  BY <1>2, <1>7
<1> QED
  BY <1>3, <1>4, <1>8, <1>9

(* A reorder request leaves the rows as applyReorder leaves them: the batch *)
(* cut out of the list and inserted at its place, the rows renumbered when  *)
(* that changed the list, the first open one active.                        *)
THEOREM SpliceCorrect == Spec => ReorderIsTheSplice
<1>1. TypeInv /\ [Next]_vars =>
        [\A w \in Workers, b \in Batches, to \in Batches :
            ReorderBatch(w, b, to) => row' = Renumbered(b, to)]_vars
  BY SpliceInv DEF TypeInv
<1> QED
  BY <1>1, TypeInvInit, TypeInvStep, PTL DEF Spec, ReorderIsTheSplice

----------------------------------------------------------------------------
(* The loop of a sale.  After some turns the rows of D, the first ones, are *)
(* emptied and closed and the next one is active.                           *)
FirstOpen(w, D) == {b \in Slice(w) \ D : \A a \in Slice(w) \ D : ~ Earlier(w, a, b)}

Prefix(w, D) == D \subseteq Slice(w) /\ \A d \in D, a \in Slice(w) : Earlier(w, a, d) => a \in D

Emptied(w, D) == [b \in Batches |-> IF b \in D THEN Free(w, b) ELSE 0]

Marked(D, H) == [b \in Batches |-> IF b \in D THEN "closed" ELSE IF b \in H THEN "active" ELSE row[b].status]

Outside(w) == ActiveIn(row) \ Slice(w) # {}

State(st, take, left, unlimited, refused) ==
    [st |-> st, take |-> take, left |-> left, unlimited |-> unlimited, refused |-> refused]

Going(w, D) ==
    State(Marked(D, IF D = {} THEN {} ELSE FirstOpen(w, D)), Emptied(w, D),
          Qty(w) - Total(Emptied(w, D), Batches), 0, D # {} /\ Outside(w))

Gone(w, take) ==
    State(Marked(Spent(w, take), Successor(w, take)), take, 0, Qty(w) - Total(take, Batches), Outside(w))

Executing(w) == QueueInv /\ w \in Workers /\ At(w, "execute") /\ Slice(w) # {}

LEMMA ExecutingType ==
    ASSUME NEW w, Executing(w)
    PROVE  /\ Qty(w) \in Nat /\ Qty(w) > 0
           /\ Slice(w) \subseteq OpenBatches /\ Slice(w) \subseteq Batches
           /\ \A b \in Batches : /\ Free(w, b) \in Nat /\ (b \notin Slice(w) => Free(w, b) = 0)
                                 /\ row[b].status \in Statuses
                                 /\ (b \in Slice(w) => Active(b) \/ Queued(b))
<1> USE DEF Executing, QueueInv, TypeInv
<1>1. req[w].line \in Lines
  BY RequestAt DEF Sound, At
<1>2. Qty(w) \in Nat /\ Qty(w) > 0
  BY <1>1, LinesAssumption DEF Qty
<1>3. \A b \in Batches : Free(w, b) \in Nat /\ (b \notin Slice(w) => Free(w, b) = 0)
  BY FreeType DEF Free
<1>4. Slice(w) \subseteq OpenBatches /\ OpenBatches \subseteq Batches
  BY DEF Slice, OpenBatches
<1>5. \A b \in Batches : row[b].status \in Statuses
  BY DEF SoundRows
<1> QED
  BY <1>2, <1>3, <1>4, <1>5 DEF OpenBatches, Active, Queued, Open

(* The first of some rows.                                                  *)
LEMMA EarlierLeast ==
    ASSUME SoundRequests, NEW w \in Workers, NEW T, T \subseteq Batches, T # {}
    PROVE  \E m \in T : \A a \in T : ~ Earlier(w, a, m) /\ (a # m => Earlier(w, m, a))
<1> DEFINE R == {p \in T \X T : Earlier(w, p[1], p[2])}
<1>1. \A a, b \in T : <<a, b>> \in R <=> Earlier(w, a, b)
  OBVIOUS
<1>2. IsFiniteSet(T)
  BY BatchesFinite, FS_Subset
<1> HIDE DEF R
<1>3. /\ \A a \in T : <<a, a>> \notin R
      /\ \A a, b, c \in T : <<a, b>> \in R /\ <<b, c>> \in R => <<a, c>> \in R
  BY <1>1, EarlierOrder
<1>4. PICK m \in T : \A a \in T : <<a, m>> \notin R
  BY <1>2, <1>3, FiniteLeast
<1> QED
  BY <1>1, <1>4, EarlierOrder

LEMMA HeadIs ==
    ASSUME NEW w, Executing(w), NEW D
    PROVE  /\ Slice(w) \subseteq D => FirstOpen(w, D) = {}
           /\ ~ (Slice(w) \subseteq D) =>
                 \E h \in Slice(w) \ D : /\ FirstOpen(w, D) = {h}
                                         /\ \A a \in Slice(w) \ D : a # h => Earlier(w, h, a)
<1> USE DEF Executing, QueueInv, TypeInv
<1>1. Slice(w) \subseteq D => FirstOpen(w, D) = {}
  BY DEF FirstOpen
<1>2. ASSUME ~ (Slice(w) \subseteq D)
      PROVE  \E h \in Slice(w) \ D : /\ FirstOpen(w, D) = {h}
                                     /\ \A a \in Slice(w) \ D : a # h => Earlier(w, h, a)
  <2>1. Slice(w) \ D \subseteq Batches /\ Slice(w) \ D # {}
    BY <1>2, ExecutingType
  <2>2. PICK h \in Slice(w) \ D : \A a \in Slice(w) \ D : ~ Earlier(w, a, h) /\ (a # h => Earlier(w, h, a))
    BY <2>1, EarlierLeast
  <2> QED
    BY <2>2 DEF FirstOpen
<1> QED
  BY <1>1, <1>2

(* Only the first row of the loop can be active already.                    *)
LEMMA RestQueued ==
    ASSUME NEW w, Executing(w), NEW D, Prefix(w, D), D # {} \/ Outside(w)
    PROVE  \A a \in Slice(w) \ D : Queued(a)
<1> SUFFICES ASSUME NEW a \in Slice(w) \ D, Active(a) PROVE FALSE
  BY ExecutingType
<1>1. a \in Batches /\ \A b \in Batches : Active(b) => b = a
  BY ExecutingType DEF Executing, QueueInv, OneActive
<1>2. CASE Outside(w)
  BY <1>1, <1>2 DEF Outside, ActiveIn, Active
<1>3. ASSUME NEW d \in D PROVE FALSE
  <2>1. d \in Slice(w) /\ d # a /\ d \in Batches
    BY <1>3, ExecutingType DEF Prefix
  <2>2. Earlier(w, a, d)
    BY <1>1, <2>1 DEF Earlier
  <2> QED
    BY <1>3, <2>2 DEF Prefix
<1> QED
  BY <1>2, <1>3

LEMMA PromoteIs ==
    ASSUME NEW w, NEW st, NEW take, NEW left, NEW unlimited, NEW refused,
           NEW H, H = FirstWith(w, State(st, take, left, unlimited, refused), "queued")
    PROVE  Promote(w, State(st, take, left, unlimited, refused)) =
              State([b \in Batches |-> IF b \in H THEN "active" ELSE st[b]], take, left, unlimited,
                    refused \/ (H # {} /\ \E b \in Batches : st[b] = "active"))
<1> DEFINE s == State(st, take, left, unlimited, refused)
           A == [b \in Batches |-> IF b \in H THEN "active" ELSE st[b]]
           B == refused \/ (H # {} /\ \E b \in Batches : st[b] = "active")
<1>1. s.st = st /\ s.refused = refused
  BY DEF State
<1>2. Promote(w, s) = [s EXCEPT !.st = [b \in Batches |-> IF b \in H THEN "active" ELSE s.st[b]],
                                !.refused = s.refused \/ (H # {} /\ \E b \in Batches : s.st[b] = "active")]
  BY Zenon DEF Promote
<1>3. Promote(w, s) = [s EXCEPT !.st = A, !.refused = B]
  BY <1>1, <1>2, Zenon
<1>4. [s EXCEPT !.st = A, !.refused = B] = State(A, take, left, unlimited, B)
  <2> HIDE DEF A, B
  <2>1. [s EXCEPT !.st = A, !.refused = B] = [[s EXCEPT !.st = A] EXCEPT !.refused = B]
    BY SMT
  <2>2. [s EXCEPT !.st = A] = State(A, take, left, unlimited, refused)
    BY SMT DEF State
  <2>3. [State(A, take, left, unlimited, refused) EXCEPT !.refused = B] = State(A, take, left, unlimited, B)
    BY SMT DEF State
  <2> QED
    BY <2>1, <2>2, <2>3, Zenon
<1> QED
  BY <1>3, <1>4, Zenon

(* With nothing but queued rows left, the first of them is the next one.    *)
LEMMA NextIsHead ==
    ASSUME NEW w, Executing(w), NEW D, NEW s,
           \A a \in Slice(w) \ D : Queued(a) /\ s.st[a] = "queued",
           \A a \in Slice(w) : a \in D => s.st[a] # "queued"
    PROVE  FirstWith(w, s, "queued") = FirstOpen(w, D)
<1>1. \A a \in Slice(w) : s.st[a] = "queued" <=> a \notin D
  OBVIOUS
<1>2. \A a, b \in Slice(w) \ D : ~ Active(a) /\ ~ Active(b) /\ (Ranked(w, a, b) <=> Earlier(w, a, b))
  BY DEF Earlier, Active, Queued
<1> QED
  BY <1>1, <1>2 DEF FirstWith, FirstOpen

----------------------------------------------------------------------------
(* One turn of the loop with row h first.                                   *)
Foremost(w, D, h) ==
    /\ Executing(w) /\ Prefix(w, D)
    /\ h \in Slice(w) \ D /\ \A a \in Slice(w) \ D : a # h => Earlier(w, h, a)
    /\ Total(Emptied(w, D), Batches) < Qty(w)

Chosen(w, D, h) ==
    State(Marked(D, {h}), Emptied(w, D), Qty(w) - Total(Emptied(w, D), Batches), 0, Outside(w))

Filled(w, D, h, n) == [b \in Batches |-> IF b = h THEN n ELSE Emptied(w, D)[b]]

LEMMA EmptiedType ==
    ASSUME NEW w, Executing(w), NEW D
    PROVE  /\ \A b \in Batches : Emptied(w, D)[b] \in Nat
           /\ Total(Emptied(w, D), Batches) \in Nat
<1>1. \A b \in Batches : Emptied(w, D)[b] \in Nat
  BY ExecutingType DEF Emptied
<1> QED
  BY <1>1, BatchesFinite, TotalType

LEMMA RestOfHead ==
    ASSUME NEW w, NEW D, NEW h, Foremost(w, D, h)
    PROVE  /\ FirstOpen(w, D) = {h} /\ Prefix(w, D \cup {h})
           /\ h \in Batches /\ h \notin D /\ D \subseteq Batches
           /\ \A a \in Slice(w) \ (D \cup {h}) : Queued(a) /\ row[a].status = "queued"
           /\ \A a \in Slice(w) : Earlier(w, a, h) => a \in D
           /\ Qty(w) \in Nat /\ Free(w, h) \in Nat
<1> USE DEF Foremost
<1>1. /\ h \in Batches /\ Slice(w) \subseteq Batches /\ D \subseteq Slice(w)
      /\ Qty(w) \in Nat /\ Free(w, h) \in Nat
  BY ExecutingType DEF Prefix
<1>2. \A a, b \in Batches : Earlier(w, a, b) => ~ Earlier(w, b, a)
  BY EarlierOrder DEF Executing, QueueInv, TypeInv
<1>3. \A a \in Slice(w) : Earlier(w, a, h) => a \in D
  BY <1>1, <1>2, EarlierOrder DEF Executing, QueueInv, TypeInv
<1>4. Prefix(w, D \cup {h})
  BY <1>1, <1>3 DEF Prefix
<1>5. FirstOpen(w, D) = {h}
  BY <1>1, <1>2, <1>3 DEF FirstOpen
<1>6. ASSUME NEW a \in Slice(w) \ (D \cup {h}) PROVE Queued(a)
  <2>1. Earlier(w, h, a) /\ a \in Batches /\ (Active(a) \/ Queued(a))
    BY <1>1, <1>6, ExecutingType
  <2>2. ~ (Active(h) /\ Active(a))
    BY <1>1, <1>6, <2>1 DEF Executing, QueueInv, OneActive
  <2> QED
    BY <2>1, <2>2 DEF Earlier
<1> QED
  BY <1>1, <1>3, <1>4, <1>5, <1>6 DEF Queued

LEMMA OnlyHead ==
    ASSUME NEW w, NEW D, NEW h, Foremost(w, D, h), NEW s, s.st = Marked(D, {h})
    PROVE  FirstWith(w, s, "active") = {h}
<1>1. \A a \in Slice(w) : s.st[a] = "active" <=> a = h
  <2>1. /\ h \in Slice(w) /\ h \in Batches /\ h \notin D /\ Slice(w) \subseteq Batches
        /\ \A a \in Slice(w) \ (D \cup {h}) : row[a].status = "queued"
    <3>1. h \in Slice(w) /\ Executing(w)
      BY DEF Foremost
    <3> QED
      BY <3>1, RestOfHead, ExecutingType
  <2> QED
    BY <2>1 DEF Marked
<1>2. h \in Slice(w) /\ h \in Batches
  BY RestOfHead DEF Foremost
<1>3. ~ Ranked(w, h, h)
  BY <1>2, EarlierOrder DEF Earlier, Foremost, Executing, QueueInv, TypeInv
<1> QED
  BY <1>1, <1>2, <1>3 DEF FirstWith

LEMMA ChosenIs ==
    ASSUME NEW w, NEW D, NEW h, Foremost(w, D, h)
    PROVE  (IF FirstWith(w, Going(w, D), "active") = {} THEN Promote(w, Going(w, D)) ELSE Going(w, D))
              = Chosen(w, D, h)
<1> DEFINE left == Qty(w) - Total(Emptied(w, D), Batches)
<1>1. /\ h \in Slice(w) \ D /\ h \in Batches /\ Slice(w) \subseteq Batches
      /\ \A a, b \in Batches : Active(a) /\ Active(b) => a = b
      /\ \A a \in Slice(w) : Active(a) \/ Queued(a)
  BY RestOfHead, ExecutingType DEF Foremost, Executing, QueueInv, OneActive
<1>2. CASE D # {}
  <2>1. Going(w, D) = Chosen(w, D, h)
    <3>1. (IF D = {} THEN {} ELSE FirstOpen(w, D)) = {h}
      BY <1>2, RestOfHead
    <3>2. (D # {} /\ Outside(w)) = Outside(w)
      BY <1>2 DEF Outside
    <3> QED
      BY <3>1, <3>2, Zenon DEF Going, Chosen
  <2>2. Chosen(w, D, h).st = Marked(D, {h})
    BY DEF Chosen, State
  <2>3. FirstWith(w, Going(w, D), "active") = {h}
    <3>1. Going(w, D).st = Marked(D, {h})
      BY <2>1, <2>2
    <3> QED
      BY <3>1, OnlyHead
  <2>4. {h} # {}
    OBVIOUS
  <2> QED
    BY <2>1, <2>3, <2>4, Zenon
<1>3. CASE D = {} /\ Active(h)
  <2>1. Marked(D, {}) = Marked(D, {h})
    BY <1>3 DEF Marked, Active
  <2>2. ~ Outside(w)
    BY <1>1, <1>3 DEF Outside, ActiveIn, Active
  <2>3. Going(w, D) = Chosen(w, D, h)
    <3>1. (IF D = {} THEN {} ELSE FirstOpen(w, D)) = {}
      BY <1>3
    <3>2. (D # {} /\ Outside(w)) = Outside(w)
      BY <1>3, <2>2 DEF Outside
    <3> QED
      BY <2>1, <3>1, <3>2, Zenon DEF Going, Chosen
  <2>4. Chosen(w, D, h).st = Marked(D, {h})
    BY DEF Chosen, State
  <2>5. FirstWith(w, Going(w, D), "active") = {h}
    <3>1. Going(w, D).st = Marked(D, {h})
      BY <2>3, <2>4
    <3> QED
      BY <3>1, OnlyHead
  <2>6. {h} # {}
    OBVIOUS
  <2> QED
    BY <2>3, <2>5, <2>6, Zenon
<1>4. CASE D = {} /\ Queued(h)
  <2> DEFINE st == Marked({}, {})
             new == [b \in Batches |-> IF b \in {h} THEN "active" ELSE st[b]]
             bad == FALSE \/ ({h} # {} /\ \E b \in Batches : st[b] = "active")
  <2>1. Going(w, D) = State(st, Emptied(w, D), left, 0, FALSE)
    <3>1. (IF D = {} THEN {} ELSE FirstOpen(w, D)) = {}
      BY <1>4
    <3>2. (D # {} /\ Outside(w)) = FALSE
      BY <1>4
    <3> QED
      BY <1>4, <3>1, <3>2, Zenon DEF Going
  <2>2. \A a \in Slice(w) : Queued(a) /\ a \notin D
    BY <1>1, <1>4, RestOfHead
  <2>3. Going(w, D).st = st
    BY <2>1 DEF State
  <2>4. \A a \in Slice(w) : st[a] = "queued"
    BY <1>1, <2>2 DEF Marked, Queued
  <2>5. FirstWith(w, Going(w, D), "active") = {}
    BY <2>3, <2>4 DEF FirstWith
  <2>6. FirstWith(w, Going(w, D), "queued") = {h}
    <3>1. FirstWith(w, Going(w, D), "queued") = FirstOpen(w, D)
      BY <2>2, <2>3, <2>4, NextIsHead DEF Foremost
    <3> QED
      BY <3>1, RestOfHead
  <2>7. Promote(w, Going(w, D)) = State(new, Emptied(w, D), left, 0, bad)
    <3>1. {h} = FirstWith(w, State(st, Emptied(w, D), left, 0, FALSE), "queued")
      BY <2>1, <2>6, Zenon
    <3>2. Promote(w, State(st, Emptied(w, D), left, 0, FALSE)) = State(new, Emptied(w, D), left, 0, bad)
      <4>1. PICK no : no = FALSE
        OBVIOUS
      <4>2. {h} = FirstWith(w, State(st, Emptied(w, D), left, 0, no), "queued")
        BY <3>1, <4>1
      <4> HIDE DEF st, left
      <4>3. Promote(w, State(st, Emptied(w, D), left, 0, no)) =
               State(new, Emptied(w, D), left, 0, no \/ ({h} # {} /\ \E b \in Batches : st[b] = "active"))
        BY <4>2, PromoteIs
      <4> QED
        BY <4>1, <4>3, Zenon
    <3> QED
      BY <2>1, <3>2, Zenon
  <2>8. new = Marked(D, {h})
    BY <1>1, <1>4 DEF Marked
  <2>9. bad = Outside(w)
    BY <2>2, <1>1 DEF Marked, Outside, ActiveIn, Active, Queued
  <2> QED
    BY <2>5, <2>7, <2>8, <2>9, Zenon DEF Chosen
<1> QED
  BY <1>1, <1>2, <1>3, <1>4

Took(s, h, n) == [s EXCEPT !.take[h] = @ + n, !.left = @ - n]

LEMMA TakenIs ==
    ASSUME NEW st, NEW take, NEW left, NEW unlimited, NEW refused, NEW h, NEW n,
           NEW s, s = State(st, take, left, unlimited, refused)
    PROVE  Took(s, h, n) =
              State(st, [take EXCEPT ![h] = take[h] + n], left - n, unlimited, refused)
<1> DEFINE A == [take EXCEPT ![h] = take[h] + n]
           B == left - n
<1>1. s.take = take /\ s.left = left
  BY DEF State
<1>2. Took(s, h, n) = [[s EXCEPT !.take[h] = s.take[h] + n] EXCEPT !.left = s.left - n]
  BY SMT DEF Took
<1>3. [s EXCEPT !.take[h] = s.take[h] + n] = State(st, A, left, unlimited, refused)
  BY <1>1, SMT DEF State
<1>4. [State(st, A, left, unlimited, refused) EXCEPT !.left = B] = State(st, A, B, unlimited, refused)
  <2> HIDE DEF A, B
  <2> QED
    BY SMT DEF State
<1>5. s.left - n = B
  BY <1>1
<1> QED
  BY <1>2, <1>3, <1>4, <1>5, Zenon

(* Once the first row is emptied, it is closed and the next one promoted.   *)
LEMMA CloseIs ==
    ASSUME NEW w, NEW D, NEW h, Foremost(w, D, h), NEW take, NEW left
    PROVE  CloseAndPromote(w, State(Marked(D, {h}), take, left, 0, Outside(w)), h) =
              State(Marked(D \cup {h}, FirstOpen(w, D \cup {h})), take, left, 0, Outside(w))
<1> DEFINE E == D \cup {h}
           H == FirstOpen(w, E)
           st == Marked(E, {})
           out == Outside(w)
           shut == State(st, take, left, 0, out)
<1>1. /\ h \in Batches /\ Executing(w) /\ Prefix(w, E) /\ Slice(w) \subseteq Batches
      /\ \A a \in Slice(w) \ E : Queued(a) /\ row[a].status = "queued"
  <2>1. Executing(w)
    BY DEF Foremost
  <2> QED
    BY <2>1, RestOfHead, ExecutingType
<1>2. [Marked(D, {h}) EXCEPT ![h] = "closed"] = st
  BY <1>1 DEF Marked
<1>3. [State(Marked(D, {h}), take, left, 0, out) EXCEPT !.st[h] = "closed"] = shut
  <2> HIDE DEF st, out
  <2> DEFINE old == Marked(D, {h})
  <2>1. old = Marked(D, {h})
    OBVIOUS
  <2> HIDE DEF old
  <2>2. [State(old, take, left, 0, out) EXCEPT !.st[h] = "closed"] =
           State([old EXCEPT ![h] = "closed"], take, left, 0, out)
    BY SMT DEF State
  <2> QED
    BY <1>2, <2>1, <2>2, Zenon
<1>4. H = FirstWith(w, shut, "queued")
  <2>1. shut.st = st
    BY DEF State
  <2>2. \A a \in Slice(w) \ E : Queued(a) /\ shut.st[a] = "queued"
    BY <1>1, <2>1 DEF Marked
  <2>3. \A a \in Slice(w) : a \in E => shut.st[a] # "queued"
    BY <1>1, <2>1 DEF Marked
  <2> QED
    BY <1>1, <2>2, <2>3, NextIsHead
<1> DEFINE new == [b \in Batches |-> IF b \in H THEN "active" ELSE st[b]]
<1>5. Promote(w, shut) =
         State(new, take, left, 0, out \/ (H # {} /\ \E b \in Batches : st[b] = "active"))
  <2> HIDE DEF st, out, H
  <2> QED
    BY <1>4, PromoteIs
<1>6. new = Marked(E, H)
  <2>1. \A b \in H : b \notin E
    BY DEF FirstOpen
  <2> QED
    BY <2>1 DEF Marked
<1>7. (out \/ (H # {} /\ \E b \in Batches : st[b] = "active")) = out
  <2>1. ASSUME NEW b \in Batches, st[b] = "active" PROVE out
    BY <1>1, <2>1 DEF Marked, Outside, ActiveIn
  <2> QED
    BY <2>1 DEF Outside
<1>8. CloseAndPromote(w, State(Marked(D, {h}), take, left, 0, out), h) = Promote(w, shut)
  BY <1>3, Zenon DEF CloseAndPromote
<1> QED
  BY <1>5, <1>6, <1>7, <1>8, Zenon

LEMMA TakeFromIs ==
    ASSUME NEW w, NEW D, NEW h, Foremost(w, D, h),
           NEW left, left = Qty(w) - Total(Emptied(w, D), Batches),
           NEW n, n = IF left > Free(w, h) THEN Free(w, h) ELSE left
    PROVE  TakeFrom(w, Chosen(w, D, h), h) =
              IF n = Free(w, h)
              THEN State(Marked(D \cup {h}, FirstOpen(w, D \cup {h})), Filled(w, D, h, n), left - n, 0, Outside(w))
              ELSE State(Marked(D, {h}), Filled(w, D, h, n), left - n, 0, Outside(w))
<1> DEFINE s == Chosen(w, D, h)
           sold == row[h].sold + s.take[h]
           room == IF row[h].quota > sold THEN row[h].quota - sold ELSE 0
           avail == IF room > req[w].locked[h] THEN room - req[w].locked[h] ELSE 0
           m == IF s.left > avail THEN avail ELSE s.left
           taken == [s EXCEPT !.take[h] = @ + m, !.left = @ - m]
           done == State(Marked(D, {h}), Filled(w, D, h, n), left - n, 0, Outside(w))
<1>1. TakeFrom(w, s, h) = IF avail - m <= 0 THEN CloseAndPromote(w, taken, h) ELSE taken
  BY Zenon DEF TakeFrom
<1>2. s.left = left /\ s.take = Emptied(w, D)
  BY DEF Chosen, State
<1>3. /\ h \in Batches /\ h \in Slice(w) /\ h \notin D /\ Executing(w)
      /\ left \in Nat /\ left > 0 /\ Free(w, h) \in Nat
  <2>1. Executing(w) /\ h \in Slice(w) /\ Total(Emptied(w, D), Batches) < Qty(w)
    BY DEF Foremost
  <2>2. h \in Batches /\ h \notin D /\ Free(w, h) \in Nat /\ Qty(w) \in Nat
    BY RestOfHead
  <2>3. Total(Emptied(w, D), Batches) \in Nat
    BY <2>1, EmptiedType
  <2> QED
    BY <2>1, <2>2, <2>3
<1>4. avail = Free(w, h)
  <2>1. s.take[h] = 0
    BY <1>2, <1>3 DEF Emptied
  <2>2. row[h].sold \in Nat /\ row[h].quota \in Nat
    BY <1>3 DEF Executing, QueueInv, TypeInv, SoundRows
  <2>3. room = Remaining(h)
    BY <2>1, <2>2 DEF Remaining
  <2> HIDE DEF room
  <2> QED
    BY <1>3, <2>3 DEF Free
<1>5. m = n
  BY <1>2, <1>4
<1>6. taken = done
  <2>1. [Emptied(w, D) EXCEPT ![h] = Emptied(w, D)[h] + n] = Filled(w, D, h, n)
    <3>1. Emptied(w, D)[h] + n = n
      BY <1>3 DEF Emptied
    <3> QED
      BY <1>3, <3>1 DEF Filled, Emptied
  <2>2. taken = Took(s, h, n)
    BY <1>5, Zenon DEF Took
  <2>3. s = State(Marked(D, {h}), Emptied(w, D), left, 0, Outside(w))
    BY DEF Chosen
  <2> HIDE DEF s
  <2>4. Took(s, h, n) =
           State(Marked(D, {h}), [Emptied(w, D) EXCEPT ![h] = Emptied(w, D)[h] + n], left - n, 0, Outside(w))
    BY <2>3, TakenIs
  <2> QED
    BY <2>1, <2>2, <2>4, Zenon
<1>7. (avail - m <= 0) <=> (n = Free(w, h))
  <2> HIDE DEF avail, m
  <2> QED
    BY <1>3, <1>4, <1>5
<1>8. CloseAndPromote(w, done, h) =
         State(Marked(D \cup {h}, FirstOpen(w, D \cup {h})), Filled(w, D, h, n), left - n, 0, Outside(w))
  BY CloseIs, Zenon
<1> HIDE DEF avail, m, taken, done
<1>9. CASE n = Free(w, h)
  BY <1>1, <1>6, <1>7, <1>8, <1>9, Zenon
<1>10. CASE n # Free(w, h)
  BY <1>1, <1>6, <1>7, <1>10, Zenon DEF done
<1> QED
  BY <1>9, <1>10

LEMMA FilledIs ==
    ASSUME NEW w, NEW D, NEW h, Foremost(w, D, h), NEW n \in Nat, n <= Free(w, h)
    PROVE  /\ \A b \in Batches : Filled(w, D, h, n)[b] \in Nat /\ Filled(w, D, h, n)[b] <= Free(w, b)
           /\ Total(Filled(w, D, h, n), Batches) = Total(Emptied(w, D), Batches) + n
           /\ Total(Emptied(w, D), Batches) \in Nat
           /\ n = Free(w, h) => Filled(w, D, h, n) = Emptied(w, D \cup {h})
<1>1. Executing(w) /\ h \in Batches /\ h \notin D
  BY RestOfHead DEF Foremost
<1>2. /\ \A b \in Batches : Emptied(w, D)[b] \in Nat /\ Free(w, b) \in Nat
      /\ Total(Emptied(w, D), Batches) \in Nat
  BY <1>1, EmptiedType, ExecutingType
<1>3. \A b \in Batches : Filled(w, D, h, n)[b] \in Nat /\ Filled(w, D, h, n)[b] <= Free(w, b)
  BY <1>2 DEF Filled, Emptied
<1>4. Total(Filled(w, D, h, n), Batches) = Total(Emptied(w, D), Batches) + n
  <2>1. /\ \A b \in Batches \ {h} : Emptied(w, D)[b] = Filled(w, D, h, n)[b]
        /\ Emptied(w, D)[h] = 0 /\ Filled(w, D, h, n)[h] = n
    BY <1>1 DEF Filled, Emptied
  <2>2. Total(Filled(w, D, h, n), Batches) =
           Total(Emptied(w, D), Batches) - Emptied(w, D)[h] + Filled(w, D, h, n)[h]
    BY <1>1, <1>2, <1>3, <2>1, BatchesFinite, TotalReplace
  <2> QED
    BY <1>2, <2>1, <2>2
<1>5. n = Free(w, h) => Filled(w, D, h, n) = Emptied(w, D \cup {h})
  BY <1>1 DEF Filled, Emptied
<1> QED
  BY <1>2, <1>3, <1>4, <1>5

(* What one row adds is bounded by the sum.                                 *)
LEMMA TakeType ==
    ASSUME NEW w, Executing(w), NEW take, \A b \in Batches : take[b] \in Nat,
           take = [b \in Batches |-> take[b]], Total(take, Batches) <= Qty(w)
    PROVE  take \in [Batches -> 0 .. Qty(w)]
<1>1. ASSUME NEW b \in Batches PROVE take[b] \in 0 .. Qty(w)
  <2>1. Total(take, Batches) = take[b] + Total(take, Batches \ {b}) /\ Total(take, Batches \ {b}) \in Nat
    BY BatchesFinite, TotalSplit
  <2> QED
    BY <2>1, ExecutingType
<1> QED
  BY <1>1

(* The rows before one of D or before h are in D; the others come later.    *)
LEMMA ReachedIs ==
    ASSUME NEW w, NEW D, NEW h, Foremost(w, D, h), NEW n \in Nat, n <= Free(w, h),
           Total(Filled(w, D, h, n), Batches) = Qty(w)
    PROVE  \A b \in Slice(w) : Reached(w, Filled(w, D, h, n), b) <=> b \in D \cup {h}
<1> DEFINE take == Filled(w, D, h, n)
           Sooner(b) == {a \in Slice(w) : Earlier(w, a, b)}
<1>1. /\ Executing(w) /\ h \in Batches /\ h \notin D /\ Prefix(w, D) /\ Prefix(w, D \cup {h})
      /\ \A a \in Slice(w) : Earlier(w, a, h) => a \in D
      /\ Total(Emptied(w, D), Batches) < Qty(w)
  BY RestOfHead DEF Foremost
<1>2. Slice(w) \subseteq Batches /\ Qty(w) \in Nat
  BY <1>1, ExecutingType
<1>3. \A b \in Batches : Emptied(w, D)[b] \in Nat /\ take[b] \in Nat
  BY <1>1, FilledIs, EmptiedType
<1>4. ASSUME NEW b \in D \cup {h} PROVE Total(take, Sooner(b)) < Qty(w)
  <2>1. Sooner(b) \subseteq D /\ D \subseteq Batches
    BY <1>1, <1>2, <1>4 DEF Prefix
  <2>2. \A a \in Sooner(b) : take[a] = Emptied(w, D)[a]
    BY <1>1, <2>1 DEF Filled
  <2>3. Total(take, Sooner(b)) = Total(Emptied(w, D), Sooner(b))
    BY <2>2, TotalCongruence
  <2>4. /\ Total(Emptied(w, D), Sooner(b)) <= Total(Emptied(w, D), Batches)
        /\ Total(Emptied(w, D), Sooner(b)) \in Nat /\ Total(Emptied(w, D), Batches) \in Nat
    <3>1. Sooner(b) \subseteq Batches
      BY <2>1
    <3> HIDE DEF Sooner
    <3> QED
      BY <1>3, <3>1, BatchesFinite, TotalPart
  <2> QED
    BY <1>1, <1>2, <2>3, <2>4
<1>5. ASSUME NEW b \in Slice(w), b \notin D \cup {h} PROVE ~ (Total(take, Sooner(b)) < Qty(w))
  <2>1. \A d \in D \cup {h} : Earlier(w, d, b) /\ d \in Slice(w)
    BY <1>1, <1>2, <1>5, EarlierOrder DEF Prefix, Executing, QueueInv, TypeInv
  <2>2. \A a \in Batches \ Sooner(b) : take[a] = 0
    BY <2>1 DEF Filled, Emptied
  <2>3. Sooner(b) \subseteq Batches
    BY <1>2
  <2>4. Total(take, Sooner(b)) = Total(take, Batches)
    <3> HIDE DEF Sooner, take
    <3> QED
      BY <1>3, <2>2, <2>3, BatchesFinite, TotalPart
  <2> QED
    BY <1>2, <2>4
<1> QED
  BY <1>4, <1>5 DEF Reached

LEMMA LastTake ==
    ASSUME NEW w, NEW D, NEW h, Foremost(w, D, h), NEW n \in Nat, n <= Free(w, h),
           Total(Filled(w, D, h, n), Batches) = Qty(w)
    PROVE  /\ Filled(w, D, h, n) \in [Batches -> 0 .. Qty(w)] /\ Plan(w, Filled(w, D, h, n))
           /\ Spent(w, Filled(w, D, h, n)) = IF n = Free(w, h) THEN D \cup {h} ELSE D
<1> DEFINE take == Filled(w, D, h, n)
<1>1. /\ Executing(w) /\ h \in Slice(w) /\ h \in Batches /\ h \notin D /\ Prefix(w, D)
      /\ \A a \in Slice(w) : Earlier(w, a, h) => a \in D
      /\ Slice(w) \subseteq Batches /\ D \subseteq Slice(w) /\ Qty(w) \in Nat
  <2>1. Executing(w) /\ Prefix(w, D) /\ h \in Slice(w)
    BY DEF Foremost
  <2> QED
    BY <2>1, RestOfHead, ExecutingType DEF Prefix
<1>2. \A b \in Batches : take[b] \in Nat /\ take[b] <= Free(w, b)
  BY FilledIs
<1>3. take \in [Batches -> 0 .. Qty(w)]
  <2>1. take = [b \in Batches |-> take[b]]
    BY DEF Filled
  <2> HIDE DEF take
  <2>2. Total(take, Batches) <= Qty(w)
    BY <1>1 DEF take
  <2> QED
    BY <1>1, <1>2, <2>1, <2>2, TakeType
<1>4. Plan(w, take)
  <2>1. ASSUME NEW a \in Slice(w), NEW b \in Slice(w), Earlier(w, a, b), take[b] > 0
        PROVE  take[a] = Free(w, a)
    <3>1. b \in D \cup {h} /\ a \in D
      BY <1>1, <2>1 DEF Filled, Emptied, Prefix
    <3> QED
      BY <1>1, <3>1 DEF Filled, Emptied
  <2> HIDE DEF take
  <2>2. Total(take, Batches) = Qty(w)
    BY DEF take
  <2> QED
    BY <1>1, <1>2, <2>1, <2>2 DEF Plan
<1>5. \A b \in Slice(w) : b \in Spent(w, take) <=> b \in D \/ (b = h /\ n = Free(w, h))
  <2>1. \A b \in Slice(w) : Reached(w, take, b) <=> b \in D \cup {h}
    BY ReachedIs
  <2>2. \A b \in D : take[b] = Free(w, b)
    BY <1>1 DEF Filled, Emptied
  <2>3. take[h] = n
    BY <1>1 DEF Filled
  <2> HIDE DEF take
  <2> QED
    BY <2>1, <2>2, <2>3 DEF Spent
<1>6. Spent(w, take) \subseteq Slice(w)
  BY DEF Spent
<1>7. Spent(w, take) = IF n = Free(w, h) THEN D \cup {h} ELSE D
  <2> HIDE DEF take
  <2> QED
    BY <1>1, <1>5, <1>6
<1> QED
  BY <1>3, <1>4, <1>7

(* When every row is emptied and units are left, the rest is unlimited.     *)
LEMMA AllTake ==
    ASSUME NEW w, Executing(w), Total(Emptied(w, Slice(w)), Batches) < Qty(w)
    PROVE  /\ Emptied(w, Slice(w)) \in [Batches -> 0 .. Qty(w)]
           /\ Plan(w, Emptied(w, Slice(w)))
           /\ Spent(w, Emptied(w, Slice(w))) = Slice(w)
<1> DEFINE take == Emptied(w, Slice(w))
<1>1. /\ Slice(w) \subseteq Batches /\ Qty(w) \in Nat
      /\ \A b \in Batches : take[b] = Free(w, b) /\ take[b] \in Nat
  BY ExecutingType DEF Emptied
<1>2. take = [b \in Batches |-> take[b]] /\ Total(take, Batches) < Qty(w) /\ Total(take, Batches) \in Nat
  BY EmptiedType DEF Emptied
<1> HIDE DEF take
<1>3. take \in [Batches -> 0 .. Qty(w)]
  BY <1>1, <1>2, TakeType
<1>4. Plan(w, take)
  BY <1>1, <1>2 DEF Plan
<1>5. ASSUME NEW b \in Slice(w) PROVE Reached(w, take, b)
  <2>1. {a \in Slice(w) : Earlier(w, a, b)} \subseteq Batches
    BY <1>1
  <2>2. /\ Total(take, {a \in Slice(w) : Earlier(w, a, b)}) <= Total(take, Batches)
        /\ Total(take, {a \in Slice(w) : Earlier(w, a, b)}) \in Nat
    BY <1>1, <2>1, BatchesFinite, TotalPart
  <2> QED
    BY <1>1, <1>2, <2>2 DEF Reached
<1>6. Spent(w, take) = Slice(w)
  BY <1>1, <1>5 DEF Spent
<1> QED
  BY <1>3, <1>4, <1>6 DEF take

(* A turn, from where the loop is after some others, goes on or ends it.    *)
LEMMA Turn ==
    ASSUME NEW w, Executing(w), NEW D, Prefix(w, D), Total(Emptied(w, D), Batches) < Qty(w)
    PROVE  \/ \E h \in Slice(w) \ D :
                 /\ Prefix(w, D \cup {h}) /\ Total(Emptied(w, D \cup {h}), Batches) < Qty(w)
                 /\ Iteration(w, Going(w, D)) = Going(w, D \cup {h})
           \/ \E take \in [Batches -> 0 .. Qty(w)] :
                 Plan(w, take) /\ Iteration(w, Going(w, D)) = Gone(w, take)
<1> DEFINE t == IF FirstWith(w, Going(w, D), "active") = {} THEN Promote(w, Going(w, D)) ELSE Going(w, D)
           first == FirstWith(w, t, "active")
           left == Qty(w) - Total(Emptied(w, D), Batches)
<1>1. Iteration(w, Going(w, D)) =
         IF first = {} THEN [t EXCEPT !.unlimited = t.left, !.left = 0]
         ELSE TakeFrom(w, t, CHOOSE b \in first : TRUE)
  BY Zenon DEF Iteration
<1>2. CASE Slice(w) \subseteq D
  <2>1. D = Slice(w) /\ D # {}
    BY <1>2 DEF Prefix, Executing
  <2>2. FirstOpen(w, D) = {}
    BY <1>2, HeadIs
  <2>3. (D # {} /\ Outside(w)) = Outside(w)
    BY <2>1 DEF Outside
  <2>4. Going(w, D) = State(Marked(D, {}), Emptied(w, D), left, 0, Outside(w))
    BY <2>1, <2>2, <2>3, Zenon DEF Going
  <2>5. \A b \in Slice(w) : Going(w, D).st[b] = "closed"
    <3>1. Going(w, D).st = Marked(D, {})
      BY <2>4 DEF State
    <3>2. Slice(w) \subseteq Batches
      BY ExecutingType
    <3> QED
      BY <2>1, <3>1, <3>2 DEF Marked
  <2>6. FirstWith(w, Going(w, D), "active") = {} /\ FirstWith(w, Going(w, D), "queued") = {}
    BY <2>5 DEF FirstWith
  <2>7. t = Going(w, D)
    <3> DEFINE out == Outside(w)
               st == Marked(D, {})
               new == [b \in Batches |-> IF b \in {} THEN "active" ELSE st[b]]
    <3>1. {} = FirstWith(w, State(st, Emptied(w, D), left, 0, out), "queued")
      BY <2>4, <2>6, Zenon
    <3>2. Promote(w, State(st, Emptied(w, D), left, 0, out)) =
             State(new, Emptied(w, D), left, 0, out \/ ({} # {} /\ \E b \in Batches : st[b] = "active"))
      <4> HIDE DEF st, left, out
      <4> QED
        BY <3>1, PromoteIs
    <3>3. new = st
      BY DEF Marked
    <3>4. (out \/ ({} # {} /\ \E b \in Batches : st[b] = "active")) = out
      BY DEF Outside
    <3> QED
      BY <2>4, <2>6, <3>2, <3>3, <3>4, Zenon
  <2>8. Iteration(w, Going(w, D)) = [Going(w, D) EXCEPT !.unlimited = Going(w, D).left, !.left = 0]
    BY <1>1, <2>6, <2>7, Zenon
  <2>9. [Going(w, D) EXCEPT !.unlimited = Going(w, D).left, !.left = 0] =
           State(Marked(D, {}), Emptied(w, D), 0, left, Outside(w))
    <3> DEFINE s == Going(w, D)
               out == Outside(w)
               st == Marked(D, {})
               take == Emptied(w, D)
    <3>1. s = State(st, take, left, 0, out)
      BY <2>4
    <3> HIDE DEF s, out, st, take, left
    <3>2. s.left = left
      BY <3>1 DEF State
    <3>3. [s EXCEPT !.unlimited = s.left, !.left = 0] = [[s EXCEPT !.unlimited = left] EXCEPT !.left = 0]
      BY <3>2, SMT
    <3>4. [s EXCEPT !.unlimited = left] = State(st, take, left, left, out)
      BY <3>1, SMT DEF State
    <3>5. [State(st, take, left, left, out) EXCEPT !.left = 0] = State(st, take, 0, left, out)
      BY SMT DEF State
    <3> QED
      BY <3>3, <3>4, <3>5, Zenon DEF s, out, st, take
  <2>10. /\ Emptied(w, D) \in [Batches -> 0 .. Qty(w)] /\ Plan(w, Emptied(w, D))
         /\ Spent(w, Emptied(w, D)) = D
    BY <2>1, AllTake
  <2>11. Successor(w, Emptied(w, D)) = {}
    BY <1>2, <2>10 DEF Successor
  <2>12. Iteration(w, Going(w, D)) = Gone(w, Emptied(w, D))
    BY <2>8, <2>9, <2>10, <2>11, Zenon DEF Gone
  <2> QED
    BY <2>10, <2>12
<1>3. ASSUME ~ (Slice(w) \subseteq D)
      PROVE  \/ \E h \in Slice(w) \ D :
                   /\ Prefix(w, D \cup {h}) /\ Total(Emptied(w, D \cup {h}), Batches) < Qty(w)
                   /\ Iteration(w, Going(w, D)) = Going(w, D \cup {h})
             \/ \E take \in [Batches -> 0 .. Qty(w)] :
                   Plan(w, take) /\ Iteration(w, Going(w, D)) = Gone(w, take)
  <2>1. PICK h \in Slice(w) \ D : \A a \in Slice(w) \ D : a # h => Earlier(w, h, a)
    BY <1>3, HeadIs
  <2>2. Foremost(w, D, h)
    BY <2>1 DEF Foremost
  <2>3. t = Chosen(w, D, h)
    BY <2>2, ChosenIs
  <2>4. first = {h}
    <3>1. Chosen(w, D, h).st = Marked(D, {h})
      BY DEF Chosen, State
    <3>2. FirstWith(w, Chosen(w, D, h), "active") = {h}
      BY <2>2, <3>1, OnlyHead
    <3> QED
      BY <2>3, <3>2, Zenon
  <2>5. {h} # {} /\ (CHOOSE b \in {h} : TRUE) = h
    OBVIOUS
  <2>6. Iteration(w, Going(w, D)) = TakeFrom(w, Chosen(w, D, h), h)
    BY <1>1, <2>3, <2>4, <2>5, Zenon
  <2> DEFINE n == IF left > Free(w, h) THEN Free(w, h) ELSE left
             take == Filled(w, D, h, n)
             E == D \cup {h}
  <2>7. TakeFrom(w, Chosen(w, D, h), h) =
              IF n = Free(w, h)
              THEN State(Marked(E, FirstOpen(w, E)), take, left - n, 0, Outside(w))
              ELSE State(Marked(D, {h}), take, left - n, 0, Outside(w))
    BY <2>2, TakeFromIs
  <2>8. Qty(w) \in Nat /\ Free(w, h) \in Nat /\ FirstOpen(w, D) = {h} /\ Prefix(w, E)
    BY <2>2, RestOfHead
  <2>9. left \in Nat /\ left > 0 /\ Total(Emptied(w, D), Batches) \in Nat
    BY <2>8, EmptiedType
  <2>10. n \in Nat /\ n <= Free(w, h) /\ n <= left /\ (n = Free(w, h) \/ n = left)
    <3> HIDE DEF left
    <3> QED
      BY <2>8, <2>9
  <2>11. /\ Total(take, Batches) = Total(Emptied(w, D), Batches) + n
         /\ n = Free(w, h) => take = Emptied(w, E)
    <3> HIDE DEF n
    <3> QED
      BY <2>2, <2>10, FilledIs
  <2>12. left - n = Qty(w) - Total(take, Batches)
    <3> HIDE DEF n
    <3> QED
      BY <2>8, <2>9, <2>10, <2>11
  <2>13. CASE n < left
    <3>1. n = Free(w, h)
      BY <2>10, <2>13
    <3>2. take = Emptied(w, E)
      BY <2>11, <3>1
    <3>3. Total(Emptied(w, E), Batches) < Qty(w)
      <4> HIDE DEF n
      <4> QED
        BY <2>8, <2>9, <2>10, <2>11, <2>13, <3>2
    <3>4. Iteration(w, Going(w, D)) =
             State(Marked(E, FirstOpen(w, E)), Emptied(w, E), Qty(w) - Total(Emptied(w, E), Batches), 0, Outside(w))
      BY <2>6, <2>7, <2>12, <3>1, <3>2, Zenon
    <3>5. Going(w, E) =
             State(Marked(E, FirstOpen(w, E)), Emptied(w, E), Qty(w) - Total(Emptied(w, E), Batches), 0, Outside(w))
      <4>1. (IF E = {} THEN {} ELSE FirstOpen(w, E)) = FirstOpen(w, E)
        OBVIOUS
      <4>2. (E # {} /\ Outside(w)) = Outside(w)
        BY DEF Outside
      <4> QED
        BY <4>1, <4>2, Zenon DEF Going
    <3>6. Iteration(w, Going(w, D)) = Going(w, E)
      BY <3>4, <3>5, Zenon
    <3> QED
      BY <2>1, <2>8, <3>3, <3>6
  <2>14. CASE n = left
    <3>1. Total(take, Batches) = Qty(w) /\ left - n = 0 /\ Qty(w) - Total(take, Batches) = 0
      <4> HIDE DEF n
      <4> QED
        BY <2>8, <2>9, <2>10, <2>11, <2>14
    <3>2. /\ take \in [Batches -> 0 .. Qty(w)] /\ Plan(w, take)
          /\ Spent(w, take) = IF n = Free(w, h) THEN E ELSE D
      <4> HIDE DEF n
      <4> QED
        BY <2>2, <2>10, <3>1, LastTake
    <3>3. Successor(w, take) = FirstOpen(w, Spent(w, take))
      BY Zenon DEF Successor, FirstOpen
    <3>4. Iteration(w, Going(w, D)) = Gone(w, take)
      <4> HIDE DEF n, take, left
      <4>1. CASE n = Free(w, h)
        <5>1. Iteration(w, Going(w, D)) = State(Marked(E, FirstOpen(w, E)), take, 0, 0, Outside(w))
          BY <2>6, <2>7, <3>1, <4>1, Zenon
        <5>2. Gone(w, take) = State(Marked(E, FirstOpen(w, E)), take, 0, 0, Outside(w))
          BY <3>1, <3>2, <3>3, <4>1, Zenon DEF Gone
        <5> QED
          BY <5>1, <5>2, Zenon
      <4>2. CASE n # Free(w, h)
        <5>1. Iteration(w, Going(w, D)) = State(Marked(D, {h}), take, 0, 0, Outside(w))
          BY <2>6, <2>7, <3>1, <4>2, Zenon
        <5>2. Gone(w, take) = State(Marked(D, {h}), take, 0, 0, Outside(w))
          BY <2>8, <3>1, <3>2, <3>3, <4>2, Zenon DEF Gone
        <5> QED
          BY <5>1, <5>2, Zenon
      <4> QED
        BY <4>1, <4>2
    <3> QED
      BY <3>2, <3>4
  <2> QED
    BY <2>8, <2>9, <2>10, <2>13, <2>14
<1> QED
  BY <1>2, <1>3

----------------------------------------------------------------------------
(* All the turns.                                                           *)
AfterTurns(w, f, n) ==
    IF n = 0 THEN LoopState(w)
    ELSE IF f[n - 1].left = 0 THEN f[n - 1]
    ELSE Iteration(w, f[n - 1])

Turns(w, k, f) == f = [n \in 0 .. k |-> AfterTurns(w, f, n)]

(* The function that the loop is exists for any number of turns: there is   *)
(* no least number for which it does not.                                   *)
LEMMA TurnsExist == ASSUME NEW w, NEW k \in Nat PROVE \E f : Turns(w, k, f)
<1> DEFINE Bad == {n \in Nat : ~ \E f : Turns(w, n, f)}
<1>1. SUFFICES ASSUME Bad # {} PROVE FALSE
  OBVIOUS
<1>2. PICK n \in Bad : \A m \in Bad : n <= m
  BY <1>1, NatLeast
<1>3. n \in Nat /\ ~ \E f : Turns(w, n, f)
  OBVIOUS
<1>4. CASE n = 0
  <2> DEFINE f == [i \in 0 .. 0 |-> LoopState(w)]
  <2>1. \A i \in 0 .. 0 : AfterTurns(w, f, i) = LoopState(w)
    BY DEF AfterTurns
  <2>2. f = [i \in 0 .. 0 |-> AfterTurns(w, f, i)]
    BY <2>1
  <2> HIDE DEF f
  <2>3. Turns(w, n, f)
    BY <1>4, <2>2 DEF Turns
  <2> QED
    BY <1>3, <2>3
<1>5. CASE n > 0
  <2>1. n - 1 \in Nat /\ n - 1 \notin Bad
    BY <1>2, <1>3, <1>5
  <2>2. PICK f : Turns(w, n - 1, f)
    BY <2>1
  <2> DEFINE g == [i \in 0 .. n |-> IF i < n THEN f[i] ELSE AfterTurns(w, f, n)]
  <2>3. \A i \in 0 .. n - 1 : g[i] = f[i]
    BY <1>3
  <2>4. \A i \in 0 .. n : i # 0 => i - 1 \in 0 .. n - 1
    BY <1>3
  <2>5. \A i \in 0 .. n - 1 : f[i] = AfterTurns(w, f, i)
    BY <2>2, Zenon DEF Turns
  <2>6. ASSUME NEW i \in 0 .. n PROVE g[i] = AfterTurns(w, f, i)
    <3>1. CASE i < n
      BY <1>3, <2>5, <3>1
    <3>2. CASE i = n
      BY <1>3, <3>2
    <3> QED
      BY <1>3, <3>1, <3>2
  <2>7. ASSUME NEW i \in 0 .. n PROVE AfterTurns(w, g, i) = AfterTurns(w, f, i)
    <3>1. CASE i = 0
      BY <3>1, Zenon DEF AfterTurns
    <3>2. CASE i # 0
      <4>1. g[i - 1] = f[i - 1]
        BY <2>3, <2>4, <3>2
      <4> HIDE DEF g
      <4> QED
        BY <4>1, Zenon DEF AfterTurns
    <3> QED
      BY <3>1, <3>2
  <2>8. g = [i \in 0 .. n |-> g[i]]
    OBVIOUS
  <2> HIDE DEF g
  <2>9. g = [i \in 0 .. n |-> AfterTurns(w, g, i)]
    <3>1. \A i \in 0 .. n : g[i] = AfterTurns(w, g, i)
      BY <2>6, <2>7, Zenon
    <3> QED
      BY <2>8, <3>1
  <2>10. Turns(w, n, g)
    BY <2>9 DEF Turns
  <2> QED
    BY <1>3, <2>10
<1> QED
  BY <1>3, <1>4, <1>5

LEMMA LoopIs ==
    ASSUME NEW w
    PROVE  \E f : Turns(w, MaxBatches + 1, f) /\ Loop(w) = f[MaxBatches + 1]
<1> DEFINE f == CHOOSE h : h = [n \in 0 .. MaxBatches + 1 |->
                                   IF n = 0 THEN LoopState(w)
                                   ELSE IF h[n - 1].left = 0 THEN h[n - 1]
                                   ELSE Iteration(w, h[n - 1])]
<1>1. PICK g : Turns(w, MaxBatches + 1, g)
  <2>1. MaxBatches + 1 \in Nat
    BY BoundsAssumption
  <2> QED
    BY <2>1, TurnsExist
<1>2. g = [n \in 0 .. MaxBatches + 1 |->
              IF n = 0 THEN LoopState(w)
              ELSE IF g[n - 1].left = 0 THEN g[n - 1]
              ELSE Iteration(w, g[n - 1])]
  BY <1>1, Zenon DEF Turns, AfterTurns
<1>3. f = [n \in 0 .. MaxBatches + 1 |->
              IF n = 0 THEN LoopState(w)
              ELSE IF f[n - 1].left = 0 THEN f[n - 1]
              ELSE Iteration(w, f[n - 1])]
  BY <1>2, Zenon
<1>4. Loop(w) = f[MaxBatches + 1]
  BY Zenon DEF Loop
<1>5. Turns(w, MaxBatches + 1, f)
  <2> HIDE DEF f
  <2> QED
    BY <1>3, Zenon DEF Turns, AfterTurns
<1> QED
  BY <1>4, <1>5

LEMMA LoopStarts ==
    ASSUME NEW w, Executing(w)
    PROVE  /\ Prefix(w, {}) /\ Total(Emptied(w, {}), Batches) < Qty(w)
           /\ LoopState(w) = Going(w, {})
<1>1. Prefix(w, {})
  BY DEF Prefix
<1>2. Emptied(w, {}) = Zero /\ \A b \in Batches : Emptied(w, {})[b] = 0
  BY DEF Emptied, Zero
<1>3. Total(Emptied(w, {}), Batches) = 0 /\ Qty(w) - Total(Emptied(w, {}), Batches) = Qty(w)
      /\ Total(Emptied(w, {}), Batches) < Qty(w)
  <2>1. Total(Emptied(w, {}), Batches) = 0
    BY <1>2, TotalZero
  <2>2. Qty(w) \in Nat /\ Qty(w) > 0
    BY ExecutingType
  <2> QED
    BY <2>1, <2>2
<1>4. Marked({}, {}) = [b \in Batches |-> row[b].status]
  BY DEF Marked
<1>5. ({} # {} /\ Outside(w)) = FALSE /\ (IF {} = {} THEN {} ELSE FirstOpen(w, {})) = {}
  OBVIOUS
<1>6. Going(w, {}) = State([b \in Batches |-> row[b].status], Zero, Qty(w), 0, FALSE)
  BY <1>2, <1>3, <1>4, <1>5, Zenon DEF Going
<1> QED
  BY <1>1, <1>3, <1>6 DEF LoopState, State

LEMMA LoopEnds ==
    ASSUME NEW w, Executing(w)
    PROVE  \E take \in [Batches -> 0 .. Qty(w)] : Plan(w, take) /\ Loop(w) = Gone(w, take)
<1>1. PICK f : Turns(w, MaxBatches + 1, f) /\ Loop(w) = f[MaxBatches + 1]
  BY LoopIs
<1> DEFINE On(n, D) == /\ Prefix(w, D) /\ Cardinality(D) = n
                       /\ Total(Emptied(w, D), Batches) < Qty(w) /\ f[n] = Going(w, D)
           Over(n) == \E take \in [Batches -> 0 .. Qty(w)] : Plan(w, take) /\ f[n] = Gone(w, take)
           Bad == {n \in 0 .. MaxBatches + 1 : ~ ((\E D : On(n, D)) \/ Over(n))}
<1>2. MaxBatches \in Nat
  BY BoundsAssumption
<1>3. \A n \in 0 .. MaxBatches + 1 : f[n] = AfterTurns(w, f, n)
  BY <1>1, Zenon DEF Turns
<1>4. \A D : Prefix(w, D) => IsFiniteSet(D) /\ Cardinality(D) <= MaxBatches /\ Cardinality(D) \in Nat
  <2>1. Slice(w) \subseteq Batches
    BY ExecutingType
  <2> QED
    BY <2>1, BatchesFinite, FS_Subset, FS_CardinalityType DEF Prefix
<1>5. Bad = {}
  <2>1. SUFFICES ASSUME Bad # {} PROVE FALSE
    OBVIOUS
  <2>2. PICK n \in Bad : \A m \in Bad : n <= m
    <3>1. Bad \subseteq Nat
      BY <1>2
    <3> HIDE DEF Bad
    <3> QED
      BY <2>1, <3>1, NatLeast
  <2>3. n \in 0 .. MaxBatches + 1 /\ ~ (\E D : On(n, D)) /\ ~ Over(n)
    OBVIOUS
  <2>4. CASE n = 0
    <3>1. f[n] = LoopState(w)
      BY <1>3, <2>3, <2>4, Zenon DEF AfterTurns
    <3>2. Prefix(w, {}) /\ Total(Emptied(w, {}), Batches) < Qty(w) /\ f[n] = Going(w, {})
      BY <3>1, LoopStarts
    <3>3. Cardinality({}) = n
      BY <2>4, FS_EmptySet
    <3>4. On(n, {})
      BY <3>2, <3>3
    <3> QED
      BY <2>3, <3>4
  <2>5. CASE n > 0
    <3> DEFINE m == n - 1
    <3>1. m \in 0 .. MaxBatches + 1 /\ m \notin Bad /\ n # 0 /\ m \in Nat
      BY <1>2, <2>2, <2>3, <2>5
    <3>2. (\E D : On(m, D)) \/ Over(m)
      BY <3>1
    <3>3. f[n] = IF f[m].left = 0 THEN f[m] ELSE Iteration(w, f[m])
      BY <1>3, <2>3, <3>1, Zenon DEF AfterTurns
    <3>4. ASSUME NEW D, On(m, D) PROVE FALSE
      <4>1. /\ Prefix(w, D) /\ Cardinality(D) = m /\ IsFiniteSet(D)
            /\ Total(Emptied(w, D), Batches) < Qty(w) /\ f[m] = Going(w, D)
        BY <1>4, <3>4
      <4>2. f[m].left # 0
        <5>1. f[m].left = Qty(w) - Total(Emptied(w, D), Batches)
          BY <4>1 DEF Going, State
        <5>2. Qty(w) \in Nat /\ Total(Emptied(w, D), Batches) \in Nat
          BY ExecutingType, EmptiedType
        <5> QED
          BY <4>1, <5>1, <5>2
      <4>3. f[n] = Iteration(w, Going(w, D))
        BY <3>3, <4>1, <4>2, Zenon
      <4>4. ASSUME NEW h \in Slice(w) \ D,
                   Prefix(w, D \cup {h}), Total(Emptied(w, D \cup {h}), Batches) < Qty(w),
                   Iteration(w, Going(w, D)) = Going(w, D \cup {h})
            PROVE  FALSE
        <5>1. Cardinality(D \cup {h}) = n
          <6>1. Cardinality(D \cup {h}) = Cardinality(D) + 1
            BY <4>1, FS_AddElement
          <6> QED
            BY <3>1, <4>1, <6>1
        <5>2. On(n, D \cup {h})
          BY <4>3, <4>4, <5>1
        <5> QED
          BY <2>3, <5>2
      <4>5. ASSUME NEW take \in [Batches -> 0 .. Qty(w)],
                   Plan(w, take), Iteration(w, Going(w, D)) = Gone(w, take)
            PROVE  FALSE
        BY <2>3, <4>3, <4>5
      <4> QED
        BY <4>1, <4>4, <4>5, Turn
    <3>5. ASSUME Over(m) PROVE FALSE
      <4>1. PICK take \in [Batches -> 0 .. Qty(w)] : Plan(w, take) /\ f[m] = Gone(w, take)
        BY <3>5
      <4>2. f[m].left = 0
        BY <4>1 DEF Gone, State
      <4>3. f[n] = Gone(w, take)
        BY <3>3, <4>1, <4>2
      <4> QED
        BY <2>3, <4>1, <4>3
    <3> QED
      BY <3>2, <3>4, <3>5
  <2> QED
    BY <1>2, <2>3, <2>4, <2>5
<1>6. MaxBatches + 1 \in 0 .. MaxBatches + 1 /\ MaxBatches + 1 \notin Bad
  BY <1>2, <1>5
<1>7. \A D : ~ On(MaxBatches + 1, D)
  BY <1>2, <1>4
<1>8. Over(MaxBatches + 1)
  BY <1>6, <1>7
<1> QED
  BY <1>1, <1>8

----------------------------------------------------------------------------
(* There is one way to serve the line from the free units.                  *)
LEMMA PlanType ==
    ASSUME NEW w, Executing(w), NEW take \in [Batches -> 0 .. Qty(w)], Plan(w, take)
    PROVE  /\ \A b \in Batches : /\ take[b] \in Nat /\ take[b] <= Free(w, b) /\ Free(w, b) \in Nat
                                 /\ b \notin Slice(w) => take[b] = 0
           /\ Total(take, Batches) \in Nat /\ Total(take, Batches) <= Qty(w)
<1>1. \A b \in Batches : /\ take[b] \in Nat /\ take[b] <= Free(w, b) /\ Free(w, b) \in Nat
                         /\ b \notin Slice(w) => take[b] = 0
  <2>1. \A b \in Batches : Free(w, b) \in Nat /\ (b \notin Slice(w) => Free(w, b) = 0) /\ Qty(w) \in Nat
    BY ExecutingType
  <2>2. \A b \in Batches : take[b] <= Free(w, b)
    BY DEF Plan
  <2> QED
    BY <2>1, <2>2
<1>2. Total(take, Batches) <= Qty(w)
  BY DEF Plan
<1> QED
  BY <1>1, <1>2, BatchesFinite, TotalType

LEMMA PlanFirst ==
    ASSUME NEW w, Executing(w), NEW f \in [Batches -> 0 .. Qty(w)], Plan(w, f),
           NEW g \in [Batches -> 0 .. Qty(w)], Plan(w, g),
           NEW m \in Slice(w), \A a \in Slice(w) : Earlier(w, a, m) => f[a] = g[a]
    PROVE  ~ (f[m] < g[m])
<1> SUFFICES ASSUME f[m] < g[m] PROVE FALSE
  OBVIOUS
<1>1. /\ m \in Batches /\ Slice(w) \subseteq Batches /\ Qty(w) \in Nat
  BY ExecutingType
<1>2. \A b \in Batches : /\ f[b] \in Nat /\ g[b] \in Nat /\ f[b] <= Free(w, b) /\ g[b] <= Free(w, b)
                         /\ Free(w, b) \in Nat /\ (b \notin Slice(w) => f[b] = 0 /\ g[b] = 0)
  BY PlanType
<1>3. f[m] < Free(w, m)
  BY <1>1, <1>2
<1>4. \A b \in Slice(w) : Earlier(w, m, b) => f[b] = 0
  BY <1>1, <1>2, <1>3 DEF Plan
<1>5. \A b \in Batches \ {m} : f[b] <= g[b]
  <2> SUFFICES ASSUME NEW b \in Batches \ {m} PROVE f[b] <= g[b]
    OBVIOUS
  <2>1. Earlier(w, m, b) \/ Earlier(w, b, m)
    BY <1>1, EarlierOrder DEF Executing, QueueInv, TypeInv
  <2> QED
    BY <1>2, <1>4, <2>1
<1>6. IsFiniteSet(Batches \ {m})
  BY BatchesFinite, FS_Subset
<1>7. /\ Total(f, Batches \ {m}) \in Nat /\ Total(g, Batches \ {m}) \in Nat
      /\ Total(f, Batches \ {m}) <= Total(g, Batches \ {m})
  BY <1>2, <1>5, <1>6, TotalMonotone
<1>8. /\ Total(f, Batches) = f[m] + Total(f, Batches \ {m})
      /\ Total(g, Batches) = g[m] + Total(g, Batches \ {m})
  BY <1>1, <1>2, BatchesFinite, TotalSplit
<1>9. Total(f, Batches) < Total(g, Batches)
  BY <1>1, <1>2, <1>7, <1>8
<1>10. Total(f, Batches) = Qty(w)
  BY <1>1, <1>3, <1>2 DEF Plan
<1> QED
  BY <1>9, <1>10, <1>1, PlanType

LEMMA PlanUnique ==
    ASSUME NEW w, Executing(w), NEW f \in [Batches -> 0 .. Qty(w)], Plan(w, f),
           NEW g \in [Batches -> 0 .. Qty(w)], Plan(w, g)
    PROVE  f = g
<1> DEFINE T == {b \in Batches : f[b] # g[b]}
<1>1. \A b \in Batches : f[b] \in Nat /\ g[b] \in Nat /\ (b \notin Slice(w) => f[b] = 0 /\ g[b] = 0)
  BY PlanType
<1>2. ASSUME T # {} PROVE FALSE
  <2>1. PICK m \in T : \A a \in T : ~ Earlier(w, a, m)
    <3>1. T \subseteq Batches
      OBVIOUS
    <3> HIDE DEF T
    <3> QED
      BY <1>2, <3>1, EarlierLeast DEF Executing, QueueInv, TypeInv
  <2>2. m \in Slice(w) /\ m \in Batches /\ f[m] # g[m]
    BY <1>1
  <2>3. \A a \in Slice(w) : Earlier(w, a, m) => f[a] = g[a]
    BY <2>1, ExecutingType
  <2>4. ~ (f[m] < g[m])
    BY <2>2, <2>3, PlanFirst
  <2>5. ~ (g[m] < f[m])
    BY <2>2, <2>3, PlanFirst
  <2> QED
    BY <1>1, <2>2, <2>4, <2>5
<1> QED
  BY <1>2

(* The first row of the slice is reached in any case.                       *)
LEMMA RefusedIs ==
    ASSUME NEW w, Executing(w), NEW take
    PROVE  Refused(w, take) = Outside(w)
<1>1. ASSUME Outside(w) PROVE \E b \in Slice(w) : Queued(b) /\ Reached(w, take, b)
  <2>1. Prefix(w, {})
    BY DEF Prefix
  <2>2. \A a \in Slice(w) \ {} : Queued(a)
    BY <1>1, <2>1, RestQueued
  <2>3. Slice(w) \subseteq Batches /\ Slice(w) # {} /\ Qty(w) \in Nat /\ Qty(w) > 0
    BY ExecutingType DEF Executing
  <2>4. PICK b \in Slice(w) : \A a \in Slice(w) : ~ Earlier(w, a, b)
    BY <2>3, EarlierLeast DEF Executing, QueueInv, TypeInv
  <2>5. {a \in Slice(w) : Earlier(w, a, b)} = {}
    BY <2>4
  <2>6. Total(take, {}) = 0
    BY TotalZero
  <2>7. Reached(w, take, b)
    BY <2>3, <2>5, <2>6 DEF Reached
  <2> QED
    BY <2>2, <2>7
<1> QED
  BY <1>1 DEF Refused, Outside

LEMMA PlanIsTheLoopInv == QueueInv => PlanIsTheLoop
<1> SUFFICES ASSUME QueueInv, NEW w \in Workers, At(w, "execute"), Slice(w) # {}
             PROVE  LET s == Loop(w) IN
                      /\ s.left = 0
                      /\ s.unlimited = Qty(w) - Total(s.take, Batches)
                      /\ {take \in [Batches -> 0 .. Qty(w)] : Plan(w, take)} = {s.take}
                      /\ Refused(w, s.take) = s.refused
                      /\ ~ s.refused => [b \in Batches |-> Settled(w, s.take)[b].status] = s.st
  BY DEF PlanIsTheLoop
<1> DEFINE s == Loop(w)
<1>1. Executing(w)
  BY DEF Executing
<1>2. PICK take \in [Batches -> 0 .. Qty(w)] : Plan(w, take) /\ s = Gone(w, take)
  BY <1>1, LoopEnds
<1>3. /\ s.left = 0 /\ s.take = take /\ s.unlimited = Qty(w) - Total(take, Batches)
      /\ s.refused = Outside(w) /\ s.st = Marked(Spent(w, take), Successor(w, take))
  BY <1>2 DEF Gone, State
<1>4. {t \in [Batches -> 0 .. Qty(w)] : Plan(w, t)} = {take}
  BY <1>1, <1>2, PlanUnique
<1>5. Refused(w, take) = Outside(w)
  BY <1>1, RefusedIs
<1>6. [b \in Batches |-> Settled(w, take)[b].status] = Marked(Spent(w, take), Successor(w, take))
  BY SettledRow DEF Marked, QueueInv, TypeInv
<1> QED
  BY <1>3, <1>4, <1>5, <1>6, Zenon

(* The allocation of the specification is the one of the loop of the code:  *)
(* AllocateToBatch, its loop and its promotions.                            *)
THEOREM LoopCorrect == Spec => []PlanIsTheLoop
<1>1. Spec => []QueueInv
  BY QueueInvInit, QueueInvStep, PTL DEF Spec
<1> QED
  BY <1>1, PlanIsTheLoopInv, PTL

----------------------------------------------------------------------------
(* What a row gives, from what the rows before it gave.                     *)
LEMMA PlanFills ==
    ASSUME NEW w, Executing(w), NEW take \in [Batches -> 0 .. Qty(w)], Plan(w, take),
           NEW b \in Slice(w)
    PROVE  take[b] = Lesser(Qty(w) - Total(take, {a \in Slice(w) : Earlier(w, a, b)}), Free(w, b))
<1> DEFINE E == {a \in Slice(w) : Earlier(w, a, b)}
           L == Batches \ (E \cup {b})
<1>1. b \in Batches /\ Slice(w) \subseteq Batches /\ Qty(w) \in Nat
  BY ExecutingType
<1>2. /\ \A a \in Batches : /\ take[a] \in Nat /\ take[a] <= Free(w, a) /\ Free(w, a) \in Nat
                            /\ a \notin Slice(w) => take[a] = 0
      /\ Total(take, Batches) \in Nat /\ Total(take, Batches) <= Qty(w)
  BY PlanType
<1>3. b \notin E /\ \A a \in Slice(w) \cap L : Earlier(w, b, a)
  BY <1>1, EarlierOrder DEF Executing, QueueInv, TypeInv
<1>4. E \subseteq Batches /\ L \subseteq Batches /\ Batches \ {b} = E \cup L /\ E \cap L = {}
  BY <1>1, <1>3
<1>5. \A a \in L : take[b] < Free(w, b) => take[a] = 0
  <2> SUFFICES ASSUME NEW a \in L, take[b] < Free(w, b), a \in Slice(w) PROVE take[a] = 0
    BY <1>2, <1>4
  <2>1. Earlier(w, b, a) /\ take[b] # Free(w, b)
    BY <1>1, <1>2, <1>3
  <2>2. ~ (take[a] > 0)
    BY <2>1 DEF Plan
  <2> QED
    BY <1>2, <1>4, <2>2
<1>6. take[b] = Free(w, b) \/ Total(take, Batches) = Qty(w)
  BY <1>1 DEF Plan
<1> HIDE DEF E, L
<1>7. IsFiniteSet(E) /\ IsFiniteSet(L)
  BY <1>4, BatchesFinite, FS_Subset
<1>8. Total(take, E) \in Nat /\ Total(take, L) \in Nat
  BY <1>2, <1>4, <1>7, TotalType
<1>9. Total(take, Batches) = take[b] + Total(take, E) + Total(take, L)
  <2>1. Total(take, Batches) = take[b] + Total(take, Batches \ {b})
    BY <1>1, <1>2, BatchesFinite, TotalSplit
  <2>2. Total(take, E \cup L) = Total(take, E) + Total(take, L)
    BY <1>2, <1>4, <1>7, TotalUnion
  <2>3. Total(take, Batches \ {b}) = Total(take, E) + Total(take, L)
    BY <1>4, <2>2, Zenon
  <2>4. take[b] \in Nat
    BY <1>1, <1>2
  <2> QED
    BY <1>8, <2>1, <2>3, <2>4
<1>10. take[b] < Free(w, b) => Total(take, L) = 0
  BY <1>5, TotalZero
<1>11. take[b] = Lesser(Qty(w) - Total(take, E), Free(w, b))
  <2>1. /\ take[b] \in Nat /\ Free(w, b) \in Nat /\ take[b] <= Free(w, b)
        /\ Qty(w) \in Nat /\ Total(take, Batches) <= Qty(w)
    BY <1>1, <1>2
  <2>2. CASE take[b] = Free(w, b)
    BY <1>8, <1>9, <2>1, <2>2 DEF Lesser
  <2>3. CASE take[b] # Free(w, b)
    BY <1>6, <1>8, <1>9, <1>10, <2>1, <2>3 DEF Lesser
  <2> QED
    BY <2>2, <2>3
<1> QED
  BY <1>11 DEF E

(* Nothing has changed: the rows and the locks that the request goes by are *)
(* those that the shop shows.                                               *)
Standing(w) == Executing(w) /\ Unchanged(w)

LEMMA StandingRows ==
    ASSUME NEW w, Standing(w)
    PROVE  /\ Slice(w) = OpenBatches
           /\ \A a, b \in OpenBatches : Ranked(w, a, b) <=> Ahead(a, b)
           /\ \A b \in OpenBatches : Free(w, b) = ShownRemaining(b)
<1> USE DEF Standing, Executing, Unchanged
<1>1. OpenBatches \subseteq Batches
  BY DEF OpenBatches
<1>2. \A b \in OpenBatches : req[w].rank[b] = row[b].seq /\ row[b].seq > 0
  BY <1>1 DEF Snapshot, QueueInv, Numbered
<1>3. Slice(w) = OpenBatches
  BY <1>2 DEF Slice
<1>4. \A a, b \in OpenBatches : Ranked(w, a, b) <=> Ahead(a, b)
  BY <1>2 DEF Ranked, Ahead
<1>5. ASSUME NEW b \in OpenBatches PROVE Free(w, b) = ShownRemaining(b)
  <2>1. row[b].quota \in Nat /\ row[b].sold \in Nat
    BY <1>1 DEF QueueInv, TypeInv, SoundRows
  <2>2. LockedBy(Lines, b) \in Nat
    <3>1. \A l \in Lines : [m \in Lines |-> held[m][b]][l] \in Nat
      BY <1>1 DEF QueueInv, TypeInv, SoundBooks
    <3> QED
      BY <3>1, LinesAssumption, TotalType DEF LockedBy
  <2>3. req[w].locked[b] = LockedBy(Lines, b)
    BY DEF Unchanged
  <2> HIDE DEF Unchanged, Standing, Executing
  <2> QED
    BY <1>3, <2>1, <2>2, <2>3 DEF Free, Remaining, ShownRemaining
<1> QED
  BY <1>3, <1>4, <1>5

LEMMA ActiveShownIs ==
    ASSUME NEW w, Standing(w)
    PROVE  /\ ActiveShown \in OpenBatches
           /\ \A b \in Slice(w) : ~ Earlier(w, b, ActiveShown)
           /\ \A a \in ActiveIn(row) : ActiveShown = a
<1>1. /\ Executing(w) /\ Slice(w) # {} /\ Slice(w) = OpenBatches /\ OpenBatches \subseteq Batches
      /\ \A a, b \in OpenBatches : Ranked(w, a, b) <=> Ahead(a, b)
  BY StandingRows DEF Standing, Executing, OpenBatches
<1>2. /\ ActiveIn(row) \subseteq OpenBatches
      /\ \A a, b \in ActiveIn(row) : a = b
      /\ \A b \in OpenBatches : b \in ActiveIn(row) <=> Active(b)
  BY <1>1 DEF ActiveIn, OpenBatches, Open, Active, Executing, QueueInv, OneActive
<1>3. \A b \in OpenBatches : ~ Earlier(w, b, b)
  BY <1>1, EarlierOrder DEF Executing, QueueInv, TypeInv
<1>4. CASE ActiveIn(row) # {}
  <2>1. PICK a \in ActiveIn(row) : TRUE
    BY <1>4
  <2>2. a \in OpenBatches /\ ActiveIn(row) = {a} /\ Active(a) /\ a # None
    BY <1>1, <1>2, <2>1, NoneAssumption
  <2>3. ~ Ahead(a, a)
    BY <1>1, <1>3, <2>2 DEF Earlier
  <2>4. {b \in ActiveIn(row) \cap OpenBatches : \A c \in ActiveIn(row) \cap OpenBatches : ~ Ahead(c, b)} = {a}
    BY <2>2, <2>3
  <2>5. FirstShown(ActiveIn(row)) = a
    BY <2>4 DEF FirstShown
  <2>6. ActiveShown = a
    BY <2>2, <2>5 DEF ActiveShown
  <2>7. \A b \in Slice(w) : ~ Earlier(w, b, a)
    BY <1>1, <1>2, <1>3, <2>2 DEF Earlier
  <2> QED
    BY <2>2, <2>6, <2>7
<1>5. CASE ActiveIn(row) = {}
  <2>1. \A a, b \in OpenBatches : Earlier(w, a, b) <=> Ahead(a, b)
    <3>1. \A b \in OpenBatches : ~ Active(b)
      BY <1>2, <1>5
    <3>2. \A a, b \in OpenBatches : Earlier(w, a, b) <=> Ranked(w, a, b)
      BY <3>1 DEF Earlier, Active
    <3> QED
      BY <1>1, <3>2
  <2>2. FirstShown(ActiveIn(row)) = None
    BY <1>5 DEF FirstShown
  <2>3. ActiveShown = FirstShown(OpenBatches)
    BY <2>2 DEF ActiveShown
  <2> DEFINE first == {b \in OpenBatches \cap OpenBatches :
                          \A a \in OpenBatches \cap OpenBatches : ~ Ahead(a, b)}
  <2>4. PICK m \in OpenBatches : \A a \in OpenBatches : ~ Earlier(w, a, m)
    BY <1>1, EarlierLeast DEF Executing, QueueInv, TypeInv
  <2>5. m \in first
    BY <2>1, <2>4
  <2>6. FirstShown(OpenBatches) \in first
    BY <2>5 DEF FirstShown
  <2> QED
    BY <1>1, <1>5, <2>1, <2>3, <2>6
<1> QED
  BY <1>4, <1>5

(* When the queue is behind the active batch, the batch shown next comes    *)
(* second.                                                                  *)
LEMMA NextShownIs ==
    ASSUME NEW w, Standing(w), InQueue, NextShown # None
    PROVE  NextShown \in OpenBatches /\ {b \in Slice(w) : Earlier(w, b, NextShown)} = {ActiveShown}
<1>1. /\ Executing(w) /\ Slice(w) = OpenBatches /\ OpenBatches \subseteq Batches
      /\ \A a, b \in OpenBatches : Ranked(w, a, b) <=> Ahead(a, b)
  BY StandingRows DEF Standing, Executing, OpenBatches
<1> DEFINE after == {b \in OpenBatches : Queued(b) /\ \E a \in ActiveIn(row) : Ahead(a, b)}
           first == {b \in after \cap OpenBatches : \A a \in after \cap OpenBatches : ~ Ahead(a, b)}
<1>2. NextShown = IF first = {} THEN None ELSE CHOOSE b \in first : TRUE
  BY DEF NextShown, FirstShown
<1>3. NextShown \in first
  BY <1>2
<1>4. PICK a \in ActiveIn(row) : Ahead(a, NextShown)
  BY <1>3
<1>5. a \in OpenBatches /\ Active(a) /\ a \in Batches /\ ActiveShown = a
  BY <1>4, ActiveShownIs DEF ActiveIn, OpenBatches, Open, Active
<1>6. \A b \in OpenBatches : b # a => Queued(b) /\ ~ Active(b) /\ b \in after
  <2> SUFFICES ASSUME NEW b \in OpenBatches, b # a PROVE Queued(b) /\ ~ Active(b) /\ b \in after
    OBVIOUS
  <2>1. ~ Active(b)
    BY <1>1, <1>5 DEF Executing, QueueInv, OneActive
  <2>2. Queued(b)
    BY <2>1 DEF OpenBatches, Open, Active, Queued
  <2> QED
    BY <1>4, <2>1, <2>2 DEF InQueue
<1>7. NextShown \in OpenBatches /\ NextShown # a /\ Queued(NextShown) /\ ~ Active(NextShown)
  BY <1>3, <1>5 DEF Queued, Active
<1>8. \A b \in OpenBatches : Earlier(w, b, NextShown) <=> b = a
  BY <1>1, <1>3, <1>5, <1>6, <1>7 DEF Earlier
<1> QED
  BY <1>1, <1>5, <1>7, <1>8

LEMMA TotalShown ==
    ASSUME NEW w, Standing(w), NEW take \in [Batches -> 0 .. Qty(w)], Plan(w, take)
    PROVE  Total(take, Batches) = Lesser(Qty(w), MaxBatchOrderableQty)
<1> DEFINE free == [b \in Batches |-> Free(w, b)]
           shown == [b \in Batches |-> ShownRemaining(b)]
<1>1. /\ Executing(w) /\ Slice(w) = OpenBatches /\ OpenBatches \subseteq Batches
      /\ \A b \in OpenBatches : Free(w, b) = ShownRemaining(b)
  BY StandingRows DEF Standing, OpenBatches
<1>2. /\ \A b \in Batches : /\ take[b] \in Nat /\ take[b] <= free[b] /\ free[b] \in Nat
                            /\ b \notin OpenBatches => free[b] = 0
      /\ Total(take, Batches) \in Nat /\ Total(take, Batches) <= Qty(w) /\ Qty(w) \in Nat
  BY <1>1, PlanType, ExecutingType
<1>3. Total(shown, OpenBatches) = Total(free, OpenBatches)
  <2>1. \A b \in OpenBatches : shown[b] = free[b]
    BY <1>1
  <2> HIDE DEF shown, free
  <2> QED
    BY <2>1, TotalCongruence
<1>4. Total(take, Batches) = Qty(w) \/ \A b \in Batches : take[b] = free[b]
  BY DEF Plan
<1> HIDE DEF free
<1>5. Total(free, OpenBatches) = Total(free, Batches)
  BY <1>1, <1>2, BatchesFinite, TotalPart
<1>6. Total(take, Batches) <= Total(free, Batches) /\ Total(free, Batches) \in Nat
  BY <1>2, BatchesFinite, TotalMonotone
<1>7. Total(take, Batches) = Qty(w) \/ Total(take, Batches) = Total(free, Batches)
  BY <1>4, TotalCongruence
<1>8. MaxBatchOrderableQty = Total(free, Batches)
  BY <1>3, <1>5 DEF MaxBatchOrderableQty
<1> QED
  BY <1>2, <1>6, <1>7, <1>8 DEF Lesser

LEMMA ShownIsSoldInv == QueueInv => ShownIsSold
<1> SUFFICES ASSUME QueueInv, NEW w \in Workers, At(w, "execute"), Slice(w) # {}, Unchanged(w),
                    NEW take \in [Batches -> 0 .. Qty(w)], Plan(w, take)
             PROVE  /\ Total(take, Batches) = Lesser(Qty(w), MaxBatchOrderableQty)
                    /\ take[ActiveShown] = Lesser(Qty(w), ShownRemaining(ActiveShown))
                    /\ InQueue /\ NextShown # None =>
                          take[NextShown] = Lesser(Qty(w) - take[ActiveShown], ShownRemaining(NextShown))
  BY DEF ShownIsSold
<1>1. Standing(w) /\ Executing(w)
  BY DEF Standing, Executing
<1>2. Slice(w) = OpenBatches /\ \A b \in OpenBatches : Free(w, b) = ShownRemaining(b)
  BY <1>1, StandingRows
<1>3. /\ ActiveShown \in OpenBatches /\ ActiveShown \in Batches
      /\ {a \in Slice(w) : Earlier(w, a, ActiveShown)} = {}
  BY <1>1, ActiveShownIs DEF OpenBatches
<1>4. take[ActiveShown] = Lesser(Qty(w), ShownRemaining(ActiveShown))
  <2>1. take[ActiveShown] = Lesser(Qty(w) - Total(take, {}), Free(w, ActiveShown))
    BY <1>1, <1>2, <1>3, PlanFills
  <2>2. Total(take, {}) = 0 /\ Qty(w) \in Nat
    BY <1>1, TotalZero, ExecutingType
  <2>3. Qty(w) - Total(take, {}) = Qty(w)
    BY <2>2
  <2> QED
    BY <1>2, <1>3, <2>1, <2>3
<1>5. ASSUME InQueue, NextShown # None
      PROVE  take[NextShown] = Lesser(Qty(w) - take[ActiveShown], ShownRemaining(NextShown))
  <2>1. NextShown \in OpenBatches /\ {b \in Slice(w) : Earlier(w, b, NextShown)} = {ActiveShown}
    BY <1>1, <1>5, NextShownIs
  <2>2. take[NextShown] = Lesser(Qty(w) - Total(take, {ActiveShown}), Free(w, NextShown))
    BY <1>1, <1>2, <2>1, PlanFills
  <2>3. Total(take, {ActiveShown}) = take[ActiveShown]
    <3>1. take[ActiveShown] \in Nat
      BY <1>1, <1>3, PlanType
    <3>2. IsFiniteSet({ActiveShown}) /\ {ActiveShown} \ {ActiveShown} = {}
      BY FS_Singleton
    <3>3. Total(take, {ActiveShown}) = take[ActiveShown] + Total(take, {ActiveShown} \ {ActiveShown})
      BY <3>1, <3>2, TotalSplit
    <3>4. Total(take, {}) = 0
      BY TotalZero
    <3> QED
      BY <3>1, <3>2, <3>3, <3>4
  <2> QED
    BY <1>2, <2>1, <2>2, <2>3
<1> QED
  BY <1>1, <1>4, <1>5, TotalShown

(* An order gets what the shop shows (GetBatchSummariesByVariantIDs), as    *)
(* long as nothing changes in between.                                      *)
THEOREM ShownCorrect == Spec => []ShownIsSold
<1>1. Spec => []QueueInv
  BY QueueInvInit, QueueInvStep, PTL DEF Spec
<1> QED
  BY <1>1, ShownIsSoldInv, PTL
----------------------------------------------------------------------------
(* A bill by order edit.                                                    *)
Variants == {Variant[i] : i \in Items} \cup Bought \cup {Nothing}
Line == [kind: {"deposit", "half", "goods"}, variant: Variants, qty: Nat, price: Nat,
         group: Groups \cup {0}, item: Items \cup {0}]
Rate == [id: Nat, title: {Title[g] : g \in Groups} \cup {Nothing}, price: Nat, group: Groups \cup {0}]
Order == [lines: Seq(Line), ship: SUBSET Rate]

Worth(s) == Total([n \in DOMAIN s |-> s[n].qty * s[n].price], DOMAIN s)
Rates(S) == Total([s \in S |-> s.price], S)

LEMMA TotalsAre == \A o : LineTotal(o) = Worth(o.lines) /\ ShipTotal(o) = Rates(o.ship)
  BY DEF LineTotal, ShipTotal, Worth, Rates

LEMMA FiniteBill == IsFiniteSet(Groups) /\ IsFiniteSet(Items) /\ Groups \subseteq Nat /\ Items \subseteq Nat
  BY FS_Interval, SizesAssumption DEF Groups, Items

(* What lines are worth, with a line added or units of one taken away.      *)
LEMMA WorthType ==
    ASSUME NEW s \in Seq(Line)
    PROVE  /\ Worth(s) \in Nat /\ DOMAIN s = 1 .. Len(s) /\ Len(s) \in Nat /\ IsFiniteSet(DOMAIN s)
           /\ \A n \in DOMAIN s : s[n] \in Line /\ s[n].qty \in Nat /\ s[n].price \in Nat
                                  /\ s[n].qty * s[n].price \in Nat
<1>1. DOMAIN s = 1 .. Len(s) /\ Len(s) \in Nat /\ \A n \in DOMAIN s : s[n] \in Line
  OBVIOUS
<1>2. IsFiniteSet(DOMAIN s)
  BY <1>1, FS_Interval
<1>3. \A n \in DOMAIN s : s[n].qty \in Nat /\ s[n].price \in Nat
  BY <1>1 DEF Line
<1>4. \A a, b \in Nat : a * b \in Nat
  OBVIOUS
<1>5. \A n \in DOMAIN s : s[n].qty * s[n].price \in Nat
  BY <1>3, <1>4
<1>6. Worth(s) \in Nat
  <2> DEFINE f == [n \in DOMAIN s |-> s[n].qty * s[n].price]
  <2>1. \A n \in DOMAIN s : f[n] \in Nat
    BY <1>5
  <2> HIDE DEF f
  <2>2. Total(f, DOMAIN s) \in Nat
    BY <1>2, <2>1, TotalType
  <2> QED
    BY <2>2 DEF Worth, f
<1> QED
  BY <1>1, <1>2, <1>3, <1>5, <1>6

LEMMA WorthAdded ==
    ASSUME NEW s \in Seq(Line), NEW l \in Line
    PROVE  Worth(Append(s, l)) = Worth(s) + l.qty * l.price
<1> DEFINE t == Append(s, l)
           N == Len(s) + 1
           f == [n \in DOMAIN s |-> s[n].qty * s[n].price]
           h == [n \in DOMAIN t |-> t[n].qty * t[n].price]
<1>1. t \in Seq(Line) /\ DOMAIN t = 1 .. N /\ t[N] = l /\ \A n \in DOMAIN s : t[n] = s[n]
  OBVIOUS
<1>2. N \in DOMAIN t /\ DOMAIN t \ {N} = DOMAIN s
  <2>1. DOMAIN s = 1 .. Len(s) /\ Len(s) \in Nat
    OBVIOUS
  <2> HIDE DEF t
  <2> QED
    BY <1>1, <2>1
<1>3. IsFiniteSet(DOMAIN t) /\ \A n \in DOMAIN t : h[n] \in Nat
  <2> HIDE DEF t
  <2> QED
    BY <1>1, WorthType
<1>4. \A n \in DOMAIN s : f[n] = h[n]
  BY <1>1, <1>2
<1>5. h[N] = l.qty * l.price
  BY <1>1, <1>2
<1>6. Worth(t) = Total(h, DOMAIN t) /\ Worth(s) = Total(f, DOMAIN s)
  BY DEF Worth
<1> HIDE DEF f, h, t, N
<1>7. Total(h, DOMAIN t) = h[N] + Total(h, DOMAIN t \ {N})
  BY <1>2, <1>3, TotalSplit
<1>8. Total(f, DOMAIN s) = Total(h, DOMAIN s)
  BY <1>4, TotalCongruence
<1>9. h[N] \in Nat /\ Total(f, DOMAIN s) \in Nat
  BY <1>2, <1>3, <1>6, WorthType
<1>10. Worth(t) = h[N] + Worth(s)
  BY <1>2, <1>6, <1>7, <1>8
<1> QED
  BY <1>5, <1>6, <1>9, <1>10 DEF t

LEMMA WorthLess ==
    ASSUME NEW s \in Seq(Line), NEW t \in Seq(Line), DOMAIN t = DOMAIN s, NEW d \in DOMAIN s,
           NEW k \in Nat, s[d].qty >= k, t[d].qty = s[d].qty - k, t[d].price = s[d].price,
           \A n \in DOMAIN s \ {d} : t[n] = s[n]
    PROVE  Worth(t) = Worth(s) - k * s[d].price
<1> DEFINE f == [n \in DOMAIN s |-> s[n].qty * s[n].price]
           h == [n \in DOMAIN t |-> t[n].qty * t[n].price]
<1>1. \A n \in DOMAIN s : f[n] \in Nat /\ h[n] \in Nat
  BY WorthType
<1>2. \A n \in DOMAIN s \ {d} : f[n] = h[n]
  OBVIOUS
<1>3. f[d] = s[d].qty * s[d].price /\ h[d] = (s[d].qty - k) * s[d].price
  OBVIOUS
<1>4. s[d].qty \in Nat /\ s[d].price \in Nat /\ IsFiniteSet(DOMAIN s)
  BY WorthType
<1>5. Worth(t) = Total(h, DOMAIN s) /\ Worth(s) = Total(f, DOMAIN s) /\ Worth(s) \in Nat /\ Worth(t) \in Nat
  BY WorthType DEF Worth
<1> HIDE DEF f, h
<1>6. Total(h, DOMAIN s) = Total(f, DOMAIN s) - f[d] + h[d]
  BY <1>1, <1>2, <1>4, TotalReplace
<1>7. \A q, p \in Nat : (q - k) * p = q * p - k * p
  OBVIOUS
<1>8. h[d] = f[d] - k * s[d].price /\ k * s[d].price \in Nat /\ f[d] \in Nat
  BY <1>1, <1>3, <1>4, <1>7
<1> QED
  BY <1>5, <1>6, <1>8

(* What shipping lines cost.                                                *)
LEMMA RatesType ==
    ASSUME NEW S, S \subseteq Rate, IsFiniteSet(S)
    PROVE  Rates(S) \in Nat /\ \A s \in S : s.price \in Nat
<1>1. \A s \in S : s.price \in Nat
  BY DEF Rate
<1>2. \A s \in S : [r \in S |-> r.price][s] \in Nat
  BY <1>1
<1> QED
  BY <1>1, <1>2, TotalType DEF Rates

LEMMA RateAdded ==
    ASSUME NEW S, S \subseteq Rate, IsFiniteSet(S), NEW r \in Rate, r \notin S
    PROVE  Rates(S \cup {r}) = Rates(S) + r.price
<1> DEFINE T == S \cup {r}
           f == [s \in S |-> s.price]
           h == [s \in T |-> s.price]
<1>1. T \subseteq Rate /\ IsFiniteSet(T) /\ T \ {r} = S /\ r \in T
  BY FS_AddElement
<1>2. \A s \in T : h[s] \in Nat
  BY <1>1, RatesType
<1>3. \A s \in S : f[s] = h[s]
  OBVIOUS
<1>4. h[r] = r.price
  OBVIOUS
<1>5. Rates(T) = Total(h, T) /\ Rates(S) = Total(f, S) /\ Rates(S) \in Nat
  BY RatesType DEF Rates
<1> HIDE DEF f, h, T
<1>6. Total(h, T) = h[r] + Total(h, T \ {r})
  BY <1>1, <1>2, TotalSplit
<1>7. Total(f, S) = Total(h, S)
  BY <1>3, TotalCongruence
<1>8. r.price \in Nat
  BY DEF Rate
<1>9. Rates(T) = r.price + Rates(S)
  BY <1>1, <1>4, <1>5, <1>6, <1>7
<1> QED
  BY <1>5, <1>8, <1>9 DEF T

(* What is computed item by item.                                           *)
Stepping(N, X) == [(1 .. N) \X X -> X]
Unfolds(f, a, N, step) == f[0] = a /\ \A i \in 1 .. N : f[i] = step[<<i, f[i - 1]>>]

LEMMA Recursion ==
    ASSUME NEW X, NEW a \in X, NEW N \in Nat, NEW step \in Stepping(N, X)
    PROVE  \E f \in [0 .. N -> X] : Unfolds(f, a, N, step)
<1> USE DEF Stepping, Unfolds
<1> DEFINE Good(n) == \E f \in [0 .. n -> X] : f[0] = a /\ \A i \in 1 .. n : f[i] = step[<<i, f[i - 1]>>]
           Bad == {n \in 0 .. N : ~ Good(n)}
<1>1. Bad = {}
  <2> SUFFICES ASSUME Bad # {} PROVE FALSE
    OBVIOUS
  <2>1. PICK n \in Bad : \A m \in Bad : n <= m
    <3>1. Bad \subseteq Nat
      OBVIOUS
    <3> HIDE DEF Bad
    <3> QED
      BY <3>1, NatLeast
  <2>2. n \in 0 .. N /\ ~ Good(n)
    OBVIOUS
  <2>3. CASE n = 0
    <3> DEFINE f == [i \in 0 .. 0 |-> a]
    <3>1. f \in [0 .. 0 -> X] /\ f[0] = a /\ 1 .. 0 = {}
      OBVIOUS
    <3> HIDE DEF f
    <3> QED
      BY <2>2, <2>3, <3>1
  <2>4. CASE n # 0
    <3>1. n - 1 \in 0 .. N /\ n \in 1 .. N /\ ~ (n <= n - 1)
      BY <2>2, <2>4
    <3>2. Good(n - 1)
      BY <2>1, <3>1
    <3>3. PICK f \in [0 .. n - 1 -> X] : f[0] = a /\ \A i \in 1 .. n - 1 : f[i] = step[<<i, f[i - 1]>>]
      BY <3>2
    <3> DEFINE h == [i \in 0 .. n |-> IF i = n THEN step[<<n, f[n - 1]>>] ELSE f[i]]
    <3>4. n - 1 \in 0 .. n - 1 /\ 0 \in 0 .. n - 1 /\ \A i \in 0 .. n : i # n => i \in 0 .. n - 1
      BY <3>1
    <3>5. step[<<n, f[n - 1]>>] \in X
      BY <3>1, <3>4
    <3>6. h \in [0 .. n -> X]
      BY <3>4, <3>5
    <3>7. h[0] = a
      BY <2>4, <3>3, <3>4, <3>1
    <3>8. ASSUME NEW i \in 1 .. n PROVE h[i] = step[<<i, h[i - 1]>>]
      <4>1. i - 1 \in 0 .. n /\ i - 1 # n /\ h[i - 1] = f[i - 1] /\ i \in 0 .. n
        BY <3>1
      <4>2. CASE i = n
        BY <4>1, <4>2
      <4>3. CASE i # n
        <5>1. i \in 1 .. n - 1 /\ h[i] = f[i]
          BY <3>1, <4>3
        <5> QED
          BY <3>3, <4>1, <5>1
      <4> QED
        BY <4>2, <4>3
    <3> HIDE DEF h
    <3>9. Good(n)
      BY <3>6, <3>7, <3>8
    <3> QED
      BY <2>2, <3>9
  <2> QED
    BY <2>3, <2>4
<1>2. Good(N)
  BY <1>1
<1> QED
  BY <1>2
----------------------------------------------------------------------------
(* Lines of the order beyond those of the checkout were added for an item of*)
(* a group that is billed on it.                                            *)
Size == Len(DraftLines)
ShipmentRow == [price: Nat, applied: Nat, claimed: BOOLEAN, sent: BOOLEAN, paid: BOOLEAN,
                expected: Int, folded: Nat, line: Nat]

(* On the order: billed, or by an interrupted edit that landed.             *)
On(g)     == shipment[g].sent \/ (shipment[g].claimed /\ Owed > 0)
Bill(g)   == Total([i \in Items |-> AppBalance(g, i)], Items) + shipment[g].price - Allocated(g)
Amount(g) == shipment[g].price - Allocated(g) + shipment[g].folded
ShipOf(g) == {s \in order.ship : s.group = g}
LinesOf(o, g) == {n \in Size + 1 .. Len(o.lines) : o.lines[n].group = g}
LinkOf(o, g, n) == [group |-> g, item |-> o.lines[n].item, line |-> n, qty |-> o.lines[n].qty]
Links(o, g) == {LinkOf(o, g, n) : n \in LinesOf(o, g)}

BillTypes ==
    /\ order \in Order /\ IsFiniteSet(order.ship)
    /\ paid \in Int /\ edits \in Nat
    /\ catalog \in [{Variant[i] : i \in Items} -> Nat]
    /\ shipment \in [Groups -> ShipmentRow]

(* A line with another number of units.                                     *)
WithQty(l, q) == [kind |-> l.kind, variant |-> l.variant, qty |-> q, price |-> l.price,
                  group |-> l.group, item |-> l.item]

CheckoutLines ==
    /\ Size <= Len(order.lines)
    /\ \A n \in 1 .. Size :
        /\ order.lines[n] = WithQty(DraftLines[n], order.lines[n].qty)
        /\ order.lines[n].kind = "half" => order.lines[n].qty \in {0, 1}

(* A line that an edit added, with the price of the website.                *)
AddedLine(g, i) == [kind |-> "goods", variant |-> Variant[i], qty |-> Share[g][i], price |-> Full[i],
                    group |-> g, item |-> i]
AddedLines ==
    /\ \A n \in Size + 1 .. Len(order.lines) :
        \E g \in Groups : \E i \in Billable(g) :
            /\ On(g) /\ order.lines[n] = AddedLine(g, i)
            /\ \A m \in Size + 1 .. n - 1 : order.lines[m].group = g => order.lines[m].item < i
    /\ \A g \in Groups : On(g) => \A i \in Billable(g) :
          \E n \in Size + 1 .. Len(order.lines) : order.lines[n] = AddedLine(g, i)

ShippingLines ==
    /\ \A s \in order.ship : /\ s.id \in 1 .. edits + 1
                             /\ \A t \in order.ship : s.id = t.id => s = t
                             /\ s.group = 0 => s.title = Nothing
                             /\ s.group # 0 => On(s.group) /\ s.title = Title[s.group]
    /\ \A g \in Groups : On(g) =>
          IF Amount(g) = 0 THEN ShipOf(g) = {}
          ELSE \E s \in order.ship : ShipOf(g) = {s} /\ s.price = Amount(g)

StoredLines ==
    \A g \in Groups : /\ shipment[g].line <= edits + 1
                      /\ shipment[g].sent => {s \in order.ship : s.id = shipment[g].line} = ShipOf(g)

Claims ==
    /\ \A g \in Groups : /\ shipment[g].paid => shipment[g].sent
                         /\ shipment[g].sent => shipment[g].claimed
                         /\ shipment[g].applied <= shipment[g].price
                         /\ ~ shipment[g].sent => shipment[g].applied = 0
    /\ \A g, h \in Groups : shipment[g].claimed /\ ~ shipment[g].paid
                            /\ shipment[h].claimed /\ ~ shipment[h].paid => g = h

Bills == [g \in Groups |-> IF On(g) THEN Bill(g) ELSE 0]
Money == LineTotal(order) + ShipTotal(order) = AtCheckout + Total(Bills, Groups)

OneOwes ==
    /\ Owed >= 0
    /\ Owed > 0 => \E g \in Groups : shipment[g].claimed /\ ~ shipment[g].paid /\ Owed = Bill(g)

(* An interrupted edit that landed has a shipping line to be found by.      *)
Landed ==
    \A g \in Groups : shipment[g].claimed /\ ~ shipment[g].sent /\ Owed > 0 => ShipOf(g) # {}

LinksOf(o, S) == UNION {Links(o, g) : g \in S}
Sent == {g \in Groups : shipment[g].sent}
Linked == links = LinksOf(order, Sent)

BillInv == /\ BillTypes /\ CheckoutLines /\ AddedLines /\ ShippingLines /\ StoredLines
           /\ Claims /\ Money /\ OneOwes /\ Landed /\ Linked

(* The order of the checkout.                                               *)
LEMMA DraftIs ==
    /\ DraftLines \in Seq(Line) /\ Size \in Nat /\ DOMAIN DraftLines = 1 .. Size /\ Items \subseteq 1 .. Size
    /\ \A n \in 1 .. Size : /\ DraftLines[n].kind = "deposit" <=> n \in Items
                            /\ n \in Items => DraftLines[n].item = n
                            /\ DraftLines[n].kind = "half" => DraftLines[n].price = Pool /\ DraftLines[n].qty = 1
    /\ Pool \in Nat
    /\ DraftShipping \subseteq Rate /\ IsFiniteSet(DraftShipping)
    /\ \A s \in DraftShipping : s.id = 1 /\ s.group = 0 /\ s.title = Nothing
    /\ \A s, t \in DraftShipping : s = t
<1> DEFINE D == [i \in Items |-> DepositDraftLine(i)]
           H == IF Pool > 0 THEN <<HalfDraftLine>> ELSE <<>>
           Q == IF Bought = {} THEN <<>> ELSE <<GoodsDraftLine(CHOOSE v \in Bought : TRUE)>>
<1>1. Pool \in Nat
  BY MoneyAssumption DEF Pool, SplitHalf
<1>2. \A i \in Items : DepositDraftLine(i) \in Line /\ DepositDraftLine(i).kind = "deposit" /\ DepositDraftLine(i).item = i
  <2> SUFFICES ASSUME NEW i \in Items
               PROVE  /\ DepositDraftLine(i) \in Line /\ DepositDraftLine(i).kind = "deposit"
                      /\ DepositDraftLine(i).item = i
    OBVIOUS
  <2>1. InAll(i) \in Nat
    <3>1. \A g \in Groups : [h \in Groups |-> Share[h][i]][g] \in Nat
      BY ShareAssumption
    <3> QED
      BY <3>1, FiniteBill, TotalType DEF InAll
  <2>2. Deposit[i] \in Nat /\ Variant[i] \in Variants
    BY MoneyAssumption DEF Variants
  <2> QED
    BY <2>1, <2>2 DEF DepositDraftLine, Line
<1>3. HalfDraftLine \in Line /\ HalfDraftLine.kind = "half" /\ HalfDraftLine.qty = 1 /\ HalfDraftLine.price = Pool
  BY <1>1 DEF HalfDraftLine, Line, Variants
<1>4. \A v \in Bought : GoodsDraftLine(v) \in Line /\ GoodsDraftLine(v).kind = "goods"
  BY MoneyAssumption DEF GoodsDraftLine, Line, Variants
<1>5. D \in Seq(Line) /\ Len(D) = NumItems /\ \A n \in 1 .. NumItems : D[n] = DepositDraftLine(n)
  BY <1>2, SizesAssumption DEF Items
<1>6. /\ H \in Seq(Line) /\ (Len(H) = 0 \/ Len(H) = 1) /\ (Len(H) = 1 => H[1] = HalfDraftLine)
  BY <1>3
<1>7. Q \in Seq(Line) /\ (Len(Q) = 0 \/ Len(Q) = 1) /\ (Len(Q) = 1 => Q[1] \in Line /\ Q[1].kind = "goods")
  <2>1. CASE Bought = {}
    BY <2>1
  <2>2. CASE Bought # {}
    <3> DEFINE v == CHOOSE w \in Bought : TRUE
    <3>1. v \in Bought
      BY <2>2
    <3>2. Q = <<GoodsDraftLine(v)>>
      BY <2>2
    <3> HIDE DEF v, Q
    <3> QED
      BY <1>4, <3>1, <3>2
  <2> QED
    BY <2>1, <2>2
<1>8. DraftLines = D \o H \o Q
  BY DEF DraftLines
<1> HIDE DEF D, H, Q
<1>9. /\ DraftLines \in Seq(Line) /\ Size = NumItems + Len(H) + Len(Q) /\ DOMAIN DraftLines = 1 .. Size
      /\ \A n \in 1 .. Size : DraftLines[n] = IF n <= NumItems THEN D[n]
                              ELSE IF n <= NumItems + Len(H) THEN H[n - NumItems] ELSE Q[n - NumItems - Len(H)]
  <2> DEFINE E == D \o H
  <2>1. NumItems \in Nat /\ Len(H) \in Nat /\ Len(Q) \in Nat
    BY <1>6, <1>7, SizesAssumption
  <2>2. /\ E \in Seq(Line) /\ Len(E) = NumItems + Len(H)
        /\ \A n \in 1 .. Len(E) : E[n] = IF n <= NumItems THEN D[n] ELSE H[n - NumItems]
    BY <1>5, <1>6, <2>1
  <2>3. DraftLines = E \o Q
    BY <1>8
  <2> HIDE DEF E
  <2>4. /\ DraftLines \in Seq(Line) /\ Len(DraftLines) = Len(E) + Len(Q) /\ DOMAIN DraftLines = 1 .. Len(DraftLines)
        /\ \A n \in 1 .. Len(DraftLines) : DraftLines[n] = IF n <= Len(E) THEN E[n] ELSE Q[n - Len(E)]
    BY <1>7, <2>2, <2>3
  <2>5. ASSUME NEW n \in 1 .. Size
        PROVE  DraftLines[n] = IF n <= NumItems THEN D[n]
                               ELSE IF n <= NumItems + Len(H) THEN H[n - NumItems] ELSE Q[n - NumItems - Len(H)]
    <3>1. n \in Nat /\ n >= 1 /\ n \in 1 .. Len(DraftLines) /\ n - Len(E) = n - NumItems - Len(H)
      BY <2>1, <2>2, <2>4 DEF Size
    <3>2. CASE n <= NumItems + Len(H)
      <4>1. n \in 1 .. Len(E)
        BY <2>1, <2>2, <3>1, <3>2
      <4> QED
        BY <2>1, <2>2, <2>4, <3>1, <3>2, <4>1
    <3>3. CASE n > NumItems + Len(H)
      <4>1. ~ (n <= NumItems) /\ ~ (n <= Len(E))
        BY <2>1, <2>2, <3>1, <3>3
      <4>2. DraftLines[n] = Q[n - Len(E)]
        BY <2>4, <3>1, <4>1
      <4> QED
        BY <2>1, <3>1, <3>3, <4>1, <4>2
    <3> QED
      BY <2>1, <3>1, <3>2, <3>3
  <2> QED
    BY <2>1, <2>2, <2>4, <2>5 DEF Size
<1>10. Size \in Nat /\ Items \subseteq 1 .. Size
  BY <1>6, <1>7, <1>9, SizesAssumption DEF Items
<1>11. ASSUME NEW n \in 1 .. Size
       PROVE  /\ DraftLines[n].kind = "deposit" <=> n \in Items
              /\ n \in Items => DraftLines[n].item = n
              /\ DraftLines[n].kind = "half" => DraftLines[n].price = Pool /\ DraftLines[n].qty = 1
  <2>1. CASE n <= NumItems
    <3>1. n \in Items /\ DraftLines[n] = DepositDraftLine(n)
      BY <1>5, <1>9, <2>1 DEF Items
    <3> QED
      BY <1>2, <3>1
  <2>2. CASE n > NumItems /\ n <= NumItems + Len(H)
    <3>1. n \notin Items /\ n - NumItems = 1 /\ Len(H) = 1
      <4>1. n \in Nat /\ NumItems \in Nat /\ (Len(H) = 0 \/ Len(H) = 1) /\ n > NumItems /\ n <= NumItems + Len(H)
        BY <1>6, <1>10, <2>2, SizesAssumption
      <4>2. Len(H) = 1 /\ n = NumItems + 1
        <5>1. \A k \in {0, 1} : n > NumItems /\ n <= NumItems + k => k = 1 /\ n = NumItems + 1
          BY <4>1
        <5> QED
          BY <4>1, <5>1
      <4> QED
        BY <4>1, <4>2 DEF Items
    <3>2. DraftLines[n] = HalfDraftLine
      BY <1>6, <1>9, <2>2, <3>1, SizesAssumption
    <3> QED
      BY <1>3, <3>1, <3>2
  <2>3. CASE n > NumItems + Len(H)
    <3>1. n \notin Items /\ n - NumItems - Len(H) = 1 /\ Len(Q) = 1
      BY <1>6, <1>7, <1>9, <2>3, SizesAssumption DEF Items
    <3>2. DraftLines[n].kind = "goods"
      BY <1>6, <1>7, <1>9, <2>3, <3>1, SizesAssumption
    <3> QED
      BY <3>1, <3>2
  <2> QED
    BY <1>6, <1>10, <2>1, <2>2, <2>3, SizesAssumption
<1>12. /\ DraftShipping \subseteq Rate /\ \A s \in DraftShipping : s.id = 1 /\ s.group = 0 /\ s.title = Nothing
       /\ \A s, t \in DraftShipping : s = t
  BY MoneyAssumption DEF DraftShipping, Rate
<1>13. IsFiniteSet(DraftShipping)
  BY FS_EmptySet, FS_Singleton DEF DraftShipping
<1> QED
  BY <1>1, <1>9, <1>10, <1>11, <1>12, <1>13

LEMMA ItemsType ==
    ASSUME NEW g \in Groups, NEW i \in Items
    PROVE  /\ Share[g][i] \in Nat /\ Full[i] \in Nat /\ Deposit[i] \in Nat /\ Deposit[i] <= Full[i]
           /\ AppBalance(g, i) \in Nat /\ AddedLine(g, i) \in Line
           /\ i \notin Billable(g) => AppBalance(g, i) = 0
           /\ i \in Billable(g) => AppBalance(g, i) > 0
<1>1. Share[g][i] \in Nat /\ Full[i] \in Nat /\ Deposit[i] \in Nat /\ Deposit[i] <= Full[i]
  BY ShareAssumption, MoneyAssumption
<1>2. \A a, b \in Nat : a * b \in Nat /\ (a = 0 \/ b = 0 => a * b = 0) /\ (a > 0 /\ b > 0 => a * b > 0)
  OBVIOUS
<1>3. Full[i] - Deposit[i] \in Nat /\ (Full[i] > Deposit[i] <=> Full[i] - Deposit[i] > 0)
      /\ (Full[i] - Deposit[i] = 0 \/ Full[i] - Deposit[i] > 0) /\ (Share[g][i] = 0 \/ Share[g][i] > 0)
  BY <1>1
<1>4. AppBalance(g, i) = (Full[i] - Deposit[i]) * Share[g][i]
  BY DEF AppBalance
<1>5. i \in Billable(g) <=> Share[g][i] > 0 /\ Full[i] > Deposit[i]
  BY DEF Billable
<1>6. AddedLine(g, i) \in Line
  BY <1>1 DEF AddedLine, Line, Variants
<1> QED
  BY <1>1, <1>2, <1>3, <1>4, <1>5, <1>6

LEMMA QtyIs ==
    ASSUME NEW l \in Line, NEW q \in Nat
    PROVE  /\ [l EXCEPT !.qty = q] = WithQty(l, q) /\ WithQty(l, q) \in Line
           /\ WithQty(l, l.qty) = l /\ WithQty(l, q).qty = q
           /\ WithQty(l, q).kind = l.kind /\ WithQty(l, q).variant = l.variant /\ WithQty(l, q).price = l.price
           /\ WithQty(l, q).group = l.group /\ WithQty(l, q).item = l.item
           /\ \A r \in Nat : WithQty(WithQty(l, q), r) = WithQty(l, r)
  BY DEF Line, WithQty

(* A line of the order is of the checkout or was added.                     *)
LEMMA LinesAre ==
    ASSUME BillTypes, CheckoutLines, AddedLines, NEW n \in DOMAIN order.lines
    PROVE  /\ order.lines \in Seq(Line) /\ Len(order.lines) \in Nat /\ DOMAIN order.lines = 1 .. Len(order.lines)
           /\ order.lines[n] \in Line
           /\ n \in 1 .. Size => /\ order.lines[n].kind = DraftLines[n].kind /\ order.lines[n].price = DraftLines[n].price
                                 /\ order.lines[n].group = DraftLines[n].group /\ order.lines[n].item = DraftLines[n].item
                                 /\ order.lines[n].variant = DraftLines[n].variant
           /\ n \notin 1 .. Size => /\ n \in Size + 1 .. Len(order.lines) /\ order.lines[n].kind = "goods"
                                    /\ order.lines[n].group \in Groups
<1>1. /\ order.lines \in Seq(Line) /\ Len(order.lines) \in Nat /\ DOMAIN order.lines = 1 .. Len(order.lines)
      /\ order.lines[n] \in Line
  BY DEF BillTypes, Order
<1>2. ASSUME n \in 1 .. Size
      PROVE  /\ order.lines[n].kind = DraftLines[n].kind /\ order.lines[n].price = DraftLines[n].price
             /\ order.lines[n].group = DraftLines[n].group /\ order.lines[n].item = DraftLines[n].item
             /\ order.lines[n].variant = DraftLines[n].variant
  <2>1. DraftLines[n] \in Line
    BY <1>2, DraftIs
  <2>2. order.lines[n] = WithQty(DraftLines[n], order.lines[n].qty)
    BY <1>2 DEF CheckoutLines
  <2> QED
    BY <2>1, <2>2 DEF Line, WithQty
<1>3. ASSUME n \notin 1 .. Size
      PROVE  n \in Size + 1 .. Len(order.lines) /\ order.lines[n].kind = "goods" /\ order.lines[n].group \in Groups
  <2>1. n \in Size + 1 .. Len(order.lines)
    BY <1>1, <1>3, DraftIs
  <2> QED
    <3>1. PICK g \in Groups : \E i \in Billable(g) : order.lines[n] = AddedLine(g, i)
      BY <2>1 DEF AddedLines
    <3> QED
      BY <2>1, <3>1 DEF AddedLine
<1> QED
  BY <1>1, <1>2, <1>3

LEMMA DepositIs ==
    ASSUME BillTypes, CheckoutLines, AddedLines, NEW i \in Items, DepositLine(i) # 0
    PROVE  DepositLine(i) \in DOMAIN order.lines /\ DepositLine(i) \in 1 .. Size
           /\ order.lines[DepositLine(i)].kind = "deposit"
<1>1. Len(order.lines) \in Nat /\ DOMAIN order.lines = 1 .. Len(order.lines)
  BY DEF BillTypes, Order
<1>2. CASE i \in Known
  <2>1. DepositLine(i) = i /\ i \in 1 .. Size /\ Size \in Nat /\ Size <= Len(order.lines)
    BY <1>2, DraftIs DEF DepositLine, CheckoutLines
  <2>2. i \in DOMAIN order.lines
    BY <1>1, <2>1
  <2> QED
    BY <2>1, <2>2, LinesAre, DraftIs
<1>3. CASE i \notin Known
  <2> DEFINE S == DepositsOf(Variant[i])
  <2>1. Cardinality(S) = 1 /\ DepositLine(i) = CHOOSE n \in S : TRUE
    BY <1>3 DEF DepositLine
  <2>2. S \subseteq DOMAIN order.lines
    BY DEF DepositsOf
  <2>3. IsFiniteSet(S)
    <3>1. IsFiniteSet(1 .. Len(order.lines))
      <4>1. Len(order.lines) \in Int /\ 1 \in Int
        BY <1>1
      <4> QED
        BY <4>1, FS_Interval
    <3> HIDE DEF S
    <3> QED
      BY <1>1, <2>2, <3>1, FS_Subset
  <2> HIDE DEF S
  <2>4. PICK n : S = {n}
    BY <2>1, <2>3, FS_Singleton
  <2>5. DepositLine(i) \in S
    BY <2>1, <2>4
  <2>6. DepositLine(i) \in DOMAIN order.lines /\ order.lines[DepositLine(i)].kind = "deposit"
    BY <2>5 DEF DepositsOf, S
  <2>7. DepositLine(i) \in 1 .. Size
    BY <2>6, LinesAre
  <2> QED
    BY <2>6, <2>7
<1> QED
  BY <1>2, <1>3

(* applyBalanceEdit, one item: units leave the deposit line, the product is *)
(* added at the price of the website.                                       *)
Longer == {o \in Order : Len(o.lines) >= Len(order.lines)}
Reduced(o, g, i) == [o.lines EXCEPT ![DepositLine(i)].qty = order.lines[DepositLine(i)].qty - Share[g][i]]

LEMMA SwappedIs ==
    ASSUME BillTypes, CheckoutLines, AddedLines, NEW g \in Groups, Plannable(g), NotAboveCatalog(g),
           NEW i \in Billable(g), NEW o \in Longer
    PROVE  /\ Swapped(o, g, i) = [lines |-> Append(Reduced(o, g, i), AddedLine(g, i)), ship |-> o.ship]
           /\ Reduced(o, g, i) \in Seq(Line) /\ DOMAIN Reduced(o, g, i) = DOMAIN o.lines
           /\ DepositLine(i) \in DOMAIN o.lines
           /\ Reduced(o, g, i)[DepositLine(i)] =
                 WithQty(o.lines[DepositLine(i)], order.lines[DepositLine(i)].qty - Share[g][i])
           /\ \A m \in DOMAIN o.lines \ {DepositLine(i)} : Reduced(o, g, i)[m] = o.lines[m]
           /\ Swapped(o, g, i) \in Longer
<1> DEFINE d == DepositLine(i)
           q == order.lines[d].qty - Share[g][i]
           s == o.lines
           t == Reduced(o, g, i)
           c == catalog[Variant[i]]
           r == [AddedLine(g, i) EXCEPT !.price = c]
<1>1. /\ i \in Items /\ d \in DOMAIN order.lines /\ order.lines[d].qty >= Share[g][i] /\ Share[g][i] \in Nat
      /\ order.lines[d].qty \in Nat /\ q \in Nat
  <2>1. i \in Items /\ d # 0 /\ order.lines[d].qty >= Share[g][i]
    BY DEF Billable, Plannable
  <2>2. d \in DOMAIN order.lines /\ Share[g][i] \in Nat
    BY <2>1, DepositIs, ItemsType
  <2>3. order.lines[d].qty \in Nat
    BY <2>2, LinesAre DEF Line
  <2> QED
    BY <2>1, <2>2, <2>3
<1>2. /\ o = [lines |-> s, ship |-> o.ship] /\ s \in Seq(Line) /\ DOMAIN s = 1 .. Len(s) /\ Len(s) \in Nat
      /\ d \in DOMAIN s /\ o.ship \subseteq Rate /\ Len(s) >= Len(order.lines)
  <2>1. o \in Order /\ Len(s) >= Len(order.lines)
    BY DEF Longer
  <2>2. o = [lines |-> s, ship |-> o.ship] /\ s \in Seq(Line) /\ o.ship \subseteq Rate
    BY <2>1 DEF Order
  <2>3. DOMAIN s = 1 .. Len(s) /\ Len(s) \in Nat
    BY <2>2
  <2>4. d \in 1 .. Len(order.lines) /\ Len(order.lines) \in Nat
    BY <1>1, LinesAre
  <2> QED
    BY <2>1, <2>2, <2>3, <2>4
<1> HIDE DEF d, q, s
<1>3. t = [s EXCEPT ![d] = [s[d] EXCEPT !.qty = q]]
  BY DEF Reduced, s, d, q
<1>4. [s[d] EXCEPT !.qty = q] = WithQty(s[d], q) /\ WithQty(s[d], q) \in Line
  <2>1. s[d] \in Line
    BY <1>2
  <2> QED
    BY <1>1, <2>1, QtyIs
<1>5. /\ t \in Seq(Line) /\ DOMAIN t = DOMAIN s /\ Len(t) = Len(s) /\ t[d] = WithQty(s[d], q)
      /\ \A m \in DOMAIN s \ {d} : t[m] = s[m]
  <2>1. t = [s EXCEPT ![d] = WithQty(s[d], q)]
    BY <1>3, <1>4
  <2> HIDE DEF t
  <2> QED
    BY <1>2, <1>4, <2>1
<1> HIDE DEF t
<1>6. SetOrderEditQuantity(o, d, q) = [lines |-> t, ship |-> o.ship]
  <2>1. SetOrderEditQuantity(o, d, q) = [o EXCEPT !.lines = [s EXCEPT ![d] = [s[d] EXCEPT !.qty = q]]]
    BY DEF SetOrderEditQuantity, s
  <2> QED
    BY <1>2, <1>3, <2>1
<1>7. c \in Nat /\ Full[i] <= c /\ Full[i] \in Nat
  BY <1>1, ItemsType DEF BillTypes, NotAboveCatalog
<1> DEFINE a == [lines |-> t, ship |-> o.ship]
           b == AddOrderEditVariant(a, g, i)
<1>8. b = [lines |-> Append(t, r), ship |-> o.ship]
  BY DEF AddOrderEditVariant, AddedLine
<1>9. AddedLine(g, i) \in Line /\ AddedLine(g, i).price = Full[i] /\ r \in Line /\ r.price = c
      /\ [r EXCEPT !.price = Full[i]] = AddedLine(g, i)
  <2>1. AddedLine(g, i) \in Line /\ AddedLine(g, i).price = Full[i]
    BY <1>1, ItemsType DEF AddedLine
  <2> HIDE DEF c
  <2> QED
    BY <1>7, <2>1 DEF AddedLine, Line
<1> HIDE DEF r, c
<1>10. Priced(a, g, i) = [lines |-> Append(t, AddedLine(g, i)), ship |-> o.ship]
  <2>1. CASE c > Full[i]
    <3> DEFINE u == Append(t, r)
    <3>1. Priced(a, g, i) = AddOrderEditLineDiscount(b, c - Full[i])
      BY <2>1 DEF Priced, c
    <3>2. /\ u \in Seq(Line) /\ Len(u) = Len(t) + 1 /\ u[Len(t) + 1] = r /\ Len(t) + 1 \in DOMAIN u
          /\ DOMAIN u = 1 .. Len(t) + 1 /\ \A m \in 1 .. Len(t) : u[m] = t[m]
      BY <1>5, <1>9
    <3> DEFINE L == Len(t) + 1
    <3>3. AddOrderEditLineDiscount(b, c - Full[i])
            = [b EXCEPT !.lines = [b.lines EXCEPT ![Len(b.lines)] = [b.lines[Len(b.lines)] EXCEPT !.price = @ - (c - Full[i])]]]
      BY DEF AddOrderEditLineDiscount
    <3>4. b.lines = u /\ b = [lines |-> u, ship |-> o.ship]
      BY <1>8
    <3> HIDE DEF b, u, L
    <3>5. [u EXCEPT ![Len(u)] = [u[Len(u)] EXCEPT !.price = @ - (c - Full[i])]] = [u EXCEPT ![L] = [r EXCEPT !.price = c - (c - Full[i])]]
      BY <1>9, <3>2 DEF L
    <3>6. c - (c - Full[i]) = Full[i]
      BY <1>7
    <3>7. Append(t, AddedLine(g, i)) = [u EXCEPT ![L] = AddedLine(g, i)]
      <4> DEFINE v == Append(t, AddedLine(g, i))
                 w == [u EXCEPT ![L] = AddedLine(g, i)]
      <4>1. v \in Seq(Line) /\ DOMAIN v = 1 .. L /\ v[L] = AddedLine(g, i) /\ \A m \in 1 .. Len(t) : v[m] = t[m]
        BY <1>5, <1>9 DEF L
      <4>2. w \in Seq(Line) /\ DOMAIN w = 1 .. L /\ w[L] = AddedLine(g, i) /\ \A m \in 1 .. Len(t) : w[m] = u[m]
        BY <1>5, <1>9, <3>2 DEF L
      <4>3. \A m \in 1 .. L : m # L => m \in 1 .. Len(t)
        BY <1>5 DEF L
      <4> HIDE DEF v, w
      <4>4. \A m \in 1 .. L : v[m] = w[m]
        BY <3>2, <4>1, <4>2, <4>3
      <4>5. v = [m \in 1 .. L |-> v[m]] /\ w = [m \in 1 .. L |-> w[m]]
        BY <4>1, <4>2
      <4> QED
        BY <4>4, <4>5 DEF v, w
    <3>8. [u EXCEPT ![L] = [r EXCEPT !.price = c - (c - Full[i])]] = Append(t, AddedLine(g, i))
      BY <1>9, <3>6, <3>7
    <3>9. AddOrderEditLineDiscount(b, c - Full[i])
            = [b EXCEPT !.lines = Append(t, AddedLine(g, i))]
      BY <3>3, <3>4, <3>5, <3>8
    <3> QED
      BY <3>1, <3>4, <3>9
  <2>2. CASE ~ (c > Full[i])
    <3>1. c = Full[i]
      BY <1>7, <2>2
    <3>2. r = AddedLine(g, i)
      BY <1>9, <3>1 DEF r, AddedLine
    <3>3. Priced(a, g, i) = b
      BY <2>2 DEF Priced, c
    <3> QED
      BY <1>8, <3>2, <3>3
  <2> QED
    BY <2>1, <2>2
<1>11. Swapped(o, g, i) = [lines |-> Append(t, AddedLine(g, i)), ship |-> o.ship]
  BY <1>6, <1>10 DEF Swapped, d, q
<1>12. Append(t, AddedLine(g, i)) \in Seq(Line) /\ Len(Append(t, AddedLine(g, i))) >= Len(order.lines)
  <2>1. Len(order.lines) \in Nat
    BY <1>1, LinesAre
  <2> QED
    BY <1>2, <1>5, <1>9, <2>1
<1>13. Swapped(o, g, i) \in Longer
  BY <1>2, <1>11, <1>12 DEF Longer, Order
<1> QED
  BY <1>2, <1>5, <1>11, <1>13 DEF t, d, q, s

(* The items one after the other.                                           *)
LEMMA AppliedIs ==
    ASSUME BillTypes, CheckoutLines, AddedLines, NEW g \in Groups, Plannable(g), NotAboveCatalog(g)
    PROVE  \E f \in [0 .. NumItems -> Longer] :
              /\ f[0] = order
              /\ \A n \in 1 .. NumItems : f[n] = IF n \in Billable(g) THEN Swapped(f[n - 1], g, n) ELSE f[n - 1]
              /\ Applied(g) = WithShipping(f[NumItems], g)
<1> DEFINE step == [p \in (1 .. NumItems) \X Longer |->
                       IF p[1] \in Billable(g) THEN Swapped(p[2], g, p[1]) ELSE p[2]]
           f == CHOOSE h : h = [n \in 0 .. NumItems |->
                                   IF n = 0 THEN order
                                   ELSE IF n \in Billable(g) THEN Swapped(h[n - 1], g, n) ELSE h[n - 1]]
<1>1. NumItems \in Nat /\ order \in Longer
  <2>1. order \in Order /\ Len(order.lines) \in Nat
    BY DEF BillTypes, Order
  <2> QED
    BY <2>1, SizesAssumption DEF Longer
<1>2. step \in [(1 .. NumItems) \X Longer -> Longer]
  BY SwappedIs
<1>3. \A n \in 1 .. NumItems, o \in Longer : step[<<n, o>>] = IF n \in Billable(g) THEN Swapped(o, g, n) ELSE o
  OBVIOUS
<1> HIDE DEF step
<1>4. PICK h \in [0 .. NumItems -> Longer] : h[0] = order /\ \A n \in 1 .. NumItems : h[n] = step[<<n, h[n - 1]>>]
  <2>1. NumItems \in Nat /\ order \in Longer
    BY <1>1
  <2>2. step \in Stepping(NumItems, Longer)
    BY <1>2 DEF Stepping
  <2>3. \E h \in [0 .. NumItems -> Longer] : Unfolds(h, order, NumItems, step)
    BY <2>1, <2>2, Recursion
  <2> QED
    BY <2>3 DEF Unfolds
<1>5. ASSUME NEW n \in 0 .. NumItems
      PROVE  h[n] = IF n = 0 THEN order ELSE IF n \in Billable(g) THEN Swapped(h[n - 1], g, n) ELSE h[n - 1]
  <2>1. CASE n = 0
    BY <1>4, <2>1
  <2>2. CASE n # 0
    <3>1. n \in 1 .. NumItems /\ n - 1 \in 0 .. NumItems
      BY <1>1, <2>2
    <3> QED
      BY <1>3, <1>4, <2>2, <3>1
  <2> QED
    BY <2>1, <2>2
<1>6. h = [n \in 0 .. NumItems |-> IF n = 0 THEN order
                                   ELSE IF n \in Billable(g) THEN Swapped(h[n - 1], g, n) ELSE h[n - 1]]
  <2>1. h = [n \in 0 .. NumItems |-> h[n]]
    BY <1>4
  <2> QED
    BY <1>5, <2>1
<1>7. f = [n \in 0 .. NumItems |-> IF n = 0 THEN order
                                   ELSE IF n \in Billable(g) THEN Swapped(f[n - 1], g, n) ELSE f[n - 1]]
  BY <1>6, Zenon
<1>8. Applied(g) = WithShipping(f[NumItems], g)
  BY Zenon DEF Applied
<1> HIDE DEF f
<1>9. \A n \in 0 .. NumItems : f[n] = IF n = 0 THEN order
                                      ELSE IF n \in Billable(g) THEN Swapped(f[n - 1], g, n) ELSE f[n - 1]
  BY <1>7, Zenon
<1> DEFINE Bad == {n \in 0 .. NumItems : f[n] \notin Longer}
<1>10. Bad = {}
  <2> SUFFICES ASSUME Bad # {} PROVE FALSE
    OBVIOUS
  <2>1. PICK n \in Bad : \A m \in Bad : n <= m
    <3>1. Bad \subseteq Nat
      BY <1>1
    <3> HIDE DEF Bad
    <3> QED
      BY <3>1, NatLeast
  <2>2. n \in 0 .. NumItems /\ f[n] \notin Longer
    OBVIOUS
  <2>3. n # 0
    BY <1>1, <1>9, <2>2
  <2>4. n - 1 \in 0 .. NumItems /\ ~ (n <= n - 1)
    BY <1>1, <2>2, <2>3
  <2>5. f[n - 1] \in Longer
    BY <2>1, <2>4
  <2>6. f[n] = IF n \in Billable(g) THEN Swapped(f[n - 1], g, n) ELSE f[n - 1]
    BY <1>9, <2>2, <2>3
  <2>7. n \in Billable(g) => Swapped(f[n - 1], g, n) \in Longer
    BY <2>5, SwappedIs
  <2> QED
    BY <2>2, <2>5, <2>6, <2>7
<1>11. f \in [0 .. NumItems -> Longer]
  BY <1>7, <1>10
<1>12. f[0] = order /\ \A n \in 1 .. NumItems : f[n] = IF n \in Billable(g) THEN Swapped(f[n - 1], g, n) ELSE f[n - 1]
  <2>1. 0 \in 0 .. NumItems /\ \A n \in 1 .. NumItems : n \in 0 .. NumItems /\ n # 0
    BY <1>1
  <2> QED
    BY <1>9, <2>1
<1> QED
  BY <1>8, <1>11, <1>12
----------------------------------------------------------------------------
(* The order while the items up to k are staged.                            *)
Upto(g, k)  == {i \in Billable(g) : i <= k}
Extra(o)    == Len(order.lines) + 1 .. Len(o.lines)
Balances(g) == [i \in Items |-> AppBalance(g, i)]

OldLines(o, S) ==
    /\ \A n \in 1 .. Len(order.lines) : o.lines[n] = WithQty(order.lines[n], o.lines[n].qty)
    /\ \A n \in 1 .. Len(order.lines) : n \notin S => o.lines[n] = order.lines[n]
NewLines(o, g, S) ==
    /\ \A n \in Extra(o) : \E i \in S : /\ o.lines[n] = AddedLine(g, i)
                                        /\ \A m \in Len(order.lines) + 1 .. n - 1 : o.lines[m].item < i
    /\ \A i \in S : \E n \in Extra(o) : o.lines[n] = AddedLine(g, i)
Staged(o, g, k) ==
    /\ o \in Longer /\ o.ship = order.ship
    /\ OldLines(o, {DepositLine(i) : i \in Upto(g, k)})
    /\ NewLines(o, g, Upto(g, k))
    /\ Worth(o.lines) = Worth(order.lines) + Total(Balances(g), Upto(g, k))

LEMMA BalancesType ==
    ASSUME NEW g \in Groups, NEW S, S \subseteq Items
    PROVE  IsFiniteSet(S) /\ Total(Balances(g), S) \in Nat /\ \A i \in Items : Balances(g)[i] = AppBalance(g, i) /\ Balances(g)[i] \in Nat
<1>1. \A i \in Items : Balances(g)[i] = AppBalance(g, i) /\ Balances(g)[i] \in Nat
  BY ItemsType DEF Balances
<1>2. IsFiniteSet(S)
  BY FiniteBill, FS_Subset
<1>3. Total(Balances(g), S) \in Nat
  BY <1>1, <1>2, TotalType
<1> QED
  BY <1>1, <1>2, <1>3

LEMMA ReducedWorth ==
    ASSUME BillTypes, CheckoutLines, AddedLines, NEW g \in Groups, Plannable(g), NotAboveCatalog(g),
           NEW i \in Billable(g), NEW o \in Longer, o.lines[DepositLine(i)] = order.lines[DepositLine(i)]
    PROVE  Worth(Swapped(o, g, i).lines) = Worth(o.lines) + AppBalance(g, i)
<1> DEFINE d == DepositLine(i)
           t == Reduced(o, g, i)
           p == order.lines[d].price
           k == Share[g][i]
<1>1. /\ i \in Items /\ d # 0 /\ order.lines[d].qty >= k /\ (Full[i] - p) * k = AppBalance(g, i)
  BY DEF Billable, Plannable
<1>2. k \in Nat /\ Full[i] \in Nat /\ AddedLine(g, i) \in Line
  BY <1>1, ItemsType
<1>3. o.lines \in Seq(Line) /\ t \in Seq(Line) /\ d \in DOMAIN o.lines /\ DOMAIN t = DOMAIN o.lines
  BY SwappedIs DEF Longer, Order
<1>4. t[d] = WithQty(order.lines[d], order.lines[d].qty - k) /\ \A m \in DOMAIN o.lines \ {d} : t[m] = o.lines[m]
  BY SwappedIs
<1>5. order.lines[d] \in Line
  BY <1>1, DepositIs, LinesAre
<1>6. p \in Nat /\ t[d].qty = order.lines[d].qty - k /\ t[d].price = p /\ o.lines[d].price = p /\ o.lines[d].qty >= k
      /\ o.lines[d].qty = order.lines[d].qty
  BY <1>1, <1>4, <1>5 DEF Line, WithQty
<1>7. Swapped(o, g, i).lines = Append(t, AddedLine(g, i))
  BY SwappedIs
<1> HIDE DEF d, t, p, k
<1>8. Worth(t) = Worth(o.lines) - k * p
  BY <1>2, <1>3, <1>4, <1>6, WorthLess
<1>9. AddedLine(g, i).qty = k /\ AddedLine(g, i).price = Full[i]
  BY DEF AddedLine, k
<1>10. Worth(Append(t, AddedLine(g, i))) = Worth(t) + k * Full[i]
  BY <1>2, <1>3, <1>9, WorthAdded
<1>11. Worth(o.lines) \in Nat /\ k * p \in Nat /\ k * Full[i] \in Nat /\ (Full[i] - p) * k = k * Full[i] - k * p
  <2>1. \A a, b, c \in Nat : a * b \in Nat /\ (a - b) * c = c * a - c * b
    OBVIOUS
  <2> QED
    BY <1>2, <1>3, <1>6, <2>1, WorthType
<1>12. Worth(Append(t, AddedLine(g, i))) = (Worth(o.lines) - k * p) + k * Full[i]
  BY <1>8, <1>10
<1>13. AppBalance(g, i) = k * Full[i] - k * p
  BY <1>1, <1>11
<1> HIDE DEF AppBalance
<1> QED
  BY <1>7, <1>11, <1>12, <1>13

LEMMA StagedStep ==
    ASSUME BillTypes, CheckoutLines, AddedLines, NEW g \in Groups, Plannable(g), NotAboveCatalog(g),
           NEW k \in Items, k \in Billable(g), NEW o, Staged(o, g, k - 1)
    PROVE  Staged(Swapped(o, g, k), g, k)
<1> DEFINE d == DepositLine(k)
           t == Reduced(o, g, k)
           u == Swapped(o, g, k)
           L == Len(order.lines)
           S == Upto(g, k - 1)
           R == Upto(g, k)
<1>1. o \in Longer /\ o.ship = order.ship /\ Worth(o.lines) = Worth(order.lines) + Total(Balances(g), S)
      /\ OldLines(o, {DepositLine(i) : i \in S}) /\ NewLines(o, g, S)
  BY DEF Staged
<1>2. k \in Nat /\ S \subseteq Billable(g) /\ R = S \cup {k} /\ k \notin S /\ R \subseteq Items /\ \A i \in S : i < k
  <2>1. Billable(g) \subseteq Items /\ Items \subseteq Nat
    BY FiniteBill DEF Billable
  <2> QED
    <3>1. k \in Nat /\ \A i \in Billable(g) : i \in Int /\ (i <= k - 1 <=> i <= k /\ i # k) /\ (i <= k - 1 => i < k)
      BY <2>1
    <3>2. R = S \cup {k}
      <4>1. ASSUME NEW x \in R PROVE x \in S \cup {k}
        <5>1. x \in Billable(g) /\ x <= k
          BY <4>1 DEF Upto
        <5>2. x <= k - 1 <=> x <= k /\ x # k
          BY <3>1, <5>1
        <5> QED
          BY <5>1, <5>2 DEF Upto
      <4>2. ASSUME NEW x \in S PROVE x \in R
        <5>1. x \in Billable(g) /\ x <= k - 1
          BY <4>2 DEF Upto
        <5>2. x <= k - 1 <=> x <= k /\ x # k
          BY <3>1, <5>1
        <5> QED
          BY <5>1, <5>2 DEF Upto
      <4>3. k \in R
        BY <3>1 DEF Upto
      <4> HIDE DEF R, S
      <4> QED
        BY <4>1, <4>2, <4>3
    <3>3. S \subseteq Billable(g) /\ k \notin S /\ \A i \in S : i < k
      BY <3>1 DEF Upto
    <3> HIDE DEF S, R
    <3> QED
      BY <2>1, <3>1, <3>2, <3>3
<1>3. /\ o.lines \in Seq(Line) /\ Len(o.lines) >= L /\ L \in Nat /\ DOMAIN o.lines = 1 .. Len(o.lines) /\ Len(o.lines) \in Nat
      /\ order.lines \in Seq(Line)
  BY <1>1 DEF Longer, Order, BillTypes
<1>4. /\ t \in Seq(Line) /\ Len(t) = Len(o.lines) /\ \A m \in 1 .. Len(t) : m # d => t[m] = o.lines[m]
      /\ t[d] = WithQty(o.lines[d], order.lines[d].qty - Share[g][k])
      /\ u = [lines |-> Append(t, AddedLine(g, k)), ship |-> o.ship] /\ u \in Longer
  <2>1. t \in Seq(Line) /\ DOMAIN t = DOMAIN o.lines
    BY <1>1, SwappedIs
  <2>2. Len(t) = Len(o.lines)
    BY <1>3, <2>1
  <2> QED
    BY <1>1, <1>3, <2>1, <2>2, SwappedIs
<1>5. d \in 1 .. L /\ \A i \in S : DepositLine(i) # d
  <2>1. k \in Items /\ d # 0 /\ \A i \in Billable(g) \ {k} : DepositLine(i) # d
    BY DEF Plannable, Billable
  <2>2. d \in 1 .. L
    BY <2>1, DepositIs, LinesAre
  <2> QED
    BY <1>2, <2>1, <2>2
<1>6. o.lines[d] = order.lines[d]
  BY <1>1, <1>5 DEF OldLines
<1>7. AddedLine(g, k) \in Line
  BY ItemsType
<1> DEFINE w == Append(t, AddedLine(g, k))
           N == Len(t) + 1
<1>8. /\ u.lines = w /\ Len(w) = N /\ w[N] = AddedLine(g, k) /\ \A m \in 1 .. Len(t) : w[m] = t[m]
      /\ u.ship = order.ship /\ N >= L + 1 /\ N \in Nat /\ N = Len(o.lines) + 1
  BY <1>1, <1>3, <1>4, <1>7
<1>9. Worth(u.lines) = Worth(order.lines) + Total(Balances(g), R)
  <2>1. Worth(u.lines) = Worth(o.lines) + AppBalance(g, k)
    BY <1>1, <1>6, ReducedWorth
  <2>2. Total(Balances(g), R) = Balances(g)[k] + Total(Balances(g), S)
    <3>1. R \ {k} = S /\ k \in R
      BY <1>2
    <3>2. IsFiniteSet(R) /\ \A i \in R : Balances(g)[i] \in Nat
      BY <1>2, BalancesType
    <3> HIDE DEF R, S
    <3> QED
      BY <3>1, <3>2, TotalSplit
  <2>3. Balances(g)[k] = AppBalance(g, k) /\ AppBalance(g, k) \in Nat /\ Total(Balances(g), S) \in Nat
    BY <1>2, BalancesType, ItemsType
  <2>4. Worth(order.lines) \in Nat
    BY <1>3, WorthType
  <2> HIDE DEF AppBalance, R, S, u
  <2> QED
    BY <1>1, <2>1, <2>2, <2>3, <2>4
<1> HIDE DEF t, u, w, N, S, R
<1>10. OldLines(u, {DepositLine(i) : i \in R})
  <2>1. ASSUME NEW n \in 1 .. L
        PROVE  u.lines[n] = WithQty(order.lines[n], u.lines[n].qty)
    <3>1. n \in 1 .. Len(t) /\ u.lines[n] = t[n]
      BY <1>3, <1>4, <1>8
    <3>2. o.lines[n] = WithQty(order.lines[n], o.lines[n].qty)
      BY <1>1 DEF OldLines
    <3>3. order.lines[n] \in Line
      BY <1>3
    <3>4. CASE n = d
      BY <1>4, <1>6, <3>1, <3>3, <3>4 DEF WithQty
    <3>5. CASE n # d
      BY <1>4, <3>1, <3>2, <3>5
    <3> QED
      BY <3>4, <3>5
  <2>2. ASSUME NEW n \in 1 .. L, n \notin {DepositLine(i) : i \in R}
        PROVE  u.lines[n] = order.lines[n]
    <3>1. n \in 1 .. Len(t) /\ u.lines[n] = t[n]
      BY <1>3, <1>4, <1>8
    <3>2. n # d /\ n \notin {DepositLine(i) : i \in S}
      BY <1>2, <2>2
    <3>3. o.lines[n] = order.lines[n]
      BY <1>1, <3>2 DEF OldLines
    <3> QED
      BY <1>4, <3>1, <3>2, <3>3
  <2> QED
    BY <2>1, <2>2 DEF OldLines
<1>11. NewLines(u, g, R)
  <2>1. \A m \in L + 1 .. Len(o.lines) : m \in 1 .. Len(t) /\ u.lines[m] = o.lines[m]
    BY <1>3, <1>4, <1>5, <1>8
  <2>2. ASSUME NEW n \in Extra(u)
        PROVE  \E i \in R : /\ u.lines[n] = AddedLine(g, i)
                            /\ \A m \in L + 1 .. n - 1 : u.lines[m].item < i
    <3>1. n \in L + 1 .. N
      BY <1>8, <2>2 DEF Extra
    <3>2. CASE n = N
      <4>1. ASSUME NEW m \in L + 1 .. n - 1 PROVE u.lines[m].item < k
        <5>1. m \in L + 1 .. Len(o.lines) /\ m \in Extra(o)
          BY <1>3, <1>8, <3>2 DEF Extra
        <5>2. PICK i \in S : o.lines[m] = AddedLine(g, i)
          BY <1>1, <5>1 DEF NewLines
        <5>3. u.lines[m] = AddedLine(g, i)
          BY <2>1, <5>1, <5>2
        <5> QED
          BY <1>2, <5>3 DEF AddedLine
      <4>2. k \in R
        BY <1>2
      <4> QED
        BY <1>8, <3>2, <4>1, <4>2
    <3>3. CASE n # N
      <4>1. n \in L + 1 .. Len(o.lines) /\ n \in Extra(o)
        BY <1>3, <1>8, <3>1, <3>3 DEF Extra
      <4>2. PICK i \in S : o.lines[n] = AddedLine(g, i) /\ \A m \in L + 1 .. n - 1 : o.lines[m].item < i
        BY <1>1, <4>1 DEF NewLines
      <4>3. \A m \in L + 1 .. n - 1 : m \in L + 1 .. Len(o.lines)
        BY <1>3, <4>1
      <4> QED
        BY <1>2, <2>1, <4>1, <4>2, <4>3
    <3> QED
      BY <3>2, <3>3
  <2>3. ASSUME NEW i \in R PROVE \E n \in Extra(u) : u.lines[n] = AddedLine(g, i)
    <3>1. CASE i = k
      <4>1. N \in Extra(u)
        BY <1>3, <1>8 DEF Extra
      <4> QED
        BY <1>8, <3>1, <4>1
    <3>2. CASE i # k
      <4>1. i \in S
        BY <1>2, <3>2
      <4>2. PICK n \in Extra(o) : o.lines[n] = AddedLine(g, i)
        BY <1>1, <4>1 DEF NewLines
      <4>3. n \in L + 1 .. Len(o.lines) /\ n \in Extra(u)
        BY <1>3, <1>8 DEF Extra
      <4> QED
        BY <2>1, <4>2, <4>3
    <3> QED
      BY <3>1, <3>2
  <2> QED
    BY <2>2, <2>3 DEF NewLines
<1> QED
  BY <1>4, <1>8, <1>9, <1>10, <1>11 DEF Staged, u, R
LEMMA StagedIs ==
    ASSUME BillTypes, CheckoutLines, AddedLines, NEW g \in Groups, Plannable(g), NotAboveCatalog(g)
    PROVE  /\ Upto(g, NumItems) = Billable(g)
           /\ \E o : Staged(o, g, NumItems) /\ Applied(g) = WithShipping(o, g)
<1>1. PICK f \in [0 .. NumItems -> Longer] :
        /\ f[0] = order
        /\ \A n \in 1 .. NumItems : f[n] = IF n \in Billable(g) THEN Swapped(f[n - 1], g, n) ELSE f[n - 1]
        /\ Applied(g) = WithShipping(f[NumItems], g)
  BY AppliedIs
<1>2. NumItems \in Nat /\ Billable(g) \subseteq Items /\ Items = 1 .. NumItems
  BY SizesAssumption DEF Billable, Items
<1>3. Staged(order, g, 0)
  <2>1. Upto(g, 0) = {}
    <3>1. \A i \in Billable(g) : ~ (i <= 0)
      BY <1>2
    <3> QED
      BY <3>1 DEF Upto
  <2>2. order \in Longer /\ order.lines \in Seq(Line) /\ Len(order.lines) \in Nat
    BY DEF Longer, BillTypes, Order
  <2>3. Extra(order) = {}
    BY <2>2 DEF Extra
  <2>4. \A n \in 1 .. Len(order.lines) : order.lines[n] = WithQty(order.lines[n], order.lines[n].qty)
    <3>1. \A n \in 1 .. Len(order.lines) : order.lines[n] \in Line
      BY <2>2
    <3> QED
      BY <3>1 DEF Line, WithQty
  <2>5. Worth(order.lines) = Worth(order.lines) + Total(Balances(g), {})
    <3>1. Total(Balances(g), {}) = 0
      BY TotalZero
    <3>2. Worth(order.lines) \in Nat
      BY <2>2, WorthType
    <3> QED
      BY <3>1, <3>2
  <2>6. NewLines(order, g, {})
    BY <2>3 DEF NewLines
  <2> QED
    BY <2>1, <2>2, <2>4, <2>5, <2>6 DEF Staged, OldLines
<1> DEFINE Bad == {n \in 0 .. NumItems : ~ Staged(f[n], g, n)}
<1>4. Bad = {}
  <2> SUFFICES ASSUME Bad # {} PROVE FALSE
    OBVIOUS
  <2>1. PICK n \in Bad : \A m \in Bad : n <= m
    <3>1. Bad \subseteq Nat
      BY <1>2
    <3> HIDE DEF Bad
    <3> QED
      BY <3>1, NatLeast
  <2>2. n \in 0 .. NumItems /\ ~ Staged(f[n], g, n)
    OBVIOUS
  <2>3. n # 0
    BY <1>1, <1>3, <2>2
  <2>4. n - 1 \in 0 .. NumItems /\ ~ (n <= n - 1) /\ n \in 1 .. NumItems /\ n \in Items
    BY <1>2, <2>2, <2>3
  <2>5. Staged(f[n - 1], g, n - 1)
    BY <2>1, <2>4
  <2>6. CASE n \in Billable(g)
    <3>1. f[n] = Swapped(f[n - 1], g, n)
      BY <1>1, <2>4, <2>6
    <3>2. Staged(Swapped(f[n - 1], g, n), g, n)
      BY <2>4, <2>5, <2>6, StagedStep
    <3> QED
      BY <2>2, <3>1, <3>2
  <2>7. CASE n \notin Billable(g)
    <3>1. f[n] = f[n - 1]
      BY <1>1, <2>4, <2>7
    <3>2. Upto(g, n) = Upto(g, n - 1)
      <4>1. ASSUME NEW i \in Billable(g) PROVE i <= n <=> i <= n - 1
        <5>1. i \in Int /\ n \in Int /\ i # n
          BY <1>2, <2>4, <2>7
        <5> QED
          BY <5>1
      <4> QED
        BY <4>1 DEF Upto
    <3>3. Staged(f[n - 1], g, n)
      BY <2>5, <3>2 DEF Staged
    <3> QED
      BY <2>2, <3>1, <3>3
  <2> QED
    BY <2>6, <2>7
<1>5. Staged(f[NumItems], g, NumItems)
  BY <1>2, <1>4
<1>6. Upto(g, NumItems) = Billable(g)
  <2>1. \A i \in Billable(g) : i <= NumItems
    BY <1>2
  <2> QED
    BY <2>1 DEF Upto
<1> QED
  BY <1>1, <1>5, <1>6

(* The prepayment a group is allowed.                                       *)
LEMMA AllocatedType ==
    ASSUME BillTypes, Claims, NEW g \in Groups
    PROVE  /\ Allocated(g) \in Nat /\ Allocated(g) <= shipment[g].price /\ Consumed \in Nat /\ Available \in Nat
           /\ shipment[g] \in ShipmentRow
           /\ Rest(g, shipment[g].price, Allocated(g)) = shipment[g].price - Allocated(g)
           /\ Fold(Allocated(g)) \in {0, Pool} /\ Pool \in Nat
<1>1. \A h \in Groups : shipment[h] \in ShipmentRow /\ shipment[h].price \in Nat /\ shipment[h].applied \in Nat
  BY DEF BillTypes, ShipmentRow
<1>2. Consumed \in Nat
  <2>1. \A h \in Groups : [k \in Groups |-> shipment[k].applied][h] \in Nat
    BY <1>1
  <2> QED
    BY <2>1, FiniteBill, TotalType DEF Consumed
<1>3. Before(g) \in Nat
  <2> DEFINE S == {h \in 1 .. g - 1 : Unbilled(h)}
  <2>1. S \subseteq Groups /\ IsFiniteSet(S)
    <3>1. S \subseteq Groups
      BY SizesAssumption DEF Groups
    <3> QED
      BY <3>1, FiniteBill, FS_Subset
  <2>2. \A h \in S : [k \in Groups |-> shipment[k].price][h] \in Nat
    BY <1>1, <2>1
  <2> HIDE DEF S
  <2>3. Total([k \in Groups |-> shipment[k].price], S) \in Nat
    BY <2>1, <2>2, TotalType
  <2> QED
    BY <2>3 DEF Before, S
<1>4. Pool \in Nat
  BY DraftIs
<1>5. \A a, b \in Nat : Less(a, b) \in Nat /\ Least(a, b) \in Nat /\ Least(a, b) <= a /\ (b <= a => Less(a, b) = a - b)
  BY DEF Less, Least
<1>6. Available \in Nat
  BY <1>2, <1>4, <1>5 DEF Available
<1>7. Allocated(g) \in Nat /\ Allocated(g) <= shipment[g].price
  <2>1. Less(Available, Before(g)) \in Nat
    BY <1>3, <1>5, <1>6
  <2>2. Least(shipment[g].price, Less(Available, Before(g))) \in Nat
        /\ Least(shipment[g].price, Less(Available, Before(g))) <= shipment[g].price
    BY <1>1, <1>5, <2>1
  <2>3. shipment[g].applied \in Nat /\ shipment[g].applied <= shipment[g].price
    BY <1>1 DEF Claims
  <2> QED
    BY <2>2, <2>3 DEF Allocated
<1>8. Rest(g, shipment[g].price, Allocated(g)) = shipment[g].price - Allocated(g)
  BY <1>1, <1>5, <1>7 DEF Rest
<1> QED
  BY <1>1, <1>2, <1>4, <1>6, <1>7, <1>8 DEF Fold

(* The order once the edit of a group is committed.                         *)
NewAmount(g) == Rest(g, shipment[g].price, Allocated(g)) + Fold(Allocated(g))
NewRate(g)   == [id |-> edits + 2, title |-> Title[g], price |-> NewAmount(g), group |-> g]

Committed(o, g) ==
    /\ o \in Order /\ IsFiniteSet(o.ship) /\ Len(o.lines) >= Len(order.lines)
    /\ \A n \in 1 .. Len(order.lines) :
          /\ o.lines[n] = WithQty(order.lines[n], o.lines[n].qty)
          /\ order.lines[n].kind = "goods" => o.lines[n] = order.lines[n]
          /\ order.lines[n].kind = "half" => o.lines[n].qty \in {0, order.lines[n].qty}
    /\ NewLines(o, g, Billable(g))
    /\ o.ship = IF NewAmount(g) > 0 THEN order.ship \cup {NewRate(g)} ELSE order.ship
    /\ Worth(o.lines) + Rates(o.ship)
         = Worth(order.lines) + Rates(order.ship) + Total(Balances(g), Billable(g)) + NewAmount(g) - Fold(Allocated(g))
LEMMA CommittedIs ==
    ASSUME BillTypes, CheckoutLines, AddedLines, ShippingLines, Claims,
           NEW g \in Groups, Plannable(g), NotAboveCatalog(g)
    PROVE  Committed(Applied(g), g)
<1>1. PICK o : Staged(o, g, NumItems) /\ Applied(g) = WithShipping(o, g)
  BY StagedIs
<1>2. Upto(g, NumItems) = Billable(g)
  BY StagedIs
<1> DEFINE L == Len(order.lines)
           D == {DepositLine(i) : i \in Billable(g)}
           P == Fold(Allocated(g))
           K == IF P = 0 THEN o ELSE SetOrderEditQuantity(o, CHOOSE n \in Halves : TRUE, 0)
           A == NewAmount(g)
<1>3. /\ o \in Longer /\ o.ship = order.ship /\ OldLines(o, D) /\ NewLines(o, g, Billable(g))
      /\ Worth(o.lines) = Worth(order.lines) + Total(Balances(g), Billable(g))
  BY <1>1, <1>2 DEF Staged
<1>4. /\ o \in Order /\ o.lines \in Seq(Line) /\ Len(o.lines) \in Nat /\ Len(o.lines) >= L /\ L \in Nat
      /\ order.lines \in Seq(Line) /\ o = [lines |-> o.lines, ship |-> order.ship] /\ DOMAIN order.lines = 1 .. L
      /\ order.ship \subseteq Rate /\ IsFiniteSet(order.ship) /\ DOMAIN o.lines = 1 .. Len(o.lines)
  BY <1>3 DEF Longer, Order, BillTypes
<1>5. \A n \in 1 .. L : order.lines[n] \in Line /\ (order.lines[n].kind # "deposit" => n \notin D)
  <2>1. \A i \in Billable(g) : i \in Items /\ DepositLine(i) # 0
    BY DEF Billable, Plannable
  <2>2. \A i \in Billable(g) : order.lines[DepositLine(i)].kind = "deposit"
    BY <2>1, DepositIs
  <2> QED
    BY <1>4, <2>2
<1>6. \A n \in 1 .. L : /\ o.lines[n] = WithQty(order.lines[n], o.lines[n].qty)
                        /\ order.lines[n].kind # "deposit" => o.lines[n] = order.lines[n]
  BY <1>3, <1>5 DEF OldLines
<1>7. P \in {0, Pool} /\ Pool \in Nat /\ A \in Nat /\ (P # 0 => Halves # {})
  <2>1. A = (shipment[g].price - Allocated(g)) + P
    BY AllocatedType DEF NewAmount
  <2>2. P \in {0, Pool} /\ Pool \in Nat /\ shipment[g].price \in Nat /\ Allocated(g) \in Nat /\ Allocated(g) <= shipment[g].price
    BY AllocatedType DEF ShipmentRow
  <2> HIDE DEF A
  <2>3. A \in Nat
    BY <2>1, <2>2
  <2> QED
    BY <2>2, <2>3 DEF Fold, P
<1>8. Applied(g) = IF A > 0 THEN AddOrderEditShippingLine(K, g, A) ELSE K
  BY <1>1 DEF WithShipping, NewAmount
<1>9. \E s \in Seq(Line) :
        /\ K = [lines |-> s, ship |-> order.ship] /\ Len(s) = Len(o.lines)
        /\ \A n \in 1 .. L : /\ s[n] = WithQty(order.lines[n], s[n].qty)
                             /\ order.lines[n].kind = "goods" => s[n] = order.lines[n]
                             /\ order.lines[n].kind = "half" => s[n].qty \in {0, order.lines[n].qty}
        /\ \A n \in L + 1 .. Len(o.lines) : s[n] = o.lines[n]
        /\ Worth(s) = Worth(o.lines) - P
  <2>1. CASE P = 0
    <3>1. K = o /\ Worth(o.lines) = Worth(o.lines) - P
      <4>1. Worth(o.lines) \in Nat
        BY <1>4, WorthType
      <4> QED
        BY <2>1, <4>1
    <3> HIDE DEF K, P
    <3> QED
      BY <1>4, <1>6, <3>1
  <2>2. CASE P # 0
    <3> DEFINE d == CHOOSE n \in Halves : TRUE
               s == [o.lines EXCEPT ![d] = WithQty(o.lines[d], 0)]
    <3>1. d \in Halves /\ P = Pool
      BY <1>7, <2>2
    <3>2. d \in 1 .. L /\ order.lines[d].kind = "half" /\ order.lines[d].qty > 0
      BY <1>4, <3>1 DEF Halves
    <3>3. d \in 1 .. Size /\ order.lines[d].price = Pool /\ order.lines[d].qty = 1
      <4>1. d \in 1 .. Size /\ order.lines[d].kind = DraftLines[d].kind /\ order.lines[d].price = DraftLines[d].price
        BY <1>4, <3>2, LinesAre
      <4>2. DraftLines[d].price = Pool
        BY <3>2, <4>1, DraftIs
      <4>3. order.lines[d].qty \in {0, 1}
        BY <3>2, <4>1 DEF CheckoutLines
      <4> QED
        BY <3>2, <4>1, <4>2, <4>3
    <3>4. o.lines[d] = order.lines[d] /\ d \in DOMAIN o.lines /\ o.lines[d] \in Line
      BY <1>4, <1>5, <1>6, <3>2
    <3>5. K = SetOrderEditQuantity(o, d, 0)
      BY <2>2
    <3> HIDE DEF d, K, P
    <3>6. [o.lines[d] EXCEPT !.qty = 0] = WithQty(o.lines[d], 0) /\ WithQty(o.lines[d], 0) \in Line
          /\ WithQty(o.lines[d], 0).qty = 0 /\ WithQty(o.lines[d], 0).price = Pool
      BY <3>3, <3>4, QtyIs
    <3>7. K = [lines |-> s, ship |-> order.ship]
      <4>1. K = [o EXCEPT !.lines = [o.lines EXCEPT ![d] = [o.lines[d] EXCEPT !.qty = 0]]]
        BY <3>5 DEF SetOrderEditQuantity
      <4>2. K = [o EXCEPT !.lines = s]
        BY <3>6, <4>1
      <4> HIDE DEF s
      <4> QED
        BY <1>4, <4>2
    <3>8. /\ s \in Seq(Line) /\ Len(s) = Len(o.lines) /\ DOMAIN s = DOMAIN o.lines /\ s[d] = WithQty(o.lines[d], 0)
          /\ \A n \in DOMAIN o.lines \ {d} : s[n] = o.lines[n]
      BY <1>4, <3>4, <3>6
    <3> HIDE DEF s
    <3>9. Worth(s) = Worth(o.lines) - P
      <4>1. Worth(s) = Worth(o.lines) - 1 * o.lines[d].price
        <5>1. o.lines[d].qty = 1 /\ s[d].qty = o.lines[d].qty - 1 /\ s[d].price = o.lines[d].price /\ o.lines[d].qty >= 1
          BY <3>3, <3>4, <3>6, <3>8
        <5>2. 1 \in Nat
          OBVIOUS
        <5> QED
          BY <1>4, <3>4, <3>8, <5>1, <5>2, WorthLess
      <4>2. 1 * o.lines[d].price = P
        BY <1>7, <3>1, <3>3, <3>4
      <4> QED
        BY <4>1, <4>2
    <3>10. ASSUME NEW n \in 1 .. L
           PROVE  /\ s[n] = WithQty(order.lines[n], s[n].qty)
                  /\ order.lines[n].kind = "goods" => s[n] = order.lines[n]
                  /\ order.lines[n].kind = "half" => s[n].qty \in {0, order.lines[n].qty}
      <4>1. n \in DOMAIN o.lines
        BY <1>4
      <4>2. CASE n = d
        BY <3>2, <3>4, <3>6, <3>8, <4>2
      <4>3. CASE n # d
        <5>1. s[n] = o.lines[n]
          BY <3>8, <4>1, <4>3
        <5> QED
          BY <1>6, <5>1
      <4> QED
        BY <4>2, <4>3
    <3>11. \A n \in L + 1 .. Len(o.lines) : s[n] = o.lines[n]
      <4>1. \A n \in L + 1 .. Len(o.lines) : n \in DOMAIN o.lines /\ n # d
        BY <1>4, <3>2
      <4> QED
        BY <3>8, <4>1
    <3> QED
      BY <3>7, <3>8, <3>9, <3>10, <3>11
  <2> QED
    BY <2>1, <2>2
<1> HIDE DEF K, A, P, D
<1>10. PICK s \in Seq(Line) :
        /\ K = [lines |-> s, ship |-> order.ship] /\ Len(s) = Len(o.lines)
        /\ \A n \in 1 .. L : /\ s[n] = WithQty(order.lines[n], s[n].qty)
                             /\ order.lines[n].kind = "goods" => s[n] = order.lines[n]
                             /\ order.lines[n].kind = "half" => s[n].qty \in {0, order.lines[n].qty}
        /\ \A n \in L + 1 .. Len(o.lines) : s[n] = o.lines[n]
        /\ Worth(s) = Worth(o.lines) - P
  BY <1>9
<1>11. NewRate(g) \in Rate /\ NewRate(g) \notin order.ship /\ NewRate(g).price = A
  <2>1. edits \in Nat /\ \A r \in order.ship : r.id \in 1 .. edits + 1
    BY DEF BillTypes, ShippingLines
  <2>2. \A r \in order.ship : r.id # edits + 2
    BY <2>1
  <2>3. NewRate(g).id = edits + 2 /\ NewRate(g).price = A
    BY DEF NewRate, A
  <2>4. NewRate(g) = [id |-> edits + 2, title |-> Title[g], price |-> A, group |-> g] /\ edits + 2 \in Nat
    BY <2>1 DEF NewRate, A
  <2>5. NewRate(g) \in Rate
    BY <1>7, <2>4 DEF Rate
  <2> QED
    BY <2>2, <2>3, <2>5
<1> DEFINE u == Applied(g)
           S == IF A > 0 THEN order.ship \cup {NewRate(g)} ELSE order.ship
<1>12. u = [lines |-> s, ship |-> S]
  <2>1. CASE A > 0
    <3>1. u = AddOrderEditShippingLine([lines |-> s, ship |-> order.ship], g, A)
      BY <1>8, <1>10, <2>1
    <3>2. NewRate(g) = [id |-> edits + 2, title |-> Title[g], price |-> A, group |-> g]
      BY DEF NewRate, A
    <3> QED
      BY <2>1, <3>1, <3>2 DEF AddOrderEditShippingLine
  <2>2. CASE ~ (A > 0)
    BY <1>8, <1>10, <2>2
  <2> QED
    BY <2>1, <2>2
<1>13. S \subseteq Rate /\ IsFiniteSet(S) /\ Rates(S) = Rates(order.ship) + A /\ Rates(order.ship) \in Nat
  <2>1. Rates(order.ship) \in Nat
    BY <1>4, RatesType
  <2>2. CASE A > 0
    BY <1>4, <1>11, <2>1, <2>2, RateAdded, FS_AddElement
  <2>3. CASE ~ (A > 0)
    BY <1>4, <1>7, <2>1, <2>3
  <2> QED
    BY <2>1, <2>2, <2>3
<1> HIDE DEF u, S
<1>14. u \in Order /\ u.lines = s /\ u.ship = S
  BY <1>12, <1>13 DEF Order
<1>15. NewLines(u, g, Billable(g))
  <2>1. Extra(u) = Extra(o) /\ Extra(o) = L + 1 .. Len(o.lines)
    BY <1>10, <1>14 DEF Extra
  <2>2. \A n \in Extra(o) : u.lines[n] = o.lines[n]
    BY <1>10, <1>14, <2>1
  <2>3. \A n \in Extra(o) : \A m \in L + 1 .. n - 1 : u.lines[m] = o.lines[m]
    <3>1. \A n \in Extra(o) : \A m \in L + 1 .. n - 1 : m \in Extra(o)
      BY <1>4, <2>1
    <3> QED
      BY <2>2, <3>1
  <2>4. ASSUME NEW n \in Extra(u)
        PROVE  \E i \in Billable(g) : /\ u.lines[n] = AddedLine(g, i)
                                      /\ \A m \in L + 1 .. n - 1 : u.lines[m].item < i
    <3>1. PICK i \in Billable(g) : o.lines[n] = AddedLine(g, i) /\ \A m \in L + 1 .. n - 1 : o.lines[m].item < i
      BY <1>3, <2>1 DEF NewLines
    <3>2. \A m \in L + 1 .. n - 1 : u.lines[m].item < i
      BY <2>1, <2>3, <3>1
    <3> QED
      BY <2>1, <2>2, <3>1, <3>2
  <2>5. \A i \in Billable(g) : \E n \in Extra(u) : u.lines[n] = AddedLine(g, i)
    BY <1>3, <2>1, <2>2 DEF NewLines
  <2> QED
    BY <2>4, <2>5 DEF NewLines
<1>16. Worth(u.lines) + Rates(u.ship)
         = Worth(order.lines) + Rates(order.ship) + Total(Balances(g), Billable(g)) + A - P
  <2>1. Worth(order.lines) \in Nat /\ Total(Balances(g), Billable(g)) \in Nat /\ A \in Nat /\ P \in Int
    <3>1. Billable(g) \subseteq Items
      BY DEF Billable
    <3> QED
      BY <1>4, <1>7, <3>1, WorthType, BalancesType
  <2>2. Worth(u.lines) = (Worth(order.lines) + Total(Balances(g), Billable(g))) - P
    BY <1>3, <1>10, <1>14
  <2>3. Rates(u.ship) = Rates(order.ship) + A
    BY <1>13, <1>14
  <2> QED
    BY <1>13, <2>1, <2>2, <2>3
<1>17. /\ Len(u.lines) >= L /\ IsFiniteSet(u.ship) /\ u.ship = IF A > 0 THEN order.ship \cup {NewRate(g)} ELSE order.ship
       /\ \A n \in 1 .. L : /\ u.lines[n] = WithQty(order.lines[n], u.lines[n].qty)
                            /\ order.lines[n].kind = "goods" => u.lines[n] = order.lines[n]
                            /\ order.lines[n].kind = "half" => u.lines[n].qty \in {0, order.lines[n].qty}
  BY <1>4, <1>10, <1>13, <1>14 DEF S
<1> QED
  BY <1>14, <1>15, <1>16, <1>17 DEF Committed, u, A, P
(* What a group is billed: what the app expects, and more than nothing.     *)
LEMMA BillIs ==
    ASSUME BillTypes, Claims, NEW g \in Groups
    PROVE  /\ Bill(g) = Total(Balances(g), Billable(g)) + (shipment[g].price - Allocated(g)) /\ Bill(g) \in Nat
           /\ Total(Balances(g), Billable(g)) \in Nat
           /\ Billable(g) # {} \/ shipment[g].price > Allocated(g) => Bill(g) > 0
<1>1. Billable(g) \subseteq Items /\ IsFiniteSet(Items)
  BY FiniteBill DEF Billable
<1>2. \A i \in Items : Balances(g)[i] \in Nat /\ Balances(g)[i] = AppBalance(g, i)
  BY <1>1, BalancesType
<1>3. \A i \in Items \ Billable(g) : Balances(g)[i] = 0
  BY <1>2, ItemsType
<1>4. Total(Balances(g), Billable(g)) = Total(Balances(g), Items) /\ Total(Balances(g), Billable(g)) \in Nat
  BY <1>1, <1>2, <1>3, TotalPart
<1>5. shipment[g].price \in Nat /\ Allocated(g) \in Nat /\ Allocated(g) <= shipment[g].price
  BY AllocatedType DEF ShipmentRow
<1>6. Bill(g) = Total(Balances(g), Items) + shipment[g].price - Allocated(g)
  BY DEF Bill, Balances
<1>7. Billable(g) # {} => Total(Balances(g), Billable(g)) > 0
  <2> SUFFICES ASSUME NEW i \in Billable(g) PROVE Total(Balances(g), Items) > 0
    BY <1>4
  <2>1. Total(Balances(g), Items) = Balances(g)[i] + Total(Balances(g), Items \ {i}) /\ Total(Balances(g), Items \ {i}) \in Nat
    BY <1>1, <1>2, TotalSplit
  <2>2. Balances(g)[i] > 0 /\ Balances(g)[i] \in Nat
    BY <1>1, <1>2, ItemsType
  <2> QED
    BY <2>1, <2>2
<1>8. \A t, p, a \in Nat : a <= p => t + p - a = t + (p - a) /\ t + (p - a) \in Nat /\ (t > 0 \/ p > a => t + (p - a) > 0)
  OBVIOUS
<1> QED
  BY <1>4, <1>5, <1>6, <1>7, <1>8

LEMMA IncreaseIs ==
    ASSUME BillTypes, Claims, NEW g \in Groups, Plannable(g)
    PROVE  Increase(g) = Bill(g) /\ Bill(g) > 0
<1> DEFINE f == [i \in Billable(g) |-> (Full[i] - order.lines[DepositLine(i)].price) * Share[g][i]]
           P == Fold(Allocated(g))
           R == shipment[g].price - Allocated(g)
<1>1. \A i \in Billable(g) : f[i] = Balances(g)[i]
  <2>1. \A i \in Billable(g) : i \in Items /\ f[i] = AppBalance(g, i)
    BY DEF Billable, Plannable
  <2> QED
    BY <2>1 DEF Balances
<1> HIDE DEF f
<1>2. Total(f, Billable(g)) = Total(Balances(g), Billable(g))
  BY <1>1, TotalCongruence
<1>3. P \in Int /\ R \in Int /\ Rest(g, shipment[g].price, Allocated(g)) = R
  BY AllocatedType DEF ShipmentRow
<1>4. Increase(g) = Total(f, Billable(g)) - P + R + P
  <2>1. Increase(g) = Total(f, Billable(g)) - P + Rest(g, shipment[g].price, Allocated(g)) + P
    BY DEF Increase, f
  <2> QED
    BY <1>3, <2>1
<1>5. Bill(g) = Total(Balances(g), Billable(g)) + R /\ Total(Balances(g), Billable(g)) \in Nat
  BY BillIs
<1> HIDE DEF P, R
<1>6. Increase(g) = Bill(g)
  BY <1>2, <1>3, <1>4, <1>5
<1>7. Bill(g) > 0
  BY BillIs DEF Plannable
<1> QED
  BY <1>6, <1>7

(* What Shopify will bill is what the app planned.                          *)
LEMMA AppliedOwes ==
    ASSUME BillTypes, CheckoutLines, AddedLines, ShippingLines, Claims,
           NEW g \in Groups, Plannable(g), NotAboveCatalog(g)
    PROVE  Owes(Applied(g)) = Owed + Increase(g) /\ Owed \in Int
<1> DEFINE o == Applied(g)
           P == Fold(Allocated(g))
           R == shipment[g].price - Allocated(g)
           T == Total(Balances(g), Billable(g))
<1>1. Committed(o, g)
  BY CommittedIs
<1>2. NewAmount(g) = R + P /\ P \in Int /\ R \in Int
  BY AllocatedType DEF NewAmount, ShipmentRow
<1>3. Increase(g) = T + R /\ T \in Nat
  BY BillIs, IncreaseIs
<1>4. Worth(o.lines) + Rates(o.ship) = Worth(order.lines) + Rates(order.ship) + T + NewAmount(g) - P
  BY <1>1 DEF Committed
<1>5. Worth(order.lines) \in Nat /\ Rates(order.ship) \in Nat /\ paid \in Int /\ Worth(o.lines) \in Nat /\ Rates(o.ship) \in Nat
  <2>1. o \in Order /\ IsFiniteSet(o.ship) /\ order \in Order /\ IsFiniteSet(order.ship) /\ paid \in Int
    BY <1>1 DEF Committed, BillTypes
  <2>2. o.lines \in Seq(Line) /\ o.ship \subseteq Rate /\ order.lines \in Seq(Line) /\ order.ship \subseteq Rate
    BY <2>1 DEF Order
  <2> QED
    BY <2>1, <2>2, WorthType, RatesType
<1>6. Owes(o) = Worth(o.lines) + Rates(o.ship) - paid
  BY TotalsAre DEF Owes
<1>7. Owed = Worth(order.lines) + Rates(order.ship) - paid
  BY TotalsAre DEF Owed, Owes
<1> HIDE DEF o, P, R, T
<1>8. Owed \in Int
  BY <1>5, <1>7
<1>9. Owes(o) = Owed + Increase(g)
  BY <1>2, <1>3, <1>4, <1>5, <1>6, <1>7
<1> QED
  BY <1>8, <1>9 DEF o

LEMMA BillInvPlans == BillInv => PlanIsApplied
<1> SUFFICES ASSUME BillInv, NEW g \in Groups, Requestable(g)
             PROVE  Owes(Applied(g)) = Owed + Increase(g)
  BY DEF PlanIsApplied
<1> QED
  BY AppliedOwes DEF BillInv, Requestable
(* matchBalanceLines finds the lines added for the group, when the unknown  *)
(* live lines are those.                                                    *)
LinksUpto(o, U, g, k) == {LinkOf(o, g, n) : n \in {m \in U : o.lines[m].item <= k}}

LinesOfGroup(o, known, U, g) ==
    /\ U \subseteq DOMAIN o.lines \ known /\ DOMAIN o.lines \subseteq Nat \ {0}
    /\ \A n \in DOMAIN o.lines \ known : o.lines[n].kind = "goods" /\ o.lines[n].qty > 0 => n \in U
    /\ \A n \in U : \E i \in Billable(g) : o.lines[n] = AddedLine(g, i)
    /\ \A i \in Billable(g) : \E n \in U : o.lines[n] = AddedLine(g, i)
    /\ \A m, n \in U : m < n => o.lines[m].item < o.lines[n].item

LEMMA PickedIs ==
    ASSUME NEW g \in Groups, NEW o, NEW known, NEW U, LinesOfGroup(o, known, U, g),
           NEW i \in Billable(g), NEW d \in U, o.lines[d] = AddedLine(g, i)
    PROVE  Pick(o, known, {k.line : k \in LinksUpto(o, U, g, i - 1)}, g, i) = d
<1> DEFINE used == {k.line : k \in LinksUpto(o, U, g, i - 1)}
           all == Candidates(o, known, used, g, i)
           exact == {n \in all : o.lines[n].qty = Share[g][i]}
<1>1. Items \subseteq Nat /\ Billable(g) \subseteq Items
  BY FiniteBill DEF Billable
<1>2. \A n \in U : /\ o.lines[n].item \in Billable(g) /\ o.lines[n] = AddedLine(g, o.lines[n].item)
                   /\ n \in DOMAIN o.lines \ known /\ n \in Nat \ {0}
  <2>1. ASSUME NEW n \in U PROVE o.lines[n].item \in Billable(g) /\ o.lines[n] = AddedLine(g, o.lines[n].item)
    <3>1. PICK j \in Billable(g) : o.lines[n] = AddedLine(g, j)
      BY DEF LinesOfGroup
    <3>2. o.lines[n].item = j
      BY <3>1 DEF AddedLine
    <3> QED
      BY <3>1, <3>2
  <2>2. U \subseteq DOMAIN o.lines \ known /\ DOMAIN o.lines \subseteq Nat \ {0}
    BY DEF LinesOfGroup
  <2> QED
    BY <2>1, <2>2
<1>3. used = {n \in U : o.lines[n].item <= i - 1}
  <2> DEFINE V == {m \in U : o.lines[m].item <= i - 1}
  <2>1. \A n : LinkOf(o, g, n).line = n
    BY DEF LinkOf
  <2>2. used = {k.line : k \in {LinkOf(o, g, n) : n \in V}}
    BY DEF LinksUpto
  <2> HIDE DEF V, used
  <2>3. used = V
    BY <2>1, <2>2
  <2> QED
    BY <2>3 DEF V
<1>4. o.lines[d].item = i /\ o.lines[d].kind = "goods" /\ o.lines[d].variant = Variant[i] /\ o.lines[d].qty = Share[g][i] /\ Share[g][i] > 0
  BY DEF AddedLine, Billable
<1> HIDE DEF used
<1>5. d \notin used
  <2>1. \A n \in used : o.lines[n].item <= i - 1
    BY <1>3
  <2>2. i \in Nat /\ ~ (i <= i - 1)
    <3>1. i \in Nat
      BY <1>1
    <3>2. \A m \in Nat : ~ (m <= m - 1)
      OBVIOUS
    <3> QED
      BY <3>1, <3>2
  <2>3. o.lines[d].item = i
    BY <1>4
  <2> QED
    BY <2>1, <2>2, <2>3
<1>6. d \in exact
  BY <1>2, <1>4, <1>5 DEF Candidates
<1>7. \A n \in exact : n \in Nat /\ d <= n
  <2> SUFFICES ASSUME NEW n \in exact PROVE n \in Nat /\ d <= n
    OBVIOUS
  <2>1. n \in DOMAIN o.lines \ known /\ n \notin used /\ o.lines[n].kind = "goods" /\ o.lines[n].qty > 0
    BY DEF Candidates
  <2>2. n \in U
    BY <2>1 DEF LinesOfGroup
  <2>3. ~ (o.lines[n].item <= i - 1) /\ o.lines[n].item \in Nat /\ i \in Nat /\ n \in Nat /\ d \in Nat
    BY <1>1, <1>2, <1>3, <2>1, <2>2
  <2>4. n < d => o.lines[n].item < i
    BY <1>4, <2>2 DEF LinesOfGroup
  <2> QED
    BY <2>3, <2>4
<1> HIDE DEF exact, all
<1>8. Min(exact) = d
  <2>1. \A x \in exact : (\A y \in exact : x <= y) => x = d
    <3>1. ASSUME NEW x \in exact, \A y \in exact : x <= y PROVE x = d
      <4>1. x <= d /\ d <= x /\ x \in Nat /\ d \in Nat
        BY <1>6, <1>7, <3>1
      <4> QED
        BY <4>1
    <3> QED
      BY <3>1
  <2>2. Min(exact) = CHOOSE x \in exact : \A y \in exact : x <= y
    BY DEF Min
  <2> QED
    BY <1>6, <1>7, <2>1, <2>2
<1>9. Pick(o, known, used, g, i) = IF exact # {} THEN Min(exact) ELSE IF all # {} THEN Min(all) ELSE 0
  BY DEF Pick, exact, all
<1> QED
  BY <1>6, <1>8, <1>9 DEF used

LEMMA MatchedIs ==
    ASSUME NEW g \in Groups, NEW o, NEW known, NEW U, LinesOfGroup(o, known, U, g)
    PROVE  Matched(o, known, g) = {LinkOf(o, g, n) : n \in U}
<1> DEFINE Joined(h, n) ==
             IF n = 0 THEN {}
             ELSE IF n \notin Billable(g) \/ GaveUp(g, n, h[n - 1]) THEN h[n - 1]
             ELSE LET line == Pick(o, known, {k.line : k \in h[n - 1]}, g, n)
                  IN  IF line = 0 THEN h[n - 1]
                      ELSE h[n - 1] \cup {[group |-> g, item |-> n, line |-> line, qty |-> Share[g][n]]}
           C(n) == LinksUpto(o, U, g, n)
           c == [n \in 0 .. NumItems |-> C(n)]
           f == CHOOSE h : h = [n \in 0 .. NumItems |-> Joined(h, n)]
<1>1. NumItems \in Nat /\ Billable(g) \subseteq Items /\ Items = 1 .. NumItems
  BY SizesAssumption DEF Billable, Items
<1>2. \A n \in U : /\ o.lines[n].item \in Billable(g) /\ o.lines[n] = AddedLine(g, o.lines[n].item) /\ n # 0 /\ n \in Nat
                   /\ o.lines[n].item \in 1 .. NumItems
  <2>1. ASSUME NEW n \in U PROVE o.lines[n].item \in Billable(g) /\ o.lines[n] = AddedLine(g, o.lines[n].item)
    <3>1. PICK j \in Billable(g) : o.lines[n] = AddedLine(g, j)
      BY DEF LinesOfGroup
    <3>2. o.lines[n].item = j
      BY <3>1 DEF AddedLine
    <3> QED
      BY <3>1, <3>2
  <2>2. \A n \in U : n # 0 /\ n \in Nat
    BY DEF LinesOfGroup
  <2> QED
    BY <1>1, <2>1, <2>2
<1>3. C(0) = {}
  BY <1>2 DEF LinksUpto
<1>4. ASSUME NEW n \in 1 .. NumItems, n \notin Billable(g) PROVE C(n) = C(n - 1)
  <2>1. \A m \in U : o.lines[m].item <= n <=> o.lines[m].item <= n - 1
    <3> SUFFICES ASSUME NEW m \in U PROVE o.lines[m].item <= n <=> o.lines[m].item <= n - 1
      OBVIOUS
    <3>1. o.lines[m].item \in Int /\ n \in Int /\ o.lines[m].item # n
      BY <1>1, <1>2, <1>4
    <3> QED
      BY <3>1
  <2> QED
    BY <2>1 DEF LinksUpto
<1>5. ASSUME NEW n \in Billable(g)
      PROVE  \E d \in U : /\ Pick(o, known, {k.line : k \in C(n - 1)}, g, n) = d /\ d # 0
                          /\ C(n) = C(n - 1) \cup {[group |-> g, item |-> n, line |-> d, qty |-> Share[g][n]]}
  <2>1. PICK d \in U : o.lines[d] = AddedLine(g, n)
    BY DEF LinesOfGroup
  <2>2. Pick(o, known, {k.line : k \in C(n - 1)}, g, n) = d /\ d # 0
    BY <1>2, <2>1, PickedIs
  <2>3. LinkOf(o, g, d) = [group |-> g, item |-> n, line |-> d, qty |-> Share[g][n]] /\ o.lines[d].item = n
    BY <2>1 DEF LinkOf, AddedLine
  <2>4. {m \in U : o.lines[m].item <= n} = {m \in U : o.lines[m].item <= n - 1} \cup {d}
    <3>1. ASSUME NEW m \in U, m # d PROVE o.lines[m].item <= n <=> o.lines[m].item <= n - 1
      <4>1. o.lines[m].item \in Int /\ n \in Int /\ m \in Nat /\ d \in Nat
        BY <1>1, <1>2
      <4>2. m < d \/ d < m
        BY <3>1, <4>1
      <4>3. o.lines[m].item # n
        BY <2>3, <4>1, <4>2 DEF LinesOfGroup
      <4> QED
        BY <4>1, <4>3
    <3>2. o.lines[d].item <= n
      BY <1>1, <1>2, <2>3
    <3> QED
      BY <3>1, <3>2
  <2>5. C(n) = C(n - 1) \cup {LinkOf(o, g, d)}
    BY <2>4 DEF LinksUpto
  <2> QED
    BY <2>2, <2>3, <2>5
<1>5a. ASSUME NEW n \in Billable(g)
       PROVE  ~ GaveUp(g, n, C(n - 1))
  <2> SUFFICES ASSUME NEW m \in Billable(g), m < n
               PROVE  \E k \in C(n - 1) : k.item = m
    BY DEF GaveUp
  <2>1. PICK d \in U : o.lines[d] = AddedLine(g, m)
    BY DEF LinesOfGroup
  <2>2. o.lines[d].item = m /\ LinkOf(o, g, d).item = m
    BY <2>1 DEF LinkOf, AddedLine
  <2>3. m <= n - 1
    BY <1>1
  <2>4. LinkOf(o, g, d) \in C(n - 1)
    BY <2>2, <2>3 DEF LinksUpto
  <2> QED
    BY <2>2, <2>4
<1> HIDE DEF C
<1>6. ASSUME NEW n \in 0 .. NumItems, NEW h, n # 0 => h[n - 1] = C(n - 1) PROVE Joined(h, n) = C(n)
  <2>1. CASE n = 0
    BY <1>3, <2>1
  <2>2. CASE n # 0 /\ n \notin Billable(g)
    <3>1. n \in 1 .. NumItems
      BY <2>2
    <3> QED
      BY <1>4, <1>6, <2>2, <3>1
  <2>3. CASE n # 0 /\ n \in Billable(g)
    <3>1. PICK d \in U : /\ Pick(o, known, {k.line : k \in C(n - 1)}, g, n) = d /\ d # 0
                         /\ C(n) = C(n - 1) \cup {[group |-> g, item |-> n, line |-> d, qty |-> Share[g][n]]}
      BY <1>5, <2>3
    <3>2. Joined(h, n) = h[n - 1] \cup {[group |-> g, item |-> n, line |-> d, qty |-> Share[g][n]]}
      BY <1>6, <1>5a, <2>3, <3>1
    <3> QED
      BY <1>6, <2>3, <3>1, <3>2
  <2> QED
    BY <2>1, <2>2, <2>3
<1>7. c = [n \in 0 .. NumItems |-> Joined(c, n)]
  <2>1. ASSUME NEW n \in 0 .. NumItems PROVE C(n) = Joined(c, n)
    <3>1. n # 0 => n - 1 \in 0 .. NumItems
      BY <1>1
    <3>2. n # 0 => c[n - 1] = C(n - 1)
      BY <3>1
    <3> HIDE DEF c, Joined
    <3> QED
      BY <1>6, <3>2
  <2> HIDE DEF Joined
  <2> QED
    BY <2>1
<1>8. f = [n \in 0 .. NumItems |-> Joined(f, n)]
  <2> HIDE DEF c, Joined
  <2> QED
    BY <1>7, Zenon
<1>9. Matched(o, known, g) = f[NumItems]
  BY Zenon DEF Matched
<1> HIDE DEF f
<1> DEFINE Bad == {n \in 0 .. NumItems : f[n] # C(n)}
<1>10. Bad = {}
  <2> SUFFICES ASSUME Bad # {} PROVE FALSE
    OBVIOUS
  <2>1. PICK n \in Bad : \A m \in Bad : n <= m
    <3>1. Bad \subseteq Nat
      BY <1>1
    <3> HIDE DEF Bad
    <3> QED
      BY <3>1, NatLeast
  <2>2. n \in 0 .. NumItems /\ f[n] # C(n)
    OBVIOUS
  <2>3. n # 0 => f[n - 1] = C(n - 1)
    <3>1. n # 0 => n - 1 \in 0 .. NumItems /\ ~ (n <= n - 1)
      BY <1>1, <2>2
    <3> QED
      BY <2>1, <3>1
  <2> HIDE DEF Joined
  <2>4. f[n] = Joined(f, n)
    BY <1>8, <2>2
  <2>5. Joined(f, n) = C(n)
    BY <1>6, <2>2, <2>3
  <2> QED
    BY <2>2, <2>4, <2>5
<1>11. f[NumItems] = C(NumItems)
  BY <1>1, <1>10
<1>12. C(NumItems) = {LinkOf(o, g, n) : n \in U}
  <2>1. {m \in U : o.lines[m].item <= NumItems} = U
    BY <1>1, <1>2
  <2> QED
    BY <2>1 DEF LinksUpto, C
<1> QED
  BY <1>9, <1>11, <1>12
----------------------------------------------------------------------------
(* What a step leaves alone.                                                *)
LEMMA OwedNow ==
    ASSUME BillTypes
    PROVE  /\ Worth(order.lines) \in Nat /\ Rates(order.ship) \in Nat /\ Owed \in Int
           /\ Owed = Worth(order.lines) + Rates(order.ship) - paid
<1>1. order.lines \in Seq(Line) /\ order.ship \subseteq Rate /\ IsFiniteSet(order.ship) /\ paid \in Int
  BY DEF BillTypes, Order
<1>2. Worth(order.lines) \in Nat /\ Rates(order.ship) \in Nat
  BY <1>1, WorthType, RatesType
<1>3. Owed = Worth(order.lines) + Rates(order.ship) - paid
  BY TotalsAre DEF Owed, Owes
<1> QED
  BY <1>1, <1>2, <1>3

LEMMA OwedThen == Owed' = Worth(order'.lines) + Rates(order'.ship) - paid'
  BY TotalsAre DEF Owed, Owes

(* A group whose bill is out keeps what it used of the prepayment.          *)
LEMMA SentBill ==
    ASSUME NEW h \in Groups
    PROVE  /\ shipment[h].sent => Allocated(h) = shipment[h].applied
           /\ shipment'[h].sent => Allocated(h)' = shipment'[h].applied
           /\ shipment[h].sent /\ shipment'[h].sent /\ shipment'[h].price = shipment[h].price
              /\ shipment'[h].applied = shipment[h].applied /\ shipment'[h].folded = shipment[h].folded
              => Allocated(h)' = Allocated(h) /\ Bill(h)' = Bill(h) /\ Amount(h)' = Amount(h)
<1>1. shipment[h].sent => Allocated(h) = shipment[h].applied
  BY DEF Allocated, Unbilled
<1>2. shipment'[h].sent => Allocated(h)' = shipment'[h].applied
  BY DEF Allocated, Unbilled
<1>3. Bill(h) = Total([i \in Items |-> AppBalance(h, i)], Items) + shipment[h].price - Allocated(h)
      /\ Bill(h)' = Total([i \in Items |-> AppBalance(h, i)], Items) + shipment'[h].price - Allocated(h)'
  BY DEF Bill, AppBalance
<1>4. Amount(h) = shipment[h].price - Allocated(h) + shipment[h].folded
      /\ Amount(h)' = shipment'[h].price - Allocated(h)' + shipment'[h].folded
  BY DEF Amount
<1> QED
  BY <1>1, <1>2, <1>3, <1>4

(* What a group is allowed depends on prices, what was used and what is out.*)
LEMMA AllocatedSame ==
    ASSUME NEW h \in Groups,
           \A k \in Groups : /\ shipment'[k].price = shipment[k].price /\ shipment'[k].applied = shipment[k].applied
                             /\ shipment'[k].sent = shipment[k].sent
    PROVE  Allocated(h)' = Allocated(h) /\ Bill(h)' = Bill(h)
<1>1. Consumed' = Consumed
  <2>1. Consumed = Total([k \in Groups |-> shipment[k].applied], Groups)
        /\ Consumed' = Total([k \in Groups |-> shipment'[k].applied], Groups)
    BY DEF Consumed
  <2>2. [k \in Groups |-> shipment[k].applied] = [k \in Groups |-> shipment'[k].applied]
    OBVIOUS
  <2> QED
    BY <2>1, <2>2
<1>2. Available' = Available
  BY <1>1 DEF Available
<1>3. Before(h)' = Before(h)
  <2> DEFINE S == {k \in 1 .. h - 1 : Unbilled(k)}
             T == {k \in 1 .. h - 1 : Unbilled(k)'}
  <2>1. \A k \in 1 .. h - 1 : k \in Groups
    BY SizesAssumption DEF Groups
  <2>2. \A k \in Groups : Unbilled(k)' = Unbilled(k)
    BY DEF Unbilled
  <2>3. S = T
    BY <2>1, <2>2
  <2>4. [k \in Groups |-> shipment[k].price] = [k \in Groups |-> shipment'[k].price]
    OBVIOUS
  <2>5. Before(h) = Total([k \in Groups |-> shipment[k].price], S)
        /\ Before(h)' = Total([k \in Groups |-> shipment'[k].price], T)
    BY DEF Before
  <2> HIDE DEF S, T
  <2> QED
    BY <2>3, <2>4, <2>5
<1>4. Unbilled(h)' = Unbilled(h)
  BY DEF Unbilled
<1>5. Allocated(h)' = Allocated(h)
  BY <1>2, <1>3, <1>4 DEF Allocated
<1>6. Bill(h)' = Bill(h)
  BY <1>5 DEF Bill, AppBalance
<1> QED
  BY <1>5, <1>6

LEMMA BillsType ==
    ASSUME BillTypes, Claims
    PROVE  \A h \in Groups : Bills[h] \in Nat /\ Bills[h] = IF On(h) THEN Bill(h) ELSE 0
<1>1. \A h \in Groups : Bill(h) \in Nat
  BY BillIs
<1> QED
  BY <1>1 DEF Bills

(* A step that leaves the order alone.                                      *)
LEMMA OrderKept ==
    ASSUME BillInv, order' = order, edits' \in Nat, edits' >= edits,
           \A h \in Groups : /\ On(h)' <=> On(h)
                             /\ On(h) => Bill(h)' = Bill(h) /\ Amount(h)' = Amount(h)
    PROVE  CheckoutLines' /\ AddedLines' /\ ShippingLines' /\ Money'
<1> USE DEF BillInv
<1>1. CheckoutLines'
  BY DEF CheckoutLines
<1>2. AddedLines'
  <2>1. ASSUME NEW n \in Size + 1 .. Len(order.lines)
        PROVE  \E g \in Groups : \E i \in Billable(g) :
            /\ On(g)' /\ order.lines[n] = AddedLine(g, i)
            /\ \A m \in Size + 1 .. n - 1 : order.lines[m].group = g => order.lines[m].item < i
    BY DEF AddedLines
  <2>2. ASSUME NEW g \in Groups, On(g)', NEW i \in Billable(g)
        PROVE  \E n \in Size + 1 .. Len(order.lines) : order.lines[n] = AddedLine(g, i)
    BY <2>2 DEF AddedLines
  <2> QED
    BY <2>1, <2>2 DEF AddedLines, Billable
<1>3. ShippingLines'
  <2>1. \A s \in order.ship : s.id \in 1 .. edits' + 1
    <3>1. edits \in Nat /\ \A s \in order.ship : s.id \in 1 .. edits + 1
      BY DEF BillTypes, ShippingLines
    <3> QED
      BY <3>1
  <2>2. \A g \in Groups : ShipOf(g)' = ShipOf(g)
    BY DEF ShipOf
  <2>3. \A s \in order.ship : /\ \A t \in order.ship : s.id = t.id => s = t
                              /\ s.group = 0 => s.title = Nothing
                              /\ s.group # 0 => On(s.group)' /\ s.title = Title[s.group]
    <3>1. \A s \in order.ship : s.group \in Groups \cup {0}
      BY DEF BillTypes, Order, Rate
    <3> QED
      BY <3>1 DEF ShippingLines
  <2>4. \A g \in Groups : On(g)' =>
          IF Amount(g)' = 0 THEN ShipOf(g)' = {}
          ELSE \E s \in order.ship : ShipOf(g)' = {s} /\ s.price = Amount(g)'
    BY <2>2 DEF ShippingLines
  <2>5. order'.ship = order.ship
    OBVIOUS
  <2> QED
    BY <2>1, <2>3, <2>4, <2>5 DEF ShippingLines
<1>4. Money'
  <2>1. Bills' = Bills
    BY DEF Bills
  <2>2. AtCheckout' = AtCheckout
    BY DEF AtCheckout, LineTotal, ShipTotal, DraftLines, DraftShipping, DepositDraftLine, HalfDraftLine, GoodsDraftLine, InAll, Pool, SplitHalf
  <2>3. LineTotal(order)' = LineTotal(order) /\ ShipTotal(order)' = ShipTotal(order)
    BY DEF LineTotal, ShipTotal
  <2> QED
    BY <2>1, <2>2, <2>3 DEF Money
<1> QED
  BY <1>1, <1>2, <1>3, <1>4
LEMMA TotalOfGroups ==
    ASSUME NEW b, NEW c, NEW g \in Groups, \A h \in Groups : b[h] \in Nat /\ c[h] \in Nat,
           \A h \in Groups \ {g} : b[h] = c[h]
    PROVE  Total(c, Groups) = Total(b, Groups) - b[g] + c[g]
<1>1. IsFiniteSet(Groups)
  BY FiniteBill
<1> QED
  BY <1>1, TotalReplace

(* A line of the order stays what it is when the order is edited.           *)
LEMMA AppliedLines ==
    ASSUME BillInv, NEW g \in Groups, NEW o, Committed(o, g), ~ On(g)
    PROVE  /\ o.lines \in Seq(Line) /\ Len(o.lines) \in Nat /\ Len(order.lines) \in Nat /\ Size \in Nat
           /\ Size <= Len(order.lines) /\ Len(order.lines) <= Len(o.lines)
           /\ \A n \in Size + 1 .. Len(order.lines) :
                 /\ o.lines[n] = order.lines[n] /\ o.lines[n].group \in Groups \ {g} /\ On(o.lines[n].group)
                 /\ o.lines[n].kind = "goods"
           /\ \A n \in Extra(o) : /\ n \in Size + 1 .. Len(o.lines) /\ o.lines[n].group = g
                                  /\ o.lines[n].item \in Billable(g) /\ o.lines[n] = AddedLine(g, o.lines[n].item)
           /\ \A n \in Size + 1 .. Len(o.lines) : n \in Size + 1 .. Len(order.lines) \/ n \in Extra(o)
<1> USE DEF BillInv
<1>1. /\ o.lines \in Seq(Line) /\ Len(o.lines) \in Nat /\ Len(order.lines) \in Nat /\ Size \in Nat
      /\ Size <= Len(order.lines) /\ Len(order.lines) <= Len(o.lines)
  <2>1. o \in Order /\ order \in Order /\ Len(o.lines) >= Len(order.lines)
    BY DEF Committed, BillTypes
  <2>2. o.lines \in Seq(Line) /\ Len(o.lines) \in Nat /\ Len(order.lines) \in Nat
    BY <2>1 DEF Order
  <2> QED
    BY <2>1, <2>2, DraftIs DEF CheckoutLines
<1>2. ASSUME NEW n \in Size + 1 .. Len(order.lines)
      PROVE  /\ o.lines[n] = order.lines[n] /\ o.lines[n].group \in Groups \ {g} /\ On(o.lines[n].group)
             /\ o.lines[n].kind = "goods"
  <2>1. PICK h \in Groups : \E i \in Billable(h) : On(h) /\ order.lines[n] = AddedLine(h, i)
    BY DEF AddedLines
  <2>2. order.lines[n].kind = "goods" /\ order.lines[n].group = h
    BY <2>1 DEF AddedLine
  <2>3. n \in 1 .. Len(order.lines)
    BY <1>1
  <2>4. o.lines[n] = order.lines[n]
    BY <2>2, <2>3 DEF Committed
  <2> QED
    BY <2>1, <2>2, <2>4
<1>3. ASSUME NEW n \in Extra(o)
      PROVE  /\ n \in Size + 1 .. Len(o.lines) /\ o.lines[n].group = g
             /\ o.lines[n].item \in Billable(g) /\ o.lines[n] = AddedLine(g, o.lines[n].item)
  <2>1. PICK i \in Billable(g) : o.lines[n] = AddedLine(g, i)
    BY DEF Committed, NewLines
  <2>2. o.lines[n].group = g /\ o.lines[n].item = i
    BY <2>1 DEF AddedLine
  <2>3. n \in Size + 1 .. Len(o.lines)
    BY <1>1 DEF Extra
  <2> QED
    BY <2>1, <2>2, <2>3
<1>4. \A n \in Size + 1 .. Len(o.lines) : n \in Size + 1 .. Len(order.lines) \/ n \in Extra(o)
  BY <1>1 DEF Extra
<1> QED
  BY <1>1, <1>2, <1>3, <1>4

LEMMA OrderEdited ==
    ASSUME BillInv, NEW g \in Groups, Plannable(g), NotAboveCatalog(g),
           order' = Applied(g), edits' = edits + 1, paid' = paid,
           ~ On(g), On(g)', Bill(g)' = Bill(g), Amount(g)' = NewAmount(g),
           \A h \in Groups \ {g} : /\ On(h)' <=> On(h)
                                   /\ On(h) => Bill(h)' = Bill(h) /\ Amount(h)' = Amount(h)
    PROVE  /\ order' \in Order /\ IsFiniteSet(order'.ship)
           /\ CheckoutLines' /\ AddedLines' /\ ShippingLines' /\ Money'
<1> USE DEF BillInv
<1> DEFINE o == Applied(g)
           L == Len(order.lines)
<1>1. Committed(o, g)
  BY CommittedIs
<1> HIDE DEF o
<1>2. /\ o.lines \in Seq(Line) /\ Len(o.lines) \in Nat /\ L \in Nat /\ Size \in Nat
      /\ Size <= L /\ L <= Len(o.lines)
      /\ \A n \in Size + 1 .. L :
                 /\ o.lines[n] = order.lines[n] /\ o.lines[n].group \in Groups \ {g} /\ On(o.lines[n].group)
      /\ \A n \in Extra(o) : /\ n \in Size + 1 .. Len(o.lines) /\ o.lines[n].group = g
                             /\ o.lines[n].item \in Billable(g) /\ o.lines[n] = AddedLine(g, o.lines[n].item)
      /\ \A n \in Size + 1 .. Len(o.lines) : n \in Size + 1 .. L \/ n \in Extra(o)
  BY <1>1, AppliedLines
<1>3. order' = o
  BY DEF o
<1>4. CheckoutLines'
  <2>1. ASSUME NEW n \in 1 .. Size
        PROVE  /\ o.lines[n] = WithQty(DraftLines[n], o.lines[n].qty)
               /\ o.lines[n].kind = "half" => o.lines[n].qty \in {0, 1}
    <3>1. n \in 1 .. L /\ n \in 1 .. Len(o.lines)
      BY <1>2
    <3>2. DraftLines[n] \in Line /\ order.lines[n] = WithQty(DraftLines[n], order.lines[n].qty)
          /\ (order.lines[n].kind = "half" => order.lines[n].qty \in {0, 1})
      BY DraftIs DEF CheckoutLines
    <3>3. order.lines[n] \in Line /\ order.lines[n].qty \in Nat /\ o.lines[n].qty \in Nat
      <4>1. order.lines \in Seq(Line)
        BY DEF BillTypes, Order
      <4>2. order.lines[n] \in Line /\ o.lines[n] \in Line
        BY <1>2, <3>1, <4>1
      <4> QED
        BY <4>2 DEF Line
    <3>4. o.lines[n] = WithQty(order.lines[n], o.lines[n].qty)
          /\ (order.lines[n].kind = "half" => o.lines[n].qty \in {0, order.lines[n].qty})
      BY <1>1, <3>1 DEF Committed
    <3>5. o.lines[n].kind = order.lines[n].kind
      BY <3>3, <3>4, QtyIs
    <3>6. WithQty(WithQty(DraftLines[n], order.lines[n].qty), o.lines[n].qty) = WithQty(DraftLines[n], o.lines[n].qty)
      BY <3>2, <3>3, QtyIs
    <3> QED
      BY <3>2, <3>4, <3>5, <3>6
  <2>2. Size <= Len(o.lines)
    BY <1>2
  <2>3. Size' = Size /\ DraftLines' = DraftLines
    BY DEF Size, DraftLines, DepositDraftLine, HalfDraftLine, GoodsDraftLine, InAll, Pool, SplitHalf
  <2> QED
    BY <1>3, <2>1, <2>2, <2>3 DEF CheckoutLines
<1>5. Size' = Size /\ \A h : Billable(h)' = Billable(h)
  BY DEF Size, DraftLines, DepositDraftLine, HalfDraftLine, GoodsDraftLine, InAll, Pool, SplitHalf, Billable
<1>6. AddedLines'
  <2>1. ASSUME NEW n \in Size + 1 .. Len(o.lines)
        PROVE  \E h \in Groups : \E i \in Billable(h) :
            /\ On(h)' /\ o.lines[n] = AddedLine(h, i)
            /\ \A m \in Size + 1 .. n - 1 : o.lines[m].group = h => o.lines[m].item < i
    <3>1. CASE n \in Size + 1 .. L
      <4>1. PICK h \in Groups : \E i \in Billable(h) :
            /\ On(h) /\ order.lines[n] = AddedLine(h, i)
            /\ \A m \in Size + 1 .. n - 1 : order.lines[m].group = h => order.lines[m].item < i
        BY <3>1 DEF AddedLines
      <4>2. \A m \in Size + 1 .. n - 1 : o.lines[m] = order.lines[m]
        <5>1. \A m \in Size + 1 .. n - 1 : m \in Size + 1 .. L
          BY <1>2, <3>1
        <5> QED
          BY <1>2, <5>1
      <4>3. o.lines[n] = order.lines[n]
        BY <1>2, <3>1
      <4>4. On(h)'
        BY <4>1
      <4> QED
        BY <4>1, <4>2, <4>3, <4>4
    <3>2. CASE n \in Extra(o)
      <4>1. PICK i \in Billable(g) : /\ o.lines[n] = AddedLine(g, i)
                                     /\ \A m \in L + 1 .. n - 1 : o.lines[m].item < i
        BY <1>1, <3>2 DEF Committed, NewLines
      <4>2. ASSUME NEW m \in Size + 1 .. n - 1, o.lines[m].group = g PROVE o.lines[m].item < i
        <5>1. m \notin Size + 1 .. L
          BY <1>2, <4>2
        <5>2. m \in L + 1 .. n - 1
          BY <1>2, <5>1
        <5> QED
          BY <4>1, <5>2
      <4> QED
        BY <4>1, <4>2
    <3> QED
      BY <1>2, <3>1, <3>2
  <2>2. ASSUME NEW h \in Groups, On(h)', NEW i \in Billable(h)
        PROVE  \E n \in Size + 1 .. Len(o.lines) : o.lines[n] = AddedLine(h, i)
    <3>1. CASE h = g
      <4>1. PICK n \in Extra(o) : o.lines[n] = AddedLine(g, i)
        BY <1>1, <3>1 DEF Committed, NewLines
      <4> QED
        BY <1>2, <3>1, <4>1
    <3>2. CASE h # g
      <4>1. On(h)
        BY <2>2, <3>2
      <4>2. PICK n \in Size + 1 .. L : order.lines[n] = AddedLine(h, i)
        BY <4>1 DEF AddedLines
      <4>3. n \in Size + 1 .. Len(o.lines)
        BY <1>2
      <4> QED
        BY <1>2, <4>2, <4>3
    <3> QED
      BY <3>1, <3>2
  <2> QED
    BY <1>3, <1>5, <2>1, <2>2 DEF AddedLines
<1> DEFINE A == NewAmount(g)
           r == NewRate(g)
<1>7. o.ship = (IF A > 0 THEN order.ship \cup {r} ELSE order.ship) /\ A \in Nat
  <2>1. A \in Nat
    <3>1. A = (shipment[g].price - Allocated(g)) + Fold(Allocated(g))
      BY AllocatedType DEF NewAmount
    <3>2. Fold(Allocated(g)) \in Nat /\ shipment[g].price \in Nat /\ Allocated(g) \in Nat /\ Allocated(g) <= shipment[g].price
      BY AllocatedType DEF ShipmentRow
    <3> HIDE DEF A
    <3> QED
      BY <3>1, <3>2
  <2> QED
    BY <1>1, <2>1 DEF Committed
<1>8. \A s \in order.ship : /\ s.id \in 1 .. edits + 1 /\ s.group \in Groups \cup {0} /\ s.group # g
                            /\ \A t \in order.ship : s.id = t.id => s = t
                            /\ s.group = 0 => s.title = Nothing
                            /\ s.group # 0 => On(s.group)' /\ s.title = Title[s.group]
  <2>1. \A s \in order.ship : s.group \in Groups \cup {0}
    BY DEF BillTypes, Order, Rate
  <2>2. 0 \notin Groups
    BY DEF Groups
  <2> QED
    BY <2>1, <2>2 DEF ShippingLines
<1>9. r.id = edits + 2 /\ r.group = g /\ r.title = Title[g] /\ r.price = A /\ edits \in Nat /\ g # 0
  BY DEF NewRate, BillTypes, Groups
<1> HIDE DEF A, r
<1>10. ShippingLines'
  <2>1. ASSUME NEW s \in o.ship
        PROVE  /\ s.id \in 1 .. edits + 2
               /\ \A t \in o.ship : s.id = t.id => s = t
               /\ s.group = 0 => s.title = Nothing
               /\ s.group # 0 => On(s.group)' /\ s.title = Title[s.group]
    <3>1. s \in order.ship \/ s = r
      BY <1>7
    <3>2. \A t \in o.ship : t \in order.ship \/ t = r
      BY <1>7
    <3>3. \A t \in order.ship : t.id \in 1 .. edits + 2 /\ t.id # r.id
      BY <1>8, <1>9
    <3>4. r.id \in 1 .. edits + 2
      BY <1>9
    <3>5. \A t \in o.ship : s.id = t.id => s = t
      BY <1>8, <3>1, <3>2, <3>3
    <3> QED
      BY <1>8, <1>9, <3>1, <3>3, <3>4, <3>5
  <2>2. ASSUME NEW h \in Groups, On(h)'
        PROVE  IF Amount(h)' = 0 THEN ShipOf(h)' = {}
               ELSE \E s \in o.ship : ShipOf(h)' = {s} /\ s.price = Amount(h)'
    <3>1. ShipOf(h)' = {s \in o.ship : s.group = h} /\ ShipOf(h) = {s \in order.ship : s.group = h}
      BY <1>3 DEF ShipOf
    <3>2. CASE h = g
      <4>1. CASE A > 0
        <5>1. ShipOf(h)' = {r} /\ r \in o.ship
          BY <1>7, <1>8, <1>9, <3>1, <3>2, <4>1
        <5> QED
          BY <1>9, <3>2, <4>1, <5>1 DEF A
      <4>2. CASE ~ (A > 0)
        <5>1. ShipOf(h)' = {} /\ A = 0
          BY <1>7, <1>8, <3>1, <3>2, <4>2
        <5> QED
          BY <3>2, <5>1 DEF A
      <4> QED
        BY <4>1, <4>2
    <3>3. CASE h # g
      <4>1. ShipOf(h)' = ShipOf(h) /\ order.ship \subseteq o.ship
        BY <1>7, <1>9, <3>1, <3>3
      <4>2. On(h) /\ Amount(h)' = Amount(h)
        BY <2>2, <3>3
      <4>3. IF Amount(h) = 0 THEN ShipOf(h) = {}
            ELSE \E s \in order.ship : ShipOf(h) = {s} /\ s.price = Amount(h)
        BY <4>2 DEF ShippingLines
      <4> QED
        BY <4>1, <4>2, <4>3
    <3> QED
      BY <3>2, <3>3
  <2>3. edits' + 1 = edits + 2
    BY <1>9
  <2> QED
    BY <1>3, <2>1, <2>2, <2>3 DEF ShippingLines
<1>11. Money'
  <2> DEFINE T == Total(Balances(g), Billable(g))
             P == Fold(Allocated(g))
             W == Worth(order.lines) + Rates(order.ship)
             R == shipment[g].price - Allocated(g)
  <2>1. Worth(o.lines) + Rates(o.ship) = Worth(order.lines) + Rates(order.ship) + T + A - P
    BY <1>1 DEF Committed, A
  <2>2. A = R + P /\ P \in Int /\ R \in Int
    BY AllocatedType DEF NewAmount, A, ShipmentRow
  <2>3. Bill(g) = T + R /\ Bill(g) \in Nat /\ T \in Nat
    BY BillIs
  <2>4. W \in Nat
    BY OwedNow
  <2>5. Worth(o.lines) + Rates(o.ship) = W + Bill(g)
    <3>1. Worth(order.lines) \in Nat /\ Rates(order.ship) \in Nat
      BY OwedNow
    <3> HIDE DEF T, P, R
    <3> QED
      BY <2>1, <2>2, <2>3, <3>1
  <2>6. Total(Bills', Groups) = Total(Bills, Groups) + Bill(g) /\ Total(Bills, Groups) \in Nat
    <3>1. \A h \in Groups : Bills[h] \in Nat /\ Bills[h] = IF On(h) THEN Bill(h) ELSE 0
      BY BillsType
    <3>2. Bills' = [h \in Groups |-> IF On(h)' THEN Bill(h)' ELSE 0]
      BY DEF Bills
    <3>3. \A h \in Groups \ {g} : Bills'[h] = Bills[h]
      BY <3>1, <3>2
    <3>4. Bills'[g] = Bill(g) /\ Bills[g] = 0
      BY <3>1, <3>2
    <3>5. \A h \in Groups : Bills'[h] \in Nat
      BY <2>3, <3>1, <3>3, <3>4
    <3>6. Total(Bills', Groups) = Total(Bills, Groups) - Bills[g] + Bills'[g]
      <4> DEFINE b == Bills
                 c == Bills'
      <4>1. \A h \in Groups : b[h] \in Nat /\ c[h] \in Nat
        BY <3>1, <3>5
      <4>2. \A h \in Groups \ {g} : b[h] = c[h]
        BY <3>3
      <4> HIDE DEF b, c
      <4>3. Total(c, Groups) = Total(b, Groups) - b[g] + c[g]
        BY <4>1, <4>2, TotalOfGroups
      <4> QED
        BY <4>3 DEF b, c
    <3>7. Total(Bills, Groups) \in Nat
      BY <3>1, FiniteBill, TotalType
    <3> QED
      BY <2>3, <3>4, <3>6, <3>7
  <2>7. AtCheckout' = AtCheckout
    BY DEF AtCheckout, LineTotal, ShipTotal, DraftLines, DraftShipping, DepositDraftLine, HalfDraftLine, GoodsDraftLine, InAll, Pool, SplitHalf
  <2>8. W = AtCheckout + Total(Bills, Groups)
    BY TotalsAre DEF Money
  <2>9. LineTotal(order)' = Worth(o.lines) /\ ShipTotal(order)' = Rates(o.ship)
    BY <1>3, TotalsAre
  <2>10. AtCheckout \in Nat
    <3>1. AtCheckout = Worth(DraftLines) + Rates(DraftShipping)
      BY TotalsAre DEF AtCheckout
    <3> QED
      BY <3>1, DraftIs, WorthType, RatesType
  <2> HIDE DEF W, T, P, R
  <2>11. LineTotal(order)' + ShipTotal(order)' = AtCheckout + Total(Bills', Groups)
    BY <2>3, <2>4, <2>5, <2>6, <2>8, <2>9, <2>10
  <2> QED
    BY <2>7, <2>11 DEF Money
<1>12. order' \in Order /\ IsFiniteSet(order'.ship)
  BY <1>1, <1>3 DEF Committed
<1> QED
  BY <1>4, <1>6, <1>10, <1>11, <1>12
(* The lines an edit added are the ones it is linked to, and no others.     *)
LEMMA AppliedMatched ==
    ASSUME BillInv, NEW g \in Groups, NEW o, Committed(o, g), ~ On(g)
    PROVE  /\ Matched(o, DOMAIN order.lines, g) = Links(o, g)
           /\ \A h \in Groups \ {g} : Links(o, h) = Links(order, h)
<1> DEFINE L == Len(order.lines)
           U == LinesOf(o, g)
           known == DOMAIN order.lines
<1>1. /\ o.lines \in Seq(Line) /\ Len(o.lines) \in Nat /\ L \in Nat /\ Size \in Nat
      /\ Size <= L /\ L <= Len(o.lines)
      /\ \A n \in Size + 1 .. L : o.lines[n] = order.lines[n] /\ o.lines[n].group \in Groups \ {g}
      /\ \A n \in Extra(o) : /\ n \in Size + 1 .. Len(o.lines) /\ o.lines[n].group = g
                             /\ o.lines[n].item \in Billable(g) /\ o.lines[n] = AddedLine(g, o.lines[n].item)
      /\ \A n \in Size + 1 .. Len(o.lines) : n \in Size + 1 .. L \/ n \in Extra(o)
  BY AppliedLines
<1>2. NewLines(o, g, Billable(g)) /\ known = 1 .. L /\ DOMAIN o.lines = 1 .. Len(o.lines)
  BY <1>1 DEF Committed, BillInv, BillTypes, Order
<1>3. U = Extra(o)
  BY <1>1 DEF LinesOf
<1>4. LinesOfGroup(o, known, U, g)
  <2>1. \A n \in DOMAIN o.lines \ known : n \in U
    BY <1>1, <1>2, <1>3 DEF Extra
  <2>2. U \subseteq DOMAIN o.lines \ known /\ DOMAIN o.lines \subseteq Nat \ {0}
    BY <1>1, <1>2, <1>3 DEF Extra
  <2>3. \A n \in U : \E i \in Billable(g) : o.lines[n] = AddedLine(g, i)
    BY <1>1, <1>3
  <2>4. \A i \in Billable(g) : \E n \in U : o.lines[n] = AddedLine(g, i)
    BY <1>2, <1>3 DEF NewLines
  <2>5. ASSUME NEW m \in U, NEW n \in U, m < n PROVE o.lines[m].item < o.lines[n].item
    <3>1. PICK i \in Billable(g) : o.lines[n] = AddedLine(g, i) /\ \A k \in L + 1 .. n - 1 : o.lines[k].item < i
      BY <1>2, <1>3 DEF NewLines
    <3>2. m \in L + 1 .. n - 1
      BY <1>1, <1>3, <2>5 DEF Extra
    <3>3. o.lines[n].item = i
      BY <3>1 DEF AddedLine
    <3> QED
      BY <3>1, <3>2, <3>3
  <2> QED
    BY <2>1, <2>2, <2>3, <2>4, <2>5 DEF LinesOfGroup
<1>5. Matched(o, known, g) = Links(o, g)
  BY <1>4, MatchedIs DEF Links
<1>6. ASSUME NEW h \in Groups \ {g} PROVE Links(o, h) = Links(order, h)
  <2>1. LinesOf(o, h) = LinesOf(order, h)
    <3>1. ASSUME NEW n \in LinesOf(o, h) PROVE n \in LinesOf(order, h)
      <4>1. n \in Size + 1 .. Len(o.lines) /\ o.lines[n].group = h
        BY DEF LinesOf
      <4> QED
        BY <1>1, <4>1 DEF LinesOf
    <3>2. ASSUME NEW n \in LinesOf(order, h) PROVE n \in LinesOf(o, h)
      <4>1. n \in Size + 1 .. L /\ order.lines[n].group = h
        BY DEF LinesOf
      <4>2. n \in Size + 1 .. Len(o.lines)
        BY <1>1, <4>1
      <4> QED
        BY <1>1, <4>1, <4>2 DEF LinesOf
    <3> QED
      BY <3>1, <3>2
  <2>2. \A n \in LinesOf(order, h) : LinkOf(o, h, n) = LinkOf(order, h, n)
    BY <1>1 DEF LinesOf, LinkOf
  <2> QED
    BY <2>1, <2>2 DEF Links
<1> QED
  BY <1>5, <1>6

LEMMA AdoptedMatched ==
    ASSUME BillInv, NEW g \in Groups, shipment[g].claimed, ~ shipment[g].sent, OthersClear(g), Owed > 0
    PROVE  Matched(order, Stored \cup {k.line : k \in links}, g) = Links(order, g)
<1> DEFINE L == Len(order.lines)
           U == LinesOf(order, g)
           known == Stored \cup {k.line : k \in links}
<1> USE DEF BillInv
<1>1. /\ L \in Nat /\ Size \in Nat /\ Size <= L /\ DOMAIN order.lines = 1 .. L
      /\ DOMAIN DraftLines = 1 .. Size /\ Stored \subseteq 1 .. Size
  BY DraftIs DEF BillTypes, Order, CheckoutLines, Stored
<1>2. ASSUME NEW n \in Size + 1 .. L
      PROVE  \E h \in Groups : \E i \in Billable(h) :
                /\ On(h) /\ order.lines[n] = AddedLine(h, i) /\ order.lines[n].group = h /\ order.lines[n].item = i
                /\ \A m \in Size + 1 .. n - 1 : order.lines[m].group = h => order.lines[m].item < i
  <2>1. PICK h \in Groups : \E i \in Billable(h) :
                /\ On(h) /\ order.lines[n] = AddedLine(h, i)
                /\ \A m \in Size + 1 .. n - 1 : order.lines[m].group = h => order.lines[m].item < i
    BY DEF AddedLines
  <2>2. \A i \in Billable(h) : AddedLine(h, i).group = h /\ AddedLine(h, i).item = i
    BY DEF AddedLine
  <2> QED
    BY <2>1, <2>2
<1>3. \A h \in Groups \ {g} : On(h) => shipment[h].sent
  BY DEF On, OthersClear, Claims
<1>4. On(g)
  BY DEF On
<1>5. \A n \in U : n \in Size + 1 .. L /\ order.lines[n].group = g
  BY DEF LinesOf
<1>6. LinesOfGroup(order, known, U, g)
  <2>1. ASSUME NEW n \in DOMAIN order.lines \ known, order.lines[n].kind = "goods" PROVE n \in U
    <3>1. n \notin 1 .. Size
      <4> SUFFICES ASSUME n \in 1 .. Size PROVE FALSE
        OBVIOUS
      <4>1. DraftLines[n].kind = "goods"
        BY <2>1, LinesAre
      <4> QED
        BY <1>1, <4>1 DEF Stored
    <3>2. n \in Size + 1 .. L
      BY <1>1, <3>1
    <3>3. PICK h \in Groups : On(h) /\ order.lines[n].group = h
      BY <1>2, <3>2
    <3>4. CASE h = g
      BY <3>2, <3>3, <3>4 DEF LinesOf
    <3>5. CASE h # g
      <4>1. shipment[h].sent /\ n \in LinesOf(order, h)
        BY <1>3, <3>2, <3>3, <3>5 DEF LinesOf
      <4>2. LinkOf(order, h, n) \in links
        BY <4>1 DEF Linked, LinksOf, Links, Sent
      <4>3. LinkOf(order, h, n).line = n
        BY DEF LinkOf
      <4>4. n \in known
        BY <4>2, <4>3
      <4> QED
        BY <4>4
    <3> QED
      BY <3>4, <3>5
  <2>2. ASSUME NEW n \in U PROVE n \in DOMAIN order.lines \ known /\ n \in Nat \ {0}
    <3>1. n \in Size + 1 .. L /\ order.lines[n].group = g
      BY <1>5
    <3>2. n \in DOMAIN order.lines /\ n \notin Stored /\ n \in Nat \ {0}
      BY <1>1, <3>1
    <3>3. ASSUME NEW k \in links, k.line = n PROVE FALSE
      <4>1. PICK h \in Groups : shipment[h].sent /\ k \in Links(order, h)
        BY DEF Linked, LinksOf, Sent
      <4>2. PICK m \in LinesOf(order, h) : k = LinkOf(order, h, m)
        BY <4>1 DEF Links
      <4>3. m = n /\ order.lines[m].group = h
        BY <3>3, <4>2 DEF LinkOf, LinesOf
      <4> QED
        BY <3>1, <4>1, <4>3
    <3> QED
      BY <3>2, <3>3
  <2>3. \A n \in U : \E i \in Billable(g) : order.lines[n] = AddedLine(g, i)
    BY <1>2, <1>5
  <2>4. ASSUME NEW i \in Billable(g) PROVE \E n \in U : order.lines[n] = AddedLine(g, i)
    <3>1. PICK n \in Size + 1 .. L : order.lines[n] = AddedLine(g, i)
      BY <1>4 DEF AddedLines
    <3>2. n \in U
      BY <3>1 DEF LinesOf, AddedLine
    <3> QED
      BY <3>1, <3>2
  <2>5. ASSUME NEW m \in U, NEW n \in U, m < n PROVE order.lines[m].item < order.lines[n].item
    <3>1. m \in Size + 1 .. n - 1 /\ order.lines[m].group = g
      BY <1>1, <1>5, <2>5
    <3>2. n \in Size + 1 .. L /\ order.lines[n].group = g
      BY <1>5
    <3>3. \A k \in Size + 1 .. n - 1 : order.lines[k].group = g => order.lines[k].item < order.lines[n].item
      BY <1>2, <3>2
    <3> QED
      BY <3>1, <3>3
  <2>6. U \subseteq DOMAIN order.lines \ known /\ DOMAIN order.lines \subseteq Nat \ {0}
    BY <1>1, <2>2
  <2> QED
    BY <2>1, <2>3, <2>4, <2>5, <2>6 DEF LinesOfGroup
<1>7. Matched(order, known, g) = {LinkOf(order, g, n) : n \in U}
  BY <1>6, MatchedIs
<1> QED
  BY <1>7 DEF Links

(* The shipping line re-priced is the one of the group.                     *)
LEMMA TitledIs ==
    ASSUME BillInv, TitlesApart, NEW g \in Groups
    PROVE  {s \in order.ship : s.title = Title[g]} = ShipOf(g)
<1>1. \A s \in order.ship : s.group \in Groups \cup {0} /\ (s.group = 0 => s.title = Nothing)
                            /\ (s.group # 0 => s.title = Title[s.group])
  BY DEF BillInv, BillTypes, Order, Rate, ShippingLines
<1>2. g # 0
  BY DEF Groups
<1>3. \A s \in order.ship : s.title = Title[g] <=> s.group = g
  BY <1>1, <1>2 DEF TitlesApart
<1> QED
  BY <1>3 DEF ShipOf

LEMMA CurrentIs ==
    ASSUME BillInv, TitlesApart, NEW g \in Groups, shipment[g].sent
    PROVE  CurrentShipping(g) = ShipOf(g)
<1> DEFINE stored == {s \in order.ship : s.id = shipment[g].line}
           named  == {s \in order.ship : s.title = Title[g]}
<1>1. stored = ShipOf(g)
  BY DEF BillInv, StoredLines
<1>2. named = ShipOf(g)
  BY TitledIs
<1>3. CurrentShipping(g) = IF stored # {} THEN stored ELSE IF Cardinality(named) = 1 THEN named ELSE {}
  BY DEF CurrentShipping
<1> QED
  BY <1>1, <1>2, <1>3

LEMMA OneMin ==
    ASSUME NEW x \in Nat
    PROVE  Min({x}) = x
<1>1. \A y \in {x} : x <= y
  OBVIOUS
<1> QED
  BY <1>1 DEF Min
----------------------------------------------------------------------------
(* The steps.                                                               *)
LEMMA LinksJoined ==
    ASSUME NEW o, NEW p, NEW S, NEW T, NEW g, T = S \cup {g}, \A h \in S : Links(o, h) = Links(p, h)
    PROVE  LinksOf(o, T) = LinksOf(p, S) \cup Links(o, g)
<1>1. \A x : x \in LinksOf(o, T) <=> \E h \in T : x \in Links(o, h)
  BY DEF LinksOf
<1>2. \A x : x \in LinksOf(p, S) <=> \E h \in S : x \in Links(p, h)
  BY DEF LinksOf
<1>3. ASSUME NEW x PROVE x \in LinksOf(o, T) <=> x \in LinksOf(p, S) \cup Links(o, g)
  BY <1>1, <1>2
<1> QED
  BY <1>3

NoneOpen == \A h \in Groups : shipment[h].claimed => shipment[h].sent

LEMMA SettledOn ==
    /\ Claims /\ NoneOpen => \A h \in Groups : On(h) <=> shipment[h].sent
    /\ Claims /\ Owed <= 0 /\ Owed \in Int => \A h \in Groups : On(h) <=> shipment[h].sent
<1>1. ASSUME Claims, NoneOpen PROVE \A h \in Groups : On(h) <=> shipment[h].sent
  BY <1>1 DEF Claims, NoneOpen, On
<1>2. ASSUME Claims, Owed <= 0, Owed \in Int PROVE \A h \in Groups : On(h) <=> shipment[h].sent
  <2>1. ~ (Owed > 0)
    BY <1>2
  <2> QED
    BY <1>2, <2>1 DEF Claims, On
<1> QED
  BY <1>1, <1>2

LEMMA OrderThen ==
    ASSUME order' = order
    PROVE  /\ \A h : ShipOf(h)' = ShipOf(h)
           /\ \A S : LinksOf(order, S)' = LinksOf(order, S)
           /\ paid' = paid => Owed' = Owed
<1>1. \A h : ShipOf(h)' = ShipOf(h)
  BY DEF ShipOf
<1>2. \A S : LinksOf(order, S)' = LinksOf(order, S)
  BY DEF LinksOf, Links, LinesOf, LinkOf, Size, DraftLines, DepositDraftLine, HalfDraftLine, GoodsDraftLine, InAll, Pool, SplitHalf
<1>3. paid' = paid => Owed' = Owed
  BY DEF Owed, Owes, LineTotal, ShipTotal
<1> QED
  BY <1>1, <1>2, <1>3

LEMMA UpdateStep ==
    ASSUME BillInv, NEW g \in Groups, NEW p \in 1 .. MaxPrice, UpdateShipping(g, p), Orderly
    PROVE  BillInv'
<1> USE DEF BillInv
<1>1. /\ shipment \in [Groups -> ShipmentRow] /\ p \in Nat /\ ~ shipment[g].claimed /\ p # shipment[g].price
      /\ shipment' = [shipment EXCEPT ![g].price = p]
      /\ order' = order /\ paid' = paid /\ catalog' = catalog /\ links' = links /\ edits' = edits
  BY DEF BillTypes, UpdateShipping
<1>2. /\ shipment' \in [Groups -> ShipmentRow] /\ shipment'[g].price = p
      /\ \A h \in Groups \ {g} : shipment'[h] = shipment[h]
      /\ \A h \in Groups : /\ shipment'[h].claimed = shipment[h].claimed /\ shipment'[h].sent = shipment[h].sent
                           /\ shipment'[h].paid = shipment[h].paid /\ shipment'[h].applied = shipment[h].applied
                           /\ shipment'[h].line = shipment[h].line
  BY <1>1 DEF ShipmentRow
<1>3. NoneOpen /\ NoneOpen'
  <2>1. ~ Interrupted
    BY <1>1, <1>2 DEF Orderly
  <2>2. NoneOpen
    BY <2>1 DEF Interrupted, NoneOpen
  <2> QED
    BY <1>2, <2>2 DEF NoneOpen
<1>4. Claims'
  <2>1. shipment'[g].applied = 0
    BY <1>1, <1>2 DEF Claims
  <2>2. \A h \in Groups : shipment'[h].applied <= shipment'[h].price
    BY <1>1, <1>2, <2>1 DEF Claims
  <2> QED
    BY <1>2, <2>2 DEF Claims
<1>5. \A h \in Groups : (On(h)' <=> On(h)) /\ (On(h) <=> shipment[h].sent)
  <2>1. \A h \in Groups : On(h) <=> shipment[h].sent
    BY <1>3, SettledOn
  <2>2. \A h \in Groups : On(h)' <=> shipment'[h].sent
    BY <1>2, <1>3 DEF On, NoneOpen
  <2> QED
    BY <1>2, <2>1, <2>2
<1>6. ASSUME NEW h \in Groups, shipment[h].sent PROVE Bill(h)' = Bill(h) /\ Amount(h)' = Amount(h)
  <2>1. shipment'[h] = shipment[h]
    BY <1>1, <1>2, <1>6 DEF Claims
  <2> QED
    BY <1>6, <2>1, SentBill
<1>7. CheckoutLines' /\ AddedLines' /\ ShippingLines' /\ Money'
  <2>1. edits' \in Nat /\ edits' >= edits
    BY <1>1 DEF BillTypes
  <2> QED
    BY <1>1, <1>5, <1>6, <2>1, OrderKept
<1>8. BillTypes'
  BY <1>1, <1>2 DEF BillTypes
<1>9. StoredLines'
  BY <1>1, <1>2, OrderThen DEF StoredLines
<1>10. OneOwes'
  <2>1. Owed' = Owed
    BY <1>1, OrderThen
  <2>2. Owed > 0 => \E h \in Groups : shipment'[h].claimed /\ ~ shipment'[h].paid /\ Owed = Bill(h)'
    <3> SUFFICES ASSUME Owed > 0 PROVE \E h \in Groups : shipment'[h].claimed /\ ~ shipment'[h].paid /\ Owed = Bill(h)'
      OBVIOUS
    <3>1. PICK h \in Groups : shipment[h].claimed /\ ~ shipment[h].paid /\ Owed = Bill(h)
      BY DEF OneOwes
    <3>2. Bill(h)' = Bill(h)
      BY <1>3, <1>6, <3>1 DEF NoneOpen
    <3> QED
      BY <1>2, <3>1, <3>2
  <2> QED
    BY <2>1, <2>2 DEF OneOwes
<1>11. Landed'
  BY <1>3 DEF Landed, NoneOpen
<1>12. Linked'
  <2>1. Sent' = Sent
    BY <1>2 DEF Sent
  <2> QED
    BY <1>1, <2>1, OrderThen DEF Linked
<1> QED
  BY <1>4, <1>7, <1>8, <1>9, <1>10, <1>11, <1>12
LEMMA RequestPre ==
    ASSUME BillInv, NEW g \in Groups, Requestable(g)
    PROVE  /\ ~ shipment[g].claimed /\ ~ shipment[g].sent /\ ~ shipment[g].paid /\ shipment[g].applied = 0
           /\ NoneOpen /\ ~ On(g) /\ Owed = 0 /\ \A h \in Groups \ {g} : shipment[h].claimed => shipment[h].paid
           /\ Committed(Applied(g), g) /\ Increase(g) = Bill(g) /\ Bill(g) \in Nat /\ Bill(g) > 0
           /\ Owes(Applied(g)) = Bill(g)
           /\ Plannable(g) /\ NotAboveCatalog(g) /\ NewAmount(g) \in Nat
           /\ NewAmount(g) = shipment[g].price - Allocated(g) + Fold(Allocated(g))
           /\ Allocated(g) \in Nat /\ Allocated(g) <= shipment[g].price /\ Fold(Allocated(g)) \in Nat
           /\ shipment \in [Groups -> ShipmentRow]
<1> USE DEF BillInv
<1>1. ~ shipment[g].claimed /\ OthersClear(g) /\ Owed <= 0 /\ Plannable(g) /\ NotAboveCatalog(g)
  BY DEF Requestable
<1>2. ~ shipment[g].sent /\ ~ shipment[g].paid /\ shipment[g].applied = 0
  BY <1>1 DEF Claims
<1>3. \A h \in Groups \ {g} : shipment[h].claimed => shipment[h].paid
  BY <1>1 DEF OthersClear
<1>4. NoneOpen
  BY <1>1, <1>3 DEF Claims, NoneOpen
<1>5. Owed = 0
  BY <1>1, OwedNow DEF OneOwes
<1>6. ~ On(g)
  BY <1>1, <1>2 DEF On
<1>7. Committed(Applied(g), g) /\ Increase(g) = Bill(g) /\ Bill(g) > 0 /\ Bill(g) \in Nat
  BY <1>1, CommittedIs, IncreaseIs, BillIs
<1>8. Owes(Applied(g)) = Bill(g)
  BY <1>1, <1>5, <1>7, AppliedOwes
<1>9. /\ Allocated(g) \in Nat /\ Allocated(g) <= shipment[g].price /\ Fold(Allocated(g)) \in Nat /\ shipment[g].price \in Nat
      /\ Rest(g, shipment[g].price, Allocated(g)) = shipment[g].price - Allocated(g)
  BY AllocatedType DEF ShipmentRow
<1>10. NewAmount(g) = shipment[g].price - Allocated(g) + Fold(Allocated(g)) /\ NewAmount(g) \in Nat
  <2>1. NewAmount(g) = (shipment[g].price - Allocated(g)) + Fold(Allocated(g))
    BY <1>9 DEF NewAmount
  <2> QED
    BY <1>9, <2>1
<1>11. shipment \in [Groups -> ShipmentRow]
  BY DEF BillTypes
<1> QED
  BY <1>1, <1>2, <1>3, <1>4, <1>5, <1>6, <1>7, <1>8, <1>9, <1>10, <1>11

(* The shipping line found after the edit is the one it added.              *)
LEMMA NewLineIs ==
    ASSUME BillInv, NEW g \in Groups, NEW S \in SUBSET order.ship, NEW r, NEW T,
           r.id = edits + 2, r.title = Title[g], T = S \cup {r} \/ T = S
    PROVE  NewShippingLine(order.ship, T, g) = IF T = S THEN 0 ELSE edits + 2
<1> DEFINE new == {s \in T : s.id \notin {b.id : b \in order.ship}}
           named == {s \in new : s.title = Title[g]}
<1>1. \A s \in order.ship : s.id # edits + 2
  <2>1. edits \in Nat /\ \A s \in order.ship : s.id \in 1 .. edits + 1
    BY DEF BillInv, BillTypes, ShippingLines
  <2> QED
    BY <2>1
<1>2. r \notin order.ship /\ edits + 2 \in Nat
  BY <1>1 DEF BillInv, BillTypes
<1>3. r.id \notin {b.id : b \in order.ship}
  BY <1>1
<1>4. new = IF T = S THEN {} ELSE {r}
  BY <1>2, <1>3
<1>5. NewShippingLine(order.ship, T, g) = IF named # {} THEN Min({s.id : s \in named})
                                          ELSE IF new # {} THEN Min({s.id : s \in new}) ELSE 0
  BY DEF NewShippingLine
<1> HIDE DEF new
<1>6. CASE T = S
  BY <1>4, <1>5, <1>6
<1>7. CASE T # S
  <2>1. named = {r}
    BY <1>4, <1>7
  <2>2. {s.id : s \in named} = {edits + 2}
    BY <2>1
  <2> HIDE DEF named
  <2>3. NewShippingLine(order.ship, T, g) = Min({edits + 2})
    BY <1>5, <2>1, <2>2
  <2> QED
    BY <1>2, <1>7, <2>3, OneMin
<1> QED
  BY <1>6, <1>7

LEMMA RequestStep ==
    ASSUME BillInv, NEW g \in Groups, RequestByOrderEdit(g)
    PROVE  BillInv'
<1> USE DEF BillInv
<1> DEFINE o == Applied(g)
           a == Allocated(g)
           l == NewShippingLine(order.ship, o.ship, g)
<1>1. Requestable(g)
  BY DEF RequestByOrderEdit, CanBill
<1>2. /\ order' = o /\ edits' = edits + 1 /\ paid' = paid /\ catalog' = catalog
      /\ shipment' = [shipment EXCEPT ![g] = [Claimed(g) EXCEPT !.sent = TRUE, !.applied = a, !.line = l]]
      /\ links' = links \cup Matched(o, DOMAIN order.lines, g)
  BY DEF RequestByOrderEdit
<1>3. /\ ~ shipment[g].claimed /\ ~ shipment[g].sent /\ ~ shipment[g].paid
      /\ NoneOpen /\ ~ On(g) /\ Owed = 0 /\ \A h \in Groups \ {g} : shipment[h].claimed => shipment[h].paid
      /\ Committed(o, g) /\ Increase(g) = Bill(g) /\ Bill(g) \in Nat /\ Bill(g) > 0 /\ Owes(o) = Bill(g)
      /\ Plannable(g) /\ NotAboveCatalog(g) /\ NewAmount(g) \in Nat
      /\ NewAmount(g) = shipment[g].price - a + Fold(a)
      /\ a \in Nat /\ a <= shipment[g].price /\ Fold(a) \in Nat /\ shipment \in [Groups -> ShipmentRow]
  BY <1>1, RequestPre
<1>4. l = (IF NewAmount(g) > 0 THEN edits + 2 ELSE 0) /\ l \in Nat
  <2>1. o.ship = IF NewAmount(g) > 0 THEN order.ship \cup {NewRate(g)} ELSE order.ship
    BY <1>3 DEF Committed
  <2>2. NewRate(g).id = edits + 2 /\ NewRate(g).title = Title[g]
    BY DEF NewRate
  <2>3. o.ship = order.ship \cup {NewRate(g)} \/ o.ship = order.ship
    BY <2>1
  <2>4. l = IF o.ship = order.ship THEN 0 ELSE edits + 2
    BY <2>2, <2>3, NewLineIs
  <2>5. edits \in Nat /\ \A s \in order.ship : s.id \in 1 .. edits + 1
    BY DEF BillTypes, ShippingLines
  <2>6. NewRate(g) \notin order.ship
    <3>1. \A s \in order.ship : s.id # edits + 2
      BY <2>5
    <3> QED
      BY <2>2, <3>1
  <2>7. o.ship = order.ship <=> ~ (NewAmount(g) > 0)
    BY <2>1, <2>6
  <2> HIDE DEF l
  <2> QED
    BY <2>4, <2>5, <2>7
<1> HIDE DEF o, a, l
<1>5. /\ shipment' \in [Groups -> ShipmentRow] /\ \A h \in Groups \ {g} : shipment'[h] = shipment[h]
      /\ shipment'[g].claimed /\ shipment'[g].sent /\ ~ shipment'[g].paid /\ shipment'[g].price = shipment[g].price
      /\ shipment'[g].applied = a /\ shipment'[g].folded = Fold(a) /\ shipment'[g].line = l
  <2>1. Claimed(g) = [shipment[g] EXCEPT !.claimed = TRUE, !.expected = Owed + Increase(g), !.folded = Fold(a)]
    BY DEF Claimed, a
  <2>2. Owed + Increase(g) \in Int
    BY <1>3
  <2>3. Claimed(g) \in ShipmentRow /\ Claimed(g).claimed /\ Claimed(g).paid = shipment[g].paid
        /\ Claimed(g).price = shipment[g].price /\ Claimed(g).folded = Fold(a)
    <3> DEFINE r == shipment[g]
               e == Owed + Increase(g)
               f == Fold(a)
    <3>1. r \in ShipmentRow /\ e \in Int /\ f \in Nat
      BY <1>3, <2>2
    <3>2. Claimed(g) = [r EXCEPT !.claimed = TRUE, !.expected = e, !.folded = f]
      BY <2>1
    <3> HIDE DEF r, e, f
    <3>3. Claimed(g) \in ShipmentRow /\ Claimed(g).claimed /\ Claimed(g).paid = r.paid
          /\ Claimed(g).price = r.price /\ Claimed(g).folded = f
      BY <3>1, <3>2 DEF ShipmentRow
    <3> QED
      BY <3>3 DEF r, f
  <2> DEFINE c == Claimed(g)
             d == [c EXCEPT !.sent = TRUE, !.applied = a, !.line = l]
  <2> HIDE DEF c
  <2>4. d \in ShipmentRow /\ d.claimed = c.claimed /\ d.sent /\ d.paid = c.paid /\ d.price = c.price
        /\ d.applied = a /\ d.folded = c.folded /\ d.line = l
    <3>1. c \in ShipmentRow
      BY <2>3 DEF c
    <3> QED
      BY <1>3, <1>4, <3>1 DEF ShipmentRow
  <2>5. shipment' = [shipment EXCEPT ![g] = d]
    BY <1>2 DEF c
  <2> HIDE DEF d
  <2>6. shipment'[g] = d /\ shipment' \in [Groups -> ShipmentRow] /\ \A h \in Groups \ {g} : shipment'[h] = shipment[h]
    BY <1>3, <2>4, <2>5
  <2> QED
    BY <1>3, <2>3, <2>4, <2>6 DEF c
<1>6. NoneOpen'
  BY <1>3, <1>5 DEF NoneOpen
<1>7. Claims'
  BY <1>3, <1>5 DEF Claims
<1>8. Owed' = Bill(g)
  BY <1>2, <1>3 DEF Owed, Owes, LineTotal, ShipTotal
<1>9. Allocated(g)' = a /\ Bill(g)' = Bill(g) /\ Amount(g)' = NewAmount(g)
  <2>1. Allocated(g)' = shipment'[g].applied
    BY <1>5, SentBill
  <2>2. Bill(g)' = Bill(g)
    BY <1>5, <2>1 DEF Bill, AppBalance, a
  <2>3. Amount(g)' = shipment'[g].price - Allocated(g)' + shipment'[g].folded
    BY DEF Amount
  <2> QED
    BY <1>3, <1>5, <2>1, <2>2, <2>3
<1>10. \A h \in Groups : On(h)' <=> shipment'[h].sent
  BY <1>6, <1>7 DEF On, NoneOpen, Claims
<1>11. \A h \in Groups \ {g} : /\ On(h)' <=> On(h)
                               /\ On(h) => Bill(h)' = Bill(h) /\ Amount(h)' = Amount(h)
  <2>1. \A h \in Groups : On(h) <=> shipment[h].sent
    BY <1>3, SettledOn
  <2> QED
    BY <1>5, <1>10, <2>1, SentBill
<1>12. order' \in Order /\ IsFiniteSet(order'.ship) /\ CheckoutLines' /\ AddedLines' /\ ShippingLines' /\ Money'
  <2>1. On(g)'
    BY <1>5, <1>10
  <2>2. order' = Applied(g) /\ edits' = edits + 1 /\ paid' = paid
    BY <1>2 DEF o
  <2> QED
    BY <1>3, <1>9, <1>11, <2>1, <2>2, OrderEdited
<1>13. BillTypes'
  BY <1>2, <1>5, <1>12 DEF BillTypes
<1>14. OneOwes'
  <2>1. shipment'[g].claimed /\ ~ shipment'[g].paid /\ Owed' = Bill(g)' /\ Owed' >= 0
    BY <1>3, <1>5, <1>8, <1>9
  <2> QED
    BY <2>1 DEF OneOwes
<1>15. Landed'
  BY <1>6 DEF Landed, NoneOpen
<1>16. Linked'
  <2>1. Matched(o, DOMAIN order.lines, g) = Links(o, g) /\ \A h \in Groups \ {g} : Links(o, h) = Links(order, h)
    BY <1>3, AppliedMatched
  <2>2. \A S : LinksOf(order, S)' = LinksOf(o, S)
    BY <1>2 DEF LinksOf, Links, LinesOf, LinkOf, Size, DraftLines, DepositDraftLine, HalfDraftLine, GoodsDraftLine, InAll, Pool, SplitHalf
  <2>3. links' = links \cup Links(o, g) /\ links = LinksOf(order, Sent)
    BY <1>2, <2>1 DEF Linked
  <2>4. Sent' = Sent \cup {g} /\ Sent \subseteq Groups \ {g}
    BY <1>3, <1>5 DEF Sent
  <2>5. links' = LinksOf(o, Sent')
    <3> DEFINE S == Sent
               T == Sent'
    <3>1. T = S \cup {g} /\ \A h \in S : Links(o, h) = Links(order, h)
      BY <2>1, <2>4
    <3> HIDE DEF S, T
    <3>2. LinksOf(o, T) = LinksOf(order, S) \cup Links(o, g)
      BY <3>1, LinksJoined
    <3> QED
      BY <2>3, <3>2 DEF S, T
  <2> QED
    BY <2>2, <2>5 DEF Linked
<1>17. StoredLines'
  <2>1. \A h : ShipOf(h)' = {s \in o.ship : s.group = h} /\ ShipOf(h) = {s \in order.ship : s.group = h}
    BY <1>2 DEF ShipOf
  <2>2. o.ship = IF NewAmount(g) > 0 THEN order.ship \cup {NewRate(g)} ELSE order.ship
    BY <1>3 DEF Committed
  <2>3. NewRate(g).id = edits + 2 /\ NewRate(g).group = g
    BY DEF NewRate
  <2>4. edits \in Nat /\ \A s \in order.ship : s.id \in 1 .. edits + 1 /\ s.id # edits + 2 /\ s.id # 0
    <3>1. edits \in Nat /\ \A s \in order.ship : s.id \in 1 .. edits + 1
      BY DEF BillTypes, ShippingLines
    <3> QED
      BY <3>1
  <2>5. \A s \in order.ship : s.group # g
    <3>1. g # 0
      BY DEF Groups
    <3> QED
      BY <1>3, <3>1 DEF ShippingLines
  <2>6. {s \in o.ship : s.id = l} = {s \in o.ship : s.group = g}
    BY <1>4, <2>2, <2>3, <2>4, <2>5
  <2>7. ASSUME NEW h \in Groups \ {g}, shipment[h].sent
        PROVE  {s \in o.ship : s.id = shipment[h].line} = {s \in o.ship : s.group = h}
    <3>1. {s \in order.ship : s.id = shipment[h].line} = {s \in order.ship : s.group = h}
      BY <2>1, <2>7 DEF StoredLines
    <3>2. NewRate(g).id # shipment[h].line
      <4>1. shipment[h].line \in Nat /\ shipment[h].line <= edits + 1
        BY <1>3 DEF StoredLines, ShipmentRow
      <4> QED
        BY <2>3, <2>4, <4>1
    <3> QED
      BY <2>2, <2>3, <3>1, <3>2
  <2>8. \A h \in Groups : shipment'[h].line <= edits' + 1
    <3>1. \A h \in Groups : shipment[h].line \in Nat /\ shipment[h].line <= edits + 1
      BY <1>3 DEF StoredLines, ShipmentRow
    <3> QED
      BY <1>2, <1>4, <1>5, <2>4, <3>1
  <2> QED
    BY <1>2, <1>5, <2>1, <2>6, <2>7, <2>8 DEF StoredLines
<1> QED
  BY <1>7, <1>12, <1>13, <1>14, <1>15, <1>16, <1>17
LEMMA InterruptedStep ==
    ASSUME BillInv, NEW g \in Groups, NEW landed \in BOOLEAN, InterruptedEdit(g, landed), Orderly
    PROVE  BillInv'
<1> USE DEF BillInv
<1> DEFINE o == Applied(g)
           a == Allocated(g)
<1>1. Requestable(g)
  BY DEF InterruptedEdit, CanBill
<1>2. /\ order' = (IF landed THEN o ELSE order) /\ edits' = edits + 1 /\ paid' = paid /\ catalog' = catalog
      /\ shipment' = [shipment EXCEPT ![g] = Claimed(g)] /\ links' = links
  BY DEF InterruptedEdit
<1>3. /\ ~ shipment[g].claimed /\ ~ shipment[g].sent /\ ~ shipment[g].paid /\ shipment[g].applied = 0
      /\ NoneOpen /\ ~ On(g) /\ Owed = 0 /\ \A h \in Groups \ {g} : shipment[h].claimed => shipment[h].paid
      /\ Committed(o, g) /\ Increase(g) = Bill(g) /\ Bill(g) \in Nat /\ Bill(g) > 0 /\ Owes(o) = Bill(g)
      /\ Plannable(g) /\ NotAboveCatalog(g) /\ NewAmount(g) \in Nat
      /\ NewAmount(g) = shipment[g].price - a + Fold(a)
      /\ a \in Nat /\ a <= shipment[g].price /\ Fold(a) \in Nat /\ shipment \in [Groups -> ShipmentRow]
  BY <1>1, RequestPre
<1> HIDE DEF o, a
<1>4. /\ shipment' \in [Groups -> ShipmentRow] /\ \A h \in Groups \ {g} : shipment'[h] = shipment[h]
      /\ shipment'[g].claimed /\ ~ shipment'[g].sent /\ ~ shipment'[g].paid /\ shipment'[g].price = shipment[g].price
      /\ shipment'[g].applied = 0 /\ shipment'[g].folded = Fold(a) /\ shipment'[g].line = shipment[g].line
  <2> DEFINE r == shipment[g]
             e == Owed + Increase(g)
             f == Fold(a)
             c == Claimed(g)
  <2>1. c = [r EXCEPT !.claimed = TRUE, !.expected = e, !.folded = f]
    BY DEF Claimed, a
  <2>2. r \in ShipmentRow /\ e \in Int /\ f \in Nat
    BY <1>3
  <2>3. r.sent = FALSE /\ r.paid = FALSE /\ r.applied = 0
    <3>1. r.sent \in BOOLEAN /\ r.paid \in BOOLEAN
      BY <2>2 DEF ShipmentRow
    <3> QED
      BY <1>3, <3>1
  <2> HIDE DEF r, e, f, c
  <2>4. c \in ShipmentRow /\ c.claimed /\ c.paid = r.paid /\ c.sent = r.sent /\ c.price = r.price /\ c.folded = f
        /\ c.applied = r.applied /\ c.line = r.line
    BY <2>1, <2>2 DEF ShipmentRow
  <2>5. shipment' = [shipment EXCEPT ![g] = c]
    BY <1>2 DEF c
  <2>6. shipment'[g] = c /\ shipment' \in [Groups -> ShipmentRow] /\ \A h \in Groups \ {g} : shipment'[h] = shipment[h]
    BY <1>3, <2>4, <2>5
  <2> QED
    BY <2>3, <2>4, <2>6 DEF r, f
<1>5. \A h \in Groups : /\ shipment'[h].price = shipment[h].price /\ shipment'[h].applied = shipment[h].applied
                        /\ (shipment'[h].sent <=> shipment[h].sent) /\ (shipment'[h].paid <=> shipment[h].paid)
                        /\ shipment'[h].line = shipment[h].line
                        /\ (h # g => (shipment'[h].claimed => shipment'[h].paid) /\ shipment'[h] = shipment[h])
  BY <1>3, <1>4
<1>6. \A h \in Groups : shipment'[h].sent = shipment[h].sent
  <2>1. \A h \in Groups : shipment'[h].sent \in BOOLEAN /\ shipment[h].sent \in BOOLEAN
    BY <1>3, <1>4 DEF ShipmentRow
  <2> QED
    BY <1>5, <2>1
<1>7. Claims'
  BY <1>3, <1>4, <1>5 DEF Claims
<1>8. \A h \in Groups : Allocated(h)' = Allocated(h) /\ Bill(h)' = Bill(h)
  BY <1>5, <1>6, AllocatedSame
<1>9. Amount(g)' = NewAmount(g) /\ \A h \in Groups \ {g} : Amount(h)' = Amount(h)
  BY <1>3, <1>4, <1>5, <1>8 DEF Amount, a
<1>10. \A h \in Groups : On(h) <=> shipment[h].sent
  BY <1>3, SettledOn
<1>11. \A h \in Groups \ {g} : On(h)' <=> On(h)
  <2>1. \A h \in Groups \ {g} : On(h)' <=> shipment'[h].sent
    BY <1>5, <1>7 DEF On, Claims
  <2> QED
    BY <1>5, <1>10, <2>1
<1>12. Owed' = IF landed THEN Bill(g) ELSE 0
  BY <1>2, <1>3 DEF Owed, Owes, LineTotal, ShipTotal
<1>13. On(g)' <=> landed
  BY <1>3, <1>4, <1>12 DEF On
<1>14. order' \in Order /\ IsFiniteSet(order'.ship) /\ CheckoutLines' /\ AddedLines' /\ ShippingLines' /\ Money'
  <2>1. CASE landed
    <3>1. order' = Applied(g) /\ edits' = edits + 1 /\ paid' = paid
      BY <1>2, <2>1 DEF o
    <3>2. On(g)' /\ Bill(g)' = Bill(g)
      BY <1>8, <1>13, <2>1
    <3> QED
      BY <1>3, <1>8, <1>9, <1>11, <3>1, <3>2, OrderEdited
  <2>2. CASE ~ landed
    <3>1. order' = order /\ edits' \in Nat /\ edits' >= edits
      BY <1>2, <2>2 DEF BillTypes
    <3>2. \A h \in Groups : /\ On(h)' <=> On(h)
                            /\ On(h) => Bill(h)' = Bill(h) /\ Amount(h)' = Amount(h)
      BY <1>3, <1>8, <1>9, <1>11, <1>13, <2>2
    <3>3. order' \in Order /\ IsFiniteSet(order'.ship)
      BY <3>1 DEF BillTypes
    <3> QED
      BY <3>1, <3>2, <3>3, OrderKept
  <2> QED
    BY <2>1, <2>2
<1>15. BillTypes'
  BY <1>2, <1>4, <1>14 DEF BillTypes
<1>16. OneOwes'
  <2>1. Owed' >= 0 /\ (Owed' > 0 => Owed' = Bill(g)')
    BY <1>3, <1>8, <1>12
  <2> QED
    BY <1>4, <2>1 DEF OneOwes
<1>17. Landed'
  <2>1. ASSUME NEW h \in Groups, shipment'[h].claimed, ~ shipment'[h].sent, Owed' > 0
        PROVE  ShipOf(h)' # {}
    <3>1. h = g /\ landed
      BY <1>3, <1>5, <1>7, <1>12, <2>1 DEF Claims
    <3>2. order' = order \/ \E s \in order'.ship : s.group = g
      BY <1>3, <1>4 DEF Orderly
    <3>3. order' # order
      <4> SUFFICES ASSUME order' = order PROVE FALSE
        OBVIOUS
      <4>1. Owed' = Owed
        BY <1>2, OrderThen
      <4> QED
        BY <1>3, <2>1, <4>1
    <3> QED
      BY <3>1, <3>2, <3>3 DEF ShipOf
  <2> QED
    BY <2>1 DEF Landed
<1>18. Linked'
  <2>1. Sent' = Sent /\ Sent \subseteq Groups \ {g}
    BY <1>3, <1>5 DEF Sent
  <2>2. \A h \in Groups \ {g} : Links(o, h) = Links(order, h)
    BY <1>3, AppliedMatched
  <2>3. \A S : LinksOf(order, S)' = LinksOf(order', S)
    BY DEF LinksOf, Links, LinesOf, LinkOf, Size, DraftLines, DepositDraftLine, HalfDraftLine, GoodsDraftLine, InAll, Pool, SplitHalf
  <2>4. LinksOf(o, Sent) = LinksOf(order, Sent)
    BY <2>1, <2>2 DEF LinksOf
  <2>5. LinksOf(order', Sent) = LinksOf(order, Sent)
    BY <1>2, <2>4
  <2> QED
    BY <1>2, <2>1, <2>3, <2>5 DEF Linked
<1>19. StoredLines'
  <2>1. \A h : ShipOf(h)' = {s \in order'.ship : s.group = h} /\ ShipOf(h) = {s \in order.ship : s.group = h}
    BY DEF ShipOf
  <2>2. order'.ship = order.ship \/ order'.ship = order.ship \cup {NewRate(g)}
    BY <1>2, <1>3 DEF Committed
  <2>3. NewRate(g).id = edits + 2 /\ NewRate(g).group = g
    BY DEF NewRate
  <2>4. \A h \in Groups : shipment[h].line # edits + 2 /\ shipment[h].line <= edits + 2 /\ edits' + 1 = edits + 2
    <3>1. \A h \in Groups : shipment[h].line \in Nat /\ shipment[h].line <= edits + 1 /\ edits \in Nat
      BY <1>3 DEF StoredLines, ShipmentRow, BillTypes
    <3> QED
      BY <1>2, <3>1
  <2>5. ASSUME NEW h \in Groups \ {g}, shipment[h].sent
        PROVE  {s \in order'.ship : s.id = shipment[h].line} = {s \in order'.ship : s.group = h}
    <3>1. {s \in order.ship : s.id = shipment[h].line} = {s \in order.ship : s.group = h}
      BY <2>1, <2>5 DEF StoredLines
    <3> QED
      BY <2>2, <2>3, <2>4, <3>1
  <2> QED
    BY <1>4, <1>5, <2>1, <2>4, <2>5 DEF StoredLines
<1> QED
  BY <1>7, <1>14, <1>15, <1>16, <1>17, <1>18, <1>19
LEMMA ReleaseStep ==
    ASSUME BillInv, NEW g \in Groups, ReleaseOrderEditBalanceClaim(g)
    PROVE  BillInv'
<1> USE DEF BillInv
<1>1. /\ shipment \in [Groups -> ShipmentRow] /\ shipment[g].claimed /\ ~ shipment[g].sent /\ Owed <= 0
      /\ \A h \in Groups \ {g} : shipment[h].claimed => shipment[h].paid
      /\ shipment' = [shipment EXCEPT ![g] = [@ EXCEPT !.claimed = FALSE, !.expected = 0, !.folded = 0]]
      /\ order' = order /\ paid' = paid /\ catalog' = catalog /\ links' = links /\ edits' = edits
  BY DEF BillTypes, ReleaseOrderEditBalanceClaim, OthersClear
<1>2. /\ shipment' \in [Groups -> ShipmentRow] /\ ~ shipment'[g].claimed
      /\ \A h \in Groups \ {g} : shipment'[h] = shipment[h]
      /\ \A h \in Groups : /\ shipment'[h].price = shipment[h].price /\ shipment'[h].sent = shipment[h].sent
                           /\ shipment'[h].paid = shipment[h].paid /\ shipment'[h].applied = shipment[h].applied
                           /\ shipment'[h].line = shipment[h].line
  <2> DEFINE r == shipment[g]
             no == FALSE
             z == 0
             c == [r EXCEPT !.claimed = no, !.expected = z, !.folded = z]
  <2>1. r \in ShipmentRow /\ no \in BOOLEAN /\ z \in Nat /\ z \in Int
    BY <1>1
  <2>2. shipment' = [shipment EXCEPT ![g] = c]
    BY <1>1
  <2> HIDE DEF r, no, z
  <2>3. c \in ShipmentRow /\ c.claimed = no /\ c.price = r.price /\ c.sent = r.sent /\ c.paid = r.paid
        /\ c.applied = r.applied /\ c.line = r.line
    BY <2>1 DEF ShipmentRow
  <2> HIDE DEF c
  <2>4. shipment'[g] = c /\ shipment' \in [Groups -> ShipmentRow] /\ \A h \in Groups \ {g} : shipment'[h] = shipment[h]
    BY <1>1, <2>2, <2>3
  <2> QED
    BY <2>3, <2>4 DEF r, no
<1>3. Claims'
  BY <1>1, <1>2 DEF Claims
<1>4. Owed' = Owed /\ Owed = 0
  BY <1>1, OrderThen, OwedNow DEF OneOwes
<1>5. \A h \in Groups : (On(h)' <=> On(h)) /\ (On(h) <=> shipment[h].sent)
  <2>1. \A h \in Groups : On(h) <=> shipment[h].sent
    BY <1>4, SettledOn
  <2>2. \A h \in Groups : On(h)' <=> shipment'[h].sent
    BY <1>4 DEF On
  <2> QED
    BY <1>2, <2>1, <2>2
<1>6. ASSUME NEW h \in Groups, shipment[h].sent PROVE Bill(h)' = Bill(h) /\ Amount(h)' = Amount(h)
  <2>1. shipment'[h] = shipment[h]
    BY <1>1, <1>2, <1>6
  <2> QED
    BY <1>6, <2>1, SentBill
<1>7. CheckoutLines' /\ AddedLines' /\ ShippingLines' /\ Money'
  <2>1. edits' \in Nat /\ edits' >= edits
    BY <1>1 DEF BillTypes
  <2> QED
    BY <1>1, <1>5, <1>6, <2>1, OrderKept
<1>8. BillTypes'
  BY <1>1, <1>2 DEF BillTypes
<1>9. StoredLines'
  BY <1>1, <1>2, OrderThen DEF StoredLines
<1>10. OneOwes' /\ Landed'
  BY <1>4 DEF OneOwes, Landed
<1>11. Linked'
  <2>1. Sent' = Sent
    BY <1>2 DEF Sent
  <2> QED
    BY <1>1, <2>1, OrderThen DEF Linked
<1> QED
  BY <1>3, <1>7, <1>8, <1>9, <1>10, <1>11

LEMMA PayStep ==
    ASSUME BillInv, Pay
    PROVE  BillInv'
<1> USE DEF BillInv
<1>1. /\ Owed > 0 /\ paid' = paid + Owed
      /\ order' = order /\ shipment' = shipment /\ catalog' = catalog /\ links' = links /\ edits' = edits
  BY DEF Pay
<1>2. PICK g \in Groups : shipment[g].sent /\ ~ shipment[g].paid
  BY DEF Pay
<1>3. NoneOpen
  BY <1>2 DEF Claims, NoneOpen
<1>4. Owed' = 0 /\ paid' \in Int
  <2>1. Owed = Worth(order.lines) + Rates(order.ship) - paid /\ Owed' = Worth(order.lines) + Rates(order.ship) - paid'
        /\ Worth(order.lines) \in Nat /\ Rates(order.ship) \in Nat /\ paid \in Int
    BY <1>1, OwedNow, OwedThen DEF BillTypes
  <2> QED
    BY <1>1, <2>1
<1>5. \A h \in Groups : (On(h)' <=> On(h)) /\ (On(h) <=> shipment[h].sent)
  <2>1. \A h \in Groups : On(h) <=> shipment[h].sent
    BY <1>3, SettledOn
  <2>2. \A h \in Groups : On(h)' <=> shipment'[h].sent
    BY <1>4 DEF On
  <2> QED
    BY <1>1, <2>1, <2>2
<1>6. ASSUME NEW h \in Groups, shipment[h].sent PROVE Bill(h)' = Bill(h) /\ Amount(h)' = Amount(h)
  BY <1>1, <1>6, SentBill
<1>7. CheckoutLines' /\ AddedLines' /\ ShippingLines' /\ Money'
  <2>1. edits' \in Nat /\ edits' >= edits
    BY <1>1 DEF BillTypes
  <2> QED
    BY <1>1, <1>5, <1>6, <2>1, OrderKept
<1>8. BillTypes'
  BY <1>1, <1>4 DEF BillTypes
<1>9. StoredLines' /\ Claims'
  BY <1>1, OrderThen DEF StoredLines, Claims
<1>10. OneOwes' /\ Landed'
  BY <1>4 DEF OneOwes, Landed
<1>11. Linked'
  <2>1. Sent' = Sent
    BY <1>1 DEF Sent
  <2> QED
    BY <1>1, <2>1, OrderThen DEF Linked
<1> QED
  BY <1>7, <1>8, <1>9, <1>10, <1>11

LEMMA ReconcileStep ==
    ASSUME BillInv, ReconcileOrderEditBalance
    PROVE  BillInv'
<1> USE DEF BillInv
<1> DEFINE W == {g \in Groups : shipment[g].sent /\ ~ shipment[g].paid}
<1>1. /\ Owed <= 0 /\ shipment \in [Groups -> ShipmentRow]
      /\ shipment' = [g \in Groups |-> [shipment[g] EXCEPT !.paid = @ \/ g \in W]]
      /\ order' = order /\ paid' = paid /\ catalog' = catalog /\ links' = links /\ edits' = edits
  BY DEF BillTypes, ReconcileOrderEditBalance
<1>2. /\ shipment' \in [Groups -> ShipmentRow]
      /\ \A h \in Groups : /\ shipment'[h].price = shipment[h].price /\ shipment'[h].sent = shipment[h].sent
                           /\ shipment'[h].claimed = shipment[h].claimed /\ shipment'[h].applied = shipment[h].applied
                           /\ shipment'[h].line = shipment[h].line /\ shipment'[h].folded = shipment[h].folded
                           /\ (shipment'[h].paid <=> shipment[h].paid \/ h \in W)
  <2>1. ASSUME NEW h \in Groups
        PROVE  /\ shipment'[h] \in ShipmentRow
               /\ shipment'[h].price = shipment[h].price /\ shipment'[h].sent = shipment[h].sent
               /\ shipment'[h].claimed = shipment[h].claimed /\ shipment'[h].applied = shipment[h].applied
               /\ shipment'[h].line = shipment[h].line /\ shipment'[h].folded = shipment[h].folded
               /\ (shipment'[h].paid <=> shipment[h].paid \/ h \in W)
    <3> DEFINE r == shipment[h]
               b == r.paid \/ h \in W
    <3>1. r \in ShipmentRow /\ shipment'[h] = [r EXCEPT !.paid = b]
      BY <1>1
    <3>2. b \in BOOLEAN
      OBVIOUS
    <3> HIDE DEF r, b
    <3>3. /\ [r EXCEPT !.paid = b] \in ShipmentRow
          /\ shipment'[h].price = r.price /\ shipment'[h].sent = r.sent /\ shipment'[h].claimed = r.claimed
          /\ shipment'[h].applied = r.applied /\ shipment'[h].line = r.line /\ shipment'[h].folded = r.folded
          /\ shipment'[h].paid = b
      BY <3>1, <3>2 DEF ShipmentRow
    <3> QED
      BY <3>1, <3>3 DEF r, b
  <2>2. shipment' = [h \in Groups |-> shipment'[h]]
    BY <1>1
  <2>3. shipment' \in [Groups -> ShipmentRow]
    BY <2>1, <2>2
  <2> QED
    BY <2>1, <2>3
<1> HIDE DEF W
<1>3. Claims'
  <2>1. \A h \in Groups : h \in W => shipment[h].sent
    BY DEF W
  <2> QED
    BY <1>2, <2>1 DEF Claims
<1>4. Owed' = Owed /\ Owed = 0
  BY <1>1, OrderThen, OwedNow DEF OneOwes
<1>5. \A h \in Groups : (On(h)' <=> On(h)) /\ (On(h) <=> shipment[h].sent)
  <2>1. \A h \in Groups : On(h) <=> shipment[h].sent
    BY <1>4, SettledOn
  <2>2. \A h \in Groups : On(h)' <=> shipment'[h].sent
    BY <1>4 DEF On
  <2> QED
    BY <1>2, <2>1, <2>2
<1>6. ASSUME NEW h \in Groups, shipment[h].sent PROVE Bill(h)' = Bill(h) /\ Amount(h)' = Amount(h)
  <2>1. shipment'[h].sent
    BY <1>2, <1>6
  <2> QED
    BY <1>2, <1>6, <2>1, SentBill
<1>7. CheckoutLines' /\ AddedLines' /\ ShippingLines' /\ Money'
  <2>1. edits' \in Nat /\ edits' >= edits
    BY <1>1 DEF BillTypes
  <2> QED
    BY <1>1, <1>5, <1>6, <2>1, OrderKept
<1>8. BillTypes'
  BY <1>1, <1>2 DEF BillTypes
<1>9. StoredLines'
  <2>1. \A h \in Groups : ShipOf(h)' = ShipOf(h)
    BY <1>1, OrderThen
  <2>2. \A h \in Groups : shipment'[h].line = shipment[h].line /\ (shipment'[h].sent <=> shipment[h].sent)
    BY <1>2
  <2>3. order' = order /\ edits' = edits
    BY <1>1
  <2> QED
    BY <2>1, <2>2, <2>3 DEF StoredLines
<1>10. OneOwes' /\ Landed'
  BY <1>4 DEF OneOwes, Landed
<1>11. Linked'
  <2>1. Sent' = Sent
    BY <1>2 DEF Sent
  <2> QED
    BY <1>1, <2>1, OrderThen DEF Linked
<1> QED
  BY <1>3, <1>7, <1>8, <1>9, <1>10, <1>11

LEMMA AdoptStep ==
    ASSUME BillInv, TitlesApart, NEW g \in Groups, AdoptOrderEditBalance(g)
    PROVE  BillInv'
<1> USE DEF BillInv
<1> DEFINE a == Allocated(g)
           l == NewShippingLine({}, order.ship, g)
           M == Matched(order, Stored \cup {k.line : k \in links}, g)
<1>1. /\ shipment \in [Groups -> ShipmentRow] /\ shipment[g].claimed /\ ~ shipment[g].sent /\ Owed > 0
      /\ OthersClear(g) /\ \A h \in Groups \ {g} : shipment[h].claimed => shipment[h].paid
      /\ shipment' = [shipment EXCEPT ![g] =
                      [@ EXCEPT !.claimed = TRUE, !.sent = TRUE, !.applied = a,
                                !.expected = shipment[g].expected, !.line = l]]
      /\ links' = links \cup M
      /\ order' = order /\ paid' = paid /\ catalog' = catalog /\ edits' = edits
  BY DEF BillTypes, AdoptOrderEditBalance, OthersClear, Completed
<1>2. ~ shipment[g].paid /\ On(g)
  BY <1>1 DEF Claims, On
<1>3. M = Links(order, g)
  BY <1>1, AdoptedMatched
<1>4. a \in Nat /\ a <= shipment[g].price
  BY AllocatedType
<1>5. PICK s \in order.ship : ShipOf(g) = {s} /\ l = s.id /\ s.id \in Nat /\ s.id <= edits + 1
  <2>1. ShipOf(g) # {}
    BY <1>1 DEF Landed
  <2>2. PICK s \in order.ship : ShipOf(g) = {s}
    BY <1>2, <2>1 DEF ShippingLines
  <2>3. s.id \in Nat /\ s.id <= edits + 1
    <3>1. s.id \in 1 .. edits + 1 /\ edits \in Nat
      BY DEF ShippingLines, BillTypes
    <3> QED
      BY <3>1
  <2> DEFINE new == {x \in order.ship : x.id \notin {b.id : b \in {}}}
             named == {x \in new : x.title = Title[g]}
  <2>4. new = order.ship
    OBVIOUS
  <2>5. named = {s}
    BY <2>2, <2>4, TitledIs
  <2>6. l = IF named # {} THEN Min({x.id : x \in named}) ELSE IF new # {} THEN Min({x.id : x \in new}) ELSE 0
    BY DEF NewShippingLine
  <2> HIDE DEF named, l
  <2>7. {x.id : x \in named} = {s.id}
    BY <2>5
  <2>8. l = Min({s.id})
    BY <2>5, <2>6, <2>7
  <2>9. l = s.id
    BY <2>3, <2>8, OneMin
  <2> QED
    BY <2>2, <2>3, <2>9
<1> HIDE DEF a, l, M
<1>6. /\ shipment' \in [Groups -> ShipmentRow] /\ \A h \in Groups \ {g} : shipment'[h] = shipment[h]
      /\ shipment'[g].claimed /\ shipment'[g].sent /\ ~ shipment'[g].paid /\ shipment'[g].price = shipment[g].price
      /\ shipment'[g].applied = a /\ shipment'[g].folded = shipment[g].folded /\ shipment'[g].line = l
  <2> DEFINE r == shipment[g]
             e == shipment[g].expected
             c == [r EXCEPT !.claimed = TRUE, !.sent = TRUE, !.applied = a, !.expected = e, !.line = l]
  <2>1. r \in ShipmentRow /\ e \in Int /\ l \in Nat
    BY <1>1, <1>5 DEF ShipmentRow
  <2>2. shipment' = [shipment EXCEPT ![g] = c]
    BY <1>1
  <2> HIDE DEF r, e
  <2>3. c \in ShipmentRow /\ c.claimed /\ c.sent /\ c.paid = r.paid /\ c.price = r.price /\ c.applied = a
        /\ c.folded = r.folded /\ c.line = l
    BY <1>4, <2>1 DEF ShipmentRow
  <2> HIDE DEF c
  <2>4. shipment'[g] = c /\ shipment' \in [Groups -> ShipmentRow] /\ \A h \in Groups \ {g} : shipment'[h] = shipment[h]
    BY <1>1, <2>2, <2>3
  <2> QED
    BY <1>2, <2>3, <2>4 DEF r
<1>7. NoneOpen' /\ Claims'
  BY <1>1, <1>4, <1>6 DEF NoneOpen, Claims
<1>8. Owed' = Owed
  BY <1>1, OrderThen
<1>9. \A h \in Groups : On(h)' <=> On(h)
  <2>1. \A h \in Groups : On(h)' <=> shipment'[h].sent
    BY <1>7 DEF On, NoneOpen, Claims
  <2>2. \A h \in Groups \ {g} : On(h) <=> shipment[h].sent
    BY <1>1 DEF On, Claims
  <2> QED
    BY <1>2, <1>6, <2>1, <2>2
<1>10. \A h \in Groups : On(h) => Bill(h)' = Bill(h) /\ Amount(h)' = Amount(h)
  <2>1. Allocated(g)' = a
    BY <1>6, SentBill
  <2>2. Bill(g)' = Bill(g) /\ Amount(g)' = Amount(g)
    BY <1>6, <2>1 DEF Bill, Amount, AppBalance, a
  <2>3. \A h \in Groups \ {g} : On(h) => shipment[h].sent /\ shipment'[h] = shipment[h]
    BY <1>1, <1>6 DEF On, Claims
  <2> QED
    BY <2>2, <2>3, SentBill
<1>11. CheckoutLines' /\ AddedLines' /\ ShippingLines' /\ Money'
  <2>1. edits' \in Nat /\ edits' >= edits
    BY <1>1 DEF BillTypes
  <2> QED
    BY <1>1, <1>9, <1>10, <2>1, OrderKept
<1>12. BillTypes'
  BY <1>1, <1>6 DEF BillTypes
<1>13. StoredLines'
  <2>1. {x \in order.ship : x.id = l} = ShipOf(g)
    BY <1>5 DEF ShippingLines
  <2>2. l <= edits + 1
    BY <1>5
  <2> QED
    BY <1>1, <1>6, <2>1, <2>2, OrderThen DEF StoredLines
<1>14. OneOwes'
  <2>1. Bill(g)' = Bill(g)
    BY <1>2, <1>10
  <2>2. Owed = Bill(g)
    BY <1>1, <1>2 DEF OneOwes, Claims
  <2> QED
    BY <1>6, <1>8, <2>1, <2>2 DEF OneOwes
<1>15. Landed'
  BY <1>7 DEF Landed, NoneOpen
<1>16. Linked'
  <2> DEFINE S == Sent
             T == Sent'
  <2>1. T = S \cup {g} /\ \A h \in S : Links(order, h) = Links(order, h)
    BY <1>1, <1>6 DEF Sent
  <2> HIDE DEF S, T
  <2>2. LinksOf(order, T) = LinksOf(order, S) \cup Links(order, g)
    BY <2>1, LinksJoined
  <2>3. links' = LinksOf(order, T)
    BY <1>1, <1>3, <2>2 DEF Linked, S
  <2> QED
    BY <1>1, <2>3, OrderThen DEF Linked, T
<1> QED
  BY <1>7, <1>11, <1>12, <1>13, <1>14, <1>15, <1>16
LEMMA RepricedType ==
    ASSUME BillTypes, Claims, NEW g \in Groups, NEW p \in Nat, shipment[g].sent, ~ shipment[g].paid
    PROVE  /\ RepricedApplied(g, p) \in Nat /\ RepricedApplied(g, p) <= p
           /\ RepricedShipping(g, p) \in Nat /\ RepricedShipping(g, p) = p - RepricedApplied(g, p) + shipment[g].folded
<1>1. shipment[g].applied \in Nat /\ shipment[g].folded \in Nat /\ Consumed \in Nat /\ Pool \in Nat
  BY AllocatedType DEF ShipmentRow
<1>2. PrepaidShippingLimit(g) \in Nat
  <2>1. PrepaidShippingLimit(g) = Less(Pool, Consumed - shipment[g].applied)
    BY DEF PrepaidShippingLimit, Unbilled
  <2>2. \A b \in Int : Less(Pool, b) \in Nat
    BY <1>1 DEF Less
  <2>3. Consumed - shipment[g].applied \in Int
    BY <1>1
  <2> QED
    BY <2>1, <2>2, <2>3
<1>3. RepricedApplied(g, p) \in Nat /\ RepricedApplied(g, p) <= p
  BY <1>2 DEF RepricedApplied, Least
<1>4. Rest(g, p, RepricedApplied(g, p)) = p - RepricedApplied(g, p)
  BY <1>3 DEF Rest, Less
<1>5. RepricedShipping(g, p) = (p - RepricedApplied(g, p)) + shipment[g].folded
  BY <1>4 DEF RepricedShipping
<1> QED
  BY <1>1, <1>3, <1>5

LEMMA RepriceStep ==
    ASSUME BillInv, TitlesApart, NEW g \in Groups, NEW p \in 1 .. MaxPrice, RepriceOrderEditBalance(g, p)
    PROVE  BillInv'
<1> USE DEF BillInv
<1> DEFINE x == RepricedApplied(g, p)
           new == RepricedShipping(g, p)
           S == order.ship \ ShipOf(g)
           r == [id |-> edits + 2, title |-> Title[g], price |-> new, group |-> g]
           T == IF new > 0 THEN S \cup {r} ELSE S
           l == IF order' = order THEN shipment[g].line ELSE NewShippingLine(order.ship, order'.ship, g)
           e == IF order' = order THEN shipment[g].expected ELSE Owes(order)'
<1>1. /\ shipment[g].sent /\ ~ shipment[g].paid /\ Owed > 0 /\ edits' = edits + 1 /\ p \in Nat
      /\ paid' = paid /\ catalog' = catalog /\ links' = links
      /\ shipment \in [Groups -> ShipmentRow] /\ edits \in Nat
  BY DEF RepriceOrderEditBalance, BillTypes
<1>2. x \in Nat /\ x <= p /\ new \in Nat /\ new = p - x + shipment[g].folded
  BY <1>1, RepricedType
<1>3. order \in Order /\ order.ship \subseteq Rate /\ IsFiniteSet(order.ship) /\ order = [lines |-> order.lines, ship |-> order.ship]
      /\ order.lines \in Seq(Line)
  BY DEF BillTypes, Order
<1>4. order' = [lines |-> order.lines, ship |-> T]
  <2>1. CurrentShipping(g) = ShipOf(g)
    BY <1>1, CurrentIs
  <2> DEFINE removed == [order EXCEPT !.ship = @ \ CurrentShipping(g)]
  <2>2. removed = [lines |-> order.lines, ship |-> S]
    <3>1. removed = [order EXCEPT !.ship = order.ship \ ShipOf(g)]
      BY <2>1
    <3> HIDE DEF removed
    <3>2. \A L, H, W : [[lines |-> L, ship |-> H] EXCEPT !.ship = W] = [lines |-> L, ship |-> W]
      OBVIOUS
    <3> QED
      BY <1>3, <3>1, <3>2
  <2>3. order' = IF new > 0 THEN AddOrderEditShippingLine(removed, g, new) ELSE removed
    BY DEF RepriceOrderEditBalance
  <2> HIDE DEF removed, new, S
  <2>4. AddOrderEditShippingLine(removed, g, new) = [lines |-> order.lines, ship |-> S \cup {r}]
    BY <2>2 DEF AddOrderEditShippingLine
  <2> QED
    BY <2>2, <2>3, <2>4
<1>5. shipment' = [shipment EXCEPT ![g] = [@ EXCEPT !.price = p, !.applied = x, !.expected = e, !.line = l]]
  <2> DEFINE removed == [order EXCEPT !.ship = @ \ CurrentShipping(g)]
             staged == IF new > 0 THEN AddOrderEditShippingLine(removed, g, new) ELSE removed
  <2>1. order' = staged
    BY DEF RepriceOrderEditBalance
  <2>2. Owes(staged) = Owes(order)'
    BY <1>1, <2>1 DEF Owes, LineTotal, ShipTotal
  <2> DEFINE q == shipment[g]
             ee == IF staged = order THEN q.expected ELSE Owes(staged)
             ll == IF staged = order THEN q.line ELSE NewShippingLine(order.ship, staged.ship, g)
  <2>3. shipment' = [shipment EXCEPT ![g] = [q EXCEPT !.price = p, !.applied = x, !.expected = ee, !.line = ll]]
    BY DEF RepriceOrderEditBalance
  <2>4. ee = e
    <3> HIDE DEF staged
    <3> QED
      BY <2>1, <2>2
  <2>5. ll = l
    <3> HIDE DEF staged
    <3> QED
      BY <2>1
  <2> HIDE DEF staged, ee, ll, x, e, l
  <2> QED
    BY <2>3, <2>4, <2>5
<1>6. r.id = edits + 2 /\ r.title = Title[g] /\ r.group = g /\ r.price = new /\ g # 0 /\ r \in Rate
  <2>1. new \in Nat /\ edits + 2 \in Nat
    BY <1>1, <1>2
  <2> HIDE DEF new
  <2> QED
    BY <2>1 DEF Rate, Groups
<1>7. ShipOf(g) = {s \in order.ship : s.group = g} /\ S = {s \in order.ship : s.group # g}
  BY DEF ShipOf
<1> HIDE DEF x, new, S, r
<1>8. \A s \in order.ship : /\ s.id \in 1 .. edits + 1 /\ s.id # edits + 2 /\ s.id # 0 /\ s.id \in Nat
                            /\ \A t \in order.ship : s.id = t.id => s = t
                            /\ s.group \in Groups \cup {0}
                            /\ s.group = 0 => s.title = Nothing
                            /\ s.group # 0 => On(s.group) /\ s.title = Title[s.group]
  <2>1. \A s \in order.ship : s.id \in 1 .. edits + 1 /\ s.group \in Groups \cup {0}
    BY <1>3 DEF ShippingLines, Rate
  <2>2. \A s \in order.ship : s.id # edits + 2 /\ s.id # 0 /\ s.id \in Nat
    BY <1>1, <2>1
  <2> QED
    BY <2>1, <2>2 DEF ShippingLines
<1>9. r \notin order.ship /\ r \notin S
  BY <1>6, <1>7, <1>8
<1> HIDE DEF T
<1>10. (T = IF new > 0 THEN S \cup {r} ELSE S) /\ (new > 0 \/ new = 0) /\ (T = S <=> new = 0)
  BY <1>2, <1>9 DEF T
<1>11. \/ order' = order /\ new = 0 /\ ShipOf(g) = {} /\ l = shipment[g].line
       \/ order' # order /\ new = 0 /\ l = 0
       \/ order' # order /\ new > 0 /\ l = edits + 2
  <2>1. order'.ship = T
    BY <1>4
  <2>2. order' = order <=> T = order.ship
    BY <1>3, <1>4
  <2>3. NewShippingLine(order.ship, T, g) = IF T = S THEN 0 ELSE edits + 2
    <3>1. S \in SUBSET order.ship /\ (T = S \cup {r} \/ T = S)
      BY <1>7, <1>10
    <3> QED
      BY <1>6, <3>1, NewLineIs
  <2>4. CASE new > 0
    <3>1. r \in T /\ T # S
      BY <1>9, <1>10, <2>4
    <3> QED
      BY <1>9, <2>1, <2>2, <2>3, <2>4, <3>1
  <2>5. CASE new = 0
    <3>1. T = S
      BY <1>10, <2>5
    <3>2. S = order.ship => ShipOf(g) = {}
      BY <1>7
    <3> QED
      BY <2>1, <2>2, <2>3, <2>5, <3>1, <3>2
  <2> QED
    BY <1>10, <2>4, <2>5
<1>12. l \in Nat /\ l <= edits + 2
  <2>1. shipment[g].line \in Nat /\ shipment[g].line <= edits + 1
    BY <1>1 DEF ShipmentRow, StoredLines
  <2> HIDE DEF l
  <2> QED
    BY <1>1, <1>11, <2>1
<1>13. \A h \in Groups \ {g} : shipment[h].claimed => shipment[h].paid
  BY <1>1 DEF Claims
<1>14. NoneOpen /\ On(g) /\ Owed = Bill(g)
  <2>1. NoneOpen
    BY <1>1, <1>13 DEF Claims, NoneOpen
  <2>2. On(g) /\ shipment[g].claimed
    BY <1>1 DEF On, Claims
  <2> QED
    BY <1>1, <2>1, <2>2 DEF OneOwes, Claims
<1> DEFINE A == Amount(g)
<1>15. /\ Bill(g) = Total(Balances(g), Billable(g)) + (shipment[g].price - shipment[g].applied)
       /\ A = shipment[g].price - shipment[g].applied + shipment[g].folded /\ A \in Nat
       /\ Total(Balances(g), Billable(g)) \in Nat
       /\ shipment[g].price \in Nat /\ shipment[g].applied \in Nat /\ shipment[g].folded \in Nat
       /\ shipment[g].claimed
  <2>1. Allocated(g) = shipment[g].applied
    BY <1>1, SentBill
  <2>2. shipment[g].price \in Nat /\ shipment[g].applied \in Nat /\ shipment[g].folded \in Nat
        /\ shipment[g].applied <= shipment[g].price
    BY <1>1 DEF ShipmentRow, Claims
  <2>3. A = shipment[g].price - shipment[g].applied + shipment[g].folded
    BY <2>1 DEF Amount
  <2> HIDE DEF A
  <2> QED
    BY <1>1, <2>1, <2>2, <2>3, BillIs DEF Claims
<1>16. S \subseteq Rate /\ IsFiniteSet(S) /\ Rates(S) \in Nat /\ Rates(order.ship) = Rates(S) + A
  <2>1. S \subseteq Rate /\ IsFiniteSet(S)
    BY <1>3, <1>7, FS_Subset
  <2>2. Rates(S) \in Nat
    BY <2>1, RatesType
  <2>3. IF A = 0 THEN ShipOf(g) = {} ELSE \E s \in order.ship : ShipOf(g) = {s} /\ s.price = A
    BY <1>14 DEF ShippingLines
  <2> HIDE DEF A
  <2>4. CASE A = 0
    <3>1. S = order.ship
      BY <1>7, <2>3, <2>4
    <3> QED
      BY <2>1, <2>2, <2>4, <3>1
  <2>5. CASE A # 0
    <3>1. PICK s \in order.ship : ShipOf(g) = {s} /\ s.price = A
      BY <2>3, <2>5
    <3>2. order.ship = S \cup {s} /\ s \notin S /\ s \in Rate
      BY <1>3, <1>7, <3>1
    <3>3. Rates(S \cup {s}) = Rates(S) + s.price
      BY <2>1, <3>2, RateAdded
    <3> QED
      BY <2>1, <2>2, <3>1, <3>2, <3>3
  <2> QED
    BY <2>4, <2>5
<1>17. T \subseteq Rate /\ IsFiniteSet(T) /\ Rates(T) = Rates(S) + new
  <2>1. CASE new > 0
    BY <1>6, <1>9, <1>10, <1>16, <2>1, RateAdded, FS_AddElement
  <2>2. CASE new = 0
    <3>1. T = S
      BY <1>10, <2>2
    <3> QED
      BY <1>16, <2>2, <3>1
  <2> QED
    BY <1>10, <2>1, <2>2
<1>18. Owed' = Owed - A + new /\ Owed' \in Int /\ Owed \in Int /\ Owes(order)' = Owed'
  <2>1. Owed = Worth(order.lines) + Rates(order.ship) - paid /\ Worth(order.lines) \in Nat /\ Owed \in Int
    BY OwedNow
  <2>2. Owed' = Worth(order.lines) + Rates(T) - paid
    BY <1>1, <1>4, OwedThen
  <2>3. paid \in Int
    BY DEF BillTypes
  <2> HIDE DEF A
  <2>4. Owed' = Owed - A + new /\ Owed' \in Int
    BY <1>2, <1>15, <1>16, <1>17, <2>1, <2>2, <2>3
  <2>5. Owes(order)' = Owed'
    BY DEF Owed
  <2> QED
    BY <2>1, <2>4, <2>5
<1>19. /\ shipment' \in [Groups -> ShipmentRow] /\ \A h \in Groups \ {g} : shipment'[h] = shipment[h]
       /\ shipment'[g].claimed /\ shipment'[g].sent /\ ~ shipment'[g].paid /\ shipment'[g].price = p
       /\ shipment'[g].applied = x /\ shipment'[g].folded = shipment[g].folded /\ shipment'[g].line = l
  <2>1. e \in Int
    BY <1>1, <1>18 DEF ShipmentRow
  <2> DEFINE q == shipment[g]
             c == [q EXCEPT !.price = p, !.applied = x, !.expected = e, !.line = l]
  <2>2. q \in ShipmentRow /\ shipment' = [shipment EXCEPT ![g] = c]
    BY <1>1, <1>5
  <2> HIDE DEF q, e, l
  <2>3. c \in ShipmentRow /\ c.claimed = q.claimed /\ c.sent = q.sent /\ c.paid = q.paid /\ c.price = p /\ c.applied = x
        /\ c.folded = q.folded /\ c.line = l
    BY <1>1, <1>2, <1>12, <2>1, <2>2 DEF ShipmentRow
  <2> HIDE DEF c
  <2>4. shipment'[g] = c /\ shipment' \in [Groups -> ShipmentRow] /\ \A h \in Groups \ {g} : shipment'[h] = shipment[h]
    BY <1>1, <2>2, <2>3
  <2> QED
    BY <1>1, <1>15, <2>3, <2>4 DEF q
<1> HIDE DEF l, e
<1>20. Claims' /\ NoneOpen'
  <2>1. NoneOpen'
    BY <1>14, <1>15, <1>19 DEF NoneOpen
  <2>2. Claims'
    BY <1>2, <1>13, <1>19 DEF Claims
  <2> QED
    BY <2>1, <2>2
<1>21. \A h \in Groups : (On(h)' <=> On(h)) /\ (On(h) <=> shipment[h].sent)
  <2>1. \A h \in Groups : On(h) <=> shipment[h].sent
    BY <1>14, SettledOn
  <2>2. \A h \in Groups : On(h)' <=> shipment'[h].sent
    BY <1>20 DEF On, NoneOpen, Claims
  <2> QED
    BY <1>1, <1>19, <2>1, <2>2
<1>22. \A h \in Groups \ {g} : On(h) => Bill(h)' = Bill(h) /\ Amount(h)' = Amount(h)
  BY <1>19, <1>21, SentBill
<1>23. Bill(g)' = Total(Balances(g), Billable(g)) + (p - x) /\ Amount(g)' = new /\ Bill(g)' \in Nat
       /\ Bill(g)' = Bill(g) - A + new
  <2>1. Allocated(g)' = x
    BY <1>19, SentBill
  <2>2. Bill(g) = Total([i \in Items |-> AppBalance(g, i)], Items) + shipment[g].price - shipment[g].applied
    BY <1>1, SentBill DEF Bill
  <2>3. Bill(g)' = Total([i \in Items |-> AppBalance(g, i)], Items) + p - x
    BY <1>19, <2>1 DEF Bill, AppBalance
  <2>4. Amount(g)' = new
    BY <1>2, <1>19, <2>1 DEF Amount
  <2> DEFINE t == Total([i \in Items |-> AppBalance(g, i)], Items)
             b == Total(Balances(g), Billable(g))
  <2>5. t \in Nat
    <3>1. t = Total(Balances(g), Items)
      BY DEF Balances
    <3> QED
      BY <3>1, BalancesType
  <2>6. Bill(g) = t + shipment[g].price - shipment[g].applied /\ Bill(g)' = t + p - x
    BY <2>2, <2>3
  <2> HIDE DEF t, b, A
  <2>7. t = b
    BY <1>15, <2>5, <2>6 DEF b
  <2> QED
    BY <1>2, <1>15, <2>4, <2>5, <2>6, <2>7 DEF b
<1>24. BillTypes'
  <2>1. order' \in Order /\ IsFiniteSet(order'.ship)
    BY <1>3, <1>4, <1>17 DEF Order
  <2> QED
    BY <1>1, <1>19, <2>1 DEF BillTypes
<1>25. Size' = Size /\ DraftLines' = DraftLines /\ \A h : Billable(h)' = Billable(h)
  BY DEF Size, DraftLines, DepositDraftLine, HalfDraftLine, GoodsDraftLine, InAll, Pool, SplitHalf, Billable
<1>26. order'.lines = order.lines /\ order'.ship = T
  BY <1>4
<1>27. CheckoutLines'
  BY <1>25, <1>26 DEF CheckoutLines
<1>28. AddedLines'
  <2>1. ASSUME NEW n \in Size + 1 .. Len(order.lines)
        PROVE  \E h \in Groups : \E i \in Billable(h) :
            /\ On(h)' /\ order.lines[n] = AddedLine(h, i)
            /\ \A m \in Size + 1 .. n - 1 : order.lines[m].group = h => order.lines[m].item < i
    BY <1>21 DEF AddedLines
  <2>2. ASSUME NEW h \in Groups, On(h)', NEW i \in Billable(h)
        PROVE  \E n \in Size + 1 .. Len(order.lines) : order.lines[n] = AddedLine(h, i)
    BY <1>21, <2>2 DEF AddedLines
  <2> QED
    BY <1>25, <1>26, <2>1, <2>2 DEF AddedLines
<1>29. \A h \in Groups : ShipOf(h)' = IF h # g THEN ShipOf(h) ELSE IF new > 0 THEN {r} ELSE {}
  <2> SUFFICES ASSUME NEW h \in Groups PROVE ShipOf(h)' = IF h # g THEN ShipOf(h) ELSE IF new > 0 THEN {r} ELSE {}
    OBVIOUS
  <2>1. ShipOf(h)' = {s \in T : s.group = h} /\ ShipOf(h) = {s \in order.ship : s.group = h}
    BY <1>26 DEF ShipOf
  <2>2. CASE h # g
    BY <1>6, <1>7, <1>10, <2>1, <2>2
  <2>3. CASE h = g
    BY <1>6, <1>7, <1>10, <2>1, <2>3
  <2> QED
    BY <2>2, <2>3
<1>30. ShippingLines'
  <2>1. ASSUME NEW s \in T
        PROVE  /\ s.id \in 1 .. edits + 2
               /\ \A t \in T : s.id = t.id => s = t
               /\ s.group = 0 => s.title = Nothing
               /\ s.group # 0 => On(s.group)' /\ s.title = Title[s.group]
    <3>1. \A t \in T : t \in order.ship \/ t = r
      BY <1>7, <1>10
    <3>2. \A t \in order.ship : t.id \in 1 .. edits + 2 /\ t.id # r.id
      <4>1. \A t \in order.ship : t.id \in 1 .. edits + 1 /\ t.id # edits + 2
        BY <1>8
      <4> QED
        BY <1>1, <1>6, <4>1
    <3>3. r.id \in 1 .. edits + 2
      BY <1>1, <1>6
    <3>4. \A t \in T : s.id = t.id => s = t
      BY <1>8, <3>1, <3>2
    <3>5. s.group = 0 => s.title = Nothing
      BY <1>6, <1>8, <3>1
    <3>6. s.group # 0 => On(s.group)' /\ s.title = Title[s.group]
      BY <1>6, <1>8, <1>14, <1>21, <3>1
    <3> QED
      BY <3>1, <3>2, <3>3, <3>4, <3>5, <3>6
  <2>2. ASSUME NEW h \in Groups, On(h)'
        PROVE  IF Amount(h)' = 0 THEN ShipOf(h)' = {}
               ELSE \E s \in T : ShipOf(h)' = {s} /\ s.price = Amount(h)'
    <3>1. CASE h = g
      <4>1. CASE new > 0
        <5>1. r \in T /\ ShipOf(h)' = {r} /\ Amount(h)' = new /\ new # 0
          BY <1>2, <1>10, <1>23, <1>29, <3>1, <4>1
        <5> QED
          BY <1>6, <5>1
      <4>2. CASE new = 0
        BY <1>23, <1>29, <3>1, <4>2
      <4> QED
        BY <1>10, <4>1, <4>2
    <3>2. CASE h # g
      <4>1. On(h) /\ Amount(h)' = Amount(h) /\ ShipOf(h)' = ShipOf(h)
        BY <1>21, <1>22, <1>29, <2>2, <3>2
      <4>2. IF Amount(h) = 0 THEN ShipOf(h) = {} ELSE \E s \in order.ship : ShipOf(h) = {s} /\ s.price = Amount(h)
        BY <4>1 DEF ShippingLines
      <4>3. \A s \in ShipOf(h) : s \in T
        BY <1>7, <1>10, <3>2 DEF ShipOf
      <4> QED
        BY <4>1, <4>2, <4>3
    <3> QED
      BY <3>1, <3>2
  <2>3. edits' + 1 = edits + 2
    BY <1>1
  <2> QED
    BY <1>26, <2>1, <2>2, <2>3 DEF ShippingLines
<1>31. StoredLines'
  <2>1. {s \in T : s.id = l} = ShipOf(g)'
    <3>1. CASE new > 0
      <4>1. l = edits + 2 /\ ShipOf(g)' = {r} /\ T = S \cup {r}
        BY <1>2, <1>10, <1>11, <1>29, <3>1
      <4>2. \A s \in S : s.id # edits + 2
        BY <1>7, <1>8
      <4> QED
        BY <1>6, <4>1, <4>2
    <3>2. CASE new = 0
      <4>1. ShipOf(g)' = {} /\ T = S
        BY <1>10, <1>29, <3>2
      <4>2. CASE l = 0
        <5>1. \A s \in S : s.id # 0
          BY <1>7, <1>8
        <5> QED
          BY <4>1, <4>2, <5>1
      <4>3. CASE l = shipment[g].line /\ ShipOf(g) = {}
        <5>1. {s \in order.ship : s.id = l} = {}
          BY <1>1, <4>3 DEF StoredLines
        <5> QED
          BY <1>7, <4>1, <5>1
      <4> QED
        BY <1>2, <1>11, <3>2, <4>2, <4>3
    <3> QED
      BY <1>10, <3>1, <3>2
  <2>2. ASSUME NEW h \in Groups \ {g}, shipment[h].sent PROVE {s \in T : s.id = shipment[h].line} = ShipOf(h)'
    <3>1. {s \in order.ship : s.id = shipment[h].line} = ShipOf(h) /\ ShipOf(h)' = ShipOf(h)
      BY <1>29, <2>2 DEF StoredLines
    <3>2. r.id # shipment[h].line
      <4>1. shipment[h].line \in Nat /\ shipment[h].line <= edits + 1
        BY <1>1 DEF ShipmentRow, StoredLines
      <4> QED
        BY <1>1, <1>6, <4>1
    <3>3. ShipOf(h) \subseteq S
      BY <1>7 DEF ShipOf
    <3> QED
      BY <1>7, <1>10, <3>1, <3>2, <3>3
  <2>3. \A h \in Groups : shipment'[h].line <= edits' + 1
    <3>1. \A h \in Groups : shipment[h].line \in Nat /\ shipment[h].line <= edits + 1
      BY <1>1 DEF ShipmentRow, StoredLines
    <3> QED
      BY <1>1, <1>12, <1>19, <3>1
  <2> QED
    BY <1>19, <1>26, <2>1, <2>2, <2>3 DEF StoredLines
<1>32. Money'
  <2>1. LineTotal(order)' = Worth(order.lines) /\ ShipTotal(order)' = Rates(T) /\ LineTotal(order) = Worth(order.lines)
        /\ ShipTotal(order) = Rates(order.ship)
    BY <1>26, TotalsAre
  <2>2. Total(Bills', Groups) = Total(Bills, Groups) - Bill(g) + Bill(g)' /\ Total(Bills, Groups) \in Nat
    <3> DEFINE b == Bills
               c == Bills'
    <3>1. \A h \in Groups : b[h] \in Nat /\ b[h] = IF On(h) THEN Bill(h) ELSE 0
      BY BillsType
    <3>2. c = [h \in Groups |-> IF On(h)' THEN Bill(h)' ELSE 0]
      BY DEF Bills
    <3>3. \A h \in Groups \ {g} : b[h] = c[h]
      BY <1>21, <1>22, <3>1, <3>2
    <3>4. c[g] = Bill(g)' /\ b[g] = Bill(g)
      BY <1>14, <1>21, <3>1, <3>2
    <3>5. \A h \in Groups : b[h] \in Nat /\ c[h] \in Nat
      BY <1>23, <3>1, <3>3, <3>4
    <3> HIDE DEF b, c
    <3>6. Total(c, Groups) = Total(b, Groups) - b[g] + c[g]
      BY <3>3, <3>5, TotalOfGroups
    <3>7. Total(b, Groups) \in Nat
      BY <3>1, FiniteBill, TotalType
    <3> QED
      BY <3>4, <3>6, <3>7 DEF b, c
  <2>3. AtCheckout' = AtCheckout
    BY DEF AtCheckout, LineTotal, ShipTotal, DraftLines, DraftShipping, DepositDraftLine, HalfDraftLine, GoodsDraftLine, InAll, Pool, SplitHalf
  <2>4. AtCheckout \in Nat
    <3>1. AtCheckout = Worth(DraftLines) + Rates(DraftShipping)
      BY TotalsAre DEF AtCheckout
    <3> QED
      BY <3>1, DraftIs, WorthType, RatesType
  <2>5. Worth(order.lines) + Rates(order.ship) = AtCheckout + Total(Bills, Groups) /\ Worth(order.lines) \in Nat
    BY <2>1, OwedNow DEF Money
  <2>6. Bill(g) \in Nat
    BY BillIs
  <2> HIDE DEF A
  <2>7. Worth(order.lines) + Rates(T) = AtCheckout + Total(Bills', Groups)
    <3>1. Rates(T) = Rates(S) + new /\ Rates(S) \in Nat /\ Rates(order.ship) = Rates(S) + A /\ new \in Nat /\ A \in Nat
      BY <1>2, <1>15, <1>16, <1>17
    <3>2. Bill(g)' = Bill(g) - A + new /\ Bill(g)' \in Nat
      BY <1>23
    <3> DEFINE w == Worth(order.lines)
               k == Rates(order.ship)
               u == Rates(S)
               kt == Rates(T)
               m == Total(Bills, Groups)
               m2 == Total(Bills', Groups)
               b == Bill(g)
               b2 == Bill(g)'
               c == AtCheckout
    <3>3. /\ w \in Nat /\ u \in Nat /\ m \in Nat /\ b \in Nat /\ b2 \in Nat /\ c \in Nat
          /\ new \in Nat /\ A \in Nat
      BY <2>2, <2>4, <2>5, <2>6, <3>1, <3>2
    <3>4. k = u + A /\ kt = u + new /\ b2 = b - A + new /\ w + k = c + m /\ m2 = m - b + b2
      BY <2>2, <2>5, <3>1, <3>2
    <3>5. w + kt = c + m2
      <4> HIDE DEF w, k, u, kt, m, m2, b, b2, c
      <4> QED
        BY <3>3, <3>4
    <3> QED
      BY <3>5
  <2> QED
    BY <2>1, <2>3, <2>7 DEF Money
<1>33. OneOwes'
  <2>1. Owed' = Bill(g)'
    BY <1>14, <1>18, <1>23
  <2> QED
    BY <1>19, <1>23, <2>1 DEF OneOwes
<1>34. Landed'
  BY <1>20 DEF Landed, NoneOpen
<1>35. Linked'
  <2>1. Sent' = Sent
    BY <1>1, <1>19 DEF Sent
  <2>2. \A U : LinksOf(order, U)' = LinksOf(order, U)
    BY <1>26 DEF LinksOf, Links, LinesOf, LinkOf, Size, DraftLines, DepositDraftLine, HalfDraftLine, GoodsDraftLine, InAll, Pool, SplitHalf
  <2> QED
    BY <1>1, <2>1, <2>2 DEF Linked
<1> QED
  BY <1>20, <1>24, <1>27, <1>28, <1>30, <1>31, <1>32, <1>33, <1>34, <1>35
----------------------------------------------------------------------------
(* At checkout nothing is owed and no group is billed.                      *)
LEMMA InitIs ==
    ASSUME BillInit
    PROVE  BillInv
<1>1. /\ order = [lines |-> DraftLines, ship |-> DraftShipping] /\ links = {} /\ edits = 0
      /\ paid = LineTotal([lines |-> DraftLines]) + ShipTotal([ship |-> DraftShipping])
      /\ catalog \in [{Variant[i] : i \in Items} -> CatalogPrices]
      /\ shipment = [g \in Groups |-> NoRow]
  BY DEF BillInit
<1>2. order.lines = DraftLines /\ order.ship = DraftShipping /\ order \in Order
  BY <1>1, DraftIs DEF Order
<1>3. Worth(DraftLines) \in Nat /\ Rates(DraftShipping) \in Nat /\ Len(order.lines) = Size
  BY <1>2, DraftIs, WorthType, RatesType DEF Size
<1>4. AtCheckout = Worth(DraftLines) + Rates(DraftShipping) /\ paid = AtCheckout
      /\ LineTotal(order) + ShipTotal(order) = AtCheckout
  BY <1>1, <1>2, TotalsAre DEF AtCheckout
<1>5. BillTypes
  <2>1. NoRow \in ShipmentRow
    BY DEF NoRow, ShipmentRow
  <2>2. shipment \in [Groups -> ShipmentRow]
    BY <1>1, <2>1
  <2>3. CatalogPrices \subseteq Nat
    BY MoneyAssumption
  <2>4. catalog \in [{Variant[i] : i \in Items} -> Nat]
    BY <1>1, <2>3
  <2>5. paid \in Int /\ edits \in Nat
    BY <1>1, <1>3, <1>4
  <2> QED
    BY <1>2, <2>2, <2>4, <2>5, DraftIs DEF BillTypes
<1>6. Owed = 0
  <2>1. Owed = Worth(order.lines) + Rates(order.ship) - paid
    BY <1>5, OwedNow
  <2> QED
    BY <1>2, <1>3, <1>4, <2>1
<1>7. \A g \in Groups : /\ ~ shipment[g].claimed /\ ~ shipment[g].sent /\ ~ shipment[g].paid
                        /\ shipment[g].applied = 0 /\ shipment[g].price = 0 /\ shipment[g].line = 0
  BY <1>1 DEF NoRow
<1>8. \A g \in Groups : ~ On(g)
  BY <1>7 DEF On
<1>9. Size \in Nat /\ Size + 1 .. Size = {}
  BY DraftIs
<1>10. CheckoutLines
  <2>1. ASSUME NEW n \in 1 .. Size
        PROVE  /\ order.lines[n] = WithQty(DraftLines[n], order.lines[n].qty)
               /\ order.lines[n].kind = "half" => order.lines[n].qty \in {0, 1}
    <3>1. DraftLines[n] \in Line /\ DraftLines[n].qty \in Nat
      BY DraftIs, WorthType
    <3>2. WithQty(DraftLines[n], DraftLines[n].qty) = DraftLines[n]
      BY <3>1, QtyIs
    <3>3. DraftLines[n].kind = "half" => DraftLines[n].qty = 1
      BY DraftIs
    <3> QED
      BY <1>2, <3>2, <3>3
  <2> QED
    BY <1>3, <1>9, <2>1 DEF CheckoutLines
<1>11. AddedLines
  BY <1>3, <1>8, <1>9 DEF AddedLines
<1>12. ShippingLines
  <2>1. \A s \in order.ship : s.id = 1 /\ s.group = 0 /\ s.title = Nothing /\ \A t \in order.ship : s = t
    BY <1>2, DraftIs
  <2>2. 1 \in 1 .. edits + 1
    BY <1>1
  <2> QED
    BY <1>8, <2>1, <2>2 DEF ShippingLines
<1>13. StoredLines
  BY <1>1, <1>7 DEF StoredLines
<1>14. Claims
  BY <1>1, <1>7 DEF Claims
<1>15. Money
  <2>1. \A g \in Groups : Bills[g] = 0
    BY <1>8 DEF Bills
  <2>2. Total(Bills, Groups) = 0
    BY <2>1, TotalZero
  <2>3. AtCheckout \in Nat
    BY <1>3, <1>4
  <2> QED
    BY <1>4, <2>2, <2>3 DEF Money
<1>16. OneOwes /\ Landed
  BY <1>6, <1>7 DEF OneOwes, Landed
<1>17. Linked
  BY <1>1, <1>7 DEF Linked, LinksOf, Sent
<1> QED
  BY <1>5, <1>10, <1>11, <1>12, <1>13, <1>14, <1>15, <1>16, <1>17 DEF BillInv

LEMMA StutterStep ==
    ASSUME BillInv, UNCHANGED billVars
    PROVE  BillInv'
<1> USE DEF BillInv
<1>1. order' = order /\ paid' = paid /\ catalog' = catalog /\ shipment' = shipment /\ links' = links /\ edits' = edits
  BY DEF billVars
<1>2. Owed' = Owed
  BY <1>1, OrderThen
<1>3. \A h \in Groups : On(h)' <=> On(h)
  BY <1>1, <1>2 DEF On
<1>4. \A h \in Groups : Allocated(h)' = Allocated(h) /\ Bill(h)' = Bill(h) /\ Amount(h)' = Amount(h)
  <2>1. \A h \in Groups : Allocated(h)' = Allocated(h) /\ Bill(h)' = Bill(h)
    BY <1>1, AllocatedSame
  <2> QED
    BY <1>1, <2>1 DEF Amount
<1>5. CheckoutLines' /\ AddedLines' /\ ShippingLines' /\ Money'
  <2>1. edits' \in Nat /\ edits' >= edits
    BY <1>1 DEF BillTypes
  <2> QED
    BY <1>1, <1>3, <1>4, <2>1, OrderKept
<1>6. BillTypes' /\ Claims'
  BY <1>1 DEF BillTypes, Claims
<1>7. StoredLines' /\ Landed'
  BY <1>1, <1>2, OrderThen DEF StoredLines, Landed
<1>8. OneOwes'
  BY <1>1, <1>2, <1>4 DEF OneOwes
<1>9. Linked'
  <2>1. Sent' = Sent
    BY <1>1 DEF Sent
  <2> QED
    BY <1>1, <2>1, OrderThen DEF Linked
<1> QED
  BY <1>5, <1>6, <1>7, <1>8, <1>9

LEMMA BillStep ==
    ASSUME BillInv, TitlesApart, [BillNext /\ Orderly]_billVars
    PROVE  BillInv'
<1>1. CASE BillNext /\ Orderly
  <2>1. ASSUME NEW g \in Groups, NEW p \in 1 .. MaxPrice, UpdateShipping(g, p) PROVE BillInv'
    BY <1>1, <2>1, UpdateStep
  <2>2. ASSUME NEW g \in Groups, NEW p \in 1 .. MaxPrice, RepriceOrderEditBalance(g, p) PROVE BillInv'
    BY <2>2, RepriceStep
  <2>3. ASSUME NEW g \in Groups, RequestByOrderEdit(g) PROVE BillInv'
    BY <2>3, RequestStep
  <2>4. ASSUME NEW g \in Groups, AdoptOrderEditBalance(g) PROVE BillInv'
    BY <2>4, AdoptStep
  <2>5. ASSUME NEW g \in Groups, ReleaseOrderEditBalanceClaim(g) PROVE BillInv'
    BY <2>5, ReleaseStep
  <2>6. ASSUME NEW g \in Groups, NEW landed \in BOOLEAN, InterruptedEdit(g, landed) PROVE BillInv'
    BY <1>1, <2>6, InterruptedStep
  <2>7. CASE Pay
    BY <2>7, PayStep
  <2>8. CASE ReconcileOrderEditBalance
    BY <2>8, ReconcileStep
  <2> QED
    BY <1>1, <2>1, <2>2, <2>3, <2>4, <2>5, <2>6, <2>7, <2>8 DEF BillNext
<1>2. CASE UNCHANGED billVars
  BY <1>2, StutterStep
<1> QED
  BY <1>1, <1>2

(* With no edit interrupted the groups on the order are those sent.         *)
LEMMA BillInvRows == BillInv => BillMatchesRows
<1> SUFFICES ASSUME BillInv, \A g \in Groups : shipment[g].claimed => shipment[g].sent
             PROVE  LineTotal(order) + ShipTotal(order) = AtCheckout + Total([g \in Billed |-> GroupBill(g)], Billed)
  BY DEF BillMatchesRows
<1> DEFINE f == [g \in Billed |-> GroupBill(g)]
<1>1. BillTypes /\ Claims /\ Money
  BY DEF BillInv
<1>2. \A g \in Groups : On(g) <=> shipment[g].sent
  BY <1>1, SettledOn DEF NoneOpen
<1>3. \A g \in Groups : Bills[g] \in Nat /\ Bills[g] = IF On(g) THEN Bill(g) ELSE 0
  BY <1>1, BillsType
<1>4. Billed \subseteq Groups /\ IsFiniteSet(Groups)
  BY FiniteBill DEF Billed
<1>5. \A g \in Billed : f[g] = Bills[g]
  <2> SUFFICES ASSUME NEW g \in Billed PROVE f[g] = Bills[g]
    OBVIOUS
  <2>1. g \in Groups /\ shipment[g].sent
    BY DEF Billed
  <2>2. Bill(g) = GroupBill(g)
    BY <2>1, SentBill DEF Bill, GroupBill
  <2> QED
    BY <1>2, <1>3, <2>1, <2>2
<1>6. \A g \in Groups \ Billed : Bills[g] = 0
  BY <1>2, <1>3 DEF Billed
<1> HIDE DEF f
<1>7. Total(Bills, Billed) = Total(Bills, Groups)
  BY <1>3, <1>4, <1>6, TotalPart
<1>8. Total(f, Billed) = Total(Bills, Billed)
  BY <1>5, TotalCongruence
<1> QED
  BY <1>1, <1>7, <1>8 DEF Money, f

(* The lines added for a group sent are its links.                          *)
LEMMA BillInvLines == BillInv => OwnLines
<1> SUFFICES ASSUME BillInv PROVE OwnLines
  OBVIOUS
<1>1. Linked /\ AddedLines /\ StoredLines /\ BillTypes
  BY DEF BillInv
<1>2. ASSUME NEW k \in links
      PROVE  \E g \in Sent : \E n \in LinesOf(order, g) : k = LinkOf(order, g, n)
  BY <1>1 DEF Linked, LinksOf, Links
<1>3. ASSUME NEW k \in links
      PROVE  order.lines[k.line].group = k.group /\ order.lines[k.line].item = k.item /\ order.lines[k.line].qty = k.qty
  <2>1. PICK g \in Sent : \E n \in LinesOf(order, g) : k = LinkOf(order, g, n)
    BY <1>2
  <2>2. PICK n \in LinesOf(order, g) : k = LinkOf(order, g, n)
    BY <2>1
  <2> QED
    BY <2>2 DEF LinesOf, LinkOf
<1>4. ASSUME NEW g \in Billed
      PROVE  {i \in Items : \E k \in links : k.group = g /\ k.item = i} = Billable(g)
  <2>1. g \in Groups /\ g \in Sent /\ On(g)
    BY DEF Billed, Sent, On
  <2>2. ASSUME NEW k \in links, k.group = g PROVE k.item \in Billable(g)
    <3>1. PICK h \in Sent : \E n \in LinesOf(order, h) : k = LinkOf(order, h, n)
      BY <1>2
    <3>2. PICK n \in LinesOf(order, h) : k = LinkOf(order, h, n)
      BY <3>1
    <3>3. h = g /\ n \in Size + 1 .. Len(order.lines) /\ order.lines[n].group = g /\ k.item = order.lines[n].item
      BY <2>2, <3>2 DEF LinesOf, LinkOf
    <3>4. PICK a \in Groups : \E i \in Billable(a) : order.lines[n] = AddedLine(a, i)
      BY <1>1, <3>3 DEF AddedLines
    <3>5. PICK i \in Billable(a) : order.lines[n] = AddedLine(a, i)
      BY <3>4
    <3> QED
      BY <3>3, <3>5 DEF AddedLine
  <2>3. ASSUME NEW i \in Billable(g) PROVE i \in Items /\ \E k \in links : k.group = g /\ k.item = i
    <3>1. PICK n \in Size + 1 .. Len(order.lines) : order.lines[n] = AddedLine(g, i)
      BY <1>1, <2>1 DEF AddedLines
    <3>2. order.lines[n].group = g /\ order.lines[n].item = i
      BY <3>1 DEF AddedLine
    <3>3. n \in LinesOf(order, g)
      BY <3>2 DEF LinesOf
    <3>4. LinkOf(order, g, n) \in links
      BY <1>1, <2>1, <3>3 DEF Linked, LinksOf, Links
    <3>5. LinkOf(order, g, n).group = g /\ LinkOf(order, g, n).item = i
      BY <3>2 DEF LinkOf
    <3>6. i \in Items
      BY DEF Billable
    <3> QED
      BY <3>4, <3>5, <3>6
  <2> QED
    BY <2>2, <2>3
<1>5. ASSUME NEW g \in Billed
      PROVE  {s \in order.ship : s.group = g} = {s \in order.ship : s.id = shipment[g].line}
  BY <1>1 DEF Billed, StoredLines, ShipOf
<1> QED
  BY <1>3, <1>4, <1>5 DEF OwnLines

(* The invariant of the orderly runs.                                       *)
LEMMA BillCorrect == ASSUME TitlesApart PROVE OrderlySpec => []BillInv
<1>1. BillInit => BillInv
  BY InitIs
<1>2. BillInv /\ [BillNext /\ Orderly]_billVars => BillInv'
  BY BillStep
<1> QED
  BY <1>1, <1>2, PTL DEF OrderlySpec

(* Whatever was billed, interrupted, adopted or re-priced before, an edit   *)
(* that the app can plan is charged by Shopify as it was planned.           *)
THEOREM PlansCorrect == ASSUME TitlesApart PROVE OrderlySpec => []PlanIsApplied
<1>1. BillInv => PlanIsApplied
  BY BillInvPlans
<1> QED
  BY <1>1, BillCorrect, PTL

(* While no edit is interrupted the order amounts to what the rows of the   *)
(* app say was billed: nothing twice, nothing forgotten.                    *)
THEOREM RowsCorrect == ASSUME TitlesApart PROVE OrderlySpec => []BillMatchesRows
  BY BillInvRows, BillCorrect, PTL

(* Every unit billed is linked to the line added for it and the shipping    *)
(* line stored for a group is its own.                                      *)
THEOREM LinesCorrect == ASSUME TitlesApart PROVE OrderlySpec => []OwnLines
  BY BillInvLines, BillCorrect, PTL

=============================================================================
