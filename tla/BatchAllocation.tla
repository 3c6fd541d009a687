-------------------------- MODULE BatchAllocation --------------------------
(***************************************************************************)
(* The pre-order batches of one product variant: internal/preorderbatch.   *)
(* Admins create, resize, close, cancel and reorder batches while paid     *)
(* orders allocate from them, cancelled orders release, and shoppers in    *)
(* checkout hold soft locks on them.  A request runs in a worker.  What it *)
(* does between two of its database statements is one step here; a         *)
(* transaction that waits for row locks is two steps, because Postgres     *)
(* (READ COMMITTED) fixes the set and the order of the rows when the       *)
(* statement starts and rereads each row once it holds its lock.           *)
(***************************************************************************)
EXTENDS Totals

CONSTANTS
    MaxBatches,   \* bound: batches ever created for the variant
    MaxQuota,     \* bound: the largest quota an admin types
    Lines,        \* order lines (each has a checkout of its own)
    LineQty,      \* LineQty[l]: units line l orders
    Workers,      \* requests in flight at once
    None          \* no batch, no line

Batches == 1 .. MaxBatches      \* in order of created_at

ASSUME BoundsAssumption == MaxBatches \in Nat \ {0} /\ MaxQuota \in Nat \ {0}
ASSUME LinesAssumption  == IsFiniteSet(Lines) /\ LineQty \in [Lines -> (Nat \ {0})]
ASSUME NoneAssumption   == None \notin Batches /\ None \notin Lines

VARIABLES
    row,     \* row[b]: the row of preorder_batches
    alloc,   \* alloc[l][b]: committed quantity in preorder_batch_allocations
    held,    \* held[l][b]: live quantity in preorder_batch_locks
    label,   \* the batch whose name is the variant's label
    req      \* req[w]: the request worker w is serving

vars == <<row, alloc, held, label, req>>

Open     == {"active", "queued"}
Statuses == Open \cup {"absent", "closed", "cancelled"}
Zero     == [b \in Batches |-> 0]

OpenBatches  == {b \in Batches : row[b].status \in Open}
Active(b)    == row[b].status = "active"
Queued(b)    == row[b].status = "queued"

(* Mutant: what was sold is forgotten.                                      *)
RemainingOfAll(b) == row[b].quota

Remaining(b) == IF row[b].quota > row[b].sold THEN row[b].quota - row[b].sold ELSE 0
----------------------------------------------------------------------------
(* Requests.  rank is the sequence each row had when the statement took its *)
(* snapshot, 0 for a row outside it; seen, locked and take are values that  *)
(* the request read or computed earlier and still uses.                     *)
Steps == {"idle", "insert", "write", "readLocks", "snapshot", "execute", "reserve",
          "cancelOpen", "relabel", "label"}

Request == [step: Steps, line: Lines \cup {None}, commit: BOOLEAN,
            batch: Batches \cup {None}, quota: Nat, rank: [Batches -> Nat],
            seen: [Batches -> Nat], locked: [Batches -> Nat], take: [Batches -> Nat]]

Idle == [step |-> "idle", line |-> None, commit |-> FALSE, batch |-> None, quota |-> 0,
         rank |-> Zero, seen |-> Zero, locked |-> Zero, take |-> Zero]

Become(w, r) == req' = [req EXCEPT ![w] = r]
Finish(w)    == Become(w, Idle)
At(w, s)     == req[w].step = s

(* What a request does after its transaction: write the label of batch b,   *)
(* or read the batches again to find it.                                    *)
ThenLabel(w, b) == Become(w, [Idle EXCEPT !.step = "label", !.batch = b])
ThenRelabel(w)  == Become(w, [Idle EXCEPT !.step = "relabel"])

Snapshot == [b \in Batches |-> IF b \in OpenBatches THEN row[b].seq ELSE 0]

(* The rows of the snapshot that still match the WHERE once locked.         *)
Slice(w) == {b \in OpenBatches : req[w].rank[b] > 0}

ActiveIn(rows)    == {b \in Batches : rows[b].status = "active"}
ActiveBatch(rows) == IF ActiveIn(rows) = {} THEN None ELSE CHOOSE b \in ActiveIn(rows) : TRUE
----------------------------------------------------------------------------
(* Admin: CreateBatch.  The new row is active when the locked rows say that *)
(* nothing is open; the partial unique index then refuses a second active.  *)
StartCreate(w, q) ==
    /\ At(w, "idle")
    /\ Become(w, [Idle EXCEPT !.step = "insert", !.quota = q, !.rank = Snapshot])
    /\ UNCHANGED <<row, alloc, held, label>>

NewRow(w, st, n) == [status |-> st, quota |-> req[w].quota, sold |-> 0, seq |-> n]

CreateBatch(w) ==
    /\ At(w, "insert")
    /\ \E b \in Batches :
          /\ row[b].status = "absent" /\ \A a \in 1 .. b - 1 : row[a].status # "absent"
          /\ \/ /\ Slice(w) = {} /\ ActiveIn(row) = {}
                /\ row' = [row EXCEPT ![b] = NewRow(w, "active", 1)]
                /\ ThenLabel(w, b)
             \/ \E last \in Slice(w) :
                /\ \A a \in Slice(w) : req[w].rank[a] <= req[w].rank[last]
                /\ row' = [row EXCEPT ![b] = NewRow(w, "queued", row[last].seq + 1)]
                /\ Finish(w)
    /\ UNCHANGED <<alloc, held, label>>

(* Admin: UpdateBatch.  The service compares with the qty_sold it read; the *)
(* store writes whatever quota it is given while the batch is open.         *)
StartUpdate(w, b, q) ==
    /\ At(w, "idle")
    /\ row[b].status # "absent" /\ q >= row[b].sold
    /\ Become(w, [Idle EXCEPT !.step = "write", !.batch = b, !.quota = q])
    /\ UNCHANGED <<row, alloc, held, label>>

UpdateBatch(w) ==
    /\ At(w, "write")
    /\ req[w].batch \in OpenBatches
    /\ row' = [row EXCEPT ![req[w].batch].quota = req[w].quota]
    /\ Finish(w)
    /\ UNCHANGED <<alloc, held, label>>

(* Admin: CloseBatch.  Its first statement locks the active row, so every   *)
(* other writer of the variant is out when the second lists the open rows.  *)
CloseBatch(w, b) ==
    /\ At(w, "idle")
    /\ Active(b)
    /\ LET closed == [row EXCEPT ![b].status = "closed"]
       IN  \/ ~ (\E q \in Batches : Queued(q)) /\ row' = closed
           \/ \E q \in Batches :
                 /\ Queued(q) /\ \A a \in Batches : Queued(a) => row[q].seq <= row[a].seq
                 /\ row' = [closed EXCEPT ![q].status = "active"]
    /\ ThenLabel(w, ActiveBatch(row'))
    /\ UNCHANGED <<alloc, held, label>>

(* Admin: CancelBatch, for a queued batch only.                             *)
CancelBatch(w, b) ==
    /\ At(w, "idle")
    /\ Queued(b)
    /\ row' = [row EXCEPT ![b].status = "cancelled"]
    /\ ThenRelabel(w)
    /\ UNCHANGED <<alloc, held, label>>

(* Admin: ReorderBatch.  Every row of the variant takes part, ended ones    *)
(* too; the first open row of the new order is active, the others queued.   *)
Existing      == {b \in Batches : row[b].status # "absent"}
Ahead(a, b)   == row[a].seq < row[b].seq \/ (row[a].seq = row[b].seq /\ a < b)
Place(b)      == 1 + Cardinality({a \in Existing : Ahead(a, b)})

(* Mutant: the rows behind the target do not make room.                     *)
MovedOver(b, to) ==
    [a \in Batches |-> IF a = b THEN to
                       ELSE IF Place(a) > Place(b) THEN Place(a) - 1 ELSE Place(a)]

Moved(b, to) ==   \* the place of every row once b moved to place to
    [a \in Batches |->
        LET p == IF Place(a) > Place(b) THEN Place(a) - 1 ELSE Place(a)
        IN  IF a = b THEN to ELSE IF p >= to THEN p + 1 ELSE p]

ReorderBatch(w, b, to) ==
    /\ At(w, "idle")
    /\ b \in OpenBatches /\ to \in 1 .. Cardinality(Existing)
    /\ LET place == Moved(b, to)
           first(a) == \A c \in OpenBatches : place[a] <= place[c]
       IN  row' = [a \in Batches |->
                     IF a \notin Existing THEN row[a]
                     ELSE [row[a] EXCEPT
                             !.seq = IF to = Place(b) THEN @ ELSE place[a],
                             !.status = IF a \notin OpenBatches THEN @
                                        ELSE IF first(a) THEN "active" ELSE "queued"]]
    /\ ThenRelabel(w)
    /\ UNCHANGED <<alloc, held, label>>

(* Admin: the variant stops being a pre-order.  One UPDATE, without a row   *)
(* lock of its own: a batch inserted after its snapshot survives it.        *)
StartCancelOpen(w) ==
    /\ At(w, "idle")
    /\ OpenBatches # {}
    /\ Become(w, [Idle EXCEPT !.step = "cancelOpen", !.rank = Snapshot])
    /\ UNCHANGED <<row, alloc, held, label>>

CancelOpenBatches(w) ==
    /\ At(w, "cancelOpen")
    /\ row' = [b \in Batches |-> IF b \in Slice(w) THEN [row[b] EXCEPT !.status = "cancelled"]
                                                   ELSE row[b]]
    /\ ThenLabel(w, None)
    /\ UNCHANGED <<alloc, held, label>>
----------------------------------------------------------------------------
(* The allocation loop of AllocateToBatch, as what it computes.  It visits  *)
(* the locked rows from the active one on, then in the order of the         *)
(* snapshot, and takes what is free: not sold and not locked by others.     *)
Ranked(w, a, b) ==
    \/ req[w].rank[a] < req[w].rank[b]
    \/ req[w].rank[a] = req[w].rank[b] /\ a < b

Earlier(w, a, b) ==
    \/ Active(a) /\ ~ Active(b)
    \/ Active(a) = Active(b) /\ Ranked(w, a, b)

Free(w, b) == IF b \in Slice(w) /\ Remaining(b) > req[w].locked[b]
              THEN Remaining(b) - req[w].locked[b] ELSE 0

Qty(w) == LineQty[req[w].line]

Plan(w, take) ==
    /\ \A b \in Batches : take[b] <= Free(w, b)
    /\ \A a, b \in Slice(w) : Earlier(w, a, b) /\ take[b] > 0 => take[a] = Free(w, a)
    /\ Total(take, Batches) <= Qty(w)
    /\ Total(take, Batches) = Qty(w) \/ \A b \in Batches : take[b] = Free(w, b)

(* The loop reaches a row while units are left; it closes a row it reached  *)
(* and emptied, and promotes the next one.                                  *)
Reached(w, take, b) == Total(take, {a \in Slice(w) : Earlier(w, a, b)}) < Qty(w)

(* Mutant: every emptied row is closed, reached or not.                     *)
SpentUnreached(w, take) == {b \in Slice(w) : take[b] = Free(w, b)}

Spent(w, take) == {b \in Slice(w) : Reached(w, take, b) /\ take[b] = Free(w, b)}
Successor(w, take) == {b \in Slice(w) \ Spent(w, take) :
                          \A a \in Slice(w) \ Spent(w, take) : ~ Earlier(w, a, b)}

(* A promotion is refused by the unique index while a row outside the slice *)
(* is active.                                                               *)
Refused(w, take) ==
    /\ ActiveIn(row) \ Slice(w) # {}
    /\ \E b \in Slice(w) : Queued(b) /\ (Reached(w, take, b) \/ b \in Successor(w, take))

Settled(w, take) ==   \* the rows when the transaction commits
    [b \in Batches |->
        [row[b] EXCEPT !.sold = @ + take[b],
                       !.status = IF b \in Spent(w, take) THEN "closed"
                                  ELSE IF b \in Successor(w, take) THEN "active" ELSE @]]
----------------------------------------------------------------------------
(* Webhook: the paid order of line l is finalized, first or again.  Its     *)
(* batch locks go, then runAllocation lists the variant's batches.          *)
StartAllocate(w, l) ==
    /\ At(w, "idle")
    /\ held' = [held EXCEPT ![l] = Zero]
    /\ Become(w, [Idle EXCEPT !.step = "readLocks", !.line = l, !.commit = TRUE,
                              !.rank = Snapshot])
    /\ UNCHANGED <<row, alloc, label>>

(* Shopper: checkout replaces the locks it holds; it lists the batches too. *)
StartReserve(w, l) ==
    /\ At(w, "idle")
    /\ held' = [held EXCEPT ![l] = Zero]
    /\ IF OpenBatches = {}
       THEN Finish(w)
       ELSE Become(w, [Idle EXCEPT !.step = "readLocks", !.line = l, !.rank = Snapshot,
                                   !.seen = [b \in Batches |->
                                       IF b \in OpenBatches THEN Remaining(b) ELSE 0]])
    /\ UNCHANGED <<row, alloc, label>>

(* Shopper: the cart or the checkout page asks what an order would take.    *)
StartPreview(w, l) ==
    /\ At(w, "idle")
    /\ Become(w, [Idle EXCEPT !.step = "readLocks", !.line = l, !.rank = Snapshot])
    /\ UNCHANGED <<row, alloc, held, label>>

(* Live locks on the batches listed; a shopper's own do not count, but a    *)
(* payment asks for no shopper and counts all.                              *)
LockedBy(S, b) == Total([l \in Lines |-> held[l][b]], S)

ReadLocks(w) ==
    /\ At(w, "readLocks")
    /\ LET others == IF req[w].commit THEN Lines ELSE Lines \ {req[w].line}
       IN  Become(w, [req[w] EXCEPT !.step = "snapshot", !.rank = Zero,
                      !.locked = [b \in Batches |->
                          IF req[w].rank[b] > 0 THEN LockedBy(others, b) ELSE 0]])
    /\ UNCHANGED <<row, alloc, held, label>>

TakeSnapshot(w) ==
    /\ At(w, "snapshot")
    /\ Become(w, [req[w] EXCEPT !.step = "execute", !.rank = Snapshot])
    /\ UNCHANGED <<row, alloc, held, label>>

(* No open row: the whole quantity is unlimited, and nothing is recorded.   *)
AllocateUnlimited(w) ==
    /\ At(w, "execute")
    /\ Slice(w) = {}
    /\ Finish(w)
    /\ UNCHANGED <<row, alloc, held, label>>

(* The line already has a committed allocation: only the label is written.  *)
AllocateAgain(w) ==
    /\ At(w, "execute") /\ req[w].commit
    /\ Slice(w) # {}
    /\ alloc[req[w].line] # Zero
    /\ ThenLabel(w, ActiveBatch([b \in Batches |-> IF b \in Slice(w) THEN row[b]
                                            ELSE [row[b] EXCEPT !.status = "absent"]]))
    /\ UNCHANGED <<row, alloc, held, label>>

AllocateToBatch(w) ==
    /\ At(w, "execute") /\ req[w].commit
    /\ Slice(w) # {}
    /\ alloc[req[w].line] = Zero
    /\ \E take \in [Batches -> 0 .. Qty(w)] :
          /\ Plan(w, take) /\ ~ Refused(w, take)
          /\ row' = Settled(w, take)
          /\ alloc' = [alloc EXCEPT ![req[w].line] = take]
          /\ ThenLabel(w, IF Successor(w, take) = {} THEN None
                          ELSE CHOOSE b \in Successor(w, take) : TRUE)
    /\ UNCHANGED <<held, label>>

(* The same transaction for a preview.  It writes one thing: when no row of *)
(* the slice is active, the first queued one becomes active for good.       *)
NextUp(w) == {b \in Slice(w) : /\ ~ \E a \in Slice(w) : Active(a)
                               /\ \A a \in Slice(w) : ~ Earlier(w, a, b)}

(* A reservation goes on when every batch has, by the list and the locks    *)
(* read before, what the preview takes from it; a mere preview ends here.   *)
PreviewAllocation(w) ==
    /\ At(w, "execute") /\ ~ req[w].commit
    /\ Slice(w) # {}
    /\ NextUp(w) # {} => ActiveIn(row) = {}
    /\ row' = [b \in Batches |-> IF b \in NextUp(w) THEN [row[b] EXCEPT !.status = "active"]
                                                    ELSE row[b]]
    /\ \E take \in [Batches -> 0 .. Qty(w)] :
          /\ Plan(w, take)
          /\ IF \A b \in Batches : take[b] > 0 => req[w].seen[b] - req[w].locked[b] >= take[b]
             THEN Become(w, [Idle EXCEPT !.step = "reserve", !.line = req[w].line,
                                         !.take = take])
             ELSE Finish(w)
    /\ UNCHANGED <<alloc, held, label>>

CreateBatchLocks(w) ==
    /\ At(w, "reserve")
    /\ held' = [held EXCEPT ![req[w].line] =
                   [b \in Batches |-> held[req[w].line][b] + req[w].take[b]]]
    /\ Finish(w)
    /\ UNCHANGED <<row, alloc, label>>

(* The locks of a checkout end: released by the shopper, or past their TTL. *)
ReleaseLocks(l) ==
    /\ held' = [held EXCEPT ![l] = Zero]
    /\ UNCHANGED <<row, alloc, label, req>>

(* Mutant: the ledger rows stay committed.                                  *)
ReleaseKeepsRows(l) ==
    /\ row' = [b \in Batches |->
                 [row[b] EXCEPT !.sold = IF @ > alloc[l][b] THEN @ - alloc[l][b] ELSE 0]]
    /\ UNCHANGED <<alloc, held, label, req>>

(* Admin: the order is cancelled and the line gives its units back.  The    *)
(* batches keep their status: a closed batch stays closed.                  *)
ReleaseAllocations(l) ==
    /\ row' = [b \in Batches |->
                 [row[b] EXCEPT !.sold = IF @ > alloc[l][b] THEN @ - alloc[l][b] ELSE 0]]
    /\ alloc' = [alloc EXCEPT ![l] = Zero]
    /\ UNCHANGED <<held, label, req>>
----------------------------------------------------------------------------
(* The variant's label is written from what the request knows.              *)
ReadLabel(w) ==
    /\ At(w, "relabel")
    /\ ThenLabel(w, ActiveBatch(row))
    /\ UNCHANGED <<row, alloc, held, label>>

SyncLabel(w) ==
    /\ At(w, "label")
    /\ label' = req[w].batch
    /\ Finish(w)
    /\ UNCHANGED <<row, alloc, held>>

(* A request ends early: an error answer, a deadlock victim, a uniqueness   *)
(* or status check that fails, or the process stops.                        *)
Abandon(w) ==
    /\ req[w] # Idle
    /\ Finish(w)
    /\ UNCHANGED <<row, alloc, held, label>>
----------------------------------------------------------------------------
Init ==
    /\ row = [b \in Batches |-> [status |-> "absent", quota |-> 0, sold |-> 0, seq |-> 0]]
    /\ alloc = [l \in Lines |-> Zero]
    /\ held = [l \in Lines |-> Zero]
    /\ label = None
    /\ req = [w \in Workers |-> Idle]

Admin(w) ==
    \/ CreateBatch(w) \/ UpdateBatch(w) \/ StartCancelOpen(w) \/ CancelOpenBatches(w)
    \/ \E q \in 1 .. MaxQuota : StartCreate(w, q)
    \/ \E b \in Batches : \/ CloseBatch(w, b) \/ CancelBatch(w, b)
                          \/ \E q \in 1 .. MaxQuota : StartUpdate(w, b, q)
                          \/ \E to \in Batches : ReorderBatch(w, b, to)

Allocation(w) ==
    \/ \E l \in Lines : StartAllocate(w, l) \/ StartReserve(w, l) \/ StartPreview(w, l)
    \/ ReadLocks(w) \/ TakeSnapshot(w) \/ AllocateUnlimited(w) \/ AllocateAgain(w)
    \/ AllocateToBatch(w) \/ PreviewAllocation(w) \/ CreateBatchLocks(w)

Next ==
    \/ \E w \in Workers : Admin(w) \/ Allocation(w) \/ ReadLabel(w) \/ SyncLabel(w) \/ Abandon(w)
    \/ \E l \in Lines : ReleaseLocks(l) \/ ReleaseAllocations(l)

Spec == Init /\ [][Next]_vars
----------------------------------------------------------------------------
(* Every variable has its type.                                             *)
TypeOK ==
    /\ row \in [Batches -> [status: Statuses, quota: Nat, sold: Nat, seq: Nat]]
    /\ alloc \in [Lines -> [Batches -> Nat]]
    /\ held \in [Lines -> [Batches -> Nat]]
    /\ label \in Batches \cup {None}
    /\ req \in [Workers -> Request]

(* The denormalised counter agrees with the ledger: qty_sold of a batch is  *)
(* the sum of its committed allocations, whatever interleaves.              *)
SoldMatchesAllocations ==
    \A b \in Batches : row[b].sold = Total([l \in Lines |-> alloc[l][b]], Lines)

(* Webhook retries and duplicates: a line never holds more units, over all  *)
(* batches, than it ordered.                                                *)
LineWithinQuantity == \A l \in Lines : Total(alloc[l], Batches) <= LineQty[l]

(* The rows, the ledger and their interleavings implement the book: a line  *)
(* buys once, within the quota of open batches; ended batches sell nothing. *)
Phase(s) == IF s = "absent" THEN s ELSE IF s \in Open THEN "open" ELSE "over"

Book == INSTANCE BatchBook WITH
            Batch <- Batches, Line <- Lines,
            phase <- [b \in Batches |-> Phase(row[b].status)],
            quota <- [b \in Batches |-> row[b].quota],
            sold  <- [b \in Batches |-> row[b].sold],
            bought <- alloc

ImplementsBook == Book!Spec
=============================================================================
