-------------------------- MODULE BatchAlgorithms --------------------------
(***************************************************************************)
(* The allocation loop of preorderbatch, turn by turn as the code runs it, *)
(* and the summary of the batches that internal/product shows.             *)
(* BatchAllocation states what the loop computes; the properties below     *)
(* compare the two, and the summary with what is sold, in every state that *)
(* a request reaches.                                                      *)
(***************************************************************************)
EXTENDS BatchAllocation

(* What the loop mutates in memory, over the rows in the order of the query.*)
LoopState(w) ==
    [st |-> [b \in Batches |-> row[b].status], take |-> Zero, left |-> Qty(w),
     unlimited |-> 0, refused |-> FALSE]

FirstWith(w, s, status) ==   \* the first row with the status, if there is one
    {b \in Slice(w) : s.st[b] = status /\ \A a \in Slice(w) : s.st[a] = status => ~ Ranked(w, a, b)}

Promote(w, s) ==   \* UPDATE ... status = active, under the unique index
    LET next == FirstWith(w, s, "queued")
    IN  [s EXCEPT !.st = [b \in Batches |-> IF b \in next THEN "active" ELSE s.st[b]],
                  !.refused = @ \/ (next # {} /\ \E b \in Batches : s.st[b] = "active")]

CloseAndPromote(w, s, b) == Promote(w, [s EXCEPT !.st[b] = "closed"])

TakeFrom(w, s, b) ==
    LET sold  == row[b].sold + s.take[b]
        left  == IF row[b].quota > sold THEN row[b].quota - sold ELSE 0
        avail == IF left > req[w].locked[b] THEN left - req[w].locked[b] ELSE 0
        n     == IF s.left > avail THEN avail ELSE s.left
        taken == [s EXCEPT !.take[b] = @ + n, !.left = @ - n]
    IN  IF avail - n <= 0 THEN CloseAndPromote(w, taken, b) ELSE taken

(* One turn: the first active row, or else the first queued one, sells.     *)
Iteration(w, s) ==
    LET t     == IF FirstWith(w, s, "active") = {} THEN Promote(w, s) ELSE s
        first == FirstWith(w, t, "active")
    IN  IF first = {} THEN [t EXCEPT !.unlimited = t.left, !.left = 0]
        ELSE TakeFrom(w, t, CHOOSE b \in first : TRUE)

(* The loop runs while units are left; every turn but one closes a row.     *)
Loop(w) ==
    LET after[n \in 0 .. MaxBatches + 1] ==
            IF n = 0 THEN LoopState(w)
            ELSE IF after[n - 1].left = 0 THEN after[n - 1]
            ELSE Iteration(w, after[n - 1])
    IN  after[MaxBatches + 1]

(* AllocateToBatch takes, closes, promotes and is refused exactly as the   *)
(* loop does, and the loop has ended after one turn per row and one more.  *)
PlanIsTheLoop ==
    \A w \in Workers : At(w, "execute") /\ Slice(w) # {} => LET s == Loop(w) IN
        /\ s.left = 0
        /\ s.unlimited = Qty(w) - Total(s.take, Batches)
        /\ {take \in [Batches -> 0 .. Qty(w)] : Plan(w, take)} = {s.take}
        /\ Refused(w, s.take) = s.refused
        /\ ~ s.refused => [b \in Batches |-> Settled(w, s.take)[b].status] = s.st
----------------------------------------------------------------------------
(* Mutant: what checkouts hold is offered to others.                        *)
ShownUnsold(b) ==
    LET left == row[b].quota - row[b].sold IN IF left < 0 THEN 0 ELSE left

(* What the shop shows of a variant (GetBatchSummariesByVariantIDs), by     *)
(* queries of its own: units that no order and no lock has, the batch an    *)
(* order takes from first, and the one it goes on with.                     *)
ShownRemaining(b) ==
    LET left == row[b].quota - row[b].sold - LockedBy(Lines, b) IN IF left < 0 THEN 0 ELSE left

MaxBatchOrderableQty == Total([b \in Batches |-> ShownRemaining(b)], OpenBatches)

FirstShown(S) ==
    LET first == {b \in S \cap OpenBatches : \A a \in S \cap OpenBatches : ~ Ahead(a, b)}
    IN  IF first = {} THEN None ELSE CHOOSE b \in first : TRUE

ActiveShown ==
    LET active == FirstShown(ActiveIn(row)) IN IF active # None THEN active ELSE FirstShown(OpenBatches)

NextShown ==   \* none when no batch is active
    LET after == {b \in OpenBatches : Queued(b) /\ \E a \in ActiveIn(row) : Ahead(a, b)} IN FirstShown(after)

(* The next order gets what the shop shows, as long as nothing changes in   *)
(* between: all of what can be ordered, from the batch shown first and,     *)
(* unless queued batches are ahead of the active one, then from the one     *)
(* shown next.  Two packages compute this, each in its own way.             *)
Unchanged(w) ==
    /\ req[w].rank = Snapshot
    /\ \A b \in OpenBatches : req[w].locked[b] = LockedBy(Lines, b)

InQueue == \A a \in ActiveIn(row), b \in OpenBatches : Queued(b) => Ahead(a, b)

Lesser(m, n) == IF m < n THEN m ELSE n

ShownIsSold ==
    \A w \in Workers : At(w, "execute") /\ Slice(w) # {} /\ Unchanged(w) =>
        \A take \in [Batches -> 0 .. Qty(w)] : Plan(w, take) =>
            /\ Total(take, Batches) = Lesser(Qty(w), MaxBatchOrderableQty)
            /\ take[ActiveShown] = Lesser(Qty(w), ShownRemaining(ActiveShown))
            /\ InQueue /\ NextShown # None =>
                  take[NextShown] = Lesser(Qty(w) - take[ActiveShown], ShownRemaining(NextShown))
=============================================================================
