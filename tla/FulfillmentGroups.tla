------------------------- MODULE FulfillmentGroups -------------------------
(***************************************************************************)
(* How one order is split into groups that are billed, packed and shipped  *)
(* apart: a group for each batch its pre-order lines were allocated to and *)
(* one for the units no batch took.  A line may be shared by groups, while *)
(* Shopify only knows lines: the page that shows each group hands every    *)
(* fulfillment back to the groups by what they still hold of its lines.    *)
(* internal/order: fulfillment_groups.go, preorder_packing.go and the      *)
(* packing of preorder_fulfillment.go and ship_together.go;                *)
(* internal/shipping/rates.go.                                             *)
(***************************************************************************)
EXTENDS Integers, Sequences, FiniteSetsExt, Totals

CONSTANTS
    Lines,        \* the pre-order lines of the order
    Ready,        \* its ship-ready lines
    Qty,          \* Qty[l]: the units of a line
    Weight,       \* Weight[l]: what a unit weighs, 0: not known
    NumBatches,   \* the batches, in the order of their names
    Sequence,     \* Sequence[b]: the place of the batch in its queue
    ShipTogether, \* the order waits to be shipped at once
    MaxCards,     \* bound: fulfillments
    MaxBoxes,     \* bound: boxes asked for a line
    NoGroup       \* no batch, no group

Goods   == Lines \cup Ready
Batches == 1 .. NumBatches
Groups  == 1 .. NumBatches + 1
Unbatched == NumBatches + 1

ASSUME LinesAssumption == IsFiniteSet(Goods) /\ Lines \cap Ready = {}
ASSUME UnitsAssumption == Qty \in [Goods -> Nat \ {0}] /\ Weight \in [Goods -> Nat]
ASSUME BatchesAssumption == NumBatches \in Nat /\ Sequence \in [Batches -> Nat] /\ ShipTogether \in BOOLEAN
ASSUME BoundsAssumption == MaxCards \in Nat /\ MaxBoxes \in Nat
ASSUME NoGroupAssumption == NoGroup \notin Groups

VARIABLES
    alloc,      \* alloc[b][l]: the committed allocation of a line to a batch
    shipment,   \* shipment[g]: the row of the group in preorder_shipments
    packing,    \* packing[g]: its rows in preorder_packing_items
    card        \* the fulfillments in their order, with the group that shipped

groupVars == <<alloc, shipment, packing, card>>

Least(a, b) == IF a < b THEN a ELSE b
----------------------------------------------------------------------------
(* buildFulfillmentGroups: what a group holds of a line.                    *)
Allocated(l) == Total([b \in Batches |-> alloc[b][l]], Batches)
Slice(g, l)  == IF g = Unbatched THEN Qty[l] - Allocated(l) ELSE alloc[g][l]
Present      == {g \in Groups : \E l \in Lines : Slice(g, l) > 0}

(* resolveGroupSlices: the lines a request for the group is about.          *)
GroupLines(g) == {l \in Lines : Slice(g, l) > 0}

(* shouldIncludeShipReadyInBatchGroup: the last batch of the queue carries  *)
(* the ship-ready goods, the unbatched units when there is no batch.        *)
IncludesShipReady(g) ==
    LET batched == {b \in Batches : \E l \in Lines : alloc[b][l] > 0}
    IN  IF g = Unbatched THEN batched = {} /\ \E l \in Lines : Slice(g, l) > 0
        ELSE g \in batched /\ \A b \in batched : Sequence[b] <= Sequence[g]

(* appendShipReadyForCombinedShipping: what is packed with the group.       *)
Packed(g) == GroupLines(g) \cup (IF ShipTogether /\ IncludesShipReady(g) THEN Ready ELSE {})
UnitsIn(g, l) == IF l \in Ready THEN Qty[l] ELSE Slice(g, l)
Weights(g)    == [l \in Packed(g) |-> Weight[l] * UnitsIn(g, l)]
----------------------------------------------------------------------------
(* A packing plan names some of the goods.  Lines it leaves out get a box   *)
(* for each unit, the units are those of the group whatever was sent, and   *)
(* no line has more boxes than units.                                       *)
BuildDefaultPacking(g, l) == [boxes |-> UnitsIn(g, l), nested |-> FALSE]

MergeDefaultPacking(g, plan) ==
    [l \in Packed(g) |-> IF l \in DOMAIN plan THEN plan[l] ELSE BuildDefaultPacking(g, l)]

EnsurePackingQuantities(g, plan) ==
    [l \in DOMAIN plan |->
        IF plan[l].nested THEN plan[l] ELSE [plan[l] EXCEPT !.boxes = Least(@, UnitsIn(g, l))]]

Prepared(g, plan) == EnsurePackingQuantities(g, MergeDefaultPacking(g, plan))

ValidPacking(g, p) ==
    \A l \in DOMAIN p :
        IF p[l].nested THEN p[l].boxes = 0
        ELSE p[l].boxes > 0 => UnitsIn(g, l) % p[l].boxes = 0

(* BuildPackableUnits: goods packed alone share what is nested, evenly over *)
(* all boxes.  A box weighs BoxWeight / TotalBoxes.                         *)
Boxed(p)      == {l \in DOMAIN p : ~ p[l].nested /\ p[l].boxes > 0}
TotalBoxes(p) == Total([l \in Boxed(p) |-> p[l].boxes], Boxed(p))
Nested(g, p)  == Total(Weights(g), {l \in DOMAIN p : p[l].nested})
UnitsPerBox(g, p, l) == UnitsIn(g, l) \div p[l].boxes

(* Mutant: what is nested is divided by the lines, not by the boxes.        *)
WeightByLine(g, p, l) ==
    Weight[l] * UnitsPerBox(g, p, l) * TotalBoxes(p) + (Nested(g, p) * TotalBoxes(p)) \div Cardinality(Boxed(p))

BoxWeight(g, p, l) == Weight[l] * UnitsPerBox(g, p, l) * TotalBoxes(p) + Nested(g, p)

(* BuildPackages: every box weighs something, and there is one.             *)
Packable(g, p) ==
    /\ TotalBoxes(p) > 0
    /\ \A l \in Boxed(p) : BoxWeight(g, p, l) > 0

TotalWeight(g, p) ==
    Total([l \in Boxed(p) |-> BoxWeight(g, p, l) * p[l].boxes], Boxed(p)) \div TotalBoxes(p)
----------------------------------------------------------------------------
Loads == [Lines -> UNION {0 .. Qty[l] : l \in Lines}]

NoRow == [boxes |-> 0, weight |-> 0, priced |-> FALSE, sent |-> FALSE, paid |-> FALSE]

GroupsInit ==
    /\ alloc \in [Batches -> Loads]
    /\ \A l \in Lines : Allocated(l) <= Qty[l]
    /\ shipment = [g \in Groups |-> NoRow] /\ packing = [g \in Groups |-> <<>>]
    /\ card = <<>>

(* CalculatePreorderShipping, UpsertPreorderShipment: the row gets the      *)
(* boxes and the weight, the rows of the plan replace the old ones.         *)
CalculatePreorderShipping(g, plan) ==
    LET p == Prepared(g, plan)
    IN  /\ g \in Present /\ DOMAIN plan \subseteq Packed(g)
        /\ ~ shipment[g].paid
        /\ ValidPacking(g, p) /\ Packable(g, p)
        /\ shipment' = [shipment EXCEPT ![g].boxes = TotalBoxes(p), ![g].weight = TotalWeight(g, p)]
        /\ packing' = [packing EXCEPT ![g] = p]
        /\ UNCHANGED <<alloc, card>>

(* The final price, the bill and its payment, each on the row of the group. *)
SetFinalPrice(g) ==
    /\ g \in Present /\ ~ shipment[g].priced /\ ~ shipment[g].paid
    /\ shipment' = [shipment EXCEPT ![g].priced = TRUE]
    /\ UNCHANGED <<alloc, packing, card>>
RequestSecondPayment(g) ==
    /\ shipment[g].priced /\ ~ shipment[g].sent
    /\ shipment' = [shipment EXCEPT ![g].sent = TRUE]
    /\ UNCHANGED <<alloc, packing, card>>
MarkInvoicePaid(g) ==
    /\ shipment[g].sent /\ ~ shipment[g].paid
    /\ shipment' = [shipment EXCEPT ![g].paid = TRUE]
    /\ UNCHANGED <<alloc, packing, card>>
----------------------------------------------------------------------------
(* A card keeps the units of each line and, which neither Shopify nor the   *)
(* app does, the group they came from.                                      *)
Units(l)      == [n \in DOMAIN card |-> card[n].units[l]]
Shipped(g, l) == Total(Units(l), {n \in DOMAIN card : card[n].from[l] = g})
Left(g, l)    == Slice(g, l) - Shipped(g, l)

Ship(tag, units, from) ==
    /\ Len(card) < MaxCards
    /\ \E l \in Lines : units[l] > 0
    /\ \A l \in Lines : units[l] <= Left(from[l], l)
    /\ card' = Append(card, [tag |-> tag, units |-> units, delivered |-> FALSE,
                             from |-> [l \in Lines |-> IF units[l] = 0 THEN NoGroup ELSE from[l]]])
    /\ UNCHANGED <<alloc, shipment, packing>>

(* CreateFulfillment of the app: units of one group, tagged with its batch. *)
CreateFulfillment(g, units) ==
    g \in Present /\ Ship(IF g = Unbatched THEN NoGroup ELSE g, units, [l \in Lines |-> g])

(* A fulfillment made in Shopify arrives by webhook and has no batch.       *)
FulfilledInShopify(units, from) == Ship(NoGroup, units, from)

MarkFulfillmentDelivered(n) ==
    /\ ~ card[n].delivered
    /\ card' = [card EXCEPT ![n].delivered = TRUE]
    /\ UNCHANGED <<alloc, shipment, packing>>
----------------------------------------------------------------------------
(* assignFulfillmentsToPreorderGroups, one line of one card: the groups of  *)
(* which the first that holds exactly the units takes them, else the first  *)
(* that holds enough, else each what it has.  cap[g] is what g still holds. *)
TakeSpread(cap, need) ==
    [g \in Groups |->
        LET before == Total(cap, 1 .. g - 1)
        IN  cap[g] - Least(cap[g], IF need > before THEN need - before ELSE 0)]

TakeLine(cap, need) ==
    LET exact  == {g \in Present : cap[g] = need}
        absorb == {g \in Present : cap[g] >= need}
    IN  IF exact # {} THEN [cap EXCEPT ![Min(exact)] = 0]
        ELSE IF absorb # {} THEN [cap EXCEPT ![Min(absorb)] = @ - need]
        ELSE TakeSpread(cap, need)

(* consumeCapacityForFulfillment: the group of the tag takes what it can.   *)
TakeTagged(cap, need, g) == [cap EXCEPT ![g] = @ - Least(@, need)]

(* Mutant: the batch of a fulfillment is not looked at.                     *)
TakeByCapacity(caps, c) ==
    [l \in Lines |-> IF c.units[l] = 0 THEN caps[l] ELSE TakeLine(caps[l], c.units[l])]

TakeCard(caps, c) ==
    [l \in Lines |->
        IF c.units[l] = 0 THEN caps[l]
        ELSE IF c.tag # NoGroup /\ c.tag \in Present THEN TakeTagged(caps[l], c.units[l], c.tag)
        ELSE TakeLine(caps[l], c.units[l])]

Capacity == [l \in Lines |-> [g \in Groups |-> Slice(g, l)]]

(* What the groups hold after the first n cards, and which show card n.     *)
CapsAfter ==
    LET after[n \in 0 .. Len(card)] ==
            IF n = 0 THEN Capacity ELSE TakeCard(after[n - 1], card[n])
    IN  after

ShownIn(n) == {g \in Present : \E l \in Lines : CapsAfter[n][l][g] < CapsAfter[n - 1][l][g]}
CardsOf(g) == {n \in DOMAIN card : g \in ShownIn(n)}

(* enrichGroupSecondPayment: the badge of the group.                        *)
SecondPaymentStatus(g) ==
    IF shipment[g].paid THEN "paid" ELSE IF shipment[g].sent THEN "invoiced"
    ELSE IF shipment[g].priced THEN "ready" ELSE "pending"

(* buildSecondPaymentSummary: the badge of the order.                       *)
SecondPaymentSummary ==
    LET badges     == {SecondPaymentStatus(g) : g \in Present}
        configured == {g \in Present : shipment[g].priced}
    IN  IF configured = Present /\ badges = {"paid"} THEN "paid"
        ELSE IF badges \cap {"paid", "invoiced"} # {} THEN "invoiced"
        ELSE IF "ready" \in badges \/ configured # {} THEN "ready" ELSE "pending"

Badge(g) ==
    CASE SecondPaymentStatus(g) = "paid"     -> "payment_received"
      [] SecondPaymentStatus(g) = "invoiced" -> "waiting_payment"
      [] OTHER -> "paid"

(* scrubGroupSliceFulfillmentState: what is shown of a line in a group.     *)
ScrubbedSlice(g, l) ==
    LET cards == CardsOf(g)
        gone  == Total(Units(l), cards)
        taken == Least(gone, Slice(g, l))
    IN  [remaining |-> Slice(g, l) - taken,
         status |-> IF taken = 0 THEN Badge(g)
                    ELSE IF \E n \in cards : card[n].delivered /\ card[n].units[l] > 0
                    THEN "delivered" ELSE "shipped"]
----------------------------------------------------------------------------
Plans(g) == UNION {[S -> [boxes: 0 .. MaxBoxes, nested: BOOLEAN]] : S \in SUBSET Packed(g)}

GroupsNext ==
    \/ \E g \in Groups : \E plan \in Plans(g) : CalculatePreorderShipping(g, plan)
    \/ \E g \in Groups : SetFinalPrice(g) \/ RequestSecondPayment(g) \/ MarkInvoicePaid(g)
    \/ \E g \in Groups, units \in Loads : CreateFulfillment(g, units)
    \/ \E units \in Loads, from \in [Lines -> Groups] : FulfilledInShopify(units, from)
    \/ \E n \in DOMAIN card : MarkFulfillmentDelivered(n)

GroupsSpec == GroupsInit /\ [][GroupsNext]_groupVars

(* The lines of a fulfillment without a batch are each of one group only: of*)
(* a shared line the code can only guess.                                   *)
Sole(l)   == Cardinality({g \in Groups : Slice(g, l) > 0}) = 1
SoleCards == \A n \in DOMAIN card : card[n].tag = NoGroup =>
                \A l \in Lines : card[n].units[l] > 0 => Sole(l)
SoleSpec  == GroupsInit /\ [][GroupsNext /\ SoleCards']_groupVars
----------------------------------------------------------------------------
(* A group shows what was shipped of its own units, whatever its siblings   *)
(* on the same lines do: how many are left, and whether they are paid,      *)
(* shipped or delivered.  The order shows its balance as paid when every    *)
(* group has paid, and as billed when one was billed.                       *)
OwnShown ==
    /\ SecondPaymentSummary = "paid" <=> Present # {} /\ \A g \in Present : shipment[g].paid
    /\ SecondPaymentSummary = "invoiced" <=>
          (\E g \in Present : shipment[g].sent) /\ \E g \in Present : ~ shipment[g].paid
    /\ \A g \in Present : \A l \in GroupLines(g) :
        /\ ScrubbedSlice(g, l).remaining = Slice(g, l) - Shipped(g, l)
        /\ ScrubbedSlice(g, l).status =
              IF Shipped(g, l) = 0 THEN Badge(g)
              ELSE IF \E n \in DOMAIN card : card[n].delivered /\ card[n].from[l] = g
              THEN "delivered" ELSE "shipped"

(* The shipping of a packed group is quoted for all its goods: each has a   *)
(* row, and unless the admin gave one no box the boxes weigh what its units *)
(* weigh, however they are nested and stacked.                              *)
PackedWhole ==
    \A g \in Groups : DOMAIN packing[g] # {} =>
        /\ DOMAIN packing[g] = Packed(g)
        /\ (\A l \in DOMAIN packing[g] : packing[g][l].nested \/ packing[g][l].boxes > 0)
             => shipment[g].weight = Total(Weights(g), Packed(g))
=============================================================================
