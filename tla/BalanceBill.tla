---------------------------- MODULE BalanceBill ----------------------------
(***************************************************************************)
(* What a balance billed by order edit does to the money: the lines of the *)
(* Shopify order and the rows of the app side by side.  The checkout sells *)
(* a pre-order as deposit lines and one line for half of the shipping; an  *)
(* edit takes the units of a group off the deposit lines, adds the product *)
(* at its full price and the rest of the shipping, and folds the shipping  *)
(* half into it when this group alone uses it up.  internal/order:         *)
(* balance_edit_plan.go, balance_edit.go, preorder_prepaid.go and the plan *)
(* of preorder_fulfillment.go; platform/shopify/order_edit.go.             *)
(* A request is one step: BalanceEdit interleaves them.  What is left of   *)
(* its faults is the commit that landed and was not saved, or did not land.*)
(* Amounts are whole cents, as round2 keeps them.                          *)
(***************************************************************************)
EXTENDS Integers, Sequences, FiniteSetsExt, Totals

CONSTANTS
    NumGroups,   \* the groups of the order, in the order of their rows
    NumItems,    \* its pre-order items, in the order of the invoice
    Share,       \* Share[g][i]: the units of item i in group g
    Variant,     \* Variant[i]: the product variant
    Known,       \* the items whose deposit line is stored
    Full,        \* Full[i]: the website price of a unit at checkout
    Deposit,     \* Deposit[i]: what the checkout charged for a unit
    Estimate,    \* the shipping estimate of the checkout
    Bought,      \* variants also bought at once, a unit of each, for GoodsPrice
    GoodsPrice,
    Freight,     \* what the shipping of these cost, 0: no such line
    Title,       \* Title[g]: the title of the shipping line of a group
    CatalogPrices, \* what the variants may cost in the catalog
    MaxPrice,    \* bound: the final shipping price of a group
    MaxEdits,    \* bound: edits committed
    MaxFaults,   \* bound: commits that did not land or were not saved
    Nothing      \* no variant, no title

Groups == 1 .. NumGroups
Items  == 1 .. NumItems

ASSUME SizesAssumption == NumGroups \in Nat \ {0} /\ NumItems \in Nat \ {0}
ASSUME ShareAssumption == Share \in [Groups -> [Items -> Nat]] /\ Known \subseteq Items
ASSUME MoneyAssumption == /\ Full \in [Items -> Nat \ {0}] /\ Deposit \in [Items -> Nat]
                          /\ Estimate \in Nat /\ Freight \in Nat /\ GoodsPrice \in Nat
                          /\ CatalogPrices \subseteq Nat
                          /\ \A i \in Items : Deposit[i] <= Full[i]
ASSUME LimitsAssumption == MaxPrice \in Nat /\ MaxEdits \in Nat /\ MaxFaults \in Nat

VARIABLES
    order,      \* Shopify: the lines and the shipping lines of the order
    paid,       \* Shopify: what the customer paid
    catalog,    \* Shopify: catalog[v], the price of a variant
    shipment,   \* shipment[g]: the row of preorder_shipments
    links,      \* the rows of preorder_balance_lines
    edits,      \* history: edits committed
    faults      \* history: commits that failed

billVars == <<order, paid, catalog, shipment, links, edits, faults>>

(* A line of the order is known by its place, a shipping line by its id; of *)
(* both the model remembers the group, and of a line the item, it was added *)
(* for (0: none), which Shopify does not tell.                              *)
Least(a, b) == IF a < b THEN a ELSE b
Less(a, b)  == IF a < b THEN 0 ELSE a - b     \* a - b, at least 0

LineTotal(o) == Total([n \in DOMAIN o.lines |-> o.lines[n].qty * o.lines[n].price], DOMAIN o.lines)
ShipTotal(o) == Total([s \in o.ship |-> s.price], o.ship)
Owes(o)      == LineTotal(o) + ShipTotal(o) - paid
Owed         == Owes(order)
----------------------------------------------------------------------------
(* The order of the checkout: SplitHalf of the estimate, one deposit line   *)
(* for each item, the half as a line, then what was bought at once.        *)
SplitHalf(total) == (total + 1) \div 2
Pool == SplitHalf(Estimate)

InAll(i) == Total([g \in Groups |-> Share[g][i]], Groups)

DepositDraftLine(i) == [kind |-> "deposit", variant |-> Variant[i], qty |-> InAll(i),
                        price |-> Deposit[i], group |-> 0, item |-> i]
HalfDraftLine       == [kind |-> "half", variant |-> Nothing, qty |-> 1, price |-> Pool,
                        group |-> 0, item |-> 0]
GoodsDraftLine(v)   == [kind |-> "goods", variant |-> v, qty |-> 1, price |-> GoodsPrice,
                        group |-> 0, item |-> 0]

DraftLines ==
    [i \in Items |-> DepositDraftLine(i)]
    \o (IF Pool > 0 THEN <<HalfDraftLine>> ELSE <<>>)
    \o (IF Bought = {} THEN <<>> ELSE <<GoodsDraftLine(CHOOSE v \in Bought : TRUE)>>)

DraftShipping == IF Freight = 0 THEN {} ELSE {[id |-> 1, title |-> Nothing, price |-> Freight, group |-> 0]}

(* The Shopify lines the items of the order are stored with.                *)
Stored == {n \in DOMAIN DraftLines : DraftLines[n].kind = "goods" \/ DraftLines[n].item \in Known}
----------------------------------------------------------------------------
(* PrepaidShippingPool less prepaidShippingConsumed.                        *)
Consumed  == Total([g \in Groups |-> shipment[g].applied], Groups)
Available == Less(Pool, Consumed)

(* AllocatePrepaidShipping: the groups before this one that are still to be *)
(* billed take theirs first; an invoiced group keeps what it used.          *)
Unbilled(g)  == ~ shipment[g].sent /\ shipment[g].applied = 0
Before(g)    == Total([h \in Groups |-> shipment[h].price], {h \in 1 .. g - 1 : Unbilled(h)})
Allocated(g) == IF Unbilled(g) THEN Least(shipment[g].price, Less(Available, Before(g)))
                ELSE shipment[g].applied

(* PrepaidShippingLimits: the most a group could use; an invoiced one may   *)
(* give its share up and take again from what the others left.              *)
PrepaidShippingLimit(g) ==
    IF shipment[g].paid THEN shipment[g].applied
    ELSE IF Unbilled(g) THEN Less(Available, Before(g))
    ELSE Less(Pool, Consumed - shipment[g].applied)

RepricedApplied(g, p) == Least(p, PrepaidShippingLimit(g))

(* Units that owe nothing more are not billed.                              *)
Billable(g) == {i \in Items : Share[g][i] > 0 /\ Full[i] > Deposit[i]}

(* What the app expects the units of an item in a group to owe: balance_due *)
(* in proportion.                                                           *)
AppBalance(g, i) == (Full[i] - Deposit[i]) * Share[g][i]
----------------------------------------------------------------------------
(* findDepositLine: by its stored id, else by the variant it refers to,     *)
(* when there is just one; 0 is refused.                                    *)
DepositsOf(v) == {n \in DOMAIN order.lines : order.lines[n].kind = "deposit" /\ order.lines[n].variant = v}
DepositLine(i) ==
    IF i \in Known THEN i
    ELSE IF Cardinality(DepositsOf(Variant[i])) = 1 THEN CHOOSE n \in DepositsOf(Variant[i]) : TRUE
    ELSE 0

Halves == {n \in DOMAIN order.lines : order.lines[n].kind = "half" /\ order.lines[n].qty > 0}

(* foldableShippingDeposit and planBalanceEdit: the half is folded when the *)
(* group uses all of it and the order still has that line.                  *)
Fold(applied) == IF Pool > 0 /\ applied = Pool /\ Halves # {} THEN Pool ELSE 0

Plannable(g) ==
    /\ \A i \in Billable(g) :
         /\ DepositLine(i) # 0
         /\ \A j \in Billable(g) \ {i} : DepositLine(j) # DepositLine(i)
         /\ order.lines[DepositLine(i)].qty >= Share[g][i]
         /\ (Full[i] - order.lines[DepositLine(i)].price) * Share[g][i] = AppBalance(g, i)
    /\ Billable(g) # {} \/ shipment[g].price > Allocated(g)

Rest(g, p, applied) == Less(p, applied)

(* OutstandingIncrease.                                                     *)
Increase(g) ==
    LET applied == Allocated(g)
    IN  Total([i \in Billable(g) |-> (Full[i] - order.lines[DepositLine(i)].price) * Share[g][i]], Billable(g))
        - Fold(applied) + Rest(g, shipment[g].price, applied) + Fold(applied)
----------------------------------------------------------------------------
(* The calls of an edit session on the order as staged so far.              *)
SetOrderEditQuantity(o, n, qty) == [o EXCEPT !.lines[n].qty = qty]
AddOrderEditVariant(o, g, i) ==
    [o EXCEPT !.lines = Append(@, [kind |-> "goods", variant |-> Variant[i], qty |-> Share[g][i],
                                   price |-> catalog[Variant[i]], group |-> g, item |-> i])]
AddOrderEditLineDiscount(o, amount) == [o EXCEPT !.lines[Len(o.lines)].price = @ - amount]
AddOrderEditShippingLine(o, g, amount) ==
    [o EXCEPT !.ship = @ \cup {[id |-> edits + 2, title |-> Title[g], price |-> amount, group |-> g]}]
RemoveOrderEditShippingLine(o, s) == [o EXCEPT !.ship = @ \ {s}]

(* The price of the website: a discount when the catalog is above it.       *)
Priced(o, g, i) ==
    LET added == AddOrderEditVariant(o, g, i)
    IN  IF catalog[Variant[i]] > Full[i]
        THEN AddOrderEditLineDiscount(added, catalog[Variant[i]] - Full[i]) ELSE added

NotAboveCatalog(g) == \A i \in Billable(g) : Full[i] <= catalog[Variant[i]]

Swapped(o, g, i) ==
    Priced(SetOrderEditQuantity(o, DepositLine(i), order.lines[DepositLine(i)].qty - Share[g][i]), g, i)

(* Mutant: the half of the shipping stays on the order beside the full line.*)
WithHalfKept(o, g) ==
    LET applied == Allocated(g)
        amount  == Rest(g, shipment[g].price, applied) + Fold(applied)
    IN  IF amount > 0 THEN AddOrderEditShippingLine(o, g, amount) ELSE o

WithShipping(o, g) ==
    LET applied == Allocated(g)
        amount  == Rest(g, shipment[g].price, applied) + Fold(applied)
        kept    == IF Fold(applied) = 0 THEN o
                   ELSE SetOrderEditQuantity(o, CHOOSE n \in Halves : TRUE, 0)
    IN  IF amount > 0 THEN AddOrderEditShippingLine(kept, g, amount) ELSE kept

(* applyBalanceEdit: the goods one item after the other, then the shipping. *)
Applied(g) ==
    LET staged[n \in 0 .. NumItems] ==
            IF n = 0 THEN order
            ELSE IF n \in Billable(g) THEN Swapped(staged[n - 1], g, n) ELSE staged[n - 1]
    IN  WithShipping(staged[NumItems], g)
----------------------------------------------------------------------------
(* matchBalanceLines: for each item in turn an unknown live line of its     *)
(* variant, one with as many units if there is one; 0 when there is none,   *)
(* and then the items after it are not looked for any more.                 *)
Candidates(o, known, used, g, i) ==
    {n \in DOMAIN o.lines \ (known \cup used) :
        o.lines[n].kind = "goods" /\ o.lines[n].qty > 0 /\ o.lines[n].variant = Variant[i]}

Pick(o, known, used, g, i) ==
    LET all   == Candidates(o, known, used, g, i)
        exact == {n \in all : o.lines[n].qty = Share[g][i]}
    IN  IF exact # {} THEN Min(exact) ELSE IF all # {} THEN Min(all) ELSE 0

GaveUp(g, i, found) == \E n \in Billable(g) : n < i /\ \A k \in found : k.item # n

Matched(o, known, g) ==
    LET links_[n \in 0 .. NumItems] ==
            IF n = 0 THEN {}
            ELSE IF n \notin Billable(g) \/ GaveUp(g, n, links_[n - 1]) THEN links_[n - 1]
            ELSE LET line == Pick(o, known, {k.line : k \in links_[n - 1]}, g, n)
                 IN  IF line = 0 THEN links_[n - 1]
                     ELSE links_[n - 1] \cup {[group |-> g, item |-> n, line |-> line, qty |-> Share[g][n]]}
    IN  links_[NumItems]

(* newShippingLineID: a line that was not there before, by its title first. *)
NewShippingLine(before, after, g) ==
    LET new   == {s \in after : s.id \notin {b.id : b \in before}}
        named == {s \in new : s.title = Title[g]}
    IN  IF named # {} THEN Min({s.id : s \in named})
        ELSE IF new # {} THEN Min({s.id : s \in new}) ELSE 0

(* findShippingLine: by its stored id, else the only line of that title.    *)
CurrentShipping(g) ==
    LET stored == {s \in order.ship : s.id = shipment[g].line}
        named  == {s \in order.ship : s.title = Title[g]}
    IN  IF stored # {} THEN stored ELSE IF Cardinality(named) = 1 THEN named ELSE {}

(* CompleteOrderEditBalance.                                                *)
Completed(g, o, known, before, applied, expected) ==
    /\ shipment' = [shipment EXCEPT ![g] =
                      [@ EXCEPT !.claimed = TRUE, !.sent = TRUE, !.applied = applied,
                                !.expected = expected, !.line = NewShippingLine(before, o.ship, g)]]
    /\ links' = links \cup Matched(o, known, g)
----------------------------------------------------------------------------
NoRow == [price |-> 0, applied |-> 0, claimed |-> FALSE, sent |-> FALSE, paid |-> FALSE,
          expected |-> 0, folded |-> 0, line |-> 0]

BillInit ==
    /\ order = [lines |-> DraftLines, ship |-> DraftShipping]
    /\ paid = LineTotal([lines |-> DraftLines]) + ShipTotal([ship |-> DraftShipping])
    /\ catalog \in [{Variant[i] : i \in Items} -> CatalogPrices]
    /\ shipment = [g \in Groups |-> NoRow]
    /\ links = {}
    /\ edits = 0 /\ faults = 0

(* UpdatePreorderShipping before the balance is billed.                     *)
UpdateShipping(g, p) ==
    /\ ~ shipment[g].claimed /\ p # shipment[g].price
    /\ shipment' = [shipment EXCEPT ![g].price = p]
    /\ UNCHANGED <<order, paid, catalog, links, edits, faults>>

(* requestSecondPaymentByOrderEdit up to the claim: no other group is being *)
(* billed, nothing is owed, the edit can be planned and no website price is *)
(* above the catalog.                                                       *)
OthersClear(g) == \A h \in Groups \ {g} : shipment[h].claimed => shipment[h].paid
Requestable(g) ==
    /\ ~ shipment[g].claimed /\ shipment[g].price # 0
    /\ OthersClear(g) /\ Owed <= 0
    /\ Plannable(g) /\ NotAboveCatalog(g)

(* Nothing is committed unless Shopify would bill what was planned.         *)
CanBill(g) == Requestable(g) /\ edits < MaxEdits /\ Owes(Applied(g)) = Owed + Increase(g)

(* ClaimOrderEditBalance.                                                   *)
Claimed(g) == [shipment[g] EXCEPT !.claimed = TRUE, !.expected = Owed + Increase(g),
                                  !.folded = Fold(Allocated(g))]

RequestByOrderEdit(g) ==
    /\ CanBill(g)
    /\ order' = Applied(g) /\ edits' = edits + 1
    /\ shipment' = [shipment EXCEPT ![g] =
                      [Claimed(g) EXCEPT !.sent = TRUE, !.applied = Allocated(g),
                                         !.line = NewShippingLine(order.ship, Applied(g).ship, g)]]
    /\ links' = links \cup Matched(Applied(g), DOMAIN order.lines, g)
    /\ UNCHANGED <<paid, catalog, faults>>

(* The commit landed and the answer, the reload or the save failed, or it   *)
(* did not land; the claim stays in the row.                                *)
InterruptedEdit(g, landed) ==
    /\ CanBill(g) /\ faults < MaxFaults
    /\ faults' = faults + 1 /\ edits' = edits + 1
    /\ order' = IF landed THEN Applied(g) ELSE order
    /\ shipment' = [shipment EXCEPT ![g] = Claimed(g)]
    /\ UNCHANGED <<paid, catalog, links>>

(* The request made again finds that nothing is owed and gives the claim up.*)
ReleaseOrderEditBalanceClaim(g) ==
    /\ shipment[g].claimed /\ ~ shipment[g].sent
    /\ OthersClear(g) /\ Owed <= 0
    /\ shipment' = [shipment EXCEPT ![g] =
                      [@ EXCEPT !.claimed = FALSE, !.expected = 0, !.folded = 0]]
    /\ UNCHANGED <<order, paid, catalog, links, edits, faults>>

(* Mutant: lines already linked to another group are not left out.          *)
AdoptAnyLine(g) ==
    /\ shipment[g].claimed /\ ~ shipment[g].sent
    /\ OthersClear(g) /\ Owed > 0 /\ Owed = shipment[g].expected
    /\ Completed(g, order, {}, {}, Allocated(g), shipment[g].expected)
    /\ UNCHANGED <<order, paid, catalog, edits, faults>>

(* adoptOrderEditBalance: the request made again finds its edit by what the *)
(* order owes.  Lines stored with the items or linked before are known; of  *)
(* the shipping lines before the edit nothing is.                           *)
AdoptOrderEditBalance(g) ==
    /\ shipment[g].claimed /\ ~ shipment[g].sent
    /\ OthersClear(g) /\ Owed > 0 /\ Owed = shipment[g].expected
    /\ Completed(g, order, Stored \cup {k.line : k \in links}, {}, Allocated(g), shipment[g].expected)
    /\ UNCHANGED <<order, paid, catalog, edits, faults>>

(* Mutant: what was folded into the line is forgotten.                      *)
RepriceWithoutFold(g, p) == Rest(g, p, RepricedApplied(g, p))

RepricedShipping(g, p) == Rest(g, p, RepricedApplied(g, p)) + shipment[g].folded

(* repriceOrderEditBalance, then UpdateInvoicedPreorderShipping.            *)
RepriceOrderEditBalance(g, p) ==
    LET row     == shipment[g]
        current == CurrentShipping(g)
        removed == [order EXCEPT !.ship = @ \ current]
        new     == RepricedShipping(g, p)
        staged  == IF new > 0 THEN AddOrderEditShippingLine(removed, g, new) ELSE removed
    IN  /\ shipment[g].sent /\ ~ shipment[g].paid /\ p # shipment[g].price
        /\ Owed > 0 /\ edits < MaxEdits
        /\ Billable(g) # {} \/ p > RepricedApplied(g, p)
        /\ order' = staged /\ edits' = edits + 1
        /\ shipment' = [shipment EXCEPT ![g] =
              [row EXCEPT !.price = p, !.applied = RepricedApplied(g, p),
                          !.expected = IF staged = order THEN row.expected ELSE Owes(staged),
                          !.line = IF staged = order THEN row.line
                                   ELSE NewShippingLine(order.ship, staged.ship, g)]]
        /\ UNCHANGED <<paid, catalog, links, faults>>

(* The customer pays what is owed through the link of a finished request;   *)
(* BalanceEdit lets the payment come earlier.                               *)
Pay ==
    /\ Owed > 0 /\ \E g \in Groups : shipment[g].sent /\ ~ shipment[g].paid
    /\ paid' = paid + Owed
    /\ UNCHANGED <<order, catalog, shipment, links, edits, faults>>

ReconcileOrderEditBalance ==
    LET awaiting == {g \in Groups : shipment[g].sent /\ ~ shipment[g].paid}
    IN  /\ awaiting # {} /\ Owed <= 0
        /\ shipment' = [g \in Groups |-> [shipment[g] EXCEPT !.paid = @ \/ g \in awaiting]]
        /\ UNCHANGED <<order, paid, catalog, links, edits, faults>>

BillNext ==
    \/ \E g \in Groups, p \in 1 .. MaxPrice : UpdateShipping(g, p) \/ RepriceOrderEditBalance(g, p)
    \/ \E g \in Groups : RequestByOrderEdit(g) \/ AdoptOrderEditBalance(g)
                         \/ ReleaseOrderEditBalanceClaim(g)
    \/ \E g \in Groups, landed \in BOOLEAN : InterruptedEdit(g, landed)
    \/ Pay \/ ReconcileOrderEditBalance

BillSpec == BillInit /\ [][BillNext]_billVars

(* The interrupted edits the code finishes as it should: the prices of the  *)
(* other groups rest while one is under way, and the group has a shipping   *)
(* line of its own to find.                                                 *)
Interrupted == \E g \in Groups : shipment[g].claimed /\ ~ shipment[g].sent
Orderly ==
    /\ Interrupted => \A g \in Groups : shipment'[g].price = shipment[g].price
    /\ \A g \in Groups : ~ shipment[g].claimed /\ shipment'[g].claimed /\ ~ shipment'[g].sent
            => order' = order \/ \E s \in order'.ship : s.group = g
OrderlySpec == BillInit /\ [][BillNext /\ Orderly]_billVars

(* "The batch name keeps the lines of different groups apart on one order": *)
(* so it does if batches of different variants are not named alike.         *)
TitlesApart == \A g \in Groups : Title[g] # Nothing /\ \A h \in Groups \ {g} : Title[h] # Title[g]
----------------------------------------------------------------------------
(* What the app plans is what Shopify charges: no edit that can be planned  *)
(* is thrown away as balance_mismatch, whatever was billed before.          *)
PlanIsApplied == \A g \in Groups : Requestable(g) => Owes(Applied(g)) = Owed + Increase(g)

(* The order and the rows tell the same story: while no edit is interrupted *)
(* the order amounts to the deposits of the units not billed yet, the full  *)
(* price of those that are, what was bought at once, the half of the        *)
(* shipping, and for each group billed its shipping less the part of the    *)
(* half it used.  So nothing is billed twice, forgotten or folded away.     *)
Billed == {g \in Groups : shipment[g].sent}
GroupBill(g) == Total([i \in Items |-> AppBalance(g, i)], Items)
                + shipment[g].price - shipment[g].applied
AtCheckout == LineTotal([lines |-> DraftLines]) + ShipTotal([ship |-> DraftShipping])
BillMatchesRows ==
    (\A g \in Groups : shipment[g].claimed => shipment[g].sent)
        => LineTotal(order) + ShipTotal(order) = AtCheckout + Total([g \in Billed |-> GroupBill(g)], Billed)

(* Every unit billed is linked to the line that was added for it, once, and *)
(* the shipping line stored for a group is its own, if it has one: what     *)
(* tracking and re-pricing then act on.                                     *)
OwnLines ==
    /\ \A k \in links : /\ order.lines[k.line].group = k.group
                         /\ order.lines[k.line].item = k.item
                         /\ order.lines[k.line].qty = k.qty
    /\ \A g \in Billed : {i \in Items : \E k \in links : k.group = g /\ k.item = i} = Billable(g)
    /\ \A g \in Billed : {s \in order.ship : s.group = g} = {s \in order.ship : s.id = shipment[g].line}

=============================================================================
