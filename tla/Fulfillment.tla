---------------------------- MODULE Fulfillment ----------------------------
(***************************************************************************)
(* Shipping a paid order: internal/order (accept, cancel, ship, deliver)   *)
(* and the fulfillment events of Shopify in internal/webhook.  The order   *)
(* has lines that are ready and pre-order lines, whose units are billed in *)
(* groups.  A part is a line of the Shopify order: the line the order was  *)
(* placed with (for a pre-order its deposit), or the goods that the        *)
(* balance edit of a group put in its place.  Shopify keeps what is left   *)
(* of each part to be fulfilled, the service a copy.  The edits and the    *)
(* payments are here as they leave the order; how they come about is in    *)
(* BalanceEdit and GroupInvoices.                                          *)
(***************************************************************************)
EXTENDS Sequences, Totals

CONSTANTS
    Ready,        \* the ship-ready lines of the order
    Pre,          \* its pre-order lines
    Groups,       \* the groups of the pre-order units
    UnitsIn,      \* UnitsIn[g][l]: units of line l in group g
    Qty,          \* Qty[l]: units ordered
    Requests,     \* admin requests in flight at once
    MaxShips,     \* bound: fulfillments in Shopify
    MaxRecords,   \* bound: fulfillments recorded by the service
    MaxFaults,    \* bound: failures, lost replies, events sent twice
    MaxAsked,     \* bound: requests of admins, here and in Shopify, with the faults
    None          \* no group, no part, no copy

Lines == Ready \cup Pre
Parts == (Lines \X {None}) \cup (Pre \X Groups)
Ships == 1 .. MaxShips
NoUnits == [x \in Parts |-> 0]
Of(l)   == {x \in Parts : x[1] = l}

ASSUME LinesAssumption == Ready \cap Pre = {} /\ Qty \in [Lines -> Nat \ {0}]
ASSUME UnitsAssumption == UnitsIn \in [Groups -> [Pre -> Nat]]
ASSUME NoneAssumption  == None \notin Groups /\ None \notin Nat
ASSUME FiniteAssumption == IsFiniteSet(Lines) /\ IsFiniteSet(Groups)
ASSUME BoundsAssumption == MaxShips \in Nat

VARIABLES
    together,     \* the customer wants everything shipped together
    item,         \* item[l]: the row of the order line
    order,        \* the status of the order
    edited,       \* groups whose balance edit is in the Shopify order
    paid,         \* groups whose balance is paid
    remaining,    \* Shopify: remaining[x], units of part x to be fulfilled
    ship,         \* Shopify: ship[k], a fulfillment
    events,       \* Shopify: events to be delivered
    copy,         \* copy[x]: the service's copy of remaining[x]
    record,       \* the service's fulfillments
    req,          \* req[r]: what admin request r is doing
    push,         \* ship-ready lines are about to be fulfilled in Shopify
    blind,        \* history: units were recorded without asking Shopify
    byHand,       \* history: a status was set by hand
    asked,        \* history: admin requests so far
    faults        \* history: faults so far

rows  == <<item, order>>
shop  == <<remaining, ship, events>>
local == <<copy, record>>
bill  == <<together, edited, paid>>
past  == <<blind, byHand, asked, faults>>
vars  == <<rows, shop, local, bill, req, push, past>>

Statuses == {"paid", "on_progress", "payment_received", "shipped", "delivered", "cancelled"}
Item     == [status: Statuses, step: 1 .. 5, received: Nat]
Ship     == [state: {"none", "moving", "arrived"}, by: Groups \cup {None}, tracked: BOOLEAN,
             units: [Parts -> Nat]]
Event    == [ship: Ships, arrived: BOOLEAN]
Record   == [ship: {0} \cup Ships, group: Groups \cup {None}, delivered: BOOLEAN, units: [Pre -> Nat]]
Request  == [step: {"idle", "sync", "ship", "record", "cancel"}, group: Groups \cup {None},
             line: Lines \cup {None}, units: Nat, part: Parts \cup {None}, ship: {0} \cup Ships,
             kind: {"ready", "pre"}, all: BOOLEAN]

NoShip    == [state |-> "none", by |-> None, tracked |-> TRUE, units |-> NoUnits]
NoRequest == [step |-> "idle", group |-> None, line |-> None, units |-> 0, part |-> None,
              ship |-> 0, kind |-> "pre", all |-> FALSE]

At(r, s)     == req[r].step = s
Idle(r)      == At(r, "idle")
Become(r, q) == req' = [req EXCEPT ![r] = q]
Finish(r)    == Become(r, NoRequest)
Fault        == faults < MaxFaults /\ asked + faults < MaxAsked /\ faults' = faults + 1
                /\ UNCHANGED <<blind, byHand, asked>>
Asks         == asked + faults < MaxAsked /\ asked' = asked + 1
Least(a, b)  == IF a < b THEN a ELSE b
Most(a, b)   == IF a < b THEN b ELSE a
OfKind(k)    == IF k = "ready" THEN Ready ELSE Pre

(* The statements that write lines of the order, by their kind or their id. *)
SetItems(new) == item' = [l \in Lines |-> IF l \in DOMAIN new THEN new[l] ELSE item[l]]

(* Mutant: what is on its way counts as delivered.                          *)
AllShipped(rs) == \A l \in Lines : rs[l].status \in {"shipped", "delivered"}

AllDelivered(rs) == \A l \in Lines : rs[l].status = "delivered"

Recorded(l)  == Total([n \in DOMAIN record |-> record[n].units[l]], DOMAIN record)
PaidUnits(l) == Total([g \in Groups |-> UnitsIn[g][l]], paid)
----------------------------------------------------------------------------
(* What the balances leave behind: an edit puts goods in place of deposit   *)
(* units that are still to be fulfilled; a payment that covers a line moves *)
(* it on.                                                                   *)
EditBalance(g) ==
    /\ g \notin edited \cup paid
    /\ \A l \in Pre : remaining[<<l, None>>] >= UnitsIn[g][l]
    /\ edited' = edited \cup {g}
    /\ remaining' = [x \in Parts |-> IF x[1] \in Pre /\ x[2] = None THEN remaining[x] - UnitsIn[g][x[1]]
                                     ELSE IF x[2] = g THEN UnitsIn[g][x[1]] ELSE remaining[x]]
    /\ UNCHANGED <<rows, ship, events, local, together, paid, req, push, past>>

PayBalance(g) ==
    /\ g \notin paid
    /\ paid' = paid \cup {g}
    /\ SetItems([l \in {k \in Pre : Total([h \in Groups |-> UnitsIn[h][k]], paid \cup {g}) >= Qty[k]} |->
                   [item[l] EXCEPT !.status = "payment_received", !.step = 4]])
    /\ UNCHANGED <<order, shop, local, together, edited, req, push, past>>
----------------------------------------------------------------------------
(* AcceptOrder.                                                             *)
Acceptable == order \in {"processing", "on_progress"}

(* IsShipTogetherHoldActive.                                                *)
HoldActive ==
    together /\ \E l \in Pre : item[l].step < 4
                               /\ item[l].status \notin {"payment_received", "shipped", "delivered"}

AcceptReady ==
    /\ Acceptable /\ ~ HoldActive
    /\ order' = "on_progress"
    /\ SetItems([l \in Ready |-> [item[l] EXCEPT !.status = "on_progress", !.step = 2]])
    /\ push' = TRUE
    /\ Asks
    /\ UNCHANGED <<shop, local, bill, req, blind, byHand, faults>>

AcceptPre ==
    /\ Acceptable
    /\ order' = "on_progress"
    /\ SetItems([l \in Pre |-> [item[l] EXCEPT !.status = "on_progress"]])
    /\ Asks
    /\ UNCHANGED <<shop, local, bill, req, push, blind, byHand, faults>>

Free(k) == ship[k].state = "none" /\ \A j \in 1 .. k - 1 : ship[j].state # "none"

Ships1(k, units, by, tracked) ==
    /\ ship' = [ship EXCEPT ![k] = [state |-> "moving", by |-> by, tracked |-> tracked, units |-> units]]
    /\ remaining' = [x \in Parts |-> remaining[x] - units[x]]
    /\ events' = events \cup {[ship |-> k, arrived |-> FALSE]}

(* CreateFulfillment, in the background: every open fulfillment order, with *)
(* all that is left in it, without tracking.                                *)
PushReady(k) ==
    /\ push /\ push' = FALSE
    /\ \/ /\ Free(k) /\ \E x \in Parts : remaining[x] > 0
          /\ Ships1(k, remaining, None, FALSE)
          /\ UNCHANGED past
       \/ Fault /\ UNCHANGED shop
       \/ (\A x \in Parts : remaining[x] = 0) /\ UNCHANGED <<shop, past>>
    /\ UNCHANGED <<rows, local, bill, req>>
----------------------------------------------------------------------------
(* CreatePreorderFulfillment, of one line.  isPreorderLineReadyForFulfill-  *)
(* ment: at step 4, or as many units are paid.                              *)
LineReady(l, q) == item[l].step >= 4 \/ PaidUnits(l) >= q

StartFulfillment(r, g, l, q) ==
    /\ Idle(r) /\ LineReady(l, q)
    /\ Become(r, [NoRequest EXCEPT !.step = "sync", !.group = g, !.line = l, !.units = q])
    /\ Asks
    /\ UNCHANGED <<rows, shop, local, bill, push, blind, byHand, faults>>

(* SyncFulfillmentOrdersFromShopify: what is still a line of the order.     *)
Listed(x) == IF x[2] = None THEN Total([g \in Groups |-> UnitsIn[g][x[1]]], edited) < Qty[x[1]]
                            ELSE x[2] \in edited
(* UpsertFulfillmentOrder: a line that is told has its row written, one     *)
(* that is not keeps the row it has.                                        *)
UpsertFulfillmentOrder(told) == [x \in Parts |-> IF x \in told THEN remaining[x] ELSE copy[x]]

Synced == UpsertFulfillmentOrder({x \in Parts : x[1] \in Pre /\ Listed(x)})

(* Mutant: any line of the item will do.                                    *)
AnyLine(g, l, c) == {x \in Of(l) : c[x] # None}

(* groupFulfillmentLines: the goods of the group's own edit, or else a line *)
(* that no edit added.                                                      *)
GroupLines(g, l, c) ==
    {x \in Of(l) : c[x] # None /\ IF g \in edited THEN x[2] = g ELSE x[2] = None}

(* pickBestFOLIByLineItem.                                                  *)
Best(x, S, c) == x \in S /\ \A y \in S : c[y] <= c[x]

(* What is left in Shopify decides; when nothing is, the units are recorded *)
(* by the service alone, within what it has not recorded yet.               *)
PickLine(r, c) ==
    LET q == req[r].units
        l == req[r].line
        S == GroupLines(req[r].group, l, c) IN
    \/ /\ S = {} /\ req[r].group \notin edited
       /\ Become(r, [req[r] EXCEPT !.step = "record"])
    \/ /\ S = {} /\ req[r].group \in edited
       /\ Finish(r)
    \/ \E x \in S : /\ Best(x, S, c)
                    /\ \/ c[x] >= q /\ Become(r, [req[r] EXCEPT !.step = "ship", !.part = x])
                       \/ c[x] > 0 /\ c[x] < q /\ Finish(r)
                       \/ /\ c[x] = 0 /\ Recorded(l) + q <= Qty[l]
                          /\ Become(r, [req[r] EXCEPT !.step = "record"])
                       \/ c[x] = 0 /\ Recorded(l) + q > Qty[l] /\ Finish(r)

SyncAndPick(r) ==
    /\ At(r, "sync")
    /\ \/ copy' = Synced /\ PickLine(r, Synced) /\ UNCHANGED past
       \/ Fault /\ PickLine(r, copy) /\ UNCHANGED copy
    /\ UNCHANGED <<rows, shop, record, bill, push>>

(* CreateFulfillmentV2: Shopify refuses what it has not left.  The reply    *)
(* may be lost.                                                             *)
ShipUnits(r, k) ==
    /\ At(r, "ship")
    /\ IF remaining[req[r].part] >= req[r].units
       THEN /\ Free(k)
            /\ Ships1(k, [NoUnits EXCEPT ![req[r].part] = req[r].units], req[r].group, TRUE)
            /\ \/ Become(r, [req[r] EXCEPT !.step = "record", !.ship = k]) /\ UNCHANGED past
               \/ Finish(r) /\ Fault
       ELSE Finish(r) /\ UNCHANGED <<shop, past>>
    /\ UNCHANGED <<rows, local, bill, push>>

(* Mutant: the shipment is recorded whether or not it already is.           *)
InsertRecord(k, g, d, units) ==
    /\ Len(record) < MaxRecords
    /\ record' = Append(record, [ship |-> k, group |-> g, delivered |-> d, units |-> units])

(* UpsertFulfillmentByShopifyID.                                            *)
Upsert(k, g, d, units) ==
    LET old == {n \in DOMAIN record : k # 0 /\ record[n].ship = k} IN
    IF old = {}
    THEN /\ Len(record) < MaxRecords
         /\ record' = Append(record, [ship |-> k, group |-> g, delivered |-> d, units |-> units])
    ELSE record' = [n \in DOMAIN record |->
                      IF n \in old
                      THEN [record[n] EXCEPT !.delivered = d, !.group = IF g = None THEN @ ELSE g]
                      ELSE record[n]]

(* DecrementFOLIRemaining.                                                  *)
Less(c, q) == IF c # None /\ c >= q THEN c - q ELSE c

RecordFulfillment(r) ==
    /\ At(r, "record")
    /\ LET l == req[r].line
           q == req[r].units IN
       /\ Upsert(req[r].ship, req[r].group, FALSE, [m \in Pre |-> IF m = l THEN q ELSE 0])
       /\ copy' = [x \in Parts |-> IF x = req[r].part THEN Less(copy[x], q) ELSE copy[x]]
       /\ SetItems([k \in {l} |-> [item[k] EXCEPT !.status = "shipped", !.step = 4]])
    /\ blind' = (blind \/ req[r].ship = 0)
    /\ Finish(r)
    /\ UNCHANGED <<order, shop, bill, push, byHand, asked, faults>>

(* The request ends on an error, or with the server.                        *)
Abandon(r) ==
    /\ ~ Idle(r) /\ Fault /\ Finish(r)
    /\ UNCHANGED <<rows, shop, local, bill, push>>
----------------------------------------------------------------------------
(* Shopify: units are fulfilled there, or by its warehouse; a carrier       *)
(* delivers; an event is sent again when the fulfillment is updated.        *)
FulfillInShopify(k, x, q) ==
    /\ Free(k) /\ q <= remaining[x]
    /\ Ships1(k, [NoUnits EXCEPT ![x] = q], None, TRUE)
    /\ Asks
    /\ UNCHANGED <<rows, local, bill, req, push, blind, byHand, faults>>

Arrive(k) ==
    /\ ship[k].state = "moving" /\ ship[k].tracked
    /\ ship' = [ship EXCEPT ![k].state = "arrived"]
    /\ events' = events \cup {[ship |-> k, arrived |-> TRUE]}
    /\ UNCHANGED <<rows, remaining, local, bill, req, push, past>>

SendAgain(k) ==
    /\ ship[k].state # "none"
    /\ faults < MaxFaults /\ asked + faults < MaxAsked /\ faults' = faults + 1
    /\ events' = events \cup {[ship |-> k, arrived |-> ship[k].state = "arrived"]}
    /\ UNCHANGED <<rows, remaining, ship, local, bill, req, push, blind, byHand, asked>>

(* Mutant: goods are matched by their variant only.                         *)
MatchedByVariant(k) == [l \in Lines |-> IF l \in Ready THEN ship[k].units[<<l, None>>] ELSE 0]

(* HandleFulfillment.  A fulfillment without tracking counts as delivered;  *)
(* the deposit of a pre-order has no variant and matches no line.           *)
Matched(k) == [l \in Lines |-> Total(ship[k].units, {x \in Of(l) : l \in Ready \/ x[2] # None})]
Counted(i, n, q) == [i EXCEPT !.received = Most(n, Least(q, @ + n))]
StepOf(l, d)     == (IF l \in Pre THEN 4 ELSE 3) + (IF d THEN 1 ELSE 0)

Touched(k, d) ==
    [l \in Lines |->
       IF Matched(k)[l] = 0 THEN item[l]
       ELSE LET i == [item[l] EXCEPT !.status = IF d THEN "delivered" ELSE "shipped",
                                     !.step = StepOf(l, d)] IN
            IF d THEN Counted(i, Matched(k)[l], Qty[l]) ELSE i]

(* The copies of a line are reduced once for each part of it that was       *)
(* shipped, by the units of the first.                                      *)
GoodsIn(k, l) == {x \in Of(l) : x[2] # None /\ ship[k].units[x] > 0}
LessOften(c, q, n) ==
    LET left[i \in 0 .. n] == IF i = 0 THEN c ELSE Less(left[i - 1], q) IN left[n]

RecordShipment(k, d) ==
    LET m == Matched(k) IN
    IF \A l \in Pre : m[l] = 0
    THEN UNCHANGED local
    ELSE /\ Upsert(k, None, d, [l \in Pre |-> m[l]])
         /\ \E first \in [Pre -> Parts] :
              /\ \A l \in Pre : m[l] > 0 => first[l] \in GoodsIn(k, l)
              /\ copy' = [x \in Parts |->
                   IF x[1] \in Pre /\ m[x[1]] > 0
                   THEN LessOften(copy[x], ship[k].units[first[x[1]]], Cardinality(GoodsIn(k, x[1])))
                   ELSE copy[x]]

HandleFulfillment(e) ==
    LET k == e.ship
        d == e.arrived \/ ~ ship[k].tracked IN
    /\ e \in events /\ events' = events \ {e}
    /\ item' = Touched(k, d)
    /\ RecordShipment(k, d)
    /\ order' = IF AllDelivered(item') THEN "completed"
                ELSE IF order = "completed" THEN order ELSE "on_progress"
    /\ UNCHANGED <<remaining, ship, bill, req, push, past>>

(* Its errors are logged, and the event is taken for handled.               *)
LoseEvent(e) ==
    /\ e \in events /\ Fault
    /\ events' = events \ {e}
    /\ UNCHANGED <<rows, remaining, ship, local, bill, req, push>>
----------------------------------------------------------------------------
(* computeRemainingQuantity.                                                *)
LeftOf(l, rs) ==
    LET left == Qty[l] - Least(Qty[l], Recorded(l))
        S    == {x \in Of(l) : copy[x] # None} IN
    IF S = {} THEN left
    ELSE LET most == CHOOSE n \in {copy[x] : x \in S} : \A x \in S : copy[x] <= n IN
         IF most = 0 /\ Recorded(l) = 0 THEN left ELSE Least(most, left)

(* fulfillmentEventCreate.                                                  *)
CreateFulfillmentEvent(k) ==
    /\ ship' = [ship EXCEPT ![k].state = "arrived"]
    /\ events' = events \cup {[ship |-> k, arrived |-> TRUE]}

(* MarkFulfillmentDelivered: Shopify is told first, and tells it back.  The *)
(* order is complete when nothing of its pre-orders is missing.             *)
MarkDelivered(n) ==
    LET k  == record[n].ship
        us == record[n].units
        rs == [l \in Lines |->
                 IF l \in Pre /\ us[l] > 0
                 THEN Counted([item[l] EXCEPT !.status = "delivered", !.step = 5], us[l], Qty[l])
                 ELSE item[l]] IN
    /\ ~ record[n].delivered
    /\ record' = [record EXCEPT ![n].delivered = TRUE]
    /\ IF k = 0 THEN UNCHANGED <<ship, events>>
       ELSE CreateFulfillmentEvent(k)
    /\ item' = rs
    /\ order' = IF \A l \in Pre : rs[l].received >= Qty[l]
                                  /\ (rs[l].status = "delivered" \/ LeftOf(l, rs) = 0)
                THEN "completed" ELSE order
    /\ Asks
    /\ UNCHANGED <<remaining, copy, bill, req, push, blind, byHand, faults>>
----------------------------------------------------------------------------
(* CancelOrder: the lines of one kind, and the order when those of the      *)
(* other kind were read as cancelled.                                       *)
StartCancel(r, kind) ==
    /\ Idle(r)
    /\ Become(r, [NoRequest EXCEPT !.step = "cancel", !.kind = kind,
                    !.all = \A l \in Lines \ OfKind(kind) : item[l].status = "cancelled"])
    /\ Asks
    /\ UNCHANGED <<rows, shop, local, bill, push, blind, byHand, faults>>

CancelLines(r) ==
    /\ At(r, "cancel")
    /\ SetItems([l \in OfKind(req[r].kind) |-> [item[l] EXCEPT !.status = "cancelled"]])
    /\ order' = IF req[r].all THEN "cancelled" ELSE order
    /\ Finish(r)
    /\ UNCHANGED <<shop, local, bill, push, past>>

(* UpdateItemsReceived, AddTrackingNumber and UpdateFulfillmentStep: set by *)
(* hand, whatever the rest says.                                            *)
ByHand == Asks /\ byHand' = TRUE /\ UNCHANGED <<blind, faults>>

UpdateItemsReceived(l, n) ==
    /\ ByHand
    /\ SetItems([k \in {l} |-> [status |-> "delivered", step |-> StepOf(l, TRUE), received |-> n]])
    /\ order' = IF AllDelivered(item') THEN "completed" ELSE order
    /\ UNCHANGED <<shop, local, bill, req, push>>

AddTrackingNumber(l) ==
    /\ ByHand
    /\ SetItems([k \in {l} |-> [item[k] EXCEPT !.status = "shipped", !.step = StepOf(l, FALSE)]])
    /\ UNCHANGED <<order, shop, local, bill, req, push>>

UpdateFulfillmentStep(l, n) ==
    /\ ByHand
    /\ SetItems([k \in {l} |-> [item[k] EXCEPT !.step = n]])
    /\ UNCHANGED <<order, shop, local, bill, req, push>>
----------------------------------------------------------------------------
Init ==
    /\ together \in BOOLEAN
    /\ item = [l \in Lines |-> [status |-> "paid", step |-> 1, received |-> 0]]
    /\ order = "processing" /\ edited = {} /\ paid = {}
    /\ remaining = [x \in Parts |-> IF x[2] = None THEN Qty[x[1]] ELSE 0]
    /\ ship = [k \in Ships |-> NoShip] /\ events = {}
    /\ copy = [x \in Parts |-> None] /\ record = <<>>
    /\ req = [r \in Requests |-> NoRequest] /\ push = FALSE
    /\ blind = FALSE
    /\ byHand = FALSE /\ asked = 0 /\ faults = 0

CreatePreorderFulfillment(r) ==
    \/ \E g \in Groups, l \in Pre : \E q \in 1 .. Qty[l] : StartFulfillment(r, g, l, q)
    \/ SyncAndPick(r) \/ (\E k \in Ships : ShipUnits(r, k)) \/ RecordFulfillment(r)

CancelOrder(r) == (\E kind \in {"ready", "pre"} : StartCancel(r, kind)) \/ CancelLines(r)

Shopify ==
    \/ \E k \in Ships, x \in Parts : \E q \in 1 .. Qty[x[1]] : FulfillInShopify(k, x, q)
    \/ \E k \in Ships : Arrive(k) \/ SendAgain(k)

Hand ==
    \E l \in Lines : \/ \E n \in 0 .. Qty[l] : UpdateItemsReceived(l, n)
                     \/ AddTrackingNumber(l)
                     \/ \E n \in {1, 4} : UpdateFulfillmentStep(l, n)   \* 1 .. 5; the code asks for 4

Next ==
    \/ \E g \in Groups : EditBalance(g) \/ PayBalance(g)
    \/ AcceptReady \/ AcceptPre \/ \E k \in Ships : PushReady(k)
    \/ \E r \in Requests : CreatePreorderFulfillment(r) \/ CancelOrder(r) \/ Abandon(r)
    \/ Shopify
    \/ \E e \in events : HandleFulfillment(e) \/ LoseEvent(e)
    \/ \E n \in DOMAIN record : MarkDelivered(n)
    \/ Hand

Spec == Init /\ [][Next]_vars
----------------------------------------------------------------------------
(* "each group must ship its own line even when the other has more units    *)
(* left": a group never ships goods that were billed to another one.        *)
OwnGoods ==
    \A k \in Ships : \A x \in Parts :
        ship[k].by # None /\ ship[k].units[x] > 0 => x[2] \in {None, ship[k].by}

(* A shipment made through the service has one record, whichever of its     *)
(* event and the request comes first, and however often it is told.         *)
RecordedOnce ==
    \A m, n \in DOMAIN record : m # n /\ record[m].ship = record[n].ship => record[m].ship = 0

Arrived(l) ==
    Total([k \in Ships |-> IF ship[k].state = "arrived" \/ ~ ship[k].tracked
                           THEN Total(ship[k].units, Of(l)) ELSE 0], Ships)

(* An order is completed only after something of each of its pre-order      *)
(* lines arrived, or an admin said so.                                      *)
CompletedHasArrived ==
    order = "completed" => byHand \/ blind \/ \A l \in Pre : Arrived(l) > 0

(* When every event was handled and every request answered, goods that were *)
(* shipped, in Shopify or from here, are in a record, unless a call failed. *)
Quiet == events = {} /\ \A r \in Requests : Idle(r)
ShipmentsRecorded ==
    Quiet => \A k \in Ships :
        (\E x \in Parts : x[2] # None /\ ship[k].units[x] > 0)
          => faults > 0 \/ \E n \in DOMAIN record : record[n].ship = k
=============================================================================
