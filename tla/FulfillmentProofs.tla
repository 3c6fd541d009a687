------------------------- MODULE FulfillmentProofs -------------------------
(***************************************************************************)
(* Theorems about Fulfillment, for any order, groups, admins and faults: a *)
(* group ships its own goods (OwnGoods), a shipment is recorded once       *)
(* (RecordedOnce), an order is completed only after something of each of   *)
(* its pre-order lines arrived (CompletedHasArrived), and goods that were  *)
(* shipped end in a record (ShipmentsRecorded).                            *)
(***************************************************************************)
EXTENDS Fulfillment, TotalsProofs, FiniteSetTheorems, SequenceTheorems, TLAPS

(* What the variables look like, but for the copies, whose counting down is *)
(* recursive, and for what no theorem needs.                                *)
Shape ==
    /\ item \in [Lines -> Item]
    /\ remaining \in [Parts -> Nat] /\ ship \in [Ships -> Ship]
    /\ events \in SUBSET Event
    /\ record \in Seq(Record)
    /\ req \in [Requests -> Request]

Has(k, l)  == \E x \in Of(l) : ship[k].units[x] > 0
Exists(k)  == ship[k].state # "none"

(* A request ships a part of its line that is no other group's, and records *)
(* what it shipped.                                                         *)
Serves(r) ==
    /\ req[r].step \in {"sync", "ship", "record"} =>
          req[r].line \in Pre /\ req[r].units > 0 /\ req[r].group \in Groups
    /\ At(r, "sync") => req[r].ship = 0
    /\ At(r, "ship") => req[r].part \in Of(req[r].line) /\ req[r].part[2] \in {None, req[r].group}
    /\ At(r, "record") /\ req[r].ship # 0 => Exists(req[r].ship) /\ Has(req[r].ship, req[r].line)

(* A record is of goods that were shipped, unless units were recorded blind.*)
Filed(n) ==
    IF record[n].ship = 0 THEN blind
    ELSE /\ Exists(record[n].ship)
         /\ \A l \in Pre : record[n].units[l] > 0 => Has(record[n].ship, l)

(* An event tells of a shipment that exists, and of an arrival that was.    *)
Told(e) == Exists(e.ship) /\ (e.arrived => ship[e.ship].state = "arrived")

(* Something of a line arrived, or somebody said so.                        *)
Came(l) ==
    \/ byHand \/ blind
    \/ \E k \in Ships : Exists(k) /\ Has(k, l) /\ (ship[k].state = "arrived" \/ ~ ship[k].tracked)

Serving   == \A r \in Requests : Serves(r)
Filing    == \A n \in DOMAIN record : Filed(n)
Telling   == \A e \in events : Told(e)
Counting  == \A l \in Pre : item[l].status = "delivered" \/ item[l].received > 0 => Came(l)
Completed == order = "completed" => \A l \in Pre : Came(l)

IInv == Shape /\ Serving /\ Filing /\ Telling /\ Counting /\ Completed /\ OwnGoods /\ RecordedOnce
----------------------------------------------------------------------------
LEMMA OfFinite ==
  ASSUME NEW l
  PROVE  IsFiniteSet(Of(l)) /\ Of(l) \subseteq Parts
<1>1. IsFiniteSet(Lines \X {None}) /\ IsFiniteSet(Pre \X Groups)
  <2>1. IsFiniteSet(Pre)
    <3>1. Pre \in SUBSET Lines
      BY DEF Lines
    <3> QED BY <3>1, FiniteAssumption, FS_Subset
  <2>2. IsFiniteSet({None})
    BY FS_Singleton
  <2> QED BY <2>1, <2>2, FiniteAssumption, FS_Product
<1>2. IsFiniteSet(Parts)
  BY <1>1, FS_Union DEF Parts
<1> QED BY <1>2, FS_Subset DEF Of

LEMMA InitHolds == Init => IInv
<1> SUFFICES ASSUME Init
             PROVE  IInv
  OBVIOUS
<1>1. Shape
  <2>1. NoShip \in Ship /\ NoRequest \in Request
    BY DEF NoShip, Ship, NoUnits, NoRequest, Request
  <2>2. [status |-> "paid", step |-> 1, received |-> 0] \in Item
    BY DEF Item, Statuses
  <2>3. remaining \in [Parts -> Nat]
    BY LinesAssumption DEF Init, Parts, Lines
  <2>4. item \in [Lines -> Item] /\ ship \in [Ships -> Ship] /\ req \in [Requests -> Request]
    BY <2>1, <2>2 DEF Init
  <2>5. record \in Seq(Record) /\ events \in SUBSET Event
    BY DEF Init
  <2> QED BY <2>3, <2>4, <2>5 DEF Shape
<1>2. Serving
  BY DEF Init, Serving, Serves, At, NoRequest
<1>3. Filing /\ Telling /\ RecordedOnce
  BY DEF Init, Filing, Telling, RecordedOnce
<1>4. Counting /\ Completed
  BY DEF Init, Counting, Completed, Lines
<1>5. OwnGoods
  BY DEF Init, OwnGoods, NoShip
<1> QED BY <1>1, <1>2, <1>3, <1>4, <1>5 DEF IInv
----------------------------------------------------------------------------
(* What Shopify has shipped stays shipped: the goods, their group and their *)
(* arrival.                                                                 *)
Ever(k) ==
    /\ Exists(k)'
    /\ ship'[k].units = ship[k].units /\ ship'[k].by = ship[k].by
    /\ ship'[k].tracked = ship[k].tracked
    /\ ship[k].state = "arrived" => ship'[k].state = "arrived"

(* After the step.                                                          *)
ExistsNext(k) == ship'[k].state # "none"
HasNext(k, l) == \E x \in Of(l) : ship'[k].units[x] > 0

Lasting == /\ \A k \in Ships : Exists(k) => Ever(k)
           /\ blind => blind'
           /\ byHand => byHand'

(* A new shipment, and what it leaves in Shopify.                           *)
LEMMA Shipped ==
  ASSUME Shape, NEW k \in Ships, NEW u \in [Parts -> Nat], NEW g \in Groups \cup {None}, NEW t \in BOOLEAN,
         Free(k), Ships1(k, u, g, t), \A x \in Parts : u[x] <= remaining[x]
  PROVE  /\ remaining' \in [Parts -> Nat] /\ ship' \in [Ships -> Ship] /\ events' \in SUBSET Event
         /\ ship'[k] = [state |-> "moving", by |-> g, tracked |-> t, units |-> u]
         /\ \A j \in Ships : j # k => ship'[j] = ship[j]
         /\ \A j \in Ships : Exists(j) => Ever(j)
<1>1. ship'[k] = [state |-> "moving", by |-> g, tracked |-> t, units |-> u]
  BY DEF Ships1, Shape
<1>2. \A j \in Ships : j # k => ship'[j] = ship[j]
  BY DEF Ships1, Shape
<1>3. [state |-> "moving", by |-> g, tracked |-> t, units |-> u] \in Ship
  BY DEF Ship
<1>4. ship' \in [Ships -> Ship]
  BY <1>3 DEF Ships1, Shape
<1>5. remaining' \in [Parts -> Nat]
  BY DEF Ships1, Shape
<1>6. events' \in SUBSET Event
  <2>1. [ship |-> k, arrived |-> FALSE] \in Event
    BY DEF Event
  <2> QED BY <2>1 DEF Ships1, Shape
<1>7. \A j \in Ships : Exists(j) => Ever(j)
  BY <1>2 DEF Free, Exists, Ever
<1> QED BY <1>1, <1>2, <1>4, <1>5, <1>6, <1>7

(* One unit of one part.                                                    *)
LEMMA OnePart ==
  ASSUME Shape, NEW x \in Parts, NEW q \in Nat, q <= remaining[x]
  PROVE  /\ [NoUnits EXCEPT ![x] = q] \in [Parts -> Nat]
         /\ [NoUnits EXCEPT ![x] = q][x] = q
         /\ \A y \in Parts : y # x => [NoUnits EXCEPT ![x] = q][y] = 0
         /\ \A y \in Parts : [NoUnits EXCEPT ![x] = q][y] <= remaining[y]
  BY DEF NoUnits, Shape

LEMMA ArrivedTyped ==
  ASSUME Shape, NEW k \in Ships, ship' = [ship EXCEPT ![k].state = "arrived"], Exists(k)
  PROVE  ship' \in [Ships -> Ship] /\ \A j \in Ships : Exists(j) => Ever(j)
  BY DEF Shape, Ship, Exists, Ever

(* The actions that ship, and what the others leave of Shopify.             *)
ShipStep ==
    \/ \E k \in Ships : PushReady(k)
    \/ \E r \in Requests, k \in Ships : ShipUnits(r, k)
    \/ \E k \in Ships, x \in Parts : \E q \in 1 .. Qty[x[1]] : FulfillInShopify(k, x, q)

ArriveStep ==
    \/ \E k \in Ships : Arrive(k)
    \/ \E n \in DOMAIN record : MarkDelivered(n)

LEMMA ShipStays ==
  ASSUME [Next]_vars
  PROVE  ship' = ship \/ ShipStep \/ ArriveStep
<1>1. ASSUME NEW g \in Groups, EditBalance(g) \/ PayBalance(g)
      PROVE  ship' = ship
  BY <1>1 DEF EditBalance, PayBalance, shop
<1>2. CASE AcceptReady \/ AcceptPre
  BY <1>2 DEF AcceptReady, AcceptPre, shop
<1>3. ASSUME NEW r \in Requests, CreatePreorderFulfillment(r)
      PROVE  ship' = ship \/ ShipStep
  BY <1>3 DEF CreatePreorderFulfillment, StartFulfillment, SyncAndPick, RecordFulfillment, ShipStep, shop
<1>4. ASSUME NEW r \in Requests, CancelOrder(r) \/ Abandon(r)
      PROVE  ship' = ship
  BY <1>4 DEF CancelOrder, StartCancel, CancelLines, Abandon, shop
<1>5. CASE Shopify
  BY <1>5 DEF Shopify, SendAgain, ShipStep, ArriveStep
<1>6. ASSUME NEW e \in events, HandleFulfillment(e) \/ LoseEvent(e)
      PROVE  ship' = ship
  BY <1>6 DEF HandleFulfillment, LoseEvent
<1>7. CASE Hand
  BY <1>7 DEF Hand, UpdateItemsReceived, AddTrackingNumber, UpdateFulfillmentStep, shop
<1>8. CASE UNCHANGED vars
  BY <1>8 DEF vars, shop
<1> QED BY <1>1, <1>2, <1>3, <1>4, <1>5, <1>6, <1>7, <1>8 DEF Next, ShipStep, ArriveStep

LEMMA PastStays ==
  ASSUME [Next]_vars
  PROVE  (blind => blind') /\ (byHand => byHand')
<1>1. ASSUME NEW g \in Groups, EditBalance(g) \/ PayBalance(g)
      PROVE  UNCHANGED <<blind, byHand>>
  BY <1>1 DEF EditBalance, PayBalance, past
<1>2. ASSUME AcceptReady \/ AcceptPre \/ (\E k \in Ships : PushReady(k))
      PROVE  UNCHANGED <<blind, byHand>>
  BY <1>2 DEF AcceptReady, AcceptPre, PushReady, Fault, past
<1>3. ASSUME NEW r \in Requests, CreatePreorderFulfillment(r)
      PROVE  (blind => blind') /\ byHand' = byHand
  <2>1. CASE RecordFulfillment(r)
    BY <2>1 DEF RecordFulfillment
  <2>2. CASE SyncAndPick(r)
    BY <2>2 DEF SyncAndPick, Fault, past
  <2>3. ASSUME NEW k \in Ships, ShipUnits(r, k)
        PROVE  UNCHANGED <<blind, byHand>>
    BY <2>3 DEF ShipUnits, Fault, past
  <2>4. ASSUME NEW g \in Groups, NEW l \in Pre, NEW q \in 1 .. Qty[l], StartFulfillment(r, g, l, q)
        PROVE  UNCHANGED <<blind, byHand>>
    BY <2>4 DEF StartFulfillment
  <2> QED BY <1>3, <2>1, <2>2, <2>3, <2>4 DEF CreatePreorderFulfillment
<1>4. ASSUME NEW r \in Requests, CancelOrder(r) \/ Abandon(r)
      PROVE  UNCHANGED <<blind, byHand>>
  BY <1>4 DEF CancelOrder, StartCancel, CancelLines, Abandon, Fault, past
<1>5. ASSUME Shopify
      PROVE  UNCHANGED <<blind, byHand>>
  BY <1>5 DEF Shopify, FulfillInShopify, Arrive, SendAgain, past
<1>6. ASSUME NEW e \in events, HandleFulfillment(e) \/ LoseEvent(e)
      PROVE  UNCHANGED <<blind, byHand>>
  BY <1>6 DEF HandleFulfillment, LoseEvent, Fault, past
<1>7. ASSUME NEW n \in DOMAIN record, MarkDelivered(n)
      PROVE  UNCHANGED <<blind, byHand>>
  BY <1>7 DEF MarkDelivered
<1>8. CASE Hand
  BY <1>8 DEF Hand, ByHand, UpdateItemsReceived, AddTrackingNumber, UpdateFulfillmentStep
<1>9. CASE UNCHANGED vars
  BY <1>9 DEF vars, past
<1> QED BY <1>1, <1>2, <1>3, <1>4, <1>5, <1>6, <1>7, <1>8, <1>9 DEF Next

LEMMA MarkShip ==
  ASSUME IInv, NEW n \in DOMAIN record, MarkDelivered(n)
  PROVE  \/ record[n].ship = 0 /\ ship' = ship
         \/ /\ record[n].ship \in Ships /\ Exists(record[n].ship)
            /\ ship' = [ship EXCEPT ![record[n].ship].state = "arrived"]
<1>1. record[n] \in Record
  BY DEF IInv, Shape
<1> QED BY <1>1 DEF MarkDelivered, CreateFulfillmentEvent, IInv, Filing, Filed, Record

(* A step that ships has a part of its own group to ship, or what is left   *)
(* of the order.                                                            *)
Shipping ==
    \E k \in Ships, g \in Groups \cup {None}, t \in BOOLEAN : \E u \in [Parts -> Nat] :
        /\ Free(k) /\ Ships1(k, u, g, t)
        /\ \A x \in Parts : u[x] <= remaining[x]
        /\ \A x \in Parts : g # None /\ u[x] > 0 => x[2] \in {None, g}

LEMMA ShippingOne ==
  ASSUME Shape, NEW k \in Ships, NEW x \in Parts, NEW q \in Nat, q <= remaining[x],
         NEW g \in Groups \cup {None}, g # None => x[2] \in {None, g},
         Free(k), Ships1(k, [NoUnits EXCEPT ![x] = q], g, TRUE)
  PROVE  Shipping
<1> DEFINE u == [NoUnits EXCEPT ![x] = q]
<1>1. /\ u \in [Parts -> Nat]
      /\ \A y \in Parts : y # x => u[y] = 0
      /\ \A y \in Parts : u[y] <= remaining[y]
  BY OnePart
<1>2. Free(k) /\ Ships1(k, u, g, TRUE)
  OBVIOUS
<1> HIDE DEF u
<1>3. \A y \in Parts : g # None /\ u[y] > 0 => y[2] \in {None, g}
  BY <1>1
<1>4. TRUE \in BOOLEAN
  OBVIOUS
<1> QED BY <1>1, <1>2, <1>3, <1>4, Zenon DEF Shipping

LEMMA ShippingHolds ==
  ASSUME IInv, ShipStep
  PROVE  UNCHANGED shop \/ Shipping
<1> USE DEF IInv
<1>1. ASSUME NEW k \in Ships, PushReady(k)
      PROVE  UNCHANGED shop \/ Shipping
  <2>1. CASE Free(k) /\ Ships1(k, remaining, None, FALSE)
    <3>1. remaining \in [Parts -> Nat] /\ \A x \in Parts : remaining[x] <= remaining[x]
      BY DEF Shape
    <3> QED BY <2>1, <3>1 DEF Shipping
  <2> QED BY <1>1, <2>1 DEF PushReady
<1>2. ASSUME NEW r \in Requests, NEW k \in Ships, ShipUnits(r, k)
      PROVE  UNCHANGED shop \/ Shipping
  <2>1. CASE remaining[req[r].part] >= req[r].units
    <3>1. /\ req[r].part \in Parts /\ req[r].units \in Nat /\ req[r].group \in Groups \cup {None}
          /\ req[r].part[2] \in {None, req[r].group}
      BY <1>2 DEF ShipUnits, Serving, Serves, At, Of, Shape, Request
    <3>2. req[r].units <= remaining[req[r].part]
      BY <2>1, <3>1 DEF Shape
    <3>3. Free(k) /\ Ships1(k, [NoUnits EXCEPT ![req[r].part] = req[r].units], req[r].group, TRUE)
      BY <1>2, <2>1 DEF ShipUnits
    <3> QED BY <3>1, <3>2, <3>3, ShippingOne
  <2> QED BY <1>2, <2>1 DEF ShipUnits
<1>3. ASSUME NEW k \in Ships, NEW x \in Parts, NEW q \in 1 .. Qty[x[1]], FulfillInShopify(k, x, q)
      PROVE  Shipping
  <2>1. q \in Nat
    OBVIOUS
  <2> QED BY <1>3, <2>1, ShippingOne DEF FulfillInShopify
<1> QED BY <1>1, <1>2, <1>3 DEF ShipStep

LEMMA LastingHolds ==
  ASSUME IInv, [Next]_vars
  PROVE  Lasting
<1>1. SUFFICES \A k \in Ships : Exists(k) => Ever(k)
  BY PastStays DEF Lasting
<1>2. CASE ship' = ship
  BY <1>2 DEF Exists, Ever
<1>3. CASE Shipping
  BY <1>3, Shipped DEF Shipping, IInv
<1>4. CASE ArriveStep
  <2>1. ASSUME NEW k \in Ships, Arrive(k)
        PROVE  \A j \in Ships : Exists(j) => Ever(j)
    BY <2>1, ArrivedTyped DEF Arrive, Exists, IInv
  <2>2. ASSUME NEW n \in DOMAIN record, MarkDelivered(n)
        PROVE  \A j \in Ships : Exists(j) => Ever(j)
    BY <2>2, MarkShip, ArrivedTyped DEF Exists, Ever, IInv
  <2> QED BY <1>4, <2>1, <2>2 DEF ArriveStep
<1> QED BY <1>2, <1>3, <1>4, ShipStays, ShippingHolds DEF shop

LEMMA HasStays ==
  ASSUME Lasting
  PROVE  \A k \in Ships : Exists(k) => ExistsNext(k) /\ \A l : Has(k, l) => HasNext(k, l)
  BY DEF Lasting, Ever, Exists, ExistsNext, Has, HasNext

LEMMA CameStays ==
  ASSUME IInv, Lasting, NEW l \in Pre, Came(l)
  PROVE  Came(l)'
<1>1. CASE blind \/ byHand
  BY <1>1 DEF Came, Lasting
<1>2. ASSUME NEW k \in Ships, Exists(k), Has(k, l), ship[k].state = "arrived" \/ ~ ship[k].tracked
      PROVE  Came(l)'
  BY <1>2, HasStays DEF Came, Lasting, Ever, Exists, Has, HasNext
<1> QED BY <1>1, <1>2 DEF Came
----------------------------------------------------------------------------
LEMMA OwnGoodsStep ==
  ASSUME IInv, [Next]_vars
  PROVE  OwnGoods' /\ ship' \in [Ships -> Ship]
<1>1. CASE ship' = ship
  BY <1>1 DEF OwnGoods, IInv, Shape
<1>2. CASE Shipping
  <2>1. PICK k \in Ships, g \in Groups \cup {None}, t \in BOOLEAN, u \in [Parts -> Nat] :
          /\ Free(k) /\ Ships1(k, u, g, t)
          /\ \A x \in Parts : u[x] <= remaining[x]
          /\ \A x \in Parts : g # None /\ u[x] > 0 => x[2] \in {None, g}
    BY <1>2 DEF Shipping
  <2>2. /\ ship' \in [Ships -> Ship]
        /\ ship'[k] = [state |-> "moving", by |-> g, tracked |-> t, units |-> u]
        /\ \A j \in Ships : j # k => ship'[j] = ship[j]
    <3>1. Shape /\ Free(k) /\ Ships1(k, u, g, t) /\ \A x \in Parts : u[x] <= remaining[x]
      BY <2>1 DEF IInv
    <3> QED BY <3>1, Shipped
  <2> QED BY <2>1, <2>2 DEF OwnGoods, IInv
<1>3. ASSUME NEW k \in Ships, ship' = [ship EXCEPT ![k].state = "arrived"], Exists(k)
      PROVE  OwnGoods' /\ ship' \in [Ships -> Ship]
  BY <1>3, ArrivedTyped DEF OwnGoods, IInv, Shape, Ship
<1>4. CASE ArriveStep
  <2>1. ASSUME NEW k \in Ships, Arrive(k)
        PROVE  OwnGoods' /\ ship' \in [Ships -> Ship]
    BY <2>1, <1>3 DEF Arrive, Exists
  <2>2. ASSUME NEW n \in DOMAIN record, MarkDelivered(n)
        PROVE  OwnGoods' /\ ship' \in [Ships -> Ship]
    BY <2>2, <1>1, <1>3, MarkShip
  <2> QED BY <1>4, <2>1, <2>2 DEF ArriveStep
<1> QED BY <1>1, <1>2, <1>4, ShipStays, ShippingHolds DEF shop

FiledNext(q) ==
    IF q.ship = 0 THEN blind'
    ELSE ExistsNext(q.ship) /\ \A l \in Pre : q.units[l] > 0 => HasNext(q.ship, l)

LEMMA FiledStays ==
  ASSUME \A n \in DOMAIN record' : FiledNext(record'[n])
  PROVE  Filing'
  BY DEF Filing, Filed, FiledNext, Exists, ExistsNext, Has, HasNext

(* The record that Upsert writes.                                           *)
LEMMA UpsertFiles ==
  ASSUME IInv, Lasting, NEW k \in {0} \cup Ships, NEW g \in Groups \cup {None}, NEW d \in BOOLEAN,
         NEW u \in [Pre -> Nat], Upsert(k, g, d, u), k = 0 => blind',
         k # 0 => ExistsNext(k) /\ \A l \in Pre : u[l] > 0 => HasNext(k, l)
  PROVE  record' \in Seq(Record) /\ Filing' /\ RecordedOnce'
<1> DEFINE old == {n \in DOMAIN record : k # 0 /\ record[n].ship = k}
           new == [ship |-> k, group |-> g, delivered |-> d, units |-> u]
<1>1. record \in Seq(Record) /\ new \in Record
  BY DEF IInv, Shape, Record
<1>2. \A n \in DOMAIN record : FiledNext(record[n])
  <2> TAKE n \in DOMAIN record
  <2>1. record[n] \in Record
    BY <1>1
  <2>2. Filed(n)
    BY DEF IInv, Filing
  <2> QED BY <2>1, <2>2, HasStays DEF Filed, FiledNext, Record, Lasting
<1>3. CASE old = {}
  <2>1. record' = Append(record, new)
    BY <1>3 DEF Upsert
  <2>2. /\ record' \in Seq(Record) /\ DOMAIN record' = DOMAIN record \cup {Len(record) + 1}
        /\ record'[Len(record) + 1] = new
        /\ \A n \in DOMAIN record : record'[n] = record[n]
    BY <1>1, <2>1
  <2>3. Filing'
    BY <1>2, <2>2, FiledStays DEF FiledNext
  <2>4. RecordedOnce'
    BY <1>3, <2>2 DEF RecordedOnce, IInv
  <2> QED BY <2>2, <2>3, <2>4
<1>4. CASE old # {}
  <2>1. record' = [n \in DOMAIN record |->
                     IF n \in old
                     THEN [record[n] EXCEPT !.delivered = d, !.group = IF g = None THEN @ ELSE g]
                     ELSE record[n]]
    BY <1>4 DEF Upsert
  <2>2. \A n \in DOMAIN record : record[n] \in Record
    BY <1>1
  <2>3. DOMAIN record' = DOMAIN record /\ \A n \in DOMAIN record :
          record'[n] \in Record /\ record'[n].ship = record[n].ship /\ record'[n].units = record[n].units
    BY <2>1, <2>2 DEF Record
  <2>4. record' \in Seq(Record)
    <3>1. DOMAIN record = 1 .. Len(record) /\ Len(record) \in Nat
      BY <1>1
    <3>2. record' \in [1 .. Len(record) -> Record]
      BY <2>1, <2>3, <3>1
    <3>3. \E n \in Nat : record' \in [1 .. n -> Record]
      BY <3>1, <3>2
    <3> QED BY <3>3, SeqDef
  <2>5. Filing'
    BY <1>2, <2>3, FiledStays DEF FiledNext
  <2>6. RecordedOnce'
    BY <2>3 DEF RecordedOnce, IInv
  <2> QED BY <2>4, <2>5, <2>6
<1> QED BY <1>3, <1>4
----------------------------------------------------------------------------
LEMMA MatchedHas ==
  ASSUME Shape, NEW k \in Ships
  PROVE  /\ Matched(k) \in [Lines -> Nat]
         /\ \A l \in Lines : Matched(k)[l] # 0 => Has(k, l)
<1> DEFINE S(l) == {x \in Of(l) : l \in Ready \/ x[2] # None}
<1>1. ship[k].units \in [Parts -> Nat]
  BY DEF Shape, Ship
<1>2. ASSUME NEW l \in Lines
      PROVE  Total(ship[k].units, S(l)) \in Nat /\ (Total(ship[k].units, S(l)) # 0 => Has(k, l))
  <2>1. IsFiniteSet(S(l)) /\ \A x \in S(l) : ship[k].units[x] \in Nat
    BY <1>1, OfFinite, FS_Subset
  <2>2. Total(ship[k].units, S(l)) \in Nat
    BY <2>1, TotalType
  <2>3. ASSUME ~ Has(k, l)
        PROVE  Total(ship[k].units, S(l)) = 0
    <3>1. \A x \in S(l) : ship[k].units[x] = 0
      BY <2>1, <2>3 DEF Has
    <3> QED BY <3>1, TotalZero
  <2> QED BY <2>2, <2>3
<1> QED BY <1>2 DEF Matched

LEMMA ItemsTyped ==
  ASSUME Shape, NEW new, SetItems(new), \A l \in DOMAIN new \cap Lines : new[l] \in Item
  PROVE  item' \in [Lines -> Item]
  BY DEF SetItems, Shape

LEMMA CountedTyped ==
  ASSUME NEW i \in Item, NEW n \in Nat, NEW l \in Lines
  PROVE  Counted(i, n, Qty[l]) \in Item /\ Counted(i, n, Qty[l]).status = i.status
<1>1. Qty[l] \in Nat
  BY LinesAssumption
<1>2. Most(n, Least(Qty[l], i.received + n)) \in Nat
  BY <1>1 DEF Most, Least, Item
<1>3. Counted(i, n, Qty[l]) = [i EXCEPT !.received = Most(n, Least(Qty[l], i.received + n))]
  BY DEF Counted, Item
<1> QED BY <1>2, <1>3 DEF Item

LEMMA StepTyped ==
  ASSUME NEW l, NEW d \in BOOLEAN
  PROVE  StepOf(l, d) \in 1 .. 5
  BY DEF StepOf

(* What is counted as arrived, was already or arrives with the step.        *)
LEMMA CountingStays ==
  ASSUME IInv, Lasting,
         \A l \in Pre : \/ Came(l)'
                        \/ item[l].status = "delivered" \/ item[l].received > 0
                        \/ item'[l].status # "delivered" /\ item'[l].received = 0
  PROVE  Counting'
<1> SUFFICES ASSUME NEW l \in Pre, item'[l].status = "delivered" \/ item'[l].received > 0
             PROVE  Came(l)'
  BY DEF Counting
<1>1. CASE item[l].status = "delivered" \/ item[l].received > 0
  BY <1>1, CameStays DEF IInv, Counting
<1> QED BY <1>1

(* The statements that write status and step, but not delivered.            *)
LEMMA SetItemsHolds ==
  ASSUME IInv, Lasting, NEW new, SetItems(new),
         \A l \in DOMAIN new \cap Lines : /\ new[l] \in Item
                                          /\ new[l].status # "delivered"
                                          /\ new[l].received = item[l].received
  PROVE  item' \in [Lines -> Item] /\ Counting'
<1>1. item' \in [Lines -> Item]
  BY ItemsTyped DEF IInv
<1>2. \A l \in Lines : item[l].received \in Nat
  BY DEF IInv, Shape, Item
<1>3. \A l \in Pre : \/ item'[l] = item[l]
                     \/ item'[l].status # "delivered" /\ item'[l].received = item[l].received
  BY DEF SetItems, Lines
<1>4. \A l \in Pre : \/ item[l].status = "delivered" \/ item[l].received > 0
                     \/ item'[l].status # "delivered" /\ item'[l].received = 0
  BY <1>2, <1>3 DEF Lines
<1> QED BY <1>1, <1>4, CountingStays

LEMMA SameItems ==
  ASSUME IInv, Lasting, item' = item
  PROVE  item' \in [Lines -> Item] /\ Counting'
<1>1. \A l \in Pre : item[l].received \in Nat
  BY DEF IInv, Shape, Item, Lines
<1>2. \A l \in Pre : \/ item[l].status = "delivered" \/ item[l].received > 0
                     \/ item'[l].status # "delivered" /\ item'[l].received = 0
  BY <1>1
<1> QED BY <1>2, CountingStays DEF IInv, Shape

LEMMA HandleItems ==
  ASSUME IInv, Lasting, NEW e \in events, HandleFulfillment(e)
  PROVE  item' \in [Lines -> Item] /\ Counting'
<1> DEFINE k == e.ship
           d == e.arrived \/ ~ ship[k].tracked
<1>1. k \in Ships /\ d \in BOOLEAN /\ Told(e) /\ ship' = ship
  BY DEF HandleFulfillment, IInv, Shape, Event, Ship, Telling
<1>2. item' = Touched(k, d)
  BY DEF HandleFulfillment
<1>3. Matched(k) \in [Lines -> Nat] /\ \A l \in Lines : Matched(k)[l] # 0 => Has(k, l)
  BY <1>1, MatchedHas DEF IInv
<1>4. d => ship'[k].state = "arrived" \/ ~ ship'[k].tracked
  BY <1>1 DEF Told
<1>5. ExistsNext(k) /\ \A l : Has(k, l) => HasNext(k, l)
  BY <1>1, HasStays DEF Told
<1> HIDE DEF d, k
<1>6. ASSUME NEW l \in Lines
      PROVE  /\ item'[l] \in Item
             /\ \/ item'[l] = item[l]
                \/ ~ d /\ item'[l].status = "shipped" /\ item'[l].received = item[l].received
                \/ d /\ Has(k, l)
  <2> DEFINE i == [item[l] EXCEPT !.status = IF d THEN "delivered" ELSE "shipped", !.step = StepOf(l, d)]
  <2>1. item[l] \in Item
    BY DEF IInv, Shape
  <2>2. i \in Item /\ (~ d => i.status = "shipped") /\ i.received = item[l].received
    BY <1>1, <2>1, StepTyped DEF Item, Statuses
  <2>3. item'[l] = IF Matched(k)[l] = 0 THEN item[l]
                   ELSE IF d THEN Counted(i, Matched(k)[l], Qty[l]) ELSE i
    BY <1>2 DEF Touched
  <2> HIDE DEF i
  <2>4. Counted(i, Matched(k)[l], Qty[l]) \in Item
    BY <1>3, <2>2, CountedTyped
  <2> QED BY <1>3, <2>1, <2>2, <2>3, <2>4
<1>7. \A l \in Pre : d /\ Has(k, l) => Came(l)'
  BY <1>1, <1>4, <1>5 DEF Came, Exists, ExistsNext, Has, HasNext
<1>8. \A l \in Pre : item[l].received \in Nat
  BY DEF IInv, Shape, Item, Lines
<1>9. \A l \in Pre : \/ Came(l)'
                     \/ item[l].status = "delivered" \/ item[l].received > 0
                     \/ item'[l].status # "delivered" /\ item'[l].received = 0
  BY <1>6, <1>7, <1>8 DEF Lines
<1>10. item' \in [Lines -> Item]
  <2>1. item' = [l \in Lines |-> item'[l]]
    BY <1>2 DEF Touched
  <2> QED BY <1>6, <2>1
<1> QED BY <1>9, <1>10, CountingStays

LEMMA MarkItems ==
  ASSUME IInv, Lasting, NEW n \in DOMAIN record, MarkDelivered(n)
  PROVE  item' \in [Lines -> Item] /\ Counting'
<1> DEFINE us == record[n].units
           k  == record[n].ship
<1>1. us \in [Pre -> Nat] /\ k \in {0} \cup Ships /\ Filed(n)
  <2>1. record[n] \in Record
    BY DEF IInv, Shape
  <2> QED BY <2>1 DEF IInv, Record, Filing
<1>2. item' = [l \in Lines |->
                 IF l \in Pre /\ us[l] > 0
                 THEN Counted([item[l] EXCEPT !.status = "delivered", !.step = 5], us[l], Qty[l])
                 ELSE item[l]]
  BY DEF MarkDelivered
<1>3. \A l \in Lines : item[l] \in Item
  BY DEF IInv, Shape
<1>4. \A l \in Lines : item'[l] \in Item
  <2> TAKE l \in Lines
  <2>1. [item[l] EXCEPT !.status = "delivered", !.step = 5] \in Item
    <3>1. item[l] \in Item
      BY <1>3
    <3>2. 5 \in 1 .. 5 /\ "delivered" \in Statuses
      BY DEF Statuses
    <3> QED BY <3>1, <3>2 DEF Item
  <2>2. l \in Pre => Counted([item[l] EXCEPT !.status = "delivered", !.step = 5], us[l], Qty[l]) \in Item
    BY <1>1, <2>1, CountedTyped
  <2> QED BY <1>2, <1>3, <2>2
<1>5. ASSUME NEW l \in Pre, us[l] > 0
      PROVE  Came(l)'
  <2>1. CASE k = 0
    BY <1>1, <2>1 DEF Filed, Came, Lasting
  <2>2. CASE k # 0
    <3>1. k \in Ships /\ Exists(k) /\ Has(k, l)
      BY <1>1, <1>5, <2>2 DEF Filed
    <3>2. ship' = [ship EXCEPT ![k].state = "arrived"]
      BY <2>2, MarkShip
    <3>3. ship'[k].state = "arrived"
      BY <3>1, <3>2 DEF IInv, Shape, Ship
    <3>4. ExistsNext(k) /\ HasNext(k, l)
      BY <3>1, HasStays
    <3> HIDE DEF k
    <3> QED BY <3>1, <3>3, <3>4 DEF Came, Exists, ExistsNext, Has, HasNext
  <2> QED BY <2>1, <2>2
<1>6. \A l \in Pre : \/ Came(l)'
                     \/ item[l].status = "delivered" \/ item[l].received > 0
                     \/ item'[l].status # "delivered" /\ item'[l].received = 0
  <2> TAKE l \in Pre
  <2>1. CASE us[l] > 0
    BY <1>5, <2>1
  <2>2. CASE ~ us[l] > 0
    <3>1. item'[l] = item[l] /\ item[l].received \in Nat
      BY <1>2, <1>3, <2>2 DEF Lines, Item
    <3> QED BY <3>1
  <2> QED BY <2>1, <2>2
<1>7. item' \in [Lines -> Item]
  <2>1. item' = [l \in Lines |-> item'[l]]
    BY <1>2
  <2> QED BY <1>4, <2>1
<1> QED BY <1>6, <1>7, CountingStays

(* Every step: what the lines of the order look like, and what is counted   *)
(* as arrived.                                                              *)
LEMMA ItemsStep ==
  ASSUME IInv, [Next]_vars, Lasting
  PROVE  item' \in [Lines -> Item] /\ Counting'
<1> USE DEF rows
<1>1. ASSUME NEW g \in Groups, EditBalance(g) \/ PayBalance(g)
      PROVE  item' \in [Lines -> Item] /\ Counting'
  <2>1. CASE EditBalance(g)
    BY <2>1, SameItems DEF EditBalance
  <2>2. CASE PayBalance(g)
    <3> DEFINE S   == {l \in Pre : Total([h \in Groups |-> UnitsIn[h][l]], paid \cup {g}) >= Qty[l]}
               new == [l \in S |-> [item[l] EXCEPT !.status = "payment_received", !.step = 4]]
    <3>1. SetItems(new)
      BY <2>2 DEF PayBalance
    <3>2. \A l \in Lines : item[l] \in Item
      BY DEF IInv, Shape
    <3>3. \A l \in DOMAIN new \cap Lines : new[l] = [item[l] EXCEPT !.status = "payment_received", !.step = 4]
      OBVIOUS
    <3> HIDE DEF new
    <3>4. 4 \in 1 .. 5 /\ "payment_received" \in Statuses
      BY DEF Statuses
    <3>5. \A l \in DOMAIN new \cap Lines : /\ new[l] \in Item
                                           /\ new[l].status # "delivered"
                                           /\ new[l].received = item[l].received
      BY <3>2, <3>3, <3>4 DEF Item
    <3> QED BY <3>1, <3>5, SetItemsHolds
  <2> QED BY <1>1, <2>1, <2>2
<1>2. CASE AcceptReady
  <2> DEFINE new == [l \in Ready |-> [item[l] EXCEPT !.status = "on_progress", !.step = 2]]
  <2>1. SetItems(new)
    BY <1>2 DEF AcceptReady
  <2>2. \A l \in Lines : item[l] \in Item
    BY DEF IInv, Shape
  <2>3. \A l \in DOMAIN new \cap Lines : new[l] = [item[l] EXCEPT !.status = "on_progress", !.step = 2]
    OBVIOUS
  <2> HIDE DEF new
  <2>4. 2 \in 1 .. 5 /\ "on_progress" \in Statuses
    BY DEF Statuses
  <2>5. \A l \in DOMAIN new \cap Lines : /\ new[l] \in Item
                                         /\ new[l].status # "delivered"
                                         /\ new[l].received = item[l].received
    BY <2>2, <2>3, <2>4 DEF Item
  <2> QED BY <2>1, <2>5, SetItemsHolds
<1>3. CASE AcceptPre
  <2> DEFINE new == [l \in Pre |-> [item[l] EXCEPT !.status = "on_progress"]]
  <2>1. SetItems(new)
    BY <1>3 DEF AcceptPre
  <2>2. \A l \in Lines : item[l] \in Item
    BY DEF IInv, Shape
  <2>3. \A l \in DOMAIN new \cap Lines : new[l] = [item[l] EXCEPT !.status = "on_progress"]
    OBVIOUS
  <2> HIDE DEF new
  <2>4. "on_progress" \in Statuses
    BY DEF Statuses
  <2>5. \A l \in DOMAIN new \cap Lines : /\ new[l] \in Item
                                         /\ new[l].status # "delivered"
                                         /\ new[l].received = item[l].received
    BY <2>2, <2>3, <2>4 DEF Item
  <2> QED BY <2>1, <2>5, SetItemsHolds
<1>4. ASSUME NEW r \in Requests, RecordFulfillment(r)
      PROVE  item' \in [Lines -> Item] /\ Counting'
  <2> DEFINE new == [k \in {req[r].line} |-> [item[k] EXCEPT !.status = "shipped", !.step = 4]]
  <2>1. SetItems(new)
    BY <1>4 DEF RecordFulfillment
  <2>2. \A l \in Lines : item[l] \in Item
    BY DEF IInv, Shape
  <2>3. \A l \in DOMAIN new \cap Lines : new[l] = [item[l] EXCEPT !.status = "shipped", !.step = 4]
    OBVIOUS
  <2> HIDE DEF new
  <2>4. 4 \in 1 .. 5 /\ "shipped" \in Statuses
    BY DEF Statuses
  <2>5. \A l \in DOMAIN new \cap Lines : /\ new[l] \in Item
                                         /\ new[l].status # "delivered"
                                         /\ new[l].received = item[l].received
    BY <2>2, <2>3, <2>4 DEF Item
  <2> QED BY <2>1, <2>5, SetItemsHolds
<1>5. ASSUME NEW r \in Requests, CancelLines(r)
      PROVE  item' \in [Lines -> Item] /\ Counting'
  <2> DEFINE new == [l \in OfKind(req[r].kind) |-> [item[l] EXCEPT !.status = "cancelled"]]
  <2>1. SetItems(new)
    BY <1>5 DEF CancelLines
  <2>2. \A l \in Lines : item[l] \in Item
    BY DEF IInv, Shape
  <2>3. \A l \in DOMAIN new \cap Lines : new[l] = [item[l] EXCEPT !.status = "cancelled"]
    OBVIOUS
  <2> HIDE DEF new
  <2>4. "cancelled" \in Statuses
    BY DEF Statuses
  <2>5. \A l \in DOMAIN new \cap Lines : /\ new[l] \in Item
                                         /\ new[l].status # "delivered"
                                         /\ new[l].received = item[l].received
    BY <2>2, <2>3, <2>4 DEF Item
  <2> QED BY <2>1, <2>5, SetItemsHolds
<1>6. ASSUME NEW r \in Requests, CreatePreorderFulfillment(r) \/ CancelOrder(r) \/ Abandon(r)
      PROVE  item' \in [Lines -> Item] /\ Counting'
  <2>1. item' = item \/ RecordFulfillment(r) \/ CancelLines(r)
    BY <1>6 DEF CreatePreorderFulfillment, StartFulfillment, SyncAndPick, ShipUnits, CancelOrder, StartCancel, Abandon
  <2> QED BY <1>4, <1>5, <2>1, SameItems
<1>7. ASSUME NEW k \in Ships, PushReady(k)
      PROVE  item' \in [Lines -> Item] /\ Counting'
  BY <1>7, SameItems DEF PushReady
<1>8. CASE Shopify
  BY <1>8, SameItems DEF Shopify, FulfillInShopify, Arrive, SendAgain
<1>9. ASSUME NEW e \in events, HandleFulfillment(e) \/ LoseEvent(e)
      PROVE  item' \in [Lines -> Item] /\ Counting'
  BY <1>9, HandleItems, SameItems DEF LoseEvent
<1>10. ASSUME NEW l \in Lines,
              \/ \E n \in 0 .. Qty[l] : UpdateItemsReceived(l, n)
              \/ AddTrackingNumber(l)
              \/ \E n \in {1, 4} : UpdateFulfillmentStep(l, n)
       PROVE  item' \in [Lines -> Item] /\ Counting'
  <2>1. byHand' = TRUE
    BY <1>10 DEF UpdateItemsReceived, AddTrackingNumber, UpdateFulfillmentStep, ByHand
  <2>2. Counting'
    BY <2>1 DEF Counting, Came
  <2>3. item[l] \in Item
    BY DEF IInv, Shape
  <2>4. PICK i \in Item : SetItems([k \in {l} |-> i])
    <3>1. ASSUME NEW n \in 0 .. Qty[l], UpdateItemsReceived(l, n)
          PROVE  \E i \in Item : SetItems([k \in {l} |-> i])
      <4> DEFINE i == [status |-> "delivered", step |-> StepOf(l, TRUE), received |-> n]
      <4>1. StepOf(l, TRUE) \in 1 .. 5 /\ "delivered" \in Statuses /\ n \in Nat
        <5>1. Qty[l] \in Nat
          BY LinesAssumption
        <5>2. n \in Nat
          BY <5>1
        <5> QED BY <5>2, StepTyped DEF Statuses
      <4>2. i \in Item
        BY <4>1 DEF Item
      <4>3. SetItems([k \in {l} |-> i])
        BY <3>1 DEF UpdateItemsReceived
      <4> QED BY <4>2, <4>3
    <3>2. CASE AddTrackingNumber(l)
      <4> DEFINE i == [item[l] EXCEPT !.status = "shipped", !.step = StepOf(l, FALSE)]
      <4>1. StepOf(l, FALSE) \in 1 .. 5 /\ "shipped" \in Statuses
        BY StepTyped DEF Statuses
      <4>2. i \in Item
        BY <2>3, <4>1 DEF Item
      <4>3. [k \in {l} |-> [item[k] EXCEPT !.status = "shipped", !.step = StepOf(l, FALSE)]] = [k \in {l} |-> i]
        OBVIOUS
      <4>4. SetItems([k \in {l} |-> i])
        BY <3>2, <4>3 DEF AddTrackingNumber
      <4> QED BY <4>2, <4>4
    <3>3. ASSUME NEW n \in {1, 4}, UpdateFulfillmentStep(l, n)
          PROVE  \E i \in Item : SetItems([k \in {l} |-> i])
      <4> DEFINE i == [item[l] EXCEPT !.step = n]
      <4>1. i \in Item
        BY <2>3 DEF Item
      <4>2. [k \in {l} |-> [item[k] EXCEPT !.step = n]] = [k \in {l} |-> i]
        OBVIOUS
      <4>3. SetItems([k \in {l} |-> i])
        BY <3>3, <4>2 DEF UpdateFulfillmentStep
      <4> QED BY <4>1, <4>3
    <3> QED BY <1>10, <3>1, <3>2, <3>3
  <2>5. item' \in [Lines -> Item]
    BY <2>4, ItemsTyped DEF IInv
  <2> QED BY <2>2, <2>5
<1>11. CASE UNCHANGED vars
  BY <1>11, SameItems DEF vars
<1> QED BY <1>1, <1>2, <1>3, <1>6, <1>7, <1>8, <1>9, <1>10, <1>11, MarkItems DEF Next, Hand

LEMMA CompletedStep ==
  ASSUME IInv, [Next]_vars, Lasting, item' \in [Lines -> Item], Counting'
  PROVE  Completed'
<1> USE DEF rows
<1>1. \A l \in Pre : Came(l) => Came(l)'
  BY CameStays
<1>2. CASE order' = order \/ order' # "completed"
  BY <1>1, <1>2 DEF Completed, IInv
<1>3. CASE AllDelivered(item')
  BY <1>3 DEF AllDelivered, Counting, Completed, Lines
<1>4. CASE \A l \in Pre : item'[l].received >= Qty[l]
  <2>1. \A l \in Pre : item'[l].received > 0
    BY <1>4, LinesAssumption DEF Lines, Item
  <2> QED BY <2>1 DEF Counting, Completed
<1>5. \/ order' = order \/ order' # "completed"
      \/ AllDelivered(item') \/ \A l \in Pre : item'[l].received >= Qty[l]
  <2>1. ASSUME NEW g \in Groups, EditBalance(g) \/ PayBalance(g)
        PROVE  order' = order
    BY <2>1 DEF EditBalance, PayBalance
  <2>2. ASSUME AcceptReady \/ AcceptPre \/ (\E k \in Ships : PushReady(k))
        PROVE  order' = order \/ order' # "completed"
    BY <2>2 DEF AcceptReady, AcceptPre, PushReady
  <2>3. ASSUME NEW r \in Requests, CreatePreorderFulfillment(r) \/ CancelOrder(r) \/ Abandon(r)
        PROVE  order' = order \/ order' # "completed"
    BY <2>3 DEF CreatePreorderFulfillment, StartFulfillment, SyncAndPick, ShipUnits, RecordFulfillment,
                CancelOrder, StartCancel, CancelLines, Abandon
  <2>4. ASSUME Shopify
        PROVE  order' = order
    BY <2>4 DEF Shopify, FulfillInShopify, Arrive, SendAgain
  <2>5. ASSUME NEW e \in events, HandleFulfillment(e) \/ LoseEvent(e)
        PROVE  order' = order \/ order' # "completed" \/ AllDelivered(item')
    BY <2>5 DEF HandleFulfillment, LoseEvent
  <2>6. ASSUME NEW n \in DOMAIN record, MarkDelivered(n)
        PROVE  order' = order \/ \A l \in Pre : item'[l].received >= Qty[l]
    <3>1. item' = [l \in Lines |-> item'[l]]
      OBVIOUS
    <3> QED BY <2>6 DEF MarkDelivered
  <2>7. ASSUME Hand
        PROVE  order' = order \/ AllDelivered(item')
    BY <2>7 DEF Hand, UpdateItemsReceived, AddTrackingNumber, UpdateFulfillmentStep
  <2>8. ASSUME UNCHANGED vars
        PROVE  order' = order
    BY <2>8 DEF vars
  <2> QED BY <2>1, <2>2, <2>3, <2>4, <2>5, <2>6, <2>7, <2>8 DEF Next
<1> QED BY <1>2, <1>3, <1>4, <1>5
----------------------------------------------------------------------------
(* What the steps leave of Shopify's own numbers and events.                *)
LEMMA ShopStep ==
  ASSUME IInv, [Next]_vars, Lasting
  PROVE  remaining' \in [Parts -> Nat] /\ events' \in SUBSET Event /\ Telling'
<1> USE DEF IInv, shop
<1>0. \A e \in events : ExistsNext(e.ship) /\ (e.arrived => ship'[e.ship].state = "arrived")
  <2> TAKE e \in events
  <2>1. e.ship \in Ships
    BY DEF Shape, Event
  <2>2. Exists(e.ship) /\ (e.arrived => ship[e.ship].state = "arrived")
    BY DEF Telling, Told
  <2> QED BY <2>1, <2>2, HasStays DEF Lasting, Ever
<1>1. ASSUME events' \subseteq events
      PROVE  events' \in SUBSET Event /\ Telling'
  BY <1>0, <1>1 DEF Shape, Telling, Told, Exists, ExistsNext
<1>2. ASSUME NEW e \in Event, events' = events \cup {e}, ExistsNext(e.ship),
             e.arrived => ship'[e.ship].state = "arrived"
      PROVE  events' \in SUBSET Event /\ Telling'
  BY <1>0, <1>2 DEF Shape, Telling, Told, Exists, ExistsNext
<1>3. CASE UNCHANGED <<remaining, events>>
  BY <1>1, <1>3 DEF Shape
<1>4. ASSUME NEW g \in Groups, EditBalance(g)
      PROVE  remaining' \in [Parts -> Nat] /\ events' \in SUBSET Event /\ Telling'
  <2>1. \A x \in Parts : x[1] \in Lines /\ (x[1] \in Pre => UnitsIn[g][x[1]] \in Nat)
    BY UnitsAssumption DEF Parts, Lines
  <2>2. \A x \in Parts : x[2] = g => x[1] \in Pre
    BY NoneAssumption DEF Parts
  <2>3. \A x \in Parts : x[1] \in Pre /\ x[2] = None => remaining[x] >= UnitsIn[g][x[1]]
    BY <1>4 DEF EditBalance, Parts
  <2>4. remaining' \in [Parts -> Nat]
    BY <1>4, <2>1, <2>2, <2>3 DEF EditBalance, Shape
  <2>5. events' \subseteq events
    BY <1>4 DEF EditBalance
  <2> QED BY <1>1, <2>4, <2>5
<1>5. CASE Shipping
  <2>1. PICK k \in Ships, g \in Groups \cup {None}, t \in BOOLEAN, u \in [Parts -> Nat] :
          /\ Free(k) /\ Ships1(k, u, g, t)
          /\ \A x \in Parts : u[x] <= remaining[x]
    BY <1>5 DEF Shipping
  <2>2. /\ remaining' \in [Parts -> Nat]
        /\ ship'[k] = [state |-> "moving", by |-> g, tracked |-> t, units |-> u]
    BY <2>1, Shipped
  <2>3. events' = events \cup {[ship |-> k, arrived |-> FALSE]}
    BY <2>1 DEF Ships1
  <2>4. [ship |-> k, arrived |-> FALSE] \in Event
    BY DEF Event
  <2>5. events' \in SUBSET Event /\ Telling'
    <3>1. ExistsNext(k)
      BY <2>2 DEF ExistsNext
    <3> DEFINE e == [ship |-> k, arrived |-> FALSE]
    <3>2. e \in Event /\ events' = events \cup {e} /\ e.ship = k /\ ~ e.arrived
      BY <2>3, <2>4
    <3> HIDE DEF e
    <3> QED BY <1>2, <3>1, <3>2
  <2> QED BY <2>2, <2>5
<1>6. ASSUME NEW k \in Ships, Arrive(k) \/ SendAgain(k)
      PROVE  remaining' \in [Parts -> Nat] /\ events' \in SUBSET Event /\ Telling'
  <2>1. remaining' \in [Parts -> Nat]
    BY <1>6 DEF Arrive, SendAgain, Shape
  <2>2. PICK d \in BOOLEAN : events' = events \cup {[ship |-> k, arrived |-> d]} /\ (d => ship'[k].state = "arrived")
    BY <1>6 DEF Arrive, SendAgain, Shape, Ship
  <2>3. ExistsNext(k)
    BY <1>6, HasStays DEF Arrive, SendAgain, Exists
  <2>4. [ship |-> k, arrived |-> d] \in Event
    BY DEF Event
  <2>5. events' \in SUBSET Event /\ Telling'
    BY <1>2, <2>2, <2>3, <2>4
  <2> QED BY <2>1, <2>5
<1>7. ASSUME NEW n \in DOMAIN record, MarkDelivered(n)
      PROVE  remaining' \in [Parts -> Nat] /\ events' \in SUBSET Event /\ Telling'
  <2> DEFINE k == record[n].ship
  <2>1. remaining' \in [Parts -> Nat]
    BY <1>7 DEF MarkDelivered, Shape
  <2>2. CASE k = 0
    BY <1>1, <1>7, <2>1, <2>2 DEF MarkDelivered
  <2>3. CASE k # 0
    <3>1. k \in Ships /\ Exists(k) /\ ship' = [ship EXCEPT ![k].state = "arrived"]
      BY <1>7, <2>3, MarkShip
    <3>2. events' = events \cup {[ship |-> k, arrived |-> TRUE]}
      BY <1>7, <2>3 DEF MarkDelivered, CreateFulfillmentEvent
    <3> HIDE DEF k
    <3>3. ship'[k].state = "arrived" /\ ExistsNext(k) /\ [ship |-> k, arrived |-> TRUE] \in Event
      BY <3>1, HasStays DEF Shape, Ship, Event
    <3> QED BY <1>2, <2>1, <3>2, <3>3
  <2> QED BY <2>2, <2>3
<1>8. ASSUME NEW e \in events, HandleFulfillment(e) \/ LoseEvent(e)
      PROVE  remaining' \in [Parts -> Nat] /\ events' \in SUBSET Event /\ Telling'
  <2>1. remaining' = remaining /\ events' \subseteq events
    BY <1>8 DEF HandleFulfillment, LoseEvent
  <2> QED BY <1>1, <2>1 DEF Shape
<1>9. ASSUME NEW r \in Requests, CreatePreorderFulfillment(r) \/ CancelOrder(r) \/ Abandon(r)
      PROVE  UNCHANGED <<remaining, events>> \/ Shipping
  <2>1. UNCHANGED shop \/ \E k \in Ships : ShipUnits(r, k)
    BY <1>9 DEF CreatePreorderFulfillment, StartFulfillment, SyncAndPick, RecordFulfillment,
                CancelOrder, StartCancel, CancelLines, Abandon
  <2> QED BY <2>1, ShippingHolds DEF ShipStep
<1>10. ASSUME Shopify
       PROVE  Shipping \/ \E k \in Ships : Arrive(k) \/ SendAgain(k)
  <2>1. ASSUME NEW k \in Ships, NEW x \in Parts, NEW q \in 1 .. Qty[x[1]], FulfillInShopify(k, x, q)
        PROVE  Shipping
    <3>1. q \in Nat
      OBVIOUS
    <3> QED BY <2>1, <3>1, ShippingOne DEF FulfillInShopify
  <2> QED BY <1>10, <2>1 DEF Shopify
<1>11. ASSUME \E k \in Ships : PushReady(k)
       PROVE  UNCHANGED <<remaining, events>> \/ Shipping
  BY <1>11, ShippingHolds DEF ShipStep
<1>12. ASSUME \/ \E g \in Groups : PayBalance(g)
              \/ AcceptReady \/ AcceptPre \/ Hand \/ UNCHANGED vars
       PROVE  UNCHANGED <<remaining, events>>
  BY <1>12 DEF PayBalance, AcceptReady, AcceptPre, Hand, UpdateItemsReceived, AddTrackingNumber,
               UpdateFulfillmentStep, vars
<1> QED BY <1>3, <1>4, <1>5, <1>6, <1>7, <1>8, <1>9, <1>10, <1>11, <1>12 DEF Next
----------------------------------------------------------------------------
(* What a request that keeps, or takes up, its work must satisfy.           *)
ServesNext(q) ==
    /\ q.step \in {"sync", "ship", "record"} =>
          q.line \in Pre /\ q.units > 0 /\ q.group \in Groups
    /\ q.step = "sync" => q.ship = 0
    /\ q.step = "ship" => q.part \in Of(q.line) /\ q.part[2] \in {None, q.group}
    /\ q.step = "record" /\ q.ship # 0 => ExistsNext(q.ship) /\ HasNext(q.ship, q.line)

LEMMA RequestsStay ==
  ASSUME IInv, Lasting
  PROVE  \A r \in Requests : req[r] \in Request /\ ServesNext(req[r])
<1> TAKE r \in Requests
<1>1. req[r] \in Request /\ Serves(r)
  BY DEF IInv, Shape, Serving
<1>2. req[r].ship \in {0} \cup Ships
  BY <1>1 DEF Request
<1> QED BY <1>1, <1>2, HasStays DEF Serves, ServesNext, At

LEMMA ServingStays ==
  ASSUME \A r \in Requests : ServesNext(req'[r])
  PROVE  Serving'
  BY DEF Serving, Serves, ServesNext, At, Exists, ExistsNext, Has, HasNext

LEMMA BecomeServes ==
  ASSUME IInv, Lasting, NEW r \in Requests, NEW q \in Request, ServesNext(q), Become(r, q)
  PROVE  req' \in [Requests -> Request] /\ Serving'
<1>1. req' \in [Requests -> Request] /\ req'[r] = q /\ \A p \in Requests \ {r} : req'[p] = req[p]
  BY DEF Become, IInv, Shape
<1>2. \A p \in Requests : ServesNext(req'[p])
  BY <1>1, RequestsStay
<1> QED BY <1>1, <1>2, ServingStays

LEMMA FinishServes ==
  ASSUME IInv, Lasting, NEW r \in Requests, Finish(r)
  PROVE  req' \in [Requests -> Request] /\ Serving'
<1>1. NoRequest \in Request /\ ServesNext(NoRequest)
  BY DEF NoRequest, Request, ServesNext
<1> QED BY <1>1, BecomeServes DEF Finish

LEMMA PickServes ==
  ASSUME IInv, Lasting, NEW r \in Requests, At(r, "sync"), NEW c, PickLine(r, c)
  PROVE  req' \in [Requests -> Request] /\ Serving'
<1>1. /\ req[r] \in Request /\ req[r].ship = 0 /\ req[r].line \in Pre /\ req[r].units > 0
      /\ req[r].group \in Groups
  BY DEF At, IInv, Shape, Serving, Serves
<1>2. CASE Finish(r)
  BY <1>2, FinishServes
<1>3. CASE Become(r, [req[r] EXCEPT !.step = "record"])
  <2> DEFINE q == [req[r] EXCEPT !.step = "record"]
  <2>1. q \in Request
    BY <1>1 DEF Request
  <2>2. ServesNext(q)
    BY <1>1 DEF ServesNext, Request
  <2> QED BY <1>3, <2>1, <2>2, BecomeServes
<1>4. ASSUME NEW x \in GroupLines(req[r].group, req[r].line, c),
             Become(r, [req[r] EXCEPT !.step = "ship", !.part = x])
      PROVE  req' \in [Requests -> Request] /\ Serving'
  <2> DEFINE q == [req[r] EXCEPT !.step = "ship", !.part = x]
  <2>1. x \in Parts /\ x \in Of(req[r].line) /\ x[2] \in {None, req[r].group}
    BY <1>4 DEF GroupLines, Of
  <2>2. q \in Request
    BY <1>1, <2>1 DEF Request
  <2>3. ServesNext(q)
    BY <1>1, <2>1 DEF ServesNext, Request
  <2> QED BY <1>4, <2>2, <2>3, BecomeServes
<1> QED BY <1>2, <1>3, <1>4 DEF PickLine

LEMMA ServingStep ==
  ASSUME IInv, [Next]_vars, Lasting
  PROVE  req' \in [Requests -> Request] /\ Serving'
<1>1. CASE req' = req
  <2>1. \A r \in Requests : ServesNext(req'[r])
    BY <1>1, RequestsStay
  <2> QED BY <1>1, <2>1, ServingStays DEF IInv, Shape
<1>2. ASSUME NEW r \in Requests, NEW g \in Groups, NEW l \in Pre, NEW q \in 1 .. Qty[l],
             StartFulfillment(r, g, l, q)
      PROVE  req' \in [Requests -> Request] /\ Serving'
  <2> DEFINE new == [NoRequest EXCEPT !.step = "sync", !.group = g, !.line = l, !.units = q]
  <2>1. l \in Lines /\ q \in Nat /\ q > 0
    BY LinesAssumption DEF Lines
  <2>2. new \in Request /\ ServesNext(new)
    BY <2>1 DEF NoRequest, Request, ServesNext
  <2>3. Become(r, new)
    BY <1>2 DEF StartFulfillment
  <2> QED BY <2>2, <2>3, BecomeServes
<1>3. ASSUME NEW r \in Requests, SyncAndPick(r)
      PROVE  req' \in [Requests -> Request] /\ Serving'
  BY <1>3, PickServes DEF SyncAndPick
<1>4. ASSUME NEW r \in Requests, NEW k \in Ships, ShipUnits(r, k)
      PROVE  req' \in [Requests -> Request] /\ Serving'
  <2>1. CASE Finish(r)
    BY <2>1, FinishServes
  <2>2. ASSUME ~ Finish(r)
        PROVE  req' \in [Requests -> Request] /\ Serving'
    <3> DEFINE q == [req[r] EXCEPT !.step = "record", !.ship = k]
    <3>1. /\ req[r] \in Request /\ req[r].line \in Pre /\ req[r].units > 0 /\ req[r].group \in Groups
          /\ req[r].part \in Of(req[r].line)
      BY <1>4 DEF ShipUnits, At, IInv, Shape, Serving, Serves
    <3>2. /\ Become(r, q)
          /\ Ships1(k, [NoUnits EXCEPT ![req[r].part] = req[r].units], req[r].group, TRUE)
      BY <1>4, <2>2 DEF ShipUnits
    <3>3. q \in Request /\ q.line = req[r].line /\ q.units = req[r].units /\ q.group = req[r].group
          /\ q.step = "record" /\ q.ship = k
      BY <3>1 DEF Request
    <3>4. req[r].part \in Parts /\ req[r].units \in Nat
      BY <3>1 DEF Of, Request
    <3>5. ship'[k].state = "moving" /\ ship'[k].units[req[r].part] = req[r].units
      BY <3>2, <3>4 DEF Ships1, NoUnits, IInv, Shape
    <3>6. ServesNext(q)
      BY <3>1, <3>3, <3>5 DEF ServesNext, ExistsNext, HasNext
    <3> HIDE DEF q
    <3> QED BY <3>2, <3>3, <3>6, BecomeServes
  <2> QED BY <2>1, <2>2
<1>5. ASSUME NEW r \in Requests, RecordFulfillment(r) \/ CancelLines(r) \/ Abandon(r)
      PROVE  req' \in [Requests -> Request] /\ Serving'
  BY <1>5, FinishServes DEF RecordFulfillment, CancelLines, Abandon
<1>6. ASSUME NEW r \in Requests, NEW kind \in {"ready", "pre"}, StartCancel(r, kind)
      PROVE  req' \in [Requests -> Request] /\ Serving'
  <2> DEFINE b   == \A l \in Lines \ OfKind(kind) : item[l].status = "cancelled"
             new == [NoRequest EXCEPT !.step = "cancel", !.kind = kind, !.all = b]
  <2>1. b \in BOOLEAN
    OBVIOUS
  <2>2. Become(r, new)
    BY <1>6 DEF StartCancel
  <2> HIDE DEF b
  <2>3. new \in Request /\ ServesNext(new)
    BY <2>1 DEF NoRequest, Request, ServesNext
  <2> QED BY <2>2, <2>3, BecomeServes
<1>7. ASSUME \/ \E g \in Groups : EditBalance(g) \/ PayBalance(g)
             \/ AcceptReady \/ AcceptPre \/ \E k \in Ships : PushReady(k)
             \/ Shopify
             \/ \E e \in events : HandleFulfillment(e) \/ LoseEvent(e)
             \/ \E n \in DOMAIN record : MarkDelivered(n)
             \/ Hand
             \/ UNCHANGED vars
      PROVE  req' = req
  <2>1. CASE \E g \in Groups : EditBalance(g) \/ PayBalance(g)
    BY <2>1 DEF EditBalance, PayBalance
  <2>2. CASE AcceptReady \/ AcceptPre \/ \E k \in Ships : PushReady(k)
    BY <2>2 DEF AcceptReady, AcceptPre, PushReady
  <2>3. CASE Shopify
    BY <2>3 DEF Shopify, FulfillInShopify, Arrive, SendAgain
  <2>4. CASE \E e \in events : HandleFulfillment(e) \/ LoseEvent(e)
    BY <2>4 DEF HandleFulfillment, LoseEvent
  <2>5. CASE \E n \in DOMAIN record : MarkDelivered(n)
    BY <2>5 DEF MarkDelivered
  <2>6. CASE Hand
    BY <2>6 DEF Hand, UpdateItemsReceived, AddTrackingNumber, UpdateFulfillmentStep
  <2>7. CASE UNCHANGED vars
    BY <2>7 DEF vars
  <2> QED BY <1>7, <2>1, <2>2, <2>3, <2>4, <2>5, <2>6, <2>7
<1> QED BY <1>1, <1>2, <1>3, <1>4, <1>5, <1>6, <1>7 DEF Next, CreatePreorderFulfillment, CancelOrder
----------------------------------------------------------------------------
LEMMA RecordsStay ==
  ASSUME IInv, Lasting, record' = record
  PROVE  record' \in Seq(Record) /\ Filing' /\ RecordedOnce'
<1>1. \A n \in DOMAIN record' : FiledNext(record'[n])
  <2> TAKE n \in DOMAIN record'
  <2>1. n \in DOMAIN record /\ record'[n] = record[n]
    OBVIOUS
  <2>2. record[n] \in Record /\ Filed(n)
    BY <2>1 DEF IInv, Shape, Filing
  <2> QED BY <2>1, <2>2, HasStays DEF Filed, FiledNext, Record, Lasting
<1> QED BY <1>1, FiledStays DEF IInv, Shape, RecordedOnce

LEMMA RecordStep ==
  ASSUME IInv, [Next]_vars, Lasting
  PROVE  record' \in Seq(Record) /\ Filing' /\ RecordedOnce'
<1> USE DEF local
<1>1. ASSUME NEW r \in Requests, RecordFulfillment(r)
      PROVE  record' \in Seq(Record) /\ Filing' /\ RecordedOnce'
  <2> DEFINE k == req[r].ship
             g == req[r].group
             u == [m \in Pre |-> IF m = req[r].line THEN req[r].units ELSE 0]
  <2>1. req[r] \in Request /\ ServesNext(req[r]) /\ req[r].step = "record"
    BY <1>1, RequestsStay DEF RecordFulfillment, At
  <2>2. k \in {0} \cup Ships /\ g \in Groups \cup {None} /\ u \in [Pre -> Nat]
    BY <2>1 DEF Request
  <2>3. Upsert(k, g, FALSE, u)
    BY <1>1 DEF RecordFulfillment
  <2>4. k = 0 => blind'
    BY <1>1 DEF RecordFulfillment
  <2>5. k # 0 => ExistsNext(k) /\ \A l \in Pre : u[l] > 0 => HasNext(k, l)
    BY <2>1 DEF ServesNext
  <2> HIDE DEF k, g, u
  <2> QED BY <2>2, <2>3, <2>4, <2>5, UpsertFiles
<1>2. ASSUME NEW e \in events, HandleFulfillment(e)
      PROVE  record' \in Seq(Record) /\ Filing' /\ RecordedOnce'
  <2> DEFINE k == e.ship
             d == e.arrived \/ ~ ship[k].tracked
             u == [l \in Pre |-> Matched(k)[l]]
  <2>1. k \in Ships /\ d \in BOOLEAN /\ Told(e) /\ k # 0
    BY DEF IInv, Shape, Event, Ship, Telling, Ships
  <2>2. Matched(k) \in [Lines -> Nat] /\ \A l \in Lines : Matched(k)[l] # 0 => Has(k, l)
    BY <2>1, MatchedHas DEF IInv
  <2>3. record' = record \/ Upsert(k, None, d, u)
    BY <1>2 DEF HandleFulfillment, RecordShipment
  <2>4. ExistsNext(k) /\ \A l : Has(k, l) => HasNext(k, l)
    BY <2>1, HasStays DEF Told
  <2>5. u \in [Pre -> Nat] /\ \A l \in Pre : u[l] > 0 => HasNext(k, l)
    BY <2>2, <2>4 DEF Lines
  <2> HIDE DEF k, d, u
  <2> QED BY <2>1, <2>3, <2>4, <2>5, UpsertFiles, RecordsStay
<1>3. ASSUME NEW n \in DOMAIN record, MarkDelivered(n)
      PROVE  record' \in Seq(Record) /\ Filing' /\ RecordedOnce'
  <2>1. record' = [record EXCEPT ![n].delivered = TRUE]
    BY <1>3 DEF MarkDelivered
  <2>2. record \in Seq(Record) /\ \A m \in DOMAIN record : record[m] \in Record
    BY DEF IInv, Shape
  <2>3. DOMAIN record' = DOMAIN record /\ \A m \in DOMAIN record :
          record'[m] \in Record /\ record'[m].ship = record[m].ship /\ record'[m].units = record[m].units
    BY <2>1, <2>2 DEF Record
  <2>4. record' \in Seq(Record)
    <3>1. DOMAIN record = 1 .. Len(record) /\ Len(record) \in Nat
      BY <2>2
    <3>2. record' \in [1 .. Len(record) -> Record]
      BY <2>1, <2>3, <3>1
    <3>3. \E i \in Nat : record' \in [1 .. i -> Record]
      BY <3>1, <3>2
    <3> QED BY <3>3, SeqDef
  <2>5. \A m \in DOMAIN record' : FiledNext(record'[m])
    <3> TAKE m \in DOMAIN record'
    <3>1. m \in DOMAIN record /\ record[m] \in Record /\ Filed(m)
      BY <2>2, <2>3 DEF IInv, Filing
    <3>2. FiledNext(record[m])
      BY <3>1, HasStays DEF Filed, FiledNext, Record, Lasting
    <3> QED BY <2>3, <3>1, <3>2 DEF FiledNext
  <2>6. Filing'
    BY <2>5, FiledStays
  <2>7. RecordedOnce'
    BY <2>3 DEF RecordedOnce, IInv
  <2> QED BY <2>4, <2>6, <2>7
<1>4. ASSUME NEW r \in Requests, CreatePreorderFulfillment(r) \/ CancelOrder(r) \/ Abandon(r)
      PROVE  record' = record \/ RecordFulfillment(r)
  BY <1>4 DEF CreatePreorderFulfillment, StartFulfillment, SyncAndPick, ShipUnits,
              CancelOrder, StartCancel, CancelLines, Abandon
<1>5. ASSUME \/ \E g \in Groups : EditBalance(g) \/ PayBalance(g)
             \/ AcceptReady \/ AcceptPre \/ \E k \in Ships : PushReady(k)
             \/ Shopify
             \/ \E e \in events : LoseEvent(e)
             \/ Hand
             \/ UNCHANGED vars
      PROVE  record' = record
  <2>1. CASE \E g \in Groups : EditBalance(g) \/ PayBalance(g)
    BY <2>1 DEF EditBalance, PayBalance
  <2>2. CASE AcceptReady \/ AcceptPre \/ \E k \in Ships : PushReady(k)
    BY <2>2 DEF AcceptReady, AcceptPre, PushReady
  <2>3. CASE Shopify
    BY <2>3 DEF Shopify, FulfillInShopify, Arrive, SendAgain
  <2>4. CASE \E e \in events : LoseEvent(e)
    BY <2>4 DEF LoseEvent
  <2>5. CASE Hand
    BY <2>5 DEF Hand, UpdateItemsReceived, AddTrackingNumber, UpdateFulfillmentStep
  <2>6. CASE UNCHANGED vars
    BY <2>6 DEF vars
  <2> QED BY <1>5, <2>1, <2>2, <2>3, <2>4, <2>5, <2>6
<1> QED BY <1>1, <1>2, <1>3, <1>4, <1>5, RecordsStay DEF Next

----------------------------------------------------------------------------
LEMMA StepHolds == IInv /\ [Next]_vars => IInv'
<1> SUFFICES ASSUME IInv, [Next]_vars
             PROVE  IInv'
  OBVIOUS
<1>1. Lasting
  BY LastingHolds
<1>2. item' \in [Lines -> Item] /\ Counting'
  BY <1>1, ItemsStep
<1>3. remaining' \in [Parts -> Nat] /\ events' \in SUBSET Event /\ Telling'
  BY <1>1, ShopStep
<1>4. OwnGoods' /\ ship' \in [Ships -> Ship]
  BY OwnGoodsStep
<1>5. req' \in [Requests -> Request] /\ Serving'
  BY <1>1, ServingStep
<1>6. record' \in Seq(Record) /\ Filing' /\ RecordedOnce'
  BY <1>1, RecordStep
<1>7. Completed'
  BY <1>1, <1>2, CompletedStep
<1>8. Shape'
  BY <1>2, <1>3, <1>4, <1>5, <1>6 DEF Shape
<1> QED BY <1>2, <1>3, <1>4, <1>5, <1>6, <1>7, <1>8 DEF IInv

LEMMA Invariance == Spec => []IInv
  BY InitHolds, StepHolds, PTL DEF Spec

(* A part of a line that arrived is counted in Arrived.                     *)
LEMMA CameArrived ==
  ASSUME Shape, NEW l \in Pre, NEW k \in Ships, Has(k, l),
         ship[k].state = "arrived" \/ ~ ship[k].tracked
  PROVE  Arrived(l) > 0
<1> DEFINE f == [j \in Ships |-> IF ship[j].state = "arrived" \/ ~ ship[j].tracked
                                THEN Total(ship[j].units, Of(l)) ELSE 0]
<1>1. \A j \in Ships : ship[j].units \in [Parts -> Nat]
  BY DEF Shape, Ship
<1>2. IsFiniteSet(Ships)
  BY BoundsAssumption, FS_Interval DEF Ships
<1>3. \A j \in Ships : Total(ship[j].units, Of(l)) \in Nat
  <2> TAKE j \in Ships
  <2>1. IsFiniteSet(Of(l)) /\ \A x \in Of(l) : ship[j].units[x] \in Nat
    BY <1>1, OfFinite
  <2> QED BY <2>1, TotalType
<1>4. \A j \in Ships : f[j] \in Nat
  BY <1>3
<1>5. Total(f, Ships) >= f[k]
  <2>1. \A j \in Ships : f[j] \in Nat /\ f[j] \in Nat
    BY <1>4
  <2> HIDE DEF f
  <2> QED BY <1>2, <2>1, TotalReplace
<1>6. Total(ship[k].units, Of(l)) > 0
  <2>1. PICK x \in Of(l) : ship[k].units[x] > 0
    BY DEF Has
  <2>2. IsFiniteSet(Of(l)) /\ \A y \in Of(l) : ship[k].units[y] \in Nat /\ ship[k].units[y] \in Nat
    BY <1>1, OfFinite
  <2>3. Total(ship[k].units, Of(l)) >= ship[k].units[x]
    BY <2>2, TotalReplace
  <2> QED BY <1>3, <2>1, <2>2, <2>3
<1>7. f[k] > 0
  BY <1>6
<1>8. Total(f, Ships) > 0
  <2>1. Total(f, Ships) \in Nat
    <3> HIDE DEF f
    <3> QED BY <1>2, <1>4, TotalType
  <2> QED BY <1>4, <1>5, <1>7, <2>1
<1> QED BY <1>8 DEF Arrived

(* "each group must ship its own line even when the other has more units    *)
(* left" (OwnGoods).                                                        *)
THEOREM ShipsItsOwn == Spec => []OwnGoods
<1>1. IInv => OwnGoods
  BY DEF IInv
<1> QED BY <1>1, Invariance, PTL

(* A shipment has one record, whichever of its request and its events comes *)
(* first (RecordedOnce).                                                    *)
THEOREM OneRecord == Spec => []RecordedOnce
<1>1. IInv => RecordedOnce
  BY DEF IInv
<1> QED BY <1>1, Invariance, PTL

(* A completed order has received something of each pre-order line, unless  *)
(* an admin said so or units were recorded without Shopify                  *)
(* (CompletedHasArrived).                                                   *)
THEOREM CompletedCorrect == Spec => []CompletedHasArrived
<1>1. IInv => CompletedHasArrived
  <2> SUFFICES ASSUME IInv, order = "completed", ~ byHand, ~ blind, NEW l \in Pre
               PROVE  Arrived(l) > 0
    BY DEF CompletedHasArrived
  <2>1. Came(l)
    BY DEF IInv, Completed
  <2> QED BY <2>1, CameArrived DEF Came, IInv
<1> QED BY <1>1, Invariance, PTL
----------------------------------------------------------------------------
(* Goods that were shipped wait for an event that tells of them, or are in  *)
(* a record, or a call failed.                                              *)
Goods(k)   == \E x \in Parts : x[2] # None /\ ship[k].units[x] > 0
Awaited(k) == faults > 0 \/ (\E e \in events : e.ship = k) \/ \E n \in DOMAIN record : record[n].ship = k
Noted      == faults \in Nat /\ \A k \in Ships : Goods(k) => Awaited(k)

(* After the step.                                                          *)
InRecord(k) == \E n \in DOMAIN record' : record'[n].ship = k

LEMMA UpsertFinds ==
  ASSUME IInv, NEW k \in Ships \cup {0}, NEW g \in Groups \cup {None}, NEW d \in BOOLEAN, NEW u \in [Pre -> Nat],
         Upsert(k, g, d, u)
  PROVE  /\ \A n \in DOMAIN record : n \in DOMAIN record' /\ record'[n].ship = record[n].ship
         /\ k \in Ships => InRecord(k)
<1> DEFINE old == {n \in DOMAIN record : k # 0 /\ record[n].ship = k}
           new == [ship |-> k, group |-> g, delivered |-> d, units |-> u]
<1>1. record \in Seq(Record) /\ new \in Record
  BY DEF IInv, Shape, Record
<1>2. CASE old = {}
  <2>1. record' = Append(record, new)
    BY <1>2 DEF Upsert
  <2>2. /\ DOMAIN record' = DOMAIN record \cup {Len(record) + 1}
        /\ record'[Len(record) + 1] = new
        /\ \A n \in DOMAIN record : record'[n] = record[n]
    BY <1>1, <2>1
  <2>3. new.ship = k
    OBVIOUS
  <2> QED BY <2>2, <2>3 DEF InRecord
<1>3. CASE old # {}
  <2>1. record' = [n \in DOMAIN record |->
                     IF n \in old
                     THEN [record[n] EXCEPT !.delivered = d, !.group = IF g = None THEN @ ELSE g]
                     ELSE record[n]]
    BY <1>3 DEF Upsert
  <2>2. \A n \in DOMAIN record : record[n] \in Record
    BY <1>1
  <2>3. DOMAIN record' = DOMAIN record /\ \A n \in DOMAIN record : record'[n].ship = record[n].ship
    BY <2>1, <2>2 DEF Record
  <2> QED BY <1>3, <2>3 DEF InRecord
<1> QED BY <1>2, <1>3

(* A record is never dropped or given to another shipment.                  *)
LEMMA RecordsGrow ==
  ASSUME IInv, [Next]_vars
  PROVE  \A n \in DOMAIN record : n \in DOMAIN record' /\ record'[n].ship = record[n].ship
<1> USE DEF local
<1>1. ASSUME NEW r \in Requests, RecordFulfillment(r)
      PROVE  \A n \in DOMAIN record : n \in DOMAIN record' /\ record'[n].ship = record[n].ship
  <2> DEFINE u == [m \in Pre |-> IF m = req[r].line THEN req[r].units ELSE 0]
  <2>1. req[r] \in Request
    BY DEF IInv, Shape
  <2>2. req[r].ship \in {0} \cup Ships /\ req[r].group \in Groups \cup {None} /\ u \in [Pre -> Nat]
    BY <2>1 DEF Request
  <2>3. Upsert(req[r].ship, req[r].group, FALSE, u)
    BY <1>1 DEF RecordFulfillment
  <2> HIDE DEF u
  <2> QED BY <2>2, <2>3, UpsertFinds
<1>2. ASSUME NEW e \in events, HandleFulfillment(e)
      PROVE  \A n \in DOMAIN record : n \in DOMAIN record' /\ record'[n].ship = record[n].ship
  <2> DEFINE k == e.ship
             d == e.arrived \/ ~ ship[k].tracked
             u == [l \in Pre |-> Matched(k)[l]]
  <2>1. k \in Ships /\ d \in BOOLEAN
    BY DEF IInv, Shape, Event, Ship
  <2>2. Matched(k) \in [Lines -> Nat]
    BY <2>1, MatchedHas DEF IInv
  <2>3. u \in [Pre -> Nat]
    BY <2>2 DEF Lines
  <2>4. record' = record \/ Upsert(k, None, d, u)
    BY <1>2 DEF HandleFulfillment, RecordShipment
  <2> HIDE DEF k, d, u
  <2> QED BY <2>1, <2>3, <2>4, UpsertFinds
<1>3. ASSUME NEW m \in DOMAIN record, MarkDelivered(m)
      PROVE  \A n \in DOMAIN record : n \in DOMAIN record' /\ record'[n].ship = record[n].ship
  <2>1. \A n \in DOMAIN record : record[n] \in Record
    BY DEF IInv, Shape
  <2>2. record' = [record EXCEPT ![m].delivered = TRUE]
    BY <1>3 DEF MarkDelivered
  <2> QED BY <2>1, <2>2 DEF Record
<1>4. ASSUME NEW r \in Requests, CreatePreorderFulfillment(r) \/ CancelOrder(r) \/ Abandon(r)
      PROVE  record' = record \/ RecordFulfillment(r)
  BY <1>4 DEF CreatePreorderFulfillment, StartFulfillment, SyncAndPick, ShipUnits,
              CancelOrder, StartCancel, CancelLines, Abandon
<1>5. CASE \/ \E g \in Groups : EditBalance(g) \/ PayBalance(g)
           \/ AcceptReady \/ AcceptPre \/ \E k \in Ships : PushReady(k)
  BY <1>5 DEF EditBalance, PayBalance, AcceptReady, AcceptPre, PushReady
<1>6. CASE Shopify
  BY <1>6 DEF Shopify, FulfillInShopify, Arrive, SendAgain
<1>7. CASE \/ \E e \in events : LoseEvent(e)
           \/ Hand
           \/ UNCHANGED vars
  BY <1>7 DEF LoseEvent, Hand, UpdateItemsReceived, AddTrackingNumber, UpdateFulfillmentStep, vars
<1> QED BY <1>1, <1>2, <1>3, <1>4, <1>5, <1>6, <1>7 DEF Next

(* The faults only grow, and an event goes only when it is handled or lost. *)
LEMMA EventsWait ==
  ASSUME IInv, faults \in Nat, [Next]_vars
  PROVE  /\ faults' \in Nat /\ faults' >= faults
         /\ \/ events \subseteq events' \/ faults' > 0
            \/ \E e \in events : HandleFulfillment(e) /\ events' = events \ {e}
<1> USE DEF past, shop
<1>1. ASSUME NEW g \in Groups, EditBalance(g) \/ PayBalance(g)
      PROVE  faults' = faults /\ events' = events
  BY <1>1 DEF EditBalance, PayBalance
<1>2. ASSUME AcceptReady \/ AcceptPre
      PROVE  faults' = faults /\ events' = events
  BY <1>2 DEF AcceptReady, AcceptPre
<1>3. ASSUME NEW k \in Ships, PushReady(k)
      PROVE  faults' \in {faults, faults + 1} /\ events \subseteq events'
  BY <1>3 DEF PushReady, Ships1, Fault
<1>4. ASSUME NEW r \in Requests, CreatePreorderFulfillment(r)
      PROVE  faults' \in {faults, faults + 1} /\ events \subseteq events'
  <2>1. ASSUME NEW k \in Ships, ShipUnits(r, k)
        PROVE  faults' \in {faults, faults + 1} /\ events \subseteq events'
    BY <2>1 DEF ShipUnits, Ships1, Fault
  <2>2. CASE SyncAndPick(r)
    BY <2>2 DEF SyncAndPick, Fault
  <2>3. ASSUME NEW g \in Groups, NEW l \in Pre, NEW q \in 1 .. Qty[l], StartFulfillment(r, g, l, q)
        PROVE  faults' = faults /\ events' = events
    BY <2>3 DEF StartFulfillment
  <2>4. CASE RecordFulfillment(r)
    BY <2>4 DEF RecordFulfillment
  <2> QED BY <1>4, <2>1, <2>2, <2>3, <2>4 DEF CreatePreorderFulfillment
<1>5. ASSUME NEW r \in Requests, CancelOrder(r) \/ Abandon(r)
      PROVE  faults' \in {faults, faults + 1} /\ events' = events
  BY <1>5 DEF CancelOrder, StartCancel, CancelLines, Abandon, Fault
<1>6. CASE Shopify
  <2>1. faults' \in {faults, faults + 1} /\ events \subseteq events'
    BY <1>6 DEF Shopify, FulfillInShopify, Arrive, SendAgain, Ships1
  <2> QED BY <2>1
<1>7. ASSUME NEW e \in events, HandleFulfillment(e)
      PROVE  faults' = faults /\ events' = events \ {e}
  BY <1>7 DEF HandleFulfillment
<1>8. ASSUME NEW e \in events, LoseEvent(e)
      PROVE  faults' = faults + 1
  BY <1>8 DEF LoseEvent, Fault
<1>9. ASSUME NEW n \in DOMAIN record, MarkDelivered(n)
      PROVE  faults' = faults /\ events \subseteq events'
  BY <1>9 DEF MarkDelivered, CreateFulfillmentEvent
<1>10. CASE Hand
  BY <1>10 DEF Hand, ByHand, UpdateItemsReceived, AddTrackingNumber, UpdateFulfillmentStep
<1>11. CASE UNCHANGED vars
  BY <1>11 DEF vars
<1> QED BY <1>1, <1>2, <1>3, <1>4, <1>5, <1>6, <1>7, <1>8, <1>9, <1>10, <1>11 DEF Next

(* Goods match the pre-order line they are of.                              *)
LEMMA GoodsMatched ==
  ASSUME Shape, NEW k \in Ships, Goods(k)
  PROVE  \E l \in Pre : Matched(k)[l] # 0
<1>1. PICK x \in Parts : x[2] # None /\ ship[k].units[x] > 0
  BY DEF Goods
<1>2. PICK l \in Pre : l = x[1]
  BY <1>1 DEF Parts
<1> DEFINE S == {y \in Of(l) : l \in Ready \/ y[2] # None}
<1>3. ship[k].units \in [Parts -> Nat]
  BY DEF Shape, Ship
<1>4. IsFiniteSet(S) /\ x \in S /\ \A y \in S : ship[k].units[y] \in Nat /\ ship[k].units[y] \in Nat
  BY <1>1, <1>2, <1>3, OfFinite, FS_Subset DEF Of
<1> HIDE DEF S
<1>5. Total(ship[k].units, S) >= ship[k].units[x] /\ Total(ship[k].units, S) \in Nat
  BY <1>4, TotalReplace, TotalType
<1>6. Total(ship[k].units, S) # 0
  BY <1>1, <1>3, <1>5
<1>7. Matched(k)[l] = Total(ship[k].units, S)
  BY DEF Matched, Lines, S
<1> QED BY <1>6, <1>7

(* An event of goods that were shipped leaves a record behind.              *)
LEMMA HandledIsRecorded ==
  ASSUME IInv, NEW e \in events, HandleFulfillment(e), Goods(e.ship)
  PROVE  InRecord(e.ship)
<1> DEFINE k == e.ship
           d == e.arrived \/ ~ ship[k].tracked
           u == [l \in Pre |-> Matched(k)[l]]
<1>1. k \in Ships /\ d \in BOOLEAN
  BY DEF IInv, Shape, Event, Ship
<1>2. Matched(k) \in [Lines -> Nat]
  BY <1>1, MatchedHas DEF IInv
<1>3. u \in [Pre -> Nat]
  BY <1>2 DEF Lines
<1>4. \E l \in Pre : Matched(k)[l] # 0
  BY <1>1, GoodsMatched DEF IInv
<1>5. Upsert(k, None, d, u)
  BY <1>4 DEF HandleFulfillment, RecordShipment
<1> HIDE DEF d, u
<1> QED BY <1>1, <1>3, <1>5, UpsertFinds

LEMMA NotedStep == IInv /\ Noted /\ [Next]_vars => Noted'
<1> SUFFICES ASSUME IInv, Noted, [Next]_vars
             PROVE  Noted'
  OBVIOUS
<1>1. faults \in Nat /\ faults' \in Nat /\ faults' >= faults
  BY EventsWait DEF Noted
<1> SUFFICES ASSUME NEW k \in Ships, Goods(k)'
             PROVE  faults' > 0 \/ (\E e \in events' : e.ship = k) \/ InRecord(k)
  BY <1>1 DEF Noted, Awaited, InRecord
<1>2. CASE Goods(k)
  <2>1. CASE faults > 0
    BY <1>1, <2>1
  <2>2. ASSUME NEW e \in events, e.ship = k
        PROVE  faults' > 0 \/ (\E f \in events' : f.ship = k) \/ InRecord(k)
    <3>1. CASE events \subseteq events' \/ faults' > 0
      BY <2>2, <3>1
    <3>2. ASSUME NEW f \in events, HandleFulfillment(f), events' = events \ {f}
          PROVE  (\E h \in events' : h.ship = k) \/ InRecord(k)
      BY <1>2, <2>2, <3>2, HandledIsRecorded
    <3> QED BY <3>1, <3>2, EventsWait DEF Noted
  <2>3. ASSUME NEW n \in DOMAIN record, record[n].ship = k
        PROVE  InRecord(k)
    BY <2>3, RecordsGrow DEF InRecord
  <2> QED BY <1>2, <2>1, <2>2, <2>3 DEF Noted, Awaited
<1>3. CASE ~ Goods(k)
  <2>1. ship'[k].units # ship[k].units
    BY <1>3 DEF Goods
  <2>2. Shipping
    <3>1. ASSUME NEW j \in Ships, ship' = [ship EXCEPT ![j].state = "arrived"]
          PROVE  FALSE
      BY <2>1, <3>1 DEF IInv, Shape, Ship
    <3>2. ~ ArriveStep
      BY <2>1, <3>1, MarkShip DEF ArriveStep, Arrive
    <3>3. ship' # ship
      BY <2>1
    <3> QED BY <3>2, <3>3, ShipStays, ShippingHolds DEF shop
  <2>3. PICK j \in Ships, g \in Groups \cup {None}, t \in BOOLEAN, u \in [Parts -> Nat] :
          Free(j) /\ Ships1(j, u, g, t) /\ \A x \in Parts : u[x] <= remaining[x]
    BY <2>2 DEF Shipping
  <2>4. j = k
    BY <2>1, <2>3 DEF Ships1, IInv, Shape
  <2>5. [ship |-> k, arrived |-> FALSE] \in events'
    BY <2>3, <2>4 DEF Ships1
  <2> QED BY <2>5
<1> QED BY <1>2, <1>3

(* Goods that were shipped, in Shopify or from here, are in a record when   *)
(* every event was handled, unless a call failed (ShipmentsRecorded).       *)
THEOREM RecordedInTheEnd == Spec => []ShipmentsRecorded
<1>1. Init => IInv /\ Noted
  BY InitHolds DEF Init, Noted, Goods, NoShip, NoUnits
<1>2. IInv /\ Noted /\ [Next]_vars => (IInv /\ Noted)'
  BY StepHolds, NotedStep
<1>3. IInv /\ Noted => ShipmentsRecorded
  BY DEF Noted, Goods, Awaited, ShipmentsRecorded, Quiet
<1> QED BY <1>1, <1>2, <1>3, PTL DEF Spec
=============================================================================
