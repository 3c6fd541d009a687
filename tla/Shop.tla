-------------------------------- MODULE Shop --------------------------------
(***************************************************************************)
(* Carts over the mirrored catalogue, up to the point where a checkout     *)
(* takes its stock locks (internal/cart, the first half of                 *)
(* InitiateCheckout; the rest of it is in CheckoutLocks), and the older    *)
(* POST /orders, which orders a cart without locks (internal/order).       *)
(*                                                                         *)
(* A cart has a ship-ready and a pre-order quantity of each variant.  Its  *)
(* requests only use the database: each is one step.  A checkout asks      *)
(* Shopify for its stock up to three times.  Prices are left out, and so   *)
(* is the second active cart of a user whose two first requests race.      *)
(***************************************************************************)
EXTENDS Catalogue, Totals

CONSTANTS
    Goods,          \* variants that shoppers put into carts
    Guests, Users,  \* whose carts there are
    Orders,         \* requests to POST /orders, one order each
    MaxUnits        \* bound: units of a variant in a cart

ASSUME ShopAssumption ==
    /\ Goods \subseteq Variants /\ MaxUnits \in Nat
    /\ Guests \cap Users = {}
    /\ IsFiniteSet(Guests) /\ IsFiniteSet(Users) /\ IsFiniteSet(Orders)

VARIABLES
    status,     \* [Carts -> state of the row]
    cart,       \* [Carts -> [Goods -> quantities]]
    buy,        \* [Carts -> the checkout of its owner]
    place,      \* [Orders -> the request]
    asked,      \* history: [Goods -> units that shoppers have asked for]
    late,       \* history: [Goods -> units that came into a cart after an order had read it]
    twice       \* history: [Goods -> units that an order had read and that stayed in a cart or left it]

histories == <<asked, late, twice>>

cartVars == <<status, cart, buy, place, histories>>
shopVars == <<catalogueVars, cartVars>>

Carts == Guests \cup Users

NoUnits     == [ship |-> 0, pre |-> 0]
Units(l)    == l.ship + l.pre
Split(n, q) == IF n <= q \/ n = 0 THEN [ship |-> n, pre |-> 0] ELSE [ship |-> q, pre |-> n - q]
AtLeastZero(q) == IF q < 0 THEN 0 ELSE q
Idle        == [step |-> "idle", ship |-> [v \in Goods |-> 0], seen |-> [v \in Goods |-> None], refused |-> FALSE]
(* Units that shoppers have: in their carts, and in their orders once the   *)
(* carts were cleared.                                                      *)
InCart(v)  == [c \in Carts |-> IF status[c] = "merged" THEN 0 ELSE Units(cart[c][v])]
InOrder(v) == [o \in Orders |-> IF place[o].step = "done" THEN Units(place[o].lines[v]) ELSE 0]
Kept(v)    == Total(InCart(v), Carts) + Total(InOrder(v), Orders)

(* What comes into carts, and leaves them, between the reading of the cart  *)
(* by an order and its end.                                                 *)
BeingOrdered(c) == \E o \in Orders : place[o].cart = c /\ place[o].step \in {"link", "draft", "save", "clear"}
Came(v)         == [c \in Carts |-> IF BeingOrdered(c) THEN AtLeastZero(InCart(v)'[c] - InCart(v)[c]) ELSE 0]
Left(v)         == [c \in Carts |-> IF BeingOrdered(c) THEN AtLeastZero(InCart(v)[c] - InCart(v)'[c]) ELSE 0]

Observe ==
    /\ late' = [v \in Goods |-> late[v] + Total(Came(v), Carts)]
    /\ twice' = [v \in Goods |-> twice[v] + Total(Left(v), Carts)]
----------------------------------------------------------------------------
(* getOrCreateCart: a guest whose cart was merged gets no new one, as the   *)
(* session is unique.                                                       *)
Usable(c) == status[c] \in {"none", "active"}

Put(c, v, l) ==
    /\ Units(l) <= MaxUnits
    /\ status' = [status EXCEPT ![c] = "active"]
    /\ cart' = [cart EXCEPT ![c][v] = l]
    /\ UNCHANGED <<catalogueVars, buy, place>>

AddItem(c, v, n) ==
    /\ Usable(c) /\ variant[v] # None
    /\ LET free == variant[v].qty - Units(cart[c][v]) IN
          Put(c, v, IF free > 0 /\ variant[v].type # "pre_order"
                    THEN [cart[c][v] EXCEPT !.ship = @ + n]
                    ELSE [cart[c][v] EXCEPT !.pre = @ + n])
    /\ asked' = [asked EXCEPT ![v] = @ + n]

(* What SetVariantQuantity makes of n units.                                *)
DesiredSplit(v, n) ==
    IF variant[v].type = "pre_order" THEN [ship |-> 0, pre |-> n] ELSE Split(n, variant[v].qty)

(* A negative quantity is refused by the database.                          *)
SetVariantQuantity(c, v, n) ==
    /\ Usable(c) /\ variant[v] # None
    /\ DesiredSplit(v, n).ship >= 0
    /\ Put(c, v, DesiredSplit(v, n))
    /\ asked' = [asked EXCEPT ![v] = @ + n - Units(cart[c][v])]

UpdateItemQuantity(c, v, kind, n) ==
    /\ status[c] = "active" /\ cart[c][v][kind] > 0
    /\ Put(c, v, [cart[c][v] EXCEPT ![kind] = n])
    /\ asked' = [asked EXCEPT ![v] = @ + n - cart[c][v][kind]]

Empty(c) == cart' = [cart EXCEPT ![c] = [v \in Goods |-> NoUnits]]

ClearCart(c) ==
    /\ status[c] = "active"
    /\ Empty(c)
    /\ asked' = [v \in Goods |-> asked[v] - Units(cart[c][v])]
    /\ UNCHANGED <<catalogueVars, status, buy, place>>

MergeCarts(u, g) ==
    /\ status[g] = "active"
    /\ \A v \in Goods : Units(cart[u][v]) + Units(cart[g][v]) <= MaxUnits
    /\ cart' = [cart EXCEPT ![u] = [v \in Goods |-> [ship |-> @[v].ship + cart[g][v].ship,
                                                     pre  |-> @[v].pre + cart[g][v].pre]]]
    /\ status' = [status EXCEPT ![u] = "active", ![g] = "merged"]
    /\ UNCHANGED <<catalogueVars, buy, place, asked>>
----------------------------------------------------------------------------
(* InitiateCheckout.  GetCartResponse leaves out what has no row; nothing   *)
(* is asked of Shopify for a cart that ships together, or has nothing ship- *)
(* ready.                                                                   *)
ShipReady(c) == [v \in Goods |-> IF variant[v] = None THEN 0 ELSE cart[c][v].ship]

StartCheckout(c) ==
    /\ buy[c].step = "idle" /\ status[c] = "active"
    /\ \E v \in Goods : ShipReady(c)[v] > 0
    /\ \A v \in Goods : Units(cart[c][v]) > 0 /\ variant[v] # None => Listed(ProductOf[v])
    /\ buy' = [buy EXCEPT ![c] = [Idle EXCEPT !.step = "ask", !.ship = ShipReady(c)]]
    /\ UNCHANGED <<catalogueVars, status, cart, place, histories>>

(* GetVariantsInventory: of the reconciliation, of AcquireLocks, and of the *)
(* second reconciliation after it.                                          *)
GetVariantsInventory(c) ==
    /\ buy[c].step \in {"ask", "lock", "again"}
    /\ buy' = [buy EXCEPT ![c].step = CASE @ = "ask" -> "sync" [] @ = "lock" -> "take" [] @ = "again" -> "resync",
                          ![c].seen = [v \in Goods |-> IF buy[c].ship[v] > 0 /\ item[v] # None THEN item[v].qty ELSE None]]
    /\ UNCHANGED <<catalogueVars, status, cart, place, histories>>

SyncInventoryQuantities(seen) ==
    variant' = [v \in Variants |->
                  IF v \in Goods /\ seen[v] # None /\ variant[v] # None
                  THEN Stocked(variant[v], AtLeastZero(seen[v])) ELSE variant[v]]

(* ReconcileShipReadyAgainstInventory, with the rows as they are now.       *)
Constrained(r) == r # None /\ r.type # "pre_order" /\ r.tracked

LiveSplit(c, v, seen) ==
    IF cart[c][v].ship > 0 /\ seen[v] # None /\ Constrained(variant'[v])
    THEN Split(Units(cart[c][v]), AtLeastZero(seen[v]))
    ELSE cart[c][v]

Resync(c) ==
    /\ SyncInventoryQuantities(buy[c].seen)
    /\ cart' = IF status[c] = "active"
               THEN [cart EXCEPT ![c] = [v \in Goods |-> LiveSplit(c, v, buy[c].seen)]] ELSE cart
    /\ UNCHANGED <<shopify, inbox, product, custom, creation, sync, add, link, faults, status, place, histories>>

Moved(c) == \E v \in Goods : cart'[c][v].ship < cart[c][v].ship

Finish(c, refused) == buy' = [buy EXCEPT ![c].step = "idle", ![c].refused = refused]

(* Units that moved to pre-order refuse the checkout; otherwise the cart is *)
(* loaded again for the locks.                                              *)
ReconcileShipReady(c) ==
    /\ buy[c].step = "sync"
    /\ Resync(c)
    /\ IF Moved(c) THEN Finish(c, TRUE)
       ELSE IF \E v \in Goods : ShipReady(c)'[v] > 0
       THEN buy' = [buy EXCEPT ![c].step = "lock", ![c].ship = ShipReady(c)']
       ELSE Finish(c, FALSE)

(* AcquireLocks, and the locks of others left out.                          *)
OutOfStock(c) ==
    \E v \in Goods : /\ buy[c].ship[v] > 0 /\ (variant[v] = None \/ variant[v].tracked)
                     /\ buy[c].seen[v] # None /\ buy[c].seen[v] < buy[c].ship[v]

AcquireLocks(c) ==
    /\ buy[c].step = "take"
    /\ IF OutOfStock(c) THEN buy' = [buy EXCEPT ![c].step = "again"] ELSE Finish(c, FALSE)
    /\ UNCHANGED <<catalogueVars, status, cart, place, histories>>

ReconcileAgain(c) ==
    /\ buy[c].step = "resync"
    /\ Resync(c)
    /\ Finish(c, TRUE)

InitiateCheckout(c) ==
    StartCheckout(c) \/ GetVariantsInventory(c) \/ ReconcileShipReady(c) \/ AcquireLocks(c) \/ ReconcileAgain(c)
----------------------------------------------------------------------------
(* CreateOrder of POST /orders: what the cart shows becomes a storefront    *)
(* cart, to be paid at a link, and a draft, to be paid by invoice.          *)
Blank == [step |-> "idle", cart |-> None, lines |-> [v \in Goods |-> NoUnits]]

Shown(c)   == [v \in Goods |-> IF variant[v] = None THEN NoUnits ELSE cart[c][v]]
Has(o, kind) == \E v \in Goods : place[o].lines[v][kind] > 0
Goto(o, s) == place' = [place EXCEPT ![o].step = s]

(* What has no row is not shown, but goes with the cart.                    *)
ReadCart(o, c) ==
    /\ place[o].step = "idle" /\ status[c] = "active"
    /\ \E v \in Goods : Units(Shown(c)[v]) > 0
    /\ place' = [place EXCEPT ![o] = [step |-> "link", cart |-> c, lines |-> Shown(c)]]
    /\ late' = [v \in Goods |-> late[v] + Units(cart[c][v]) - Units(Shown(c)[v])]
    /\ twice' = IF BeingOrdered(c) THEN [v \in Goods |-> twice[v] + Units(Shown(c)[v])] ELSE twice
    /\ UNCHANGED <<catalogueVars, status, cart, buy, asked>>

(* A call that fails ends the request; what Shopify has made stays there,   *)
(* and nobody is given the link.                                            *)
CreateStorefrontCart(o) ==
    /\ place[o].step = "link"
    /\ Goto(o, "draft") \/ (Has(o, "ship") /\ Goto(o, "failed"))
    /\ UNCHANGED <<catalogueVars, status, cart, buy, histories>>

CreateDraft(o) ==
    /\ place[o].step = "draft"
    /\ Goto(o, "save") \/ (Has(o, "pre") /\ Goto(o, "failed"))
    /\ UNCHANGED <<catalogueVars, status, cart, buy, histories>>

(* Mutant: the cart is emptied though the order could not be saved.         *)
SaveOrClear(o) ==
    /\ place[o].step = "save"
    /\ \/ Goto(o, "clear") /\ UNCHANGED cart
       \/ Goto(o, "failed") /\ Empty(place[o].cart)
    /\ UNCHANGED <<catalogueVars, status, buy, histories>>

(* Its customer, amounts and settlements are left out.                      *)
SaveOrder(o) ==
    /\ place[o].step = "save"
    /\ Goto(o, "clear") \/ Goto(o, "failed")
    /\ UNCHANGED <<catalogueVars, status, cart, buy, histories>>

(* The cart is cleared whatever is in it by then, if it is there still; an  *)
(* error is ignored, and the cart then stays as it is.                      *)
ClearOrdered(o) ==
    /\ place[o].step = "clear"
    /\ Goto(o, "done")
    /\ \/ status[place[o].cart] = "active" /\ Empty(place[o].cart) /\ UNCHANGED twice
       \/ status[place[o].cart] # "active" /\ UNCHANGED <<cart, twice>>
       \/ /\ status[place[o].cart] = "active"
          /\ twice' = [v \in Goods |-> twice[v] + Units(place[o].lines[v])]
          /\ UNCHANGED cart
    /\ UNCHANGED <<catalogueVars, status, buy, asked, late>>

CreateOrder(o) ==
    (\E c \in Carts : ReadCart(o, c)) \/ CreateStorefrontCart(o) \/ CreateDraft(o) \/ SaveOrder(o) \/ ClearOrdered(o)
----------------------------------------------------------------------------
CartInit ==
    /\ status = [c \in Carts |-> IF c \in Guests THEN "active" ELSE "none"]
    /\ cart = [c \in Carts |-> [v \in Goods |-> NoUnits]]
    /\ buy = [c \in Carts |-> Idle]
    /\ place = [o \in Orders |-> Blank]
    /\ asked = [v \in Goods |-> 0] /\ late = asked /\ twice = asked

ShopInit == CatalogueInit /\ CartInit

Fill ==
    \E c \in Carts :
      \/ \E v \in Goods :
           \/ \E n \in 1 .. MaxUnits : AddItem(c, v, n)
           \/ \E n \in 0 .. MaxUnits :
                 SetVariantQuantity(c, v, n) \/ \E kind \in {"ship", "pre"} : UpdateItemQuantity(c, v, kind, n)
      \/ ClearCart(c)
      \/ \E u \in Users, g \in Guests : c = u /\ MergeCarts(u, g)

Filling == Fill /\ Observe

Shopping == Filling \/ \E c \in Carts : InitiateCheckout(c)

Ordering == \E o \in Orders : CreateOrder(o)

ShopNext == (CatalogueNext /\ UNCHANGED cartVars) \/ Shopping \/ Ordering

ShopSpec == ShopInit /\ [][ShopNext]_shopVars
----------------------------------------------------------------------------
Line      == [ship: Nat, pre: Nat]
Checkouts == [step: {"idle", "ask", "sync", "lock", "take", "again", "resync"}, ship: [Goods -> Nat],
              seen: [Goods -> Quantities \cup {None}], refused: BOOLEAN]
Places    == [step: {"idle", "link", "draft", "save", "clear", "done", "failed"},
              cart: Carts \cup {None}, lines: [Goods -> Line]]

CartTypeOK ==
    /\ status \in [Carts -> {"none", "active", "merged"}]
    /\ cart \in [Carts -> [Goods -> Line]]
    /\ buy \in [Carts -> Checkouts] /\ place \in [Orders -> Places]
    /\ asked \in [Goods -> Int] /\ late \in [Goods -> Nat] /\ twice \in [Goods -> Nat]

(* However carts are filled, split, merged, reconciled with what Shopify    *)
(* has and ordered while other requests change them: no unit that shoppers  *)
(* asked for is missing from the active carts and the orders, but what came *)
(* into a cart while it was being ordered (CreateOrder clears what it never *)
(* read); and none is there twice, but what left a cart meanwhile, was      *)
(* ordered by two requests at a time, or stayed in a cart whose clearing    *)
(* failed.                                                                  *)
UnitsKept ==
    \A v \in Goods : /\ asked[v] - Kept(v) <= late[v]
                     /\ Kept(v) - asked[v] <= twice[v]
=============================================================================
