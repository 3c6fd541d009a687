------------------------------- MODULE MCShop -------------------------------
(***************************************************************************)
(* Bounds for TLC: five scenes over the same modules, so that their       *)
(* numbers of states add up instead of multiplying.                        *)
(***************************************************************************)
EXTENDS Shop

CONSTANTS
    MaxCrossed,     \* bound: units that change in a cart while it is ordered
    p1, p2, p3, v1, w1, v2, w2, v3

VARIABLE scene  \* which of the scenes this behaviour plays in

MCProductOf == [v \in Variants |-> CASE v \in {v1, w1} -> p1 [] v \in {v2, w2} -> p2 [] v = v3 -> p3]

(* From the beginning, when nothing has been synchronised.                  *)
FirstNight == scene \in {"mirror", "creation"} /\ ShopInit

Quiet ==
    /\ inbox = {}
    /\ create = [r \in Creators |-> Resting] /\ errors = [k \in Keys |-> 0]
    /\ sync = Rest /\ add = Nothing /\ link = [step |-> "idle", v |-> None]
    /\ changes = MaxChanges - 1 /\ faults = 0
    /\ CartInit

(* A custom product has been made.                                          *)
CustomProduct ==
    /\ scene = "extension" /\ Quiet
    /\ item = [v \in Variants |-> IF v = v2 THEN [qty |-> 0, tracked |-> FALSE] ELSE None]
    /\ variant = [v \in Variants |-> IF v = v2 THEN Custom ELSE None]
    /\ live = {p2} /\ product = [p \in Products |-> IF p = p2 THEN "listed" ELSE "none"]
    /\ custom = {p2}
    /\ stub = [k \in Keys |-> p2] /\ made = [k \in Keys |-> {p2}]

(* A product of Shopify's has been synchronised.                            *)
OpenShop ==
    /\ scene \in {"shopping", "ordering"} /\ Quiet
    /\ \E q \in Quantities, t \in BOOLEAN :
          /\ item = [v \in Variants |-> IF v = v1 THEN [qty |-> q, tracked |-> t] ELSE None]
          /\ variant = [v \in Variants |->
               IF v = v1 THEN Stocked([type |-> "ship_ready", qty |-> 0, tracked |-> t, link |-> None], q) ELSE None]
    /\ live = {p1} /\ product = [p \in Products |-> IF p = p1 THEN "listed" ELSE "none"]
    /\ custom = {}
    /\ stub = [k \in Keys |-> "none"] /\ made = [k \in Keys |-> {}]

MCInit == FirstNight \/ CustomProduct \/ OpenShop

Add == (\E p \in Products, v \in Variants : StartAdd(p, v)) \/ AddProductVariants

(* What the merchant and administrators do with a product of Shopify's.     *)
Mirroring == Merchant \/ Webhook \/ Status \/ Add \/ RequestFails

(* Products made from here, while nothing else changes in Shopify.          *)
Creating == \E r \in Creators : (\E k \in Keys : StartCreate(r, k)) \/ CreateCustomProduct(r) \/ CreateFails(r)

Extending == Merchant \/ Webhook \/ Add \/ (\E v \in Variants : StartLink(v)) \/ LinkCustomVariantSKU \/ RequestFails

Stocking ==
    \/ \E q \in Quantities : SetStock(v1, q) \/ HandleInventoryUpdate(v1, q)
    \/ \E t \in Types : UpdateVariantStatus(v1, t)

InCatalogue ==
    \/ scene \notin {"shopping", "ordering"} /\ (StartSync \/ Sync \/ SyncFails)
    \/ scene = "mirror" /\ Mirroring
    \/ scene = "creation" /\ Creating
    \/ scene = "extension" /\ Extending
    \/ scene = "shopping" /\ Stocking

MCNext ==
    /\ UNCHANGED scene
    /\ \/ InCatalogue /\ UNCHANGED cartVars
       \/ scene = "shopping" /\ Shopping
       \/ /\ scene = "ordering" /\ (Filling \/ Ordering)
          /\ \A v \in Goods : late'[v] + twice'[v] <= MaxCrossed

MCSpec == MCInit /\ [][MCNext]_<<shopVars, scene>> /\ CatalogueFairness

(* What the shop sells is what Shopify has, in the scenes with a            *)
(* synchronisation.                                                         *)
MirrorConverges == scene \notin {"shopping", "ordering"} => CatalogueConverges
=============================================================================
