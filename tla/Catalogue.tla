----------------------------- MODULE Catalogue -----------------------------
(***************************************************************************)
(* The mirror of Shopify's products that the shop sells from               *)
(* (internal/product, the inventory and product webhooks): the nightly     *)
(* synchronisation, custom products made from here and linked to an SKU    *)
(* later, variants added to a product, and administrators who decide how a *)
(* variant is sold.                                                        *)
(*                                                                         *)
(* Statements between two calls to Shopify are one step.  A product is     *)
(* either in Shopify or not: drafts and archived products, titles, prices, *)
(* images and dimensions are left out, and so is the standalone variant    *)
(* that Shopify gives a product without variants.                          *)
(***************************************************************************)
EXTENDS FiniteSets, Integers

CONSTANTS
    Products, Variants,
    ProductOf,      \* [Variants -> Products]
    Imported,       \* variants that Shopify has from the start
    Keys,           \* idempotency keys of custom products
    Creators,       \* requests inside CreateCustomProduct
    Types,          \* how a variant may be sold
    Quantities,     \* what Shopify may have in stock
    PageCap,        \* shopifySyncPageCap
    MaxChanges,     \* bound: what the merchant does in Shopify
    MaxFaults,      \* bound: failed calls and restarts
    None

ASSUME CatalogueAssumption ==
    /\ ProductOf \in [Variants -> Products]
    /\ Imported \subseteq Variants
    /\ Quantities \subseteq Int /\ 0 \in Quantities
    /\ {"ship_ready", "pre_order"} \subseteq Types
    /\ PageCap \in Nat
    /\ None \notin Products \cup Variants \cup Keys \cup {"awaiting"}
    /\ Products \cap {"none", "creating", "failed"} = {}

VARIABLES
    live,       \* products in Shopify
    item,       \* [Variants -> variant in Shopify or None]
    inbox,      \* webhooks on their way
    product,    \* [Products -> state of the row]
    custom,     \* products whose row is of origin "custom"
    variant,    \* [Variants -> row or None]
    stub,       \* [Keys -> the row with the key: its state until it is a product]
    sync,       \* the synchronisation
    create, add, link,  \* requests
    made,       \* [Keys -> products made in Shopify for the key] (history)
    errors,     \* [Keys -> requests answered with an error] (history)
    changes, faults

shopify  == <<live, item, changes>>
rows     == <<product, custom, variant>>
creation == <<stub, create, made, errors>>
catalogueVars == <<shopify, inbox, rows, creation, sync, add, link, faults>>

Item == [qty: Quantities, tracked: BOOLEAN]
Row  == [type: Types, qty: Quantities, tracked: BOOLEAN, link: {None, "awaiting", "linked"}]

Old       == {ProductOf[v] : v \in Imported}
Of(p)     == {v \in Variants : ProductOf[v] = p}
InShop(p) == {v \in Of(p) : item[v] # None}
Rows(p)   == {v \in Of(p) : variant[v] # None}
Listed(p) == product[p] = "listed"

(* The rule of the inventory webhook, the synchronisation and the checkout: *)
(* tracked goods that are sold out are pre-ordered.                         *)
Stocked(r, q) ==
    [r EXCEPT !.qty = q, !.type = IF r.tracked /\ q <= 0 /\ @ = "ship_ready" THEN "pre_order" ELSE @]
----------------------------------------------------------------------------
(* SyncFromShopify.  Products come newest first, a page after the other: a  *)
(* product made after the first page is on none.  A page has one product    *)
(* here, and otherwise the order is left open.                              *)
Rest == [step |-> "idle", ahead |-> {}, seen |-> {}, page |-> None, snap |-> [v \in Variants |-> None]]

StartSync ==
    /\ sync.step = "idle"
    /\ sync' = [Rest EXCEPT !.step = "page", !.ahead = live]
    /\ UNCHANGED <<shopify, inbox, rows, creation, add, link, faults>>

QueryPage ==
    /\ sync.step = "page" /\ Cardinality(sync.seen) < PageCap
    /\ \E p \in sync.ahead \cap live :
          sync' = [sync EXCEPT !.step = "write", !.ahead = @ \ {p}, !.seen = @ \cup {p}, !.page = p,
                               !.snap = [v \in Variants |-> IF ProductOf[v] = p THEN item[v] ELSE None]]
    /\ UNCHANGED <<shopify, inbox, rows, creation, add, link, faults>>

(* A new row takes its tracking from Shopify, an old one keeps its own, and *)
(* its link.                                                                *)
NewRow(v) ==
    Stocked([type |-> "ship_ready", qty |-> 0, tracked |-> sync.snap[v].tracked, link |-> None],
            sync.snap[v].qty)

(* Mutant: the tracking of every row follows Shopify.                       *)
MirroredVariant(v) ==
    IF variant[v] = None THEN NewRow(v)
    ELSE Stocked([variant[v] EXCEPT !.tracked = sync.snap[v].tracked], sync.snap[v].qty)

SyncedVariant(v) ==
    IF variant[v] = None THEN NewRow(v) ELSE Stocked(variant[v], sync.snap[v].qty)

(* UpsertProduct, UpsertVariant, DeleteVariantsNotIn, which does nothing    *)
(* for a product without variants.                                          *)
SyncProduct ==
    /\ sync.step = "write"
    /\ LET kept == {v \in Of(sync.page) : sync.snap[v] # None} IN
          /\ product' = [product EXCEPT ![sync.page] = "listed"]
          /\ variant' = [v \in Variants |->
                           IF v \in kept THEN SyncedVariant(v)
                           ELSE IF kept # {} /\ v \in Of(sync.page) THEN None ELSE variant[v]]
    /\ sync' = [Rest EXCEPT !.step = "page", !.ahead = sync.ahead, !.seen = sync.seen]
    /\ UNCHANGED <<shopify, inbox, custom, creation, add, link, faults>>

(* Mutant: products that Shopify no longer has are left alone.              *)
ReconcileNothing ==
    /\ sync.step = "page" /\ sync.ahead \cap live = {}
    /\ sync' = Rest
    /\ UNCHANGED <<shopify, inbox, rows, creation, add, link, faults>>

(* After the last page, or as many as the cap allows, what was on none of   *)
(* them is marked as deleted.                                               *)
ReconcileProducts ==
    /\ sync.step = "page"
    /\ sync.ahead \cap live = {} \/ Cardinality(sync.seen) = PageCap
    /\ product' = [p \in Products |-> IF Listed(p) /\ p \notin sync.seen THEN "deleted" ELSE product[p]]
    /\ sync' = Rest
    /\ UNCHANGED <<shopify, inbox, custom, variant, creation, add, link, faults>>

(* A failed call ends it before anything is marked.                         *)
SyncFails ==
    /\ sync.step # "idle" /\ faults < MaxFaults
    /\ faults' = faults + 1
    /\ sync' = Rest
    /\ UNCHANGED <<shopify, inbox, rows, creation, add, link>>
----------------------------------------------------------------------------
(* The merchant, in Shopify.                                                *)
Change == changes < MaxChanges /\ changes' = changes + 1

SetStock(v, q) ==
    /\ Change /\ item[v] # None /\ q # item[v].qty
    /\ item' = [item EXCEPT ![v].qty = q]
    /\ inbox' = inbox \cup {<<v, q>>}
    /\ UNCHANGED <<live, rows, creation, sync, add, link, faults>>

DeleteProduct(p) ==
    /\ Change /\ p \in live
    /\ live' = live \ {p}
    /\ item' = [v \in Variants |-> IF ProductOf[v] = p THEN None ELSE item[v]]
    /\ inbox' = inbox \cup {<<p, None>>}
    /\ UNCHANGED <<rows, creation, sync, add, link, faults>>

(* Webhooks come in any order, or never.                                    *)
HandleInventoryUpdate(v, q) ==
    /\ <<v, q>> \in inbox
    /\ inbox' = inbox \ {<<v, q>>}
    /\ variant' = IF variant[v] = None THEN variant
                  ELSE [variant EXCEPT ![v] = Stocked(variant[v], q)]
    /\ UNCHANGED <<shopify, product, custom, creation, sync, add, link, faults>>

HandleProductDelete(p) ==
    /\ <<p, None>> \in inbox
    /\ inbox' = inbox \ {<<p, None>>}
    /\ product' = [product EXCEPT ![p] = IF @ = "none" THEN @ ELSE "deleted"]
    /\ UNCHANGED <<shopify, custom, variant, creation, sync, add, link, faults>>

LoseWebhook ==
    /\ faults < MaxFaults /\ faults' = faults + 1
    /\ \E e \in inbox : inbox' = inbox \ {e}
    /\ UNCHANGED <<shopify, rows, creation, sync, add, link>>
----------------------------------------------------------------------------
(* CreateCustomProduct.  The row with the key is unique, so of two requests *)
(* one goes on; a failed one is deleted and made again.                     *)
Resting == [step |-> "idle", key |-> None, product |-> None]

(* Mutant: a key that is being created is taken for a failed one.           *)
RestartCreate(r, k) ==
    /\ create[r].step = "idle" /\ stub[k] \in {"none", "failed", "creating"}
    /\ stub' = [stub EXCEPT ![k] = "creating"]
    /\ create' = [create EXCEPT ![r] = [step |-> "product", key |-> k, product |-> None]]
    /\ UNCHANGED <<shopify, inbox, rows, made, errors, sync, add, link, faults>>

StartCreate(r, k) ==
    /\ create[r].step = "idle" /\ stub[k] \in {"none", "failed"}
    /\ stub' = [stub EXCEPT ![k] = "creating"]
    /\ create' = [create EXCEPT ![r] = [step |-> "product", key |-> k, product |-> None]]
    /\ UNCHANGED <<shopify, inbox, rows, made, errors, sync, add, link, faults>>

Fresh == {p \in Products \ Old : \A k \in Keys : p \notin made[k]}

(* The first half of CreateUnlistedProduct.                                 *)
ProductCreate(r) ==
    /\ create[r].step = "product"
    /\ \E p \in Fresh :
          /\ live' = live \cup {p}
          /\ made' = [made EXCEPT ![create[r].key] = @ \cup {p}]
          /\ create' = [create EXCEPT ![r].step = "variants", ![r].product = p]
    /\ UNCHANGED <<item, changes, inbox, rows, stub, errors, sync, add, link, faults>>

(* The second half: some of the variants that the product may have.         *)
ProductVariantsBulkCreate(r) ==
    /\ create[r].step = "variants" /\ create[r].product \in live
    /\ \E V \in (SUBSET Of(create[r].product)) \ {{}} :
          item' = [v \in Variants |-> IF v \in V THEN [qty |-> 0, tracked |-> FALSE] ELSE item[v]]
    /\ create' = [create EXCEPT ![r].step = "finalize"]
    /\ UNCHANGED <<live, changes, inbox, rows, stub, made, errors, sync, add, link, faults>>

Custom == [type |-> "pre_order", qty |-> 0, tracked |-> FALSE, link |-> "awaiting"]

Answer(r, s, e) ==
    /\ stub' = [stub EXCEPT ![create[r].key] = s]
    /\ errors' = [errors EXCEPT ![create[r].key] = @ + e]
    /\ create' = [create EXCEPT ![r] = Resting]

(* FinalizeCustomProduct makes the stub the row of the product, unless the  *)
(* synchronisation has made one: then the stub is marked as failed.         *)
FinalizeCustomProduct(r) ==
    /\ create[r].step = "finalize"
    /\ LET p == create[r].product IN
          IF product[p] = "none"
          THEN /\ product' = [product EXCEPT ![p] = "listed"]
               /\ custom' = custom \cup {p}
               /\ variant' = [v \in Variants |-> IF v \in InShop(p) THEN Custom ELSE variant[v]]
               /\ Answer(r, p, 0)
          ELSE Answer(r, "failed", 1) /\ UNCHANGED rows
    /\ UNCHANGED <<shopify, inbox, made, sync, add, link, faults>>

(* Shopify refuses or its reply is lost: the stub is deleted.  The row      *)
(* cannot be saved: it is marked.  The server stops: the stub stays.        *)
CreateFails(r) ==
    /\ create[r].step # "idle" /\ faults < MaxFaults
    /\ faults' = faults + 1
    /\ \/ Answer(r, IF create[r].step = "finalize" THEN "failed" ELSE "none", 1)
       \/ create' = [create EXCEPT ![r] = Resting] /\ UNCHANGED <<stub, errors>>
    /\ UNCHANGED <<shopify, inbox, rows, made, sync, add, link>>
----------------------------------------------------------------------------
(* AddProductVariants: in Shopify, then here, then whatever Shopify does    *)
(* not list is dropped.                                                     *)
Nothing == [step |-> "idle", product |-> None, new |-> None, keep |-> {}]

StartAdd(p, v) ==
    /\ add.step = "idle" /\ Listed(p) /\ v \in Of(p) /\ variant[v] = None
    /\ add' = [Nothing EXCEPT !.step = "shopify", !.product = p, !.new = v]
    /\ UNCHANGED <<shopify, inbox, rows, creation, sync, link, faults>>

AddInShopify ==
    /\ add.step = "shopify"
    /\ IF add.product \in live /\ item[add.new] = None
       THEN /\ item' = [item EXCEPT ![add.new] = [qty |-> 0, tracked |-> add.product \notin custom]]
            /\ add' = [add EXCEPT !.step = "persist"]
       ELSE add' = Nothing /\ UNCHANGED item
    /\ UNCHANGED <<live, changes, inbox, rows, creation, sync, link, faults>>

(* The row of a variant that the synchronisation found first keeps all but  *)
(* its quantity.                                                            *)
PersistVariant ==
    /\ add.step = "persist"
    /\ variant' = [variant EXCEPT ![add.new] =
                     IF @ # None THEN [@ EXCEPT !.qty = 0]
                     ELSE IF add.product \in custom THEN Custom
                     ELSE [type |-> "pre_order", qty |-> 0, tracked |-> TRUE, link |-> None]]
    /\ add' = [add EXCEPT !.step = "list"]
    /\ UNCHANGED <<shopify, inbox, product, custom, creation, sync, link, faults>>

ListProductVariantIDs ==
    /\ add.step = "list"
    /\ add' = IF add.product \in live THEN [add EXCEPT !.step = "drop", !.keep = InShop(add.product)]
              ELSE Nothing
    /\ UNCHANGED <<shopify, inbox, rows, creation, sync, link, faults>>

DeleteVariantsNotIn ==
    /\ add.step = "drop"
    /\ variant' = [v \in Variants |->
                     IF add.keep # {} /\ v \in Of(add.product) \ add.keep THEN None ELSE variant[v]]
    /\ add' = Nothing
    /\ UNCHANGED <<shopify, inbox, product, custom, creation, sync, link, faults>>

(* LinkCustomVariantSKU: Shopify tracks the variant first.                  *)
StartLink(v) ==
    /\ link = [step |-> "idle", v |-> None]
    /\ variant[v] # None /\ variant[v].link = "awaiting"
    /\ Listed(ProductOf[v]) /\ ProductOf[v] \in custom
    /\ link' = [step |-> "shopify", v |-> v]
    /\ UNCHANGED <<shopify, inbox, rows, creation, sync, add, faults>>

LinkVariantSKU ==
    /\ link.step = "shopify"
    /\ IF item[link.v] = None THEN link' = [step |-> "idle", v |-> None] /\ UNCHANGED item
       ELSE item' = [item EXCEPT ![link.v].tracked = TRUE] /\ link' = [link EXCEPT !.step = "mark"]
    /\ UNCHANGED <<live, changes, inbox, rows, creation, sync, add, faults>>

MarkCustomVariantLinked ==
    /\ link.step = "mark"
    /\ variant' = [variant EXCEPT ![link.v] =
                     IF @ = None THEN @ ELSE [@ EXCEPT !.tracked = TRUE, !.link = "linked"]]
    /\ link' = [step |-> "idle", v |-> None]
    /\ UNCHANGED <<shopify, inbox, product, custom, creation, sync, add, faults>>

(* A call of either fails, or the server stops.                             *)
RequestFails ==
    /\ faults < MaxFaults /\ faults' = faults + 1
    /\ \/ add.step # "idle" /\ add' = Nothing /\ UNCHANGED link
       \/ link.step # "idle" /\ link' = [step |-> "idle", v |-> None] /\ UNCHANGED add
    /\ UNCHANGED <<shopify, inbox, rows, creation, sync>>
----------------------------------------------------------------------------
SoldOut(v) == variant[v].tracked /\ variant[v].qty <= 0

UpdateVariantStatus(v, t) ==
    /\ variant[v] # None
    /\ t = "ship_ready" => ~ SoldOut(v)
    /\ variant' = [variant EXCEPT ![v].type = t]
    /\ UNCHANGED <<shopify, inbox, product, custom, creation, sync, add, link, faults>>

UpdateProductStatus(p, t) ==
    /\ t = "ship_ready" => \A v \in Rows(p) : ~ SoldOut(v)
    /\ variant' = [v \in Variants |-> IF v \in Rows(p) THEN [variant[v] EXCEPT !.type = t] ELSE variant[v]]
    /\ UNCHANGED <<shopify, inbox, product, custom, creation, sync, add, link, faults>>
----------------------------------------------------------------------------
CatalogueInit ==
    /\ live = Old
    /\ item = [v \in Variants |-> IF v \in Imported THEN [qty |-> 0, tracked |-> TRUE] ELSE None]
    /\ inbox = {}
    /\ product = [p \in Products |-> "none"] /\ custom = {}
    /\ variant = [v \in Variants |-> None]
    /\ stub = [k \in Keys |-> "none"] /\ create = [r \in Creators |-> Resting]
    /\ made = [k \in Keys |-> {}] /\ errors = [k \in Keys |-> 0]
    /\ sync = Rest /\ add = Nothing /\ link = [step |-> "idle", v |-> None]
    /\ changes = 0 /\ faults = 0

Sync == QueryPage \/ SyncProduct \/ ReconcileProducts

CreateCustomProduct(r) ==
    ProductCreate(r) \/ ProductVariantsBulkCreate(r) \/ FinalizeCustomProduct(r)

AddProductVariants == AddInShopify \/ PersistVariant \/ ListProductVariantIDs \/ DeleteVariantsNotIn

LinkCustomVariantSKU == LinkVariantSKU \/ MarkCustomVariantLinked

Merchant ==
    \/ \E v \in Variants, q \in Quantities : SetStock(v, q)
    \/ \E p \in Products : DeleteProduct(p)

Webhook ==
    \/ \E v \in Variants, q \in Quantities : HandleInventoryUpdate(v, q)
    \/ \E p \in Products : HandleProductDelete(p)
    \/ LoseWebhook

Status ==
    \E t \in Types : \/ \E v \in Variants : UpdateVariantStatus(v, t)
                     \/ \E p \in Products : UpdateProductStatus(p, t)

CatalogueNext ==
    \/ StartSync \/ Sync \/ SyncFails
    \/ Merchant \/ Webhook
    \/ \E r \in Creators : (\E k \in Keys : StartCreate(r, k)) \/ CreateCustomProduct(r) \/ CreateFails(r)
    \/ (\E p \in Products, v \in Variants : StartAdd(p, v)) \/ AddProductVariants
    \/ (\E v \in Variants : StartLink(v)) \/ LinkCustomVariantSKU \/ RequestFails
    \/ Status

(* The synchronisation runs every night, and requests go on.                *)
CatalogueFairness ==
    /\ WF_catalogueVars(StartSync) /\ WF_catalogueVars(Sync)
    /\ \A r \in Creators : WF_catalogueVars(CreateCustomProduct(r))
    /\ WF_catalogueVars(AddProductVariants) /\ WF_catalogueVars(LinkCustomVariantSKU)

CatalogueSpec == CatalogueInit /\ [][CatalogueNext]_catalogueVars /\ CatalogueFairness
----------------------------------------------------------------------------
Snapshots == [Variants -> Item \cup {None}]
Syncs     == [step: {"idle", "page", "write"}, ahead: SUBSET Products, seen: SUBSET Products,
              page: Products \cup {None}, snap: Snapshots]
Creations == [step: {"idle", "product", "variants", "finalize"}, key: Keys \cup {None},
              product: Products \cup {None}]
Additions == [step: {"idle", "shopify", "persist", "list", "drop"}, product: Products \cup {None},
              new: Variants \cup {None}, keep: SUBSET Variants]
Links     == [step: {"idle", "shopify", "mark"}, v: Variants \cup {None}]

CatalogueTypeOK ==
    /\ live \subseteq Products /\ custom \subseteq Products
    /\ item \in Snapshots /\ variant \in [Variants -> Row \cup {None}]
    /\ inbox \subseteq (Variants \X Quantities) \cup (Products \X {None})
    /\ product \in [Products -> {"none", "listed", "deleted"}]
    /\ stub \in [Keys -> Products \cup {"none", "creating", "failed"}]
    /\ made \in [Keys -> SUBSET Products] /\ errors \in [Keys -> Nat]
    /\ sync \in Syncs /\ create \in [Creators -> Creations] /\ add \in Additions /\ link \in Links
    /\ changes \in Nat /\ faults \in Nat

(* service.go: "Custom products awaiting SKU must stay untracked", even     *)
(* while a synchronisation runs that saw Shopify track them already.        *)
AwaitingUntracked ==
    \A v \in Variants : variant[v] # None /\ variant[v].link = "awaiting" => ~ variant[v].tracked

(* The idempotency key: whatever requests race or are repeated, Shopify     *)
(* gets one product for a key, and one more only for every error that the   *)
(* administrator was told of.                                               *)
MadeOnce == \A k \in Keys : Cardinality(made[k]) <= 1 + errors[k]

(* What the shop sells from is what Shopify has.                            *)
Mirrors ==
    /\ \A p \in Products : Listed(p) <=> p \in live
    /\ \A v \in Variants : ProductOf[v] \in live =>
          /\ variant[v] # None <=> item[v] # None
          /\ variant[v] # None => variant[v].qty = item[v].qty
          /\ variant[v] # None /\ SoldOut(v) => variant[v].type # "ship_ready"

(* Webhooks are lost and late, requests are cut short, a synchronisation    *)
(* overlaps with all of them: once Shopify changes no more, the next ones   *)
(* put everything right.                                                    *)
CatalogueConverges == <>[]Mirrors
=============================================================================
