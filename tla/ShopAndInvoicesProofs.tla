---------------------- MODULE ShopAndInvoicesProofs ----------------------
(***************************************************************************)
(* Theorems of Shop with its Catalogue, of OversellPolicy and of           *)
(* GroupInvoices, for any products, variants, shoppers, groups, prices,    *)
(* requests and failures.                                                  *)
(*                                                                         *)
(* The shop: a custom product that awaits its SKU stays untracked          *)
(* (MirrorInv), an idempotency key makes one product and one more for      *)
(* every error that was reported (CreationInv), and carts and orders hold  *)
(* what shoppers asked for, but for what crossed an order in the making    *)
(* (CartInv).  The policy: what the merchant put on sale stays on sale     *)
(* (PolicyInv).  The second payment by draft: the prepayment is handed out *)
(* once, and a draft amounts to what its row says (BillInv).               *)
(***************************************************************************)
EXTENDS Shop, OversellPolicy, GroupInvoices, TotalsProofs

----------------------------------------------------------------------------
(* The requests that make custom products.                                  *)
Makes(r, k) == create[r].step # "idle" /\ create[r].key = k

Targets ==
    \A r \in Creators :
        /\ create[r].step # "idle" => create[r].key \in Keys
        /\ create[r].step \in {"variants", "finalize"} => create[r].product \in Products

(* A key has one request at most, and its stub says so.                     *)
OneMaker ==
    \A r \in Creators, k \in Keys : Makes(r, k) =>
        stub[k] = "creating" /\ \A s \in Creators : Makes(s, k) => s = r

(* No product of the key is without an error yet, unless it is the stub's   *)
(* own, or that of the request at work, or of one that a restart ended.     *)
Unmade(k) == stub[k] \in {"none", "failed"} \/ \E r \in Creators : Makes(r, k) /\ create[r].step = "product"
Tally(k)  == /\ IsFiniteSet(made[k])
             /\ Cardinality(made[k]) <= errors[k] + (IF Unmade(k) THEN 0 ELSE 1)

CreationInv ==
    /\ stub \in [Keys -> Products \cup {"none", "creating", "failed"}]
    /\ made \in [Keys -> SUBSET Products] /\ errors \in [Keys -> Nat]
    /\ create \in [Creators -> Creations]
    /\ Targets /\ OneMaker /\ \A k \in Keys : Tally(k)

LEMMA CreationInit == CatalogueInit => CreationInv
<1> SUFFICES ASSUME CatalogueInit PROVE CreationInv
  OBVIOUS
<1>1. Resting \in Creations /\ Resting.step = "idle"
  BY DEF Resting, Creations
<1>2. IsFiniteSet({}) /\ Cardinality({}) = 0
  BY FS_EmptySet
<1>3. Targets /\ OneMaker
  BY <1>1 DEF CatalogueInit, Targets, OneMaker, Makes
<1>4. \A k \in Keys : Tally(k)
  BY <1>2 DEF CatalogueInit, Tally, Unmade
<1> QED
  BY <1>1, <1>3, <1>4 DEF CatalogueInit, CreationInv

(* A request moves on and leaves the stubs alone.                           *)
LEMMA MakerMoves ==
  ASSUME CreationInv, NEW r \in Creators, NEW q \in Creations,
         create[r].step # "idle", create[r].step # "product", q.step \in {"variants", "finalize"},
         q.key = create[r].key, q.product \in Products, create' = [create EXCEPT ![r] = q],
         UNCHANGED <<stub, made, errors>>
  PROVE  CreationInv'
<1>1. create' \in [Creators -> Creations] /\ create'[r] = q /\ \A s \in Creators \ {r} : create'[s] = create[s]
  BY DEF CreationInv
<1>2. \A s \in Creators, k \in Keys : Makes(s, k)' <=> Makes(s, k)
  BY <1>1 DEF Makes
<1>3. Targets'
  BY <1>1 DEF CreationInv, Targets
<1>4. OneMaker'
  BY <1>2 DEF CreationInv, OneMaker
<1>5. \A k \in Keys : Unmade(k)' <=> Unmade(k)
  BY <1>1, <1>2 DEF Unmade
<1>6. \A k \in Keys : Tally(k)'
  BY <1>5 DEF CreationInv, Tally
<1> QED
  BY <1>1, <1>3, <1>4, <1>6 DEF CreationInv

LEMMA StartCreateKeeps ==
  ASSUME CreationInv, NEW r \in Creators, NEW k \in Keys, StartCreate(r, k)
  PROVE  CreationInv'
<1> DEFINE q == [step |-> "product", key |-> k, product |-> None]
<1>1. q \in Creations
  BY DEF Creations
<1>2. create' = [create EXCEPT ![r] = q] /\ stub' = [stub EXCEPT ![k] = "creating"]
      /\ create[r].step = "idle" /\ stub[k] \in {"none", "failed"} /\ UNCHANGED <<made, errors>>
  BY DEF StartCreate
<1>3. /\ create' \in [Creators -> Creations] /\ create'[r] = q
      /\ \A s \in Creators \ {r} : create'[s] = create[s]
  BY <1>1, <1>2 DEF CreationInv
<1> HIDE DEF q
<1>4. q.step = "product" /\ q.key = k
  BY DEF q
<1>5. \A s \in Creators : ~ Makes(s, k)
  BY <1>2 DEF CreationInv, OneMaker
<1>6. \A s \in Creators, j \in Keys : Makes(s, j)' <=> Makes(s, j) \/ (s = r /\ j = k)
  BY <1>2, <1>3, <1>4 DEF Makes
<1>7. Targets'
  BY <1>3, <1>4 DEF CreationInv, Targets
<1>8. stub' \in [Keys -> Products \cup {"none", "creating", "failed"}] /\ stub'[k] = "creating"
      /\ \A j \in Keys \ {k} : stub'[j] = stub[j]
  BY <1>2 DEF CreationInv
<1>9. OneMaker'
  BY <1>5, <1>6, <1>8 DEF CreationInv, OneMaker
<1>10. Unmade(k) /\ Unmade(k)'
  BY <1>2, <1>3, <1>4, <1>6 DEF Unmade
<1>11. \A j \in Keys \ {k} : Unmade(j)' <=> Unmade(j)
  BY <1>2, <1>3, <1>4, <1>6, <1>8 DEF Unmade, Makes
<1>12. \A j \in Keys : Tally(j)'
  BY <1>2, <1>10, <1>11 DEF CreationInv, Tally
<1> QED
  BY <1>2, <1>3, <1>7, <1>8, <1>9, <1>12 DEF CreationInv

(* The one place where a product is made.                                   *)
LEMMA ProductCreateKeeps ==
  ASSUME CreationInv, NEW r \in Creators, NEW k \in Keys, k = create[r].key, ProductCreate(r)
  PROVE  CreationInv'
<1>1. PICK p \in Fresh :
         /\ made' = [made EXCEPT ![k] = @ \cup {p}]
         /\ create' = [create EXCEPT ![r].step = "variants", ![r].product = p]
  BY DEF ProductCreate
<1>2. create[r].step = "product" /\ UNCHANGED <<stub, errors>> /\ k \in Keys /\ p \in Products
  BY DEF ProductCreate, CreationInv, Targets, Fresh
<1> DEFINE q == [create[r] EXCEPT !.step = "variants", !.product = p]
<1>3. q \in Creations /\ q.step = "variants" /\ q.key = k /\ q.product = p
  BY <1>2 DEF CreationInv, Creations
<1> HIDE DEF q
<1>4. create' = [create EXCEPT ![r] = q]
  BY <1>1 DEF q, CreationInv
<1>5. /\ create' \in [Creators -> Creations] /\ create'[r] = q
      /\ \A s \in Creators \ {r} : create'[s] = create[s]
  BY <1>3, <1>4 DEF CreationInv
<1>6. \A s \in Creators, j \in Keys : Makes(s, j)' <=> Makes(s, j)
  BY <1>2, <1>3, <1>5 DEF Makes
<1>7. Targets'
  BY <1>2, <1>3, <1>5 DEF CreationInv, Targets
<1>8. OneMaker'
  BY <1>2, <1>6 DEF CreationInv, OneMaker
<1>9. made' \in [Keys -> SUBSET Products] /\ made'[k] = made[k] \cup {p}
      /\ \A j \in Keys \ {k} : made'[j] = made[j]
  BY <1>1, <1>2 DEF CreationInv
<1>10. \A j \in Keys \ {k} : Unmade(j)' <=> Unmade(j)
  BY <1>2, <1>3, <1>5, <1>6 DEF Unmade, Makes
<1>11. Makes(r, k) /\ Makes(r, k)'
  BY <1>2, <1>3, <1>5 DEF Makes
<1>12. Unmade(k) /\ ~ Unmade(k)'
  <2>1. Unmade(k)
    BY <1>2, <1>11 DEF Unmade
  <2>2. stub[k] = "creating" /\ \A s \in Creators : Makes(s, k) => s = r
    BY <1>2, <1>11 DEF CreationInv, OneMaker
  <2>3. stub'[k] = "creating" /\ \A s \in Creators : Makes(s, k)' => s = r
    BY <1>2, <1>6, <2>2
  <2>4. ~ Unmade(k)'
    <3>1. create'[r].step = "variants"
      BY <1>3, <1>5
    <3> QED
      BY <2>3, <3>1, <1>2 DEF Unmade
  <2> QED
    BY <2>1, <2>4
<1>13. IsFiniteSet(made'[k]) /\ Cardinality(made'[k]) <= Cardinality(made[k]) + 1
       /\ Cardinality(made[k]) \in Nat
  <2>1. IsFiniteSet(made[k]) /\ Cardinality(made[k]) \in Nat
    BY <1>2, FS_CardinalityType DEF CreationInv, Tally
  <2>2. /\ IsFiniteSet(made[k] \cup {p})
        /\ Cardinality(made[k] \cup {p}) = IF p \in made[k] THEN Cardinality(made[k])
                                            ELSE Cardinality(made[k]) + 1
    BY <2>1, FS_AddElement
  <2> QED
    BY <1>9, <2>1, <2>2
<1>14. Tally(k)'
  <2>1. Cardinality(made[k]) <= errors[k] + 0 /\ errors[k] \in Nat
    BY <1>2, <1>12 DEF CreationInv, Tally
  <2>2. Cardinality(made'[k]) \in Nat
    BY <1>13, FS_CardinalityType
  <2>3. Cardinality(made'[k]) <= errors'[k] + 1
    BY <1>2, <1>13, <2>1, <2>2
  <2> QED
    BY <1>12, <1>13, <2>3 DEF Tally
<1>15. \A j \in Keys : Tally(j)'
  BY <1>2, <1>9, <1>10, <1>14 DEF CreationInv, Tally
<1> QED
  BY <1>2, <1>5, <1>7, <1>8, <1>9, <1>15 DEF CreationInv

(* A request ends, with an answer or without.                               *)
LEMMA MakerEnds ==
  ASSUME CreationInv, NEW r \in Creators, create[r].step # "idle", NEW k \in Keys, k = create[r].key,
         create' = [create EXCEPT ![r] = Resting], UNCHANGED made,
         NEW s \in Products \cup {"none", "creating", "failed"}, NEW e \in {0, 1},
         stub' = [stub EXCEPT ![k] = s], errors' = [errors EXCEPT ![k] = @ + e],
         s \in {"none", "failed"} => e = 1
  PROVE  CreationInv'
<1>2. Resting \in Creations /\ Resting.step = "idle"
  BY DEF Resting, Creations
<1>3. /\ create' \in [Creators -> Creations] /\ create'[r].step = "idle"
      /\ \A v \in Creators \ {r} : create'[v] = create[v]
  BY <1>2 DEF CreationInv
<1>4. \A v \in Creators, j \in Keys : Makes(v, j)' <=> Makes(v, j) /\ v # r
  BY <1>3 DEF Makes
<1>5. Makes(r, k) /\ \A v \in Creators : Makes(v, k) => v = r
  BY DEF Makes, CreationInv, OneMaker
<1>6. Targets'
  BY <1>3 DEF CreationInv, Targets
<1>7. /\ stub' \in [Keys -> Products \cup {"none", "creating", "failed"}] /\ stub'[k] = s
      /\ \A j \in Keys \ {k} : stub'[j] = stub[j]
  BY DEF CreationInv
<1>8. /\ errors' \in [Keys -> Nat] /\ errors'[k] = errors[k] + e
      /\ \A j \in Keys \ {k} : errors'[j] = errors[j]
  BY DEF CreationInv
<1>9. OneMaker'
  BY <1>4, <1>5, <1>7 DEF CreationInv, OneMaker
<1>10. \A j \in Keys \ {k} : ~ Makes(r, j)
  BY DEF Makes
<1>11. \A j \in Keys \ {k} : Unmade(j)' <=> Unmade(j)
  BY <1>3, <1>4, <1>7, <1>10 DEF Unmade, Makes
<1>12. Tally(k)'
  <2>1. IsFiniteSet(made[k]) /\ Cardinality(made[k]) \in Nat /\ errors[k] \in Nat
        /\ Cardinality(made[k]) <= errors[k] + 1
    BY FS_CardinalityType DEF CreationInv, Tally
  <2>2. CASE e = 1
    BY <1>8, <2>1, <2>2 DEF Tally
  <2>3. CASE e = 0
    <3>1. s \notin {"none", "failed"}
      BY <2>3
    <3>2. ~ Unmade(k)'
      BY <1>4, <1>5, <1>7, <3>1 DEF Unmade
    <3> QED
      BY <1>8, <2>1, <2>3, <3>2 DEF Tally
  <2> QED
    BY <2>2, <2>3
<1>13. \A j \in Keys : Tally(j)'
  BY <1>8, <1>11, <1>12 DEF CreationInv, Tally
<1> QED
  BY <1>3, <1>6, <1>7, <1>8, <1>9, <1>13 DEF CreationInv

(* An answer is one of these endings.                                       *)
LEMMA AnswerKeeps ==
  ASSUME CreationInv, NEW r \in Creators, create[r].step # "idle", UNCHANGED made,
         NEW s \in Products \cup {"failed", "none"}, NEW e \in {0, 1},
         s \in {"none", "failed"} => e = 1, Answer(r, s, e)
  PROVE  CreationInv'
BY MakerEnds DEF Answer, CreationInv, Targets

LEMMA CreationKept == CreationInv /\ UNCHANGED creation => CreationInv'
BY DEF CreationInv, creation, Targets, OneMaker, Tally, Unmade, Makes

LEMMA CreationStep ==
  ASSUME CreationInv, [CatalogueNext]_catalogueVars
  PROVE  CreationInv'
<1>1. CASE UNCHANGED creation
  BY <1>1, CreationKept
<1>2. ASSUME NEW r \in Creators, NEW k \in Keys, StartCreate(r, k)
      PROVE  CreationInv'
  BY <1>2, StartCreateKeeps
<1>3. ASSUME NEW r \in Creators, CreateCustomProduct(r)
      PROVE  CreationInv'
  <2>0. create[r] \in Creations
    BY DEF CreationInv
  <2>1. CASE ProductCreate(r)
    <3>1. create[r].key \in Keys
      BY <2>1 DEF ProductCreate, CreationInv, Targets
    <3> QED
      BY <2>1, <3>1, ProductCreateKeeps
  <2>2. CASE ProductVariantsBulkCreate(r)
    <3> DEFINE q == [create[r] EXCEPT !.step = "finalize"]
    <3>1. /\ create[r].step = "variants" /\ create' = [create EXCEPT ![r] = q]
          /\ UNCHANGED <<stub, made, errors>>
      BY <2>2 DEF ProductVariantsBulkCreate
    <3>2. q \in Creations /\ q.step = "finalize" /\ q.key = create[r].key /\ q.product = create[r].product
      BY <2>0 DEF Creations
    <3>3. create[r].product \in Products
      BY <3>1 DEF CreationInv, Targets
    <3> HIDE DEF q
    <3> QED
      BY <3>1, <3>2, <3>3, MakerMoves
  <2>3. CASE FinalizeCustomProduct(r)
    <3>1. create[r].step = "finalize" /\ UNCHANGED made
      BY <2>3 DEF FinalizeCustomProduct
    <3>2. create[r].product \in Products
      BY <3>1 DEF CreationInv, Targets
    <3>3. create[r].product \notin {"none", "failed"}
      BY <3>2, CatalogueAssumption
    <3>4. Answer(r, create[r].product, 0) \/ Answer(r, "failed", 1)
      BY <2>3 DEF FinalizeCustomProduct
    <3> QED
      BY <3>1, <3>2, <3>3, <3>4, AnswerKeeps
  <2> QED
    BY <1>3, <2>1, <2>2, <2>3 DEF CreateCustomProduct
<1>4. ASSUME NEW r \in Creators, CreateFails(r)
      PROVE  CreationInv'
  <2>1. create[r].step # "idle" /\ UNCHANGED made
    BY <1>4 DEF CreateFails
  <2>2. CASE Answer(r, "failed", 1) \/ Answer(r, "none", 1)
    BY <2>1, <2>2, AnswerKeeps
  <2>3. CASE create' = [create EXCEPT ![r] = Resting] /\ UNCHANGED <<stub, errors>>
    <3>1. create[r].key \in Keys
      BY <2>1 DEF CreationInv, Targets
    <3>2. stub[create[r].key] = "creating"
      BY <2>1, <3>1 DEF CreationInv, OneMaker, Makes
    <3>3. stub' = [stub EXCEPT ![create[r].key] = "creating"]
      BY <2>3, <3>1, <3>2 DEF CreationInv
    <3>4. errors' = [errors EXCEPT ![create[r].key] = @ + 0]
      BY <2>3, <3>1 DEF CreationInv
    <3> QED
      BY <2>1, <2>3, <3>1, <3>3, <3>4, MakerEnds
  <2> QED
    BY <1>4, <2>2, <2>3 DEF CreateFails
<1>5. UNCHANGED creation
      \/ \E r \in Creators : (\E k \in Keys : StartCreate(r, k)) \/ CreateCustomProduct(r) \/ CreateFails(r)
  BY DEF CatalogueNext, catalogueVars, creation, StartSync, Sync, QueryPage, SyncProduct, ReconcileProducts,
       SyncFails, Merchant, SetStock, DeleteProduct, Webhook, HandleInventoryUpdate, HandleProductDelete,
       LoseWebhook, StartAdd, AddProductVariants, AddInShopify, PersistVariant, ListProductVariantIDs,
       DeleteVariantsNotIn, StartLink, LinkCustomVariantSKU, LinkVariantSKU, MarkCustomVariantLinked,
       RequestFails, Status, UpdateVariantStatus, UpdateProductStatus
<1> QED
  BY <1>1, <1>2, <1>3, <1>4, <1>5
----------------------------------------------------------------------------
(* The mirror.  A row that awaits an SKU is untracked; no statement tracks  *)
(* a row but the one that links it, and none makes a tracked row await.     *)
SafeRow == {r \in Row : r.link = "awaiting" => ~ r.tracked}

MirrorInv ==
    /\ live \subseteq Products /\ custom \subseteq Products
    /\ item \in Snapshots /\ variant \in [Variants -> SafeRow \cup {None}]
    /\ inbox \subseteq (Variants \X Quantities) \cup (Products \X {None})
    /\ product \in [Products -> {"none", "listed", "deleted"}]
    /\ sync \in Syncs /\ add \in Additions /\ link \in Links
    /\ changes \in Nat /\ faults \in Nat
    /\ sync.step = "write" => sync.page \in Products
    /\ add.step # "idle" => add.product \in Products /\ add.new \in Variants
    /\ link.step # "idle" => link.v \in Variants

LEMMA StockedSafe ==
  ASSUME NEW r \in SafeRow, NEW q \in Quantities
  PROVE  Stocked(r, q) \in SafeRow
BY CatalogueAssumption DEF Stocked, SafeRow, Row

LEMMA CustomSafe == Custom \in SafeRow
BY CatalogueAssumption DEF Custom, SafeRow, Row

LEMMA NewRowSafe ==
  ASSUME NEW v \in Variants, sync \in Syncs, sync.snap[v] # None
  PROVE  NewRow(v) \in SafeRow /\ sync.snap[v] \in Item /\ sync.snap[v].qty \in Quantities
<1>1. sync.snap[v] \in Item
  BY DEF Syncs, Snapshots
<1>2. sync.snap[v].qty \in Quantities /\ sync.snap[v].tracked \in BOOLEAN
  BY <1>1 DEF Item
<1>3. [type |-> "ship_ready", qty |-> 0, tracked |-> sync.snap[v].tracked, link |-> None] \in SafeRow
  BY <1>2, CatalogueAssumption DEF SafeRow, Row
<1> QED
  BY <1>1, <1>2, <1>3, StockedSafe DEF NewRow

LEMMA MirrorInit == CatalogueInit => MirrorInv
<1> SUFFICES ASSUME CatalogueInit PROVE MirrorInv
  OBVIOUS
<1>1. Old \subseteq Products
  BY CatalogueAssumption DEF Old
<1>2. item \in Snapshots
  BY CatalogueAssumption DEF CatalogueInit, Snapshots, Item
<1>3. Rest \in Syncs /\ Rest.step = "idle"
  BY DEF Rest, Syncs, Snapshots
<1>4. Nothing \in Additions /\ Nothing.step = "idle"
  BY DEF Nothing, Additions
<1>5. [step |-> "idle", v |-> None] \in Links
  BY DEF Links
<1> QED
  BY <1>1, <1>2, <1>3, <1>4, <1>5 DEF CatalogueInit, MirrorInv

(* Every statement that writes rows writes safe ones.                       *)
LEMMA SyncKeeps ==
  ASSUME MirrorInv, StartSync \/ Sync \/ SyncFails
  PROVE  MirrorInv'
<1>0. Rest \in Syncs /\ Rest.step = "idle" /\ sync \in Syncs
  BY DEF Rest, Syncs, Snapshots, MirrorInv
<1>1. CASE StartSync
  <2>1. [Rest EXCEPT !.step = "page", !.ahead = live] \in Syncs
        /\ [Rest EXCEPT !.step = "page", !.ahead = live].step = "page"
    BY <1>0 DEF MirrorInv, Syncs, Rest
  <2> QED
    BY <1>1, <2>1 DEF StartSync, MirrorInv, shopify, rows
<1>2. CASE QueryPage
  <2>1. PICK p \in sync.ahead \cap live :
          sync' = [sync EXCEPT !.step = "write", !.ahead = @ \ {p}, !.seen = @ \cup {p}, !.page = p,
                               !.snap = [v \in Variants |-> IF ProductOf[v] = p THEN item[v] ELSE None]]
    BY <1>2 DEF QueryPage
  <2>2. p \in Products /\ [v \in Variants |-> IF ProductOf[v] = p THEN item[v] ELSE None] \in Snapshots
    BY DEF MirrorInv, Snapshots
  <2>3. sync' \in Syncs /\ sync'.page \in Products
    BY <1>0, <2>1, <2>2 DEF Syncs
  <2> QED
    BY <1>2, <2>3 DEF QueryPage, MirrorInv, shopify, rows
<1>3. CASE SyncProduct
  <2> DEFINE kept == {v \in Of(sync.page) : sync.snap[v] # None}
  <2>1. \A v \in kept : v \in Variants /\ SyncedVariant(v) \in SafeRow
    BY <1>0, NewRowSafe, StockedSafe DEF SyncedVariant, Of, MirrorInv
  <2>2. variant' = [v \in Variants |->
                      IF v \in kept THEN SyncedVariant(v)
                      ELSE IF kept # {} /\ v \in Of(sync.page) THEN None ELSE variant[v]]
    BY <1>3 DEF SyncProduct
  <2> HIDE DEF kept
  <2>3. variant' \in [Variants -> SafeRow \cup {None}]
    BY <2>1, <2>2 DEF MirrorInv
  <2>4. sync' \in Syncs /\ sync'.step = "page"
    BY <1>0, <1>3 DEF SyncProduct, Syncs, Rest
  <2>5. product' \in [Products -> {"none", "listed", "deleted"}]
    BY <1>3 DEF SyncProduct, MirrorInv
  <2> QED
    BY <1>3, <2>3, <2>4, <2>5 DEF SyncProduct, MirrorInv, shopify
<1>4. CASE ReconcileProducts
  <2>1. product' \in [Products -> {"none", "listed", "deleted"}]
    BY <1>4 DEF ReconcileProducts, MirrorInv
  <2> QED
    BY <1>0, <1>4, <2>1 DEF ReconcileProducts, MirrorInv, shopify
<1>5. CASE SyncFails
  BY <1>0, <1>5 DEF SyncFails, MirrorInv, shopify, rows
<1> QED
  BY <1>1, <1>2, <1>3, <1>4, <1>5 DEF Sync

LEMMA MerchantKeeps ==
  ASSUME MirrorInv, Merchant \/ Webhook \/ Status
  PROVE  MirrorInv'
<1>1. ASSUME NEW v \in Variants, NEW q \in Quantities, SetStock(v, q)
      PROVE  MirrorInv'
  <2>1. item[v] \in Item
    BY <1>1 DEF SetStock, MirrorInv, Snapshots
  <2>2. [item[v] EXCEPT !.qty = q] \in Item
    BY <2>1 DEF Item
  <2>3. item' = [item EXCEPT ![v] = [item[v] EXCEPT !.qty = q]]
    BY <1>1 DEF SetStock, MirrorInv, Snapshots
  <2>4. item' \in Snapshots
    BY <2>2, <2>3 DEF MirrorInv, Snapshots
  <2>5. inbox' \subseteq (Variants \X Quantities) \cup (Products \X {None})
    BY <1>1 DEF SetStock, MirrorInv
  <2> QED
    BY <1>1, <2>4, <2>5 DEF SetStock, Change, MirrorInv, rows
<1>2. ASSUME NEW p \in Products, DeleteProduct(p)
      PROVE  MirrorInv'
  <2>1. item' \in Snapshots
    BY <1>2 DEF DeleteProduct, MirrorInv, Snapshots
  <2>2. inbox' \subseteq (Variants \X Quantities) \cup (Products \X {None})
    BY <1>2 DEF DeleteProduct, MirrorInv
  <2> QED
    BY <1>2, <2>1, <2>2 DEF DeleteProduct, Change, MirrorInv, rows
<1>3. ASSUME NEW v \in Variants, NEW q \in Quantities, HandleInventoryUpdate(v, q)
      PROVE  MirrorInv'
  <2>1. variant' \in [Variants -> SafeRow \cup {None}]
    BY <1>3, StockedSafe DEF HandleInventoryUpdate, MirrorInv
  <2> QED
    BY <1>3, <2>1 DEF HandleInventoryUpdate, MirrorInv, shopify
<1>4. ASSUME NEW p \in Products, HandleProductDelete(p)
      PROVE  MirrorInv'
  <2>1. product' \in [Products -> {"none", "listed", "deleted"}]
    BY <1>4 DEF HandleProductDelete, MirrorInv
  <2> QED
    BY <1>4, <2>1 DEF HandleProductDelete, MirrorInv, shopify
<1>5. CASE LoseWebhook
  BY <1>5 DEF LoseWebhook, MirrorInv, shopify, rows
<1>6. ASSUME NEW t \in Types, NEW v \in Variants, UpdateVariantStatus(v, t)
      PROVE  MirrorInv'
  <2>1. variant[v] \in SafeRow
    BY <1>6 DEF UpdateVariantStatus, MirrorInv
  <2>2. [variant[v] EXCEPT !.type = t] \in SafeRow
    BY <2>1 DEF SafeRow, Row
  <2>3. variant' = [variant EXCEPT ![v] = [variant[v] EXCEPT !.type = t]]
    BY <1>6 DEF UpdateVariantStatus, MirrorInv
  <2>4. variant' \in [Variants -> SafeRow \cup {None}]
    BY <2>2, <2>3 DEF MirrorInv
  <2> QED
    BY <1>6, <2>4 DEF UpdateVariantStatus, MirrorInv, shopify
<1>7. ASSUME NEW t \in Types, NEW p \in Products, UpdateProductStatus(p, t)
      PROVE  MirrorInv'
  <2>1. \A v \in Rows(p) : variant[v] \in SafeRow
    BY DEF Rows, Of, MirrorInv
  <2>2. \A v \in Rows(p) : [variant[v] EXCEPT !.type = t] \in SafeRow
    BY <2>1 DEF SafeRow, Row
  <2>3. variant' \in [Variants -> SafeRow \cup {None}]
    BY <1>7, <2>2 DEF UpdateProductStatus, MirrorInv
  <2> QED
    BY <1>7, <2>3 DEF UpdateProductStatus, MirrorInv, shopify
<1> QED
  BY <1>1, <1>2, <1>3, <1>4, <1>5, <1>6, <1>7 DEF Merchant, Webhook, Status

LEMMA MakersKeep ==
  ASSUME MirrorInv, CreationInv, NEW r \in Creators,
         (\E k \in Keys : StartCreate(r, k)) \/ CreateCustomProduct(r) \/ CreateFails(r)
  PROVE  MirrorInv'
<1>1. ASSUME NEW k \in Keys, StartCreate(r, k)
      PROVE  MirrorInv'
  BY <1>1 DEF StartCreate, MirrorInv, shopify, rows
<1>2. CASE ProductCreate(r)
  <2>1. live' \subseteq Products
    BY <1>2 DEF ProductCreate, Fresh, MirrorInv
  <2> QED
    BY <1>2, <2>1 DEF ProductCreate, MirrorInv, rows
<1>3. CASE ProductVariantsBulkCreate(r)
  <2>1. [qty |-> 0, tracked |-> FALSE] \in Item
    BY CatalogueAssumption DEF Item
  <2>2. item' \in Snapshots
    BY <1>3, <2>1 DEF ProductVariantsBulkCreate, MirrorInv, Snapshots
  <2> QED
    BY <1>3, <2>2 DEF ProductVariantsBulkCreate, MirrorInv, rows
<1>4. CASE FinalizeCustomProduct(r)
  <2>1. CASE UNCHANGED rows
    BY <1>4, <2>1 DEF FinalizeCustomProduct, MirrorInv, shopify, rows
  <2>2. CASE ~ UNCHANGED rows
    <3> DEFINE p == create[r].product
    <3>1. /\ product' = [product EXCEPT ![p] = "listed"]
          /\ custom' = custom \cup {p}
          /\ variant' = [v \in Variants |-> IF v \in InShop(p) THEN Custom ELSE variant[v]]
      BY <1>4, <2>2 DEF FinalizeCustomProduct
    <3>2. p \in Products
      BY <1>4 DEF FinalizeCustomProduct, CreationInv, Targets
    <3>3. variant' \in [Variants -> SafeRow \cup {None}]
      BY <3>1, CustomSafe DEF MirrorInv
    <3>4. product' \in [Products -> {"none", "listed", "deleted"}] /\ custom' \subseteq Products
      BY <3>1, <3>2 DEF MirrorInv
    <3> QED
      BY <1>4, <3>3, <3>4 DEF FinalizeCustomProduct, MirrorInv, shopify
  <2> QED
    BY <2>1, <2>2
<1>5. CASE CreateFails(r)
  BY <1>5 DEF CreateFails, MirrorInv, shopify, rows
<1> QED
  BY <1>1, <1>2, <1>3, <1>4, <1>5 DEF CreateCustomProduct

LEMMA AdditionsKeep ==
  ASSUME MirrorInv, (\E p \in Products, v \in Variants : StartAdd(p, v)) \/ AddProductVariants
  PROVE  MirrorInv'
<1>0. Nothing \in Additions /\ Nothing.step = "idle" /\ add \in Additions
  BY DEF Nothing, Additions, MirrorInv
<1>1. ASSUME NEW p \in Products, NEW v \in Variants, StartAdd(p, v)
      PROVE  MirrorInv'
  <2>1. add' \in Additions /\ add'.product = p /\ add'.new = v
    BY <1>0, <1>1 DEF StartAdd, Additions, Nothing
  <2> QED
    BY <1>1, <2>1 DEF StartAdd, MirrorInv, shopify, rows
<1>2. CASE AddInShopify
  <2>1. CASE add' = Nothing /\ UNCHANGED item
    BY <1>0, <1>2, <2>1 DEF AddInShopify, MirrorInv, rows
  <2>2. CASE ~ (add' = Nothing /\ UNCHANGED item)
    <3>1. /\ item' = [item EXCEPT ![add.new] = [qty |-> 0, tracked |-> add.product \notin custom]]
          /\ add' = [add EXCEPT !.step = "persist"]
      BY <1>2, <2>2 DEF AddInShopify
    <3>2. [qty |-> 0, tracked |-> add.product \notin custom] \in Item
      BY CatalogueAssumption DEF Item
    <3>3. item' \in Snapshots
      BY <3>1, <3>2 DEF MirrorInv, Snapshots
    <3>4. add' \in Additions /\ add'.product = add.product /\ add'.new = add.new
      BY <1>0, <3>1 DEF Additions
    <3> QED
      BY <1>2, <3>3, <3>4 DEF AddInShopify, MirrorInv, rows
  <2> QED
    BY <2>1, <2>2
<1>3. CASE PersistVariant
  <2>1. /\ \A x \in SafeRow : [x EXCEPT !.qty = 0] \in SafeRow
        /\ [type |-> "pre_order", qty |-> 0, tracked |-> TRUE, link |-> None] \in SafeRow
    BY CatalogueAssumption DEF SafeRow, Row
  <2>2. variant' \in [Variants -> SafeRow \cup {None}]
    BY <1>3, <2>1, CustomSafe DEF PersistVariant, MirrorInv
  <2>3. add' \in Additions /\ add'.product = add.product /\ add'.new = add.new /\ add.step # "idle"
    BY <1>0, <1>3 DEF PersistVariant, Additions
  <2> QED
    BY <1>3, <2>2, <2>3 DEF PersistVariant, MirrorInv, shopify
<1>4. CASE ListProductVariantIDs
  <2>1. /\ add' \in Additions
        /\ add' = Nothing \/ (add'.product = add.product /\ add'.new = add.new)
    BY <1>0, <1>4 DEF ListProductVariantIDs, Additions, InShop, Of
  <2> QED
    BY <1>0, <1>4, <2>1 DEF ListProductVariantIDs, MirrorInv, shopify, rows
<1>5. CASE DeleteVariantsNotIn
  <2>1. variant' \in [Variants -> SafeRow \cup {None}]
    BY <1>5 DEF DeleteVariantsNotIn, MirrorInv
  <2> QED
    BY <1>0, <1>5, <2>1 DEF DeleteVariantsNotIn, MirrorInv, shopify
<1> QED
  BY <1>1, <1>2, <1>3, <1>4, <1>5 DEF AddProductVariants

LEMMA LinksKeep ==
  ASSUME MirrorInv, (\E v \in Variants : StartLink(v)) \/ LinkCustomVariantSKU \/ RequestFails
  PROVE  MirrorInv'
<1>0. [step |-> "idle", v |-> None] \in Links /\ link \in Links /\ Nothing \in Additions /\ Nothing.step = "idle"
  BY DEF Links, MirrorInv, Nothing, Additions
<1>1. ASSUME NEW v \in Variants, StartLink(v)
      PROVE  MirrorInv'
  <2>1. link' \in Links /\ link'.v = v
    BY <1>1 DEF StartLink, Links
  <2> QED
    BY <1>1, <2>1 DEF StartLink, MirrorInv, shopify, rows
<1>2. CASE LinkVariantSKU
  <2>1. CASE item[link.v] = None
    BY <1>0, <1>2, <2>1 DEF LinkVariantSKU, MirrorInv, rows
  <2>2. CASE item[link.v] # None
    <3>1. link.v \in Variants /\ item[link.v] \in Item
      BY <1>2, <2>2 DEF LinkVariantSKU, MirrorInv, Snapshots
    <3>2. [item[link.v] EXCEPT !.tracked = TRUE] \in Item
      BY <3>1 DEF Item
    <3>3. item' = [item EXCEPT ![link.v] = [item[link.v] EXCEPT !.tracked = TRUE]]
      BY <1>2, <2>2, <3>1 DEF LinkVariantSKU, MirrorInv, Snapshots
    <3>4. item' \in Snapshots
      BY <3>1, <3>2, <3>3 DEF MirrorInv, Snapshots
    <3>5. link' \in Links /\ link'.v = link.v
      BY <1>0, <1>2, <2>2 DEF LinkVariantSKU, Links
    <3> QED
      BY <1>2, <3>1, <3>4, <3>5 DEF LinkVariantSKU, MirrorInv, rows
  <2> QED
    BY <2>1, <2>2
<1>3. CASE MarkCustomVariantLinked
  <2>1. \A x \in SafeRow : [x EXCEPT !.tracked = TRUE, !.link = "linked"] \in SafeRow
    BY DEF SafeRow, Row
  <2>2. variant' \in [Variants -> SafeRow \cup {None}]
    BY <1>3, <2>1 DEF MarkCustomVariantLinked, MirrorInv
  <2> QED
    BY <1>0, <1>3, <2>2 DEF MarkCustomVariantLinked, MirrorInv, shopify
<1>4. CASE RequestFails
  BY <1>0, <1>4 DEF RequestFails, MirrorInv, shopify, rows
<1> QED
  BY <1>1, <1>2, <1>3, <1>4 DEF LinkCustomVariantSKU

LEMMA MirrorStep ==
  ASSUME MirrorInv, CreationInv, [CatalogueNext]_catalogueVars
  PROVE  MirrorInv'
<1>1. CASE UNCHANGED catalogueVars
  BY <1>1 DEF catalogueVars, shopify, rows, MirrorInv
<1>2. CASE CatalogueNext
  BY <1>2, SyncKeeps, MerchantKeeps, MakersKeep, AdditionsKeep, LinksKeep DEF CatalogueNext
<1> QED
  BY <1>1, <1>2
----------------------------------------------------------------------------
(* Carts.  A user's cart is merged into, never merged away; an order that   *)
(* is being placed has a cart, which somebody has used.                     *)
InHand(o) == place[o].step \in {"link", "draft", "save", "clear"}

Owners ==
    /\ \A u \in Users : status[u] # "merged"
    /\ \A o \in Orders : InHand(o) => place[o].cart \in Carts /\ status[place[o].cart] # "none"

CartRows ==
    /\ status \in [Carts -> {"none", "active", "merged"}]
    /\ cart \in [Carts -> [Goods -> Line]]
    /\ buy \in [Carts -> Checkouts] /\ place \in [Orders -> Places]
    /\ asked \in [Goods -> Int]

(* What an order in hand will lose of its cart: fresh units of each cart    *)
(* that some order in hand has not read.                                    *)
NoneLost(v, fresh) ==
    /\ \A o \in Orders : InHand(o) =>
          InCart(v)[place[o].cart] <= Units(place[o].lines[v]) + fresh[place[o].cart]
    /\ asked[v] - Kept(v) + Total(fresh, Carts) <= late[v]

(* What orders in hand will have beyond their cart: stale units that they   *)
(* have read and that are not there, or not for all of them.                *)
On(v, c) == [o \in Orders |-> IF InHand(o) /\ place[o].cart = c THEN Units(place[o].lines[v]) ELSE 0]

NoneTwice(v, stale) ==
    /\ \A c \in Carts : Total(On(v, c), Orders) <= InCart(v)[c] + stale[c]
    /\ Kept(v) - asked[v] + Total(stale, Carts) <= twice[v]

Accounts ==
    \A v \in Goods : /\ \E fresh \in [Carts -> Nat] : NoneLost(v, fresh)
                     /\ \E stale \in [Carts -> Nat] : NoneTwice(v, stale)

CartInv == CartTypeOK /\ Owners /\ Accounts

(* What the requests that fill a cart have in common.                       *)
Filled ==
    /\ CartRows' /\ Owners' /\ UNCHANGED place
    /\ \A v \in Goods : asked'[v] - Kept(v)' = asked[v] - Kept(v)

LEMMA CartsFinite == IsFiniteSet(Carts)
BY FS_Union, ShopAssumption DEF Carts

LEMMA UnitsType ==
  ASSUME NEW l \in Line
  PROVE  Units(l) \in Nat /\ l.ship \in Nat /\ l.pre \in Nat
BY DEF Line, Units

LEMMA InCartType ==
  ASSUME CartTypeOK, NEW v \in Goods
  PROVE  /\ \A c \in Carts : InCart(v)[c] \in Nat
         /\ \A o \in Orders : InOrder(v)[o] \in Nat
<1>1. \A c \in Carts : Units(cart[c][v]) \in Nat
  BY UnitsType DEF CartTypeOK
<1>2. \A o \in Orders : Units(place[o].lines[v]) \in Nat
  BY UnitsType DEF CartTypeOK, Places
<1> QED
  BY <1>1, <1>2 DEF InCart, InOrder

LEMMA KeptType ==
  ASSUME CartTypeOK, NEW v \in Goods
  PROVE  Total(InCart(v), Carts) \in Nat /\ Total(InOrder(v), Orders) \in Nat /\ Kept(v) \in Nat
<1>1. Total(InCart(v), Carts) \in Nat
  BY InCartType, CartsFinite, TotalType
<1>2. Total(InOrder(v), Orders) \in Nat
  BY InCartType, ShopAssumption, TotalType
<1> QED
  BY <1>1, <1>2 DEF Kept

(* The sums are natural in the next state as in this one.                   *)
LEMMA KeptNext ==
  ASSUME cart' \in [Carts -> [Goods -> Line]], place' \in [Orders -> Places], NEW v \in Goods
  PROVE  Kept(v)' \in Nat
<1>1. \A c \in Carts : Units(cart'[c][v]) \in Nat
  BY UnitsType
<1>2. \A o \in Orders : Units(place'[o].lines[v]) \in Nat
  BY UnitsType DEF Places
<1>3. /\ \A c \in Carts : InCart(v)'[c] \in Nat
      /\ \A o \in Orders : InOrder(v)'[o] \in Nat
  BY <1>1, <1>2 DEF InCart, InOrder
<1>4. Total(InCart(v)', Carts) \in Nat /\ Total(InOrder(v)', Orders) \in Nat
  BY <1>3, CartsFinite, ShopAssumption, TotalType
<1>5. Kept(v)' = Total(InCart(v)', Carts) + Total(InOrder(v)', Orders)
  BY DEF Kept, Total, Carts
<1> QED
  BY <1>4, <1>5

LEMMA OnType ==
  ASSUME CartTypeOK, NEW v \in Goods, NEW c \in Carts
  PROVE  (\A o \in Orders : On(v, c)[o] \in Nat) /\ Total(On(v, c), Orders) \in Nat
<1>1. \A o \in Orders : Units(place[o].lines[v]) \in Nat
  BY UnitsType DEF CartTypeOK, Places
<1>2. \A o \in Orders : On(v, c)[o] \in Nat
  BY <1>1 DEF On
<1> QED
  BY <1>2, ShopAssumption, TotalType

(* The sum of the carts follows the one cart that changes.                  *)
LEMMA OneCart ==
  ASSUME CartTypeOK, cart' \in [Carts -> [Goods -> Line]], NEW v \in Goods, NEW c \in Carts,
         \A d \in Carts \ {c} : InCart(v)'[d] = InCart(v)[d]
  PROVE  Total(InCart(v), Carts)' = Total(InCart(v), Carts) - InCart(v)[c] + InCart(v)'[c]
<1>1. \A d \in Carts : InCart(v)[d] \in Nat /\ InCart(v)'[d] \in Nat
  <2>1. \A d \in Carts : InCart(v)[d] \in Nat
    BY InCartType
  <2>2. \A d \in Carts : Units(cart'[d][v]) \in Nat
    BY UnitsType
  <2>3. \A d \in Carts : InCart(v)'[d] \in Nat
    BY <2>2 DEF InCart
  <2> QED
    BY <2>1, <2>3
<1>2. Total(InCart(v)', Carts) = Total(InCart(v), Carts) - InCart(v)[c] + InCart(v)'[c]
  BY <1>1, CartsFinite, TotalReplace
<1> QED
  BY <1>2 DEF Total, Carts


LEMMA CartsStart == ShopInit => CartInv
<1> SUFFICES ASSUME ShopInit PROVE CartInv
  OBVIOUS
<1>1. CartInit
  BY DEF ShopInit
<1>2. NoUnits \in Line /\ Units(NoUnits) = 0
  BY DEF NoUnits, Line, Units
<1>3. Idle \in Checkouts
  BY DEF Idle, Checkouts
<1>4. Blank \in Places /\ Blank.step = "idle"
  BY <1>2 DEF Blank, Places
<1>5. CartTypeOK
  BY <1>1, <1>2, <1>3, <1>4 DEF CartInit, CartTypeOK
<1>6. Owners
  BY <1>1, <1>4, ShopAssumption DEF CartInit, Owners, InHand, Carts
<1>7. ASSUME NEW v \in Goods
      PROVE  NoneLost(v, [c \in Carts |-> 0]) /\ NoneTwice(v, [c \in Carts |-> 0])
  <2> DEFINE zero == [c \in Carts |-> 0]
  <2>1. \A c \in Carts : InCart(v)[c] = 0
    BY <1>1, <1>2 DEF CartInit, InCart
  <2>2. \A o \in Orders : ~InHand(o) /\ InOrder(v)[o] = 0
    BY <1>1, <1>4 DEF CartInit, InOrder, InHand
  <2>3. Total(InCart(v), Carts) = 0 /\ Total(InOrder(v), Orders) = 0
    BY <2>1, <2>2, TotalZero
  <2>4. Total(zero, Carts) = 0
    BY TotalZero
  <2>5. \A c \in Carts : Total(On(v, c), Orders) = 0
    <3> SUFFICES ASSUME NEW c \in Carts PROVE \A o \in Orders : On(v, c)[o] = 0
      BY TotalZero
    <3> QED
      BY <2>2 DEF On
  <2>6. asked[v] = 0 /\ late[v] = 0 /\ twice[v] = 0
    BY <1>1 DEF CartInit
  <2> QED
    BY <2>1, <2>2, <2>3, <2>4, <2>5, <2>6 DEF NoneLost, NoneTwice, Kept
<1>8. [c \in Carts |-> 0] \in [Carts -> Nat]
  OBVIOUS
<1> QED
  BY <1>5, <1>6, <1>7, <1>8 DEF CartInv, Accounts

(* Whoever leaves the units of carts and the orders as they are keeps the   *)
(* accounts.                                                                *)
LEMMA SameAccounts ==
  ASSUME CartInv, CartRows', Owners', UNCHANGED <<place, histories>>,
         \A v \in Goods : InCart(v)' = InCart(v)
  PROVE  CartInv'
<1>1. CartTypeOK'
  BY DEF CartInv, CartTypeOK, CartRows, histories
<1>2. ASSUME NEW v \in Goods
      PROVE  /\ Kept(v)' = Kept(v)
             /\ InCart(v)' = InCart(v)
             /\ \A c : On(v, c)' = On(v, c)
  BY <1>2 DEF Kept, InOrder, On, InHand, Carts
<1>3. ASSUME NEW v \in Goods, NEW fresh, NoneLost(v, fresh)
      PROVE  NoneLost(v, fresh)'
  BY <1>2, <1>3 DEF NoneLost, InHand, histories, Carts
<1>4. ASSUME NEW v \in Goods, NEW stale, NoneTwice(v, stale)
      PROVE  NoneTwice(v, stale)'
  BY <1>2, <1>4 DEF NoneTwice, histories, Carts
<1>5. Accounts'
  BY <1>3, <1>4 DEF CartInv, Accounts, Carts
<1> QED
  BY <1>1, <1>5 DEF CartInv

LEMMA CartsRest ==
  ASSUME CartInv, UNCHANGED cartVars
  PROVE  CartInv'
<1>1. CartRows' /\ Owners'
  BY DEF CartInv, CartTypeOK, CartRows, Owners, InHand, cartVars, histories, Carts
<1>2. \A v \in Goods : InCart(v)' = InCart(v)
  BY DEF cartVars, InCart, Carts
<1> QED
  BY <1>1, <1>2, SameAccounts DEF cartVars

(* One cart changes, and what its shopper asked for with it.                *)
LEMMA OneCartKeeps ==
  ASSUME CartInv, NEW c \in Carts, CartRows', UNCHANGED place,
         \A u \in Users : status'[u] # "merged",
         \A d \in Carts : status[d] # "none" => status'[d] # "none",
         \A d \in Carts \ {c} : cart'[d] = cart[d] /\ status'[d] = status[d],
         status[c] # "merged", status'[c] # "merged",
         \A v \in Goods : asked'[v] = asked[v] + Units(cart'[c][v]) - Units(cart[c][v])
  PROVE  Filled
<1>1. Owners'
  BY DEF CartInv, Owners, InHand
<1>2. ASSUME NEW v \in Goods PROVE asked'[v] - Kept(v)' = asked[v] - Kept(v)
  <2>1. \A d \in Carts \ {c} : InCart(v)'[d] = InCart(v)[d]
    BY DEF InCart
  <2>2. Total(InCart(v), Carts)' = Total(InCart(v), Carts) - InCart(v)[c] + InCart(v)'[c]
    BY <2>1, OneCart DEF CartInv, CartRows
  <2>3. InCart(v)[c] = Units(cart[c][v]) /\ InCart(v)'[c] = Units(cart'[c][v])
    BY DEF InCart
  <2>4. Total(InOrder(v), Orders)' = Total(InOrder(v), Orders)
    BY DEF InOrder, Total
  <2>5. Total(InCart(v), Carts) \in Nat /\ Total(InOrder(v), Orders) \in Nat
        /\ Units(cart[c][v]) \in Nat /\ Units(cart'[c][v]) \in Nat /\ asked[v] \in Int
    BY KeptType, UnitsType DEF CartInv, CartTypeOK, CartRows
  <2>6. Kept(v)' = Total(InCart(v), Carts)' + Total(InOrder(v), Orders)'
    BY DEF Kept
  <2> QED
    BY <2>2, <2>3, <2>4, <2>5, <2>6 DEF Kept
<1> QED
  BY <1>1, <1>2 DEF Filled

(* One line of a cart is written.                                           *)
LEMMA PutKeeps ==
  ASSUME CartInv, NEW c \in Carts, NEW v \in Goods, NEW l \in Line, status[c] # "merged",
         Put(c, v, l), asked' = [asked EXCEPT ![v] = @ + Units(l) - Units(cart[c][v])]
  PROVE  Filled
<1>1. status' = [status EXCEPT ![c] = "active"] /\ cart' = [cart EXCEPT ![c][v] = l] /\ UNCHANGED <<buy, place>>
  BY DEF Put
<1>2. /\ cart' \in [Carts -> [Goods -> Line]] /\ cart'[c][v] = l
      /\ \A d \in Carts \ {c} : cart'[d] = cart[d]
      /\ \A w \in Goods \ {v} : cart'[c][w] = cart[c][w]
  BY <1>1 DEF CartInv, CartTypeOK
<1>3. /\ status' \in [Carts -> {"none", "active", "merged"}] /\ status'[c] = "active"
      /\ \A d \in Carts \ {c} : status'[d] = status[d]
  BY <1>1 DEF CartInv, CartTypeOK
<1>4. \A w \in Goods : Units(cart[c][w]) \in Nat /\ asked[w] \in Int
  BY UnitsType DEF CartInv, CartTypeOK
<1>5. Units(l) \in Nat
  BY UnitsType
<1>6. asked' \in [Goods -> Int]
  BY <1>4, <1>5 DEF CartInv, CartTypeOK
<1>7. CartRows'
  BY <1>1, <1>2, <1>3, <1>6 DEF CartInv, CartTypeOK, CartRows
<1>8. \A w \in Goods : asked'[w] = asked[w] + Units(cart'[c][w]) - Units(cart[c][w])
  <2>1. asked'[v] = asked[v] + Units(l) - Units(cart[c][v])
    BY DEF CartInv, CartTypeOK
  <2>2. \A w \in Goods \ {v} : asked'[w] = asked[w]
    BY DEF CartInv, CartTypeOK
  <2> QED
    BY <1>2, <1>4, <2>1, <2>2
<1>9. \A u \in Users : status'[u] # "merged"
  BY <1>3 DEF CartInv, Owners, Carts
<1>10. \A d \in Carts : status[d] # "none" => status'[d] # "none"
  BY <1>3
<1> QED
  BY <1>1, <1>2, <1>3, <1>10, <1>7, <1>8, <1>9, OneCartKeeps

LEMMA SplitType ==
  ASSUME NEW n \in Nat, NEW q \in Int
  PROVE  Split(n, q).ship >= 0 => Split(n, q) \in Line /\ Units(Split(n, q)) = n
BY DEF Split, Line, Units

LEMMA LineSet ==
  ASSUME NEW x \in Line, NEW n \in Nat, NEW kind \in {"ship", "pre"}
  PROVE  /\ [x EXCEPT ![kind] = n] \in Line /\ x[kind] \in Nat
         /\ Units([x EXCEPT ![kind] = n]) = Units(x) + n - x[kind]
<1>1. CASE kind = "ship"
  BY <1>1 DEF Line, Units
<1>2. CASE kind = "pre"
  BY <1>2 DEF Line, Units
<1> QED
  BY <1>1, <1>2

LEMMA FillKeeps ==
  ASSUME CartInv, MirrorInv, Fill
  PROVE  Filled
<1>0. ASSUME NEW c \in Carts, NEW v \in Goods
      PROVE  /\ cart[c][v] \in Line /\ asked[v] \in Int /\ v \in Variants
             /\ cart[c][v].ship \in Nat /\ cart[c][v].pre \in Nat
  <2>1. cart[c][v] \in Line
    BY DEF CartInv, CartTypeOK
  <2> QED
    BY <2>1, ShopAssumption DEF Line, CartInv, CartTypeOK
<1>1. ASSUME NEW c \in Carts, NEW v \in Goods, NEW n \in 1 .. MaxUnits, AddItem(c, v, n)
      PROVE  Filled
  <2>1. PICK l \in {[cart[c][v] EXCEPT !.ship = @ + n], [cart[c][v] EXCEPT !.pre = @ + n]} : Put(c, v, l)
    BY <1>1 DEF AddItem
  <2>2. n \in Nat
    BY ShopAssumption
  <2>3. l \in Line /\ Units(l) = Units(cart[c][v]) + n
    <3>1. cart[c][v] \in Line
      BY <1>0
    <3>2. CASE l = [cart[c][v] EXCEPT !.ship = @ + n]
      BY <2>2, <3>1, <3>2 DEF Line, Units
    <3>3. CASE l = [cart[c][v] EXCEPT !.pre = @ + n]
      BY <2>2, <3>1, <3>3 DEF Line, Units
    <3> QED
      BY <2>1, <3>2, <3>3
  <2>4. asked' = [asked EXCEPT ![v] = @ + Units(l) - Units(cart[c][v])]
    <3>1. asked[v] + n = asked[v] + Units(l) - Units(cart[c][v])
      <4>1. Units(cart[c][v]) \in Nat
        BY <1>0, UnitsType
      <4> QED
        BY <1>0, <2>2, <2>3, <4>1
    <3>2. asked' = [asked EXCEPT ![v] = asked[v] + n]
      BY <1>1 DEF AddItem
    <3> QED
      BY <3>1, <3>2
  <2> QED
    BY <1>1, <2>1, <2>3, <2>4, PutKeeps DEF AddItem, Usable
<1>2. ASSUME NEW c \in Carts, NEW v \in Goods, NEW n \in 0 .. MaxUnits, SetVariantQuantity(c, v, n)
      PROVE  Filled
  <2> DEFINE l == DesiredSplit(v, n)
  <2>1. n \in Nat
    BY ShopAssumption
  <2>2. variant[v].qty \in Int
    BY <1>0, <1>2, CatalogueAssumption DEF SetVariantQuantity, MirrorInv, SafeRow, Row
  <2>3. l \in Line /\ Units(l) = n
    <3>1. [ship |-> 0, pre |-> n] \in Line /\ Units([ship |-> 0, pre |-> n]) = n
      BY <2>1 DEF Line, Units
    <3>2. CASE variant[v].type = "pre_order"
      BY <3>1, <3>2 DEF DesiredSplit
    <3>3. CASE variant[v].type # "pre_order"
      BY <1>2, <2>1, <2>2, <3>3, SplitType DEF DesiredSplit, SetVariantQuantity
    <3> QED
      BY <3>2, <3>3
  <2>4. asked' = [asked EXCEPT ![v] = @ + Units(l) - Units(cart[c][v])]
    BY <1>2, <2>3 DEF SetVariantQuantity
  <2>5. Put(c, v, l) /\ status[c] # "merged"
    BY <1>2 DEF SetVariantQuantity, Usable
  <2> HIDE DEF l
  <2> QED
    BY <2>3, <2>4, <2>5, PutKeeps
<1>3. ASSUME NEW c \in Carts, NEW v \in Goods, NEW n \in 0 .. MaxUnits, NEW kind \in {"ship", "pre"},
             UpdateItemQuantity(c, v, kind, n)
      PROVE  Filled
  <2> DEFINE l == [cart[c][v] EXCEPT ![kind] = n]
  <2>1. n \in Nat
    BY ShopAssumption
  <2>2. l \in Line /\ Units(l) = Units(cart[c][v]) + n - cart[c][v][kind] /\ cart[c][v][kind] \in Nat
    BY <1>0, <2>1, LineSet
  <2>3. asked' = [asked EXCEPT ![v] = @ + Units(l) - Units(cart[c][v])]
    <3>1. asked[v] + n - cart[c][v][kind] = asked[v] + Units(l) - Units(cart[c][v])
      <4>1. Units(cart[c][v]) \in Nat
        BY <1>0, UnitsType
      <4> QED
        BY <1>0, <2>1, <2>2, <4>1
    <3>2. asked' = [asked EXCEPT ![v] = asked[v] + n - cart[c][v][kind]]
      BY <1>3 DEF UpdateItemQuantity
    <3> QED
      BY <3>1, <3>2
  <2>4. Put(c, v, l) /\ status[c] # "merged"
    BY <1>3 DEF UpdateItemQuantity
  <2> HIDE DEF l
  <2> QED
    BY <2>2, <2>3, <2>4, PutKeeps
<1>4. ASSUME NEW c \in Carts, ClearCart(c)
      PROVE  Filled
  <2>1. /\ status[c] = "active" /\ UNCHANGED <<status, buy, place>>
        /\ cart' = [cart EXCEPT ![c] = [v \in Goods |-> NoUnits]]
        /\ asked' = [v \in Goods |-> asked[v] - Units(cart[c][v])]
    BY <1>4 DEF ClearCart, Empty
  <2>2. NoUnits \in Line /\ Units(NoUnits) = 0
    BY DEF NoUnits, Line, Units
  <2>3. /\ cart' \in [Carts -> [Goods -> Line]] /\ \A d \in Carts \ {c} : cart'[d] = cart[d]
        /\ \A v \in Goods : cart'[c][v] = NoUnits
    BY <2>1, <2>2 DEF CartInv, CartTypeOK
  <2>4. \A v \in Goods : Units(cart[c][v]) \in Nat /\ asked[v] \in Int
    BY UnitsType DEF CartInv, CartTypeOK
  <2>5. asked' \in [Goods -> Int]
        /\ \A v \in Goods : asked'[v] = asked[v] + Units(cart'[c][v]) - Units(cart[c][v])
    BY <2>1, <2>2, <2>3, <2>4
  <2>6. CartRows'
    BY <2>1, <2>3, <2>5 DEF CartInv, CartTypeOK, CartRows
  <2>7. \A u \in Users : status'[u] # "merged"
    BY <2>1 DEF CartInv, Owners
  <2> QED
    BY <2>1, <2>3, <2>5, <2>6, <2>7, OneCartKeeps
<1>5. ASSUME NEW u \in Users, NEW g \in Guests, MergeCarts(u, g)
      PROVE  Filled
  <2>0. u \in Carts /\ g \in Carts /\ u # g /\ g \notin Users
    BY ShopAssumption DEF Carts
  <2>1. /\ status[g] = "active" /\ UNCHANGED <<buy, place, asked>>
        /\ cart' = [cart EXCEPT ![u] = [v \in Goods |-> [ship |-> @[v].ship + cart[g][v].ship,
                                                         pre  |-> @[v].pre + cart[g][v].pre]]]
        /\ status' = [status EXCEPT ![u] = "active", ![g] = "merged"]
    BY <1>5 DEF MergeCarts
  <2>2. \A v \in Goods : [ship |-> cart[u][v].ship + cart[g][v].ship, pre |-> cart[u][v].pre + cart[g][v].pre] \in Line
    BY <1>0, <2>0 DEF Line
  <2>3. /\ cart' \in [Carts -> [Goods -> Line]] /\ \A d \in Carts \ {u} : cart'[d] = cart[d]
        /\ \A v \in Goods : cart'[u][v] = [ship |-> cart[u][v].ship + cart[g][v].ship,
                                           pre  |-> cart[u][v].pre + cart[g][v].pre]
    BY <2>0, <2>1, <2>2 DEF CartInv, CartTypeOK
  <2>4. /\ status' \in [Carts -> {"none", "active", "merged"}] /\ status'[u] = "active" /\ status'[g] = "merged"
        /\ \A d \in Carts \ {u, g} : status'[d] = status[d]
    BY <2>0, <2>1 DEF CartInv, CartTypeOK
  <2>5. CartRows'
    BY <2>1, <2>3, <2>4 DEF CartInv, CartTypeOK, CartRows
  <2>6. Owners'
    <3>1. \A d \in Carts : status[d] # "none" => status'[d] # "none"
      BY <2>0, <2>4
    <3> QED
      BY <2>0, <2>1, <2>4, <3>1 DEF CartInv, Owners, InHand, Carts
  <2>7. ASSUME NEW v \in Goods PROVE Kept(v)' = Kept(v)
    <3> DEFINE f == InCart(v)
               h == [InCart(v) EXCEPT ![g] = 0]
    <3>1. /\ f[u] = Units(cart[u][v]) /\ f[g] = Units(cart[g][v])
          /\ InCart(v)'[u] = Units(cart'[u][v]) /\ InCart(v)'[g] = 0
          /\ \A d \in Carts \ {u, g} : InCart(v)'[d] = f[d]
      BY <2>0, <2>1, <2>3, <2>4 DEF InCart, CartInv, Owners
    <3>2. InCart(v)'[u] = f[u] + f[g]
      <4>1. Units(cart'[u][v]) = cart[u][v].ship + cart[g][v].ship + (cart[u][v].pre + cart[g][v].pre)
        <5>1. cart'[u][v] = [ship |-> cart[u][v].ship + cart[g][v].ship, pre |-> cart[u][v].pre + cart[g][v].pre]
          BY <2>3
        <5>2. cart'[u][v].ship = cart[u][v].ship + cart[g][v].ship /\ cart'[u][v].pre = cart[u][v].pre + cart[g][v].pre
          BY <5>1
        <5> QED
          BY <5>2 DEF Units
      <4>2. /\ cart[u][v].ship \in Nat /\ cart[u][v].pre \in Nat
            /\ cart[g][v].ship \in Nat /\ cart[g][v].pre \in Nat
        BY <1>0, <2>0
      <4>3. f[u] = cart[u][v].ship + cart[u][v].pre /\ f[g] = cart[g][v].ship + cart[g][v].pre
        BY <3>1 DEF Units
      <4> HIDE DEF f
      <4> QED
        BY <3>1, <4>1, <4>2, <4>3
    <3>3. \A d \in Carts : f[d] \in Nat
      BY InCartType DEF CartInv
    <3>4. /\ h[g] = 0 /\ \A d \in Carts \ {g} : h[d] = f[d]
      BY <2>0 DEF InCart
    <3>5. \A d \in Carts : h[d] \in Nat /\ InCart(v)'[d] \in Nat
      BY <2>0, <3>1, <3>2, <3>3, <3>4
    <3>6. \A d \in Carts \ {u} : h[d] = InCart(v)'[d]
      BY <2>0, <3>1, <3>4
    <3> HIDE DEF f, h
    <3>7. Total(h, Carts) = Total(f, Carts) - f[g] + h[g]
      BY <2>0, <3>3, <3>4, <3>5, CartsFinite, TotalReplace
    <3>8. Total(InCart(v)', Carts) = Total(h, Carts) - h[u] + InCart(v)'[u]
      BY <2>0, <3>5, <3>6, CartsFinite, TotalReplace
    <3>9. Total(f, Carts) \in Nat
      BY <3>3, CartsFinite, TotalType
    <3>10. Total(InCart(v)', Carts) = Total(f, Carts)
      BY <2>0, <3>2, <3>3, <3>4, <3>7, <3>8, <3>9
    <3>11. Total(InCart(v), Carts)' = Total(InCart(v), Carts)
      BY <3>10 DEF f, Total, Carts
    <3>12. Total(InOrder(v), Orders)' = Total(InOrder(v), Orders)
      BY <2>1 DEF InOrder, Total
    <3> QED
      BY <3>11, <3>12 DEF Kept
  <2> QED
    BY <2>1, <2>5, <2>6, <2>7 DEF Filled
<1> QED
  BY <1>1, <1>2, <1>3, <1>4, <1>5 DEF Fill

LEMMA FillingKeeps ==
  ASSUME CartInv, Filled, Observe
  PROVE  CartInv'
<1>1. ASSUME NEW v \in Goods
      PROVE  /\ late'[v] \in Nat /\ \E fresh \in [Carts -> Nat] : NoneLost(v, fresh)'
             /\ twice'[v] \in Nat /\ \E stale \in [Carts -> Nat] : NoneTwice(v, stale)'
  <2> DEFINE f == InCart(v)
             g == InCart(v)'
             came == Came(v)
             left == Left(v)
  <2>1. \A c \in Carts : f[c] \in Nat /\ g[c] \in Nat
    <3>1. \A c \in Carts : Units(cart'[c][v]) \in Nat
      BY UnitsType DEF Filled, CartRows
    <3> QED
      BY <3>1, InCartType DEF CartInv, InCart
  <2>2. \A c \in Carts :
           /\ came[c] = IF BeingOrdered(c) THEN AtLeastZero(g[c] - f[c]) ELSE 0
           /\ left[c] = IF BeingOrdered(c) THEN AtLeastZero(f[c] - g[c]) ELSE 0
    BY DEF Came, Left
  <2>3. /\ late'[v] = late[v] + Total(came, Carts)
        /\ twice'[v] = twice[v] + Total(left, Carts)
    BY DEF Observe
  <2>4. /\ place' = place /\ \A o \in Orders : InHand(o)' <=> InHand(o)
        /\ \A c \in Carts : On(v, c)' = On(v, c)
    BY DEF Filled, InHand, On
  <2>5. asked'[v] - Kept(v)' = asked[v] - Kept(v) /\ asked[v] \in Int /\ asked'[v] \in Int
        /\ Kept(v) \in Nat /\ Kept(v)' \in Nat
    <3>1. Kept(v)' \in Nat
      BY KeptNext DEF Filled, CartRows
    <3> QED
      BY <3>1, KeptType DEF Filled, CartRows, CartInv, CartTypeOK
  <2>6. late[v] \in Nat /\ twice[v] \in Nat
    BY DEF CartInv, CartTypeOK
  <2> HIDE DEF f, g, came, left
  <2>7. \A c \in Carts :
           /\ came[c] \in Nat /\ left[c] \in Nat
           /\ BeingOrdered(c) => g[c] <= f[c] + came[c] /\ f[c] <= g[c] + left[c]
    BY <2>1, <2>2 DEF AtLeastZero
  <2>8. Total(came, Carts) \in Nat /\ Total(left, Carts) \in Nat
    BY <2>7, CartsFinite, TotalType
  <2>9. \E fresh \in [Carts -> Nat] : NoneLost(v, fresh)'
    <3>1. PICK fresh \in [Carts -> Nat] : NoneLost(v, fresh)
      BY DEF CartInv, Accounts
    <3>2. PICK more \in [Carts -> Nat] : \A c \in Carts : more[c] = fresh[c] + came[c]
      <4>1. [c \in Carts |-> fresh[c] + came[c]] \in [Carts -> Nat]
        BY <2>7
      <4> QED
        BY <4>1
    <3>3. Total(more, Carts) = Total(fresh, Carts) + Total(came, Carts) /\ Total(fresh, Carts) \in Nat
      BY <2>7, <3>2, CartsFinite, TotalPlus, TotalType
    <3>4. ASSUME NEW o \in Orders, InHand(o)
          PROVE  g[place[o].cart] <= Units(place[o].lines[v]) + more[place[o].cart]
      <4>1. place[o].cart \in Carts /\ BeingOrdered(place[o].cart)
        BY <3>4 DEF CartInv, Owners, InHand, BeingOrdered
      <4>2. Units(place[o].lines[v]) \in Nat
        BY UnitsType DEF CartInv, CartTypeOK, Places
      <4>3. f[place[o].cart] <= Units(place[o].lines[v]) + fresh[place[o].cart]
        BY <3>1, <3>4 DEF NoneLost, f
      <4> QED
        BY <2>1, <2>7, <3>2, <4>1, <4>2, <4>3
    <3>5. asked[v] - Kept(v) + Total(fresh, Carts) <= late[v]
      BY <3>1 DEF NoneLost
    <3>6. asked'[v] - Kept(v)' + Total(more, Carts) <= late'[v]
      BY <2>3, <2>5, <2>6, <2>8, <3>3, <3>5
    <3>7. NoneLost(v, more)'
      BY <2>4, <3>4, <3>6 DEF NoneLost, g, Carts
    <3> QED
      BY <3>2, <3>7
  <2>10. \E stale \in [Carts -> Nat] : NoneTwice(v, stale)'
    <3>1. PICK stale \in [Carts -> Nat] : NoneTwice(v, stale)
      BY DEF CartInv, Accounts
    <3>2. PICK more \in [Carts -> Nat] : \A c \in Carts : more[c] = stale[c] + left[c]
      <4>1. [c \in Carts |-> stale[c] + left[c]] \in [Carts -> Nat]
        BY <2>7
      <4> QED
        BY <4>1
    <3>3. Total(more, Carts) = Total(stale, Carts) + Total(left, Carts) /\ Total(stale, Carts) \in Nat
      BY <2>7, <3>2, CartsFinite, TotalPlus, TotalType
    <3>4. ASSUME NEW c \in Carts
          PROVE  Total(On(v, c), Orders) <= g[c] + more[c]
      <4>1. CASE BeingOrdered(c)
        <5>1. Total(On(v, c), Orders) <= f[c] + stale[c]
          BY <3>1 DEF NoneTwice, f
        <5>2. Total(On(v, c), Orders) \in Nat
          BY OnType DEF CartInv
        <5> QED
          BY <2>1, <2>7, <3>2, <4>1, <5>1, <5>2
      <4>2. CASE ~BeingOrdered(c)
        <5>1. \A o \in Orders : On(v, c)[o] = 0
          BY <4>2 DEF On, InHand, BeingOrdered
        <5>2. Total(On(v, c), Orders) = 0
          BY <5>1, TotalZero
        <5> QED
          BY <2>1, <3>2, <5>2
      <4> QED
        BY <4>1, <4>2
    <3>5. Kept(v) - asked[v] + Total(stale, Carts) <= twice[v]
      BY <3>1 DEF NoneTwice
    <3>6. Kept(v)' - asked'[v] + Total(more, Carts) <= twice'[v]
      BY <2>3, <2>5, <2>6, <2>8, <3>3, <3>5
    <3>7. NoneTwice(v, more)'
      BY <2>4, <3>4, <3>6 DEF NoneTwice, g, Carts
    <3> QED
      BY <3>2, <3>7
  <2> QED
    BY <2>3, <2>6, <2>8, <2>9, <2>10
<1>2. CartTypeOK'
  <2>1. late' \in [Goods -> Nat] /\ twice' \in [Goods -> Nat]
    BY <1>1 DEF Observe
  <2> QED
    BY <2>1 DEF Filled, CartRows, CartTypeOK
<1> QED
  BY <1>1, <1>2 DEF CartInv, Filled, Accounts, Carts
----------------------------------------------------------------------------
LEMMA MirrorKept == MirrorInv /\ UNCHANGED catalogueVars => MirrorInv'
BY DEF catalogueVars, shopify, rows, MirrorInv

(* A step of a checkout that leaves its cart alone.                         *)
LEMMA CheckoutOnly ==
  ASSUME CartInv, buy' \in [Carts -> Checkouts], UNCHANGED <<status, cart, place, histories>>
  PROVE  CartInv'
<1>1. CartRows' /\ Owners'
  BY DEF CartInv, CartTypeOK, CartRows, Owners, InHand, histories
<1>2. \A v \in Goods : InCart(v)' = InCart(v)
  BY DEF InCart, Carts
<1> QED
  BY <1>1, <1>2, SameAccounts

(* What Shopify answered splits the units of a cart anew, and no more.      *)
LEMMA SplitAnew ==
  ASSUME CartInv, NEW c \in Carts, NEW v \in Goods
  PROVE  /\ LiveSplit(c, v, buy[c].seen) \in Line
         /\ Units(LiveSplit(c, v, buy[c].seen)) = Units(cart[c][v])
         /\ buy[c].seen[v] # None => AtLeastZero(buy[c].seen[v]) \in Quantities
<1> DEFINE n == Units(cart[c][v])
           q == AtLeastZero(buy[c].seen[v])
           r == cart[c][v].ship > 0 /\ buy[c].seen[v] # None /\ Constrained(variant'[v])
<1>1. cart[c][v] \in Line /\ n \in Nat
  BY UnitsType DEF CartInv, CartTypeOK
<1>2. buy[c].seen[v] # None => q \in Quantities /\ q \in Nat
  <2>1. buy[c] \in Checkouts
    BY DEF CartInv, CartTypeOK
  <2>2. buy[c].seen[v] \in Quantities \cup {None}
    BY <2>1 DEF Checkouts
  <2>3. \A m \in Quantities : AtLeastZero(m) \in Quantities /\ AtLeastZero(m) \in Nat
    BY CatalogueAssumption DEF AtLeastZero
  <2> QED
    BY <2>2, <2>3
<1>3. LiveSplit(c, v, buy[c].seen) = IF r THEN Split(n, q) ELSE cart[c][v]
  BY DEF LiveSplit
<1>4. q \in Nat => Split(n, q) \in Line /\ Units(Split(n, q)) = n
  <2> HIDE DEF n, q
  <2> QED
    BY <1>1 DEF Split, Line, Units
<1> QED
  BY <1>1, <1>2, <1>3, <1>4

LEMMA ResyncedCart ==
  ASSUME CartInv, NEW c \in Carts, Resync(c)
  PROVE  /\ cart' \in [Carts -> [Goods -> Line]] /\ \A d \in Carts \ {c} : cart'[d] = cart[d]
         /\ \A v \in Goods : Units(cart'[c][v]) = Units(cart[c][v])
<1>1. CASE status[c] = "active"
  <2>1. cart' = [cart EXCEPT ![c] = [v \in Goods |-> LiveSplit(c, v, buy[c].seen)]]
    BY <1>1 DEF Resync
  <2> QED
    BY <2>1, SplitAnew DEF CartInv, CartTypeOK
<1>2. CASE status[c] # "active"
  BY <1>2 DEF Resync, CartInv, CartTypeOK
<1> QED
  BY <1>1, <1>2

(* A reconciliation writes the mirror as a webhook does, and the cart.      *)
LEMMA ResyncKeeps ==
  ASSUME CartInv, MirrorInv, NEW c \in Carts, Resync(c), buy' \in [Carts -> Checkouts]
  PROVE  CartInv' /\ MirrorInv'
<1>1. MirrorInv'
  <2>1. variant' \in [Variants -> SafeRow \cup {None}]
    BY SplitAnew, StockedSafe DEF Resync, SyncInventoryQuantities, MirrorInv
  <2> QED
    BY <2>1 DEF Resync, MirrorInv, shopify
<1>2. UNCHANGED <<status, place, histories>>
  BY DEF Resync
<1>3. CartRows' /\ Owners'
  BY <1>2, ResyncedCart DEF CartInv, CartTypeOK, CartRows, Owners, InHand, histories
<1>4. ASSUME NEW v \in Goods PROVE InCart(v)' = InCart(v)
  <2>1. \A d \in Carts : Units(cart'[d][v]) = Units(cart[d][v])
    BY ResyncedCart
  <2> QED
    BY <1>2, <2>1 DEF InCart, Carts
<1> QED
  BY <1>1, <1>2, <1>3, <1>4, SameAccounts

LEMMA CheckoutKeeps ==
  ASSUME CartInv, MirrorInv, NEW c \in Carts, InitiateCheckout(c)
  PROVE  CartInv' /\ MirrorInv'
<1>0. buy[c] \in Checkouts /\ cart[c] \in [Goods -> Line] /\ buy \in [Carts -> Checkouts]
  BY DEF CartInv, CartTypeOK
<1>1. ASSUME NEW refused \in BOOLEAN, Finish(c, refused)
      PROVE  buy' \in [Carts -> Checkouts]
  <2>1. [buy[c] EXCEPT !.step = "idle", !.refused = refused] \in Checkouts
    BY <1>0 DEF Checkouts
  <2>2. buy' = [buy EXCEPT ![c] = [buy[c] EXCEPT !.step = "idle", !.refused = refused]]
    BY <1>0, <1>1 DEF Finish
  <2> QED
    BY <1>0, <2>1, <2>2
<1>2. CASE StartCheckout(c)
  <2>1. ShipReady(c) \in [Goods -> Nat]
    BY <1>0, UnitsType DEF ShipReady
  <2>2. [Idle EXCEPT !.step = "ask", !.ship = ShipReady(c)] \in Checkouts
    BY <2>1 DEF Idle, Checkouts
  <2>3. buy' \in [Carts -> Checkouts]
    BY <1>0, <1>2, <2>2 DEF StartCheckout
  <2> QED
    BY <1>2, <2>3, CheckoutOnly, MirrorKept DEF StartCheckout
<1>3. CASE GetVariantsInventory(c)
  <2> DEFINE step == CASE buy[c].step = "ask" -> "sync" [] buy[c].step = "lock" -> "take"
                       [] buy[c].step = "again" -> "resync"
             seen == [v \in Goods |-> IF buy[c].ship[v] > 0 /\ item[v] # None THEN item[v].qty ELSE None]
  <2>1. step \in {"sync", "take", "resync"}
    BY <1>3 DEF GetVariantsInventory
  <2>2. seen \in [Goods -> Quantities \cup {None}]
    BY ShopAssumption DEF MirrorInv, Snapshots, Item
  <2>3. buy' = [buy EXCEPT ![c].step = step, ![c].seen = seen]
    BY <1>3 DEF GetVariantsInventory
  <2> HIDE DEF step, seen
  <2>4. [buy[c] EXCEPT !.step = step, !.seen = seen] \in Checkouts
    BY <1>0, <2>1, <2>2 DEF Checkouts
  <2>5. buy' = [buy EXCEPT ![c] = [buy[c] EXCEPT !.step = step, !.seen = seen]]
    BY <1>0, <2>3
  <2>6. buy' \in [Carts -> Checkouts]
    BY <1>0, <2>4, <2>5
  <2> QED
    BY <1>3, <2>6, CheckoutOnly, MirrorKept DEF GetVariantsInventory
<1>4. CASE ReconcileShipReady(c)
  <2>1. Resync(c)
    BY <1>4 DEF ReconcileShipReady
  <2>2. CASE Finish(c, TRUE) \/ Finish(c, FALSE)
    BY <1>1, <2>1, <2>2, ResyncKeeps
  <2>3. CASE buy' = [buy EXCEPT ![c].step = "lock", ![c].ship = ShipReady(c)']
    <3>1. cart'[c] \in [Goods -> Line]
      BY <2>1, ResyncedCart
    <3>2. ShipReady(c)' \in [Goods -> Nat]
      BY <3>1, UnitsType DEF ShipReady
    <3>3. [buy[c] EXCEPT !.step = "lock", !.ship = ShipReady(c)'] \in Checkouts
      BY <1>0, <3>2 DEF Checkouts
    <3>4. buy' = [buy EXCEPT ![c] = [buy[c] EXCEPT !.step = "lock", !.ship = ShipReady(c)']]
      BY <1>0, <2>3
    <3>5. buy' \in [Carts -> Checkouts]
      BY <1>0, <3>3, <3>4
    <3> QED
      BY <2>1, <3>5, ResyncKeeps
  <2> QED
    BY <1>4, <2>2, <2>3 DEF ReconcileShipReady
<1>5. CASE AcquireLocks(c)
  <2>1. CASE buy' = [buy EXCEPT ![c].step = "again"]
    <3>1. [buy[c] EXCEPT !.step = "again"] \in Checkouts
      BY <1>0 DEF Checkouts
    <3>2. buy' \in [Carts -> Checkouts]
      BY <1>0, <2>1, <3>1
    <3> QED
      BY <1>5, <3>2, CheckoutOnly, MirrorKept DEF AcquireLocks
  <2>2. CASE Finish(c, FALSE)
    BY <1>1, <1>5, <2>2, CheckoutOnly, MirrorKept DEF AcquireLocks
  <2> QED
    BY <1>5, <2>1, <2>2 DEF AcquireLocks
<1>6. CASE ReconcileAgain(c)
  BY <1>1, <1>6, ResyncKeeps DEF ReconcileAgain
<1> QED
  BY <1>2, <1>3, <1>4, <1>5, <1>6 DEF InitiateCheckout
----------------------------------------------------------------------------
(* One order goes on, which has been read and is not done yet, or gives up. *)
LEMMA GotoKeeps ==
  ASSUME CartInv, NEW o \in Orders, NEW s \in {"draft", "save", "clear", "failed"}, Goto(o, s),
         place[o].step \in {"link", "draft", "save"}, UNCHANGED <<status, cart, buy, histories>>
  PROVE  CartInv'
<1> DEFINE p == [place[o] EXCEPT !.step = s]
<1>1. place[o] \in Places /\ place \in [Orders -> Places] /\ InHand(o)
  BY DEF CartInv, CartTypeOK, InHand
<1>2. p \in Places /\ p.step = s /\ p.cart = place[o].cart /\ p.lines = place[o].lines
  BY <1>1 DEF Places
<1>3. /\ place' \in [Orders -> Places] /\ place'[o] = p
      /\ \A i \in Orders \ {o} : place'[i] = place[i]
  BY <1>1, <1>2 DEF Goto
<1> HIDE DEF p
<1>4. \A i \in Orders : /\ InHand(i)' => InHand(i)
                        /\ place'[i].cart = place[i].cart /\ place'[i].lines = place[i].lines
  BY <1>1, <1>2, <1>3 DEF InHand
<1>5. CartTypeOK' /\ Owners'
  BY <1>3, <1>4 DEF CartInv, CartTypeOK, Owners, histories
<1>6. ASSUME NEW v \in Goods
      PROVE  /\ InCart(v)' = InCart(v) /\ Kept(v)' = Kept(v)
             /\ \A c \in Carts : Total(On(v, c)', Orders) \in Nat
                               /\ Total(On(v, c)', Orders) <= Total(On(v, c), Orders)
  <2>1. InCart(v)' = InCart(v)
    BY DEF InCart, Carts
  <2>2. InOrder(v)' = InOrder(v)
    BY <1>1, <1>2, <1>3 DEF InOrder
  <2>3. ASSUME NEW c \in Carts
        PROVE  Total(On(v, c)', Orders) \in Nat /\ Total(On(v, c)', Orders) <= Total(On(v, c), Orders)
    <3>1. \A i \in Orders : On(v, c)[i] \in Nat
      BY OnType DEF CartInv
    <3>2. \A i \in Orders : On(v, c)'[i] = On(v, c)[i] \/ On(v, c)'[i] = 0
      BY <1>4 DEF On
    <3>3. \A i \in Orders : On(v, c)'[i] \in Nat /\ On(v, c)'[i] <= On(v, c)[i]
      BY <3>1, <3>2
    <3> QED
      BY <3>1, <3>3, ShopAssumption, TotalMonotone
  <2> QED
    BY <2>1, <2>2, <2>3 DEF Kept, Carts
<1>7. ASSUME NEW v \in Goods, NEW fresh, NoneLost(v, fresh)
      PROVE  NoneLost(v, fresh)'
  BY <1>4, <1>6, <1>7 DEF NoneLost, histories, Carts
<1>8. ASSUME NEW v \in Goods, NEW stale \in [Carts -> Nat], NoneTwice(v, stale)
      PROVE  NoneTwice(v, stale)'
  <2>1. ASSUME NEW c \in Carts PROVE Total(On(v, c)', Orders) <= InCart(v)[c] + stale[c]
    <3>1. Total(On(v, c), Orders) <= InCart(v)[c] + stale[c]
      BY <1>8 DEF NoneTwice
    <3>2. Total(On(v, c), Orders) \in Nat /\ InCart(v)[c] \in Nat
      BY OnType, InCartType DEF CartInv
    <3> QED
      BY <1>6, <3>1, <3>2
  <2> QED
    BY <1>6, <1>8, <2>1 DEF NoneTwice, histories, Carts
<1> QED
  BY <1>5, <1>7, <1>8 DEF CartInv, Accounts, Carts

(* An order that reads a cart owes what it was not shown; one that reads    *)
(* a cart of another order has its units a second time.                     *)
LEMMA ReadKeeps ==
  ASSUME CartInv, NEW o \in Orders, NEW c \in Carts, ReadCart(o, c)
  PROVE  CartInv'
<1> DEFINE p == [step |-> "link", cart |-> c, lines |-> Shown(c)]
<1>1. /\ place[o].step = "idle" /\ status[c] = "active" /\ place' = [place EXCEPT ![o] = p]
      /\ UNCHANGED <<status, cart, buy, asked>>
  BY DEF ReadCart
<1>2. NoUnits \in Line /\ Units(NoUnits) = 0
  BY DEF NoUnits, Line, Units
<1>3. p \in Places /\ p.step = "link" /\ p.cart = c
      /\ \A v \in Goods : p.lines[v] = IF variant[v] = None THEN NoUnits ELSE cart[c][v]
  BY <1>2 DEF Shown, CartInv, CartTypeOK, Places
<1> HIDE DEF p
<1>4. /\ place' \in [Orders -> Places] /\ place'[o] = p
      /\ \A i \in Orders \ {o} : place'[i] = place[i]
  BY <1>1, <1>3 DEF CartInv, CartTypeOK
<1>5. /\ ~InHand(o) /\ InHand(o)' /\ \A i \in Orders \ {o} : InHand(i)' <=> InHand(i)
  BY <1>1, <1>3, <1>4 DEF InHand
<1>6. Owners'
  BY <1>1, <1>3, <1>4, <1>5 DEF CartInv, Owners
<1>7. ASSUME NEW v \in Goods
      PROVE  /\ late'[v] \in Nat /\ \E fresh \in [Carts -> Nat] : NoneLost(v, fresh)'
             /\ twice'[v] \in Nat /\ \E stale \in [Carts -> Nat] : NoneTwice(v, stale)'
  <2> DEFINE l == Units(p.lines[v])
             u == Units(cart[c][v])
  <2>1. l \in Nat /\ u \in Nat /\ l <= u
    <3>1. u \in Nat
      BY UnitsType DEF CartInv, CartTypeOK
    <3> QED
      BY <1>2, <1>3, <3>1
  <2>2. late'[v] = late[v] + u - l /\ twice'[v] = IF BeingOrdered(c) THEN twice[v] + l ELSE twice[v]
    BY <1>3 DEF ReadCart, Shown
  <2>3. InCart(v)' = InCart(v) /\ InCart(v)[c] = u /\ \A d \in Carts : InCart(v)[d] \in Nat
    BY <1>1, InCartType DEF InCart, Carts, CartInv
  <2>4. Kept(v)' = Kept(v)
    <3>1. InOrder(v)' = InOrder(v)
      BY <1>1, <1>3, <1>4 DEF InOrder
    <3> QED
      BY <2>3, <3>1 DEF Kept, Carts
  <2>5. late[v] \in Nat /\ twice[v] \in Nat /\ asked[v] \in Int /\ Kept(v) \in Nat
    BY KeptType DEF CartInv, CartTypeOK
  <2>6. /\ On(v, c)[o] = 0 /\ On(v, c)'[o] = l
        /\ \A d \in Carts \ {c} : On(v, d)[o] = 0 /\ On(v, d)'[o] = 0
        /\ \A d \in Carts : \A i \in Orders \ {o} : On(v, d)'[i] = On(v, d)[i]
    BY <1>3, <1>4, <1>5 DEF On
  <2> HIDE DEF l, u
  <2>7. \E fresh \in [Carts -> Nat] : NoneLost(v, fresh)'
    <3>1. PICK fresh \in [Carts -> Nat] : NoneLost(v, fresh)
      BY DEF CartInv, Accounts
    <3>2. PICK more \in [Carts -> Nat] : /\ more[c] = fresh[c] + u - l
                                       /\ \A d \in Carts \ {c} : more[d] = fresh[d]
      <4> DEFINE h == [fresh EXCEPT ![c] = @ + u - l]
      <4>1. h \in [Carts -> Nat] /\ h[c] = fresh[c] + u - l /\ \A d \in Carts \ {c} : h[d] = fresh[d]
        BY <2>1
      <4> HIDE DEF h
      <4> QED
        BY <4>1
    <3>3. Total(more, Carts) = Total(fresh, Carts) - fresh[c] + more[c] /\ Total(fresh, Carts) \in Nat
      BY <3>2, CartsFinite, TotalReplace, TotalType
    <3>4. ASSUME NEW i \in Orders, InHand(i)'
          PROVE  InCart(v)[place'[i].cart] <= Units(place'[i].lines[v]) + more[place'[i].cart]
      <4>1. CASE i = o
        BY <1>3, <1>4, <2>1, <2>3, <3>2, <4>1 DEF l
      <4>2. CASE i # o
        <5>1. InHand(i) /\ place'[i] = place[i] /\ place[i].cart \in Carts
          BY <1>4, <1>5, <3>4, <4>2 DEF CartInv, Owners
        <5>2. Units(place[i].lines[v]) \in Nat
          BY UnitsType DEF CartInv, CartTypeOK, Places
        <5>3. InCart(v)[place[i].cart] <= Units(place[i].lines[v]) + fresh[place[i].cart]
          BY <3>1, <5>1 DEF NoneLost
        <5>4. fresh[place[i].cart] <= more[place[i].cart]
          BY <2>1, <3>2, <5>1
        <5> QED
          BY <2>3, <3>2, <5>1, <5>2, <5>3, <5>4
      <4> QED
        BY <4>1, <4>2
    <3>5. asked[v] - Kept(v) + Total(fresh, Carts) <= late[v]
      BY <3>1 DEF NoneLost
    <3>6. asked[v] - Kept(v) + Total(more, Carts) <= late'[v]
      BY <2>1, <2>2, <2>5, <3>2, <3>3, <3>5
    <3>7. NoneLost(v, more)'
      BY <1>1, <2>3, <2>4, <3>4, <3>6 DEF NoneLost, Carts
    <3> QED
      BY <3>2, <3>7
  <2>8. \E stale \in [Carts -> Nat] : NoneTwice(v, stale)'
    <3>1. PICK stale \in [Carts -> Nat] : NoneTwice(v, stale)
      BY DEF CartInv, Accounts
    <3>2. PICK more \in [Carts -> Nat] : /\ more[c] = stale[c] + (IF BeingOrdered(c) THEN l ELSE 0)
                                       /\ \A d \in Carts \ {c} : more[d] = stale[d]
      <4> DEFINE h == [stale EXCEPT ![c] = @ + (IF BeingOrdered(c) THEN l ELSE 0)]
      <4>1. /\ h \in [Carts -> Nat] /\ h[c] = stale[c] + (IF BeingOrdered(c) THEN l ELSE 0)
            /\ \A d \in Carts \ {c} : h[d] = stale[d]
        BY <2>1
      <4> HIDE DEF h
      <4> QED
        BY <4>1
    <3>3. Total(more, Carts) = Total(stale, Carts) - stale[c] + more[c] /\ Total(stale, Carts) \in Nat
      BY <3>2, CartsFinite, TotalReplace, TotalType
    <3>4. ASSUME NEW d \in Carts
          PROVE  Total(On(v, d)', Orders) <= InCart(v)[d] + more[d]
      <4>1. Total(On(v, d), Orders) <= InCart(v)[d] + stale[d] /\ Total(On(v, d), Orders) \in Nat
        BY <3>1, OnType DEF NoneTwice, CartInv
      <4>2. \A i \in Orders : On(v, d)[i] \in Nat /\ On(v, d)'[i] \in Nat
        <5>1. \A i \in Orders : On(v, d)[i] \in Nat
          BY OnType DEF CartInv
        <5>2. On(v, d)'[o] \in Nat
          BY <2>1, <2>6
        <5> QED
          BY <2>6, <5>1, <5>2
      <4>3. Total(On(v, d)', Orders) = Total(On(v, d), Orders) - On(v, d)[o] + On(v, d)'[o]
        BY <2>6, <4>2, ShopAssumption, TotalReplace
      <4>4. CASE d # c
        BY <2>3, <2>6, <3>2, <4>1, <4>3, <4>4
      <4>5. CASE d = c /\ BeingOrdered(c)
        BY <2>1, <2>3, <2>6, <3>2, <4>1, <4>3, <4>5
      <4>6. CASE d = c /\ ~BeingOrdered(c)
        <5>1. \A i \in Orders : On(v, c)[i] = 0
          BY <4>6 DEF On, InHand, BeingOrdered
        <5>2. Total(On(v, c), Orders) = 0
          BY <5>1, TotalZero
        <5> QED
          BY <2>1, <2>3, <2>6, <3>2, <4>3, <4>6, <5>2
      <4> QED
        BY <4>4, <4>5, <4>6
    <3>5. Kept(v) - asked[v] + Total(stale, Carts) <= twice[v]
      BY <3>1 DEF NoneTwice
    <3>6. Kept(v) - asked[v] + Total(more, Carts) <= twice'[v]
      BY <2>1, <2>2, <2>5, <3>2, <3>3, <3>5
    <3>7. NoneTwice(v, more)'
      BY <1>1, <2>3, <2>4, <3>4, <3>6 DEF NoneTwice, Carts
    <3> QED
      BY <3>2, <3>7
  <2> QED
    BY <2>1, <2>2, <2>5, <2>7, <2>8
<1>8. CartTypeOK'
  <2>1. late' \in [Goods -> Nat]
    BY <1>7 DEF ReadCart
  <2>2. twice' \in [Goods -> Nat]
    BY <1>7 DEF ReadCart, CartInv, CartTypeOK
  <2> QED
    BY <1>1, <1>4, <2>1, <2>2 DEF CartInv, CartTypeOK
<1> QED
  BY <1>6, <1>7, <1>8 DEF CartInv, Accounts, Carts

(* The order gets the units that it read, and its cart loses what is in it. *)
LEMMA ClearKeeps ==
  ASSUME CartInv, NEW o \in Orders, ClearOrdered(o)
  PROVE  CartInv'
<1>0. PICK c \in Carts : c = place[o].cart
  BY DEF ClearOrdered, CartInv, Owners, InHand
<1> DEFINE p == [place[o] EXCEPT !.step = "done"]
<1>1. /\ place[o].step = "clear" /\ InHand(o) /\ c = place[o].cart /\ status[c] # "none" /\ place[o] \in Places
      /\ place \in [Orders -> Places] /\ UNCHANGED <<status, buy, asked, late>>
  BY <1>0 DEF ClearOrdered, CartInv, CartTypeOK, Owners, InHand
<1>2. p \in Places /\ p.step = "done" /\ p.lines = place[o].lines /\ place' = [place EXCEPT ![o] = p]
  BY <1>1 DEF Places, ClearOrdered, Goto
<1> HIDE DEF p
<1>3. /\ place' \in [Orders -> Places] /\ place'[o] = p
      /\ \A i \in Orders \ {o} : place'[i] = place[i]
  BY <1>1, <1>2
<1>4. ~InHand(o)' /\ \A i \in Orders \ {o} : InHand(i)' <=> InHand(i)
  BY <1>2, <1>3 DEF InHand
<1>5. Owners'
  BY <1>1, <1>3, <1>4 DEF CartInv, Owners
<1>6. NoUnits \in Line /\ Units(NoUnits) = 0
  BY DEF NoUnits, Line, Units
<1>7. /\ cart' \in [Carts -> [Goods -> Line]]
      /\ \A d \in Carts \ {c} : cart'[d] = cart[d]
      /\ \/ status[c] = "active" /\ twice' = twice /\ \A v \in Goods : cart'[c][v] = NoUnits
         \/ status[c] = "merged" /\ twice' = twice /\ cart' = cart
         \/ /\ twice' = [v \in Goods |-> twice[v] + Units(place[o].lines[v])]
            /\ cart' = cart
  BY <1>1, <1>6 DEF ClearOrdered, Empty, CartInv, CartTypeOK
<1>8. ASSUME NEW v \in Goods
      PROVE  /\ \E fresh \in [Carts -> Nat] : NoneLost(v, fresh)'
             /\ twice'[v] \in Nat /\ \E stale \in [Carts -> Nat] : NoneTwice(v, stale)'
  <2> DEFINE f == InCart(v)
             g == InCart(v)'
             l == Units(place[o].lines[v])
  <2>1. /\ \A d \in Carts : f[d] \in Nat /\ g[d] \in Nat
        /\ \A d \in Carts \ {c} : g[d] = f[d]
    <3>1. \A d \in Carts : Units(cart'[d][v]) \in Nat
      BY <1>7, UnitsType
    <3> QED
      BY <1>1, <1>7, <3>1, InCartType DEF CartInv, InCart
  <2>2. l \in Nat
    BY <1>1, UnitsType DEF Places
  <2>3. \/ g[c] = 0 /\ twice'[v] = twice[v]
        \/ g[c] = f[c] /\ twice'[v] = twice[v] + l
    <3>1. CASE status[c] = "active" /\ twice' = twice /\ \A w \in Goods : cart'[c][w] = NoUnits
      BY <1>1, <1>6, <3>1 DEF InCart
    <3>2. CASE status[c] = "merged" /\ twice' = twice /\ cart' = cart
      BY <1>1, <3>2 DEF InCart
    <3>3. CASE twice' = [w \in Goods |-> twice[w] + Units(place[o].lines[w])] /\ cart' = cart
      BY <1>1, <3>3 DEF InCart
    <3> QED
      BY <1>7, <3>1, <3>2, <3>3
  <2>4. Kept(v)' = Kept(v) + l - f[c] + g[c] /\ Kept(v) \in Nat /\ Kept(v)' \in Nat
    <3>1. Total(InCart(v), Carts)' = Total(InCart(v), Carts) - f[c] + g[c]
      BY <1>1, <1>7, <2>1, OneCart DEF CartInv, f, g
    <3>2. /\ InOrder(v)[o] = 0 /\ InOrder(v)'[o] = l
          /\ \A i \in Orders \ {o} : InOrder(v)'[i] = InOrder(v)[i]
      BY <1>1, <1>2, <1>3 DEF InOrder
    <3>3. \A i \in Orders : InOrder(v)[i] \in Nat /\ InOrder(v)'[i] \in Nat
      BY <2>2, <3>2, InCartType DEF CartInv
    <3>4. Total(InOrder(v)', Orders) = Total(InOrder(v), Orders) - 0 + l
      BY <3>2, <3>3, ShopAssumption, TotalReplace
    <3>5. Total(InOrder(v), Orders)' = Total(InOrder(v)', Orders)
      BY DEF Total
    <3>6. Total(InCart(v), Carts) \in Nat /\ Total(InOrder(v), Orders) \in Nat /\ Kept(v) \in Nat
      BY KeptType DEF CartInv
    <3>7. Kept(v)' = Total(InCart(v), Carts)' + Total(InOrder(v), Orders)'
      BY DEF Kept
    <3>8. Kept(v)' \in Nat
      BY <1>3, <1>7, KeptNext
    <3> HIDE DEF f, g, l
    <3> QED
      BY <1>1, <2>1, <2>2, <3>1, <3>4, <3>5, <3>6, <3>7, <3>8 DEF Kept
  <2>5. late[v] \in Nat /\ twice[v] \in Nat /\ asked[v] \in Int /\ late'[v] = late[v] /\ asked'[v] = asked[v]
    BY <1>1 DEF CartInv, CartTypeOK
  <2>6. /\ On(v, c)[o] = l /\ On(v, c)'[o] = 0
        /\ \A d \in Carts \ {c} : On(v, d)[o] = 0 /\ On(v, d)'[o] = 0
        /\ \A d \in Carts : \A i \in Orders \ {o} : On(v, d)'[i] = On(v, d)[i]
    BY <1>1, <1>3, <1>4 DEF On
  <2> HIDE DEF f, g, l
  <2>7. ASSUME NEW d \in Carts
        PROVE  /\ Total(On(v, d), Orders) \in Nat
               /\ Total(On(v, d)', Orders) = Total(On(v, d), Orders) - (IF d = c THEN l ELSE 0)
               /\ d = c => l <= Total(On(v, d), Orders)
    <3>1. \A i \in Orders : On(v, d)[i] \in Nat /\ On(v, d)'[i] \in Nat
      <4>1. \A i \in Orders : On(v, d)[i] \in Nat
        BY OnType DEF CartInv
      <4>2. On(v, d)'[o] \in Nat
        BY <2>6
      <4> QED
        BY <2>6, <4>1, <4>2
    <3>2. /\ Total(On(v, d)', Orders) = Total(On(v, d), Orders) - On(v, d)[o] + On(v, d)'[o]
          /\ Total(On(v, d), Orders) >= On(v, d)[o] /\ Total(On(v, d), Orders) \in Nat
      BY <2>6, <3>1, ShopAssumption, TotalReplace, TotalType
    <3>3. CASE d = c
      BY <2>2, <2>6, <3>2, <3>3
    <3>4. CASE d # c
      <4>1. On(v, d)[o] = 0 /\ On(v, d)'[o] = 0
        BY <2>6, <3>4
      <4> QED
        BY <3>2, <3>4, <4>1
    <3> QED
      BY <3>3, <3>4
  <2>8. \E fresh \in [Carts -> Nat] : NoneLost(v, fresh)'
    <3>1. PICK fresh \in [Carts -> Nat] : NoneLost(v, fresh)
      BY DEF CartInv, Accounts
    <3>2. f[c] <= l + fresh[c]
      BY <1>1, <3>1 DEF NoneLost, f, l
    <3>3. PICK rest \in [Carts -> Nat] : /\ rest[c] = IF g[c] = 0 THEN fresh[c] + l - f[c] ELSE fresh[c]
                                       /\ \A d \in Carts \ {c} : rest[d] = fresh[d]
      <4> DEFINE h == IF g[c] = 0 THEN [fresh EXCEPT ![c] = @ + l - f[c]] ELSE fresh
      <4>1. /\ h \in [Carts -> Nat] /\ h[c] = IF g[c] = 0 THEN fresh[c] + l - f[c] ELSE fresh[c]
            /\ \A d \in Carts \ {c} : h[d] = fresh[d]
        BY <1>1, <2>1, <2>2, <3>2
      <4> HIDE DEF h
      <4> QED
        BY <4>1
    <3>4. Total(rest, Carts) = Total(fresh, Carts) - fresh[c] + rest[c] /\ Total(fresh, Carts) \in Nat
      BY <1>1, <3>3, CartsFinite, TotalReplace, TotalType
    <3>5. ASSUME NEW i \in Orders, InHand(i)'
          PROVE  g[place'[i].cart] <= Units(place'[i].lines[v]) + rest[place'[i].cart]
      <4>1. i # o /\ InHand(i) /\ place'[i] = place[i] /\ place[i].cart \in Carts
        BY <1>3, <1>4, <3>5 DEF CartInv, Owners
      <4>2. Units(place[i].lines[v]) \in Nat
        BY UnitsType DEF CartInv, CartTypeOK, Places
      <4>3. f[place[i].cart] <= Units(place[i].lines[v]) + fresh[place[i].cart]
        BY <3>1, <4>1 DEF NoneLost, f
      <4> QED
        BY <2>1, <2>3, <3>3, <4>1, <4>2, <4>3
    <3>6. asked[v] - Kept(v) + Total(fresh, Carts) <= late[v]
      BY <3>1 DEF NoneLost
    <3>7. asked[v] - Kept(v)' + Total(rest, Carts) <= late[v]
      BY <1>1, <2>1, <2>2, <2>3, <2>4, <2>5, <3>3, <3>4, <3>6
    <3>8. NoneLost(v, rest)'
      BY <2>5, <3>5, <3>7 DEF NoneLost, Carts, g
    <3> QED
      BY <3>3, <3>8
  <2>9. \E stale \in [Carts -> Nat] : NoneTwice(v, stale)'
    <3>1. PICK stale \in [Carts -> Nat] : NoneTwice(v, stale)
      BY DEF CartInv, Accounts
    <3>2. \A d \in Carts : Total(On(v, d), Orders) <= f[d] + stale[d]
      BY <3>1 DEF NoneTwice, f
    <3>3. CASE g[c] = 0 /\ twice'[v] = twice[v]
      <4>1. l <= f[c] + stale[c]
        BY <1>1, <2>1, <2>2, <2>7, <3>2
      <4>2. PICK rest \in [Carts -> Nat] : /\ rest[c] = stale[c] + f[c] - l
                                         /\ \A d \in Carts \ {c} : rest[d] = stale[d]
        <5> DEFINE h == [stale EXCEPT ![c] = @ + f[c] - l]
        <5>1. h \in [Carts -> Nat] /\ h[c] = stale[c] + f[c] - l /\ \A d \in Carts \ {c} : h[d] = stale[d]
          BY <1>1, <2>1, <2>2, <4>1
        <5> HIDE DEF h
        <5> QED
          BY <5>1
      <4>3. Total(rest, Carts) = Total(stale, Carts) - stale[c] + rest[c] /\ Total(stale, Carts) \in Nat
        BY <1>1, <4>2, CartsFinite, TotalReplace, TotalType
      <4>4. ASSUME NEW d \in Carts PROVE Total(On(v, d)', Orders) <= g[d] + rest[d]
        BY <1>1, <2>1, <2>2, <2>7, <3>2, <3>3, <4>2
      <4>5. Kept(v) - asked[v] + Total(stale, Carts) <= twice[v]
        BY <3>1 DEF NoneTwice
      <4>6. Kept(v)' - asked[v] + Total(rest, Carts) <= twice'[v]
        BY <1>1, <2>1, <2>2, <2>4, <2>5, <3>3, <4>2, <4>3, <4>5
      <4>7. NoneTwice(v, rest)'
        BY <2>5, <4>4, <4>6 DEF NoneTwice, Carts, g
      <4> QED
        BY <4>2, <4>7
    <3>4. CASE g[c] = f[c] /\ twice'[v] = twice[v] + l
      <4>1. ASSUME NEW d \in Carts PROVE Total(On(v, d)', Orders) <= g[d] + stale[d]
        BY <1>1, <2>1, <2>2, <2>7, <3>2, <3>4
      <4>2. Kept(v) - asked[v] + Total(stale, Carts) <= twice[v] /\ Total(stale, Carts) \in Nat
        BY <3>1, CartsFinite, TotalType DEF NoneTwice
      <4>3. Kept(v)' - asked[v] + Total(stale, Carts) <= twice'[v]
        BY <1>1, <2>1, <2>2, <2>4, <2>5, <3>4, <4>2
      <4>4. NoneTwice(v, stale)'
        BY <2>5, <4>1, <4>3 DEF NoneTwice, Carts, g
      <4> QED
        BY <4>4
    <3> QED
      BY <2>3, <3>3, <3>4
  <2> QED
    BY <2>2, <2>3, <2>5, <2>8, <2>9
<1>9. CartTypeOK'
  <2>1. twice' \in [Goods -> Nat]
    BY <1>7, <1>8 DEF CartInv, CartTypeOK
  <2> QED
    BY <1>1, <1>3, <1>7, <2>1 DEF CartInv, CartTypeOK
<1> QED
  BY <1>5, <1>8, <1>9 DEF CartInv, Accounts, Carts

LEMMA OrderingKeeps ==
  ASSUME CartInv, Ordering
  PROVE  CartInv'
<1>1. ASSUME NEW o \in Orders, CreateStorefrontCart(o) \/ CreateDraft(o) \/ SaveOrder(o)
      PROVE  CartInv'
  BY <1>1, GotoKeeps DEF CreateStorefrontCart, CreateDraft, SaveOrder
<1> QED
  BY <1>1, ReadKeeps, ClearKeeps DEF Ordering, CreateOrder
----------------------------------------------------------------------------
ShopInv == CreationInv /\ MirrorInv /\ CartInv

LEMMA ShopStart == ShopInit => ShopInv
BY CreationInit, MirrorInit, CartsStart DEF ShopInit, ShopInv

LEMMA ShopStep == ShopInv /\ [ShopNext]_shopVars => ShopInv'
<1> SUFFICES ASSUME ShopInv, [ShopNext]_shopVars PROVE ShopInv'
  OBVIOUS
<1>0. CreationInv /\ MirrorInv /\ CartInv
  BY DEF ShopInv
<1>1. CASE (CatalogueNext /\ UNCHANGED cartVars) \/ UNCHANGED shopVars
  <2>1. [CatalogueNext]_catalogueVars /\ UNCHANGED cartVars
    BY <1>1 DEF shopVars
  <2> QED
    BY <1>0, <2>1, CreationStep, MirrorStep, CartsRest DEF ShopInv
<1>2. CASE Filling
  <2>1. UNCHANGED catalogueVars /\ Fill /\ Observe
    <3>1. \A c, v, l : Put(c, v, l) => UNCHANGED catalogueVars
      BY DEF Put
    <3>2. \A c, v, n : AddItem(c, v, n) \/ SetVariantQuantity(c, v, n) => UNCHANGED catalogueVars
      BY <3>1, Zenon DEF AddItem, SetVariantQuantity
    <3>3. \A c, v, n, kind : UpdateItemQuantity(c, v, kind, n) => UNCHANGED catalogueVars
      BY <3>1, Zenon DEF UpdateItemQuantity
    <3>4. \A c, g : ClearCart(c) \/ MergeCarts(c, g) => UNCHANGED catalogueVars
      BY DEF ClearCart, MergeCarts
    <3> QED
      BY <1>2, <3>2, <3>3, <3>4 DEF Filling, Fill
  <2> QED
    BY <1>0, <1>2, <2>1, FillKeeps, FillingKeeps, CreationKept, MirrorKept DEF ShopInv, catalogueVars
<1>3. ASSUME NEW c \in Carts, InitiateCheckout(c)
      PROVE  ShopInv'
  <2>1. UNCHANGED creation
    BY <1>3 DEF InitiateCheckout, StartCheckout, GetVariantsInventory, ReconcileShipReady, AcquireLocks,
         ReconcileAgain, Resync, catalogueVars
  <2> QED
    BY <1>0, <1>3, <2>1, CheckoutKeeps, CreationKept DEF ShopInv
<1>4. CASE Ordering
  <2>1. UNCHANGED catalogueVars
    BY <1>4 DEF Ordering, CreateOrder, ReadCart, CreateStorefrontCart, CreateDraft, SaveOrder, ClearOrdered
  <2> QED
    BY <1>0, <1>4, <2>1, OrderingKeeps, CreationKept, MirrorKept DEF ShopInv, catalogueVars
<1> QED
  BY <1>1, <1>2, <1>3, <1>4 DEF ShopNext, Shopping

LEMMA ShopAlways == ShopSpec => []ShopInv
BY ShopStart, ShopStep, PTL DEF ShopSpec

(* Every variable of the mirror, the carts and the orders keeps its type.   *)
THEOREM ShopTypeCorrect == ShopSpec => [](CatalogueTypeOK /\ CartTypeOK)
<1>1. ShopInv => CatalogueTypeOK /\ CartTypeOK
  BY DEF ShopInv, CreationInv, MirrorInv, CartInv, CatalogueTypeOK, SafeRow
<1> QED
  BY <1>1, ShopAlways, PTL

(* service.go: "Custom products awaiting SKU must stay untracked": whatever *)
(* synchronisations, webhooks, links, additions and checkouts overlap.      *)
THEOREM AwaitingCorrect == ShopSpec => []AwaitingUntracked
<1>1. ShopInv => AwaitingUntracked
  BY DEF ShopInv, MirrorInv, SafeRow, AwaitingUntracked
<1> QED
  BY <1>1, ShopAlways, PTL

(* The idempotency key of CreateCustomProduct: Shopify gets one product for *)
(* a key, and one more only for every error that was answered, with any     *)
(* number of requests, failures and restarts.                               *)
THEOREM MadeCorrect == ShopSpec => []MadeOnce
<1>1. ShopInv => MadeOnce
  <2> SUFFICES ASSUME ShopInv, NEW k \in Keys PROVE Cardinality(made[k]) <= 1 + errors[k]
    BY DEF MadeOnce
  <2>1. Tally(k) /\ errors[k] \in Nat
    BY DEF ShopInv, CreationInv
  <2>2. Cardinality(made[k]) \in Nat
    BY <2>1, FS_CardinalityType DEF Tally
  <2> QED
    BY <2>1, <2>2 DEF Tally
<1> QED
  BY <1>1, ShopAlways, PTL

(* The bounds of UnitsKept, whatever additions, settings, updates and       *)
(* merges of carts, reconciliations of checkouts with what Shopify has and  *)
(* requests to POST /orders overlap, fail or meet a cart that has gone: no  *)
(* unit is lost but what came into a cart that was being ordered.           *)
THEOREM KeptCorrect == ShopSpec => []UnitsKept
<1>1. ShopInv => UnitsKept
  <2> SUFFICES ASSUME ShopInv, NEW v \in Goods
               PROVE  asked[v] - Kept(v) <= late[v] /\ Kept(v) - asked[v] <= twice[v]
    BY DEF UnitsKept
  <2>1. CartInv
    BY DEF ShopInv
  <2>2. PICK fresh \in [Carts -> Nat] : NoneLost(v, fresh)
    BY <2>1 DEF CartInv, Accounts
  <2>3. PICK stale \in [Carts -> Nat] : NoneTwice(v, stale)
    BY <2>1 DEF CartInv, Accounts
  <2>4. Total(fresh, Carts) \in Nat /\ Total(stale, Carts) \in Nat
    BY CartsFinite, TotalType
  <2>5. asked[v] \in Int /\ Kept(v) \in Nat /\ late[v] \in Nat /\ twice[v] \in Nat
    BY <2>1, KeptType DEF CartInv, CartTypeOK
  <2> QED
    BY <2>2, <2>3, <2>4, <2>5 DEF NoneLost, NoneTwice
<1> QED
  BY <1>1, ShopAlways, PTL
----------------------------------------------------------------------------
(* The override of the inventory policy.  That the app never turns off what *)
(* the merchant turned on rests on where the variants come from: a row, a   *)
(* request's list and a handler's list hold only variants that the merchant *)
(* left at DENY (Recorded, Asked, OnLists).                                 *)

(* The app has no business with a variant that is on by the merchant.       *)
Recorded == \A g \in BilledGroups, v \in Oversold : row[g][v] # "none" => chosen[v] = "DENY"
Asked    == \A g \in BilledGroups : \A v \in enable[g].rows \cup enable[g].denied : chosen[v] = "DENY"
OnLists  == \A p \in Restorers :
              /\ \A v \in restore[p].todo : chosen[v] = "DENY"
              /\ restore[p].cur # Nil => chosen[restore[p].cur] = "DENY"
              /\ restore[p].step \in {"mark", "recheck", "reopen"} => restore[p].cur # Nil
              /\ restore[p].step = "release" => restore[p].group # Nil

Provenance == Recorded /\ Asked /\ OnLists /\ ChosenKept

PolicyInv == PolicyTypeOK /\ Provenance
----------------------------------------------------------------------------
LEMMA InitHolds == PolicyInit => PolicyInv
  BY FailureAssumption DEF PolicyInit, PolicyInv, PolicyTypeOK, Provenance, Recorded, Asked, OnLists, ChosenKept,
       Policies, RowState, Enable, Restore, Away, Quiet

(* Where a list goes on to its next product, it is a list still.            *)
LEMMA NextProductKept ==
  ASSUME PolicyInv, NEW p \in Restorers, NEW S \in SUBSET restore[p].todo
  PROVE  /\ NextProduct(p, S) \in Restore
         /\ \A v \in NextProduct(p, S).todo : chosen[v] = "DENY"
         /\ NextProduct(p, S).cur = Nil
         /\ NextProduct(p, S).step \in {"idle", "deny"}
  BY DEF PolicyInv, PolicyTypeOK, Provenance, OnLists, NextProduct, Restore, Quiet

(* A step that only moves one handler keeps the invariant, if the handler   *)
(* stays within the variants of the app.                                    *)
LEMMA BecomeKept ==
  ASSUME PolicyInv, NEW p \in Restorers, NEW r \in Restore, Become(p, r),
         UNCHANGED <<chosen, policy, row, enable>>,
         group' \in [BilledGroups -> {"new", "awaiting", "closed"}], failures' \in 0 .. MaxFailures,
         \A v \in r.todo : chosen[v] = "DENY",
         r.cur # Nil => chosen[r.cur] = "DENY",
         r.step \in {"mark", "recheck", "reopen"} => r.cur # Nil,
         r.step = "release" => r.group # Nil
  PROVE  PolicyInv'
  BY DEF PolicyInv, PolicyTypeOK, Provenance, Recorded, Asked, OnLists, ChosenKept, Become

(* The same of a step that only moves one request.                          *)
LEMMA AskKept ==
  ASSUME PolicyInv, NEW g \in BilledGroups, NEW e \in Enable, Ask(g, e),
         UNCHANGED <<chosen, policy, row, restore>>,
         group' \in [BilledGroups -> {"new", "awaiting", "closed"}], failures' \in 0 .. MaxFailures,
         \A v \in e.rows \cup e.denied : chosen[v] = "DENY"
  PROVE  PolicyInv'
  BY DEF PolicyInv, PolicyTypeOK, Provenance, Recorded, Asked, OnLists, ChosenKept, Ask

LEMMA ToSetKept ==
  ASSUME PolicyInv, NEW g \in BilledGroups, NEW S \in SUBSET enable[g].denied
  PROVE  /\ ToSet(g, S) \in Enable
         /\ \A v \in ToSet(g, S).rows \cup ToSet(g, S).denied : chosen[v] = "DENY"
  BY DEF PolicyInv, PolicyTypeOK, Provenance, Asked, ToSet, Enable, Away

LEMMA EnableHolds ==
  ASSUME PolicyInv, NEW g \in BilledGroups,
         FinishOrderEditBalance(g) \/ AllowOverselling(g) \/ GiveUp(g)
  PROVE  PolicyInv'
<1>0. /\ enable[g] \in Enable
      /\ \A v \in enable[g].rows \cup enable[g].denied : chosen[v] = "DENY"
      /\ group \in [BilledGroups -> {"new", "awaiting", "closed"}] /\ failures \in 0 .. MaxFailures
  BY DEF PolicyInv, PolicyTypeOK, Provenance, Asked
<1>1. CASE FinishOrderEditBalance(g)
  <2>1. [Away EXCEPT !.step = "read"] \in Enable
    BY DEF Away, Enable
  <2>2. QED
    BY <1>0, <1>1, <2>1, AskKept DEF FinishOrderEditBalance, Away
<1>2. CASE GetVariantInventoryPolicies(g)
  <2> DEFINE S == {v \in Oversold : policy[v] = "DENY"}
  <2>1. \A v \in S : chosen[v] = "DENY"
    BY DEF PolicyInv, PolicyTypeOK, Provenance, ChosenKept, Policies
  <2>2. [step |-> "owned", denied |-> S, rows |-> {}] \in Enable
    BY DEF Enable
  <2>3. QED
    BY <1>0, <1>2, <2>1, <2>2, AskKept DEF GetVariantInventoryPolicies
<1>3. CASE VariantsWithInventoryPolicyOverride(g)
  <2> DEFINE S == enable[g].denied \cup {v \in Oversold : Owned(v)}
             e == [enable[g] EXCEPT !.step = "add", !.rows = S]
  <2>1. \A v \in S : chosen[v] = "DENY"
    BY <1>0 DEF PolicyInv, PolicyTypeOK, Provenance, Recorded, Owned, Open, Released
  <2>2. e \in Enable /\ e.rows = S /\ e.denied = enable[g].denied
    BY <1>0 DEF Enable
  <2>3. QED
    BY <1>0, <1>3, <2>1, <2>2, AskKept DEF VariantsWithInventoryPolicyOverride
<1>4. CASE AddInventoryPolicyOverrides(g)
  <2> DEFINE e == ToSet(g, enable[g].denied)
  <2>1. e \in Enable /\ \A v \in e.rows \cup e.denied : chosen[v] = "DENY"
    BY ToSetKept
  <2> HIDE DEF e
  <2>2. enable' = [enable EXCEPT ![g] = e]
    BY <1>4 DEF AddInventoryPolicyOverrides, Ask, e
  <2>3. PolicyTypeOK'
    BY <1>4, <2>1, <2>2 DEF AddInventoryPolicyOverrides, PolicyInv, PolicyTypeOK, RowState
  <2>4. Recorded'
    BY <1>0, <1>4 DEF AddInventoryPolicyOverrides, PolicyInv, PolicyTypeOK, Provenance, Recorded
  <2>5. Asked' /\ OnLists' /\ ChosenKept'
    BY <1>4, <2>1, <2>2 DEF AddInventoryPolicyOverrides, PolicyInv, PolicyTypeOK, Provenance, Asked, OnLists,
         ChosenKept
  <2>6. QED
    BY <2>3, <2>4, <2>5 DEF PolicyInv, Provenance
<1>5. CASE SetContinue(g)
  <2>1. PICK v \in enable[g].denied :
               /\ policy' = [policy EXCEPT ![v] = "CONTINUE"]
               /\ Ask(g, ToSet(g, enable[g].denied \ {v}))
    BY <1>5 DEF SetContinue
  <2> DEFINE e == ToSet(g, enable[g].denied \ {v})
  <2>2. e \in Enable /\ \A w \in e.rows \cup e.denied : chosen[w] = "DENY"
    BY ToSetKept
  <2> HIDE DEF e
  <2>3. enable' = [enable EXCEPT ![g] = e]
    BY <2>1 DEF Ask, e
  <2>4. UNCHANGED <<chosen, row, group, restore, failures>>
    BY <1>5 DEF SetContinue
  <2>5. v \in Oversold
    BY <1>0 DEF Enable
  <2>6. PolicyTypeOK'
    BY <2>1, <2>2, <2>3, <2>4, <2>5 DEF PolicyInv, PolicyTypeOK, Policies
  <2>7. Provenance'
    BY <2>1, <2>2, <2>3, <2>4, <2>5 DEF PolicyInv, PolicyTypeOK, Provenance, Recorded, Asked, OnLists, ChosenKept
  <2>8. QED
    BY <2>6, <2>7 DEF PolicyInv
<1>6. CASE GiveUp(g)
  <2>1. failures' \in 0 .. MaxFailures
    BY <1>0, <1>6, FailureAssumption DEF GiveUp
  <2>2. Away \in Enable
    BY DEF Away, Enable
  <2>3. QED
    BY <1>0, <1>6, <2>1, <2>2, AskKept DEF GiveUp, Away
<1>7. QED
  BY <1>1, <1>2, <1>3, <1>4, <1>5, <1>6 DEF AllowOverselling

LEMMA RestoreHolds ==
  ASSUME PolicyInv, NEW p \in Restorers,
         \/ \E g \in BilledGroups : CloseGroup(p, g)
         \/ ReconcileJob(p) \/ RestoreInventoryPolicies(p) \/ FailRestore(p)
  PROVE  PolicyInv'
<1>0. /\ restore[p] \in Restore /\ restore[p].todo \subseteq Oversold
      /\ \A v \in restore[p].todo : chosen[v] = "DENY"
      /\ restore[p].cur # Nil => restore[p].cur \in Oversold /\ chosen[restore[p].cur] = "DENY"
      /\ group \in [BilledGroups -> {"new", "awaiting", "closed"}] /\ failures \in 0 .. MaxFailures
  BY DEF PolicyInv, PolicyTypeOK, Provenance, OnLists, Restore
<1>1. ASSUME NEW g \in BilledGroups, CloseGroup(p, g)
      PROVE  PolicyInv'
  <2>1. [Quiet EXCEPT !.step = "release", !.group = g] \in Restore
    BY DEF Quiet, Restore
  <2>2. QED
    BY <1>0, <1>1, <2>1, BecomeKept, NilAssumption DEF CloseGroup, Quiet
<1>2. CASE ReconcileJob(p)
  <2>1. [Quiet EXCEPT !.step = "list"] \in Restore
    BY DEF Quiet, Restore
  <2>2. QED
    BY <1>0, <1>2, <2>1, BecomeKept DEF ReconcileJob, Quiet
<1>3. CASE ReleaseInventoryPolicyOverrides(p)
  <2>1. restore[p].group \in BilledGroups
    BY <1>0, <1>3 DEF ReleaseInventoryPolicyOverrides, At, PolicyInv, PolicyTypeOK, Provenance, OnLists, Restore
  <2>2. [Quiet EXCEPT !.step = "list"] \in Restore
    BY DEF Quiet, Restore
  <2>3. PolicyTypeOK'
    BY <1>3, <2>1, <2>2 DEF ReleaseInventoryPolicyOverrides, Become, PolicyInv, PolicyTypeOK, RowState
  <2>4. Recorded'
    BY <1>3, <2>1 DEF ReleaseInventoryPolicyOverrides, PolicyInv, PolicyTypeOK, Provenance, Recorded
  <2>5. Asked' /\ OnLists' /\ ChosenKept'
    BY <1>3 DEF ReleaseInventoryPolicyOverrides, Become, Quiet, PolicyInv, PolicyTypeOK, Provenance,
         Asked, OnLists, ChosenKept
  <2>6. QED
    BY <2>3, <2>4, <2>5 DEF PolicyInv, Provenance
<1>4. CASE ListRestorable(p)
  <2> DEFINE S == {v \in Oversold : Released(v) /\ ~ Open(v)}
  <2>1. \A v \in S : chosen[v] = "DENY"
    BY DEF PolicyInv, Provenance, Recorded, Released
  <2>2. /\ NextProduct(p, S) \in Restore
        /\ \A v \in NextProduct(p, S).todo : chosen[v] = "DENY"
        /\ NextProduct(p, S).cur = Nil
        /\ NextProduct(p, S).step \in {"idle", "deny"}
    BY <1>0, <2>1 DEF NextProduct, Restore, Quiet
  <2>3. QED
    BY <1>0, <1>4, <2>2, BecomeKept DEF ListRestorable
<1>5. CASE SetDeny(p)
  <2>1. PICK v \in restore[p].todo :
               /\ policy' = [policy EXCEPT ![v] = "DENY"]
               /\ Become(p, [restore[p] EXCEPT !.step = "mark", !.cur = v])
    BY <1>5 DEF SetDeny
  <2> DEFINE r == [restore[p] EXCEPT !.step = "mark", !.cur = v]
  <2>2. v \in Oversold /\ v # Nil /\ chosen[v] = "DENY"
    BY <1>0, NilAssumption
  <2>3. /\ r \in Restore /\ r.cur = v /\ r.todo = restore[p].todo /\ r.step = "mark"
    BY <1>0, <2>2 DEF Restore
  <2> HIDE DEF r
  <2>4. restore' = [restore EXCEPT ![p] = r]
    BY <2>1 DEF Become, r
  <2>5. UNCHANGED <<chosen, row, group, enable, failures>>
    BY <1>5 DEF SetDeny
  <2>6. PolicyTypeOK'
    BY <2>1, <2>2, <2>3, <2>4, <2>5 DEF PolicyInv, PolicyTypeOK, Policies
  <2>7. Provenance'
    BY <1>0, <2>1, <2>2, <2>3, <2>4, <2>5 DEF PolicyInv, PolicyTypeOK, Provenance, Recorded, Asked, OnLists, ChosenKept
  <2>8. QED
    BY <2>6, <2>7 DEF PolicyInv
<1>6. CASE MarkRestored(p)
  <2>1. restore[p].cur \in Oversold
    BY <1>0, <1>6 DEF MarkRestored, At, PolicyInv, Provenance, OnLists
  <2>2. [restore[p] EXCEPT !.step = "recheck"] \in Restore
    BY <1>0 DEF Restore
  <2>3. PolicyTypeOK'
    BY <1>6, <2>1, <2>2 DEF MarkRestored, MarkedAs, Become, PolicyInv, PolicyTypeOK, RowState
  <2>4. Recorded'
    BY <1>6, <2>1 DEF MarkRestored, MarkedAs, PolicyInv, PolicyTypeOK, Provenance, Recorded
  <2>5. Asked' /\ OnLists' /\ ChosenKept'
    BY <1>0, <1>6, <2>1 DEF MarkRestored, At, Become, PolicyInv, PolicyTypeOK, Provenance, Asked, OnLists,
         ChosenKept, Restore
  <2>6. QED
    BY <2>3, <2>4, <2>5 DEF PolicyInv, Provenance
<1>7. CASE Recheck(p)
  <2>1. restore[p].cur # Nil
    BY <1>7 DEF Recheck, At, PolicyInv, Provenance, OnLists
  <2>2. CASE Open(restore[p].cur)
    <3>1. [restore[p] EXCEPT !.step = "reopen"] \in Restore
      BY <1>0 DEF Restore
    <3>2. QED
      BY <1>0, <1>7, <2>1, <2>2, <3>1, BecomeKept DEF Recheck, Restore
  <2>3. CASE ~ Open(restore[p].cur)
    BY <1>0, <1>7, <2>3, NextProductKept, BecomeKept DEF Recheck
  <2>4. QED
    BY <2>2, <2>3
<1>8. CASE Reopen(p)
  <2> DEFINE r == NextProduct(p, restore[p].todo \ {restore[p].cur})
  <2>1. /\ r \in Restore /\ \A v \in r.todo : chosen[v] = "DENY"
        /\ r.cur = Nil /\ r.step \in {"idle", "deny"}
    BY NextProductKept
  <2>2. restore[p].cur \in Oversold
    BY <1>0, <1>8 DEF Reopen, At, PolicyInv, Provenance, OnLists
  <2> HIDE DEF r
  <2>3. restore' = [restore EXCEPT ![p] = r]
    BY <1>8 DEF Reopen, Become, r
  <2>4. PolicyTypeOK'
    BY <1>8, <2>1, <2>2, <2>3 DEF Reopen, PolicyInv, PolicyTypeOK, Policies
  <2>5. Recorded' /\ Asked' /\ OnLists' /\ ChosenKept'
    BY <1>8, <2>1, <2>2, <2>3 DEF Reopen, PolicyInv, PolicyTypeOK, Provenance, Recorded, Asked, OnLists, ChosenKept
  <2>6. QED
    BY <2>4, <2>5 DEF PolicyInv, Provenance
<1>9. CASE FailRestore(p)
  <2>1. failures' \in 0 .. MaxFailures
    BY <1>0, <1>9, FailureAssumption DEF FailRestore
  <2>2. Quiet \in Restore
    BY DEF Quiet, Restore
  <2>3. CASE Become(p, Quiet)
    BY <1>0, <1>9, <2>1, <2>2, <2>3, BecomeKept DEF FailRestore, Quiet
  <2>4. CASE Become(p, NextProduct(p, restore[p].todo \ {restore[p].cur}))
    BY <1>0, <1>9, <2>1, <2>4, NextProductKept, BecomeKept DEF FailRestore
  <2>5. QED
    BY <1>9, <2>3, <2>4 DEF FailRestore
<1>10. QED
  BY <1>1, <1>2, <1>3, <1>4, <1>5, <1>6, <1>7, <1>8, <1>9 DEF RestoreInventoryPolicies

LEMMA StepHolds == PolicyInv /\ [PolicyNext]_policyVars => PolicyInv'
<1> SUFFICES ASSUME PolicyInv, [PolicyNext]_policyVars PROVE PolicyInv'
  OBVIOUS
<1>1. CASE UNCHANGED policyVars
  BY <1>1 DEF policyVars, PolicyInv, PolicyTypeOK, Provenance, Recorded, Asked, OnLists, ChosenKept
<1>2. CASE PolicyNext
  BY <1>2, EnableHolds, RestoreHolds DEF PolicyNext
<1>3. QED
  BY <1>1, <1>2
----------------------------------------------------------------------------
(* Every variable of the override model keeps its type.                     *)
THEOREM PolicyTypeCorrect == PolicySpec => []PolicyTypeOK
<1>1. PolicyInv => PolicyTypeOK
  BY DEF PolicyInv
<1>2. QED
  BY <1>1, InitHolds, StepHolds, PTL DEF PolicySpec

(* "Variants that were already CONTINUE are never recorded, so the app      *)
(* never turns them off" (inventory_policy.go), with any number of balances *)
(* requested, paid and cancelled at once.                                   *)
THEOREM ChosenStays == PolicySpec => []ChosenKept
<1>1. PolicyInv => ChosenKept
  BY DEF PolicyInv, Provenance
<1>2. QED
  BY <1>1, InitHolds, StepHolds, PTL DEF PolicySpec
----------------------------------------------------------------------------
(* Drafts of groups.  What a request q carries is what its step needs, and  *)
(* what a row says of its draft is so.                                      *)
Repricing(q) == q.step \in {"share", "rewrite", "pack", "save"} /\ q.sent
Rewrote(q)   == q.step \in {"pack", "save"} /\ q.sent

Knowing(q) ==
    /\ q.step # "idle" => q.group \in Groups
    /\ q.step \in {"share", "rewrite"} => q.sent
    /\ Repricing(q) => q.draft \in Drafts /\ shipment[q.group].sent
    /\ q.step = "mark" => /\ q.draft \in Drafts
                          /\ draft[q.draft].state # "none" /\ draft[q.draft].group = q.group

RowsKnow ==
    \A g \in Groups :
        /\ ~ shipment[g].sent => shipment[g].applied = 0
        /\ shipment[g].sent => /\ shipment[g].draft \in Drafts
                               /\ draft[shipment[g].draft].state # "none"
                               /\ draft[shipment[g].draft].group = g

DraftsKnow ==
    \A d \in Drafts :
        /\ draft[d].state # "none" => draft[d].group \in Groups
        /\ hook[d].step # "none" => draft[d].state # "none"

(* Until two requests overlap, what a request has taken of the prepayment   *)
(* is still there for it.                                                   *)
Keeping(q) ==
    /\ q.step \in {"create", "mark"} =>
          ~ shipment[q.group].sent /\ q.applied + Total(Applied, Groups) <= Pool
    /\ q.step \in {"pack", "save"} /\ ~ q.sent => ~ shipment[q.group].sent
    /\ q.step \in {"rewrite", "pack", "save"} /\ q.sent =>
          q.applied + Total(Applied, Groups \ {q.group}) <= Pool

Alone  == \A r, v \in Requests : ~ ReqAt(r, "idle") /\ ~ ReqAt(v, "idle") => r = v
InTurn == ~ overlap => Alone /\ PrepaidWithinPool /\ \A r \in Requests : Keeping(req[r])

(* And until a payment or a failure comes in between, a draft amounts to    *)
(* what its row says, or what the request says that has just rewritten it.  *)
Carrying(q) ==
    /\ q.step \in {"create", "mark"} => q.ship = shipment[q.group].ship
    /\ Repricing(q) => ~ shipment[q.group].paid /\ q.draft = shipment[q.group].draft
    /\ q.step = "mark" \/ Rewrote(q) => draft[q.draft].amount = Bill(q.group, q.ship, q.applied)

Matches(g)   == draft[shipment[g].draft].amount = Bill(g, shipment[g].ship, shipment[g].applied)
Rewritten(g) == \E r \in Requests : Rewrote(req[r]) /\ req[r].group = g
Calm         == ~ overlap /\ ~ crossed /\ glitches = 0
Exact        == Calm => /\ \A r \in Requests : Carrying(req[r])
                        /\ \A g \in Groups : shipment[g].sent /\ ~ Rewritten(g) => Matches(g)

Known  == (\A r \in Requests : Knowing(req[r])) /\ RowsKnow /\ DraftsKnow
BillInv == TypeOK /\ Known /\ InTurn /\ Exact
----------------------------------------------------------------------------
LEMMA GroupsFinite == IsFiniteSet(Groups) /\ \A S \in SUBSET Groups : IsFiniteSet(S)
<1>1. IsFiniteSet(Groups)
  BY FS_Interval, GroupsAssumption DEF Groups
<1> QED
  BY <1>1, FS_Subset

LEMMA SharesType ==
  ASSUME TypeOK, NEW S \in SUBSET Groups
  PROVE  /\ \A g \in Groups : Applied[g] = shipment[g].applied /\ Applied[g] \in 0 .. Pool
                              /\ Ship[g] = shipment[g].ship /\ Ship[g] \in Nat
         /\ Total(Applied, S) \in Nat /\ Total(Ship, S) \in Nat
<1>1. \A g \in Groups : shipment[g] \in ShipmentRow
  BY DEF TypeOK
<1>2. \A g \in Groups : /\ Applied[g] = shipment[g].applied /\ Applied[g] \in 0 .. Pool
                        /\ Ship[g] = shipment[g].ship /\ Ship[g] \in Nat
  BY <1>1, MoneyAssumption DEF Applied, Ship, ShipmentRow, Prices
<1>3. \A g \in S : Applied[g] \in Nat /\ Ship[g] \in Nat
  BY <1>2, MoneyAssumption
<1> QED
  BY <1>2, <1>3, GroupsFinite, TotalType

LEMMA LessType ==
  ASSUME NEW a \in Nat, NEW b \in Nat
  PROVE  Less(a, b) \in 0 .. a /\ (b <= a => Less(a, b) + b = a) /\ (~ b <= a => Less(a, b) = 0)
BY DEF Less

(* What AllocatePrepaidShipping leaves for a group fits beside the others.  *)
LEMMA AllocatedFits ==
  ASSUME TypeOK, NEW g \in Groups
  PROVE  /\ Allocated(g) \in 0 .. Pool
         /\ RowsKnow /\ PrepaidWithinPool /\ ~ shipment[g].sent => Allocated(g) + Total(Applied, Groups) <= Pool
<1> DEFINE S == {h \in 1 .. g - 1 : Unbilled(h)}
           a == Available
           b == Less(a, Total(Ship, S))
           t == Total(Applied, Groups)
<1>1. S \in SUBSET Groups
  BY GroupsAssumption DEF Groups
<1>2. t \in Nat /\ Total(Ship, S) \in Nat /\ Ship[g] \in Nat /\ Pool \in Nat /\ shipment[g].applied \in 0 .. Pool
  BY <1>1, SharesType, MoneyAssumption
<1>3. a = Less(Pool, t)
  BY DEF Available
<1> HIDE DEF a, t, S
<1>4. a \in 0 .. Pool /\ (t <= Pool => a + t = Pool)
  BY <1>2, <1>3, LessType
<1>5. b \in 0 .. a
  BY <1>2, <1>4, LessType
<1>6. Unbilled(g) => Allocated(g) = Least(Ship[g], b)
  BY DEF Allocated, S, a
<1>7. ~ Unbilled(g) => Allocated(g) = shipment[g].applied
  BY DEF Allocated
<1> HIDE DEF b
<1>8. Least(Ship[g], b) \in Nat /\ Least(Ship[g], b) <= b
  BY <1>2, <1>4, <1>5 DEF Least
<1>9. Allocated(g) \in 0 .. Pool
  BY <1>2, <1>4, <1>5, <1>6, <1>7, <1>8
<1>10. ASSUME RowsKnow, PrepaidWithinPool, ~ shipment[g].sent
       PROVE  Allocated(g) + t <= Pool
  <2>1. t <= Pool /\ shipment[g].applied = 0
    BY <1>10 DEF PrepaidWithinPool, RowsKnow, t
  <2> QED
    BY <1>2, <1>4, <1>5, <1>6, <1>7, <1>8, <2>1
<1> QED
  BY <1>9, <1>10 DEF t

(* And what RepricedPrepaidApplied leaves, beside all but its own old share. *)
LEMMA RepricedFits ==
  ASSUME TypeOK, NEW g \in Groups, NEW p \in Nat
  PROVE  /\ RepricedApplied(g, p) \in 0 .. Pool
         /\ PrepaidWithinPool => RepricedApplied(g, p) + Total(Applied, Groups \ {g}) <= Pool
<1> DEFINE t == Total(Applied, Groups \ {g})
           b == Less(Pool, t)
<1>1. t \in Nat /\ Pool \in Nat
  BY SharesType, MoneyAssumption
<1>2. Total(Applied, Groups) = Applied[g] + t /\ Applied[g] \in Nat
  BY SharesType, GroupsFinite, MoneyAssumption, TotalSplit
<1>3. b \in 0 .. Pool /\ (t <= Pool => b + t = Pool)
  BY <1>1, LessType
<1>4. RepricedApplied(g, p) = Least(p, b)
  BY DEF RepricedApplied
<1> HIDE DEF b
<1>5. Least(p, b) \in Nat /\ Least(p, b) <= b
  BY <1>1, <1>3 DEF Least
<1>6. PrepaidWithinPool => t <= Pool
  BY <1>1, <1>2 DEF PrepaidWithinPool
<1> HIDE DEF t
<1>7. PrepaidWithinPool => RepricedApplied(g, p) + t <= Pool
  BY <1>1, <1>3, <1>4, <1>5, <1>6
<1>8. RepricedApplied(g, p) \in 0 .. Pool
  BY <1>1, <1>3, <1>4, <1>5
<1> QED
  BY <1>7, <1>8 DEF t

LEMMA BillType ==
  ASSUME NEW g \in Groups, NEW ship \in Nat, NEW applied \in Nat
  PROVE  Bill(g, ship, applied) \in Nat
<1>1. Less(ship, applied) \in Nat /\ GoodsPrice[g] \in Nat
  BY LessType, MoneyAssumption
<1> QED
  BY <1>1 DEF Bill

LEMMA BillStart == Init => BillInv
<1> SUFFICES ASSUME Init PROVE BillInv
  OBVIOUS
<1>1. NoRow \in ShipmentRow /\ [NoRow EXCEPT !.exists = TRUE, !.packed = FALSE] \in ShipmentRow
  <2>1. 0 \in 0 .. Pool
    BY MoneyAssumption
  <2>2. NoRow \in ShipmentRow
    BY <2>1 DEF NoRow, ShipmentRow
  <2> QED
    BY <2>2 DEF ShipmentRow
<1>2. NoRequest \in Request /\ NoRequest.step = "idle"
  BY MoneyAssumption DEF NoRequest, Request, Steps
<1>3. TypeOK
  <2>1. [status |-> "deposit", step |-> 1] \in LineRow
    BY DEF LineRow
  <2>2. [state |-> "none", group |-> 0, amount |-> 0, given |-> FALSE] \in Draft
    BY DEF Draft
  <2>3. [step |-> "none", lines |-> {}] \in Hook
    BY DEF Hook
  <2>4. shipment \in [Groups -> ShipmentRow]
    BY <1>1 DEF Init
  <2> QED
    <3>1. line \in [Lines -> LineRow] /\ draft \in [Drafts -> Draft] /\ hook \in [Drafts -> Hook]
      BY <2>1, <2>2, <2>3 DEF Init
    <3>2. req \in [Requests -> Request]
      BY <1>2 DEF Init
    <3>3. glitches \in 0 .. MaxGlitches
      BY BoundsAssumption DEF Init
    <3> QED
      BY <2>4, <3>1, <3>2, <3>3 DEF Init, TypeOK
<1>4. \A g \in Groups : ~ shipment[g].sent /\ shipment[g].applied = 0
  BY DEF Init, NoRow
<1>5. Known
  BY <1>2, <1>4 DEF Init, Known, Knowing, Repricing, RowsKnow, DraftsKnow
<1>6. Total(Applied, Groups) = 0
  BY <1>4, TotalZero DEF Applied
<1>7. InTurn
  BY <1>2, <1>6, MoneyAssumption DEF Init, InTurn, Alone, ReqAt, PrepaidWithinPool, Keeping
<1>8. Exact
  BY <1>2, <1>4 DEF Init, Exact, Carrying, Repricing, Rewrote
<1> QED
  BY <1>3, <1>5, <1>7, <1>8 DEF BillInv
----------------------------------------------------------------------------
(* A request moves and leaves rows and drafts as they are.                  *)
LEMMA RequestMoves ==
  ASSUME BillInv, TypeOK', NEW r \in Requests, UNCHANGED <<shipment, draft, hook>>,
         req' = [req EXCEPT ![r] = req'[r]],
         overlap => overlap', crossed => crossed', glitches' >= glitches,
         ~ overlap' /\ req'[r].step # "idle" => \A v \in Requests \ {r} : ReqAt(v, "idle"),
         Knowing(req[r])', ~ overlap' => Keeping(req[r])', Calm' => Carrying(req[r])',
         Calm' /\ Rewrote(req[r]) => Rewrote(req'[r]) /\ req'[r].group = req[r].group
  PROVE  BillInv'
<1>1. \A v \in Requests \ {r} : req'[v] = req[v]
  BY DEF BillInv, TypeOK
<1>2. \A v \in Requests \ {r} : /\ Knowing(req[v])' <=> Knowing(req[v])
                                /\ Keeping(req[v])' <=> Keeping(req[v])
                                /\ Carrying(req[v])' <=> Carrying(req[v])
  <2>1. Applied' = Applied
    BY DEF Applied
  <2> QED
    BY <1>1, <2>1 DEF Knowing, Keeping, Carrying, Repricing, Rewrote, Total, Groups
<1>3. Known'
  BY <1>2 DEF BillInv, Known, RowsKnow, DraftsKnow
<1>4. Total(Applied, Groups)' = Total(Applied, Groups)
  BY DEF Total, Applied, Groups
<1>5. InTurn'
  <2> SUFFICES ASSUME ~ overlap' PROVE (Alone /\ PrepaidWithinPool /\ \A v \in Requests : Keeping(req[v]))'
    BY DEF InTurn
  <2>1. Alone /\ PrepaidWithinPool /\ \A v \in Requests : Keeping(req[v])
    BY DEF BillInv, InTurn
  <2>2. Alone'
    BY <1>1, <2>1 DEF Alone, ReqAt
  <2> QED
    BY <1>2, <1>4, <2>1, <2>2 DEF PrepaidWithinPool
<1>6. Exact'
  <2> SUFFICES ASSUME Calm' PROVE (/\ \A v \in Requests : Carrying(req[v])
                                   /\ \A g \in Groups : shipment[g].sent /\ ~ Rewritten(g) => Matches(g))'
    BY DEF Exact
  <2>1. Calm
    BY BoundsAssumption DEF Calm, BillInv, TypeOK
  <2>2. \A g \in Groups : Matches(g)' <=> Matches(g)
    BY DEF Matches, Bill
  <2>3. \A g \in Groups : Rewritten(g) => Rewritten(g)'
    BY <1>1 DEF Rewritten
  <2>4. \A g \in Groups : shipment'[g].sent /\ ~ Rewritten(g)' => Matches(g)'
    BY <2>1, <2>2, <2>3 DEF BillInv, Exact
  <2>5. \A v \in Requests : Carrying(req[v])'
    BY <1>2, <2>1 DEF BillInv, Exact
  <2> QED
    BY <2>4, <2>5
<1> QED
  BY <1>3, <1>5, <1>6 DEF BillInv

(* A payment is handled, and no row or draft changes.                       *)
LEMMA HandlerMoves ==
  ASSUME BillInv, TypeOK', NEW d \in Drafts, UNCHANGED <<shipment, draft, req, overlap>>,
         hook' = [hook EXCEPT ![d] = hook'[d]], hook[d].step # "none",
         crossed => crossed', glitches' >= glitches
  PROVE  BillInv'
<1>1. \A v \in Requests : /\ Knowing(req[v])' <=> Knowing(req[v])
                          /\ Keeping(req[v])' <=> Keeping(req[v])
                          /\ Carrying(req[v])' <=> Carrying(req[v])
  BY DEF Knowing, Keeping, Carrying, Repricing, Rewrote, Total, Groups, Applied
<1>2. \A e \in Drafts \ {d} : hook'[e] = hook[e]
  BY DEF BillInv, TypeOK
<1>3. Known'
  BY <1>1, <1>2 DEF BillInv, Known, RowsKnow, DraftsKnow
<1>4. InTurn'
  BY <1>1 DEF BillInv, InTurn, Alone, ReqAt, PrepaidWithinPool, Total, Applied, Groups
<1>5. Exact'
  <2>1. Calm' => Calm
    BY BoundsAssumption DEF Calm, BillInv, TypeOK
  <2>2. \A g \in Groups : (Matches(g)' <=> Matches(g)) /\ (Rewritten(g)' <=> Rewritten(g))
    BY DEF Matches, Bill, Rewritten
  <2> QED
    BY <1>1, <2>1, <2>2 DEF BillInv, Exact
<1> QED
  BY <1>3, <1>4, <1>5 DEF BillInv

LEMMA Became ==
  ASSUME TypeOK, NEW r \in Requests, NEW q \in Request, ReqBecome(r, q)
  PROVE  /\ req' \in [Requests -> Request] /\ req'[r] = q /\ req' = [req EXCEPT ![r] = req'[r]]
         /\ \A v \in Requests \ {r} : req'[v] = req[v]
<1>1. req' = [req EXCEPT ![r] = q] /\ req \in [Requests -> Request]
  BY DEF ReqBecome, TypeOK
<1> QED
  BY <1>1

(* A request is over.                                                       *)
LEMMA FinishKeeps ==
  ASSUME BillInv, NEW r \in Requests, ~ ReqAt(r, "idle"), ReqFinish(r), UNCHANGED <<shipment, draft, hook, overlap>>,
         line' \in [Lines -> LineRow], settled' \subseteq Lines, order' \in {"open", "waiting", "in_progress"},
         crossed' = crossed, glitches' \in 0 .. MaxGlitches, glitches' >= glitches,
         Calm' => ~ Rewrote(req[r])
  PROVE  BillInv'
<1>1. NoRequest \in Request /\ NoRequest.step = "idle" /\ TypeOK
  BY MoneyAssumption DEF NoRequest, Request, Steps, BillInv
<1>2. /\ req' \in [Requests -> Request] /\ req'[r] = NoRequest /\ req' = [req EXCEPT ![r] = req'[r]]
  BY <1>1, Became DEF ReqFinish
<1>3. TypeOK'
  BY <1>2 DEF BillInv, TypeOK
<1>4. Knowing(req[r])' /\ Keeping(req[r])' /\ Carrying(req[r])'
  BY <1>1, <1>2 DEF Knowing, Keeping, Carrying, Repricing, Rewrote
<1> QED
  BY <1>1, <1>2, <1>3, <1>4, RequestMoves

(* A request starts: with no other, unless they overlap.                    *)
LEMMA StartKeeps ==
  ASSUME BillInv, NEW r \in Requests, NEW q \in Request, Start(r, q),
         Knowing(req[r])', ~ overlap => Keeping(req[r])', Calm => Carrying(req[r])'
  PROVE  BillInv'
<1>1. /\ ReqAt(r, "idle") /\ ReqBecome(r, q) /\ UNCHANGED <<tables, draft, hook, crossed, glitches>>
      /\ overlap' = (overlap \/ \E v \in Requests \ {r} : ~ ReqAt(v, "idle"))
  BY DEF Start
<1>2. /\ req' \in [Requests -> Request] /\ req'[r] = q /\ req' = [req EXCEPT ![r] = req'[r]]
  BY <1>1, Became DEF BillInv
<1>3. overlap' \in BOOLEAN /\ (overlap => overlap')
  BY <1>1 DEF BillInv, TypeOK
<1>4. TypeOK'
  BY <1>1, <1>2, <1>3 DEF BillInv, TypeOK, tables
<1>5. ~ Rewrote(req[r])
  BY <1>1 DEF ReqAt, Rewrote
<1>6. Calm' => Calm
  BY <1>1, <1>3 DEF Calm
<1>7. glitches' >= glitches
  BY <1>1, BoundsAssumption DEF BillInv, TypeOK
<1> QED
  BY <1>1, <1>2, <1>3, <1>4, <1>5, <1>6, <1>7, RequestMoves DEF tables

LEMMA StartRequestKeeps ==
  ASSUME BillInv, NEW r \in Requests, NEW g \in Groups, StartRequest(r, g), Holds[g] # {}
  PROVE  BillInv'
<1> DEFINE q == [NoRequest EXCEPT !.step = "create", !.group = g, !.ship = shipment[g].ship,
                                  !.applied = Allocated(g), !.low = {l \in Holds[g] : Below(l, 3)}]
<1>0. TypeOK /\ shipment[g] \in ShipmentRow
  BY DEF BillInv, TypeOK
<1>1. ~ shipment[g].sent /\ Start(r, q)
  BY DEF StartRequest
<1>2. Allocated(g) \in 0 .. Pool
  BY <1>0, AllocatedFits
<1>3. NoRequest \in Request
  BY MoneyAssumption DEF NoRequest, Request, Steps
<1>4. {l \in Holds[g] : Below(l, 3)} \subseteq Lines
  BY GroupsAssumption
<1>5. q \in Request
  BY <1>0, <1>2, <1>3, <1>4 DEF Request, Steps, ShipmentRow
<1>6. q.step = "create" /\ q.group = g /\ q.ship = shipment[g].ship /\ q.applied = Allocated(g)
  BY <1>3 DEF Request
<1> HIDE DEF q
<1>7. req'[r] = q /\ UNCHANGED <<shipment, draft>>
  BY <1>0, <1>1, <1>5, Became DEF Start, tables
<1>8. Knowing(req[r])' /\ Carrying(req[r])'
  BY <1>6, <1>7 DEF Knowing, Carrying, Repricing, Rewrote
<1>9. ~ overlap => Keeping(req[r])'
  <2> SUFFICES ASSUME ~ overlap PROVE Keeping(req[r])'
    OBVIOUS
  <2>1. Allocated(g) + Total(Applied, Groups) <= Pool
    BY <1>0, <1>1, AllocatedFits DEF BillInv, Known, InTurn
  <2>2. Total(Applied, Groups)' = Total(Applied, Groups)
    BY <1>7 DEF Total, Applied, Groups
  <2> QED
    BY <1>1, <1>6, <1>7, <2>1, <2>2 DEF Keeping
<1> QED
  BY <1>1, <1>5, <1>8, <1>9, StartKeeps

LEMMA StartShippingKeeps ==
  ASSUME BillInv, NEW r \in Requests, NEW g \in Groups, NEW p \in Prices, NEW pack \in BOOLEAN,
         StartShipping(r, g, p, pack)
  PROVE  BillInv'
<1> DEFINE step == CASE shipment[g].sent -> "share" [] ~ shipment[g].sent /\ pack -> "pack" [] OTHER -> "save"
           q == [NoRequest EXCEPT !.step = step, !.group = g, !.ship = p, !.pack = pack,
                                  !.sent = shipment[g].sent, !.draft = shipment[g].draft,
                                  !.low = {l \in Holds[g] : Below(l, 2)}]
<1>0. TypeOK /\ shipment[g] \in ShipmentRow
  BY DEF BillInv, TypeOK
<1>1. ~ shipment[g].paid /\ Start(r, q)
  BY DEF StartShipping
<1>2. /\ step \in {"share", "pack", "save"} /\ (shipment[g].sent <=> step = "share")
  BY <1>0 DEF ShipmentRow
<1> HIDE DEF step
<1>3. NoRequest \in Request
  BY MoneyAssumption DEF NoRequest, Request, Steps
<1>4. {l \in Holds[g] : Below(l, 2)} \subseteq Lines
  BY GroupsAssumption
<1>5. q \in Request
  BY <1>0, <1>2, <1>3, <1>4 DEF Request, Steps, ShipmentRow
<1>6. q.step = step /\ q.group = g /\ q.sent = shipment[g].sent /\ q.draft = shipment[g].draft
  BY <1>3 DEF Request
<1> HIDE DEF q
<1>7. req'[r] = q /\ UNCHANGED <<shipment, draft>>
  BY <1>0, <1>1, <1>5, Became DEF Start, tables
<1>8. Knowing(req[r])'
  BY <1>2, <1>6, <1>7 DEF Knowing, Repricing, BillInv, Known, RowsKnow
<1>9. Keeping(req[r])' /\ Carrying(req[r])'
  BY <1>1, <1>2, <1>6, <1>7 DEF Keeping, Carrying, Repricing, Rewrote
<1> QED
  BY <1>1, <1>5, <1>8, <1>9, StartKeeps

LEMMA TakeShareKeeps ==
  ASSUME BillInv, NEW r \in Requests, TakeShare(r)
  PROVE  BillInv'
<1> DEFINE g == req[r].group
           a == RepricedApplied(g, req[r].ship)
           q == [req[r] EXCEPT !.step = "rewrite", !.applied = a]
<1>0. TypeOK /\ req[r] \in Request /\ req[r].step = "share" /\ Knowing(req[r])
  BY DEF BillInv, TypeOK, TakeShare, ReqAt, Known
<1>1. g \in Groups /\ req[r].sent /\ req[r].ship \in Nat
  BY <1>0 DEF Knowing, Request, Prices
<1>2. ReqBecome(r, q) /\ UNCHANGED <<tables, draft, hook, past>>
  BY DEF TakeShare
<1>3. a \in 0 .. Pool
  BY <1>0, <1>1, RepricedFits
<1> HIDE DEF a
<1>4. /\ q \in Request /\ q.step = "rewrite" /\ q.applied = a /\ q.group = g /\ q.ship = req[r].ship
      /\ q.sent = req[r].sent /\ q.draft = req[r].draft
  BY <1>0, <1>3 DEF Request, Steps
<1> HIDE DEF q
<1>5. /\ req' \in [Requests -> Request] /\ req'[r] = q /\ req' = [req EXCEPT ![r] = req'[r]]
  BY <1>0, <1>2, <1>4, Became
<1>6. TypeOK'
  BY <1>0, <1>2, <1>5 DEF TypeOK, tables, past
<1>7. Knowing(req[r])'
  BY <1>0, <1>1, <1>2, <1>4, <1>5 DEF Knowing, Repricing, tables
<1>8. ~ overlap => Keeping(req[r])'
  <2> SUFFICES ASSUME ~ overlap PROVE Keeping(req[r])'
    OBVIOUS
  <2>1. a + Total(Applied, Groups \ {g}) <= Pool
    BY <1>0, <1>1, RepricedFits DEF a, BillInv, InTurn
  <2>2. Total(Applied, Groups \ {g})' = Total(Applied, Groups \ {q.group})
    BY <1>2, <1>4, <1>5 DEF Total, Applied, Groups, tables
  <2>3. q.applied + Total(Applied, Groups \ {q.group}) <= Pool
    BY <1>4, <2>1
  <2>4. Applied' = Applied
    BY <1>2 DEF Applied, tables
  <2> QED
    BY <1>4, <1>5, <2>3, <2>4 DEF Keeping, Total, Groups
<1>9. Calm => Carrying(req[r])'
  BY <1>0, <1>2, <1>4, <1>5 DEF BillInv, Exact, Carrying, Repricing, Rewrote, tables
<1>10. ~ overlap => \A v \in Requests \ {r} : ReqAt(v, "idle")
  BY <1>0 DEF BillInv, InTurn, Alone, ReqAt
<1>11. overlap' = overlap /\ crossed' = crossed /\ glitches' >= glitches /\ UNCHANGED <<shipment, draft, hook>>
  BY <1>0, <1>2, BoundsAssumption DEF past, tables, TypeOK
<1>12. Calm' = Calm /\ ~ Rewrote(req[r])
  BY <1>0, <1>2 DEF Calm, past, Rewrote
<1> QED
  BY <1>5, <1>6, <1>7, <1>8, <1>9, <1>10, <1>11, <1>12, RequestMoves

LEMMA EndsKeep ==
  ASSUME BillInv, NEW r \in Requests, MarkGroupAwaiting(r) \/ AdvanceSteps(r) \/ Abandon(r)
  PROVE  BillInv'
<1>0. TypeOK
  BY DEF BillInv
<1>1. CASE MarkGroupAwaiting(r)
  <2>1. line' \in [Lines -> LineRow] /\ order' = "waiting"
    <3>1. \A l \in Lines : line[l] \in LineRow
      BY <1>0 DEF TypeOK
    <3>2. \A l \in Lines : \A n \in {3, line[l].step} : [status |-> "waiting", step |-> n] \in LineRow
      BY <3>1 DEF LineRow
    <3> QED
      BY <1>1, <3>1, <3>2 DEF MarkGroupAwaiting
  <2>2. ~ ReqAt(r, "idle") /\ ~ Rewrote(req[r])
    BY <1>1 DEF MarkGroupAwaiting, ReqAt, Rewrote
  <2>3. /\ ReqFinish(r) /\ UNCHANGED <<shipment, draft, hook, overlap>> /\ crossed' = crossed
        /\ settled' \subseteq Lines /\ glitches' \in 0 .. MaxGlitches /\ glitches' >= glitches
    BY <1>0, <1>1, BoundsAssumption DEF MarkGroupAwaiting, past, TypeOK
  <2> QED
    BY <2>1, <2>2, <2>3, FinishKeeps
<1>2. CASE AdvanceSteps(r)
  <2>1. line' \in [Lines -> LineRow]
    <3>1. \A l \in Lines : line[l] \in LineRow
      BY <1>0 DEF TypeOK
    <3>2. \A l \in Lines : [line[l] EXCEPT !.step = 2] \in LineRow
      BY <3>1 DEF LineRow
    <3> QED
      BY <1>2, <3>1, <3>2 DEF AdvanceSteps
  <2>2. ~ ReqAt(r, "idle") /\ ~ Rewrote(req[r])
    BY <1>2 DEF AdvanceSteps, ReqAt, Rewrote
  <2>3. /\ ReqFinish(r) /\ UNCHANGED <<shipment, draft, hook, overlap>> /\ crossed' = crossed
        /\ settled' \subseteq Lines /\ glitches' \in 0 .. MaxGlitches /\ glitches' >= glitches
        /\ order' \in {"open", "waiting", "in_progress"}
    BY <1>0, <1>2, BoundsAssumption DEF AdvanceSteps, past, TypeOK
  <2> QED
    BY <2>1, <2>2, <2>3, FinishKeeps
<1>3. CASE Abandon(r)
  <2>1. /\ ~ ReqAt(r, "idle") /\ ReqFinish(r) /\ UNCHANGED <<tables, draft, hook, overlap, crossed>>
        /\ glitches < MaxGlitches /\ glitches' = glitches + 1
    BY <1>3 DEF Abandon, Glitch
  <2>2. glitches' \in 0 .. MaxGlitches /\ glitches' >= glitches /\ glitches' # 0
    BY <1>0, <2>1, BoundsAssumption DEF TypeOK
  <2>3. /\ line' \in [Lines -> LineRow] /\ settled' \subseteq Lines /\ order' \in {"open", "waiting", "in_progress"}
    BY <1>0, <2>1 DEF TypeOK, tables
  <2> QED
    BY <2>1, <2>2, <2>3, FinishKeeps DEF tables, Calm
<1> QED
  BY <1>1, <1>2, <1>3

(* The draft of a group is made, for the share allocated to it.             *)
LEMMA CreateKeeps ==
  ASSUME BillInv, NEW r \in Requests, NEW d \in Drafts, CreateDraftOrder(r, d)
  PROVE  BillInv'
<1> DEFINE g == req[r].group
           q == [req[r] EXCEPT !.step = "mark", !.draft = d]
           new == [state |-> "open", group |-> g, given |-> FALSE, amount |-> Bill(g, req[r].ship, req[r].applied)]
<1>0. TypeOK /\ req[r] \in Request /\ req[r].step = "create" /\ Knowing(req[r])
  BY DEF BillInv, TypeOK, CreateDraftOrder, ReqAt, Known
<1>1. g \in Groups /\ req[r].ship \in Nat /\ req[r].applied \in Nat
  BY <1>0, MoneyAssumption DEF Knowing, Request, Prices
<1>2. /\ ReqBecome(r, q) /\ draft[d].state = "none" /\ draft' = [draft EXCEPT ![d] = new]
      /\ UNCHANGED <<tables, hook, past>>
  BY DEF CreateDraftOrder
<1>3. new \in Draft
  BY <1>1, BillType DEF Draft
<1>4. /\ q \in Request /\ q.step = "mark" /\ q.applied = req[r].applied /\ q.group = g /\ q.ship = req[r].ship
      /\ q.draft = d
  BY <1>0 DEF Request, Steps
<1> HIDE DEF q
<1>5. /\ req' \in [Requests -> Request] /\ req'[r] = q /\ \A v \in Requests \ {r} : req'[v] = req[v]
  BY <1>0, <1>2, <1>4, Became
<1>6. /\ draft' \in [Drafts -> Draft] /\ draft'[d] = new /\ \A e \in Drafts \ {d} : draft'[e] = draft[e]
  BY <1>0, <1>2, <1>3 DEF TypeOK
<1>7. TypeOK'
  BY <1>0, <1>2, <1>5, <1>6 DEF TypeOK, tables, past
<1>8. \A e \in Drafts : draft[e].state # "none" => draft'[e] = draft[e]
  BY <1>2, <1>6
<1>9. \A v \in Requests \ {r} : Knowing(req[v])'
  BY <1>2, <1>5, <1>8 DEF BillInv, Known, Knowing, Repricing, tables
<1>10. Knowing(req[r])'
  BY <1>0, <1>1, <1>4, <1>5, <1>6 DEF Knowing, Repricing
<1>11. Known'
  <2>1. RowsKnow'
    BY <1>2, <1>8 DEF BillInv, Known, RowsKnow, tables
  <2>2. DraftsKnow'
    BY <1>1, <1>2, <1>6 DEF BillInv, Known, DraftsKnow
  <2> QED
    BY <1>9, <1>10, <2>1, <2>2 DEF Known
<1>12. Applied' = Applied /\ UNCHANGED <<shipment, overlap, crossed, glitches>>
  BY <1>2 DEF Applied, tables, past
<1>13. InTurn'
  <2> SUFFICES ASSUME ~ overlap PROVE (Alone /\ PrepaidWithinPool /\ \A v \in Requests : Keeping(req[v]))'
    BY <1>12 DEF InTurn
  <2>1. Alone /\ PrepaidWithinPool /\ \A v \in Requests : Keeping(req[v])
    BY DEF BillInv, InTurn
  <2>2. Alone'
    BY <1>0, <1>5, <2>1 DEF Alone, ReqAt
  <2>3. PrepaidWithinPool'
    BY <1>12, <2>1 DEF PrepaidWithinPool, Total, Groups
  <2>4. Keeping(req[r])'
    BY <1>0, <1>4, <1>5, <1>12, <2>1 DEF Keeping, Total, Groups
  <2>5. \A v \in Requests \ {r} : Keeping(req[v])'
    BY <1>5, <1>12, <2>1 DEF Keeping, Total, Groups
  <2> QED
    BY <2>2, <2>3, <2>4, <2>5
<1>14. Exact'
  <2> SUFFICES ASSUME Calm PROVE (/\ \A v \in Requests : Carrying(req[v])
                                  /\ \A h \in Groups : shipment[h].sent /\ ~ Rewritten(h) => Matches(h))'
    BY <1>12 DEF Exact, Calm
  <2>1. /\ \A v \in Requests : Carrying(req[v])
        /\ \A h \in Groups : shipment[h].sent /\ ~ Rewritten(h) => Matches(h)
    BY DEF BillInv, Exact
  <2>2. Carrying(req[r])'
    BY <1>0, <1>4, <1>5, <1>6, <1>12, <2>1 DEF Carrying, Repricing, Rewrote, Bill
  <2>3. \A v \in Requests \ {r} : req[v].step = "idle"
    BY <1>0 DEF BillInv, InTurn, Alone, ReqAt, Calm
  <2>4. \A v \in Requests \ {r} : Carrying(req[v])'
    BY <1>5, <2>3 DEF Carrying, Repricing, Rewrote
  <2>5. \A h \in Groups : ~ Rewritten(h)
    BY <1>0, <2>3 DEF Rewritten, Rewrote
  <2>6. \A h \in Groups : shipment[h].sent => Matches(h)'
    BY <1>8, <1>12, <2>1, <2>5 DEF Matches, Bill, BillInv, Known, RowsKnow
  <2> QED
    BY <1>12, <2>2, <2>4, <2>6
<1> QED
  BY <1>7, <1>11, <1>13, <1>14 DEF BillInv

(* A row takes a share that fits beside the shares of the others.           *)
LEMMA ShareReplaced ==
  ASSUME TypeOK, TypeOK', NEW g \in Groups, \A h \in Groups \ {g} : shipment'[h] = shipment[h]
  PROVE  /\ Total(Applied, Groups)' = shipment'[g].applied + Total(Applied, Groups \ {g})
         /\ Total(Applied, Groups \ {g})' = Total(Applied, Groups \ {g})
         /\ Total(Applied, Groups) = shipment[g].applied + Total(Applied, Groups \ {g})
<1>1. \A h \in Groups : Applied[h] = shipment[h].applied /\ Applied[h] \in Nat
  BY SharesType, MoneyAssumption
<1>2. \A h \in Groups : Applied'[h] = shipment'[h].applied /\ Applied'[h] \in Nat
  <2>1. \A h \in Groups : shipment'[h] \in ShipmentRow
    BY DEF TypeOK
  <2> QED
    BY <2>1, MoneyAssumption DEF Applied, ShipmentRow
<1>3. \A h \in Groups \ {g} : Applied'[h] = Applied[h]
  BY <1>1, <1>2
<1>4. Total(Applied', Groups \ {g}) = Total(Applied, Groups \ {g})
  BY <1>3, TotalCongruence
<1>5. Total(Applied, Groups) = Applied[g] + Total(Applied, Groups \ {g})
  BY <1>1, GroupsFinite, TotalSplit
<1>6. Total(Applied', Groups) = Applied'[g] + Total(Applied', Groups \ {g})
  BY <1>2, GroupsFinite, TotalSplit
<1>7. /\ Total(Applied, Groups)' = Total(Applied', Groups)
      /\ Total(Applied, Groups \ {g})' = Total(Applied', Groups \ {g})
  BY DEF Total, Groups
<1> QED
  BY <1>1, <1>2, <1>4, <1>5, <1>6, <1>7

(* The link is given out, and the share recorded.                           *)
LEMMA MarkKeeps ==
  ASSUME BillInv, NEW r \in Requests, MarkInvoiceSent(r)
  PROVE  BillInv'
<1> DEFINE g == req[r].group
           d == req[r].draft
           saved == [shipment[g] EXCEPT !.sent = TRUE, !.draft = d, !.applied = req[r].applied]
           q == [req[r] EXCEPT !.step = "await"]
<1>0. TypeOK /\ req[r] \in Request /\ req[r].step = "mark" /\ Knowing(req[r])
  BY DEF BillInv, TypeOK, MarkInvoiceSent, ReqAt, Known
<1>1. g \in Groups /\ d \in Drafts /\ draft[d].state # "none" /\ draft[d].group = g
  BY <1>0 DEF Knowing
<1>2. /\ ReqBecome(r, q) /\ shipment' = [shipment EXCEPT ![g] = saved]
      /\ draft' = [draft EXCEPT ![d].given = TRUE]
      /\ UNCHANGED <<line, settled, order, hook, overlap, crossed, glitches>>
  BY DEF MarkInvoiceSent, ReqGoto, past
<1>3. /\ saved \in ShipmentRow /\ saved.sent /\ saved.draft = d /\ saved.applied = req[r].applied
      /\ saved.ship = shipment[g].ship /\ saved.paid = shipment[g].paid
  <2>1. shipment[g] \in ShipmentRow /\ req[r].applied \in 0 .. Pool
    BY <1>0, <1>1 DEF TypeOK, Request
  <2> QED
    BY <1>1, <2>1 DEF ShipmentRow
<1>4. q \in Request /\ q.step = "await" /\ q.group = g
  BY <1>0 DEF Request, Steps
<1> HIDE DEF q, saved
<1>5. /\ req' \in [Requests -> Request] /\ req'[r] = q /\ \A v \in Requests \ {r} : req'[v] = req[v]
  BY <1>0, <1>2, <1>4, Became
<1>6. /\ shipment' \in [Groups -> ShipmentRow] /\ shipment'[g] = saved /\ \A h \in Groups \ {g} : shipment'[h] = shipment[h]
  BY <1>0, <1>1, <1>2, <1>3 DEF TypeOK
<1>7. /\ draft' \in [Drafts -> Draft]
      /\ \A e \in Drafts : /\ draft'[e].state = draft[e].state /\ draft'[e].group = draft[e].group
                           /\ draft'[e].amount = draft[e].amount
  <2>1. \A e \in Drafts : draft[e] \in Draft
    BY <1>0 DEF TypeOK
  <2>2. [draft[d] EXCEPT !.given = TRUE] \in Draft
    BY <1>1, <2>1 DEF Draft
  <2> QED
    BY <1>0, <1>1, <1>2, <2>1, <2>2 DEF TypeOK, Draft
<1>8. TypeOK'
  BY <1>0, <1>2, <1>5, <1>6, <1>7 DEF TypeOK
<1>9. \A v \in Requests \ {r} : Knowing(req[v])'
  BY <1>3, <1>5, <1>6, <1>7 DEF BillInv, Known, Knowing, Repricing
<1>10. Known'
  <2>1. RowsKnow'
    BY <1>1, <1>3, <1>6, <1>7 DEF BillInv, Known, RowsKnow
  <2>2. DraftsKnow'
    BY <1>2, <1>7 DEF BillInv, Known, DraftsKnow
  <2>3. Knowing(req[r])'
    BY <1>1, <1>4, <1>5 DEF Knowing, Repricing
  <2> QED
    BY <1>9, <2>1, <2>2, <2>3 DEF Known
<1>11. ~ overlap => \A v \in Requests \ {r} : req[v].step = "idle"
  BY <1>0 DEF BillInv, InTurn, Alone, ReqAt
<1>12. InTurn'
  <2> SUFFICES ASSUME ~ overlap PROVE (Alone /\ PrepaidWithinPool /\ \A v \in Requests : Keeping(req[v]))'
    BY <1>2 DEF InTurn
  <2>1. Alone'
    BY <1>5, <1>11 DEF Alone, ReqAt
  <2>2. req[r].applied + Total(Applied, Groups) <= Pool
    BY <1>0 DEF BillInv, InTurn, Keeping
  <2>3. /\ Total(Applied, Groups)' = req[r].applied + Total(Applied, Groups \ {g})
        /\ Total(Applied, Groups) = shipment[g].applied + Total(Applied, Groups \ {g})
    BY <1>0, <1>1, <1>3, <1>6, <1>8, ShareReplaced
  <2>4. Total(Applied, Groups \ {g}) \in Nat /\ shipment[g].applied \in Nat /\ req[r].applied \in Nat /\ Pool \in Nat
    BY <1>0, <1>1, SharesType, MoneyAssumption DEF Request
  <2>5. PrepaidWithinPool'
    <3>1. Total(Applied, Groups)' <= Pool
      BY <2>2, <2>3, <2>4
    <3> QED
      BY <3>1 DEF PrepaidWithinPool
  <2>6. \A v \in Requests : Keeping(req[v])'
    BY <1>4, <1>5, <1>11 DEF Keeping
  <2> QED
    BY <2>1, <2>5, <2>6
<1>13. Exact'
  <2> SUFFICES ASSUME Calm PROVE (/\ \A v \in Requests : Carrying(req[v])
                                  /\ \A h \in Groups : shipment[h].sent /\ ~ Rewritten(h) => Matches(h))'
    BY <1>2 DEF Exact, Calm
  <2>1. /\ Carrying(req[r])
        /\ \A h \in Groups : shipment[h].sent /\ ~ Rewritten(h) => Matches(h)
    BY DEF BillInv, Exact
  <2>2. \A v \in Requests : Carrying(req[v])'
    BY <1>4, <1>5, <1>11 DEF Carrying, Repricing, Rewrote, Calm
  <2>3. ASSUME NEW h \in Groups, h = g PROVE Matches(h)'
    <3>1. draft[d].amount = Bill(g, shipment[g].ship, req[r].applied)
      BY <1>0, <2>1 DEF Carrying
    <3> QED
      BY <1>1, <1>3, <1>6, <1>7, <2>3, <3>1 DEF Matches, Bill
  <2>4. \A h \in Groups : ~ Rewritten(h)
    BY <1>0, <1>11 DEF Rewritten, Rewrote, Calm
  <2>5. \A h \in Groups \ {g} : shipment[h].sent => Matches(h)'
    BY <1>6, <1>7, <2>1, <2>4 DEF Matches, Bill, BillInv, Known, RowsKnow
  <2>6. ASSUME NEW h \in Groups, shipment'[h].sent PROVE Matches(h)'
    <3>1. CASE h = g
      BY <2>3, <3>1
    <3>2. CASE h # g
      BY <1>6, <2>5, <2>6, <3>2
    <3> QED
      BY <3>1, <3>2
  <2> QED
    BY <2>2, <2>6
<1> QED
  BY <1>8, <1>10, <1>12, <1>13 DEF BillInv

(* The draft is rewritten to the share just taken; one that is paid refuses.*)
LEMMA RewriteKeeps ==
  ASSUME BillInv, NEW r \in Requests, RewriteDraft(r)
  PROVE  BillInv'
<1> DEFINE g == req[r].group
           d == req[r].draft
           b == Bill(g, req[r].ship, req[r].applied)
           s == IF req[r].pack THEN "pack" ELSE "save"
           q == [req[r] EXCEPT !.step = s]
<1>0. TypeOK /\ req[r] \in Request /\ req[r].step = "rewrite" /\ Knowing(req[r])
  BY DEF BillInv, TypeOK, RewriteDraft, ReqAt, Known
<1>1. /\ g \in Groups /\ d \in Drafts /\ req[r].sent /\ shipment[g].sent
      /\ req[r].ship \in Nat /\ req[r].applied \in Nat
  BY <1>0, MoneyAssumption DEF Knowing, Repricing, Request, Prices
<1>2. UNCHANGED <<tables, hook, past>> /\ ReqAt(r, "rewrite")
  BY DEF RewriteDraft
<1>3. CASE draft[d].state # "open"
  <2>1. ReqFinish(r) /\ UNCHANGED draft
    BY <1>3 DEF RewriteDraft
  <2>2. ~ ReqAt(r, "idle") /\ ~ Rewrote(req[r])
    BY <1>0 DEF ReqAt, Rewrote
  <2>3. /\ UNCHANGED <<shipment, draft, hook, overlap>> /\ crossed' = crossed /\ line' \in [Lines -> LineRow]
        /\ settled' \subseteq Lines /\ order' \in {"open", "waiting", "in_progress"}
        /\ glitches' \in 0 .. MaxGlitches /\ glitches' >= glitches
    BY <1>0, <1>2, <2>1, BoundsAssumption DEF tables, past, TypeOK
  <2> QED
    BY <2>1, <2>2, <2>3, FinishKeeps
<1>4. CASE draft[d].state = "open"
  <2>1. ReqBecome(r, q) /\ draft' = [draft EXCEPT ![d].amount = b]
    BY <1>4 DEF RewriteDraft, ReqGoto
  <2>2. b \in Nat
    BY <1>1, BillType
  <2>3. s \in {"pack", "save"}
    OBVIOUS
  <2> HIDE DEF s, b
  <2>4. /\ q \in Request /\ q.step \in {"pack", "save"} /\ q.group = g /\ q.draft = d /\ q.sent
        /\ q.ship = req[r].ship /\ q.applied = req[r].applied
    BY <1>0, <1>1, <2>3 DEF Request, Steps
  <2> HIDE DEF q
  <2>5. /\ req' \in [Requests -> Request] /\ req'[r] = q /\ \A v \in Requests \ {r} : req'[v] = req[v]
    BY <1>0, <2>1, <2>4, Became
  <2>6. /\ draft' \in [Drafts -> Draft] /\ draft'[d].amount = b
        /\ \A e \in Drafts : draft'[e].state = draft[e].state /\ draft'[e].group = draft[e].group
        /\ \A e \in Drafts \ {d} : draft'[e] = draft[e]
    <3>1. \A e \in Drafts : draft[e] \in Draft
      BY <1>0 DEF TypeOK
    <3>2. [draft[d] EXCEPT !.amount = b] \in Draft
      BY <1>1, <2>2, <3>1 DEF Draft
    <3> QED
      BY <1>0, <1>1, <2>1, <3>1, <3>2 DEF TypeOK, Draft
  <2>7. TypeOK'
    BY <1>0, <1>2, <2>5, <2>6 DEF TypeOK, tables, past
  <2>8. Applied' = Applied /\ UNCHANGED <<shipment, hook, overlap, crossed, glitches>>
    BY <1>2 DEF Applied, tables, past
  <2>9. Known'
    <3>1. \A v \in Requests \ {r} : Knowing(req[v])'
      BY <2>5, <2>6, <2>8 DEF BillInv, Known, Knowing, Repricing
    <3>2. Knowing(req[r])'
      BY <1>1, <2>4, <2>5, <2>8 DEF Knowing, Repricing
    <3>3. RowsKnow'
      BY <2>6, <2>8 DEF BillInv, Known, RowsKnow
    <3>4. DraftsKnow'
      BY <2>6, <2>8 DEF BillInv, Known, DraftsKnow
    <3> QED
      BY <3>1, <3>2, <3>3, <3>4 DEF Known
  <2>10. ~ overlap => \A v \in Requests \ {r} : req[v].step = "idle"
    BY <1>0 DEF BillInv, InTurn, Alone, ReqAt
  <2>11. InTurn'
    <3> SUFFICES ASSUME ~ overlap PROVE (Alone /\ PrepaidWithinPool /\ \A v \in Requests : Keeping(req[v]))'
      BY <2>8 DEF InTurn
    <3>1. Alone'
      BY <2>5, <2>10 DEF Alone, ReqAt
    <3>2. PrepaidWithinPool'
      BY <2>8 DEF BillInv, InTurn, PrepaidWithinPool, Total, Groups
    <3>3. Keeping(req[r])'
      <4>1. Keeping(req[r])
        BY DEF BillInv, InTurn
      <4> QED
        BY <1>0, <1>1, <2>4, <2>5, <2>8, <4>1 DEF Keeping, Total, Groups
    <3>4. \A v \in Requests \ {r} : Keeping(req[v])'
      BY <2>5, <2>10 DEF Keeping
    <3> QED
      BY <3>1, <3>2, <3>3, <3>4
  <2>12. Exact'
    <3> SUFFICES ASSUME Calm PROVE (/\ \A v \in Requests : Carrying(req[v])
                                    /\ \A h \in Groups : shipment[h].sent /\ ~ Rewritten(h) => Matches(h))'
      BY <2>8 DEF Exact, Calm
    <3>1. /\ Carrying(req[r]) /\ shipment[g].draft = d /\ ~ shipment[g].paid
          /\ \A h \in Groups : shipment[h].sent /\ ~ Rewritten(h) => Matches(h)
      BY <1>0, <1>1 DEF BillInv, Exact, Carrying, Repricing
    <3>2. Carrying(req[r])'
      BY <1>1, <2>4, <2>5, <2>6, <2>8, <3>1 DEF Carrying, Repricing, Rewrote, Bill, b
    <3>3. \A v \in Requests \ {r} : Carrying(req[v])'
      BY <2>5, <2>10 DEF Carrying, Repricing, Rewrote, Calm
    <3>4. \A h \in Groups : ~ Rewritten(h)
      BY <1>0, <2>10 DEF Rewritten, Rewrote, Calm
    <3>5. \A h \in Groups : h = g => Rewritten(h)'
      BY <2>4, <2>5 DEF Rewritten, Rewrote
    <3>6. ASSUME NEW h \in Groups \ {g}, shipment[h].sent PROVE Matches(h)'
      <4>1. shipment[h].draft \in Drafts /\ draft[shipment[h].draft].group = h /\ draft[d].group = g
        BY <1>1, <3>1, <3>6 DEF BillInv, Known, RowsKnow
      <4>2. draft'[shipment[h].draft] = draft[shipment[h].draft]
        BY <2>6, <4>1
      <4>3. Matches(h)
        BY <3>1, <3>4, <3>6
      <4> QED
        BY <2>8, <4>2, <4>3 DEF Matches, Bill
    <3>7. ASSUME NEW h \in Groups, shipment'[h].sent, ~ Rewritten(h)' PROVE Matches(h)'
      BY <2>8, <3>5, <3>6, <3>7
    <3>8. \A v \in Requests : Carrying(req[v])'
      BY <3>2, <3>3
    <3> QED
      BY <3>7, <3>8
  <2> QED
    BY <2>7, <2>9, <2>11, <2>12 DEF BillInv
<1> QED
  BY <1>3, <1>4

(* The packing of a row is saved.                                           *)
LEMMA UpsertKeeps ==
  ASSUME BillInv, NEW r \in Requests, UpsertShipment(r)
  PROVE  BillInv'
<1> DEFINE g == req[r].group
           saved == [shipment[g] EXCEPT !.exists = TRUE, !.packed = TRUE]
           q == [req[r] EXCEPT !.step = "save"]
<1>0. TypeOK /\ req[r] \in Request /\ req[r].step = "pack" /\ Knowing(req[r])
  BY DEF BillInv, TypeOK, UpsertShipment, ReqAt, Known
<1>1. g \in Groups
  BY <1>0 DEF Knowing
<1>2. /\ ReqBecome(r, q) /\ shipment' = [shipment EXCEPT ![g] = saved]
      /\ UNCHANGED <<line, settled, order, draft, hook, overlap, crossed, glitches>>
  BY DEF UpsertShipment, ReqGoto, past
<1>3. /\ saved \in ShipmentRow /\ saved.sent = shipment[g].sent /\ saved.draft = shipment[g].draft
      /\ saved.applied = shipment[g].applied /\ saved.ship = shipment[g].ship /\ saved.paid = shipment[g].paid
  <2>1. shipment[g] \in ShipmentRow
    BY <1>0, <1>1 DEF TypeOK
  <2> QED
    BY <2>1 DEF ShipmentRow
<1>4. /\ q \in Request /\ q.step = "save" /\ q.group = g /\ q.draft = req[r].draft /\ q.sent = req[r].sent
      /\ q.ship = req[r].ship /\ q.applied = req[r].applied
  BY <1>0 DEF Request, Steps
<1> HIDE DEF q, saved
<1>5. /\ req' \in [Requests -> Request] /\ req'[r] = q /\ \A v \in Requests \ {r} : req'[v] = req[v]
  BY <1>0, <1>2, <1>4, Became
<1>6. /\ shipment' \in [Groups -> ShipmentRow]
      /\ \A h \in Groups : /\ shipment'[h].sent = shipment[h].sent /\ shipment'[h].draft = shipment[h].draft
                           /\ shipment'[h].applied = shipment[h].applied /\ shipment'[h].ship = shipment[h].ship
                           /\ shipment'[h].paid = shipment[h].paid
  BY <1>0, <1>1, <1>2, <1>3 DEF TypeOK
<1>7. TypeOK'
  BY <1>0, <1>2, <1>5, <1>6 DEF TypeOK
<1>8. Applied' = Applied
  BY <1>6 DEF Applied
<1>9. Known'
  <2>1. \A v \in Requests \ {r} : Knowing(req[v])'
    BY <1>2, <1>5, <1>6 DEF BillInv, Known, Knowing, Repricing
  <2>2. Knowing(req[r])'
    BY <1>0, <1>1, <1>4, <1>5, <1>6 DEF Knowing, Repricing
  <2>3. RowsKnow'
    BY <1>2, <1>6 DEF BillInv, Known, RowsKnow
  <2>4. DraftsKnow'
    BY <1>2 DEF BillInv, Known, DraftsKnow
  <2> QED
    BY <2>1, <2>2, <2>3, <2>4 DEF Known
<1>10. ~ overlap => \A v \in Requests \ {r} : req[v].step = "idle"
  BY <1>0 DEF BillInv, InTurn, Alone, ReqAt
<1>11. InTurn'
  <2> SUFFICES ASSUME ~ overlap PROVE (Alone /\ PrepaidWithinPool /\ \A v \in Requests : Keeping(req[v]))'
    BY <1>2 DEF InTurn
  <2>1. Alone'
    BY <1>5, <1>10 DEF Alone, ReqAt
  <2>2. PrepaidWithinPool'
    BY <1>8 DEF BillInv, InTurn, PrepaidWithinPool, Total, Groups
  <2>3. Keeping(req[r])'
    <3>1. Keeping(req[r])
      BY DEF BillInv, InTurn
    <3> QED
      BY <1>0, <1>1, <1>4, <1>5, <1>6, <1>8, <3>1 DEF Keeping, Total, Groups
  <2>4. \A v \in Requests \ {r} : Keeping(req[v])'
    BY <1>5, <1>10 DEF Keeping
  <2> QED
    BY <2>1, <2>2, <2>3, <2>4
<1>12. Exact'
  <2> SUFFICES ASSUME Calm PROVE (/\ \A v \in Requests : Carrying(req[v])
                                  /\ \A h \in Groups : shipment[h].sent /\ ~ Rewritten(h) => Matches(h))'
    BY <1>2 DEF Exact, Calm
  <2>1. /\ Carrying(req[r])
        /\ \A h \in Groups : shipment[h].sent /\ ~ Rewritten(h) => Matches(h)
    BY DEF BillInv, Exact
  <2>2. Carrying(req[r])'
    BY <1>0, <1>1, <1>2, <1>4, <1>5, <1>6, <2>1 DEF Carrying, Repricing, Rewrote, Bill
  <2>3. \A v \in Requests \ {r} : Carrying(req[v])'
    BY <1>5, <1>10 DEF Carrying, Repricing, Rewrote, Calm
  <2>4. \A h \in Groups : Rewritten(h) => Rewritten(h)'
    BY <1>0, <1>4, <1>5, <1>10 DEF Rewritten, Rewrote, Calm
  <2>5. \A h \in Groups : Matches(h)' <=> Matches(h)
    BY <1>2, <1>6 DEF Matches, Bill
  <2> QED
    BY <1>6, <2>1, <2>2, <2>3, <2>4, <2>5
<1> QED
  BY <1>7, <1>9, <1>11, <1>12 DEF BillInv

(* The price is saved, and with it the share the draft was rewritten to.    *)
LEMMA SaveKeeps ==
  ASSUME BillInv, NEW r \in Requests, SaveShipping(r)
  PROVE  BillInv'
<1> DEFINE g == req[r].group
           a == IF req[r].sent THEN req[r].applied ELSE shipment[g].applied
           saved == [shipment[g] EXCEPT !.ship = req[r].ship, !.applied = a]
           q == [req[r] EXCEPT !.step = "steps"]
<1>0. TypeOK /\ req[r] \in Request /\ req[r].step = "save" /\ Knowing(req[r])
  BY DEF BillInv, TypeOK, SaveShipping, ReqAt, Known
<1>1. /\ g \in Groups /\ shipment[g] \in ShipmentRow
      /\ (req[r].sent => shipment[g].sent /\ req[r].draft \in Drafts)
  BY <1>0 DEF Knowing, Repricing, TypeOK
<1>2. UNCHANGED <<line, settled, order, draft, hook, overlap, crossed, glitches>> /\ ReqAt(r, "save")
  BY DEF SaveShipping, past
<1>3. ~ overlap => \A v \in Requests \ {r} : req[v].step = "idle"
  BY <1>0 DEF BillInv, InTurn, Alone, ReqAt
<1>4. CASE req[r].sent /\ shipment[g].paid
  <2>1. ReqFinish(r) /\ UNCHANGED shipment
    BY <1>4 DEF SaveShipping
  <2>2. ~ Calm
    BY <1>0, <1>4 DEF BillInv, Exact, Carrying, Repricing
  <2>3. ~ ReqAt(r, "idle") /\ ~ Calm'
    BY <1>0, <1>2, <2>2 DEF ReqAt, Calm
  <2>4. /\ UNCHANGED <<shipment, draft, hook, overlap>> /\ crossed' = crossed /\ line' \in [Lines -> LineRow]
        /\ settled' \subseteq Lines /\ order' \in {"open", "waiting", "in_progress"}
        /\ glitches' \in 0 .. MaxGlitches /\ glitches' >= glitches
    BY <1>0, <1>2, <2>1, BoundsAssumption DEF TypeOK
  <2> QED
    BY <2>1, <2>3, <2>4, FinishKeeps
<1>5. CASE ~ (req[r].sent /\ shipment[g].paid)
  <2>1. ReqBecome(r, q) /\ shipment' = [shipment EXCEPT ![g] = saved]
    BY <1>5 DEF SaveShipping, ReqGoto
  <2>2. a \in 0 .. Pool /\ (req[r].sent => a = req[r].applied) /\ (~ req[r].sent => a = shipment[g].applied)
    BY <1>0, <1>1 DEF Request, ShipmentRow
  <2> HIDE DEF a
  <2>3. /\ saved \in ShipmentRow /\ saved.sent = shipment[g].sent /\ saved.draft = shipment[g].draft
        /\ saved.applied = a /\ saved.ship = req[r].ship /\ saved.paid = shipment[g].paid
    BY <1>0, <1>1, <2>2 DEF ShipmentRow, Request
  <2>4. q \in Request /\ q.step = "steps" /\ q.group = g
    BY <1>0 DEF Request, Steps
  <2> HIDE DEF q, saved
  <2>5. /\ req' \in [Requests -> Request] /\ req'[r] = q /\ \A v \in Requests \ {r} : req'[v] = req[v]
    BY <1>0, <2>1, <2>4, Became
  <2>6. /\ shipment' \in [Groups -> ShipmentRow] /\ shipment'[g] = saved /\ \A h \in Groups \ {g} : shipment'[h] = shipment[h]
        /\ \A h \in Groups : shipment'[h].sent = shipment[h].sent /\ shipment'[h].draft = shipment[h].draft
    BY <1>0, <1>1, <2>1, <2>3 DEF TypeOK
  <2>7. TypeOK'
    BY <1>0, <1>2, <2>5, <2>6 DEF TypeOK
  <2>8. Known'
    <3>1. \A v \in Requests \ {r} : Knowing(req[v])'
      BY <1>2, <2>5, <2>6 DEF BillInv, Known, Knowing, Repricing
    <3>2. Knowing(req[r])'
      BY <1>1, <2>4, <2>5 DEF Knowing, Repricing
    <3>3. RowsKnow'
      <4>1. ~ shipment[g].sent => a = 0
        BY <1>1, <2>2 DEF BillInv, Known, RowsKnow
      <4> QED
        BY <1>2, <2>3, <2>6, <4>1 DEF BillInv, Known, RowsKnow
    <3>4. DraftsKnow'
      BY <1>2 DEF BillInv, Known, DraftsKnow
    <3> QED
      BY <3>1, <3>2, <3>3, <3>4 DEF Known
  <2>9. InTurn'
    <3> SUFFICES ASSUME ~ overlap PROVE (Alone /\ PrepaidWithinPool /\ \A v \in Requests : Keeping(req[v]))'
      BY <1>2 DEF InTurn
    <3>1. Alone'
      BY <1>3, <2>5 DEF Alone, ReqAt
    <3>2. /\ Total(Applied, Groups)' = a + Total(Applied, Groups \ {g})
          /\ Total(Applied, Groups) = shipment[g].applied + Total(Applied, Groups \ {g})
      BY <1>0, <1>1, <2>3, <2>6, <2>7, ShareReplaced
    <3>3. req[r].sent => req[r].applied + Total(Applied, Groups \ {g}) <= Pool
      BY <1>0 DEF BillInv, InTurn, Keeping
    <3>4. Total(Applied, Groups) <= Pool
      BY DEF BillInv, InTurn, PrepaidWithinPool
    <3>5. Total(Applied, Groups)' <= Pool
      BY <2>2, <3>2, <3>3, <3>4
    <3>6. \A v \in Requests : Keeping(req[v])'
      BY <1>3, <2>4, <2>5 DEF Keeping
    <3> QED
      BY <3>1, <3>5, <3>6 DEF PrepaidWithinPool
  <2>10. Exact'
    <3> SUFFICES ASSUME Calm PROVE (/\ \A v \in Requests : Carrying(req[v])
                                    /\ \A h \in Groups : shipment[h].sent /\ ~ Rewritten(h) => Matches(h))'
      BY <1>2 DEF Exact, Calm
    <3>1. /\ Carrying(req[r]) /\ (Keeping(req[r]))
          /\ \A h \in Groups : shipment[h].sent /\ ~ Rewritten(h) => Matches(h)
      BY DEF BillInv, Exact, InTurn, Calm
    <3>2. \A v \in Requests : Carrying(req[v])'
      BY <1>3, <2>4, <2>5 DEF Carrying, Repricing, Rewrote, Calm
    <3>3. ASSUME NEW h \in Groups, h = g, shipment[h].sent PROVE Matches(h)'
      <4>1. req[r].sent
        BY <1>0, <3>1, <3>3 DEF Keeping
      <4>2. draft[req[r].draft].amount = Bill(g, req[r].ship, req[r].applied) /\ req[r].draft = shipment[g].draft
        BY <1>0, <3>1, <4>1 DEF Carrying, Repricing, Rewrote
      <4>3. shipment'[h].ship = req[r].ship /\ shipment'[h].applied = req[r].applied /\ shipment'[h].draft = req[r].draft
        BY <2>2, <2>3, <2>6, <3>3, <4>1, <4>2
      <4> QED
        BY <1>2, <3>3, <4>2, <4>3 DEF Matches, Bill
    <3>4. \A h \in Groups \ {g} : ~ Rewritten(h)
      BY <1>3 DEF Rewritten, Rewrote, Calm
    <3>5. \A h \in Groups \ {g} : shipment[h].sent => Matches(h)'
      BY <1>2, <2>6, <3>1, <3>4 DEF Matches, Bill
    <3>6. ASSUME NEW h \in Groups, shipment'[h].sent PROVE Matches(h)'
      <4>1. shipment[h].sent
        BY <2>6, <3>6
      <4>2. CASE h = g
        BY <3>3, <4>1, <4>2
      <4>3. CASE h # g
        BY <3>5, <4>1, <4>3
      <4> QED
        BY <4>2, <4>3
    <3> QED
      BY <3>2, <3>6
  <2> QED
    BY <2>7, <2>8, <2>9, <2>10 DEF BillInv
<1> QED
  BY <1>4, <1>5

(* A payment arrives, or is recorded on the row of its group: a request     *)
(* that is under way is then crossed.                                       *)
LEMMA PaymentMoves ==
  ASSUME BillInv, TypeOK', UNCHANGED <<req, overlap, glitches>>, DraftsKnow',
         crossed' = (crossed \/ \E v \in Requests : ~ ReqAt(v, "idle")),
         \A g \in Groups : /\ shipment'[g].sent = shipment[g].sent /\ shipment'[g].draft = shipment[g].draft
                           /\ shipment'[g].applied = shipment[g].applied /\ shipment'[g].ship = shipment[g].ship,
         \A e \in Drafts : /\ draft[e].state # "none" => draft'[e].state # "none"
                           /\ draft'[e].group = draft[e].group /\ draft'[e].amount = draft[e].amount
  PROVE  BillInv'
<1>1. Applied' = Applied
  BY DEF Applied
<1>2. \A v \in Requests : Knowing(req[v])' /\ (Keeping(req[v]) => Keeping(req[v])')
  <2>1. \A v \in Requests : Knowing(req[v])'
    BY DEF BillInv, Known, Knowing, Repricing
  <2>2. \A v \in Requests : Knowing(req[v]) /\ Keeping(req[v]) => Keeping(req[v])'
    BY <1>1 DEF Knowing, Keeping, Total, Groups
  <2> QED
    BY <2>1, <2>2 DEF BillInv, Known
<1>3. Known'
  BY <1>2 DEF BillInv, Known, RowsKnow
<1>4. InTurn'
  BY <1>1, <1>2 DEF BillInv, InTurn, Alone, ReqAt, PrepaidWithinPool, Total, Groups
<1>5. Exact'
  <2> SUFFICES ASSUME Calm' PROVE (/\ \A v \in Requests : Carrying(req[v])
                                   /\ \A h \in Groups : shipment[h].sent /\ ~ Rewritten(h) => Matches(h))'
    BY DEF Exact
  <2>1. Calm /\ \A v \in Requests : req[v].step = "idle"
    BY DEF Calm, ReqAt, BillInv, TypeOK
  <2>2. \A v \in Requests : Carrying(req[v])'
    BY <2>1 DEF Carrying, Repricing, Rewrote
  <2>3. \A h \in Groups : shipment[h].sent => Matches(h)
    BY <2>1 DEF BillInv, Exact, Rewritten, Rewrote
  <2>4. \A h \in Groups : shipment[h].sent => Matches(h)'
    BY <2>3 DEF Matches, Bill, BillInv, Known, RowsKnow
  <2> QED
    BY <2>2, <2>4
<1> QED
  BY <1>3, <1>4, <1>5 DEF BillInv

LEMMA PayKeeps ==
  ASSUME BillInv, NEW d \in Drafts, Pay(d)
  PROVE  BillInv'
<1>0. TypeOK /\ draft[d] \in Draft /\ hook[d] \in Hook
  BY DEF BillInv, TypeOK
<1>1. /\ draft[d].state = "open" /\ draft' = [draft EXCEPT ![d].state = "paid"]
      /\ hook' = [hook EXCEPT ![d].step = "paid"]
      /\ crossed' = (crossed \/ \E r \in Requests : ~ ReqAt(r, "idle"))
      /\ UNCHANGED <<tables, req, overlap, glitches>>
  BY DEF Pay
<1>2. [draft[d] EXCEPT !.state = "paid"] \in Draft /\ [hook[d] EXCEPT !.step = "paid"] \in Hook
  BY <1>0 DEF Draft, Hook
<1>3. TypeOK'
  <2>1. draft' \in [Drafts -> Draft] /\ hook' \in [Drafts -> Hook]
    BY <1>0, <1>1, <1>2 DEF TypeOK
  <2>2. crossed' \in BOOLEAN
    BY <1>0, <1>1 DEF TypeOK
  <2> QED
    BY <1>0, <1>1, <2>1, <2>2 DEF TypeOK, tables
<1>4. \A e \in Drafts : /\ draft[e].state # "none" => draft'[e].state # "none"
                        /\ draft'[e].group = draft[e].group /\ draft'[e].amount = draft[e].amount
  <2>1. \A e \in Drafts : draft[e] \in Draft
    BY <1>0 DEF TypeOK
  <2> QED
    BY <1>0, <1>1, <2>1 DEF TypeOK, Draft
<1>5. DraftsKnow'
  <2>1. DraftsKnow /\ draft'[d].state # "none"
    BY <1>1, <1>4 DEF BillInv, Known
  <2>2. \A e \in Drafts \ {d} : hook'[e] = hook[e] /\ draft'[e] = draft[e]
    BY <1>0, <1>1 DEF TypeOK
  <2> QED
    BY <1>1, <1>4, <2>1, <2>2 DEF DraftsKnow
<1> QED
  BY <1>1, <1>3, <1>4, <1>5, PaymentMoves DEF tables

LEMMA MarkPaidKeeps ==
  ASSUME BillInv, NEW d \in Drafts, MarkInvoicePaid(d)
  PROVE  BillInv'
<1>0. TypeOK /\ hook[d] \in Hook
  BY DEF BillInv, TypeOK
<1>1. /\ hook[d].step = "paid" /\ shipment' = [shipment EXCEPT ![draft[d].group].paid = TRUE]
      /\ hook' = [hook EXCEPT ![d].step = "cascade"]
      /\ crossed' = (crossed \/ \E r \in Requests : ~ ReqAt(r, "idle"))
      /\ UNCHANGED <<line, settled, order, draft, req, overlap, glitches>>
  BY DEF MarkInvoicePaid, HookAt, HookGoto, Crosses
<1>2. draft[d].group \in Groups
  BY <1>1 DEF BillInv, Known, DraftsKnow
<1>3. /\ shipment' \in [Groups -> ShipmentRow]
      /\ \A g \in Groups : /\ shipment'[g].sent = shipment[g].sent /\ shipment'[g].draft = shipment[g].draft
                           /\ shipment'[g].applied = shipment[g].applied /\ shipment'[g].ship = shipment[g].ship
  <2>1. \A g \in Groups : shipment[g] \in ShipmentRow /\ [shipment[g] EXCEPT !.paid = TRUE] \in ShipmentRow
    BY <1>0 DEF TypeOK, ShipmentRow
  <2> QED
    BY <1>0, <1>1, <1>2, <2>1 DEF TypeOK, ShipmentRow
<1>4. [hook[d] EXCEPT !.step = "cascade"] \in Hook
  BY <1>0 DEF Hook
<1>5. TypeOK'
  <2>1. hook' \in [Drafts -> Hook]
    BY <1>0, <1>1, <1>4 DEF TypeOK
  <2>2. crossed' \in BOOLEAN
    BY <1>0, <1>1 DEF TypeOK
  <2> QED
    BY <1>0, <1>1, <1>3, <2>1, <2>2 DEF TypeOK
<1>6. DraftsKnow'
  <2>1. DraftsKnow /\ \A e \in Drafts \ {d} : hook'[e] = hook[e]
    BY <1>0, <1>1 DEF BillInv, Known, TypeOK
  <2> QED
    BY <1>1, <2>1 DEF DraftsKnow
<1> QED
  BY <1>1, <1>3, <1>5, <1>6, PaymentMoves

(* The rest of the handling leaves rows and drafts alone.                   *)
LEMMA HandlerKeeps ==
  ASSUME BillInv, NEW d \in Drafts, NEW h \in Hook,
         hook[d].step # "none", hook' = [hook EXCEPT ![d] = h],
         line' \in [Lines -> LineRow], settled' \subseteq Lines, order' \in {"open", "waiting", "in_progress"},
         UNCHANGED <<shipment, draft, req, overlap>>,
         crossed' \in BOOLEAN, crossed => crossed', glitches' \in 0 .. MaxGlitches, glitches' >= glitches
  PROVE  BillInv'
<1>1. TypeOK
  BY DEF BillInv
<1>2. hook' \in [Drafts -> Hook] /\ hook' = [hook EXCEPT ![d] = hook'[d]]
  BY <1>1 DEF TypeOK
<1>3. TypeOK'
  BY <1>1, <1>2 DEF TypeOK
<1> QED
  BY <1>2, <1>3, HandlerMoves

LEMMA HandlingKeeps ==
  ASSUME BillInv, NEW d \in Drafts,
         ReadPaidGroups(d) \/ SettleLines(d) \/ CheckSettlements(d) \/ AdvanceOrder(d) \/ HookFails(d) \/ Redeliver(d)
  PROVE  BillInv'
<1>0. TypeOK /\ hook[d] \in Hook /\ glitches \in Nat
  BY BoundsAssumption DEF BillInv, TypeOK
<1>1. \A s \in {"advance", "done"} : [hook[d] EXCEPT !.step = s] \in Hook
  BY <1>0 DEF Hook
<1>2. \A s \in {"check", "done", "paid"} : [step |-> s, lines |-> {}] \in Hook
  BY DEF Hook
<1>3. [status |-> "received", step |-> 4] \in LineRow
  BY DEF LineRow
<1>4. CASE ReadPaidGroups(d)
  <2> DEFINE h == [step |-> "write", lines |-> {l \in Lines : CoveredByPaid(l)}]
  <2>1. h \in Hook
    BY DEF Hook
  <2>2. /\ hook[d].step # "none" /\ hook' = [hook EXCEPT ![d] = h]
        /\ UNCHANGED <<tables, draft, req, overlap, crossed, glitches>>
    BY <1>4 DEF ReadPaidGroups, HookAt
  <2> HIDE DEF h
  <2>3. /\ line' \in [Lines -> LineRow] /\ settled' \subseteq Lines /\ order' \in {"open", "waiting", "in_progress"}
        /\ crossed' \in BOOLEAN /\ (crossed => crossed') /\ glitches' \in 0 .. MaxGlitches /\ glitches' >= glitches
    BY <1>0, <2>2 DEF TypeOK, tables
  <2> QED
    BY <2>1, <2>2, <2>3, HandlerKeeps DEF tables
<1>5. CASE SettleLines(d)
  <2> DEFINE h == [step |-> "check", lines |-> {}]
  <2>1. /\ hook[d].step # "none" /\ hook' = [hook EXCEPT ![d] = h]
        /\ UNCHANGED <<shipment, order, draft, req, overlap, glitches>>
        /\ crossed' = (crossed \/ \E r \in Requests : ~ ReqAt(r, "idle"))
    BY <1>5 DEF SettleLines, HookAt, Crosses
  <2>2. hook[d].lines \subseteq Lines /\ settled' = settled \cup hook[d].lines
    BY <1>0, <1>5 DEF Hook, SettleLines
  <2>3. settled' \subseteq Lines
    BY <1>0, <2>2 DEF TypeOK
  <2>4. line' \in [Lines -> LineRow]
    BY <1>0, <1>3, <1>5 DEF SettleLines, TypeOK
  <2> HIDE DEF h
  <2>5. crossed' \in BOOLEAN /\ (crossed => crossed')
    BY <1>0, <2>1 DEF TypeOK
  <2>6. order' \in {"open", "waiting", "in_progress"} /\ glitches' \in 0 .. MaxGlitches /\ glitches' >= glitches
    BY <1>0, <2>1 DEF TypeOK
  <2>7. h \in Hook
    BY <1>2 DEF h
  <2> QED
    BY <2>1, <2>3, <2>4, <2>5, <2>6, <2>7, HandlerKeeps
<1>6. CASE CheckSettlements(d)
  <2> DEFINE s == IF settled = Lines THEN "advance" ELSE "done"
             h == [hook[d] EXCEPT !.step = s]
  <2>1. /\ hook[d].step # "none" /\ hook' = [hook EXCEPT ![d] = h]
        /\ UNCHANGED <<tables, draft, req, past>>
    BY <1>0, <1>6 DEF CheckSettlements, HookAt, HookGoto, TypeOK
  <2>2. s \in {"advance", "done"}
    OBVIOUS
  <2>3. h \in Hook
    BY <1>1, <2>2
  <2> HIDE DEF h
  <2>4. /\ line' \in [Lines -> LineRow] /\ settled' \subseteq Lines /\ order' \in {"open", "waiting", "in_progress"}
        /\ crossed' \in BOOLEAN /\ (crossed => crossed') /\ glitches' \in 0 .. MaxGlitches /\ glitches' >= glitches
    BY <1>0, <2>1 DEF TypeOK, tables, past
  <2> QED
    BY <2>1, <2>3, <2>4, HandlerKeeps DEF tables, past
<1>7. CASE AdvanceOrder(d)
  <2> DEFINE h == [hook[d] EXCEPT !.step = "done"]
  <2>1. /\ hook[d].step # "none" /\ hook' = [hook EXCEPT ![d] = h]
        /\ UNCHANGED <<shipment, settled, draft, req, overlap, glitches>> /\ order' = "in_progress"
        /\ crossed' = (crossed \/ \E r \in Requests : ~ ReqAt(r, "idle"))
    BY <1>0, <1>7 DEF AdvanceOrder, HookAt, HookGoto, Crosses, TypeOK
  <2>2. h \in Hook
    BY <1>1
  <2> HIDE DEF h
  <2>3. line' \in [Lines -> LineRow]
    BY <1>3, <1>7 DEF AdvanceOrder
  <2>4. crossed' \in BOOLEAN /\ (crossed => crossed')
    BY <1>0, <2>1 DEF TypeOK
  <2>5. settled' \subseteq Lines /\ glitches' \in 0 .. MaxGlitches /\ glitches' >= glitches
    BY <1>0, <2>1 DEF TypeOK
  <2> QED
    BY <2>1, <2>2, <2>3, <2>4, <2>5, HandlerKeeps
<1>8. CASE HookFails(d) \/ Redeliver(d)
  <2>1. PICK s \in {"done", "paid"} : hook' = [hook EXCEPT ![d] = [step |-> s, lines |-> {}]]
    BY <1>8 DEF HookFails, Redeliver
  <2>2. /\ hook[d].step # "none" /\ UNCHANGED <<tables, draft, req, overlap, crossed>>
        /\ glitches < MaxGlitches /\ glitches' = glitches + 1
    BY <1>8 DEF HookFails, Redeliver, Handling, HookAt, Glitch
  <2>3. /\ line' \in [Lines -> LineRow] /\ settled' \subseteq Lines /\ order' \in {"open", "waiting", "in_progress"}
        /\ crossed' \in BOOLEAN /\ (crossed => crossed')
    BY <1>0, <2>2 DEF TypeOK, tables
  <2>4. glitches' \in 0 .. MaxGlitches /\ glitches' >= glitches
    BY <1>0, <2>2, BoundsAssumption
  <2>5. [step |-> s, lines |-> {}] \in Hook
    BY <1>2
  <2> QED
    BY <2>1, <2>2, <2>3, <2>4, <2>5, HandlerKeeps DEF tables
<1> QED
  BY <1>4, <1>5, <1>6, <1>7, <1>8

LEMMA BillStep == BillInv /\ [Next]_vars => BillInv'
<1> SUFFICES ASSUME BillInv, [Next]_vars PROVE BillInv'
  OBVIOUS
<1>1. ASSUME NEW r \in Requests, RequestSecondPayment(r) PROVE BillInv'
  BY <1>1, StartRequestKeeps, CreateKeeps, MarkKeeps, EndsKeep DEF RequestSecondPayment
<1>2. ASSUME NEW r \in Requests, UpdatePreorderShipping(r) PROVE BillInv'
  BY <1>2, StartShippingKeeps, TakeShareKeeps, RewriteKeeps, UpsertKeeps, SaveKeeps, EndsKeep
     DEF UpdatePreorderShipping
<1>3. ASSUME NEW r \in Requests, Abandon(r) PROVE BillInv'
  BY <1>3, EndsKeep
<1>4. ASSUME NEW d \in Drafts, Pay(d) \/ HandlePayment(d) \/ HookFails(d) \/ Redeliver(d) PROVE BillInv'
  BY <1>4, PayKeeps, MarkPaidKeeps, HandlingKeeps DEF HandlePayment
<1>5. CASE UNCHANGED vars
  BY <1>5 DEF vars, tables, past, BillInv, TypeOK, Known, Knowing, RowsKnow, DraftsKnow, InTurn, Alone, Keeping,
             Exact, Calm, Carrying, Matches, Rewritten, Rewrote, Repricing, PrepaidWithinPool, Applied, ReqAt,
             Bill, Total, Groups
<1> QED
  BY <1>1, <1>2, <1>3, <1>4, <1>5 DEF Next

LEMMA BillHolds == Spec => []BillInv
BY BillStart, BillStep, PTL DEF Spec

(* Every variable of the second payment keeps its type.                     *)
THEOREM InvoicesTypeCorrect == Spec => []TypeOK
<1>1. BillInv => TypeOK
  BY DEF BillInv
<1> QED
  BY <1>1, BillHolds, PTL

(* While requests are made one at a time, in whatever order the groups are  *)
(* billed and re-priced and whatever fails, the shares of the prepayment    *)
(* handed to the groups (AllocatePrepaidShipping, RepricedPrepaidApplied)   *)
(* never exceed what the customer paid at checkout.                         *)
THEOREM InTurnCorrect == Spec => []PrepaidInTurn
<1>1. BillInv => PrepaidInTurn
  BY DEF BillInv, InTurn, PrepaidInTurn
<1> QED
  BY <1>1, BillHolds, PTL

(* Without a failure, an overlap or a payment during a request, the draft   *)
(* of a group amounts to the goods and the price its row says, less its     *)
(* share, whenever no request is under way.                                 *)
THEOREM BilledCorrect == Spec => []BilledIsSaved
<1>1. BillInv => BilledIsSaved
  BY DEF BillInv, Exact, Calm, Matches, Rewritten, Rewrote, Undisturbed, BilledIsSaved, ReqAt
<1> QED
  BY <1>1, BillHolds, PTL
=============================================================================
