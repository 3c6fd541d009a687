# Verification of momiji-home-backend

The backend of a shop that sells ready stock and pre-orders: a Go service (Fiber, GORM on
Postgres at READ COMMITTED, one process with a scheduler) between a storefront and Shopify.
Shopify owns products, stock, draft orders, orders and payments. This service owns what Shopify
has no notion of: the batches of a pre-order, the second payment of a pre-order, stock locks
during checkout, and which part of an order ships when.

The TLA+ modules in this directory model the parts of it that keep state of their own. TLC checks
them on small instances, and TLAPS proves the central invariants for every value of the constants.

## 1. Inventory

### 1.1 Components

| Component | State it keeps | Operations that change it | Module |
| --- | --- | --- | --- |
| Pre-order batches, `internal/preorderbatch` | `preorder_batches`, `preorder_batch_allocations`, `preorder_batch_locks`, the label of the variant | create, update, close, cancel, reorder, cancel all open; preview, allocate, release; acquire and release batch locks | `BatchAllocation`, `BatchAlgorithms`, `BatchReorder`, `BatchBook` |
| Checkout, `internal/checkout` | `stock_locks`, `checkout_sessions`, the draft order in Shopify | initiate, replace, release; clean up every 5 minutes; manual orders, edits of drafts | `CheckoutLocks` |
| Cart, `internal/cart`; stock check of a checkout; `POST /orders` | `carts`, `cart_items` | add, update, set, clear, merge, reconcile with the stock; order without locks | `Shop` |
| Products and variants, `internal/product`; inventory and product webhooks | `products`, `product_variants`, idempotency keys | nightly synchronisation, custom products, added variants, SKU links, sale types, webhooks | `Catalogue` |
| Paid orders, `internal/webhook` | `orders`, `order_line_items`, `shopify_webhook_events` | orders/paid, cancellation | `PaidOrder` |
| Settlements by draft invoice, `internal/preorder` | `preorder_settlements` | invoice, mark paid, pay, expire with refund | `Settlements` |
| Second payment of a group by draft, `internal/order/preorder_fulfillment.go`, `preorder_prepaid.go` | `preorder_shipments`: shipping price, share of the prepayment, invoice | price, pack, bill, re-price, pay | `GroupInvoices` |
| Balance by order edit, `internal/order/balance_edit*.go`, `internal/webhook/balance_payment.go` | `preorder_shipments`: claim, expected outstanding; the lines of the Shopify order | request and repeat, re-price, mark paid, cascade | `BalanceEdit` (interleavings), `BalanceBill` (money) |
| Inventory policy, `internal/order/inventory_policy.go` | `preorder_inventory_policy_overrides`, the policy in Shopify | open for a balance, close again | `OversellPolicy` |
| Order lifecycle and fulfillment, `internal/order/service.go`, `fulfillment_service.go`; fulfillment events | statuses of orders and lines, `fulfillments`, copies of fulfillment orders | accept, cancel, ship, deliver, corrections by hand, events | `Fulfillment` |
| Groups, packing and the page of an order, `internal/order/fulfillment_groups.go`, `preorder_packing.go` | packing rows | pack, weigh, show | `FulfillmentGroups` |
| Warehouses, customers, users, settings, custom texts, dashboard, sales report | rows of their own | single-statement writes, read-only queries | none |
| Shopify, ShipStation, e-mail, scheduler, database, configuration | none | I/O and wiring | inside the others |

### 1.2 Interactions

A request runs in a goroutine. Calls between components are direct function calls; the shared
state is Postgres and Shopify. Almost every operation is a sequence of autocommitted statements
and Shopify calls without a transaction around them; only the batches, the upsert of a shipment
row and `MarkSettlementsInvoiced` use transactions. The scheduler starts the clean-up of locks, the
reconciliation of balances and policies, the daily reminders and the nightly synchronisation next
to the requests. Shopify delivers webhooks at least once, in any order.

The tables that several components write are where modules meet:

| Shared state | Written by | Seen in the others as |
| --- | --- | --- |
| batch allocations | `BatchAllocation` | one step of `PaidOrder` (allocate, release); the constant slices `Holds`, `UnitsIn`, `Share` of `GroupInvoices`, `Fulfillment`, `BalanceBill`; chosen anew by every initial state of `FulfillmentGroups` |
| batch locks | `BatchAllocation` | the refusal of `AcquireBatchLocks` in `CheckoutLocks` |
| stock of a variant | Shopify | `stock` of `CheckoutLocks`, `item` of `Catalogue`; `Shop` extends `Catalogue` and runs up to where the locks of `CheckoutLocks` begin |
| `preorder_shipments` | `PaidOrder` makes the row of the checkout | its first row in `GroupInvoices`; a constant of `BalanceEdit` |
| payment of a group | `BalanceEdit`, `GroupInvoices` | `PayBalance` of `Fulfillment`, `CloseGroup` of `OversellPolicy` |
| settlements | `PaidOrder` makes them, `Settlements` ends them | `settled` of `GroupInvoices` |

### 1.3 What is hard here

* Interleaving of requests between two statements: every "read, then Shopify, then write".
* Postgres statements that wait for row locks and go on with the row *set* they listed before.
* Lost replies: an order edit, a draft or a fulfillment may exist although the call failed.
* Failures in the middle of a sequence, where what is done stays done, and whose clean-up may
  itself fail and is only logged.
* Timeouts that stand for "the other one is dead" (two minutes for a claim, 15 for a lock).
* Payments, which happen at any time and are noticed later; webhooks lost, late and repeated.
* One quantity computed twice: by the app and by Shopify (the balance), by the loop that sells and
  by the query that shows (batches), by the page and by the events (groups).

`PROJECT.json` lists the hazards line by line with the properties that look for them.

### 1.4 What makes each component correct

* Batches: the sold counter is the sum of the committed allocations; nothing is sold from a batch
  that ended or above its quota; an order gets what the shop shows.
* Checkout: what is locked is on hand, but for what counts cannot see; every draft a shopper can pay is known to the job; locks end.
* Cart and catalogue: shoppers keep what they asked for, but for what crosses an order; the shop sells
  what Shopify has; a custom product is made once and stays untracked until it has an SKU.
* Paid orders: one order per payment, one allocation and one settlement per line, in their order,
  whatever is delivered twice or cut short.
* Settlements: billed by one link, the order advances when all is paid, invoices end.
* Groups: the shares of the prepayment stay within it; what is billed is what is saved; the last
  payment advances the order.
* Balance by edit: a deposit unit is billed once; an edit is made once or not at all; a group is
  marked paid only for a payment of it; the Shopify order amounts to what the rows say.
* Inventory policy: the app turns off nothing that it did not turn on, and puts back what it did.
* Fulfillment: no group ships another's goods, no shipment is recorded twice or not at all, an order
  is completed only after something arrived. The page shows each group its own units.

## 2. Plan

The order was by importance to the shop and by what depends on what. Done: all modules of the table
above. What is left, in this order:

1. An abstract balance (asked, billed, collected) that both `BalanceEdit` and `GroupInvoices`
   implement, in the manner of `BatchBook`, and the proof that they do.
2. Warehouses: the cache of `internal/warehouse/service.go`, which a refresh that read before an
   update may overwrite with the older row.

## 3. What is modelled

A step of a model ends where another request can see its effect: at an autocommitted statement,
at the commit of a transaction, at a call to Shopify. Values a request read earlier and uses
later are fields of its request record. Text, prices that no property needs, DTOs and logging
are left out. Operators marked "Mutant" are plausible bugs of the code; no action uses them.
Variables marked "history" record for the properties what happened; no guard depends on them but
those of the bounds.

### 3.1 Batches of a pre-order

`BatchAllocation` has the rows of one variant: `row` (`preorder_batches`), `alloc` (committed rows
of `preorder_batch_allocations`, by order line and batch), `held` (live rows of
`preorder_batch_locks`), `label` (the variant's label) and `req` (what each worker is doing).

| Actions | Code |
| --- | --- |
| `StartCreate`, `CreateBatch`, `StartUpdate`, `UpdateBatch`, `CloseBatch`, `CancelBatch`, `ReorderBatch`, `StartCancelOpen`, `CancelOpenBatches` | the admin's operations of `service.go`, `postgres.go`, `reorder.go` |
| `StartAllocate`, `ReadLocks`, `TakeSnapshot`, `AllocateUnlimited`, `AllocateAgain`, `AllocateToBatch` | a paid order: `runAllocation` and the transaction in `AllocateToBatch` |
| `StartPreview`, `StartReserve`, `PreviewAllocation`, `CreateBatchLocks` | the same transaction as a preview, and `AcquireBatchLocks` |
| `ReleaseLocks`, `ReleaseAllocations` | the end of a checkout or of its locks, a cancelled order |
| `ReadLabel`, `SyncLabel` | `syncActiveBatchLabelByVariantID`, `syncLabelForBatches` |
| `Abandon` | an error between two steps, a deadlock victim, a restart |

A transaction that waits for row locks is two steps: Postgres (READ COMMITTED) fixes the set and
the order of the rows when the statement starts (`rank`), and rereads each row when it has its
lock (`Slice`). The allocation loop is stated by what it computes (`Plan`, `Spent`, `Successor`,
`Settled`); `BatchAlgorithms` runs the loop turn by turn and compares (`PlanIsTheLoop`), and does the
same with the summary that `internal/product` shows (`GetBatchSummariesByVariantIDs`, `ShownIsSold`);
`BatchReorder` runs the list surgery of `applyReorder`. `BatchBook` is the abstract specification: lines buy once, from
open batches, within the quota; cancelled lines give back; ended batches sell nothing.

### 3.2 Checkout

`CheckoutLocks` has one variant: `owner`, `lock`, `session` and `draft` for each checkout
reference, `stock` in Shopify, `req` for the workers, and two histories: `faults`, and `missed`, the
units that the counting of locks cannot know of. These are units paid without a live lock, units
locked while another request stands between its count and its own lock (`stocklock.go:99-119`), and
units paid and released between another request's look at the stock and its count. The history only
observes; no action looks at it.

| Actions | Code |
| --- | --- |
| `InitiateCheckout`, `GetVariantsInventory`, `GetActiveLocksForVariant`, `CreateLocks`, `AcquireBatchLocks`, `CreateDraftOrder`, `UpsertCheckoutSession`, `UndoDraft`, `UndoLocks` | `InitiateCheckout` with `AcquireLocks` inside it |
| `ReleaseCheckout`, `ReleaseLocks`, `CancelCheckoutDraft`, `DeleteLocksByReference`, `DeleteCheckoutSession` | `ReleaseCheckout` with and without a reference |
| `HandleOrderPaid`, `DeleteCheckoutSession` | the end of `finalizePaidCheckoutOrder` |
| `ListExpiredCheckoutSessions`, `DeleteExpiredDraft`, `DeleteExpiredCheckoutSessions`, `DeleteExpiredLocks` | `CleanExpiredLocks`, every five minutes |
| `CreateManualOrder`, `UpdateDraftOrderItems` | the admin's drafts |
| `Pay`, `Expire`, `Abandon` | the customer, 15 minutes, and everything that fails |

Assumed: lock and session of a checkout have one expiry; a request is over before its lock
expires; the customer learns the link and the reference when the request ends; Shopify refuses to
delete or change a paid draft; stock changes by payments only. `Totals` defines finite sums without
recursion, so that they can be proved about.

### 3.3 Catalogue, carts and orders without locks

`Catalogue` mirrors Shopify's products: `live` and `item` are Shopify's, `product` and `variant` the
rows, `stub` and `custom` the idempotency keys and products made from here, `inbox` the webhooks
under way, and a record each for the synchronisation, the requests that make, extend and link
products. `Shop` extends it with `cart`, `buy` (checkouts up to their locks) and `place` (requests to
`POST /orders`). Three histories observe the carts: `asked` is what shoppers put in and took out,
`late` what came into a cart between its reading by `CreateOrder` and the end of that request, `twice`
what left it in that time, or what two requests ordered, or what was ordered and not cleared. No
action looks at them, and `ClearOrdered`, the clearing of the cart, leaves `asked` and `late` alone.

| Actions | Code |
| --- | --- |
| `StartSync`, `QueryPage`, `SyncProduct`, `ReconcileProducts`, `SyncFails` | `SyncFromShopify`: pages, rows, reconciliation of what was not seen |
| `StartCreate`, `ProductCreate`, `ProductVariantsBulkCreate`, `FinalizeCustomProduct`, `CreateFails`, `RestartCreate` | `CreateCustomProduct` with its idempotency key, `CreateUnlistedProduct` |
| `StartAdd`, `AddInShopify`, `PersistVariant`, `ListProductVariantIDs`, `DeleteVariantsNotIn` | `AddProductVariants` |
| `StartLink`, `LinkVariantSKU`, `MarkCustomVariantLinked` | `LinkCustomVariantSKU` |
| `UpdateVariantStatus`, `UpdateProductStatus`, `HandleInventoryUpdate`, `HandleProductDelete` | sale types and webhooks |
| `AddItem`, `SetVariantQuantity`, `UpdateItemQuantity`, `ClearCart`, `MergeCarts` | `internal/cart/service.go` |
| `StartCheckout`, `GetVariantsInventory`, `ReconcileShipReady`, `AcquireLocks`, `ReconcileAgain` | `InitiateCheckout` and `inventory_resync.go` up to the locks |
| `ReadCart`, `CreateStorefrontCart`, `CreateDraft`, `SaveOrder`, `ClearOrdered` | `CreateOrder` of `internal/order/service.go` |

### 3.4 Paid orders

`PaidOrder` has one Shopify order of pre-order lines that ship together: `status` and `dropped`
(`orders`, `order_line_items`), `allocated` (lines with committed batch allocations), `hold`
(`hold_until_batch`), `settlements` (number of rows for each line), `shipment`, and `processed`
(`shopify_webhook_events`). On Shopify's side are `sent` and `tries`, the deliveries of each event;
`untimely`, `failures` and `restarts` say what went wrong so far, for the properties.

| Actions | Code |
| --- | --- |
| `Skip`, `Handle`, `SaveWebhookEvent`, `Reply` | `withDedupe` around the handler, `response.Error` |
| `LookUpOrder`, `CreateOrder` | `HandleOrderPaid` of `service.go` |
| `Allocate`, `UpdateHoldUntilBatch`, `LookUpSettlement`, `CreateSettlement`, `LookUpShipment`, `UpsertShipment` | `finalizePaidCheckoutOrder`, statement by statement |
| `CancelOrder`, `ReleaseAllocations`, `UpdateOrderStatus` | `CancelOrder` of the pre-orders |
| `Pay`, `Restart` | the customer (each payment on the order is an event), a stop of the process |

Every statement may fail. Shopify repeats a delivery until it is answered with OK or gives up
(`MaxTries`); an answer may be late or lost. The unique order number refuses a second order row, a
unique index a second shipment row; nothing of the kind guards the settlements.

### 3.5 Settlements and the invoices of groups

`Settlements` has the settlement of each line, the drafts, the order, the requests of admins, the
handling of each payment and the daily job. `GroupInvoices` has the rows of the groups, the lines,
the drafts and what handles their payment.

| Actions | Code |
| --- | --- |
| `StartInvoice`, `CreateDraftOrder`, `MarkSettlementsInvoiced` | `InvoiceSettlementsWithShipping` |
| `StartMarkPaid`, `WritePaid`, `CheckOrderStatus`, `UpdateOrderStatus` | `MarkSettlementsPaid` |
| `Pay`, `PaySettlement`, `CheckSettlements`, `AdvanceOrder`, `HookFails` | the payment of the draft in `webhook/service.go` |
| `StartJob`, `ExpireSettlement`, `NextDay`, `Restart` | `ProcessReminders`, the refund with it |
| `StartRequest`, `CreateDraftOrder`, `MarkInvoiceSent`, `MarkGroupAwaiting` | `RequestSecondPayment` by draft, `CreateGroupSecondPaymentInvoice` |
| `StartShipping`, `TakeShare`, `RewriteDraft`, `UpsertShipment`, `SaveShipping`, `AdvanceSteps` | `UpdatePreorderShipping`, `AllocatePrepaidShipping`, `repriceSecondPaymentInvoice`, `UpdateGroupSecondPaymentInvoice` |
| `MarkInvoicePaid`, `ReadPaidGroups`, `SettleLines`, `CheckSettlements`, `AdvanceOrder`, `Redeliver` | the payment of a group and `cascadeGroupShipmentPayments` |

### 3.6 The second payment by order edit

`BalanceEdit` has one order with several groups, for the interleavings. `shipment[g]` is the row of
`preorder_shipments` (claimed: the method is `order_edit`; sent: the balance was saved as billed;
paid; aged: the claim is older than two minutes), `item` the order lines; Shopify's order is
`owed`, `left` (units still at the deposit price) and `charged`; `billed` and `settled` count the
edits committed and paid, for the properties. `BalanceEditScenes` says who acts at once (`scene`),
and states what depends on it; `Desk` is the request that has the order to itself.

| Actions | Code |
| --- | --- |
| `StartRequest`, `CheckOthers`, `AdoptOrderEditBalance`, `ReleaseOrderEditBalanceClaim`, `CheckBefore`, `BeginOrderEdit`, `ClaimOrderEditBalance`, `CommitOrderEdit`, `CompleteOrderEditBalance`, `MarkGroupAwaiting` | `RequestSecondPayment`, `requestSecondPaymentByOrderEdit`, `finishOrderEditBalance` and the statements of `balance_postgres.go` |
| `StartShipping`, `UpdateShippingByShipmentID`, `RepriceBefore`, `RepriceBegin`, `RepriceCommit`, `UpdateOrderEditBalanceShipping`, `UpdateInvoicedShipping` | `UpdatePreorderShipping` and `repriceOrderEditBalance` |
| `ReadAwaiting`, `LookAtOrder`, `MarkInvoicePaid`, `HandleSettlementOnlyPayment` | `ReconcileOrderEditBalance`, from a webhook or the periodic job |
| `Pay`, `ClaimTimeout`, `Abandon`, `AbandonAudit` | the customer, two minutes, and everything that fails |

Assumed of Shopify: a session that was begun before another edit of the order was committed cannot
be committed (`outdated`). Assumed of time, as the comment at `balance_edit.go:27` does: no request
takes longer than the two minutes after which its claim counts as abandoned (`during`). A group has
one unit, and a payment is of all the order owes. `Abandon` right after a step is a lost reply.

`BalanceBill` has the same order with its money: `order.lines` and `order.ship` are the lines of the
Shopify order (deposit lines, goods added by an edit with their discount, the half of the shipping,
shipping lines), `shipment` and `links` the rows. A request is one step; of its faults what is left
is the commit that landed and was not saved, or did not land (`InterruptedEdit`). `Applied` is
`applyBalanceEdit` on the order, `Matched` and `NewShippingLine` are how an adoption finds what the
interrupted edit added. Amounts are whole cents.

`OversellPolicy` has, for each group and variant, the state of the override row, the policy in
Shopify and what the merchant chose; `enable` is `allowOverselling` of each group, `restore` the
handlers that turn policies off again, each database statement and Shopify call a step.

### 3.7 Fulfillment

`Fulfillment` has the rows of the order and its lines, the parts of the Shopify order (`remaining`,
by line and by the goods that the edit of a group added), the fulfillments in Shopify with their
events, the copies of `fulfillment_order_line_items` and the recorded fulfillments.

| Actions | Code |
| --- | --- |
| `AcceptReady`, `PushReady`, `AcceptPre` | `AcceptOrder` |
| `StartFulfillment`, `SyncAndPick`, `ShipUnits`, `RecordFulfillment` | `CreatePreorderFulfillment` |
| `MarkDelivered` | `MarkFulfillmentDelivered` |
| `HandleFulfillment`, `LoseEvent` | the fulfillment events |
| `StartCancel`, `CancelLines` | `CancelOrder` |
| `UpdateItemsReceived`, `AddTrackingNumber`, `UpdateFulfillmentStep` | corrections by hand |
| `FulfillInShopify`, `Arrive`, `SendAgain`, `EditBalance`, `PayBalance` | Shopify's admin, carriers, deliveries; what the balance leaves |

`FulfillmentGroups` computes: the groups of an order from allocations (`Slice`), the packing of a
group with its boxes and weight, and the page, which hands every fulfillment back to groups
(`TakeCard`) and shows each line of a group (`ScrubbedSlice`, `SecondPaymentSummary`). Its actions are
the ones that change what is shown.

## 4. What the runs show

Sizes are chosen so that every action fires and the interesting meetings happen: two of whatever
can race, quantities of 2 or 3 so that a batch, a stock or a line can be split, missed and overrun,
with one or two failed calls. A run with several questions over one module is split into *scenes*:
the initial state picks one, and the next-state relation stays inside it, so that the numbers of
states add up instead of multiplying.

| Run | Instance | Properties | What it shows |
| --- | --- | --- | --- |
| `batch` | 2 batches and 2 workers, or 3 batches and 1 worker with reservations and previews; quota 2, lines of 2 and 1 units | `SoldMatchesAllocations`, `ShownIsSold`, `PlanIsTheLoop`, `ReorderIsTheSplice`, `ImplementsBook` | the rows implement the book of batches, and the loop and list surgery of the code compute what the model says; an order gets what the shop shows |
| `checkout` | 2 checkouts of up to 2 of 2 units, 2 shoppers, fairness; two scenes (below) | `ReservedWithinStock`, `DraftReachable`, `LocksReleased` | locks exceed the stock by what counts missed and no more, every payable draft is known to the job, locks end |
| `paid_order` | 2 lines, 1 payment delivered up to 3 times and 2 at once, 1 failed call, 1 restart, cancellations | `EffectsInOrder`, `OneSettlement`, `AckedIsDone`, `CancelledGivesBack` | effects come in their order, and repeated deliveries do not repeat them |
| `balance_edit` | 2 groups on one deposit line with goods of 2 and 3, 2 requests, 2 auditors, 2 faults, in three scenes (below) | `NoUnitTwice`, `EditedOnce`, `PaidWasCollected`, `OneAwaiting`, `SavedPriceIsBilled`, `ClaimResolved` | nothing is billed twice or marked paid without a payment; a lost reply is resolved |
| `balance_bill` | 3 groups of 2 goods, prices up to 3, 5 edits, 2 interruptions | `PlanIsApplied`, `BillMatchesRows`, `OwnLines` | Shopify charges what was planned, and the order amounts to what the rows say |
| `balance_shared` | 2 groups, without the premise of `balance_bill` | `BillMatchesRows` | violated: the disagreement below |
| `settlements` | 2 lines, 2 drafts, 2 admins, 1 fault, fairness | `BilledOnce`, `AdvancedIsPaid`, `InvoicesEnd`, `LastPaymentAdvances` | a line has one link, the order advances when all is paid, invoices end |
| `group_invoices` | 2 groups that share a line and a prepayment of 2, prices up to 2, 3 drafts, 1 fault, fairness | `PrepaidInTurn`, `BilledIsSaved`, `LastGroupAdvances` | the shares stay within the prepayment, what is billed is saved |
| `fulfillment` | a ship-ready line and a pre-order line in 2 groups, 2 shipments, 3 requests, 1 fault | `OwnGoods`, `RecordedOnce`, `CompletedHasArrived`, `ShipmentsRecorded` | shipments are recorded once and of their own group, whatever happens to their events |
| `groups` | 2 pre-order lines in up to 3 groups, 3 fulfillments, every allocation and packing plan with up to 2 boxes a line | `OwnShown`, `PackedWhole` | each group shows and weighs its own units |
| `oversell_policy` | 3 groups that need 2 variants, 1 handler, 1 fault, fairness | `ChosenKept`, `ReleasedIsRestored` | nothing of the merchant's is turned off, what is released is put back |
| `shop` | 3 products, 5 variants, 2 carts of up to `MaxUnits` = 2 units, 2 orders; five scenes (below) | `AwaitingUntracked`, `MadeOnce`, `UnitsKept`, `MirrorConverges` | `POST /orders` loses and repeats only what crossed it, the catalogue follows Shopify, a product is made once |

Deadlock is not checked: with all bounds used up there is nothing left to do, in every model.

**Scenes.** `checkout` (`MCCheckoutLocks`): "failing" has one worker, a failing call, manual orders and
all quantities; "racing" has two workers that overlap in every step, whose carts ask for all of the
stock or for pre-orders only. `batch`: "together" has administrators against payments and cancellations; "in turn" has
every operation, one request after another. `balance_edit` (`BalanceEditScenes`): "together" has
requests that race while the customer pays edits that were saved; "in turn" has one request at a time
with re-pricing and payments at any moment; "asking" has one admin who repeats a request; auditors
(the webhook and the job) act in all of them. `shop`: "mirror" (the synchronisation
under changes, lost webhooks and failures), "creation" (two requests that make one custom product),
"extension" (a custom product gets variants and SKUs), "shopping" (a guest's and a user's cart filled,
merged and checked out while the stock changes), "ordering" (two carts filled, merged and changed
while they are ordered, twice, without locks; `MaxCrossed` = 2 bounds the units that cross an order).
The shop has one variant in carts there; the theorem has any number, and carts with a row that is
not shown.

**Premises.** The code does not keep every property under every interleaving. Where it does not, the
property or the specification of the run says under which premise it does, and the list at the end
of this section says what happens outside it.

* `ReservedWithinStock` (`CheckoutLocks`) and `UnitsKept` (`Shop`) have no premise. The code keeps
  neither the stock nor the cart exactly, and they say by how much it may be off: by the units that
  the histories `missed`, `late` and `twice` have seen, which grow only at the meetings named in 3.2
  and 3.3. Any other step that overbooked, lost or repeated a unit would break them.
* `untimely` (`PaidOrder`, history): two deliveries were at work at once. `OneSettlement`,
  `AckedIsDone` and `CancelledGivesBack` hold until then, in spite of restarts; `AckedIsDone`
  while no call fails, too.
* `OneAwaiting` holds for one request at a time, `EditedOnce` while customers pay edits that were saved
  (`PayLink`): nobody was given a link to another.
* `Told` (`BalanceEditScenes`): when requests race, no two groups owe the same amount.
  `adoptOrderEditBalance` has only the amount to tell whose edit an order carries; with equal amounts it
  saves one group's edit as another's, which is then marked paid for it. `PaidWasCollected` and
  `SavedPriceIsBilled` need it; with one request at a time they hold without. There is no re-pricing
  while requests race.
* `OrderlySpec` (`BalanceBill`): while an edit is interrupted the other groups' prices rest, and the
  group has a shipping line of its own to be found by. `balance_shared` drops the first half.
  `TitlesApart` (its theorems and runs): no two groups of an order have shipping lines of one title.
* `overlap`, `crossed`, `glitches` (`GroupInvoices`, history): `PrepaidInTurn` is about requests one
  after another; `BilledIsSaved` and `LastGroupAdvances` also need that no payment arrives during a
  request. `overtaken` and `missed` (`Settlements`) mark a line that expired although it was paid, and
  a day or row the job did not get to.
* `SoleSpec` (`FulfillmentGroups`): a fulfillment without a batch has only units of lines that no two
  groups share; of a shared line the code can only guess whose units went. `TameSpec`
  (`MCFulfillmentGroups`) explores packing, shipping and paying apart, for size.
* `byHand`, `blind` (`Fulfillment`, history): an admin corrected the order by hand, or a fulfillment
  was recorded without an ID from Shopify, so that its arrival cannot be matched.
* `OrderlySpec` (`MCOversellPolicy`): a group is not paid before the request that billed it is over.
* `Unchanged`, `InQueue` (`BatchAlgorithms`): what was shown is sold only if no row and no lock changed
  since. If an admin moves batches while a payment waits, queued batches may stand ahead of the
  active one; the loop goes on with the first of them, the shop shows one behind the active batch. Four
  batches are needed for this, and `ShownIsSold` says nothing of the batch shown next then.

**Why the bounds are enough.** The interesting states need two actors that race for one thing, one
that failed in between, and one that repeats. Two of each with one or two faults give all of them;
a third group or batch is there where a successor's successor matters (promotion, shares of the
prepayment, overlapping needs of the policy). Prices and quotas only need "less, equal, more".

**A disagreement between the code and what it says.** `balance_shared`:
`preorder_fulfillment.go:270` keeps the price of a group while its own edit is interrupted, but
not those of others. `adoptOrderEditBalance` (`balance_edit.go:180`) then saves a share of the
shipping half computed from the prices of *now*, which is not the one its lines were billed with. The
half is used twice or partly lost, against "re-running this never moves money that was already
billed" (`preorder_prepaid.go:38`).

**Met while modelling, without a run of their own.** Those marked (P) are what a premise excludes.

Balance by order edit:
* An edit whose reply was lost and which the customer paid before the retry is made again
  (`balance_edit.go:186`), against "finishes this edit or redoes it, never both" (`:157`) (P).
* Two interrupted edits of an order refuse each other's retries for ever (`balance_edit.go:68`),
  against "the app will pick up where it left off" (`:160`) (P: one admin in "asking").
* Two admins at once can bill two groups although `balance_payment.go:36` relies on one at a
  time (P); a price saved while the balance is requested is not what is charged (P).
* Two groups that owe the same, requested at once: one's interrupted edit is adopted for the other,
  as only the amount decides (`balance_edit.go:189`), and a line that is missing is only logged (P: `Told`).
* An adoption looks for new shipping lines without those it knows: a group without a shipping line
  of its own stores another's, which a later re-price removes, against `balance_edit_plan.go:321` (P).
  So does a group whose batch is named as that of another variant: names are unique per variant only,
  against "the batch name keeps the lines of different groups apart" (`balance_edit.go:684`) (P).
* A payment recorded before the request marks the lines as waiting leaves them waiting
  (`preorder_fulfillment.go:561`).

Drafts of groups and settlements:
* Two groups billed at once may hand out more than the prepayment, against the comment of
  `AllocatePrepaidShipping` (P); a cheaper earlier group after a later one was billed leaves part unused.
* `validate:"required,min=0"` refuses a final price of 0.
* The shipment row of the checkout packs every pre-order unit (`preorder_packing.go:193`), so that a
  paid group without a batch settles all lines (`webhook/service.go:1147`, against `:1125`).
* A refund that fails after the status update is lost (`preorder/service.go:735`).
* A line can be billed by its settlement and by its group; no model has both.

Checkout and paid orders:
* Two checkouts may both count before either locks, and lock the same last unit (`stocklock.go:99-119`);
  a payment and the release of its lock between the look at the stock and the count escape both
  (`stocklock.go:67`). `ReservedWithinStock` bounds what is overbooked by these.
* An expired lock stops counting at once (`checkout/postgres.go:23`) while its draft stays payable until
  the job runs, against "invoices cannot be paid after TTL" (`stocklock.go:148`); a draft whose
  deletion fails is not retried (`stocklock.go:157`).
* Batch locks are checked and created separately (`preorderbatch/lock.go:113`), a quota is checked
  before it is written (`preorderbatch/service.go:119`), and the label may be stale after
  concurrent requests.
* A failed orders/paid event is recorded as processed and its redelivery answered with OK
  (`webhook/handler.go:99`), against "reconcile unfinished side effects instead of skipping"
  (`webhook/service.go:433`); the model has it, and `AckedIsDone` counts failures.
* A paid line whose variant is not found locally is left out of the order.
* Two requests to cancel at once may leave the order open (`order/service.go:914`).

Fulfillment:
* Fulfillments without a batch, of lines that groups share, are attributed by guess, against
  `fulfillment_groups.go:397` (P). Packing rows of 0 boxes are accepted and not weighed.
* `AcceptOrder` pushes every open fulfillment order, those of balance edits with them, and revives
  cancelled items of one kind; a "success" event without tracking counts as delivered; a late event
  takes a cancelled order back to in progress; received units may be counted twice after
  `MarkFulfillmentDelivered`, which looks at pre-order lines only; the webhook completes an order when
  part of each line arrived; an order to be shipped together stays held when its pre-order half is
  cancelled.
* After a paid sibling shipped, the step of the whole line lets unpaid units pass
  `isPreorderLineReadyForFulfillment` (`fulfillment_service.go:205`).

Inventory policy: a release that failed is not retried; overlapping restores may mark a row restored
while the variant is on; a balance recorded just after another's restore stays with its variant off
(`balance_edit.go:306`, `inventory_policy.go:79`); a payment during the billing request leaves an
open row for ever (P).

Catalogue and carts: a stale page of the synchronisation deletes a variant just added; a
synchronisation during `CreateCustomProduct` makes it fail, and the retry makes a second product in
Shopify; a restart leaves the key "creating" for ever; products created between two pages, or beyond the
cap of pages, are marked deleted until the next night; linking an SKU leaves a sold-out variant
ship-ready until the next synchronisation. A sold-out variant turns to pre-order before the
cart is reconciled, so that its units do not move (`inventory_resync.go:61`). Two carts may become
active at once, concurrent merges double quantities, concurrent additions lose one; `POST /orders`
clears whatever is in the cart after its Shopify calls, and a double click orders twice.

**Fairness.** Only of what the code or its scheduler does by itself. Customers and merchants are never
assumed to do anything.

| Run | Assumed | Why |
| --- | --- | --- |
| `checkout` | requests and jobs that run go on, time passes (weak); the job starts (strong) | a goroutine is scheduled; the ticker of five minutes finds the worker free again and again |
| `balance_edit` | the request of `Desk` and the reconciliations go on, claims age (weak); the admin asks again (strong) | the message asks the admin to try again in a few minutes, and so only `ClaimResolved` uses it |
| `settlements` | days pass, the daily job goes on, a delivered payment is handled (weak) | the scheduler; Shopify delivers |
| `group_invoices` | a delivered payment is handled (weak) | Shopify delivers |
| `oversell_policy` | handlers go on, the job runs (weak) | the ticker of 15 minutes |
| `shop` | the nightly synchronisation starts and goes on, as do requests (weak) | the scheduler |

Faults are bounded, so that they do not go on for ever: a liveness property says what happens once
calls go through.

## 5. What is proved

All theorems hold for every value of the constants that satisfies the named assumptions, which TLC
evaluates in the runs.

| Theorem | Assumptions | Argument |
| --- | --- | --- |
| `BatchesAndBillsProofs!TypeCorrect` | `BoundsAssumption`, `LinesAssumption`, `NoneAssumption` | `TypeInv` is inductive, one lemma for admins and one for allocations |
| `!SoldCorrect`: counter = ledger | the same | `SoldInv` = `TypeInv`, batches that do not exist have sold nothing, counter = ledger. The second part is needed because a new row starts with nothing sold; the clamp at zero of a release never bites, because a sum is at least each of its terms |
| `!LineCorrect`: no line above its quantity | the same | a line allocates only while its allocation is zero, and `Plan` bounds the total |
| `!Implementation`: the rows implement `BatchBook` | the same | initial states map to initial states; every step maps to a sale, a return, an offer, a resize, a retirement or a stutter |
| `!ActiveCorrect`: one batch is active at most | the same | `QueueInv` = `TypeInv`, `OneActive`, `Numbered` (open rows have a sequence above zero, or a snapshot would not tell them from rows outside it). A reorder gives every row a place of its own, so that one row is the first (`MovedStrict`); a sale closes the active row before it promotes, or is refused by the index |
| `!LoopCorrect`: the allocation is what the loop of the code computes | the same | after some turns the loop is at `Going(w, D)`: the rows of D, the first ones, are emptied and closed and the next is active; or at `Gone(w, take)`, at its end (`Turn`). D grows with every turn, so that the loop ends after one turn per row and one more (`LoopEnds`), and one plan only serves the line (`PlanUnique`). Instead of an induction, which the provers do not have, there is no least turn for which this fails (`NatLeast`, from a minimum of finite sets) |
| `!ShownCorrect`: an order gets what the shop shows | the same | what a row gives is what is left after the rows before it, or what it has (`PlanFills`); without a change in between, the rows and their order are those of the summaries (`StandingRows`), the batch shown first is the first (`ActiveShownIs`) and the one shown next the second (`NextShownIs`) |
| `!SpliceCorrect`: a reorder is the list surgery of the code | the same | a place counts the rows ahead, so places are 1 to the number of rows, each taken once, and the list of the query exists and holds every row at its place (`ListedIs`, `ListedPlace`: an injection between finite sets of one size is onto). What cutting and inserting leaves at each position (`InsertRemove`) is the row that `Moved` puts there (`SplicedIs`), and the first open row of that list is the one with the least place |
| `BalanceEditProofs!TypeCorrect`, `!UnitsCorrect`: no deposit unit is billed twice | `GroupsAssumption`, `MoneyAssumption`, `BoundsAssumption` | `Inv` = `TypeOK`, `NoUnitTwice`, `SessionsFit`, `Serving`. A session that is not outdated still finds the unit it planned with (`SessionsFit`): a commit outdates all others, so two sessions cannot take one unit. Requests, failures and payments may race in any number |
| `!OnceCorrect`, `!CollectedCorrect`, `!OneCorrect`, `!PriceCorrect`: the four invariants of `BalanceEditScenes` | also `DeskAssumption` | `SceneInv` = `Inv`, `Rows`, `Listed`, `Ledger` and a part for each scene. While requests race, `Racing`: a session that is not outdated stands on an order that owes nothing, what an order owes is one edit of one group, and an edit is paid only once it was saved; so a second edit of a group finds its unit gone or its claim taken. If balances differ, `Summing`: the amount says whose edit it is, for a request that adopts and an auditor that saw nothing owed. One request at a time, `Solo` and `Priced`: an unfinished group is the only one, `Desk` knows at every step whether its edit is on the order, and the price it carries is the one charged. `Collects` and `Audited` follow in both: a group listed by an auditor that then saw nothing owed was paid |
| `CheckoutAndPackingProofs!TypeCorrect` | `CountsAssumption`, `NamesAssumption` | inductive as it stands, any number of workers |
| `!ReachableCorrect`: every payable draft is known to the job | `CountsAssumption`, `NamesAssumption` | `RInv` = `TypeOK` and, while nothing failed, `Reach`: a draft that is open has a session or a request that carries it (`Hand`); what each job listed is past paying or still on its list (`Sound`). TLC has one worker in the scene with manual orders and two in the other, the theorem any number |
| `!ReservedCorrect`: locked units are on hand, but for those that counts missed | the same; any number of workers | `IInv` = `TypeOK`, `Unused`, `Apart`, `ReservedWithinStock` and `Careful` of every worker. `Careful` carries the stock that was read to the count (what is gone by then is paid and still locked, `PaidLocked`, or missed), and the result of the count to the insert (there is room for the new lock, but for what is missed); both have to survive every step of the other workers, which make other checkouts (`Apart`), and payments, expiries and admins. Steps that only give up locks are treated together (`Receding`) |
| `PaidOrderProofs!TypeCorrect` | `BoundsAssumption`, `LinesAssumption`, `NoneAssumption` | `Typed` = `TypeOK` and `Known`: a request being handled has an event, and one that settles has a line of its loop |
| `!EffectsCorrect`: effects in their order | the same | `Order` = `EffectsInOrder` and `Progress` of every request: what its loop has done so far holds, and others only add to it (`Grows`), except a cancellation, which marks the lines first |
| `!SettledOnce`, `!AnsweredIsDone`, `!UnitsGivenBack` | the same | `AllTimely`: until requests overlap one is in progress at most (`Alone`), what it looked up is still so (`Timely`), and recorded events are complete (`RecordedIsDone`). Restarts may stop it anywhere |
| `ShopAndInvoicesProofs!ShopTypeCorrect`, `!AwaitingCorrect`: what awaits its SKU is untracked | `CatalogueAssumption`, `ShopAssumption` | `ShopInv` = `MirrorInv`, `CreationInv`, `CartInv`. The theorems are of `ShopSpec`, all operations of the catalogue, the carts, the checkouts and `POST /orders` interleaved from an empty shop, of which a scene of the run is a part. `MirrorInv`: every row that is written is a `SafeRow`; a page that was read before is only used for the tracking of rows it adds |
| `!MadeCorrect`: one product for a key, one more for each error | the same | `CreationInv`: a key has one request at most and its stub says "creating" (`OneMaker`); a product that no error was answered for yet is the stub's, or of the request at work, or of one that a restart ended (`Tally`) |
| `!KeptCorrect`: carts and orders hold what shoppers asked for, but for what crossed an order | the same | `CartInv` = `CartTypeOK`, `Owners`, `Accounts`. `Owners`: a user's cart is never merged away, an order in hand has a cart. `Accounts` looks ahead: for each cart there is a number of `fresh` units that orders in hand will lose (the cart has no more than an order read, and these), and the loss so far and all fresh units are within `late` (`NoneLost`); likewise of `stale` units that the orders in hand of one cart, taken together, have beyond it, within `twice` (`NoneTwice`). Each step names the next two functions: filling adds what came or left (`FillKeeps`), a reading adds what is not shown or was read before (`ReadKeeps`), the end of an order uses its cart's up (`ClearKeeps`). A split keeps the sum of a line whatever Shopify answered (`SplitAnew`) |
| `!PolicyTypeCorrect`, `!ChosenStays`: the app turns nothing of the merchant's off | `NilAssumption`, `FailureAssumption` | `PolicyInv` = `PolicyTypeOK` and `Provenance`: rows (`Recorded`), requests (`Asked`) and handlers (`OnLists`) only ever hold variants that the merchant left at DENY. A variant that is on may be in a request's list only if a row of another group names it, which is why `Asked` rests on `Recorded` |
| `!InvoicesTypeCorrect`, `!InTurnCorrect`: the shares stay within the prepayment | `GroupsAssumption`, `MoneyAssumption`, `BoundsAssumption` | `BillInv` = `TypeOK`, `Known`, `InTurn`, `Exact`. `InTurn`: until requests overlap, the share a request carries from reading to writing still fits beside the shares of the others (`Keeping`), because a group without a link has no share (`RowsKnow`) and nobody else writes one; `AllocatedFits` and `RepricedFits` say that a share fits when it is computed. Requests may fail or stop anywhere |
| `!BilledCorrect`: a draft amounts to what its row says | the same | `Exact`: a row matches its draft (`Matches`) unless a request has just rewritten the draft (`Rewritten`), and then that request carries what the draft amounts to and the draft is still unpaid (`Carrying`); drafts of two groups are different drafts, so rewriting one leaves the others |
| `SettlementsProofs!TypeCorrect`, `!BilledCorrect`: no settlement on two recorded invoices | `NoneAssumption`, `ClerksAssumption`, `BoundsAssumption` | `IInv` = `TypeOK`, `OneLink`, `Earned`. `OneLink`: a draft that was recorded was recorded for all its lines (`Whole`), a request that is about to record one carries a draft of exactly its lines (`Carried`), a draft that is not made bills nothing (`Unmade`), and a pending row has no draft (`Unlinked`); the statement that records one writes only if all of its lines are pending |
| `!AdvancedCorrect`: the order goes on only for lines that were paid | the same | `Earned`: rows at `paid`, and what handlers and closing requests read before they act, rest on a payment or on an admin's word (`PaidRows`, `PaidHooks`, `SureHook`, `SureRequest`); neither is ever taken back |
| `FulfillmentProofs!ShipsItsOwn`: a group ships its own goods | `LinesAssumption`, `UnitsAssumption`, `NoneAssumption`, `FiniteAssumption`, `BoundsAssumption` | `IInv` = `Shape`, `Serving`, `Filing`, `Telling`, `Counting`, `Completed` and the three properties. `Serving`: the part a request took is of its line and of no other group, when it ships as when it picked |
| `!OneRecord`: a shipment has one record | the same | the upsert finds the record by its shipment, whoever wrote it; a shipment is never taken back (`Lasting`) |
| `!CompletedCorrect`: a completed order has received something of each pre-order line | the same | what an event tells happened (`Telling`), a record is of goods that were shipped or `blind` (`Filing`), and a line that is delivered or counted has goods that arrived (`Counting`); a sum is at least each of its terms |
| `!RecordedInTheEnd`: what was shipped is recorded when all is quiet | the same | `Noted`: goods that left and are in no record have an event or a request that will record them, or a call failed |
| `CheckoutAndPackingProofs!PackedCorrect`: a packed group is weighed whole | `LinesAssumption`, `UnitsAssumption`, `BatchesAssumption`, `BoundsAssumption` | `PackInv` = `Allocates`, the types of the rows, `PackedWhole`. Allocations do not change, so what a group packs does not either; `PreparedType` says that every line gets a row. The boxes weigh what is boxed plus what is nested (`BoxesWeigh`): a box carries the share of a box of all that is nested, so over all boxes it comes to the whole (`TotalScale`, `TotalPlus`), and the rows are either boxed or nested (`PlanWeighs`, `TotalUnion`) |
| `CheckoutAndPackingProofs!OwnShownCorrect`: each group shows its own units | the same, `NoGroupAssumption`; under `SoleSpec` | `PackInv`, `CardInv` (a card is of the group of its batch or of lines of one group, and no group ships more than it holds), `PayInv` (paid rows were sent, sent ones priced). What the page says a group still holds after each card is its slice less what it shipped by then (`CapsAre`): each card takes back what it took (`CardTakes`), and there is no first card after which this fails. So the cards of a group have no units of others (`OwnCards`) |
| `BatchesAndBillsProofs!PlansCorrect`: Shopify charges what was planned | `SizesAssumption`, `ShareAssumption`, `MoneyAssumption`, `LimitsAssumption`, `TitlesApart`; under `OrderlySpec` | `BillInv` says line by line what the order holds: the checkout's lines with some units gone (`CheckoutLines`), one line for each billable item of each group on it, at the website's price (`AddedLines`), one shipping line per such group, of its price less its share and with what it folded (`ShippingLines`); what it amounts to (`Money`); that one group owes at most (`OneOwes`). The edit is a fold over the items, so there is no induction over them: the function of partial results exists (`Recursion`), no first item breaks what holds of it (`StagedStep`), and each swap adds the balance of the item (`SwappedIs`, `ReducedWorth`) |
| `!RowsCorrect`: the order amounts to what the rows say | the same | `Money` sums over the groups *on* the order (`On`: sent, or interrupted after it landed); with no claim open these are the groups sent. A re-price replaces one line by one (`RepriceStep`) |
| `!LinesCorrect`: links and stored shipping lines are a group's own | the same | `Linked`: links are exactly the added lines of the groups sent. An adoption finds its own because the lines it does not know are those (`AdoptedMatched`); a stored line id is at most `edits + 1`, so a new line cannot be mistaken for it (`StoredLines`) |
| `TotalsProofs!TotalReplace` | none | splitting a finite sum; it and `TotalMonotone` are the algebra of the counters above, `TotalUnion`, `TotalPlus` and `TotalScale` that of the weights |

Only model-checked:

* Liveness: the provers handle neither fairness nor ENABLED.
  These are the liveness properties of the runs; every safety property the runs check is stated by a theorem,
  for the general specification of its module or, where the run itself narrows it, for the narrower one
  named in the table.

No module uses RECURSIVE, which would take the SMT prover away from it; sums are `Total` of
`Totals.tla`, which counts pairs and needs no induction, or folds.

## 6. What is not modelled

* Rows written by single statements whose last writer wins: warehouses and their ZIP coverage, customers
  and addresses, users and tokens, settings, custom texts. The one cache among them, of the
  warehouse, may keep an older row than the last update until it expires; that is on the plan.
* Read-only queries: dashboard, sales report, lists, the views of an order except the groups.
* The Shopify, ShipStation and e-mail clients, signatures, the scheduler, configuration, commands, and
  generated documentation. What Shopify does is an assumption named in section 3.
* In `PaidOrder`: users, customers, addresses, orders of several ship dates. In `CheckoutLocks`: several
  variants in one cart and restocking. In `BalanceEdit`: several units in a group. In `BalanceBill`:
  taxes and discounts of the checkout. In `Settlements`: amounts. In `Fulfillment`: packages of
  several lines and the closing of the line of the shipping deposit. In `Catalogue`: the batches that a
  change of status cancels, the standalone variant. Partial payments and refunds of orders are in none.
* A request of several lines is modelled as one line each. Reads and writes of rows that a handler does
  between two external calls are one step unless section 3 or the module says otherwise.

## 7. Running

In this directory: `tlc -config MCBatches.cfg MCBatches`, and likewise for each run of
`PROJECT.json`, which names its module and cfg; `tlapm BatchesAndBillsProofs.tla`, and likewise
`BalanceEditProofs`, `CheckoutAndPackingProofs`, `PaidOrderProofs`, `ShopAndInvoicesProofs`,
`SettlementsProofs`, `FulfillmentProofs`, `TotalsProofs`.
The longest run takes three and a half minutes on two cores, the proofs some minutes more.
