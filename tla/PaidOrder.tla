----------------------------- MODULE PaidOrder -----------------------------
(***************************************************************************)
(* What the service does with a paid order: internal/webhook.  Shopify     *)
(* delivers the event orders/paid until it is told OK; withDedupe skips    *)
(* the events already handled; HandleOrderPaid creates the order, the      *)
(* first time, and finalizes it every time: units from the batches, what   *)
(* the order waits for, a settlement for each line and the shipment row.   *)
(* Each of these is a statement of its own, without a transaction over     *)
(* them.  Admins cancel the order meanwhile.  One Shopify order, of        *)
(* pre-order lines that ship together; how units are taken is the business *)
(* of BatchAllocation, how locks end of CheckoutLocks.                     *)
(***************************************************************************)
EXTENDS Naturals

CONSTANTS
    Lines,        \* the pre-order lines of the order
    Events,       \* webhook ids: the payment, and later payments on the order
    Workers,      \* requests in flight at once
    MaxTries,     \* bound: deliveries of one event before Shopify gives up
    MaxFailures,  \* bound: calls that fail
    MaxRestarts,  \* bound: restarts of the server
    None          \* no event, no line

ASSUME BoundsAssumption == MaxTries \in Nat /\ MaxFailures \in Nat /\ MaxRestarts \in Nat
ASSUME LinesAssumption  == Lines # {}     \* without pre-order lines there is nothing to finalize
ASSUME NoneAssumption   == None \notin Lines \cup Events

VARIABLES
    status,       \* orders.aggregate_status, "none" without a row
    dropped,      \* the lines have item_status "cancelled"
    allocated,    \* lines with a committed batch allocation
    hold,         \* hold_until_batch names the batches allocated
    settlements,  \* settlements[l]: rows of preorder_settlements for l
    shipment,     \* the shipment row, by the prepaid shipping it records
    processed,    \* shopify_webhook_events
    sent,         \* Shopify: sent[e], whether event e is still to be answered
    tries,        \* Shopify: tries[e], deliveries of e
    req,          \* req[w]: what worker w is doing
    untimely,     \* history: an event came while another request was in
                  \* progress, or for an order already cancelled
    failures,     \* history: calls that failed
    restarts      \* history: restarts

rows == <<status, dropped, allocated, hold, settlements, shipment>>
shop == <<sent, tries>>
past == <<untimely, failures, restarts>>
vars == <<rows, processed, shop, req, past>>

(* A request.  todo: the lines its loop has still to visit; line: the one   *)
(* it is settling; fresh: it created the order itself; error: its answer.   *)
Handling == {"lookup", "create", "allocate", "hold", "settlements", "settle",
             "shipment", "upsert", "save", "reply"}
Steps    == Handling \cup {"idle", "release"}
Request  == [step: Steps, event: Events \cup {None}, todo: SUBSET Lines,
             line: Lines \cup {None}, fresh: BOOLEAN, error: BOOLEAN]
Idle     == [step |-> "idle", event |-> None, todo |-> {}, line |-> None,
             fresh |-> FALSE, error |-> FALSE]

At(w, s)      == req[w].step = s
Become(w, r)  == req' = [req EXCEPT ![w] = r]
Goto(w, s)    == Become(w, [req[w] EXCEPT !.step = s])
Loop(w, s)    == Become(w, [req[w] EXCEPT !.step = s, !.todo = Lines])
Finish(w)     == Become(w, Idle)
Others(w)     == \E v \in Workers \ {w} : ~ At(v, "idle")

(* The loop over the lines has done l, and goes on to step s after the last.*)
Visited(w, l, this, next) ==
    Become(w, [req[w] EXCEPT !.step = IF req[w].todo = {l} THEN next ELSE this,
                             !.todo = @ \ {l}, !.line = None])

Failure == failures < MaxFailures /\ failures' = failures + 1

(* HandleOrderPaid returns an error, and writes it as the answer.           *)
Return(w) == Become(w, [req[w] EXCEPT !.step = "save", !.error = TRUE])

Fails(w) == Failure /\ Return(w) /\ UNCHANGED <<untimely, restarts>>
----------------------------------------------------------------------------
(* Shopify: a payment on the order.                                         *)
Pay(e) ==
    /\ sent[e] = "none"
    /\ sent' = [sent EXCEPT ![e] = "due"]
    /\ UNCHANGED <<rows, processed, tries, req, past>>

(* An answer in time ends the deliveries of e; a late or lost one does not. *)
Answered(e) == sent' = [sent EXCEPT ![e] = "acked"] \/ UNCHANGED sent

(* A delivery arrives, and withDedupe looks the event up.                   *)
Arrives(w, e) ==
    /\ At(w, "idle")
    /\ sent[e] = "due" /\ tries[e] < MaxTries
    /\ tries' = [tries EXCEPT ![e] = @ + 1]

Skip(w, e) ==
    /\ Arrives(w, e)
    /\ e \in processed
    /\ Answered(e)
    /\ UNCHANGED <<rows, processed, req, past>>

(* A lookup that fails does not stop the handler.                           *)
Handle(w, e) ==
    /\ Arrives(w, e)
    /\ (e \notin processed /\ UNCHANGED failures) \/ Failure
    /\ Become(w, [Idle EXCEPT !.step = "lookup", !.event = e])
    /\ untimely' = (untimely \/ Others(w) \/ dropped)
    /\ UNCHANGED <<rows, processed, sent, restarts>>

(* Mutant: an order that exists is taken for handled.                       *)
SkipExistingOrder(w) ==
    /\ At(w, "lookup")
    /\ IF status # "none" THEN Goto(w, "save") ELSE Goto(w, "create")
    /\ UNCHANGED <<rows, processed, shop, past>>

LookUpOrder(w) ==
    /\ At(w, "lookup")
    /\ \/ /\ IF status # "none" THEN Loop(w, "allocate") ELSE Goto(w, "create")
          /\ UNCHANGED past
       \/ Fails(w)
    /\ UNCHANGED <<rows, processed, shop>>

(* order_number is unique: a second row for the Shopify order is refused.   *)
(* The rows of user, customer and addresses written before are left out.    *)
CreateOrder(w) ==
    /\ At(w, "create")
    /\ \/ /\ status = "none" /\ status' = "processing"
          /\ Become(w, [req[w] EXCEPT !.step = "allocate", !.todo = Lines, !.fresh = TRUE])
          /\ UNCHANGED past
       \/ status # "none" /\ Return(w) /\ UNCHANGED <<status, past>>
       \/ Fails(w) /\ UNCHANGED status
    /\ UNCHANGED <<dropped, allocated, hold, settlements, shipment, processed, shop>>
----------------------------------------------------------------------------
(* finalizePaidCheckoutOrder.  Mutant: a failed allocation is logged only.  *)
AllocateAnyway(w) ==
    /\ At(w, "allocate")
    /\ \E l \in req[w].todo :
          /\ Visited(w, l, "allocate", "hold")
          /\ \/ allocated' = allocated \cup {l} /\ UNCHANGED failures
             \/ Failure /\ UNCHANGED allocated
    /\ UNCHANGED <<status, dropped, hold, settlements, shipment, processed, shop, untimely, restarts>>

(* AllocateToBatch takes nothing for a line that has its units.             *)
Allocate(w) ==
    /\ At(w, "allocate")
    /\ \/ \E l \in req[w].todo :
             /\ allocated' = allocated \cup {l}
             /\ Visited(w, l, "allocate", "hold")
             /\ UNCHANGED past
       \/ Fails(w) /\ UNCHANGED allocated
    /\ UNCHANGED <<status, dropped, hold, settlements, shipment, processed, shop>>

(* The names of the batches that hold units of the order; without any, what  *)
(* the order waits for stays as it is.                                      *)
CollectOrderBatchNames == allocated # {}

UpdateHoldUntilBatch(w) ==
    /\ At(w, "hold")
    /\ \/ hold' = (hold \/ CollectOrderBatchNames) /\ Loop(w, "settlements") /\ UNCHANGED past
       \/ Fails(w) /\ UNCHANGED hold
    /\ UNCHANGED <<status, dropped, allocated, settlements, shipment, processed, shop>>

(* Mutant: the settlement of the line is not looked up first.               *)
SettleUnseen(w) ==
    /\ At(w, "settlements")
    /\ \E l \in req[w].todo : Become(w, [req[w] EXCEPT !.step = "settle", !.line = l])
    /\ UNCHANGED <<rows, processed, shop, past>>

LookUpSettlement(w) ==
    /\ At(w, "settlements")
    /\ \/ /\ \E l \in req[w].todo :
                IF settlements[l] > 0 THEN Visited(w, l, "settlements", "shipment")
                ELSE Become(w, [req[w] EXCEPT !.step = "settle", !.line = l])
          /\ UNCHANGED past
       \/ Fails(w)
    /\ UNCHANGED <<rows, processed, shop>>

(* preorder_settlements has no unique index on the line.                    *)
CreateSettlement(w) ==
    /\ At(w, "settle")
    /\ \/ /\ settlements' = [settlements EXCEPT ![req[w].line] = @ + 1]
          /\ Visited(w, req[w].line, "settlements", "shipment")
          /\ UNCHANGED past
       \/ Fails(w) /\ UNCHANGED settlements
    /\ UNCHANGED <<status, dropped, allocated, hold, shipment, processed, shop>>

LookUpShipment(w) ==
    /\ At(w, "shipment")
    /\ \/ Goto(w, IF shipment = "none" THEN "upsert" ELSE "save") /\ UNCHANGED past
       \/ Fails(w)
    /\ UNCHANGED <<rows, processed, shop>>

(* The request that created the order knows what was charged for shipping;  *)
(* any later attempt takes what the draft declared.                         *)
Prepaid(w) == IF req[w].fresh THEN "charged" ELSE "declared"

(* Written, or refused by the unique index when another request was first.  *)
(* Dimensions that cannot be loaded leave the order without the row and the *)
(* handler goes on.                                                         *)
UpsertShipment(w) ==
    /\ At(w, "upsert")
    /\ \/ shipment' = Prepaid(w) /\ Goto(w, "save") /\ UNCHANGED past
       \/ shipment # "none" /\ Return(w) /\ UNCHANGED <<shipment, past>>
       \/ Failure /\ Goto(w, "save") /\ UNCHANGED <<shipment, untimely, restarts>>
       \/ Fails(w) /\ UNCHANGED shipment
    /\ UNCHANGED <<status, dropped, allocated, hold, settlements, processed, shop>>
----------------------------------------------------------------------------
(* The handlers write an error and return nil, so that withDedupe records   *)
(* the event either way.                                                    *)
SaveWebhookEvent(w) ==
    /\ At(w, "save")
    /\ Goto(w, "reply")
    /\ \/ processed' = processed \cup {req[w].event} /\ UNCHANGED past
       \/ Failure /\ UNCHANGED <<processed, untimely, restarts>>
    /\ UNCHANGED <<rows, shop>>

Reply(w) ==
    /\ At(w, "reply")
    /\ IF req[w].error THEN UNCHANGED sent ELSE Answered(req[w].event)
    /\ Finish(w)
    /\ UNCHANGED <<rows, processed, tries, past>>
----------------------------------------------------------------------------
(* CancelOrder, for the pre-orders: the status of the lines, the units of   *)
(* each line, the status of the order.  An error ends it where it is.       *)
CancelOrder(w) ==
    /\ At(w, "idle")
    /\ status # "none"
    /\ dropped' = TRUE
    /\ Become(w, [Idle EXCEPT !.step = "release", !.todo = Lines])
    /\ untimely' = (untimely \/ Others(w))
    /\ UNCHANGED <<status, allocated, hold, settlements, shipment, processed, shop, failures, restarts>>

(* Mutant: a failed release is ignored.                                     *)
ReleaseOrNot(w) ==
    /\ At(w, "release")
    /\ \E l \in req[w].todo :
          /\ Visited(w, l, "release", "release")
          /\ \/ allocated' = allocated \ {l} /\ UNCHANGED failures
             \/ Failure /\ UNCHANGED allocated
    /\ UNCHANGED <<status, dropped, hold, settlements, shipment, processed, shop, untimely, restarts>>

ReleaseAllocations(w) ==
    /\ At(w, "release")
    /\ \/ \E l \in req[w].todo :
             /\ allocated' = allocated \ {l}
             /\ Visited(w, l, "release", "release")
             /\ UNCHANGED past
       \/ Failure /\ Finish(w) /\ UNCHANGED <<allocated, untimely, restarts>>
    /\ UNCHANGED <<status, dropped, hold, settlements, shipment, processed, shop>>

UpdateOrderStatus(w) ==
    /\ At(w, "release") /\ req[w].todo = {}
    /\ status' = "cancelled"
    /\ Finish(w)
    /\ UNCHANGED <<dropped, allocated, hold, settlements, shipment, processed, shop, past>>

(* The server restarts: every request stops where it is.                    *)
Restart ==
    /\ restarts < MaxRestarts
    /\ \E w \in Workers : ~ At(w, "idle")
    /\ restarts' = restarts + 1
    /\ req' = [w \in Workers |-> Idle]
    /\ UNCHANGED <<rows, processed, shop, untimely, failures>>
----------------------------------------------------------------------------
Init ==
    /\ status = "none" /\ dropped = FALSE
    /\ allocated = {} /\ hold = FALSE
    /\ settlements = [l \in Lines |-> 0]
    /\ shipment = "none"
    /\ processed = {}
    /\ sent = [e \in Events |-> "none"]
    /\ tries = [e \in Events |-> 0]
    /\ req = [w \in Workers |-> Idle]
    /\ untimely = FALSE
    /\ failures = 0 /\ restarts = 0

Finalize(w) ==
    \/ Allocate(w) \/ UpdateHoldUntilBatch(w)
    \/ LookUpSettlement(w) \/ CreateSettlement(w)
    \/ LookUpShipment(w) \/ UpsertShipment(w)

HandleOrderPaid(w) ==
    LookUpOrder(w) \/ CreateOrder(w) \/ Finalize(w) \/ SaveWebhookEvent(w) \/ Reply(w)

Cancel(w) == ReleaseAllocations(w) \/ UpdateOrderStatus(w)

Deliver(e) == \E w \in Workers : Skip(w, e) \/ Handle(w, e)

Next ==
    \/ \E e \in Events : Pay(e) \/ Deliver(e)
    \/ \E w \in Workers : HandleOrderPaid(w) \/ CancelOrder(w) \/ Cancel(w)
    \/ Restart

Spec == Init /\ [][Next]_vars

----------------------------------------------------------------------------
TypeOK ==
    /\ status \in {"none", "processing", "cancelled"}
    /\ dropped \in BOOLEAN /\ hold \in BOOLEAN
    /\ allocated \subseteq Lines
    /\ settlements \in [Lines -> Nat]
    /\ shipment \in {"none", "charged", "declared"}
    /\ processed \subseteq Events
    /\ sent \in [Events -> {"none", "due", "acked"}]
    /\ tries \in [Events -> 0 .. MaxTries]
    /\ req \in [Workers -> Request]
    /\ untimely \in BOOLEAN
    /\ failures \in 0 .. MaxFailures /\ restarts \in 0 .. MaxRestarts

Done ==
    /\ allocated = Lines /\ hold
    /\ \A l \in Lines : settlements[l] > 0
    /\ shipment # "none"

(* "settlement must not be created before allocate succeeds", and no        *)
(* shipment row before either, however requests overlap, fail and repeat    *)
(* (service_paid_reconcile_test.go).                                        *)
EffectsInOrder ==
    /\ ~ dropped /\ (\E l \in Lines : settlements[l] > 0) => allocated = Lines /\ hold
    /\ shipment # "none" => \A l \in Lines : settlements[l] > 0

(* "Safe to call on Shopify webhook retries": whatever failed and restarted,*)
(* the balance of a line is not asked for twice, unless two requests        *)
(* overlapped.                                                              *)
OneSettlement == ~ untimely => \A l \in Lines : settlements[l] <= 1

(* As long as no call fails and no requests overlap, restarts included,     *)
(* Shopify is told OK only for an order with all its effects.               *)
AckedIsDone ==
    ~ untimely /\ failures = 0 /\ (\E e \in Events : sent[e] = "acked") => Done \/ dropped

(* A cancelled order has given all its units back, even when cancelling     *)
(* took several attempts, unless an event came late.                        *)
CancelledGivesBack == ~ untimely /\ status = "cancelled" => allocated = {}

============================================================================
