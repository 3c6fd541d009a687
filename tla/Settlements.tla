---------------------------- MODULE Settlements ----------------------------
(***************************************************************************)
(* The second payment of a pre-order, one settlement for each line, billed *)
(* by a draft order in Shopify: internal/preorder, with the payment of the *)
(* draft in internal/webhook.  Admins invoice lines together or mark them  *)
(* paid by hand; a daily job expires, seven days later, what is not paid   *)
(* and refunds part of the deposit; the customer pays a draft at any time, *)
(* also after that.  Each step below is one statement or one call to       *)
(* Shopify; only MarkSettlementsInvoiced is a transaction.  The lines of   *)
(* one order; their groups and shipping are in GroupInvoices.              *)
(***************************************************************************)
EXTENDS Naturals

CONSTANTS
    Lines,        \* the pre-order lines of the order
    MaxDrafts,    \* bound: draft orders created
    Requests,     \* admin requests in flight at once
    Clerks,       \* those of them that may also mark a settlement paid
    ExpiryDays,   \* days from the invoice to its expiry: 7 in the code
    MaxFaults,    \* bound: failed calls, lost replies and restarts
    None          \* no draft

Drafts == 1 .. MaxDrafts

ASSUME NoneAssumption   == None \notin Nat
ASSUME ClerksAssumption == Clerks \subseteq Requests
ASSUME BoundsAssumption == ExpiryDays \in Nat \ {0} /\ MaxDrafts \in Nat /\ MaxFaults \in Nat

VARIABLES
    settlement,   \* settlement[l]: the row of preorder_settlements
    item,         \* item[l]: the status of the order line
    step4,        \* the lines are at the step "to be shipped"
    order,        \* the status of the order
    draft,        \* Shopify: draft[d], a draft order
    refunds,      \* Shopify: refunds[l], refunds of the deposit of l
    req,          \* req[r]: what admin request r is doing
    hook,         \* hook[d]: the handling of the payment of d
    job,          \* lines the daily job has listed, and has still to expire
    today,        \* whether it has run today
    byHand,       \* history: lines an admin marked paid
    overtaken,    \* history: a line expired after it was paid
    missed,       \* history: the job did not get to a day or a row
    faults        \* history: faults so far

rows  == <<settlement, item, step4, order>>
shop  == <<draft, refunds>>
clock == <<job, today>>
past  == <<byHand, overtaken, missed, faults>>
vars  == <<rows, shop, req, hook, clock, past>>

Statuses   == {"pending", "invoiced", "paid", "expired"}
Settlement == [status: Statuses, age: 0 .. ExpiryDays + 1, draft: Drafts \cup {None}]
Draft      == [state: {"none", "open", "paid"}, lines: SUBSET Lines]
Request    == [step: {"idle", "create", "mark", "write", "check", "close"},
               lines: SUBSET Lines, draft: Drafts \cup {None}]
Hook       == [step: {"none", "settle", "check", "advance", "done"},
               todo: SUBSET Lines]

NoRequest == [step |-> "idle", lines |-> {}, draft |-> None]

At(r, s)     == req[r].step = s
Become(r, q) == req' = [req EXCEPT ![r] = q]
Goto(r, s)   == Become(r, [req[r] EXCEPT !.step = s])
Finish(r)    == Become(r, NoRequest)

Status(l)    == settlement[l].status
Invoiced(l)  == Status(l) = "invoiced"
Linked(d)    == {l \in Lines : settlement[l].draft = d}   \* who has the link of d
Collected(l) == \E d \in Drafts : draft[d].state = "paid" /\ l \in draft[d].lines

SetStatus(l, s) == settlement' = [settlement EXCEPT ![l].status = s]
Fault           == faults < MaxFaults /\ faults' = faults + 1
Fails           == Fault /\ UNCHANGED <<byHand, overtaken, missed>>

(* Mutant: only what is still to be paid counts as unpaid.                  *)
NoneToPay == \A l \in Lines : Status(l) \notin {"pending", "invoiced"}

AllSettlementsPaid == \A l \in Lines : Status(l) = "paid"
----------------------------------------------------------------------------
(* InvoiceSettlementsWithShipping: every line must be pending.              *)
StartInvoice(r, S) ==
    /\ At(r, "idle")
    /\ \A l \in S : Status(l) = "pending"
    /\ Become(r, [NoRequest EXCEPT !.step = "create", !.lines = S])
    /\ UNCHANGED <<rows, shop, hook, clock, past>>

CreateDraftOrder(r, d) ==
    /\ At(r, "create")
    /\ draft[d].state = "none" /\ \A e \in 1 .. d - 1 : draft[e].state # "none"
    /\ draft' = [draft EXCEPT ![d] = [state |-> "open", lines |-> req[r].lines]]
    /\ Become(r, [req[r] EXCEPT !.step = "mark", !.draft = d])
    /\ UNCHANGED <<rows, refunds, hook, clock, past>>

Pending(S)   == {l \in S : Status(l) = "pending"}
Record(S, d) == settlement' = [l \in Lines |-> IF l \in S
                                 THEN [status |-> "invoiced", age |-> 0, draft |-> d]
                                 ELSE settlement[l]]

(* Mutant: rows are updated whatever their status.                          *)
MarkWhatever(r) ==
    /\ At(r, "mark")
    /\ Record(req[r].lines, req[r].draft)
    /\ Finish(r)
    /\ UNCHANGED <<item, step4, order, shop, hook, clock, past>>

(* Rolled back, with the draft left in Shopify, unless all are pending.     *)
MarkSettlementsInvoiced(r) ==
    /\ At(r, "mark")
    /\ IF Pending(req[r].lines) = req[r].lines
       THEN Record(req[r].lines, req[r].draft)
       ELSE UNCHANGED settlement
    /\ Finish(r)
    /\ UNCHANGED <<item, step4, order, shop, hook, clock, past>>
----------------------------------------------------------------------------
(* MarkSettlementsPaid: checked first, then one UPDATE by id for each line. *)
StartMarkPaid(r, S) ==
    /\ At(r, "idle")
    /\ \A l \in S : Invoiced(l)
    /\ Become(r, [NoRequest EXCEPT !.step = "write", !.lines = S])
    /\ UNCHANGED <<rows, shop, hook, clock, past>>

(* An UPDATE that fails is logged, and the loop goes on.                    *)
WritePaid(r, l) ==
    /\ At(r, "write") /\ l \in req[r].lines
    /\ \/ /\ SetStatus(l, "paid")
          /\ byHand' = byHand \cup {l}
          /\ UNCHANGED <<overtaken, missed, faults>>
       \/ Fails /\ UNCHANGED settlement
    /\ Become(r, [req[r] EXCEPT !.lines = @ \ {l},
                                !.step = IF req[r].lines = {l} THEN "check" ELSE @])
    /\ UNCHANGED <<item, step4, order, shop, hook, clock>>

CheckOrderStatus(r) ==
    /\ At(r, "check")
    /\ IF AllSettlementsPaid THEN Goto(r, "close") ELSE Finish(r)
    /\ UNCHANGED <<rows, shop, hook, clock, past>>

UpdateOrderStatus(r) ==
    /\ At(r, "close")
    /\ order' = "paid"
    /\ Finish(r)
    /\ UNCHANGED <<settlement, item, step4, shop, hook, clock, past>>

(* A call fails, its reply is lost, or the connection breaks.               *)
Abandon(r) ==
    /\ ~ At(r, "idle")
    /\ Fails
    /\ Finish(r)
    /\ UNCHANGED <<rows, shop, hook, clock>>
----------------------------------------------------------------------------
(* The customer pays a draft, from the link in an e-mail.                   *)
Pay(d) ==
    /\ draft[d].state = "open" /\ Linked(d) # {}
    /\ draft' = [draft EXCEPT ![d].state = "paid"]
    /\ hook' = [hook EXCEPT ![d] = [step |-> "settle", todo |-> draft[d].lines]]
    /\ UNCHANGED <<rows, refunds, req, clock, past>>

HookAt(d, s)     == hook[d].step = s
HookGoto(d, s)   == hook' = [hook EXCEPT ![d].step = s]
HookVisits(d, l) == hook' = [hook EXCEPT ![d] = [step |-> IF @.todo = {l} THEN "check" ELSE "settle",
                                                 todo |-> @.todo \ {l}]]

(* Mutant: a row that is no longer invoiced is left alone.                  *)
PayInvoiced(d, l) ==
    /\ HookAt(d, "settle") /\ l \in hook[d].todo
    /\ HookVisits(d, l)
    /\ IF Invoiced(l) THEN SetStatus(l, "paid") ELSE UNCHANGED settlement
    /\ item' = [item EXCEPT ![l] = "paid"]
    /\ UNCHANGED <<step4, order, shop, req, clock, past>>

(* HandleOrderPaid, for the order of the draft: each of its lines names a   *)
(* settlement.  An error is ignored.                                        *)
PaySettlement(d, l) ==
    /\ HookAt(d, "settle") /\ l \in hook[d].todo
    /\ HookVisits(d, l)
    /\ \/ /\ SetStatus(l, "paid")
          /\ item' = [item EXCEPT ![l] = "paid"]
          /\ UNCHANGED past
       \/ Fails /\ UNCHANGED <<settlement, item>>
    /\ UNCHANGED <<step4, order, shop, req, clock>>

AllReceived == item' = [l \in Lines |-> "payment_received"]

(* handleSettlementOnlyPayment.  No group of the order was invoiced, so     *)
(* that cascadeGroupShipmentPayments finds nothing to do.                   *)
CheckSettlements(d) ==
    /\ HookAt(d, "check")
    /\ HookGoto(d, IF AllSettlementsPaid THEN "advance" ELSE "done")
    /\ UNCHANGED <<rows, shop, req, clock, past>>

(* The order, the lines and their step, until one UPDATE fails.             *)
AdvanceOrder(d) ==
    /\ HookAt(d, "advance")
    /\ HookGoto(d, "done")
    /\ order' = "in_progress"
    /\ \/ AllReceived /\ step4' = TRUE /\ UNCHANGED past
       \/ Fails /\ step4' = step4 /\ (AllReceived \/ UNCHANGED item)
    /\ UNCHANGED <<settlement, shop, req, clock>>

Handling(d) == hook[d].step \in {"settle", "check", "advance"}

(* An error ends the handling, and the event is taken for handled (see      *)
(* PaidOrder).                                                              *)
HookFails(d) ==
    /\ Handling(d) /\ ~ HookAt(d, "settle")
    /\ Fails
    /\ HookGoto(d, "done")
    /\ UNCHANGED <<rows, shop, req, clock>>
----------------------------------------------------------------------------
ListYoung == {l \in Lines : Invoiced(l) /\ settlement[l].age < ExpiryDays}

(* GetSettlementsForReminder: invoiced exactly so many days ago.            *)
ListExpiring == {l \in Lines : Invoiced(l) /\ settlement[l].age = ExpiryDays}

(* ProcessReminders; the reminders of the third and sixth day change        *)
(* nothing.                                                                 *)
StartJob ==
    /\ today = "due" /\ job = {}
    /\ today' = "done"
    /\ job' = ListExpiring
    /\ UNCHANGED <<rows, shop, req, hook, past>>

Overtaken(l) == overtaken' = (overtaken \/ Status(l) = "paid" \/ Collected(l))

(* A refund of 80% of the deposit, in Shopify.                              *)
CreateRefund(l) == refunds' = [refunds EXCEPT ![l] = @ + 1]

(* The UPDATE, then the refund.  When the first fails the row stays as it   *)
(* is, and no later day lists it; when the second does, that is only        *)
(* printed.                                                                 *)
ExpireSettlement(l) ==
    /\ l \in job
    /\ job' = job \ {l}
    /\ \/ /\ SetStatus(l, "expired")
          /\ Overtaken(l)
          /\ \/ CreateRefund(l) /\ UNCHANGED <<byHand, missed, faults>>
             \/ Fault /\ UNCHANGED <<refunds, byHand, missed>>
       \/ /\ Fault /\ missed' = TRUE
          /\ UNCHANGED <<settlement, refunds, byHand, overtaken>>
    /\ UNCHANGED <<item, step4, order, draft, req, hook, today>>

(* The ticker of the job starts again with the server, 24 hours before its  *)
(* next run.  Shopify delivers again what was not answered.                 *)
Restart ==
    /\ Fault
    /\ req' = [r \in Requests |-> NoRequest]
    /\ hook' = [d \in Drafts |-> IF Handling(d)
                                 THEN [step |-> "settle", todo |-> draft[d].lines] ELSE hook[d]]
    /\ job' = {}
    /\ today' = IF today = "due" THEN "lost" ELSE today
    /\ missed' = (missed \/ today = "due" \/ job # {})
    /\ UNCHANGED <<rows, shop, byHand, overtaken>>

(* Age counts the days since invoiced_at.  Days on which nothing is         *)
(* invoiced are left out.                                                   *)
NextDay ==
    /\ today # "due" /\ job = {} /\ \E l \in Lines : Invoiced(l)
    /\ today' = "due"
    /\ settlement' = [l \in Lines |->
                        IF Invoiced(l) /\ settlement[l].age <= ExpiryDays
                        THEN [settlement[l] EXCEPT !.age = @ + 1] ELSE settlement[l]]
    /\ UNCHANGED <<item, step4, order, shop, req, hook, job, past>>
----------------------------------------------------------------------------
Init ==
    /\ settlement = [l \in Lines |-> [status |-> "pending", age |-> 0, draft |-> None]]
    /\ item = [l \in Lines |-> "deposit"] /\ step4 = FALSE /\ order = "open"
    /\ draft = [d \in Drafts |-> [state |-> "none", lines |-> {}]]
    /\ refunds = [l \in Lines |-> 0]
    /\ req = [r \in Requests |-> NoRequest]
    /\ hook = [d \in Drafts |-> [step |-> "none", todo |-> {}]]
    /\ job = {} /\ today = "done"
    /\ byHand = {} /\ overtaken = FALSE /\ missed = FALSE /\ faults = 0

Invoice(r) ==
    \/ \E S \in (SUBSET Lines) \ {{}} : StartInvoice(r, S)
    \/ \E d \in Drafts : CreateDraftOrder(r, d)
    \/ MarkSettlementsInvoiced(r)

MarkPaid(r) ==
    \/ \E S \in (SUBSET Lines) \ {{}} : StartMarkPaid(r, S)
    \/ \E l \in Lines : WritePaid(r, l)
    \/ CheckOrderStatus(r) \/ UpdateOrderStatus(r)

HandlePayment(d) ==
    \/ \E l \in Lines : PaySettlement(d, l)
    \/ CheckSettlements(d) \/ AdvanceOrder(d)

ProcessReminders ==
    StartJob \/ \E l \in Lines : ExpireSettlement(l)

Next ==
    \/ \E r \in Requests : Invoice(r) \/ Abandon(r)
    \/ \E r \in Clerks : MarkPaid(r)
    \/ \E d \in Drafts : Pay(d) \/ HandlePayment(d) \/ HookFails(d)
    \/ ProcessReminders \/ Restart \/ NextDay

Spec == Init /\ [][Next]_vars

(* Days pass, the job runs, and what was delivered is handled.              *)
Fairness == WF_vars(NextDay) /\ WF_vars(ProcessReminders) /\ \A d \in Drafts : WF_vars(HandlePayment(d))
FairSpec == Spec /\ Fairness
----------------------------------------------------------------------------
RowsOK ==
    /\ settlement \in [Lines -> Settlement]
    /\ item \in [Lines -> {"deposit", "paid", "payment_received"}]
    /\ step4 \in BOOLEAN /\ order \in {"open", "paid", "in_progress"}

ShopOK == draft \in [Drafts -> Draft] /\ refunds \in [Lines -> Nat]

WorkOK ==
    /\ req \in [Requests -> Request] /\ hook \in [Drafts -> Hook]
    /\ job \in SUBSET Lines /\ today \in {"due", "done", "lost"}

PastOK ==
    /\ byHand \in SUBSET Lines /\ overtaken \in BOOLEAN /\ missed \in BOOLEAN
    /\ faults \in 0 .. MaxFaults

TypeOK == RowsOK /\ ShopOK /\ WorkOK /\ PastOK

(* Two requests that invoice the same line: only one draft is ever recorded *)
(* for it, so the customer has no second link to pay it with.               *)
BilledOnce ==
    \A d, e \in Drafts : d # e /\ Linked(d) # {} /\ Linked(e) # {}
                         => draft[d].lines \cap draft[e].lines = {}

(* The order goes on to shipping, or is closed as paid, only when each of   *)
(* its lines was paid by the customer or marked paid by an admin.           *)
AdvancedIsPaid ==
    order # "open" \/ step4 => \A l \in Lines : Collected(l) \/ l \in byHand

(* Every invoice is paid or expires, if the job runs each day and every     *)
(* UPDATE goes through: there are only so many lines.                       *)
InvoicesEnd == (\E l \in Lines : Invoiced(l)) ~> (missed \/ \A l \in Lines : ~ Invoiced(l))

(* Whichever payment is handled last takes the order to shipping: no two    *)
(* payments each find the other missing, unless a call failed or a line     *)
(* expired after it was paid.                                               *)
LastPaymentAdvances ==
    (\A l \in Lines : Collected(l)) ~> (step4 \/ faults > 0 \/ overtaken)
=============================================================================
