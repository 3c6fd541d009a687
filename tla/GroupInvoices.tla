--------------------------- MODULE GroupInvoices ---------------------------
(***************************************************************************)
(* The second payment of a pre-order billed by one draft order for each    *)
(* fulfillment group, when billing by order edit is off:                   *)
(* internal/order/preorder_fulfillment.go and preorder_prepaid.go, the     *)
(* draft in internal/preorder, its payment in internal/webhook.  Half of   *)
(* the shipping was paid at checkout; what each group still owes for it    *)
(* depends on what the others took of that prepayment.  Group 1 holds the  *)
(* units that wait for no batch, and its row comes from the checkout; the  *)
(* row of a batch is made when its boxes are packed, in the order of the   *)
(* numbers.  Shopify calls and UPDATEs are separate steps; consecutive     *)
(* UPDATEs of rows that only this module's order shows are one.            *)
(***************************************************************************)
EXTENDS Naturals, Totals

CONSTANTS
    NumGroups,    \* the groups of the order
    Lines,        \* its pre-order lines
    Holds,        \* Holds[g]: the lines with a unit in group g
    GoodsPrice,   \* GoodsPrice[g]: the rest of the price of these units
    Pool,         \* shipping prepaid at checkout
    MaxPrice,     \* bound: the final shipping price of a group
    MaxDrafts,    \* bound: draft orders created
    Requests,     \* admin requests in flight at once
    MaxGlitches,  \* bound: failed calls, lost replies, deliveries repeated
    NoDraft       \* no draft

Groups == 1 .. NumGroups
Drafts == 1 .. MaxDrafts
Prices == 1 .. MaxPrice     \* 0: no price yet; the request must not be 0

ASSUME GroupsAssumption == NumGroups \in Nat \ {0} /\ Holds \in [Groups -> SUBSET Lines]
ASSUME MoneyAssumption  == GoodsPrice \in [Groups -> Nat \ {0}] /\ Pool \in Nat /\ MaxPrice \in Nat
ASSUME BoundsAssumption == MaxDrafts \in Nat /\ MaxGlitches \in Nat /\ NoDraft \notin Nat

VARIABLES
    shipment,     \* shipment[g]: the row of preorder_shipments, with its packing
    line,         \* line[l]: status and step of the order line
    settled,      \* lines whose settlement is paid
    order,        \* the status of the order
    draft,        \* Shopify: draft[d], a draft order
    req,          \* req[r]: what admin request r is doing
    hook,         \* hook[d]: the handling of the payment of d
    overlap,      \* history: two requests were in flight at once
    crossed,      \* history: a payment arrived during a request
    glitches      \* history: how many of them so far

tables  == <<shipment, line, settled, order>>
past    == <<overlap, crossed, glitches>>
vars    == <<tables, draft, req, hook, past>>

(* packed: the packing lists what the group holds; the row of the checkout  *)
(* lists every unit of the order.                                           *)
ShipmentRow == [exists: BOOLEAN, packed: BOOLEAN, ship: {0} \cup Prices, sent: BOOLEAN,
                paid: BOOLEAN, draft: Drafts \cup {NoDraft}, applied: 0 .. Pool]
LineRow == [status: {"deposit", "waiting", "received"}, step: 1 .. 4]
Draft   == [state: {"none", "open", "paid"}, group: {0} \cup Groups, amount: Nat, given: BOOLEAN]
Steps   == {"idle", "create", "mark", "await", "share", "rewrite", "pack", "save", "steps"}
Request == [step: Steps, group: {0} \cup Groups, ship: {0} \cup Prices, applied: 0 .. Pool,
            draft: Drafts \cup {NoDraft}, sent: BOOLEAN, pack: BOOLEAN, low: SUBSET Lines]
Hook    == [step: {"none", "paid", "cascade", "write", "check", "advance", "done"},
            lines: SUBSET Lines]

NoRow     == [exists |-> FALSE, packed |-> TRUE, ship |-> 0, sent |-> FALSE, paid |-> FALSE,
              draft |-> NoDraft, applied |-> 0]
NoRequest == [step |-> "idle", group |-> 0, ship |-> 0, applied |-> 0, draft |-> NoDraft,
              sent |-> FALSE, pack |-> FALSE, low |-> {}]

ReqAt(r, s)     == req[r].step = s
ReqBecome(r, q) == req' = [req EXCEPT ![r] = q]
ReqGoto(r, s)   == ReqBecome(r, [req[r] EXCEPT !.step = s])
ReqFinish(r)    == ReqBecome(r, NoRequest)
Start(r, q)     == /\ ReqAt(r, "idle")
                   /\ ReqBecome(r, q)
                   /\ overlap' = (overlap \/ \E v \in Requests \ {r} : ~ ReqAt(v, "idle"))
                   /\ UNCHANGED <<tables, draft, hook, crossed, glitches>>
Glitch          == glitches < MaxGlitches /\ glitches' = glitches + 1 /\ UNCHANGED <<overlap, crossed>>

Least(a, b)  == IF a < b THEN a ELSE b
Less(a, b)   == IF a < b THEN 0 ELSE a - b     \* a - b, at least 0
Below(l, n)  == line[l].step < n
----------------------------------------------------------------------------
(* PrepaidShippingPool less prepaidShippingConsumed.                        *)
Applied      == [g \in Groups |-> shipment[g].applied]
Available    == Less(Pool, Total(Applied, Groups))

(* AllocatePrepaidShipping, for a group with a price and no invoice: the    *)
(* groups before it that are still to be billed take theirs first.          *)
Unbilled(g)  == shipment[g].exists /\ ~ shipment[g].sent /\ shipment[g].applied = 0
Ship         == [g \in Groups |-> shipment[g].ship]
Allocated(g) ==
    IF Unbilled(g)
    THEN Least(Ship[g], Less(Available, Total(Ship, {h \in 1 .. g - 1 : Unbilled(h)})))
    ELSE shipment[g].applied

(* Mutant: the group also keeps its old share.                              *)
RepricedTwice(g, p) == Least(Pool, Least(p, Less(Pool, Total(Applied, Groups \ {g})) + shipment[g].applied))

(* RepricedPrepaidApplied: the group gives its share up and takes again     *)
(* from what the others left.                                               *)
RepricedApplied(g, p) == Least(p, Less(Pool, Total(Applied, Groups \ {g})))

Bill(g, ship, applied) == GoodsPrice[g] + Less(ship, applied)
----------------------------------------------------------------------------
(* RequestSecondPayment and prepareGroupSecondPayment.  A group with a link *)
(* only gets it back.                                                       *)
StartRequest(r, g) ==
    /\ shipment[g].ship # 0 /\ ~ shipment[g].sent
    /\ Start(r, [NoRequest EXCEPT !.step = "create", !.group = g, !.ship = shipment[g].ship,
                                  !.applied = Allocated(g),
                                  !.low = {l \in Holds[g] : Below(l, 3)}])

(* CreateGroupSecondPaymentInvoice.                                         *)
CreateDraftOrder(r, d) ==
    /\ ReqAt(r, "create")
    /\ draft[d].state = "none" /\ \A e \in 1 .. d - 1 : draft[e].state # "none"
    /\ draft' = [draft EXCEPT ![d] =
                   [state |-> "open", group |-> req[r].group, given |-> FALSE,
                    amount |-> Bill(req[r].group, req[r].ship, req[r].applied)]]
    /\ ReqBecome(r, [req[r] EXCEPT !.step = "mark", !.draft = d])
    /\ UNCHANGED <<tables, hook, past>>

(* Mutant: the share of the prepayment is not recorded.                     *)
MarkOnlySent(r) ==
    /\ ReqAt(r, "mark")
    /\ shipment' = [shipment EXCEPT ![req[r].group] =
                      [@ EXCEPT !.sent = TRUE, !.draft = req[r].draft]]
    /\ draft' = [draft EXCEPT ![req[r].draft].given = TRUE]
    /\ ReqGoto(r, "await")
    /\ UNCHANGED <<line, settled, order, hook, past>>

(* MarkPreorderShipmentInvoiceSent, by id.  Only then is the link given out.*)
MarkInvoiceSent(r) ==
    /\ ReqAt(r, "mark")
    /\ shipment' = [shipment EXCEPT ![req[r].group] =
                      [@ EXCEPT !.sent = TRUE, !.draft = req[r].draft, !.applied = req[r].applied]]
    /\ draft' = [draft EXCEPT ![req[r].draft].given = TRUE]
    /\ ReqGoto(r, "await")
    /\ UNCHANGED <<line, settled, order, hook, past>>

(* markGroupAwaitingSecondPayment.                                          *)
MarkGroupAwaiting(r) ==
    /\ ReqAt(r, "await")
    /\ order' = "waiting"
    /\ line' = [l \in Lines |-> IF l \in Holds[req[r].group]
                  THEN [status |-> "waiting", step |-> IF l \in req[r].low THEN 3 ELSE line[l].step]
                  ELSE line[l]]
    /\ ReqFinish(r)
    /\ UNCHANGED <<shipment, settled, draft, hook, past>>
----------------------------------------------------------------------------
(* UpdatePreorderShipping: the row as read decides whether the invoice is   *)
(* re-priced first.  A row is only made with a packing plan.                *)
StartShipping(r, g, p, pack) ==
    /\ ~ shipment[g].paid
    /\ shipment[g].exists \/ (pack /\ \A h \in 1 .. g - 1 : shipment[h].exists)
    /\ Start(r, [NoRequest EXCEPT !.step = CASE shipment[g].sent -> "share"
                                             [] ~ shipment[g].sent /\ pack -> "pack"
                                             [] OTHER -> "save",
                                  !.group = g, !.ship = p, !.pack = pack,
                                  !.sent = shipment[g].sent, !.draft = shipment[g].draft,
                                  !.low = {l \in Holds[g] : Below(l, 2)}])

(* repriceSecondPaymentInvoice: the share of the prepayment at the new      *)
(* price.                                                                   *)
TakeShare(r) ==
    /\ ReqAt(r, "share")
    /\ ReqBecome(r, [req[r] EXCEPT !.step = "rewrite",
                                !.applied = RepricedApplied(req[r].group, req[r].ship)])
    /\ UNCHANGED <<tables, draft, hook, past>>

(* UpdateGroupSecondPaymentInvoice: refused once the draft is paid.         *)
RewriteDraft(r) ==
    /\ ReqAt(r, "rewrite")
    /\ IF draft[req[r].draft].state = "open"
       THEN /\ draft' = [draft EXCEPT ![req[r].draft].amount =
                           Bill(req[r].group, req[r].ship, req[r].applied)]
            /\ ReqGoto(r, IF req[r].pack THEN "pack" ELSE "save")
       ELSE ReqFinish(r) /\ UNCHANGED draft
    /\ UNCHANGED <<tables, hook, past>>

UpsertShipment(r) ==
    /\ ReqAt(r, "pack")
    /\ shipment' = [shipment EXCEPT ![req[r].group] = [@ EXCEPT !.exists = TRUE, !.packed = TRUE]]
    /\ ReqGoto(r, "save")
    /\ UNCHANGED <<line, settled, order, draft, hook, past>>

(* UpdatePreorderShippingByShipmentID, or UpdateInvoicedPreorderShipping,   *)
(* which leaves a paid row alone.                                           *)
SaveShipping(r) ==
    /\ ReqAt(r, "save")
    /\ LET g == req[r].group
           row == shipment[g] IN
       IF req[r].sent /\ row.paid
       THEN ReqFinish(r) /\ UNCHANGED shipment
       ELSE /\ shipment' = [shipment EXCEPT ![g] =
                 [row EXCEPT !.ship = req[r].ship,
                             !.applied = IF req[r].sent THEN req[r].applied ELSE @]]
            /\ ReqGoto(r, "steps")
    /\ UNCHANGED <<line, settled, order, draft, hook, past>>

(* The lines whose step was read as lower are set to "shipping configured". *)
AdvanceSteps(r) ==
    /\ ReqAt(r, "steps")
    /\ line' = [l \in Lines |-> IF l \in req[r].low THEN [line[l] EXCEPT !.step = 2] ELSE line[l]]
    /\ ReqFinish(r)
    /\ UNCHANGED <<shipment, settled, order, draft, hook, past>>

(* A call fails, its reply is lost, or the server stops.                    *)
Abandon(r) ==
    /\ ~ ReqAt(r, "idle")
    /\ Glitch
    /\ ReqFinish(r)
    /\ UNCHANGED <<tables, draft, hook>>
----------------------------------------------------------------------------
(* The customer pays a link that was given out.                             *)
Pay(d) ==
    /\ draft[d].state = "open" /\ draft[d].given
    /\ draft' = [draft EXCEPT ![d].state = "paid"]
    /\ hook' = [hook EXCEPT ![d].step = "paid"]
    /\ crossed' = (crossed \/ \E r \in Requests : ~ ReqAt(r, "idle"))
    /\ UNCHANGED <<tables, req, overlap, glitches>>

HookAt(d, s)    == hook[d].step = s
HookGoto(d, s)  == hook' = [hook EXCEPT ![d].step = s]
Handling(d)     == ~ HookAt(d, "none") /\ ~ HookAt(d, "done")
Crosses         == crossed' = (crossed \/ \E r \in Requests : ~ ReqAt(r, "idle"))

(* Mutant: the lines that the group completes are not looked for.           *)
MarkPaidOnly(d) ==
    /\ HookAt(d, "paid")
    /\ shipment' = [shipment EXCEPT ![draft[d].group].paid = TRUE]
    /\ HookGoto(d, "check")
    /\ Crosses
    /\ UNCHANGED <<line, settled, order, draft, req, overlap, glitches>>

(* HandleOrderPaid: each line of the draft names its shipment.              *)
MarkInvoicePaid(d) ==
    /\ HookAt(d, "paid")
    /\ shipment' = [shipment EXCEPT ![draft[d].group].paid = TRUE]
    /\ HookGoto(d, "cascade")
    /\ Crosses
    /\ UNCHANGED <<line, settled, order, draft, req, overlap, glitches>>

(* Units of l on the packing lists of paid groups, and in all groups.       *)
UnitsOf(l)   == {g \in Groups : l \in Holds[g]}
PaidUnits(l) == [g \in Groups |-> IF ~ shipment[g].paid THEN 0
                                  ELSE IF ~ shipment[g].packed THEN Cardinality(UnitsOf(l))
                                  ELSE IF l \in Holds[g] THEN 1 ELSE 0]

CoveredByPaid(l) == Total(PaidUnits(l), Groups) >= Cardinality(UnitsOf(l))

(* cascadeGroupShipmentPayments: the rows are read, then each line covered  *)
(* by paid groups is settled.                                               *)
ReadPaidGroups(d) ==
    /\ HookAt(d, "cascade")
    /\ hook' = [hook EXCEPT ![d] = [step |-> "write", lines |-> {l \in Lines : CoveredByPaid(l)}]]
    /\ UNCHANGED <<tables, draft, req, overlap, crossed, glitches>>

SettleLines(d) ==
    /\ HookAt(d, "write")
    /\ settled' = settled \cup hook[d].lines
    /\ line' = [l \in Lines |-> IF l \in hook[d].lines
                                THEN [status |-> "received", step |-> 4] ELSE line[l]]
    /\ hook' = [hook EXCEPT ![d] = [step |-> "check", lines |-> {}]]
    /\ Crosses
    /\ UNCHANGED <<shipment, order, draft, req, overlap, glitches>>

CheckSettlements(d) ==
    /\ HookAt(d, "check")
    /\ HookGoto(d, IF settled = Lines THEN "advance" ELSE "done")
    /\ UNCHANGED <<tables, draft, req, past>>

AdvanceOrder(d) ==
    /\ HookAt(d, "advance")
    /\ order' = "in_progress"
    /\ line' = [l \in Lines |-> [status |-> "received", step |-> 4]]
    /\ HookGoto(d, "done")
    /\ Crosses
    /\ UNCHANGED <<shipment, settled, draft, req, overlap, glitches>>

(* An error ends the handling (see PaidOrder); a delivery that was not      *)
(* answered is repeated.                                                    *)
HookFails(d) ==
    /\ Handling(d)
    /\ Glitch
    /\ hook' = [hook EXCEPT ![d] = [step |-> "done", lines |-> {}]]
    /\ UNCHANGED <<tables, draft, req>>

Redeliver(d) ==
    /\ Handling(d)
    /\ Glitch
    /\ hook' = [hook EXCEPT ![d] = [step |-> "paid", lines |-> {}]]
    /\ UNCHANGED <<tables, draft, req>>
----------------------------------------------------------------------------
Init ==
    /\ shipment = [g \in Groups |-> IF g = 1 THEN [NoRow EXCEPT !.exists = TRUE, !.packed = FALSE]
                                             ELSE NoRow]
    /\ line = [l \in Lines |-> [status |-> "deposit", step |-> 1]]
    /\ settled = {} /\ order = "open"
    /\ draft = [d \in Drafts |-> [state |-> "none", group |-> 0, amount |-> 0, given |-> FALSE]]
    /\ req = [r \in Requests |-> NoRequest]
    /\ hook = [d \in Drafts |-> [step |-> "none", lines |-> {}]]
    /\ overlap = FALSE /\ crossed = FALSE /\ glitches = 0

RequestSecondPayment(r) ==
    \/ \E g \in Groups : Holds[g] # {} /\ StartRequest(r, g)
    \/ \E d \in Drafts : CreateDraftOrder(r, d)
    \/ MarkInvoiceSent(r) \/ MarkGroupAwaiting(r)

UpdatePreorderShipping(r) ==
    \/ \E g \in Groups, p \in Prices, pack \in BOOLEAN : Holds[g] # {} /\ StartShipping(r, g, p, pack)
    \/ TakeShare(r) \/ RewriteDraft(r) \/ UpsertShipment(r) \/ SaveShipping(r) \/ AdvanceSteps(r)

HandlePayment(d) ==
    MarkInvoicePaid(d) \/ ReadPaidGroups(d) \/ SettleLines(d) \/ CheckSettlements(d) \/ AdvanceOrder(d)

Next ==
    \/ \E r \in Requests : RequestSecondPayment(r) \/ UpdatePreorderShipping(r) \/ Abandon(r)
    \/ \E d \in Drafts : Pay(d) \/ HandlePayment(d) \/ HookFails(d) \/ Redeliver(d)

Spec     == Init /\ [][Next]_vars
FairSpec == Spec /\ \A d \in Drafts : WF_vars(HandlePayment(d))
----------------------------------------------------------------------------
TypeOK ==
    /\ shipment \in [Groups -> ShipmentRow] /\ line \in [Lines -> LineRow]
    /\ settled \subseteq Lines /\ order \in {"open", "waiting", "in_progress"}
    /\ draft \in [Drafts -> Draft] /\ req \in [Requests -> Request] /\ hook \in [Drafts -> Hook]
    /\ overlap \in BOOLEAN /\ crossed \in BOOLEAN /\ glitches \in 0 .. MaxGlitches

(* "The total handed out therefore never exceeds what the customer actually *)
(* paid, whichever order the admin invoices the groups in."                 *)
PrepaidWithinPool == Total(Applied, Groups) <= Pool
PrepaidInTurn     == overlap \/ PrepaidWithinPool

(* What the customer is billed, or has paid, for a group is what its row    *)
(* says: the goods and the shipping price less its share of the prepayment. *)
(* Only a failed call, or a payment while the price is being changed, can   *)
(* part the two.                                                            *)
Undisturbed   == ~ overlap /\ ~ crossed /\ glitches = 0 /\ \A r \in Requests : ReqAt(r, "idle")
BilledIsSaved ==
    Undisturbed => \A g \in Groups : LET row == shipment[g] IN
        row.sent => draft[row.draft].amount = Bill(g, row.ship, row.applied)

(* Once every group is paid the order goes on, whichever payment is handled *)
(* last, unless a call fails or a request crosses the payment.              *)
AllGroupsPaid     == \A g \in Groups : Holds[g] # {} => shipment[g].paid
LastGroupAdvances == AllGroupsPaid ~> (order = "in_progress" \/ glitches > 0 \/ crossed \/ overlap)
=============================================================================
