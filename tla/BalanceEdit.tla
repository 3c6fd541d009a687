---------------------------- MODULE BalanceEdit ----------------------------
(***************************************************************************)
(* The second payment of a pre-order, billed by editing the Shopify order  *)
(* that took the deposit: internal/order/balance_edit.go with its store,   *)
(* balance_postgres.go, and internal/webhook/balance_payment.go.  One      *)
(* order has several groups (one per batch), each with a row of            *)
(* preorder_shipments.  A request of an admin goes through Shopify calls   *)
(* and single UPDATE statements, with no transaction around them: a claim  *)
(* in the row is what keeps requests apart.  Each step below ends at a     *)
(* call that others can see; Abandon stands for every call that fails, for *)
(* a reply that is lost (abandoned right after the call took effect) and   *)
(* for a restart of the server.                                            *)
(***************************************************************************)
EXTENDS Integers, FiniteSets

CONSTANTS
    Groups,     \* the pre-order groups of the order
    Lines,      \* its deposit lines
    LineOf,     \* LineOf[g]: the deposit line group g takes its unit from
    Goods,      \* Goods[g]: what the unit of group g still owes
    MaxPrice,   \* bound: the largest shipping price an admin types
    Requests,   \* admin requests in flight at once
    Auditors,   \* webhook deliveries and the periodic job, checking for payment
    MaxFaults,  \* bound: requests abandoned
    None        \* no group

ASSUME GroupsAssumption == IsFiniteSet(Groups) /\ LineOf \in [Groups -> Lines] /\ None \notin Groups
ASSUME MoneyAssumption  == Goods \in [Groups -> Nat \ {0}]
ASSUME BoundsAssumption == MaxPrice \in Nat \ {0} /\ MaxFaults \in Nat

Prices == 1 .. MaxPrice

VARIABLES
    shipment,   \* shipment[g]: the row of preorder_shipments
    item,       \* item[l]: the status of the order line
    owed,       \* Shopify: what the order owes
    left,       \* Shopify: left[l], units of the line still at the deposit price
    charged,    \* Shopify: charged[g], the shipping price on the order for g
    billed,     \* history: billed[g], edits of g committed
    settled,    \* history: settled[g], how many of them the customer has paid
    req,        \* req[r]: the request r is serving
    audit,      \* audit[a]: what auditor a is doing
    faults      \* history: requests abandoned so far

shopify == <<owed, left, charged, billed, settled>>
vars    == <<shipment, item, shopify, req, audit, faults>>

Row == [claimed: BOOLEAN, sent: BOOLEAN, paid: BOOLEAN, aged: BOOLEAN,
        expected: Int, ship: 0 .. MaxPrice]

Steps == {"idle", "others", "adopt", "release", "before", "begin", "claim", "commit", "save", "mark",
          "setShip", "reprice", "rebegin", "recommit", "resave", "reship"}

(* What a request carries: the claim it saw in the row, the shipping price  *)
(* it bills, the total the order must owe, whether another edit was         *)
(* committed since its own began, and the groups claimed since it started.  *)
Request == [step: Steps, group: Groups \cup {None}, seen: {"none", "fresh", "aged"},
            ship: 0 .. MaxPrice, due: Int, outdated: BOOLEAN, during: SUBSET Groups]
Idle    == [step |-> "idle", group |-> None, seen |-> "none", ship |-> 0, due |-> 0,
            outdated |-> FALSE, during |-> {}]

At(r, s)     == req[r].step = s
Group(r)     == req[r].group
Mine(r)      == shipment[Group(r)]
Become(r, q) == req' = [req EXCEPT ![r] = q]
Goto(r, s)   == Become(r, [req[r] EXCEPT !.step = s])
Finish(r)    == Become(r, Idle)

Unfinished(g) == shipment[g].claimed /\ ~ shipment[g].sent                \* an edit in flight
Awaiting(g)   == shipment[g].claimed /\ shipment[g].sent /\ ~ shipment[g].paid
Billing(g)    == shipment[g].claimed /\ ~ shipment[g].paid

(* What the group still owes, as planned and as applied to the order.       *)
Balance(r)     == Goods[Group(r)] + req[r].ship
DepositLeft(g) == left[LineOf[g]] > 0
Covered(l)     == \A g \in Groups : LineOf[g] = l => shipment[g].paid   \* no unit unpaid
----------------------------------------------------------------------------
(* RequestSecondPayment: reads the group's row; one that was billed already *)
(* only gets its link back.                                                 *)
StartRequest(r, g) ==
    /\ At(r, "idle")
    /\ ~ shipment[g].sent
    /\ Become(r, [Idle EXCEPT !.step = "others", !.group = g, !.ship = shipment[g].ship,
                              !.due = shipment[g].expected,
                              !.seen = IF ~ shipment[g].claimed THEN "none"
                                       ELSE IF shipment[g].aged THEN "aged" ELSE "fresh"])
    /\ UNCHANGED <<shipment, item, shopify, audit, faults>>

(* Mutant: only the row of the group itself is looked at.                   *)
CheckNoOthers(r) ==
    /\ At(r, "others")
    /\ IF req[r].seen = "fresh" THEN Finish(r)
       ELSE Goto(r, IF req[r].seen = "aged" THEN "adopt" ELSE "before")
    /\ UNCHANGED <<shipment, item, shopify, audit, faults>>

OthersClear(r) == \A h \in Groups \ {Group(r)} : ~ Billing(h)

CheckOthers(r) ==
    /\ At(r, "others")
    /\ \/ /\ ~ OthersClear(r) \/ req[r].seen = "fresh"
          /\ Finish(r)
       \/ /\ OthersClear(r) /\ req[r].seen # "fresh"
          /\ Goto(r, IF req[r].seen = "aged" THEN "adopt" ELSE "before")
    /\ UNCHANGED <<shipment, item, shopify, audit, faults>>

(* Mutant: the release clears the expected total and leaves the method.     *)
ReleaseKeepsMethod(r) ==
    /\ At(r, "release")
    /\ shipment' = [shipment EXCEPT ![Group(r)].expected = 0]
    /\ Goto(r, "before")
    /\ UNCHANGED <<item, shopify, audit, faults>>

(* adoptOrderEditBalance: what the order owes tells whether the edit of an  *)
(* earlier request landed.                                                  *)
AdoptOrderEditBalance(r) ==
    /\ At(r, "adopt")
    /\ \/ owed = 0 /\ Goto(r, "release")
       \/ owed # 0 /\ owed = req[r].due /\ Goto(r, "save")
       \/ owed # 0 /\ owed # req[r].due /\ Finish(r)
    /\ UNCHANGED <<shipment, item, shopify, audit, faults>>

ReleaseOrderEditBalanceClaim(r) ==
    /\ At(r, "release")
    /\ shipment' = IF Unfinished(Group(r))
                   THEN [shipment EXCEPT ![Group(r)] = [@ EXCEPT !.claimed = FALSE, !.expected = 0,
                                                                 !.aged = FALSE]]
                   ELSE shipment
    /\ Goto(r, "before")
    /\ UNCHANGED <<item, shopify, audit, faults>>

CheckBefore(r) ==
    /\ At(r, "before")
    /\ IF owed > 0 THEN Finish(r) ELSE Goto(r, "begin")
    /\ UNCHANGED <<shipment, item, shopify, audit, faults>>

(* Mutant: the plan does not count the units left on the deposit line.      *)
BeginOnAnyLine(r) ==
    /\ At(r, "begin")
    /\ IF owed = 0
       THEN Become(r, [req[r] EXCEPT !.step = "claim", !.outdated = FALSE,
                                     !.due = Balance(r)])
       ELSE Finish(r)
    /\ UNCHANGED <<shipment, item, shopify, audit, faults>>

(* Mutant: the claim is an UPDATE by id.                                    *)
ClaimUnguarded(r) ==
    /\ At(r, "claim")
    /\ shipment' = [shipment EXCEPT ![Group(r)].claimed = TRUE, ![Group(r)].expected = req[r].due]
    /\ Goto(r, "commit")
    /\ UNCHANGED <<item, shopify, audit, faults>>

(* BeginOrderEdit, planBalanceEdit and applyBalanceEdit: nothing is visible *)
(* outside the edit session.  Refused when the deposit line has no unit     *)
(* left, or when the order would owe something else than expected.          *)
BeginOrderEdit(r) ==
    /\ At(r, "begin")
    /\ IF DepositLeft(Group(r)) /\ owed = 0
       THEN Become(r, [req[r] EXCEPT !.step = "claim", !.outdated = FALSE,
                                     !.due = Balance(r)])
       ELSE Finish(r)
    /\ UNCHANGED <<shipment, item, shopify, audit, faults>>

ClaimOrderEditBalance(r) ==
    /\ At(r, "claim")
    /\ IF Mine(r).claimed \/ Mine(r).sent
       THEN Finish(r) /\ UNCHANGED shipment
       ELSE /\ shipment' = [shipment EXCEPT ![Group(r)] =
                              [@ EXCEPT !.claimed = TRUE, !.aged = FALSE, !.expected = req[r].due]]
            /\ req' = [q \in Requests |->
                         [req[q] EXCEPT !.step = IF q = r THEN "commit" ELSE @,
                                        !.during = IF req[q].step = "idle" THEN @
                                                   ELSE @ \cup {Group(r)}]]
    /\ UNCHANGED <<item, shopify, audit, faults>>

(* Shopify refuses to commit a session begun before another edit.           *)
Outdate(r, s) == req' = [q \in Requests |-> [req[q] EXCEPT !.step = IF q = r THEN s ELSE @,
                                                           !.outdated = @ \/ req[q].step # "idle"]]

CommitOrderEdit(r) ==
    /\ At(r, "commit")
    /\ IF req[r].outdated
       THEN Finish(r) /\ UNCHANGED shopify
       ELSE /\ owed' = owed + Balance(r)
            /\ left' = [left EXCEPT ![LineOf[Group(r)]] = @ - 1]
            /\ charged' = [charged EXCEPT ![Group(r)] = req[r].ship]
            /\ billed' = [billed EXCEPT ![Group(r)] = @ + 1]
            /\ Outdate(r, "save")
            /\ UNCHANGED settled
    /\ UNCHANGED <<shipment, item, audit, faults>>

(* finishOrderEditBalance: CompleteOrderEditBalance, then, after more calls *)
(* to Shopify, markGroupAwaitingSecondPayment.                              *)
CompleteOrderEditBalance(r) ==
    /\ At(r, "save")
    /\ shipment' = [shipment EXCEPT ![Group(r)] =
                      [@ EXCEPT !.claimed = TRUE, !.sent = TRUE, !.aged = FALSE,
                                !.expected = req[r].due]]
    /\ Goto(r, "mark")
    /\ UNCHANGED <<item, shopify, audit, faults>>

MarkGroupAwaiting(r) ==
    /\ At(r, "mark")
    /\ item' = [item EXCEPT ![LineOf[Group(r)]] = "waiting"]
    /\ Finish(r)
    /\ UNCHANGED <<shipment, shopify, audit, faults>>
----------------------------------------------------------------------------
(* Mutant: the price of a billed group is only saved.                       *)
StartSaveOnly(r, g, p) ==
    /\ At(r, "idle")
    /\ ~ shipment[g].paid /\ ~ Unfinished(g)
    /\ Become(r, [Idle EXCEPT !.step = "setShip", !.group = g, !.ship = p])
    /\ UNCHANGED <<shipment, item, shopify, audit, faults>>

(* UpdatePreorderShipping: before the balance is billed it only saves the   *)
(* price; afterwards repriceOrderEditBalance changes the order first.       *)
StartShipping(r, g, p) ==
    /\ At(r, "idle")
    /\ ~ shipment[g].paid /\ ~ Unfinished(g)
    /\ Become(r, [Idle EXCEPT !.step = IF shipment[g].sent THEN "reprice" ELSE "setShip",
                              !.group = g, !.ship = p])
    /\ UNCHANGED <<shipment, item, shopify, audit, faults>>

UpdateShippingByShipmentID(r) ==
    /\ At(r, "setShip")
    /\ shipment' = [shipment EXCEPT ![Group(r)] = [@ EXCEPT !.ship = req[r].ship, !.aged = FALSE]]
    /\ Finish(r)
    /\ UNCHANGED <<item, shopify, audit, faults>>

RepriceBefore(r) ==
    /\ At(r, "reprice")
    /\ IF owed = 0 THEN Finish(r)
                   ELSE Become(r, [req[r] EXCEPT !.step = "rebegin", !.due = owed])
    /\ UNCHANGED <<shipment, item, shopify, audit, faults>>

(* The shipping line of the group is swapped; the total must then be what   *)
(* the order owed a moment ago with the new price for the old one.          *)
RepriceBegin(r) ==
    /\ At(r, "rebegin")
    /\ IF owed = req[r].due
       THEN Become(r, [req[r] EXCEPT !.step = "recommit", !.outdated = FALSE,
                                     !.due = owed - charged[Group(r)] + req[r].ship])
       ELSE Finish(r)
    /\ UNCHANGED <<shipment, item, shopify, audit, faults>>

Swapped(r) == owed - charged[Group(r)] + req[r].ship

RepriceCommit(r) ==
    /\ At(r, "recommit")
    /\ IF req[r].outdated
       THEN Finish(r) /\ UNCHANGED shopify
       ELSE /\ owed' = IF Swapped(r) > 0 THEN Swapped(r) ELSE 0
            /\ charged' = [charged EXCEPT ![Group(r)] = req[r].ship]
            /\ Outdate(r, "resave")
            /\ UNCHANGED <<left, billed, settled>>
    /\ UNCHANGED <<shipment, item, audit, faults>>

UpdateOrderEditBalanceShipping(r) ==
    /\ At(r, "resave")
    /\ IF Mine(r).paid
       THEN Finish(r) /\ UNCHANGED shipment
       ELSE shipment' = [shipment EXCEPT ![Group(r)].expected = req[r].due] /\ Goto(r, "reship")
    /\ UNCHANGED <<item, shopify, audit, faults>>

UpdateInvoicedShipping(r) ==
    /\ At(r, "reship")
    /\ shipment' = IF Mine(r).paid THEN shipment
                   ELSE [shipment EXCEPT ![Group(r)].ship = req[r].ship]
    /\ Finish(r)
    /\ UNCHANGED <<item, shopify, audit, faults>>

(* A call fails, its reply is lost, or the server stops.                    *)
Abandon(r) ==
    /\ ~ At(r, "idle") /\ faults < MaxFaults
    /\ faults' = faults + 1
    /\ Finish(r)
    /\ UNCHANGED <<shipment, item, shopify, audit>>

(* balanceEditClaimTimeout: two minutes after its last write a claim is     *)
(* taken for abandoned.  The code assumes that no request takes that long.  *)
ClaimTimeout(g) ==
    /\ Unfinished(g) /\ ~ shipment[g].aged
    /\ \A r \in Requests : g \notin req[r].during
    /\ shipment' = [shipment EXCEPT ![g].aged = TRUE]
    /\ UNCHANGED <<item, shopify, req, audit, faults>>
----------------------------------------------------------------------------
(* The customer pays what the order owes.                                   *)
Pay ==
    /\ owed > 0
    /\ owed' = 0
    /\ settled' = billed
    /\ UNCHANGED <<shipment, item, left, charged, billed, req, audit, faults>>

(* ReconcileOrderEditBalance, for a webhook or the periodic job: list the   *)
(* awaiting groups, ask Shopify, mark each paid, settle the lines.          *)
Quiet == [step |-> "idle", groups |-> {}]
Audit == [step: {"idle", "look", "pay"}, groups: SUBSET Groups]

(* Mutant: the order is not asked, a webhook came after all.                *)
LookAway(a) ==
    /\ audit[a].step = "look"
    /\ audit' = [audit EXCEPT ![a].step = "pay"]
    /\ UNCHANGED <<shipment, item, shopify, req, faults>>

ReadAwaiting(a) ==
    /\ audit[a].step = "idle"
    /\ \E g \in Groups : Awaiting(g)
    /\ audit' = [audit EXCEPT ![a] = [step |-> "look", groups |-> {g \in Groups : Awaiting(g)}]]
    /\ UNCHANGED <<shipment, item, shopify, req, faults>>

LookAtOrder(a) ==
    /\ audit[a].step = "look"
    /\ audit' = [audit EXCEPT ![a] = IF owed > 0 THEN Quiet ELSE [@ EXCEPT !.step = "pay"]]
    /\ UNCHANGED <<shipment, item, shopify, req, faults>>

MarkInvoicePaid(a) ==
    /\ audit[a].step = "pay"
    /\ \E g \in audit[a].groups :
          /\ shipment' = [shipment EXCEPT ![g].paid = TRUE]
          /\ audit' = [audit EXCEPT ![a].groups = @ \ {g}]
    /\ UNCHANGED <<item, shopify, req, faults>>

HandleSettlementOnlyPayment(a) ==
    /\ audit[a].step = "pay" /\ audit[a].groups = {}
    /\ item' = [l \in Lines |-> IF Covered(l) THEN "received" ELSE item[l]]
    /\ audit' = [audit EXCEPT ![a] = Quiet]
    /\ UNCHANGED <<shipment, shopify, req, faults>>

AbandonAudit(a) ==
    /\ audit[a].step # "idle" /\ faults < MaxFaults
    /\ faults' = faults + 1
    /\ audit' = [audit EXCEPT ![a] = Quiet]
    /\ UNCHANGED <<shipment, item, shopify, req>>
----------------------------------------------------------------------------
Init ==
    /\ shipment = [g \in Groups |-> [claimed |-> FALSE, sent |-> FALSE, paid |-> FALSE,
                                     aged |-> FALSE, expected |-> 0, ship |-> 1]]
    /\ item = [l \in Lines |-> "open"]
    /\ owed = 0
    /\ left = [l \in Lines |-> Cardinality({g \in Groups : LineOf[g] = l})]
    /\ charged = [g \in Groups |-> 0]
    /\ billed = [g \in Groups |-> 0] /\ settled = [g \in Groups |-> 0]
    /\ req = [r \in Requests |-> Idle]
    /\ audit = [a \in Auditors |-> Quiet]
    /\ faults = 0

Edit(r) ==
    \/ CheckOthers(r) \/ AdoptOrderEditBalance(r) \/ ReleaseOrderEditBalanceClaim(r)
    \/ CheckBefore(r) \/ BeginOrderEdit(r) \/ ClaimOrderEditBalance(r) \/ CommitOrderEdit(r)
    \/ CompleteOrderEditBalance(r) \/ MarkGroupAwaiting(r)

Shipping(r) ==
    \/ UpdateShippingByShipmentID(r) \/ RepriceBefore(r) \/ RepriceBegin(r) \/ RepriceCommit(r)
    \/ UpdateOrderEditBalanceShipping(r) \/ UpdateInvoicedShipping(r)

Reconcile(a) ==
    ReadAwaiting(a) \/ LookAtOrder(a) \/ MarkInvoicePaid(a) \/ HandleSettlementOnlyPayment(a)

Next ==
    \/ \E r \in Requests :
          \/ \E g \in Groups : StartRequest(r, g)
          \/ \E g \in Groups, p \in Prices : StartShipping(r, g, p)
          \/ Edit(r) \/ Shipping(r) \/ Abandon(r)
    \/ \E a \in Auditors : Reconcile(a) \/ AbandonAudit(a)
    \/ \E g \in Groups : ClaimTimeout(g)
    \/ Pay

Spec == Init /\ [][Next]_vars
----------------------------------------------------------------------------
TypeOK ==
    /\ shipment \in [Groups -> Row]
    /\ item \in [Lines -> {"open", "waiting", "received"}]
    /\ owed \in Nat
    /\ left \in [Lines -> Int]
    /\ charged \in [Groups -> 0 .. MaxPrice]
    /\ billed \in [Groups -> Nat] /\ settled \in [Groups -> Nat]
    /\ req \in [Requests -> Request]
    /\ audit \in [Auditors -> Audit]
    /\ faults \in 0 .. MaxFaults

(* Shopify is asked to bill a deposit unit at most once, whatever requests  *)
(* race, fail or are repeated: the plan refuses a line without units left.  *)
NoUnitTwice == \A l \in Lines : left[l] >= 0

=============================================================================
