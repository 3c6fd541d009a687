------------------------- MODULE BalanceEditScenes -------------------------
(***************************************************************************)
(* What BalanceEdit promises depends on who acts at once, so that its      *)
(* promises are stated for three scenes.  "together": any number of        *)
(* requests race while the customer pays what a link asks for.  "in turn": *)
(* one request at a time, re-pricing, and payments at any moment.          *)
(* "asking": as "in turn", by an admin who repeats one request until it is *)
(* answered and types no price.                                            *)
(***************************************************************************)
EXTENDS BalanceEdit

CONSTANT Desk       \* the admin who is alone in the last two scenes

ASSUME DeskAssumption == Desk \in Requests

VARIABLE scene

Scenes == {"together", "in turn", "asking"}

(* Balances are requested, the shipping prices stay as they are.            *)
Requesting(R) ==
    \/ \E r \in R : (\E g \in Groups : StartRequest(r, g)) \/ Edit(r) \/ Abandon(r)
    \/ \E a \in Auditors : Reconcile(a) \/ AbandonAudit(a)
    \/ \E g \in Groups : ClaimTimeout(g)

Repricing(R) ==
    \E r \in R : Shipping(r) \/ \E g \in Groups, p \in Prices : StartShipping(r, g, p)

(* The customer pays an edit that was saved, for then there is a link to it.*)
PayLink == (\E g \in Groups : shipment[g].sent /\ billed[g] > settled[g]) /\ Pay

Together == scene = "together" /\ (Requesting(Requests) \/ PayLink)
InTurn   == scene = "in turn" /\ (Requesting({Desk}) \/ Repricing({Desk}) \/ Pay)
Asking   == scene = "asking" /\ (Requesting({Desk}) \/ Pay)

SceneInit == Init /\ scene \in Scenes
SceneNext == (Together \/ InTurn \/ Asking) /\ UNCHANGED scene

(* A request that runs goes on, claims time out, the periodic job comes     *)
(* round, and the admin tries again.                                        *)
SceneFairness ==
    /\ WF_vars(Edit(Desk)) /\ \A a \in Auditors : WF_vars(Reconcile(a))
    /\ \A g \in Groups : WF_vars(ClaimTimeout(g)) /\ SF_vars(StartRequest(Desk, g))

SceneSpec == SceneInit /\ [][SceneNext]_<<vars, scene>> /\ SceneFairness
----------------------------------------------------------------------------
(* An adoption knows an edit by what the order owes.  That tells whose edit *)
(* it is if no two groups owe the same, or if requests come one at a time.  *)
TellApart == \A g, h \in Groups : Goods[g] = Goods[h] => g = h
Told      == scene = "together" => TellApart

(* balance_edit.go: a lost reply leaves a claim, and the next request       *)
(* "either finishes this edit or redoes it, never both", however requests   *)
(* race, while the customer pays through the link only.                     *)
EditedOnce == scene = "together" => \A g \in Groups : billed[g] <= 1

(* balance_payment.go marks a group "paid once Shopify shows nothing left   *)
(* to pay": then the customer has indeed paid an edit of that group.        *)
PaidWasCollected == Told => \A g \in Groups : shipment[g].paid => settled[g] > 0

(* balance_payment.go: "Only one group can await payment per order, so the  *)
(* payment belongs to it."  So it is when requests come one at a time.      *)
OneAwaiting == scene # "together" => \A g, h \in Groups : Awaiting(g) /\ Awaiting(h) => g = h

(* preorder_fulfillment.go promises not to save "a price the customer is    *)
(* not being charged": once every request is over, and none failed, the row *)
(* of a group awaiting payment has the shipping price that Shopify bills.   *)
SavedPriceIsBilled ==
    Told /\ faults = 0 /\ (\A r \in Requests : req[r] = Idle) =>
        \A g \in Groups : Awaiting(g) => shipment[g].ship = charged[g]

(* "Try again in a few minutes; the app will pick up where it left off":    *)
(* an edit in flight is finished or released if the admin keeps asking.     *)
ClaimResolved == \A g \in Groups : scene = "asking" /\ Unfinished(g) ~> ~ Unfinished(g)
=============================================================================
