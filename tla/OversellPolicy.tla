-------------------------- MODULE OversellPolicy --------------------------
(***************************************************************************)
(* "Sell when out of stock" of the variants whose balance is billed on the *)
(* deposit order: internal/order/inventory_policy.go, allowOverselling in  *)
(* internal/order/balance_edit.go and the rows they share.                 *)
(*                                                                         *)
(* Shopify lets a customer pay an order for a variant that is out of stock *)
(* only when the policy of the variant is CONTINUE.  A request that billed *)
(* a group turns it on; the payment or the cancellation of the group, and  *)
(* a job, turn it off again.  Both ends read, call Shopify and write, one  *)
(* statement at a time.  Every variant is of a product of its own.         *)
(***************************************************************************)
EXTENDS FiniteSets, Naturals

CONSTANTS
    BilledGroups,   \* shipment rows billed by order edit, each for every variant
    Oversold,       \* the variants of their lines
    Restorers,      \* webhooks, cancellations and runs of the job at work
    MaxFailures,    \* bound: failed calls and restarts
    Nil

ASSUME NilAssumption     == Nil \notin BilledGroups \cup Oversold
ASSUME FailureAssumption == MaxFailures \in Nat

VARIABLES
    chosen,     \* what the merchant set in Shopify (history)
    policy,     \* what Shopify has
    row,        \* [BilledGroups -> [Variants -> state of the override row]]
    group,      \* "new", "awaiting" payment, or "closed": paid or cancelled
    enable,     \* the requests inside allowOverselling
    restore,    \* the handlers inside RestoreInventoryPolicies
    failures    \* history: failed calls and restarts so far

policyVars == <<chosen, policy, row, group, enable, restore, failures>>

Policies == {"DENY", "CONTINUE"}
RowState == {"none", "open", "released", "restored"}

Enable  == [step: {"idle", "read", "owned", "add", "set"}, denied: SUBSET Oversold,
            rows: SUBSET Oversold]
Restore == [step: {"idle", "release", "list", "deny", "mark", "recheck", "reopen"},
            todo: SUBSET Oversold, cur: Oversold \cup {Nil}, group: BilledGroups \cup {Nil}]

Away  == [step |-> "idle", denied |-> {}, rows |-> {}]
Quiet == [step |-> "idle", todo |-> {}, cur |-> Nil, group |-> Nil]

(* VariantsWithInventoryPolicyOverride, for released_at and restored_at.    *)
Open(v)     == \E g \in BilledGroups : row[g][v] = "open"
Released(v) == \E g \in BilledGroups : row[g][v] = "released"
Owned(v)    == Open(v) \/ Released(v)
----------------------------------------------------------------------------
Ask(g, e) == enable' = [enable EXCEPT ![g] = e]

(* finishOrderEditBalance saved the group as billed and goes on to          *)
(* allowOverselling, which reads the policies first.                        *)
FinishOrderEditBalance(g) ==
    /\ group[g] = "new"
    /\ group' = [group EXCEPT ![g] = "awaiting"]
    /\ Ask(g, [Away EXCEPT !.step = "read"])
    /\ UNCHANGED <<chosen, policy, row, restore, failures>>

GetVariantInventoryPolicies(g) ==
    /\ enable[g].step = "read"
    /\ Ask(g, [step |-> "owned", denied |-> {v \in Oversold : policy[v] = "DENY"}, rows |-> {}])
    /\ UNCHANGED <<chosen, policy, row, group, restore, failures>>

(* Mutant: a variant that is on already is recorded, whoever turned it on.  *)
RecordAll(g) ==
    /\ enable[g].step = "owned"
    /\ Ask(g, [enable[g] EXCEPT !.step = "add", !.rows = Oversold])
    /\ UNCHANGED <<chosen, policy, row, group, restore, failures>>

(* Which of those that are on did the app turn on for another group?        *)
VariantsWithInventoryPolicyOverride(g) ==
    /\ enable[g].step = "owned"
    /\ Ask(g, [enable[g] EXCEPT !.step = "add",
                                !.rows = enable[g].denied \cup {v \in Oversold : Owned(v)}])
    /\ UNCHANGED <<chosen, policy, row, group, restore, failures>>

ToSet(g, S) == IF S = {} THEN Away ELSE [enable[g] EXCEPT !.step = "set", !.denied = S]

(* "Record first": the rows are written before the first variant is set.    *)
AddInventoryPolicyOverrides(g) ==
    /\ enable[g].step = "add"
    /\ row' = [row EXCEPT ![g] = [v \in Oversold |->
                 IF v \in enable[g].rows /\ @[v] = "none" THEN "open" ELSE @[v]]]
    /\ Ask(g, ToSet(g, enable[g].denied))
    /\ UNCHANGED <<chosen, policy, group, restore, failures>>

SetContinue(g) ==
    /\ enable[g].step = "set"
    /\ \E v \in enable[g].denied :
          /\ policy' = [policy EXCEPT ![v] = "CONTINUE"]
          /\ Ask(g, ToSet(g, enable[g].denied \ {v}))
    /\ UNCHANGED <<chosen, row, group, restore, failures>>

(* A call fails or the server stops; a retry "returns the saved link early  *)
(* and would never get back here".                                          *)
GiveUp(g) ==
    /\ enable[g].step # "idle" /\ failures < MaxFailures
    /\ failures' = failures + 1
    /\ Ask(g, Away)
    /\ UNCHANGED <<chosen, policy, row, group, restore>>
----------------------------------------------------------------------------
At(p, s) == restore[p].step = s
Become(p, r) == restore' = [restore EXCEPT ![p] = r]
NextProduct(p, todo) == IF todo = {} THEN Quiet
                        ELSE [restore[p] EXCEPT !.step = "deny", !.todo = todo, !.cur = Nil]

(* The payment was noticed, or the pre-order cancelled.                     *)
CloseGroup(p, g) ==
    /\ At(p, "idle") /\ group[g] = "awaiting"
    /\ group' = [group EXCEPT ![g] = "closed"]
    /\ Become(p, [Quiet EXCEPT !.step = "release", !.group = g])
    /\ UNCHANGED <<chosen, policy, row, enable, failures>>

ReleaseInventoryPolicyOverrides(p) ==
    /\ At(p, "release")
    /\ row' = [row EXCEPT ![restore[p].group] =
                 [v \in Oversold |-> IF @[v] = "open" THEN "released" ELSE @[v]]]
    /\ Become(p, [Quiet EXCEPT !.step = "list"])
    /\ UNCHANGED <<chosen, policy, group, enable, failures>>

(* The job that backs up the webhooks.                                      *)
ReconcileJob(p) ==
    /\ At(p, "idle") /\ \E v \in Oversold : Released(v)
    /\ Become(p, [Quiet EXCEPT !.step = "list"])
    /\ UNCHANGED <<chosen, policy, row, group, enable, failures>>

ListRestorable(p) ==
    /\ At(p, "list")
    /\ Become(p, NextProduct(p, {v \in Oversold : Released(v) /\ ~ Open(v)}))
    /\ UNCHANGED <<chosen, policy, row, group, enable, failures>>

SetDeny(p) ==
    /\ At(p, "deny")
    /\ \E v \in restore[p].todo :
          /\ policy' = [policy EXCEPT ![v] = "DENY"]
          /\ Become(p, [restore[p] EXCEPT !.step = "mark", !.cur = v])
    /\ UNCHANGED <<chosen, row, group, enable, failures>>

MarkedAs(p, states) ==
    row' = [g \in BilledGroups |-> [row[g] EXCEPT ![restore[p].cur] =
              IF @ \in states THEN "restored" ELSE @]]

(* Mutant: the mark is left to the job.                                     *)
MarkNone(p) ==
    /\ At(p, "mark")
    /\ Become(p, [restore[p] EXCEPT !.step = "recheck"])
    /\ UNCHANGED <<chosen, policy, row, group, enable, failures>>

MarkRestored(p) ==
    /\ At(p, "mark")
    /\ MarkedAs(p, {"released"})
    /\ Become(p, [restore[p] EXCEPT !.step = "recheck"])
    /\ UNCHANGED <<chosen, policy, group, enable, failures>>

(* "A new balance may have joined while this ran."                          *)
Recheck(p) ==
    /\ At(p, "recheck")
    /\ Become(p, IF Open(restore[p].cur) THEN [restore[p] EXCEPT !.step = "reopen"]
                 ELSE NextProduct(p, restore[p].todo \ {restore[p].cur}))
    /\ UNCHANGED <<chosen, policy, row, group, enable, failures>>

Reopen(p) ==
    /\ At(p, "reopen")
    /\ policy' = [policy EXCEPT ![restore[p].cur] = "CONTINUE"]
    /\ Become(p, NextProduct(p, restore[p].todo \ {restore[p].cur}))
    /\ UNCHANGED <<chosen, row, group, enable, failures>>

(* A call fails: the handler returns, or goes on with the next product.  A  *)
(* restart ends it as well.                                                 *)
FailRestore(p) ==
    /\ ~ At(p, "idle") /\ failures < MaxFailures
    /\ failures' = failures + 1
    /\ \/ Become(p, Quiet)
       \/ /\ restore[p].cur # Nil
          /\ Become(p, NextProduct(p, restore[p].todo \ {restore[p].cur}))
    /\ UNCHANGED <<chosen, policy, row, group, enable>>
----------------------------------------------------------------------------
PolicyInit ==
    /\ chosen \in [Oversold -> Policies]
    /\ policy = chosen
    /\ row = [g \in BilledGroups |-> [v \in Oversold |-> "none"]]
    /\ group = [g \in BilledGroups |-> "new"]
    /\ enable = [g \in BilledGroups |-> Away]
    /\ restore = [p \in Restorers |-> Quiet]
    /\ failures = 0

AllowOverselling(g) ==
    \/ GetVariantInventoryPolicies(g) \/ VariantsWithInventoryPolicyOverride(g)
    \/ AddInventoryPolicyOverrides(g) \/ SetContinue(g)

RestoreInventoryPolicies(p) ==
    \/ ReleaseInventoryPolicyOverrides(p) \/ ListRestorable(p) \/ SetDeny(p)
    \/ MarkRestored(p) \/ Recheck(p) \/ Reopen(p)

PolicyNext ==
    \/ \E g \in BilledGroups : FinishOrderEditBalance(g) \/ AllowOverselling(g) \/ GiveUp(g)
    \/ \E p \in Restorers :
          \/ \E g \in BilledGroups : CloseGroup(p, g)
          \/ ReconcileJob(p) \/ RestoreInventoryPolicies(p) \/ FailRestore(p)

PolicySpec == PolicyInit /\ [][PolicyNext]_policyVars

(* Handlers go on, and the job runs every 15 minutes.                       *)
PolicyFairness ==
    /\ \A g \in BilledGroups : WF_policyVars(AllowOverselling(g))
    /\ \A p \in Restorers : WF_policyVars(RestoreInventoryPolicies(p)) /\ WF_policyVars(ReconcileJob(p))

PolicyFairSpec == PolicySpec /\ PolicyFairness
----------------------------------------------------------------------------
PolicyTypeOK ==
    /\ chosen \in [Oversold -> Policies] /\ policy \in [Oversold -> Policies]
    /\ row \in [BilledGroups -> [Oversold -> RowState]]
    /\ group \in [BilledGroups -> {"new", "awaiting", "closed"}]
    /\ enable \in [BilledGroups -> Enable]
    /\ restore \in [Restorers -> Restore]
    /\ failures \in 0 .. MaxFailures

(* "Variants that were already CONTINUE are never recorded, so the app      *)
(* never turns them off": whatever requests and handlers overlap.           *)
ChosenKept == \A v \in Oversold : chosen[v] = "CONTINUE" => policy[v] = "CONTINUE"

(* "Failures are logged and retried on the next run; nothing is lost": a    *)
(* variant whose groups are all released is put back.                       *)
ReleasedIsRestored ==
    \A v \in Oversold : (Released(v) /\ ~ Open(v)) ~> (~ Released(v) \/ Open(v))

=============================================================================
