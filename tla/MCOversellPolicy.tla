-------------------------- MODULE MCOversellPolicy -------------------------
(***************************************************************************)
(* Instances of OversellPolicy for TLC.                                    *)
(***************************************************************************)
EXTENDS OversellPolicy, TLC

GroupSymmetry == Permutations(BilledGroups)

(* A group is paid or cancelled after the request that billed it is over.   *)
OrderlyNext ==
    \/ \E g \in BilledGroups : FinishOrderEditBalance(g) \/ AllowOverselling(g) \/ GiveUp(g)
    \/ \E p \in Restorers :
          \/ \E g \in BilledGroups : enable[g] = Away /\ CloseGroup(p, g)
          \/ ReconcileJob(p) \/ RestoreInventoryPolicies(p) \/ FailRestore(p)

OrderlySpec     == PolicyInit /\ [][OrderlyNext]_policyVars
OrderlyFairSpec == OrderlySpec /\ PolicyFairness
=============================================================================
