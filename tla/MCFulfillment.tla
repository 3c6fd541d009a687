-------------------------- MODULE MCFulfillment --------------------------
(* An order of one ship-ready line and one pre-order line in two groups.    *)
EXTENDS Fulfillment, TLC

CONSTANTS g1, g2, desk, shelf
MCQty   == desk :> 1 @@ shelf :> 2
MCUnits == g1 :> (shelf :> 1) @@ g2 :> (shelf :> 1)

GroupSymmetry == Permutations(Groups)
=============================================================================
