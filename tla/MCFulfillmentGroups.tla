------------------------ MODULE MCFulfillmentGroups ------------------------
(* Two pre-order lines allocated in every way to two batches, of which the  *)
(* second is first in the queue, and a ship-ready line.                     *)
EXTENDS FulfillmentGroups, TLC

CONSTANTS a, b, r

MCQty      == a :> 2 @@ b :> 1 @@ r :> 2
MCWeight   == a :> 3 @@ b :> 0 @@ r :> 2
MCSequence == <<2, 1>>

(* SoleSpec; packing comes before billing and shipping.                     *)
Tame ==
    /\ SoleCards'
    /\ packing' # packing => card = <<>> /\ \A g \in Groups : ~ shipment[g].priced
    /\ packing' # packing => \A g \in Groups : packing[g] = <<>>
    /\ shipment' # shipment /\ packing' = packing => \A g \in Groups : packing[g] = <<>>
    /\ card' # card => \A g \in Groups : packing[g] = <<>>
TameSpec == GroupsInit /\ [][GroupsNext /\ Tame]_groupVars
=============================================================================
