-------------------------- MODULE MCGroupInvoices --------------------------
(* A line with a unit in each group, and a line of the batch alone.         *)
EXTENDS GroupInvoices, TLC

CONSTANTS l1, l2
MCLines == {l1, l2}
MCHolds == 1 :> {l1} @@ 2 :> {l1, l2}
MCGoods == 1 :> 1 @@ 2 :> 2
=============================================================================
