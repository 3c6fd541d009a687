--------------------------- MODULE MCBalanceBill ---------------------------
(* Three groups of one order: the first holds two units of the first item,  *)
(* the second one of each item, the third shipping only of the second item. *)
EXTENDS BalanceBill

CONSTANTS v1, v2

MCShare   == <<(<<2, 0>>), (<<1, 1>>), (<<0, 2>>)>>
MCTwoGroups == <<(<<2, 0>>), (<<1, 1>>)>>
MCVariant == <<v1, v2>>
MCFull    == <<5, 4>>
MCDeposit == <<2, 2>>
MCTitle   == <<"A", "B", "C">>

(* What the theorems of BatchesAndBillsProofs take for granted.             *)
ASSUME TitlesAssumption == TitlesApart
=============================================================================
