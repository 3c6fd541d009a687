--------------------------- MODULE MCBalanceEdit ---------------------------
(***************************************************************************)
(* An instance of BalanceEditScenes for TLC: two groups of one order,      *)
(* which owe different amounts and whose units share a deposit line.       *)
(***************************************************************************)
EXTENDS BalanceEditScenes, TLC

CONSTANTS g1, shelf

MCSharedLine == [g \in Groups |-> shelf]
MCGoods      == [g \in Groups |-> IF g = g1 THEN 2 ELSE 3]
=============================================================================
