----------------------------- MODULE BatchBook -----------------------------
(***************************************************************************)
(* What the pre-order batches of one variant promise to the rest of the    *)
(* shop, without rows, locks, snapshots or sequences: an order line buys   *)
(* only while it holds nothing, out of batches that are open and never     *)
(* above the quota a batch has at that moment; a cancelled line gives      *)
(* everything back; and a batch that left the shop never sells again.      *)
(***************************************************************************)
EXTENDS Integers

CONSTANTS
    Batch,   \* the batches a variant can ever have
    Line     \* the order lines that buy from them

VARIABLES
    phase,   \* phase[b]: "absent" before it exists, "open", then "over"
    quota,   \* quota[b]: the units the batch offers
    sold,    \* sold[b]: the units it counts as sold
    bought   \* bought[l][b]: the units line l holds in batch b

vars == <<phase, quota, sold, bought>>

Nothing == [b \in Batch |-> 0]

Init ==
    /\ phase = [b \in Batch |-> "absent"]
    /\ quota = Nothing
    /\ sold = Nothing
    /\ bought = [l \in Line |-> Nothing]

(* Batches only go one way; an action that ends some of them says so with   *)
(* this conjunct.                                                           *)
SomeEnd ==
    phase' \in {p \in [Batch -> {"absent", "open", "over"}] :
                  \A b \in Batch : p[b] # phase[b] =>
                                     phase[b] = "open" /\ p[b] = "over"}

(* A batch is put on offer, with a quota and nothing sold.                  *)
Offer(b) ==
    /\ phase[b] = "absent"
    /\ phase' = [phase EXCEPT ![b] = "open"]
    /\ quota'[b] \in Nat \ {0}
    /\ quota' = [quota EXCEPT ![b] = quota'[b]]
    /\ UNCHANGED <<sold, bought>>

(* The quota of an open batch changes.                                      *)
Resize(b) ==
    /\ phase[b] = "open"
    /\ quota'[b] \in Nat \ {0}
    /\ quota' = [quota EXCEPT ![b] = quota'[b]]
    /\ UNCHANGED <<phase, sold, bought>>

(* Some open batches end; nothing is sold.                                  *)
Retire ==
    /\ SomeEnd
    /\ UNCHANGED <<quota, sold, bought>>

(* A line that holds nothing buys; batches may end with the sale.           *)
Buy(l) ==
    /\ bought[l] = Nothing
    /\ bought' = [bought EXCEPT ![l] = bought'[l]]
    /\ bought'[l] \in [Batch -> Nat]
    /\ \A b \in Batch : bought'[l][b] > 0 =>
          phase[b] = "open" /\ sold[b] + bought'[l][b] <= quota[b]
    /\ sold' = [b \in Batch |-> sold[b] + bought'[l][b]]
    /\ SomeEnd
    /\ UNCHANGED quota

(* A line gives back all it holds; the batches stay as they are.            *)
Return(l) ==
    /\ bought' = [bought EXCEPT ![l] = Nothing]
    /\ sold' = [b \in Batch |-> sold[b] - bought[l][b]]
    /\ UNCHANGED <<phase, quota>>

Next ==
    \/ Retire
    \/ \E b \in Batch : Offer(b) \/ Resize(b)
    \/ \E l \in Line : Buy(l) \/ Return(l)

Spec == Init /\ [][Next]_vars
=============================================================================
