-------------------------- MODULE MCCheckoutLocks --------------------------
(***************************************************************************)
(* Bounds for TLC: two scenes over the same module.  In one, a worker does *)
(* everything, and calls fail; in the other, two workers overlap, and none *)
(* does.                                                                   *)
(***************************************************************************)
EXTENDS CheckoutLocks

VARIABLE scene

Staff == IF scene = "failing" THEN {CHOOSE w \in Workers : TRUE} ELSE Workers

MCInit == scene \in {"failing", "racing"} /\ Init

(* Carts ask for all there is, or for pre-orders only.                      *)
Racing == scene = "racing" => faults' = faults /\ \A w \in Workers : req'[w].qty \in {0, MaxQty}

MCNext ==
    /\ UNCHANGED scene
    /\ \/ \E w \in Staff : (Start(w) \/ Work(w) \/ Abandon(w)) /\ Racing
       \/ scene = "failing" /\ Manual
       \/ \E c \in Checkouts : Pay(c) \/ Expire(c)

(* Requests go on, time passes, and the job runs every five minutes.        *)
MCFairness ==
    /\ \A w \in Workers : /\ WF_vars(w \in Staff /\ Work(w))
                          /\ SF_vars(w \in Staff /\ ListExpiredCheckoutSessions(w))
    /\ \A c \in Checkouts : WF_vars(Expire(c))

MCSpec == MCInit /\ [][MCNext]_<<vars, scene>> /\ MCFairness
=============================================================================
