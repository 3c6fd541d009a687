------------------------- MODULE BalanceEditProofs -------------------------
(***************************************************************************)
(* For any groups, lines, prices, requests and auditors. In Spec: the      *)
(* variables of BalanceEdit keep their types, and no deposit unit is       *)
(* billed twice. In SceneSpec, the scenes of BalanceEditScenes: no edit is *)
(* made twice however requests race, fail and are retried; a group is      *)
(* marked paid only when its edit was; one group awaits payment at a time, *)
(* at the price that was saved for it. The second half rests on one        *)
(* invariant, SceneInv, that says what every request in flight knows of    *)
(* the order and what the order then owes.                                 *)
(***************************************************************************)
EXTENDS BalanceEditScenes, FiniteSetTheorems, TLAPS

(* An edit session that is not outdated still stands on the deposit line it *)
(* looked at, so the unit it saw is there to be taken.  Several requests    *)
(* may hold such sessions: the first commit outdates the others.            *)
Fits(q)     == q.step \in {"claim", "commit"} /\ ~ q.outdated => left[LineOf[q.group]] > 0
SessionsFit == \A r \in Requests : Fits(req[r])

(* A request beyond its start serves a group.                               *)
Serves(q) == q.step # "idle" => q.group \in Groups
Serving   == \A r \in Requests : Serves(req[r])

Inv == TypeOK /\ NoUnitTwice /\ SessionsFit /\ Serving

LEMMA InitInv == Init => Inv
<1> SUFFICES ASSUME Init PROVE Inv
  OBVIOUS
<1> USE DEF Init
<1>1. ASSUME NEW l \in Lines
      PROVE  Cardinality({g \in Groups : LineOf[g] = l}) \in Nat
  <2>1. IsFiniteSet({g \in Groups : LineOf[g] = l})
    BY FS_Subset, GroupsAssumption
  <2> QED
    BY <2>1, FS_CardinalityType
<1>2. shipment \in [Groups -> Row]
  BY BoundsAssumption DEF Row, Prices
<1>3. Idle \in Request /\ Quiet \in Audit
  BY BoundsAssumption DEF Idle, Request, Steps, Quiet, Audit
<1>4. TypeOK
  BY <1>1, <1>2, <1>3, BoundsAssumption DEF TypeOK
<1>5. NoUnitTwice
  BY <1>1 DEF NoUnitTwice
<1>6. SessionsFit /\ Serving
  BY DEF SessionsFit, Serving, Fits, Serves, Idle
<1> QED
  BY <1>4, <1>5, <1>6 DEF Inv

(* What a step has to keep besides the types of the other variables.        *)
Kept == req' \in [Requests -> Request] /\ NoUnitTwice' /\ SessionsFit' /\ Serving'

(* A request moves on and no unit is taken from a deposit line.             *)
LEMMA RequestMoves ==
    ASSUME Inv, NEW r \in Requests, NEW q \in Request, Become(r, q), left' = left,
           Fits(q), Serves(q)
    PROVE  Kept
  BY DEF Inv, TypeOK, NoUnitTwice, SessionsFit, Serving, Fits, Serves, Become, Kept

(* Nothing that the sessions and the deposit lines depend on changes.       *)
LEMMA RequestsRest ==
    ASSUME Inv, left' = left, req' = req
    PROVE  Kept
  BY DEF Inv, TypeOK, NoUnitTwice, SessionsFit, Serving, Fits, Serves, Kept
LEMMA IdleFits == Idle \in Request /\ Fits(Idle) /\ Serves(Idle)
  BY BoundsAssumption DEF Idle, Request, Steps, Fits, Serves

LEMMA FinishMoves ==
    ASSUME Inv, NEW r \in Requests, Finish(r), left' = left
    PROVE  Kept
  BY IdleFits, RequestMoves DEF Finish

LEMMA GotoMoves ==
    ASSUME Inv, NEW r \in Requests, NEW s \in Steps \ {"claim", "commit"}, Goto(r, s),
           req[r].step # "idle", left' = left
    PROVE  Kept
<1> DEFINE q == [req[r] EXCEPT !.step = s]
<1>1. req[r] \in Request /\ Serves(req[r])
  BY DEF Inv, TypeOK, Serving
<1>2. q \in Request /\ q.step = s /\ q.group = req[r].group
  BY <1>1 DEF Request, Steps
<1>3. Fits(q) /\ Serves(q)
  BY <1>1, <1>2 DEF Fits, Serves
<1> QED
  BY <1>2, <1>3, RequestMoves DEF Goto

(* RequestSecondPayment reads the row.                                      *)
LEMMA StartRequestKeeps ==
    ASSUME Inv, NEW r \in Requests, NEW g \in Groups, StartRequest(r, g)
    PROVE  Inv'
<1> DEFINE v == IF ~ shipment[g].claimed THEN "none"
                ELSE IF shipment[g].aged THEN "aged" ELSE "fresh"
           q == [Idle EXCEPT !.step = "others", !.group = g, !.ship = shipment[g].ship,
                             !.due = shipment[g].expected, !.seen = v]
<1>1. v \in {"none", "fresh", "aged"}
  OBVIOUS
<1>2. shipment[g].ship \in 0 .. MaxPrice /\ shipment[g].expected \in Int
  BY BoundsAssumption DEF Inv, TypeOK, Row, Prices
<1>3. q \in Request /\ Fits(q) /\ Serves(q)
  BY <1>1, <1>2, IdleFits DEF Request, Steps, Fits, Serves, Idle
<1>4. Become(r, q) /\ UNCHANGED <<shipment, item, shopify, audit, faults>>
  BY DEF StartRequest
<1> QED
  BY <1>3, <1>4, RequestMoves DEF Inv, TypeOK, Kept, shopify

(* The steps that only move the request.                                    *)
LEMMA CheckKeeps ==
    ASSUME Inv, NEW r \in Requests,
           CheckOthers(r) \/ AdoptOrderEditBalance(r) \/ CheckBefore(r)
    PROVE  Inv'
<1>1. req[r].step # "idle"
  BY DEF CheckOthers, AdoptOrderEditBalance, CheckBefore, At
<1>2. UNCHANGED <<shipment, item, shopify, audit, faults>>
  BY DEF CheckOthers, AdoptOrderEditBalance, CheckBefore
<1>3. Finish(r) \/ \E s \in Steps \ {"claim", "commit"} : Goto(r, s)
  BY DEF CheckOthers, AdoptOrderEditBalance, CheckBefore, Steps
<1>4. Kept
  BY <1>1, <1>2, <1>3, FinishMoves, GotoMoves DEF shopify
<1> QED
  BY <1>2, <1>4 DEF Inv, TypeOK, Kept, shopify

(* The steps that write the row of the group or the order line.             *)
LEMMA WriteKeeps ==
    ASSUME Inv, NEW r \in Requests,
           \/ ReleaseOrderEditBalanceClaim(r) \/ CompleteOrderEditBalance(r)
           \/ MarkGroupAwaiting(r) \/ UpdateShippingByShipmentID(r)
           \/ UpdateOrderEditBalanceShipping(r) \/ UpdateInvoicedShipping(r)
    PROVE  Inv'
<1> USE DEF ReleaseOrderEditBalanceClaim, CompleteOrderEditBalance, MarkGroupAwaiting,
            UpdateShippingByShipmentID, UpdateOrderEditBalanceShipping, UpdateInvoicedShipping
<1>1. req[r].step # "idle" /\ req[r] \in Request /\ Group(r) \in Groups
  BY DEF At, Inv, TypeOK, Serving, Serves, Group
<1>2. UNCHANGED <<shopify, audit, faults>>
  OBVIOUS
<1>3. Finish(r) \/ \E s \in Steps \ {"claim", "commit"} : Goto(r, s)
  BY DEF Steps
<1>4. Kept
  BY <1>1, <1>2, <1>3, FinishMoves, GotoMoves DEF shopify
<1>5. req[r].due \in Int /\ req[r].ship \in 0 .. MaxPrice
  BY <1>1 DEF Request
<1>6. shipment' \in [Groups -> Row]
  <2>1. shipment \in [Groups -> Row]
    BY DEF Inv, TypeOK
  <2>2. CASE ReleaseOrderEditBalanceClaim(r)
    <3> DEFINE w == [shipment[Group(r)] EXCEPT !.claimed = FALSE, !.expected = 0, !.aged = FALSE]
    <3>1. shipment[Group(r)] \in Row
      BY <1>1, <2>1
    <3>2. w \in Row
      <4>1. ASSUME NEW x \in Row, NEW n \in Int, NEW b \in BOOLEAN
            PROVE  [x EXCEPT !.claimed = b, !.expected = n, !.aged = b] \in Row
        BY DEF Row
      <4>2. FALSE \in BOOLEAN /\ 0 \in Int
        OBVIOUS
      <4> QED
        BY <3>1, <4>1, <4>2, Zenon
    <3>3. shipment' = [shipment EXCEPT ![Group(r)] = w] \/ shipment' = shipment
      BY <2>2
    <3> QED
      BY <2>1, <3>2, <3>3
  <2>3. CASE CompleteOrderEditBalance(r)
    <3> DEFINE w == [shipment[Group(r)] EXCEPT !.claimed = TRUE, !.sent = TRUE, !.aged = FALSE,
                                               !.expected = req[r].due]
    <3>1. shipment[Group(r)] \in Row
      BY <1>1, <2>1
    <3>2. w \in Row
      BY <1>5, <3>1 DEF Row
    <3>3. shipment' = [shipment EXCEPT ![Group(r)] = w]
      BY <2>3
    <3> QED
      BY <2>1, <3>2, <3>3
  <2>4. CASE MarkGroupAwaiting(r)
    BY <2>1, <2>4
  <2>5. CASE UpdateShippingByShipmentID(r)
    BY <1>1, <1>5, <2>1, <2>5 DEF Row
  <2>6. CASE UpdateOrderEditBalanceShipping(r)
    BY <1>1, <1>5, <2>1, <2>6 DEF Row
  <2>7. CASE UpdateInvoicedShipping(r)
    BY <1>1, <1>5, <2>1, <2>7 DEF Row
  <2> QED
    BY <2>2, <2>3, <2>4, <2>5, <2>6, <2>7
<1>7. item' \in [Lines -> {"open", "waiting", "received"}]
  BY <1>1 DEF Inv, TypeOK
<1> QED
  BY <1>2, <1>4, <1>6, <1>7 DEF Inv, TypeOK, Kept, shopify

(* The plan takes a unit only from a deposit line that has one.             *)
LEMMA BeginKeeps ==
    ASSUME Inv, NEW r \in Requests, BeginOrderEdit(r)
    PROVE  Inv'
<1> DEFINE q == [req[r] EXCEPT !.step = "claim", !.outdated = FALSE,
                               !.due = Goods[Group(r)] + req[r].ship]
<1>1. req[r] \in Request /\ Group(r) \in Groups /\ Group(r) = req[r].group
  BY DEF BeginOrderEdit, Balance, DepositLeft, At, Inv, TypeOK, Serving, Serves, Group
<1>2. Goods[Group(r)] + req[r].ship \in Int
  BY <1>1, MoneyAssumption, BoundsAssumption DEF Request
<1>3. q \in Request /\ q.group = Group(r) /\ q.step = "claim"
  BY <1>1, <1>2 DEF Request, Steps
<1>4. CASE left[LineOf[Group(r)]] > 0 /\ owed = 0
  <2>1. Fits(q) /\ Serves(q) /\ Become(r, q)
    BY <1>1, <1>3, <1>4 DEF Fits, Serves, BeginOrderEdit, Balance, DepositLeft
  <2> QED
    BY <1>3, <2>1, RequestMoves DEF BeginOrderEdit, Balance, DepositLeft, Inv, TypeOK, Kept, shopify
<1>5. CASE ~ (left[LineOf[Group(r)]] > 0 /\ owed = 0)
  BY <1>5, FinishMoves DEF BeginOrderEdit, Balance, DepositLeft, Inv, TypeOK, Kept, shopify
<1> QED
  BY <1>4, <1>5

(* The claim sees every request in flight; no session gets fresher by it.   *)
LEMMA ClaimKeeps ==
    ASSUME Inv, NEW r \in Requests, ClaimOrderEditBalance(r)
    PROVE  Inv'
<1>1. req[r] \in Request /\ Group(r) \in Groups /\ req[r].step = "claim"
  BY DEF ClaimOrderEditBalance, At, Inv, TypeOK, Serving, Serves, Group
<1>2. CASE Mine(r).claimed \/ Mine(r).sent
  BY <1>2, FinishMoves DEF ClaimOrderEditBalance, Inv, TypeOK, Kept, shopify
<1>3. CASE ~ (Mine(r).claimed \/ Mine(r).sent)
  <2> DEFINE next(p) == [req[p] EXCEPT !.step = IF p = r THEN "commit" ELSE @,
                                       !.during = IF req[p].step = "idle" THEN @
                                                  ELSE @ \cup {Group(r)}]
  <2>1. req' = [p \in Requests |-> next(p)] /\ UNCHANGED <<item, shopify, audit, faults>>
    BY <1>3 DEF ClaimOrderEditBalance
  <2>2. \A p \in Requests : req[p] \in Request /\ Fits(req[p]) /\ Serves(req[p])
    BY DEF Inv, TypeOK, SessionsFit, Serving
  <2>3. \A p \in Requests :
          /\ next(p) \in Request /\ next(p).group = req[p].group
          /\ next(p).outdated = req[p].outdated
          /\ next(p).step = IF p = r THEN "commit" ELSE req[p].step
    BY <1>1, <2>2 DEF Request, Steps
  <2>4. \A p \in Requests : Fits(next(p)) /\ Serves(next(p))
    BY <1>1, <2>2, <2>3 DEF Fits, Serves
  <2>5. Kept
    BY <2>1, <2>3, <2>4 DEF Inv, TypeOK, NoUnitTwice, SessionsFit, Serving, Fits, Serves, Kept,
                            shopify
  <2>6. shipment' \in [Groups -> Row]
    <3>1. shipment \in [Groups -> Row] /\ req[r].due \in Int
      BY <1>1 DEF Inv, TypeOK, Request
    <3> QED
      BY <1>1, <1>3, <3>1 DEF ClaimOrderEditBalance, Row
  <2> QED
    BY <2>1, <2>5, <2>6 DEF Inv, TypeOK, Kept, shopify
<1> QED
  BY <1>2, <1>3

(* A commit takes the unit its session saw and outdates every other one.    *)
LEMMA OutdateKeeps ==
    ASSUME Inv, NEW r \in Requests, NEW s \in {"save", "resave"}, Outdate(r, s),
           req[r].step # "idle", \A l \in Lines : left'[l] >= 0
    PROVE  Kept
<1> DEFINE next(p) == [req[p] EXCEPT !.step = IF p = r THEN s ELSE @,
                                     !.outdated = @ \/ req[p].step # "idle"]
<1>1. req' = [p \in Requests |-> next(p)]
  BY DEF Outdate
<1>2. \A p \in Requests : req[p] \in Request /\ Serves(req[p])
  BY DEF Inv, TypeOK, Serving
<1>3. \A p \in Requests :
        /\ next(p) \in Request /\ next(p).group = req[p].group
        /\ next(p).outdated = (req[p].outdated \/ req[p].step # "idle")
        /\ next(p).step = IF p = r THEN s ELSE req[p].step
  BY <1>2 DEF Request, Steps
<1>4. \A p \in Requests : Serves(next(p)) /\ (next(p).step \in {"claim", "commit"} => next(p).outdated)
  BY <1>2, <1>3 DEF Serves
<1> QED
  BY <1>1, <1>3, <1>4 DEF NoUnitTwice, SessionsFit, Serving, Fits, Serves, Kept

LEMMA CommitKeeps ==
    ASSUME Inv, NEW r \in Requests, CommitOrderEdit(r)
    PROVE  Inv'
<1>1. /\ req[r] \in Request /\ Group(r) \in Groups /\ Group(r) = req[r].group
      /\ req[r].step = "commit"
  BY DEF CommitOrderEdit, At, Inv, TypeOK, Serving, Serves, Group
<1>2. UNCHANGED <<shipment, item, audit, faults>>
  BY DEF CommitOrderEdit
<1>3. CASE req[r].outdated
  BY <1>2, <1>3, FinishMoves DEF CommitOrderEdit, Inv, TypeOK, Kept, shopify
<1>4. CASE ~ req[r].outdated
  <2>1. left[LineOf[Group(r)]] > 0 /\ LineOf[Group(r)] \in Lines
    BY <1>1, <1>4, GroupsAssumption DEF Inv, SessionsFit, Fits
  <2>2. left' = [left EXCEPT ![LineOf[Group(r)]] = @ - 1] /\ Outdate(r, "save")
    BY <1>4 DEF CommitOrderEdit
  <2>3. left' \in [Lines -> Int] /\ \A l \in Lines : left'[l] >= 0
    BY <2>1, <2>2 DEF Inv, TypeOK, NoUnitTwice
  <2>4. Kept
    BY <1>1, <2>2, <2>3, OutdateKeeps
  <2>5. owed' \in Nat
    <3>1. owed \in Nat /\ Goods[Group(r)] \in Nat /\ req[r].ship \in Nat
      BY <1>1, MoneyAssumption, BoundsAssumption DEF Inv, TypeOK, Request
    <3>2. owed' = owed + Balance(r)
      BY <1>4 DEF CommitOrderEdit
    <3> QED
      BY <3>1, <3>2 DEF Balance
  <2>6. charged' \in [Groups -> 0 .. MaxPrice]
    BY <1>1, <1>4 DEF CommitOrderEdit, Inv, TypeOK, Request
  <2>7. billed' \in [Groups -> Nat] /\ settled' = settled
    BY <1>1, <1>4 DEF CommitOrderEdit, Inv, TypeOK
  <2> QED
    BY <1>2, <2>3, <2>4, <2>5, <2>6, <2>7 DEF Inv, TypeOK, Kept
<1> QED
  BY <1>3, <1>4

LEMMA RepriceCommitKeeps ==
    ASSUME Inv, NEW r \in Requests, RepriceCommit(r)
    PROVE  Inv'
<1>1. req[r] \in Request /\ Group(r) \in Groups /\ req[r].step = "recommit"
  BY DEF RepriceCommit, At, Inv, TypeOK, Serving, Serves, Group
<1>2. UNCHANGED <<shipment, item, audit, faults>>
  BY DEF RepriceCommit
<1>3. CASE req[r].outdated
  BY <1>2, <1>3, FinishMoves DEF RepriceCommit, Inv, TypeOK, Kept, shopify
<1>4. CASE ~ req[r].outdated
  <2>1. Outdate(r, "resave") /\ UNCHANGED <<left, billed, settled>>
    BY <1>4 DEF RepriceCommit
  <2>2. Kept
    BY <1>1, <2>1, OutdateKeeps DEF Inv, NoUnitTwice
  <2>3. owed' \in Nat
    <3>1. Swapped(r) \in Int
      BY <1>1, BoundsAssumption DEF Swapped, Inv, TypeOK, Request
    <3> QED
      BY <1>4, <3>1 DEF RepriceCommit
  <2>4. charged' \in [Groups -> 0 .. MaxPrice]
    BY <1>1, <1>4 DEF RepriceCommit, Inv, TypeOK, Request
  <2> QED
    BY <1>2, <2>1, <2>2, <2>3, <2>4 DEF Inv, TypeOK, Kept
<1> QED
  BY <1>3, <1>4

(* Shipping prices: reading the row, and looking at the order twice.        *)
LEMMA ShippingKeeps ==
    ASSUME Inv, NEW r \in Requests,
           \/ \E g \in Groups, p \in Prices : StartShipping(r, g, p)
           \/ RepriceBefore(r) \/ RepriceBegin(r)
    PROVE  Inv'
<1>1. UNCHANGED <<shipment, item, shopify, audit, faults>>
  BY DEF StartShipping, RepriceBefore, RepriceBegin
<1>2. ASSUME NEW g \in Groups, NEW p \in Prices, StartShipping(r, g, p)
      PROVE  Kept
  <2> DEFINE q == [Idle EXCEPT !.step = IF shipment[g].sent THEN "reprice" ELSE "setShip",
                               !.group = g, !.ship = p]
  <2>1. q.step \in {"reprice", "setShip"} /\ q.group = g
    BY DEF Idle
  <2>2. p \in 0 .. MaxPrice
    BY BoundsAssumption DEF Prices
  <2>3. q \in Request
    BY IdleFits, <2>1, <2>2 DEF Idle, Request, Steps
  <2>4. Fits(q) /\ Serves(q)
    BY <2>1 DEF Fits, Serves
  <2> QED
    BY <1>1, <1>2, <2>3, <2>4, RequestMoves DEF StartShipping, shopify
<1>3. ASSUME RepriceBefore(r) \/ RepriceBegin(r)
      PROVE  /\ req[r] \in Request /\ Group(r) \in Groups
             /\ owed \in Int /\ owed - charged[Group(r)] + req[r].ship \in Int
  BY <1>3, BoundsAssumption
     DEF RepriceBefore, RepriceBegin, At, Inv, TypeOK, Serving, Serves, Group, Request
<1>4. CASE RepriceBefore(r)
  <2> DEFINE q == [req[r] EXCEPT !.step = "rebegin", !.due = owed]
  <2>1. q \in Request /\ Fits(q) /\ Serves(q)
    BY <1>3, <1>4 DEF Request, Steps, Fits, Serves, Group
  <2>2. Finish(r) \/ Become(r, q)
    BY <1>4 DEF RepriceBefore
  <2> QED
    BY <1>1, <2>1, <2>2, RequestMoves, FinishMoves DEF Inv, TypeOK, Kept, shopify
<1>5. CASE RepriceBegin(r)
  <2> DEFINE q == [req[r] EXCEPT !.step = "recommit", !.outdated = FALSE,
                                 !.due = owed - charged[Group(r)] + req[r].ship]
  <2>1. q \in Request /\ Fits(q) /\ Serves(q)
    BY <1>3, <1>5 DEF Request, Steps, Fits, Serves, Group
  <2>2. Finish(r) \/ Become(r, q)
    BY <1>5 DEF RepriceBegin
  <2> QED
    BY <1>1, <2>1, <2>2, RequestMoves, FinishMoves DEF Inv, TypeOK, Kept, shopify
<1> QED
  BY <1>1, <1>2, <1>4, <1>5 DEF Inv, TypeOK, Kept, shopify

(* Failures, the clock, the customer and the auditors.                      *)
LEMMA OutsideKeeps ==
    ASSUME Inv,
           \/ \E r \in Requests : Abandon(r)
           \/ \E a \in Auditors : Reconcile(a) \/ AbandonAudit(a)
           \/ \E g \in Groups : ClaimTimeout(g)
           \/ Pay
    PROVE  Inv'
<1>1. Quiet \in Audit
  BY DEF Quiet, Audit
<1>2. ASSUME NEW r \in Requests, Abandon(r) PROVE Inv'
  <2>1. Kept
    BY <1>2, FinishMoves DEF Abandon, shopify
  <2> QED
    BY <1>2, <2>1, BoundsAssumption DEF Abandon, Inv, TypeOK, Kept, shopify
<1>3. ASSUME NEW a \in Auditors, Reconcile(a) \/ AbandonAudit(a) PROVE Inv'
  <2> USE DEF Reconcile, ReadAwaiting, LookAtOrder, MarkInvoicePaid, HandleSettlementOnlyPayment, Covered,
              AbandonAudit
  <2>1. UNCHANGED <<shopify, req>> /\ faults' \in 0 .. MaxFaults
    BY <1>3, BoundsAssumption DEF Inv, TypeOK
  <2>2. Kept
    BY <2>1, RequestsRest DEF shopify
  <2>3. audit[a] \in Audit
    BY DEF Inv, TypeOK
  <2>4. audit' \in [Auditors -> Audit]
    BY <1>1, <1>3, <2>3 DEF Inv, TypeOK, Audit
  <2>5. shipment' \in [Groups -> Row]
    <3>1. shipment \in [Groups -> Row] /\ audit[a].groups \subseteq Groups
      BY <2>3 DEF Inv, TypeOK, Audit
    <3>2. CASE MarkInvoicePaid(a)
      BY <3>1, <3>2 DEF Row
    <3>3. CASE ~ MarkInvoicePaid(a)
      BY <1>3, <3>1, <3>3
    <3> QED
      BY <3>2, <3>3
  <2>6. item' \in [Lines -> {"open", "waiting", "received"}]
    BY <1>3 DEF Inv, TypeOK
  <2> QED
    BY <2>1, <2>2, <2>4, <2>5, <2>6 DEF Inv, TypeOK, Kept, shopify
<1>4. ASSUME NEW g \in Groups, ClaimTimeout(g) PROVE Inv'
  <2>1. Kept
    BY <1>4, RequestsRest DEF ClaimTimeout, shopify
  <2> QED
    BY <1>4, <2>1 DEF ClaimTimeout, Inv, TypeOK, Row, Kept, shopify
<1>5. CASE Pay
  <2>1. Kept
    BY <1>5, RequestsRest DEF Pay
  <2> QED
    BY <1>5, <2>1 DEF Pay, Inv, TypeOK, Kept
<1> QED
  BY <1>2, <1>3, <1>4, <1>5

LEMMA StepInv == Inv /\ [Next]_vars => Inv'
<1> SUFFICES ASSUME Inv, [Next]_vars PROVE Inv'
  OBVIOUS
<1>1. ASSUME NEW r \in Requests, NEW g \in Groups, StartRequest(r, g) PROVE Inv'
  BY <1>1, StartRequestKeeps
<1>2. ASSUME NEW r \in Requests, Edit(r) PROVE Inv'
  BY <1>2, CheckKeeps, WriteKeeps, BeginKeeps, ClaimKeeps, CommitKeeps DEF Edit
<1>3. ASSUME NEW r \in Requests, NEW g \in Groups, NEW p \in Prices, StartShipping(r, g, p)
      PROVE  Inv'
  BY <1>3, ShippingKeeps
<1>4. ASSUME NEW r \in Requests, Shipping(r) PROVE Inv'
  BY <1>4, ShippingKeeps, RepriceCommitKeeps, WriteKeeps DEF Shipping
<1>5. CASE UNCHANGED vars
  BY <1>5, RequestsRest DEF vars, shopify, Inv, TypeOK, Kept
<1> QED
  BY <1>1, <1>2, <1>3, <1>4, <1>5, OutsideKeeps DEF Next

LEMMA Invariance == Spec => []Inv
  BY InitInv, StepInv, PTL DEF Spec

(* Every variable of BalanceEdit keeps its type.                            *)
THEOREM TypeCorrect == Spec => []TypeOK
<1>1. Inv => TypeOK
  BY DEF Inv
<1> QED
  BY <1>1, Invariance, PTL

(* Whatever admins, failures, retries and payments do: an edit that Shopify *)
(* commits always finds a unit on its deposit line to bill.                 *)
THEOREM UnitsCorrect == Spec => []NoUnitTwice
<1>1. Inv => NoUnitTwice
  BY DEF Inv
<1> QED
  BY <1>1, Invariance, PTL
----------------------------------------------------------------------------
(* The scenes.  What holds in each of them: a row is claimed before it is   *)
(* sent and sent before it is paid, auditors list groups that were sent,    *)
(* and no more edits are paid than were made.                               *)
Rows   == \A g \in Groups : /\ shipment[g].sent => shipment[g].claimed
                            /\ shipment[g].paid => shipment[g].sent
Listed == \A a \in Auditors : \A g \in audit[a].groups : shipment[g].sent
Ledger == \A g \in Groups : settled[g] <= billed[g]

EditSteps == {"others", "adopt", "release", "before", "begin", "claim", "commit", "save"}

(* "together": a session that is not outdated stands on an order that owes  *)
(* nothing.  What the order owes is one edit of one group, and the customer *)
(* pays it only once that group is sent, which refuses further claims.      *)
RaceBook ==
    /\ owed = 0 <=> \A g \in Groups : billed[g] = settled[g]
    /\ \A g, h \in Groups : billed[g] > settled[g] /\ billed[h] > settled[h] => g = h
    /\ \A g \in Groups : billed[g] <= 1 /\ (settled[g] > 0 => shipment[g].sent)
Races(q) ==
    /\ q.step \in EditSteps \cup {"idle", "mark"}
    /\ q.step \in {"claim", "commit"} /\ ~ q.outdated =>
          owed = 0 /\ (q.step = "commit" => billed[q.group] = 0)
Racing == RaceBook /\ \A r \in Requests : Races(req[r])

(* If amounts tell groups apart, an adoption finds its own edit.            *)
Sum(g)   == Goods[g] + 1
SumBook  ==
    \A g \in Groups : /\ shipment[g].ship = 1
                      /\ shipment[g].claimed => shipment[g].expected = Sum(g)
                      /\ billed[g] > 0 => charged[g] = 1
                      /\ billed[g] > settled[g] => owed = Sum(g)
Sums(q)  ==
    /\ q.step # "idle" => q.ship = 1
    /\ (q.step = "others" /\ q.seen = "aged") \/ q.step \in {"adopt", "claim", "commit", "save"} =>
          q.due = Sum(q.group)
    /\ q.step = "save" => billed[q.group] > 0
Summing  == SumBook /\ \A r \in Requests : Sums(req[r])

(* "in turn" and "asking": the only request knows the row of its group, and *)
(* no other group is being billed while it edits the order.                 *)
Alone   == \A r \in Requests \ {Desk} : At(r, "idle")
OneBill == \A g, h \in Groups : Billing(g) /\ Billing(h) => g = h
Owes(g) == billed[g] > 0 /\ settled[g] = 0
BillBook ==
    /\ \A g \in Groups : Owes(g) => Billing(g) /\ owed = Goods[g] + charged[g]
    /\ \A g \in Groups : Unfinished(g) /\ owed > 0 => billed[g] > 0
Knows(q) ==
    /\ q.step \in EditSteps => ~ shipment[q.group].sent
    /\ q.step = "others" => (q.seen = "none" <=> ~ shipment[q.group].claimed)
    /\ q.step \in {"adopt", "release", "commit", "save"} => shipment[q.group].claimed
    /\ q.step \in {"before", "begin", "claim", "setShip"} => ~ shipment[q.group].claimed
    /\ q.step \in {"release", "claim", "commit"} => owed = 0
    /\ q.step \in {"claim", "commit"} => ~ q.outdated
    /\ q.step = "save" => billed[q.group] > 0
    /\ q.step \in {"reprice", "rebegin", "recommit", "resave", "reship"} => shipment[q.group].sent
    /\ q.step \notin {"idle", "others", "mark", "setShip"} =>
          \A h \in Groups : Billing(h) => h = q.group
Solo == Alone /\ OneBill /\ BillBook /\ Knows(req[Desk])

(* While nothing failed, a claim is in the hands of the request.            *)
PriceBook(q) ==
    /\ \A g \in Groups : Unfinished(g) => q.step \in {"commit", "save"} /\ q.group = g
    /\ \A g \in Groups : Awaiting(g) =>
          \/ shipment[g].ship = charged[g]
          \/ q.step \in {"resave", "reship"} /\ q.group = g
PriceOf(q) ==
    /\ q.step \in EditSteps => q.ship = shipment[q.group].ship
    /\ q.step \in {"save", "resave", "reship"} => charged[q.group] = q.ship
Priced == faults = 0 => PriceBook(req[Desk]) /\ PriceOf(req[Desk])

(* In all three, a group that was sent is paid once the order owes nothing. *)
Collects == \A g \in Groups : /\ shipment[g].sent => billed[g] > 0 /\ (owed = 0 => settled[g] > 0)
                              /\ shipment[g].paid => settled[g] > 0
Audited  == \A a \in Auditors : audit[a].step = "pay" => \A g \in audit[a].groups : settled[g] > 0

SceneInv ==
    /\ Inv /\ scene \in Scenes /\ Rows /\ Listed /\ Ledger
    /\ scene = "together" => Racing /\ (TellApart => Summing)
    /\ scene # "together" => Solo /\ Priced
    /\ Told => Collects /\ Audited

(* The steps of the scenes are steps of BalanceEdit.                        *)
LEMMA SceneSteps == SceneNext => Next
  BY DeskAssumption
     DEF SceneNext, Together, InTurn, Asking, Requesting, Repricing, PayLink, Next

Basics == Inv /\ Rows /\ Listed /\ Ledger

LEMMA BasicsInit == Init => Basics
<1> SUFFICES ASSUME Init PROVE Basics
  OBVIOUS
<1>1. Rows /\ Listed /\ Ledger
  BY DEF Init, Rows, Listed, Ledger, Quiet
<1> QED
  BY <1>1, InitInv DEF Basics

(* What the proofs below read of the types.                                 *)
LEMMA Types ==
    ASSUME Inv
    PROVE  /\ \A r \in Requests : /\ req[r] \in Request
                                  /\ req[r].step # "idle" => Group(r) \in Groups
           /\ \A g \in Groups : /\ shipment[g] \in Row
                                /\ shipment[g].claimed \in BOOLEAN /\ shipment[g].sent \in BOOLEAN
                                /\ shipment[g].paid \in BOOLEAN
                                /\ billed[g] \in Nat /\ settled[g] \in Nat /\ charged[g] \in Nat
           /\ owed \in Nat
  BY BoundsAssumption DEF Inv, TypeOK, Serving, Serves, Group, Row

(* How each step writes the rows: a flag is only cleared by a release.      *)
RowsGrow == \A g \in Groups : /\ shipment[g].sent => shipment'[g].sent
                              /\ shipment[g].paid => shipment'[g].paid

LEMMA RowWrites ==
    ASSUME Basics, Next
    PROVE  /\ Rows'
           /\ RowsGrow
<1>1. shipment \in [Groups -> Row] /\ Rows /\ Inv /\ Listed
  BY DEF Basics, Inv, TypeOK
<1>2. ASSUME shipment' = shipment PROVE Rows' /\ RowsGrow
  BY <1>1, <1>2 DEF Rows, RowsGrow
<1>3. ASSUME NEW g \in Groups, NEW w \in Row, shipment' = [shipment EXCEPT ![g] = w],
             shipment[g].sent => w.sent, shipment[g].paid => w.paid,
             w.sent => w.claimed, w.paid => w.sent
      PROVE  Rows' /\ RowsGrow
  BY <1>1, <1>3 DEF Rows, RowsGrow
<1>4. ASSUME NEW r \in Requests, Edit(r) PROVE Rows' /\ RowsGrow
  <2>1. At(r, "idle") \/ Group(r) \in Groups
    BY <1>1, Types DEF At
  <2>2. CASE ReleaseOrderEditBalanceClaim(r)
    <3> DEFINE w == [shipment[Group(r)] EXCEPT !.claimed = FALSE, !.expected = 0, !.aged = FALSE]
    <3>1. CASE Unfinished(Group(r))
      <4>1. shipment' = [shipment EXCEPT ![Group(r)] = w] /\ Group(r) \in Groups
        BY <2>1, <2>2, <3>1 DEF ReleaseOrderEditBalanceClaim, At
      <4>2. shipment[Group(r)] \in Row /\ ~ shipment[Group(r)].sent
        BY <1>1, <3>1, <4>1 DEF Unfinished
      <4>3. w \in Row /\ w.sent = shipment[Group(r)].sent /\ w.paid = shipment[Group(r)].paid
        <5>1. ASSUME NEW x \in Row, NEW n \in Int, NEW b \in BOOLEAN
              PROVE  LET y == [x EXCEPT !.claimed = b, !.expected = n, !.aged = b]
                     IN  y \in Row /\ y.sent = x.sent /\ y.paid = x.paid
          BY DEF Row
        <5>2. FALSE \in BOOLEAN /\ 0 \in Int
          OBVIOUS
        <5> QED
          BY <4>2, <5>1, <5>2, Zenon
      <4> QED
        BY <1>1, <1>3, <4>1, <4>2, <4>3 DEF Rows
    <3>2. CASE ~ Unfinished(Group(r))
      BY <1>2, <2>2, <3>2 DEF ReleaseOrderEditBalanceClaim
    <3> QED
      BY <3>1, <3>2
  <2>3. CASE ClaimOrderEditBalance(r)
    <3>1. CASE Mine(r).claimed \/ Mine(r).sent
      BY <1>2, <2>3, <3>1 DEF ClaimOrderEditBalance
    <3>2. CASE ~ (Mine(r).claimed \/ Mine(r).sent)
      <4> DEFINE w == [shipment[Group(r)] EXCEPT !.claimed = TRUE, !.aged = FALSE,
                                                 !.expected = req[r].due]
      <4>1. shipment' = [shipment EXCEPT ![Group(r)] = w] /\ Group(r) \in Groups
        BY <2>1, <2>3, <3>2 DEF ClaimOrderEditBalance, At
      <4>2. shipment[Group(r)] \in Row /\ req[r].due \in Int
        BY <1>1, <4>1, Types DEF Request
      <4>3. /\ w \in Row /\ w.sent = shipment[Group(r)].sent /\ w.paid = shipment[Group(r)].paid
            /\ w.claimed
        BY <4>2 DEF Row
      <4> QED
        BY <1>1, <1>3, <4>1, <4>2, <4>3 DEF Rows
    <3> QED
      BY <3>1, <3>2
  <2>4. CASE CompleteOrderEditBalance(r)
    <3> DEFINE w == [shipment[Group(r)] EXCEPT !.claimed = TRUE, !.sent = TRUE, !.aged = FALSE,
                                               !.expected = req[r].due]
    <3>1. shipment' = [shipment EXCEPT ![Group(r)] = w] /\ Group(r) \in Groups
      BY <2>1, <2>4 DEF CompleteOrderEditBalance, At
    <3>2. shipment[Group(r)] \in Row /\ req[r].due \in Int
      BY <1>1, <3>1, Types DEF Request
    <3>3. w \in Row /\ w.sent /\ w.paid = shipment[Group(r)].paid /\ w.claimed
      BY <3>2 DEF Row
    <3> QED
      BY <1>1, <1>3, <3>1, <3>2, <3>3 DEF Rows
  <2> QED
    BY <1>2, <1>4, <2>2, <2>3, <2>4
       DEF Edit, CheckOthers, AdoptOrderEditBalance, CheckBefore, BeginOrderEdit, CommitOrderEdit,
           MarkGroupAwaiting
<1>5. ASSUME NEW r \in Requests, Shipping(r) PROVE Rows' /\ RowsGrow
  <2>1. At(r, "idle") \/ Group(r) \in Groups
    BY <1>1, Types DEF At
  <2>2. ASSUME NEW w \in Row, Group(r) \in Groups, shipment' = [shipment EXCEPT ![Group(r)] = w],
               w.sent = Mine(r).sent, w.paid = Mine(r).paid, w.claimed = Mine(r).claimed
        PROVE  Rows' /\ RowsGrow
    BY <1>1, <1>3, <2>2 DEF Rows, Mine
  <2>3. CASE UpdateShippingByShipmentID(r)
    <3> DEFINE w == [shipment[Group(r)] EXCEPT !.ship = req[r].ship, !.aged = FALSE]
    <3>1. shipment' = [shipment EXCEPT ![Group(r)] = w] /\ Group(r) \in Groups
      BY <2>1, <2>3 DEF UpdateShippingByShipmentID, At
    <3>2. shipment[Group(r)] \in Row /\ req[r].ship \in 0 .. MaxPrice
      BY <1>1, <3>1, Types DEF Request
    <3>3. /\ w \in Row /\ w.sent = Mine(r).sent /\ w.paid = Mine(r).paid
          /\ w.claimed = Mine(r).claimed
      BY <3>2 DEF Row, Mine
    <3> QED
      BY <2>2, <3>1, <3>3
  <2>4. CASE UpdateOrderEditBalanceShipping(r) /\ shipment' # shipment
    <3> DEFINE w == [shipment[Group(r)] EXCEPT !.expected = req[r].due]
    <3>1. shipment' = [shipment EXCEPT ![Group(r)] = w] /\ Group(r) \in Groups
      BY <2>1, <2>4 DEF UpdateOrderEditBalanceShipping, At
    <3>2. shipment[Group(r)] \in Row /\ req[r].due \in Int
      BY <1>1, <3>1, Types DEF Request
    <3>3. /\ w \in Row /\ w.sent = Mine(r).sent /\ w.paid = Mine(r).paid
          /\ w.claimed = Mine(r).claimed
      BY <3>2 DEF Row, Mine
    <3> QED
      BY <2>2, <3>1, <3>3
  <2>5. CASE UpdateInvoicedShipping(r) /\ shipment' # shipment
    <3> DEFINE w == [shipment[Group(r)] EXCEPT !.ship = req[r].ship]
    <3>1. shipment' = [shipment EXCEPT ![Group(r)] = w] /\ Group(r) \in Groups
      BY <2>1, <2>5 DEF UpdateInvoicedShipping, At
    <3>2. shipment[Group(r)] \in Row /\ req[r].ship \in 0 .. MaxPrice
      BY <1>1, <3>1, Types DEF Request
    <3>3. /\ w \in Row /\ w.sent = Mine(r).sent /\ w.paid = Mine(r).paid
          /\ w.claimed = Mine(r).claimed
      BY <3>2 DEF Row, Mine
    <3> QED
      BY <2>2, <3>1, <3>3
  <2> QED
    BY <1>2, <1>5, <2>3, <2>4, <2>5 DEF Shipping, RepriceBefore, RepriceBegin, RepriceCommit
<1>6. ASSUME NEW a \in Auditors, Reconcile(a) \/ AbandonAudit(a) PROVE Rows' /\ RowsGrow
  <2>1. CASE MarkInvoicePaid(a)
    <3>1. PICK g \in audit[a].groups : shipment' = [shipment EXCEPT ![g].paid = TRUE]
      BY <2>1 DEF MarkInvoicePaid
    <3>2. g \in Groups /\ shipment[g] \in Row /\ shipment[g].sent /\ shipment[g].claimed
      BY <1>1 DEF Inv, TypeOK, Audit, Listed, Rows
    <3>3. [shipment[g] EXCEPT !.paid = TRUE] \in Row
      BY <3>2 DEF Row
    <3> QED
      BY <1>3, <3>1, <3>2, <3>3 DEF Row
  <2> QED
    BY <1>2, <1>6, <2>1
       DEF Reconcile, ReadAwaiting, LookAtOrder, HandleSettlementOnlyPayment, AbandonAudit
<1>7. ASSUME NEW g \in Groups, ClaimTimeout(g) PROVE Rows' /\ RowsGrow
  <2>1. /\ [shipment[g] EXCEPT !.aged = TRUE] \in Row
        /\ shipment' = [shipment EXCEPT ![g] = [shipment[g] EXCEPT !.aged = TRUE]]
    BY <1>1, <1>7 DEF ClaimTimeout, Row
  <2> QED
    BY <1>1, <1>3, <2>1 DEF Rows, Row
<1> QED
  BY <1>2, <1>4, <1>5, <1>6, <1>7 DEF Next, StartRequest, StartShipping, Abandon, Pay

LEMMA BasicsStep == Basics /\ [Next]_vars => Basics'
<1> SUFFICES ASSUME Basics, [Next]_vars PROVE Basics'
  OBVIOUS
<1>1. Inv' /\ Inv /\ Rows /\ Listed /\ Ledger
  BY StepInv DEF Basics
<1>2. CASE UNCHANGED vars
  BY <1>1, <1>2 DEF vars, shopify, Basics, Rows, Listed, Ledger
<1>3. CASE Next
  <2>1. Rows' /\ RowsGrow
    BY <1>3, RowWrites
  <2>2. Listed'
    <3>1. \A a \in Auditors : audit[a] \in Audit
      BY <1>1 DEF Inv, TypeOK
    <3>2. ASSUME audit' = audit PROVE Listed'
      BY <1>1, <2>1, <3>1, <3>2 DEF Listed, RowsGrow, Audit
    <3>3. ASSUME NEW a \in Auditors, NEW w \in Audit, audit' = [audit EXCEPT ![a] = w],
                 \A g \in w.groups : shipment[g].sent
          PROVE  Listed'
      BY <1>1, <2>1, <3>1, <3>3 DEF Inv, TypeOK, Listed, RowsGrow, Audit
    <3>4. Quiet \in Audit /\ \A g \in Quiet.groups : shipment[g].sent
      BY DEF Quiet, Audit
    <3>5. ASSUME NEW a \in Auditors, Reconcile(a) \/ AbandonAudit(a) PROVE Listed'
      <4>1. CASE ReadAwaiting(a)
        <5> DEFINE w == [step |-> "look", groups |-> {g \in Groups : Awaiting(g)}]
        <5>1. w \in Audit /\ \A g \in w.groups : shipment[g].sent
          BY DEF Audit, Awaiting
        <5> QED
          BY <3>3, <4>1, <5>1 DEF ReadAwaiting
      <4>2. CASE LookAtOrder(a)
        <5> DEFINE w == IF owed > 0 THEN Quiet ELSE [audit[a] EXCEPT !.step = "pay"]
        <5>1. w \in Audit /\ \A g \in w.groups : shipment[g].sent
          BY <1>1, <3>1, <3>4 DEF Audit, Listed
        <5> QED
          BY <3>3, <4>2, <5>1 DEF LookAtOrder
      <4>3. CASE MarkInvoicePaid(a)
        <5>1. PICK g \in audit[a].groups : audit' = [audit EXCEPT ![a].groups = @ \ {g}]
          BY <4>3 DEF MarkInvoicePaid
        <5> DEFINE w == [audit[a] EXCEPT !.groups = audit[a].groups \ {g}]
        <5>2. w \in Audit /\ \A h \in w.groups : shipment[h].sent
          BY <1>1, <3>1 DEF Audit, Listed
        <5> QED
          BY <3>3, <5>1, <5>2
      <4>4. CASE HandleSettlementOnlyPayment(a) \/ AbandonAudit(a)
        BY <3>3, <3>4, <4>4 DEF HandleSettlementOnlyPayment, AbandonAudit
      <4> QED
        BY <3>5, <4>1, <4>2, <4>3, <4>4 DEF Reconcile
    <3> QED
      BY <1>3, <3>2, <3>5
         DEF Next, StartRequest, StartShipping, Abandon, Pay, ClaimTimeout, Edit, Shipping,
             CheckOthers, AdoptOrderEditBalance, ReleaseOrderEditBalanceClaim, CheckBefore,
             BeginOrderEdit, ClaimOrderEditBalance, CommitOrderEdit, CompleteOrderEditBalance,
             MarkGroupAwaiting, UpdateShippingByShipmentID, RepriceBefore, RepriceBegin,
             RepriceCommit, UpdateOrderEditBalanceShipping, UpdateInvoicedShipping
  <2>3. Ledger'
    <3>1. \A g \in Groups : billed[g] \in Nat /\ settled[g] \in Nat
      BY <1>1, Types
    <3>2. ASSUME billed' = billed, settled' = settled PROVE Ledger'
      BY <1>1, <3>2 DEF Ledger
    <3>3. ASSUME NEW r \in Requests, CommitOrderEdit(r), ~ req[r].outdated PROVE Ledger'
      BY <1>1, <3>1, <3>3 DEF CommitOrderEdit, Ledger, Inv, TypeOK
    <3>4. CASE Pay
      BY <1>1, <3>1, <3>4 DEF Pay, Ledger
    <3>5. ASSUME NEW r \in Requests, Edit(r) \/ Shipping(r) PROVE Ledger'
      BY <3>2, <3>3, <3>5
         DEF Edit, Shipping, shopify,
             CheckOthers, AdoptOrderEditBalance, ReleaseOrderEditBalanceClaim, CheckBefore,
             BeginOrderEdit, ClaimOrderEditBalance, CommitOrderEdit, CompleteOrderEditBalance,
             MarkGroupAwaiting, UpdateShippingByShipmentID, RepriceBefore, RepriceBegin,
             RepriceCommit, UpdateOrderEditBalanceShipping, UpdateInvoicedShipping
    <3>6. ASSUME NEW a \in Auditors, Reconcile(a) \/ AbandonAudit(a) PROVE Ledger'
      BY <3>2, <3>6
         DEF shopify, Reconcile, ReadAwaiting, LookAtOrder, MarkInvoicePaid,
             HandleSettlementOnlyPayment, AbandonAudit
    <3> QED
      BY <1>3, <3>2, <3>4, <3>5, <3>6
         DEF Next, StartRequest, StartShipping, Abandon, ClaimTimeout, shopify
  <2> QED
    BY <1>1, <2>1, <2>2, <2>3 DEF Basics
<1> QED
  BY <1>2, <1>3

(* Who sends a group, who marks it paid, and who moves money.               *)
LEMMA WhoWrites ==
    ASSUME Basics, Next
    PROVE  \A g \in Groups :
              /\ shipment'[g].sent => \/ shipment[g].sent
                                      \/ \E r \in Requests : CompleteOrderEditBalance(r) /\ Group(r) = g
              /\ shipment'[g].paid => \/ shipment[g].paid
                                      \/ \E a \in Auditors : audit[a].step = "pay" /\ g \in audit[a].groups
<1> TAKE g \in Groups
<1> DEFINE P == /\ shipment'[g].sent => \/ shipment[g].sent
                                        \/ \E r \in Requests : CompleteOrderEditBalance(r) /\ Group(r) = g
                /\ shipment'[g].paid => \/ shipment[g].paid
                                        \/ \E a \in Auditors : audit[a].step = "pay" /\ g \in audit[a].groups
<1>1. shipment \in [Groups -> Row] /\ Inv
  BY DEF Basics, Inv, TypeOK
<1>2. ASSUME shipment' = shipment PROVE P
  BY <1>2
<1>3. ASSUME NEW r \in Requests, Edit(r) PROVE P
  <2>1. At(r, "idle") \/ Group(r) \in Groups
    BY <1>1, Types DEF At
  <2>2. CASE ReleaseOrderEditBalanceClaim(r) \/ ClaimOrderEditBalance(r)
    BY <1>1, <2>1, <2>2 DEF ReleaseOrderEditBalanceClaim, ClaimOrderEditBalance, At, Row
  <2>3. CASE CompleteOrderEditBalance(r)
    BY <1>1, <2>1, <2>3 DEF CompleteOrderEditBalance, At, Row
  <2> QED
    BY <1>2, <1>3, <2>2, <2>3
       DEF Edit, CheckOthers, AdoptOrderEditBalance, CheckBefore, BeginOrderEdit, CommitOrderEdit,
           MarkGroupAwaiting
<1>4. ASSUME NEW r \in Requests, Shipping(r) PROVE P
  <2>1. At(r, "idle") \/ Group(r) \in Groups
    BY <1>1, Types DEF At
  <2>2. CASE UpdateShippingByShipmentID(r)
    BY <1>1, <2>1, <2>2 DEF UpdateShippingByShipmentID, At, Row
  <2>3. CASE UpdateOrderEditBalanceShipping(r)
    BY <1>1, <2>1, <2>3 DEF UpdateOrderEditBalanceShipping, At, Row
  <2>4. CASE UpdateInvoicedShipping(r)
    BY <1>1, <2>1, <2>4 DEF UpdateInvoicedShipping, At, Row
  <2> QED
    BY <1>2, <1>4, <2>2, <2>3, <2>4 DEF Shipping, RepriceBefore, RepriceBegin, RepriceCommit
<1>5. ASSUME NEW a \in Auditors, Reconcile(a) \/ AbandonAudit(a) PROVE P
  <2>1. CASE MarkInvoicePaid(a)
    BY <1>1, <2>1 DEF MarkInvoicePaid, Row
  <2> QED
    BY <1>2, <1>5, <2>1
       DEF Reconcile, ReadAwaiting, LookAtOrder, HandleSettlementOnlyPayment, AbandonAudit
<1>6. ASSUME NEW h \in Groups, ClaimTimeout(h) PROVE P
  BY <1>1, <1>6 DEF ClaimTimeout, Row
<1> QED
  BY <1>2, <1>3, <1>4, <1>5, <1>6 DEF Next, StartRequest, StartShipping, Abandon, Pay

Commits(r)  == CommitOrderEdit(r) /\ ~ req[r].outdated
Reprices(r) == RepriceCommit(r) /\ ~ req[r].outdated

LEMMA WhoPays ==
    ASSUME Next
    PROVE  \/ UNCHANGED shopify
           \/ \E r \in Requests : Commits(r) \/ Reprices(r)
           \/ Pay
<1>1. ASSUME NEW r \in Requests, Edit(r) PROVE UNCHANGED shopify \/ Commits(r)
  BY <1>1
     DEF Edit, CheckOthers, AdoptOrderEditBalance, ReleaseOrderEditBalanceClaim, CheckBefore,
         BeginOrderEdit, ClaimOrderEditBalance, CommitOrderEdit, CompleteOrderEditBalance,
         MarkGroupAwaiting, Commits
<1>2. ASSUME NEW r \in Requests, Shipping(r) PROVE UNCHANGED shopify \/ Reprices(r)
  BY <1>2
     DEF Shipping, UpdateShippingByShipmentID, RepriceBefore, RepriceBegin, RepriceCommit,
         UpdateOrderEditBalanceShipping, UpdateInvoicedShipping, Reprices
<1>3. ASSUME NEW a \in Auditors, Reconcile(a) \/ AbandonAudit(a) PROVE UNCHANGED shopify
  BY <1>3
     DEF Reconcile, ReadAwaiting, LookAtOrder, MarkInvoicePaid, HandleSettlementOnlyPayment,
         AbandonAudit
<1> QED
  BY <1>1, <1>2, <1>3 DEF Next, StartRequest, StartShipping, Abandon, ClaimTimeout

(* A save follows an edit of its group, and a re-pricing never brings an    *)
(* order whose edit is unpaid to owe nothing.                               *)
Backed ==
    /\ \A r \in Requests : At(r, "save") =>
          billed[Group(r)] > 0 /\ (owed = 0 => settled[Group(r)] > 0)
    /\ \A r \in Requests : Reprices(r) /\ owed' = 0 =>
          \A g \in Groups : shipment[g].sent => settled[g] > 0

LEMMA CollectStep ==
    ASSUME Basics, Next, Collects, Audited, Backed
    PROVE  Collects' /\ Audited'
<1>1. Inv /\ Listed /\ Basics'
  BY BasicsStep DEF Basics
<1>2. \A g \in Groups : /\ billed[g] \in Nat /\ settled[g] \in Nat
                        /\ billed'[g] >= billed[g] /\ settled'[g] >= settled[g]
                        /\ billed'[g] \in Nat /\ settled'[g] \in Nat
  <2>1. \A g \in Groups : billed[g] \in Nat /\ settled[g] \in Nat /\ settled[g] <= billed[g]
    BY <1>1, Types DEF Basics, Ledger
  <2>2. CASE UNCHANGED shopify
    BY <2>1, <2>2 DEF shopify
  <2>3. ASSUME NEW r \in Requests, Commits(r) \/ Reprices(r)
        PROVE  \A g \in Groups : /\ billed'[g] >= billed[g] /\ settled'[g] >= settled[g]
                                 /\ billed'[g] \in Nat /\ settled'[g] \in Nat
    BY <1>1, <2>1, <2>3 DEF Commits, Reprices, CommitOrderEdit, RepriceCommit, Inv, TypeOK
  <2>4. CASE Pay
    BY <2>1, <2>4 DEF Pay
  <2> QED
    BY <2>1, <2>2, <2>3, <2>4, WhoPays
<1>3. \A g \in Groups : shipment[g].sent =>
        billed'[g] > 0 /\ (owed' = 0 => settled'[g] > 0)
  <2>1. \A g \in Groups : shipment[g].sent => billed[g] > 0 /\ (owed = 0 => settled[g] > 0)
    BY DEF Collects
  <2>2. CASE UNCHANGED shopify
    BY <2>1, <2>2 DEF shopify
  <2>3. ASSUME NEW r \in Requests, Commits(r) PROVE owed' > 0
    <3>1. At(r, "commit") /\ owed' = owed + Balance(r)
      BY <2>3 DEF Commits, CommitOrderEdit
    <3>2. Group(r) \in Groups /\ req[r].ship \in Nat /\ owed \in Nat
      BY <1>1, <3>1, Types, BoundsAssumption DEF At, Request
    <3>3. Goods[Group(r)] \in Nat \ {0}
      BY <3>2, MoneyAssumption
    <3> QED
      BY <3>1, <3>2, <3>3 DEF Balance
  <2>4. ASSUME NEW r \in Requests, Reprices(r), owed' = 0
        PROVE  \A g \in Groups : shipment[g].sent => settled'[g] > 0
    <3>1. settled' = settled
      BY <2>4 DEF Reprices, RepriceCommit
    <3> QED
      BY <2>4, <3>1 DEF Backed
  <2>5. CASE Pay
    BY <2>1, <2>5 DEF Pay
  <2> QED
    BY <1>2, <2>1, <2>2, <2>3, <2>4, <2>5, WhoPays
<1>4. Collects'
  <2> SUFFICES ASSUME NEW g \in Groups
               PROVE  /\ shipment'[g].sent => billed'[g] > 0 /\ (owed' = 0 => settled'[g] > 0)
                      /\ shipment'[g].paid => settled'[g] > 0
    BY DEF Collects
  <2>1. ASSUME NEW r \in Requests, CompleteOrderEditBalance(r), Group(r) = g
        PROVE  billed'[g] > 0 /\ (owed' = 0 => settled'[g] > 0)
    <3>1. At(r, "save") /\ UNCHANGED shopify
      BY <2>1 DEF CompleteOrderEditBalance
    <3> QED
      BY <2>1, <3>1 DEF Backed, shopify
  <2>2. ASSUME NEW a \in Auditors, audit[a].step = "pay", g \in audit[a].groups
        PROVE  settled'[g] > 0
    BY <1>2, <2>2 DEF Audited
  <2>3. shipment[g].paid => settled'[g] > 0
    BY <1>2 DEF Collects
  <2> QED
    BY <1>3, <2>1, <2>2, <2>3, WhoWrites
<1>5. Audited'
  <2>1. \A a \in Auditors : audit[a] \in Audit
    BY <1>1 DEF Inv, TypeOK
  <2>2. \A a \in Auditors : audit[a].step = "pay" => \A g \in audit[a].groups : settled'[g] > 0
    BY <1>2, <2>1 DEF Audited, Audit
  <2>3. ASSUME audit' = audit PROVE Audited'
    BY <2>2, <2>3 DEF Audited
  <2>4. ASSUME NEW a \in Auditors, Reconcile(a) \/ AbandonAudit(a) PROVE Audited'
    <3>1. ASSUME NEW w \in Audit, audit' = [audit EXCEPT ![a] = w],
                 w.step = "pay" => \A g \in w.groups : settled'[g] > 0
          PROVE  Audited'
      BY <1>1, <2>2, <3>1 DEF Inv, TypeOK, Audited
    <3>2. CASE ReadAwaiting(a)
      BY <3>1, <3>2 DEF ReadAwaiting, Audit
    <3>3. CASE LookAtOrder(a)
      <4> DEFINE w == IF owed > 0 THEN Quiet ELSE [audit[a] EXCEPT !.step = "pay"]
      <4>1. w \in Audit
        BY <2>1 DEF Audit, Quiet
      <4>2. w.step = "pay" => \A g \in w.groups : settled'[g] > 0
        <5>1. \A g \in audit[a].groups : g \in Groups /\ shipment[g].sent
          BY <1>1, <2>1 DEF Listed, Audit
        <5>2. owed \in Nat
          BY <1>1, Types
        <5>3. w.step = "pay" => owed = 0 /\ w.groups = audit[a].groups
          BY <2>1, <5>2 DEF Quiet, Audit
        <5> QED
          BY <1>2, <5>1, <5>3 DEF Collects
      <4> QED
        BY <3>1, <3>3, <4>1, <4>2 DEF LookAtOrder
    <3>4. CASE MarkInvoicePaid(a)
      <4>1. PICK g \in audit[a].groups : audit' = [audit EXCEPT ![a].groups = @ \ {g}]
        BY <3>4 DEF MarkInvoicePaid
      <4> DEFINE w == [audit[a] EXCEPT !.groups = audit[a].groups \ {g}]
      <4>2. w \in Audit /\ w.step = audit[a].step /\ w.groups \subseteq audit[a].groups
        BY <2>1 DEF Audit
      <4> QED
        BY <2>2, <3>1, <4>1, <4>2
    <3>5. CASE HandleSettlementOnlyPayment(a) \/ AbandonAudit(a)
      <4>1. Quiet \in Audit /\ Quiet.step = "idle"
        BY DEF Quiet, Audit
      <4> QED
        BY <3>1, <3>5, <4>1 DEF HandleSettlementOnlyPayment, AbandonAudit
    <3> QED
      BY <2>4, <3>2, <3>3, <3>4, <3>5 DEF Reconcile
  <2> QED
    BY <2>3, <2>4
       DEF Next, StartRequest, StartShipping, Abandon, Pay, ClaimTimeout, Edit, Shipping,
           CheckOthers, AdoptOrderEditBalance, ReleaseOrderEditBalanceClaim, CheckBefore,
           BeginOrderEdit, ClaimOrderEditBalance, CommitOrderEdit, CompleteOrderEditBalance,
           MarkGroupAwaiting, UpdateShippingByShipmentID, RepriceBefore, RepriceBegin,
           RepriceCommit, UpdateOrderEditBalanceShipping, UpdateInvoicedShipping
<1> QED
  BY <1>4, <1>5
----------------------------------------------------------------------------
(* The scene "together".                                                    *)
RacingWell == Racing /\ (TellApart => Summing)

(* One request moves, and the books stay as they are.                       *)
LEMMA RaceMoves ==
    ASSUME Basics, RacingWell, NEW r \in Requests, NEW q, Become(r, q),
           Races(q), TellApart => Sums(q),
           UNCHANGED <<owed, billed, settled, charged>>, RowsGrow, TellApart => SumBook'
    PROVE  RacingWell'
<1>1. req \in [Requests -> Request] /\ req' = [req EXCEPT ![r] = q]
  BY DEF Basics, Inv, TypeOK, Become
<1>2. \A p \in Requests : req'[p] = IF p = r THEN q ELSE req[p]
  BY <1>1
<1>3. RaceBook'
  BY DEF RacingWell, Racing, RaceBook, RowsGrow
<1>4. \A p \in Requests : Races(req'[p]) /\ (TellApart => Sums(req'[p]))
  BY <1>2 DEF RacingWell, Racing, Summing
<1> QED
  BY <1>3, <1>4 DEF RacingWell, Racing, Summing, Races, Sums

LEMMA RaceFinish ==
    ASSUME Basics, RacingWell, NEW r \in Requests, Finish(r),
           UNCHANGED <<shipment, owed, billed, settled, charged>>
    PROVE  RacingWell'
<1>1. Races(Idle) /\ Sums(Idle)
  BY DEF Races, Sums, Idle
<1>2. RowsGrow /\ (TellApart => SumBook')
  BY DEF RowsGrow, RacingWell, Summing, SumBook
<1> QED
  BY <1>1, <1>2, RaceMoves DEF Finish

LEMMA RaceGoto ==
    ASSUME Basics, RacingWell, NEW r \in Requests, NEW s \in {"release", "before", "begin", "mark"},
           Goto(r, s), req[r].step # "idle",
           UNCHANGED <<owed, billed, settled, charged>>, RowsGrow, TellApart => SumBook'
    PROVE  RacingWell'
<1> DEFINE q == [req[r] EXCEPT !.step = s]
<1>1. req[r] \in Request
  BY Types DEF Basics
<1>2. q.step = s /\ q.ship = req[r].ship
  BY <1>1 DEF Request
<1>3. Races(q)
  BY <1>2 DEF Races, EditSteps
<1>4. TellApart => Sums(q)
  BY <1>2 DEF RacingWell, Summing, Sums
<1> QED
  BY <1>3, <1>4, RaceMoves DEF Goto

(* The rows are written without touching what the sums depend on.           *)
LEMMA RaceRows ==
    ASSUME Basics, RacingWell, UNCHANGED <<req, owed, billed, settled, charged>>,
           RowsGrow, TellApart => SumBook'
    PROVE  RacingWell'
<1>1. RaceBook'
  BY DEF RacingWell, Racing, RaceBook, RowsGrow
<1> QED
  BY <1>1 DEF RacingWell, Racing, Summing, Races, Sums

LEMMA RaceSteps ==
    ASSUME Basics, RacingWell, NEW r \in Requests,
           \/ \E g \in Groups : StartRequest(r, g)
           \/ CheckOthers(r) \/ AdoptOrderEditBalance(r) \/ CheckBefore(r) \/ BeginOrderEdit(r)
           \/ MarkGroupAwaiting(r) \/ Abandon(r)
    PROVE  RacingWell'
<1>1. UNCHANGED <<shipment, shopify>>
  BY DEF StartRequest, CheckOthers, AdoptOrderEditBalance, CheckBefore, BeginOrderEdit,
         MarkGroupAwaiting, Abandon
<1>2. UNCHANGED <<owed, billed, settled, charged>> /\ RowsGrow /\ (TellApart => SumBook')
  BY <1>1 DEF shopify, RowsGrow, RacingWell, Summing, SumBook
<1>3. Inv /\ req[r] \in Request /\ (req[r].step # "idle" => Group(r) \in Groups)
  BY Types DEF Basics
<1>4. Races(req[r]) /\ (TellApart => Sums(req[r]) /\ SumBook)
  BY DEF RacingWell, Racing, Summing
<1>5. ASSUME NEW g \in Groups, StartRequest(r, g) PROVE RacingWell'
  <2> DEFINE v == IF ~ shipment[g].claimed THEN "none"
                  ELSE IF shipment[g].aged THEN "aged" ELSE "fresh"
             q == [Idle EXCEPT !.step = "others", !.group = g, !.ship = shipment[g].ship,
                               !.due = shipment[g].expected, !.seen = v]
  <2>1. Become(r, q)
    BY <1>5 DEF StartRequest
  <2>2. /\ q.step = "others" /\ q.group = g /\ q.ship = shipment[g].ship
        /\ q.due = shipment[g].expected /\ q.seen = v
    BY DEF Idle
  <2>3. v = "aged" => shipment[g].claimed
    OBVIOUS
  <2>4. Races(q)
    BY <2>2 DEF Races, EditSteps
  <2>5. TellApart => Sums(q)
    BY <1>4, <2>2, <2>3 DEF Sums, SumBook
  <2> HIDE DEF q
  <2> QED
    BY <1>2, <2>1, <2>4, <2>5, RaceMoves
<1>6. CASE CheckOthers(r)
  <2>1. req[r].step = "others"
    BY <1>6 DEF CheckOthers, At
  <2>2. CASE Finish(r)
    BY <1>1, <1>2, <2>2, RaceFinish
  <2>3. CASE Goto(r, "before")
    BY <1>2, <2>1, <2>3, RaceGoto
  <2>4. CASE Goto(r, "adopt") /\ req[r].seen = "aged"
    <3> DEFINE q == [req[r] EXCEPT !.step = "adopt"]
    <3>1. /\ q.step = "adopt" /\ q.group = req[r].group /\ q.ship = req[r].ship
          /\ q.due = req[r].due /\ Become(r, q)
      BY <1>3, <2>4 DEF Request, Goto
    <3>2. Races(q)
      BY <3>1 DEF Races, EditSteps
    <3>3. TellApart => Sums(q)
      BY <1>4, <2>1, <2>4, <3>1 DEF Sums
    <3> HIDE DEF q
    <3> QED
      BY <1>2, <3>1, <3>2, <3>3, RaceMoves
  <2> QED
    BY <1>6, <2>2, <2>3, <2>4 DEF CheckOthers
<1>7. CASE AdoptOrderEditBalance(r)
  <2>1. req[r].step = "adopt"
    BY <1>7 DEF AdoptOrderEditBalance, At
  <2>2. CASE Finish(r)
    BY <1>1, <1>2, <2>2, RaceFinish
  <2>3. CASE Goto(r, "release")
    BY <1>2, <2>1, <2>3, RaceGoto
  <2>4. CASE Goto(r, "save") /\ owed # 0 /\ owed = req[r].due
    <3> DEFINE q == [req[r] EXCEPT !.step = "save"]
    <3>1. /\ q.step = "save" /\ q.group = req[r].group /\ q.ship = req[r].ship
          /\ q.due = req[r].due /\ Become(r, q)
      BY <1>3, <2>4 DEF Request, Goto
    <3>2. Races(q)
      BY <3>1 DEF Races, EditSteps
    <3>3. ASSUME TellApart PROVE billed[req[r].group] > 0
      <4>1. PICK h \in Groups : billed[h] # settled[h]
        BY <2>4 DEF RacingWell, Racing, RaceBook
      <4>2. billed[h] \in Nat /\ settled[h] \in Nat /\ settled[h] <= billed[h]
        BY Types DEF Basics, Ledger
      <4>3. owed = Sum(h)
        BY <1>4, <3>3, <4>1, <4>2 DEF SumBook
      <4>4. owed = Sum(req[r].group) /\ req[r].group \in Groups
        BY <1>3, <1>4, <2>1, <2>4, <3>3 DEF Sums, Group
      <4>5. Goods[h] \in Nat /\ Goods[req[r].group] \in Nat
        BY <4>4, MoneyAssumption
      <4>6. h = req[r].group
        BY <3>3, <4>3, <4>4, <4>5 DEF TellApart, Sum
      <4> QED
        BY <4>1, <4>2, <4>6
    <3>4. TellApart => Sums(q)
      BY <1>4, <2>1, <3>1, <3>3 DEF Sums
    <3> HIDE DEF q
    <3> QED
      BY <1>2, <3>1, <3>2, <3>4, RaceMoves
  <2> QED
    BY <1>7, <2>2, <2>3, <2>4 DEF AdoptOrderEditBalance
<1>8. CASE CheckBefore(r)
  <2>1. req[r].step = "before"
    BY <1>8 DEF CheckBefore, At
  <2> QED
    BY <1>1, <1>2, <1>8, <2>1, RaceFinish, RaceGoto DEF CheckBefore
<1>9. CASE BeginOrderEdit(r)
  <2>1. req[r].step = "begin" /\ Group(r) = req[r].group
    BY <1>9 DEF BeginOrderEdit, At, Group
  <2>2. CASE Finish(r)
    BY <1>1, <1>2, <2>2, RaceFinish
  <2>3. CASE owed = 0 /\ ~ Finish(r)
    <3> DEFINE q == [req[r] EXCEPT !.step = "claim", !.outdated = FALSE, !.due = Balance(r)]
    <3>1. Become(r, q)
      BY <1>9, <2>3 DEF BeginOrderEdit
    <3>2. /\ q.step = "claim" /\ q.group = req[r].group /\ q.ship = req[r].ship
          /\ q.due = Balance(r)
      BY <1>3 DEF Request
    <3>3. Races(q)
      BY <2>3, <3>2 DEF Races, EditSteps
    <3>4. TellApart => Sums(q)
      BY <1>4, <2>1, <3>2 DEF Sums, Sum, Balance
    <3> HIDE DEF q
    <3> QED
      BY <1>2, <3>1, <3>3, <3>4, RaceMoves
  <2> QED
    BY <1>9, <2>2, <2>3 DEF BeginOrderEdit
<1>10. CASE MarkGroupAwaiting(r) \/ Abandon(r)
  BY <1>1, <1>2, <1>10, RaceFinish DEF MarkGroupAwaiting, Abandon
<1> QED
  BY <1>5, <1>6, <1>7, <1>8, <1>9, <1>10

(* A row that is written keeps its sum.                                     *)
LEMMA RaceRow ==
    ASSUME Basics, RacingWell, UNCHANGED <<owed, billed, settled, charged>>,
           NEW g \in Groups, NEW w, shipment' = [shipment EXCEPT ![g] = w],
           w.ship = shipment[g].ship,
           w.claimed => (shipment[g].claimed /\ w.expected = shipment[g].expected)
                        \/ (TellApart => w.expected = Sum(g))
    PROVE  TellApart => SumBook'
<1>1. shipment \in [Groups -> Row]
  BY DEF Basics, Inv, TypeOK
<1>2. \A h \in Groups : shipment'[h] = IF h = g THEN w ELSE shipment[h]
  BY <1>1
<1> QED
  BY <1>2 DEF RacingWell, Summing, SumBook, Sum

LEMMA RaceWrites ==
    ASSUME Basics, RacingWell, NEW r \in Requests,
           ReleaseOrderEditBalanceClaim(r) \/ CompleteOrderEditBalance(r), RowsGrow
    PROVE  RacingWell'
<1>1. UNCHANGED <<owed, billed, settled, charged>>
  BY DEF ReleaseOrderEditBalanceClaim, CompleteOrderEditBalance, shopify
<1>2. req[r].step \in {"release", "save"} /\ req[r].step # "idle" /\ Group(r) \in Groups
  BY Types DEF ReleaseOrderEditBalanceClaim, CompleteOrderEditBalance, At, Basics
<1>3. shipment[Group(r)] \in Row
  BY <1>2, Types DEF Basics
<1>4. TellApart => SumBook'
  <2>1. CASE shipment' = shipment
    BY <1>1, <2>1 DEF RacingWell, Summing, SumBook
  <2>2. CASE ReleaseOrderEditBalanceClaim(r) /\ shipment' # shipment
    <3> DEFINE w == [shipment[Group(r)] EXCEPT !.claimed = FALSE, !.expected = 0, !.aged = FALSE]
    <3>1. shipment' = [shipment EXCEPT ![Group(r)] = w]
      BY <2>2 DEF ReleaseOrderEditBalanceClaim
    <3>2. ~ w.claimed /\ w.ship = shipment[Group(r)].ship
      BY <1>3 DEF Row
    <3> HIDE DEF w
    <3> QED
      BY <1>1, <1>2, <3>1, <3>2, RaceRow
  <2>3. CASE CompleteOrderEditBalance(r)
    <3> DEFINE w == [shipment[Group(r)] EXCEPT !.claimed = TRUE, !.sent = TRUE, !.aged = FALSE,
                                               !.expected = req[r].due]
    <3>1. shipment' = [shipment EXCEPT ![Group(r)] = w] /\ At(r, "save")
      BY <2>3 DEF CompleteOrderEditBalance
    <3>2. w.expected = req[r].due /\ w.ship = shipment[Group(r)].ship
      BY <1>3 DEF Row
    <3>3. TellApart => w.expected = Sum(Group(r))
      BY <3>1, <3>2 DEF RacingWell, Summing, Sums, At, Group
    <3> HIDE DEF w
    <3> QED
      BY <1>1, <1>2, <3>1, <3>2, <3>3, RaceRow
  <2> QED
    BY <2>1, <2>2, <2>3 DEF ReleaseOrderEditBalanceClaim, CompleteOrderEditBalance
<1>5. Goto(r, "before") \/ Goto(r, "mark")
  BY DEF ReleaseOrderEditBalanceClaim, CompleteOrderEditBalance
<1> QED
  BY <1>1, <1>2, <1>4, <1>5, RaceGoto

(* The claim and the commit tell every request in flight.                   *)
LEMMA RaceClaim ==
    ASSUME Basics, RacingWell, NEW r \in Requests, ClaimOrderEditBalance(r), RowsGrow
    PROVE  RacingWell'
<1>1. /\ UNCHANGED <<owed, billed, settled, charged>>
      /\ req[r].step = "claim" /\ Group(r) \in Groups /\ Group(r) = req[r].group
  BY Types DEF ClaimOrderEditBalance, At, Basics, shopify, Group
<1>2. CASE Mine(r).claimed \/ Mine(r).sent
  BY <1>1, <1>2, RaceFinish DEF ClaimOrderEditBalance
<1>3. CASE ~ (Mine(r).claimed \/ Mine(r).sent)
  <2> DEFINE next(p) == [req[p] EXCEPT !.step = IF p = r THEN "commit" ELSE @,
                                       !.during = IF req[p].step = "idle" THEN @
                                                  ELSE @ \cup {Group(r)}]
             w == [shipment[Group(r)] EXCEPT !.claimed = TRUE, !.aged = FALSE,
                                             !.expected = req[r].due]
  <2>1. /\ req' = [p \in Requests |-> next(p)]
        /\ shipment' = [shipment EXCEPT ![Group(r)] = w]
    BY <1>3 DEF ClaimOrderEditBalance
  <2>2. \A p \in Requests : req[p] \in Request
    BY Types DEF Basics
  <2>3. \A p \in Requests :
          /\ next(p).step = IF p = r THEN "commit" ELSE req[p].step
          /\ next(p).group = req[p].group /\ next(p).ship = req[p].ship
          /\ next(p).due = req[p].due /\ next(p).seen = req[p].seen
          /\ next(p).outdated = req[p].outdated
    BY <2>2 DEF Request
  <2>4. shipment[Group(r)] \in Row
    BY <1>1, Types DEF Basics
  <2>5. TellApart => SumBook'
    <3>1. w.ship = shipment[Group(r)].ship /\ w.expected = req[r].due
      BY <2>4 DEF Row
    <3>2. TellApart => w.expected = Sum(Group(r))
      BY <1>1, <3>1 DEF RacingWell, Summing, Sums
    <3> HIDE DEF w
    <3> QED
      BY <1>1, <2>1, <3>1, <3>2, RaceRow
  <2>6. owed = 0 => billed[Group(r)] = 0
    <3>1. settled[Group(r)] \in Nat
      BY <1>1, Types DEF Basics
    <3> QED
      BY <1>1, <1>3, <3>1 DEF RacingWell, Racing, RaceBook, Mine
  <2>7. \A p \in Requests : Races(next(p)) /\ (TellApart => Sums(next(p)))
    <3>1. TAKE p \in Requests
    <3>2. Races(req[p]) /\ (TellApart => Sums(req[p]))
      BY DEF RacingWell, Racing, Summing
    <3> HIDE DEF next
    <3>3. Races(next(p))
      BY <1>1, <2>3, <2>6, <3>2 DEF Races, EditSteps
    <3>4. TellApart => Sums(next(p))
      BY <1>1, <2>3, <3>2 DEF Sums
    <3> QED
      BY <3>3, <3>4
  <2>8. RaceBook'
    BY <1>1 DEF RacingWell, Racing, RaceBook, RowsGrow
  <2>9. \A p \in Requests : Races(req'[p]) /\ (TellApart => Sums(req'[p]))
    BY <2>1, <2>7
  <2> QED
    BY <1>1, <2>5, <2>8, <2>9 DEF RacingWell, Racing, Summing, Races, Sums
<1> QED
  BY <1>2, <1>3

(* A commit meets an order that owes nothing and a group never edited.      *)
LEMMA RaceCommit ==
    ASSUME Basics, RacingWell, NEW r \in Requests, CommitOrderEdit(r)
    PROVE  RacingWell'
<1>1. /\ req[r].step = "commit" /\ Group(r) \in Groups /\ Group(r) = req[r].group
      /\ req[r] \in Request /\ shipment' = shipment
  BY Types DEF CommitOrderEdit, At, Basics, Group
<1>2. CASE req[r].outdated
  BY <1>1, <1>2, RaceFinish DEF CommitOrderEdit, shopify
<1>3. CASE ~ req[r].outdated
  <2>1. /\ owed' = owed + Balance(r) /\ settled' = settled
        /\ billed' = [billed EXCEPT ![Group(r)] = @ + 1]
        /\ charged' = [charged EXCEPT ![Group(r)] = req[r].ship]
    BY <1>3 DEF CommitOrderEdit
  <2>2. owed = 0 /\ billed[Group(r)] = 0 /\ \A g \in Groups : billed[g] = settled[g]
    BY <1>1, <1>3 DEF RacingWell, Racing, Races, RaceBook
  <2>3. /\ \A g \in Groups : billed[g] \in Nat /\ settled[g] \in Nat
        /\ billed \in [Groups -> Nat] /\ charged \in [Groups -> 0 .. MaxPrice]
    BY Types DEF Basics, Inv, TypeOK
  <2>4. \A g \in Groups : billed'[g] = IF g = Group(r) THEN 1 ELSE billed[g]
    BY <1>1, <2>1, <2>2, <2>3
  <2>5. owed' = Goods[Group(r)] + req[r].ship /\ owed' > 0
    <3>1. Goods[Group(r)] \in Nat \ {0} /\ req[r].ship \in Nat
      BY <1>1, MoneyAssumption, BoundsAssumption DEF Request
    <3> QED
      BY <2>1, <2>2, <3>1 DEF Balance
  <2>6. RaceBook'
    <3>1. \A g \in Groups : billed'[g] > settled'[g] <=> g = Group(r)
      BY <1>1, <2>1, <2>2, <2>3, <2>4
    <3>2. \A g \in Groups : billed'[g] <= 1 /\ (settled'[g] > 0 => shipment'[g].sent)
      BY <1>1, <2>1, <2>4 DEF RacingWell, Racing, RaceBook
    <3>3. owed' # 0 /\ billed'[Group(r)] # settled'[Group(r)]
      BY <1>1, <2>1, <2>2, <2>3, <2>4, <2>5
    <3> QED
      BY <1>1, <3>1, <3>2, <3>3 DEF RaceBook
  <2> DEFINE next(p) == [req[p] EXCEPT !.step = IF p = r THEN "save" ELSE @,
                                       !.outdated = @ \/ req[p].step # "idle"]
  <2>0. \A p \in Requests : req'[p] = next(p)
    BY <1>3 DEF CommitOrderEdit, Outdate
  <2>7. \A p \in Requests :
          /\ next(p).step = IF p = r THEN "save" ELSE req[p].step
          /\ next(p).group = req[p].group /\ next(p).ship = req[p].ship
          /\ next(p).due = req[p].due /\ next(p).seen = req[p].seen
          /\ next(p).step # "idle" => next(p).outdated
    <3>1. \A p \in Requests : req[p] \in Request
      BY Types DEF Basics
    <3> QED
      BY <1>1, <3>1 DEF Request
  <2> HIDE DEF next
  <2>8. ASSUME NEW p \in Requests PROVE Races(req[p])'
    <3>1. Races(req[p])
      BY DEF RacingWell, Racing
    <3>2. req'[p] = next(p)
      BY <2>0
    <3> QED
      BY <2>7, <3>1, <3>2 DEF Races, EditSteps
  <2>9. TellApart => Summing'
    <3>1. SUFFICES ASSUME TellApart PROVE Summing'
      OBVIOUS
    <3>2. req[r].ship = 1
      BY <1>1, <3>1 DEF RacingWell, Summing, Sums
    <3>3. SumBook'
      <4>1. SumBook
        BY <3>1 DEF RacingWell, Summing
      <4>2. \A g \in Groups : charged'[g] = IF g = Group(r) THEN 1 ELSE charged[g]
        BY <2>1, <2>3, <3>2
      <4> QED
        BY <1>1, <2>1, <2>2, <2>3, <2>4, <2>5, <3>2, <4>1, <4>2 DEF SumBook, Sum
    <3>4. ASSUME NEW p \in Requests PROVE Sums(req[p])'
      <4>1. Sums(req[p])
        BY <3>1 DEF RacingWell, Summing
      <4>2. req'[p] = next(p)
        BY <2>0
      <4>3. p # r => req[p].step # "save" \/ billed'[req[p].group] > 0
        <5>1. req[p].step = "save" => billed[req[p].group] > 0 /\ req[p].group \in Groups
          BY <4>1, Types DEF Sums, Basics, Group
        <5> QED
          BY <2>3, <2>4, <5>1
      <4> QED
        BY <1>1, <2>4, <2>7, <4>1, <4>2, <4>3 DEF Sums
    <3> QED
      BY <3>3, <3>4 DEF Summing
  <2> QED
    BY <2>6, <2>8, <2>9 DEF RacingWell, Racing
<1> QED
  BY <1>2, <1>3

(* The customer pays the one edit there is, of a group that was sent.       *)
LEMMA RacePay ==
    ASSUME Basics, RacingWell, PayLink
    PROVE  RacingWell'
<1>1. PICK g \in Groups : shipment[g].sent /\ billed[g] > settled[g]
  BY DEF PayLink
<1>2. owed' = 0 /\ settled' = billed /\ UNCHANGED <<shipment, req, charged, billed>>
  BY DEF PayLink, Pay
<1>3. \A h \in Groups : billed[h] \in Nat /\ settled[h] \in Nat /\ settled[h] <= billed[h]
  BY Types DEF Basics, Ledger
<1>4. RaceBook
  BY DEF RacingWell, Racing
<1>5. \A h \in Groups : h = g \/ billed[h] = settled[h]
  BY <1>1, <1>3, <1>4 DEF RaceBook
<1>6. RaceBook'
  BY <1>1, <1>2, <1>3, <1>4, <1>5 DEF RaceBook
<1>7. ASSUME NEW p \in Requests
      PROVE  Races(req[p])' /\ (TellApart => Sums(req[p])')
  <2>1. Races(req[p]) /\ (TellApart => Sums(req[p]))
    BY DEF RacingWell, Racing, Summing
  <2>2. req[p].step \in {"claim", "commit"} /\ ~ req[p].outdated => owed = 0
    BY <2>1 DEF Races
  <2> QED
    BY <1>2, <2>1, <2>2 DEF Races, Sums
<1>8. TellApart => SumBook'
  BY <1>2, <1>3 DEF RacingWell, Summing, SumBook
<1> QED
  BY <1>6, <1>7, <1>8 DEF RacingWell, Racing, Summing

LEMMA RaceOutside ==
    ASSUME Basics, RacingWell, RowsGrow,
           \/ \E a \in Auditors : Reconcile(a) \/ AbandonAudit(a)
           \/ \E g \in Groups : ClaimTimeout(g)
    PROVE  RacingWell'
<1>1. UNCHANGED <<req, owed, billed, settled, charged>>
  BY DEF Reconcile, ReadAwaiting, LookAtOrder, MarkInvoicePaid, HandleSettlementOnlyPayment,
         AbandonAudit, ClaimTimeout, shopify
<1>2. \A g \in Groups : shipment[g] \in Row
  BY Types DEF Basics
<1>3. TellApart => SumBook'
  <2>1. CASE shipment' = shipment
    BY <1>1, <2>1 DEF RacingWell, Summing, SumBook
  <2>2. ASSUME NEW g \in Groups, shipment' = [shipment EXCEPT ![g].paid = TRUE]
        PROVE  TellApart => SumBook'
    <3> DEFINE w == [shipment[g] EXCEPT !.paid = TRUE]
    <3>1. /\ w.ship = shipment[g].ship /\ w.claimed = shipment[g].claimed
          /\ w.expected = shipment[g].expected /\ shipment' = [shipment EXCEPT ![g] = w]
      BY <1>2, <2>2 DEF Row
    <3> HIDE DEF w
    <3> QED
      BY <1>1, <3>1, RaceRow
  <2>3. ASSUME NEW g \in Groups, shipment' = [shipment EXCEPT ![g].aged = TRUE]
        PROVE  TellApart => SumBook'
    <3> DEFINE w == [shipment[g] EXCEPT !.aged = TRUE]
    <3>1. /\ w.ship = shipment[g].ship /\ w.claimed = shipment[g].claimed
          /\ w.expected = shipment[g].expected /\ shipment' = [shipment EXCEPT ![g] = w]
      BY <1>2, <2>3 DEF Row
    <3> HIDE DEF w
    <3> QED
      BY <1>1, <3>1, RaceRow
  <2>4. \A a \in Auditors : audit[a].groups \subseteq Groups
    BY DEF Basics, Inv, TypeOK, Audit
  <2> QED
    BY <2>1, <2>2, <2>3, <2>4
       DEF Reconcile, ReadAwaiting, LookAtOrder, MarkInvoicePaid, HandleSettlementOnlyPayment,
           AbandonAudit, ClaimTimeout
<1> QED
  BY <1>1, <1>3, RaceRows

LEMMA RaceStep ==
    ASSUME Basics, RacingWell, Requesting(Requests) \/ PayLink, Next
    PROVE  RacingWell'
<1>1. RowsGrow
  BY RowWrites
<1>2. ASSUME NEW r \in Requests, Edit(r) PROVE RacingWell'
  BY <1>1, <1>2, RaceSteps, RaceWrites, RaceClaim, RaceCommit DEF Edit
<1> QED
  BY <1>1, <1>2, RaceSteps, RaceOutside, RacePay DEF Requesting
----------------------------------------------------------------------------
(* The scenes in which requests come one at a time.                         *)
SoloWell == Solo /\ Priced

(* The request in hand, and what its record says.                           *)
LEMMA SoloTypes ==
    ASSUME Basics
    PROVE  /\ Desk \in Requests /\ req[Desk] \in Request /\ Group(Desk) = req[Desk].group
           /\ req[Desk].step # "idle" => Group(Desk) \in Groups
           /\ shipment \in [Groups -> Row]
           /\ \A g \in Groups : Goods[g] \in Nat /\ Goods[g] > 0
           /\ req[Desk].ship \in Nat
  BY Types, DeskAssumption, MoneyAssumption, BoundsAssumption
     DEF Basics, Inv, TypeOK, Group, Request

(* Only the request moves.                                                  *)
LEMMA SoloMoves ==
    ASSUME Basics, SoloWell, NEW q, Become(Desk, q), UNCHANGED <<shipment, shopify>>,
           Knows(q), faults' = 0 => PriceBook(q) /\ PriceOf(q)
    PROVE  SoloWell'
<1>1. req' = [req EXCEPT ![Desk] = q] /\ req \in [Requests -> Request] /\ Desk \in Requests
  BY SoloTypes DEF Basics, Inv, TypeOK, Become
<1>2. req'[Desk] = q /\ \A r \in Requests \ {Desk} : req'[r] = req[r]
  BY <1>1
<1>3. Alone'
  BY <1>2 DEF SoloWell, Solo, Alone, At
<1>4. OneBill' /\ BillBook'
  BY DEF SoloWell, Solo, OneBill, BillBook, Billing, Unfinished, Owes, shopify
<1>5. Knows(req[Desk])'
  BY <1>2 DEF Knows, Billing, shopify
<1>6. Priced'
  BY <1>2 DEF Priced, PriceBook, PriceOf, Unfinished, Awaiting, shopify
<1> QED
  BY <1>3, <1>4, <1>5, <1>6 DEF SoloWell, Solo

LEMMA SoloFinish ==
    ASSUME Basics, SoloWell, Finish(Desk), UNCHANGED <<shipment, shopify>>,
           faults' = 0 => /\ faults = 0
                          /\ req[Desk].step \notin {"commit", "save"}
                          /\ req[Desk].step \in {"resave", "reship"} => Mine(Desk).paid
    PROVE  SoloWell'
<1>1. Knows(Idle)
  BY DEF Knows, Idle, EditSteps
<1>2. faults' = 0 => PriceBook(Idle) /\ PriceOf(Idle)
  BY DEF SoloWell, Priced, PriceBook, PriceOf, Idle, EditSteps, Awaiting, Mine, Group
<1> QED
  BY <1>1, <1>2, SoloMoves DEF Finish

(* A step of the request that has yet to be said of its new record.         *)
LEMMA SoloGoto ==
    ASSUME Basics, SoloWell, NEW s \in Steps, Goto(Desk, s),
           UNCHANGED <<shipment, shopify, faults>>,
           \A q \in Request :
              q.step = s /\ q.group = req[Desk].group /\ q.ship = req[Desk].ship
                         /\ q.outdated = req[Desk].outdated /\ q.seen = req[Desk].seen =>
                 Knows(q) /\ (faults = 0 => PriceBook(q) /\ PriceOf(q))
    PROVE  SoloWell'
<1> DEFINE q == [req[Desk] EXCEPT !.step = s]
<1>1. req[Desk] \in Request
  BY SoloTypes
<1>2. /\ q \in Request /\ q.step = s /\ q.group = req[Desk].group /\ q.ship = req[Desk].ship
      /\ q.outdated = req[Desk].outdated /\ q.seen = req[Desk].seen
  BY <1>1 DEF Request
<1> HIDE DEF q
<1>3. Knows(q) /\ (faults = 0 => PriceBook(q) /\ PriceOf(q))
  BY <1>2
<1>4. Become(Desk, q)
  BY DEF Goto, q
<1> QED
  BY <1>3, <1>4, SoloMoves

LEMMA SoloStarts ==
    ASSUME Basics, SoloWell, NEW g \in Groups,
           StartRequest(Desk, g) \/ \E p \in Prices : StartShipping(Desk, g, p)
    PROVE  SoloWell'
<1>1. At(Desk, "idle") /\ UNCHANGED <<shipment, shopify, faults>>
  BY DEF StartRequest, StartShipping
<1>2. shipment[g] \in Row /\ shipment[g].claimed \in BOOLEAN
  BY SoloTypes DEF Row
<1>3. faults = 0 => \A h \in Groups : ~ Unfinished(h) /\ (Awaiting(h) => shipment[h].ship = charged[h])
  BY <1>1 DEF SoloWell, Priced, PriceBook, At
<1>4. CASE StartRequest(Desk, g)
  <2> DEFINE v == IF ~ shipment[g].claimed THEN "none"
                  ELSE IF shipment[g].aged THEN "aged" ELSE "fresh"
             q == [Idle EXCEPT !.step = "others", !.group = g, !.ship = shipment[g].ship,
                               !.due = shipment[g].expected, !.seen = v]
  <2>1. Become(Desk, q) /\ ~ shipment[g].sent
    BY <1>4 DEF StartRequest
  <2>2. q.step = "others" /\ q.group = g /\ q.ship = shipment[g].ship /\ q.seen = v
    BY DEF Idle
  <2>3. v = "none" <=> ~ shipment[g].claimed
    OBVIOUS
  <2> HIDE DEF q
  <2>4. Knows(q)
    BY <2>1, <2>2, <2>3 DEF Knows, EditSteps
  <2>5. faults = 0 => PriceBook(q) /\ PriceOf(q)
    BY <1>3, <2>2 DEF PriceBook, PriceOf, EditSteps
  <2> QED
    BY <1>1, <2>1, <2>4, <2>5, SoloMoves
<1>5. ASSUME NEW p \in Prices, StartShipping(Desk, g, p) PROVE SoloWell'
  <2> DEFINE q == [Idle EXCEPT !.step = IF shipment[g].sent THEN "reprice" ELSE "setShip",
                               !.group = g, !.ship = p]
  <2>1. Become(Desk, q) /\ ~ shipment[g].paid /\ ~ Unfinished(g)
    BY <1>5 DEF StartShipping
  <2>2. /\ q.group = g /\ q.step \in {"reprice", "setShip"}
        /\ q.step = "reprice" <=> shipment[g].sent
    BY DEF Idle
  <2> HIDE DEF q
  <2>3. shipment[g].sent => shipment[g].claimed
    BY DEF Basics, Rows
  <2>4. Knows(q)
    BY <2>1, <2>2, <2>3 DEF Knows, EditSteps, SoloWell, Solo, OneBill, Billing, Unfinished
  <2>5. faults = 0 => PriceBook(q) /\ PriceOf(q)
    BY <1>3, <2>2 DEF PriceBook, PriceOf, EditSteps
  <2> QED
    BY <1>1, <2>1, <2>4, <2>5, SoloMoves
<1> QED
  BY <1>4, <1>5

LEMMA SoloChecks ==
    ASSUME Basics, SoloWell,
           \/ CheckOthers(Desk) \/ AdoptOrderEditBalance(Desk) \/ CheckBefore(Desk)
           \/ BeginOrderEdit(Desk) \/ MarkGroupAwaiting(Desk)
           \/ RepriceBefore(Desk) \/ RepriceBegin(Desk) \/ Abandon(Desk)
    PROVE  SoloWell'
<1>1. UNCHANGED <<shipment, shopify>>
  BY DEF CheckOthers, AdoptOrderEditBalance, CheckBefore, BeginOrderEdit, MarkGroupAwaiting,
         RepriceBefore, RepriceBegin, Abandon
<1>2. Knows(req[Desk]) /\ (faults = 0 => PriceBook(req[Desk]) /\ PriceOf(req[Desk]))
  BY DEF SoloWell, Solo, Priced
<1>3. req[Desk] \in Request /\ Group(Desk) = req[Desk].group /\ req[Desk].outdated \in BOOLEAN
  BY SoloTypes DEF Request
<1>4. CASE CheckOthers(Desk)
  <2>1. /\ req[Desk].step = "others" /\ UNCHANGED faults
        /\ Group(Desk) \in Groups
    BY <1>4, SoloTypes DEF CheckOthers, At
  <2>2. CASE Finish(Desk)
    BY <1>1, <2>1, <2>2, SoloFinish
  <2>3. ASSUME NEW s \in {"adopt", "before"}, Goto(Desk, s), OthersClear(Desk),
               s = "adopt" => req[Desk].seen = "aged", s = "before" => req[Desk].seen = "none"
        PROVE  SoloWell'
    <3>1. ASSUME NEW q \in Request, q.step = s, q.group = req[Desk].group, q.ship = req[Desk].ship
          PROVE  Knows(q) /\ (faults = 0 => PriceBook(q) /\ PriceOf(q))
      <4>1. Knows(q)
        BY <1>2, <1>3, <2>1, <2>3, <3>1 DEF Knows, EditSteps, OthersClear
      <4>2. faults = 0 => PriceBook(q) /\ PriceOf(q)
        BY <1>2, <2>1, <3>1 DEF PriceBook, PriceOf, EditSteps
      <4> QED
        BY <4>1, <4>2
    <3> QED
      BY <1>1, <2>1, <2>3, <3>1, SoloGoto DEF Steps
  <2>4. req[Desk].seen \in {"none", "fresh", "aged"}
    BY <1>3 DEF Request
  <2> QED
    BY <1>4, <2>2, <2>3, <2>4 DEF CheckOthers
<1>5. CASE AdoptOrderEditBalance(Desk)
  <2>1. /\ req[Desk].step = "adopt" /\ UNCHANGED faults /\ Group(Desk) \in Groups
    BY <1>5, SoloTypes DEF AdoptOrderEditBalance, At
  <2>2. Unfinished(Group(Desk))
    BY <1>2, <1>3, <2>1 DEF Knows, EditSteps, Unfinished
  <2>3. faults # 0
    BY <1>2, <2>1, <2>2 DEF PriceBook
  <2>4. CASE Finish(Desk)
    BY <1>1, <2>1, <2>4, SoloFinish
  <2>5. ASSUME NEW s \in {"release", "save"}, Goto(Desk, s), s = "release" => owed = 0,
               s = "save" => owed # 0
        PROVE  SoloWell'
    <3>1. s = "save" => billed[Group(Desk)] > 0
      <4>1. owed \in Nat
        BY Types DEF Basics
      <4> QED
        BY <2>1, <2>2, <2>5, <4>1 DEF SoloWell, Solo, BillBook
    <3>2. ASSUME NEW q \in Request, q.step = s, q.group = req[Desk].group PROVE Knows(q)
      BY <1>2, <1>3, <2>1, <2>5, <3>1, <3>2 DEF Knows, EditSteps
    <3> QED
      BY <1>1, <2>1, <2>3, <2>5, <3>2, SoloGoto DEF Steps
  <2> QED
    BY <1>5, <2>4, <2>5 DEF AdoptOrderEditBalance
<1>6. CASE CheckBefore(Desk)
  <2>1. req[Desk].step = "before" /\ UNCHANGED faults
    BY <1>6 DEF CheckBefore, At
  <2>2. CASE Finish(Desk)
    BY <1>1, <2>1, <2>2, SoloFinish
  <2>3. CASE Goto(Desk, "begin")
    <3>1. ASSUME NEW q \in Request, q.step = "begin", q.group = req[Desk].group,
                 q.ship = req[Desk].ship
          PROVE  Knows(q) /\ (faults = 0 => PriceBook(q) /\ PriceOf(q))
      <4>1. Knows(q)
        BY <1>2, <2>1, <3>1 DEF Knows, EditSteps
      <4>2. faults = 0 => PriceBook(q) /\ PriceOf(q)
        BY <1>2, <2>1, <3>1 DEF PriceBook, PriceOf, EditSteps
      <4> QED
        BY <4>1, <4>2
    <3> QED
      BY <1>1, <2>1, <2>3, <3>1, SoloGoto DEF Steps
  <2> QED
    BY <1>6, <2>2, <2>3 DEF CheckBefore
<1>7. CASE BeginOrderEdit(Desk)
  <2>1. req[Desk].step = "begin" /\ UNCHANGED faults
    BY <1>7 DEF BeginOrderEdit, At
  <2>2. CASE Finish(Desk)
    BY <1>1, <2>1, <2>2, SoloFinish
  <2>3. CASE owed = 0 /\ ~ Finish(Desk)
    <3> DEFINE q == [req[Desk] EXCEPT !.step = "claim", !.outdated = FALSE, !.due = Balance(Desk)]
    <3>1. Become(Desk, q)
      BY <1>7, <2>3 DEF BeginOrderEdit
    <3>2. q.step = "claim" /\ q.group = req[Desk].group /\ q.ship = req[Desk].ship /\ ~ q.outdated
      BY <1>3 DEF Request
    <3> HIDE DEF q
    <3>3. Knows(q)
      BY <1>2, <2>1, <2>3, <3>2 DEF Knows, EditSteps
    <3>4. faults = 0 => PriceBook(q) /\ PriceOf(q)
      BY <1>2, <2>1, <3>2 DEF PriceBook, PriceOf, EditSteps
    <3> QED
      BY <1>1, <2>1, <3>1, <3>3, <3>4, SoloMoves
  <2> QED
    BY <1>7, <2>2, <2>3 DEF BeginOrderEdit
<1>8. CASE MarkGroupAwaiting(Desk)
  BY <1>1, <1>8, SoloFinish DEF MarkGroupAwaiting, At
<1>9. CASE RepriceBefore(Desk)
  <2>1. req[Desk].step = "reprice" /\ UNCHANGED faults
    BY <1>9 DEF RepriceBefore, At
  <2>2. CASE Finish(Desk)
    BY <1>1, <2>1, <2>2, SoloFinish
  <2>3. CASE ~ Finish(Desk)
    <3> DEFINE q == [req[Desk] EXCEPT !.step = "rebegin", !.due = owed]
    <3>1. Become(Desk, q)
      BY <1>9, <2>3 DEF RepriceBefore
    <3>2. q.step = "rebegin" /\ q.group = req[Desk].group
      BY <1>3 DEF Request
    <3> HIDE DEF q
    <3>3. Knows(q)
      BY <1>2, <2>1, <3>2 DEF Knows, EditSteps
    <3>4. faults = 0 => PriceBook(q) /\ PriceOf(q)
      BY <1>2, <2>1, <3>2 DEF PriceBook, PriceOf, EditSteps
    <3> QED
      BY <1>1, <2>1, <3>1, <3>3, <3>4, SoloMoves
  <2> QED
    BY <2>2, <2>3
<1>10. CASE RepriceBegin(Desk)
  <2>1. req[Desk].step = "rebegin" /\ UNCHANGED faults
    BY <1>10 DEF RepriceBegin, At
  <2>2. CASE Finish(Desk)
    BY <1>1, <2>1, <2>2, SoloFinish
  <2>3. CASE ~ Finish(Desk)
    <3> DEFINE q == [req[Desk] EXCEPT !.step = "recommit", !.outdated = FALSE,
                                      !.due = owed - charged[Group(Desk)] + req[Desk].ship]
    <3>1. Become(Desk, q)
      BY <1>10, <2>3 DEF RepriceBegin
    <3>2. q.step = "recommit" /\ q.group = req[Desk].group
      BY <1>3 DEF Request
    <3> HIDE DEF q
    <3>3. Knows(q)
      BY <1>2, <2>1, <3>2 DEF Knows, EditSteps
    <3>4. faults = 0 => PriceBook(q) /\ PriceOf(q)
      BY <1>2, <2>1, <3>2 DEF PriceBook, PriceOf, EditSteps
    <3> QED
      BY <1>1, <2>1, <3>1, <3>3, <3>4, SoloMoves
  <2> QED
    BY <2>2, <2>3
<1>11. CASE Abandon(Desk)
  <2>1. faults \in Nat /\ faults' = faults + 1 /\ Finish(Desk)
    BY <1>11, BoundsAssumption DEF Abandon, Basics, Inv, TypeOK
  <2> QED
    BY <1>1, <2>1, SoloFinish
<1> QED
  BY <1>4, <1>5, <1>6, <1>7, <1>8, <1>9, <1>10, <1>11

LEMMA SoloBecomes ==
    ASSUME Basics, NEW q, Become(Desk, q)
    PROVE  req'[Desk] = q
  BY SoloTypes DEF Basics, Inv, TypeOK, Become

(* The request writes its row.                                              *)
LEMMA SoloWrites ==
    ASSUME Basics, SoloWell, NEW g \in Groups, g = Group(Desk), NEW w \in Row,
           shipment' = [shipment EXCEPT ![g] = w], UNCHANGED <<shopify, faults>>,
           NEW q, Become(Desk, q), q.step = "idle" \/ q.group = g,
           w.paid => w.sent,
           w.claimed /\ ~ w.paid => /\ Billing(g) \/ \A h \in Groups \ {g} : ~ Billing(h)
                                    /\ w.sent \/ owed = 0 \/ Unfinished(g),
           Owes(g) => w.claimed /\ ~ w.paid,
           Knows(req[Desk])',
           faults = 0 => /\ PriceOf(req[Desk])'
                         /\ \A h \in Groups \ {g} :
                               ~ Unfinished(h) /\ (Awaiting(h) => shipment[h].ship = charged[h])
                         /\ w.claimed /\ ~ w.sent => q.step \in {"commit", "save"} /\ q.group = g
                         /\ w.claimed /\ w.sent /\ ~ w.paid =>
                               w.ship = charged[g] \/ (q.step \in {"resave", "reship"} /\ q.group = g)
    PROVE  SoloWell'
<1>1. req' = [req EXCEPT ![Desk] = q] /\ req \in [Requests -> Request] /\ Desk \in Requests
  BY SoloTypes DEF Basics, Inv, TypeOK, Become
<1>2. req'[Desk] = q /\ \A r \in Requests \ {Desk} : req'[r] = req[r]
  BY <1>1
<1>3. shipment'[g] = w /\ \A h \in Groups \ {g} : shipment'[h] = shipment[h]
  BY SoloTypes
<1>4. Alone'
  BY <1>2 DEF SoloWell, Solo, Alone, At
<1>5. OneBill'
  BY <1>3 DEF SoloWell, Solo, OneBill, Billing
<1>6. BillBook'
  <2>1. UNCHANGED <<owed, billed, settled, charged>> /\ Rows
    BY DEF shopify, Basics
  <2>2. ASSUME NEW h \in Groups, Owes(h)'
        PROVE  Billing(h)' /\ owed' = Goods[h] + charged'[h]
    BY <1>3, <2>1, <2>2 DEF SoloWell, Solo, BillBook, Owes, Billing
  <2>3. ASSUME NEW h \in Groups, Unfinished(h)', owed' > 0
        PROVE  billed'[h] > 0
    <3>1. CASE h # g
      BY <1>3, <2>1, <2>3, <3>1 DEF SoloWell, Solo, BillBook, Unfinished
    <3>2. CASE h = g
      <4>1. w.claimed /\ ~ w.sent /\ owed > 0
        BY <1>3, <2>1, <2>3, <3>2 DEF Unfinished
      <4> QED
        BY <2>1, <3>2, <4>1 DEF SoloWell, Solo, BillBook
    <3> QED
      BY <3>1, <3>2
  <2> QED
    BY <2>2, <2>3 DEF BillBook
<1>7. Knows(req[Desk])'
  OBVIOUS
<1>8. Priced'
  BY <1>2, <1>3 DEF Priced, PriceBook, PriceOf, Unfinished, Awaiting, shopify
<1> QED
  BY <1>4, <1>5, <1>6, <1>7, <1>8 DEF SoloWell, Solo

LEMMA SoloRowSteps ==
    ASSUME Basics, SoloWell,
           \/ ReleaseOrderEditBalanceClaim(Desk) \/ CompleteOrderEditBalance(Desk)
           \/ UpdateShippingByShipmentID(Desk) \/ UpdateOrderEditBalanceShipping(Desk)
           \/ UpdateInvoicedShipping(Desk)
    PROVE  SoloWell'
<1> DEFINE g == Group(Desk)
<1>1. /\ UNCHANGED <<shopify, faults>>
      /\ req[Desk].step \in {"release", "save", "setShip", "resave", "reship"}
  BY DEF ReleaseOrderEditBalanceClaim, CompleteOrderEditBalance, UpdateShippingByShipmentID,
         UpdateOrderEditBalanceShipping, UpdateInvoicedShipping, At
<1>2. /\ g \in Groups /\ shipment[g] \in Row /\ req[Desk] \in Request /\ g = req[Desk].group
      /\ shipment \in [Groups -> Row] /\ req[Desk].ship \in 0 .. MaxPrice /\ req[Desk].due \in Int
      /\ req[Desk].step # "idle"
  BY <1>1, SoloTypes DEF Request
<1>3. Knows(req[Desk]) /\ (faults = 0 => PriceBook(req[Desk]) /\ PriceOf(req[Desk]))
  BY DEF SoloWell, Solo, Priced
<1>4. \A h \in Groups : /\ shipment[h].sent => shipment[h].claimed
                        /\ shipment[h].paid => shipment[h].sent
  BY DEF Basics, Rows
<1>5. Owes(g) => Billing(g) /\ owed > 0
  <2>1. Goods[g] \in Nat /\ Goods[g] > 0 /\ charged[g] \in Nat
    BY <1>2, SoloTypes, Types DEF Basics
  <2> QED
    BY <1>2, <2>1 DEF SoloWell, Solo, BillBook
<1>6. Become(Desk, Idle) => Knows(req[Desk])' /\ PriceOf(req[Desk])'
  <2>1. Become(Desk, Idle) => req'[Desk] = Idle
    BY SoloBecomes
  <2> QED
    BY <2>1 DEF Knows, PriceOf, Idle, EditSteps
<1> HIDE DEF g
<1>7. CASE ReleaseOrderEditBalanceClaim(Desk)
  <2>1. req[Desk].step = "release" /\ Unfinished(g) /\ owed = 0
    BY <1>2, <1>3, <1>7 DEF ReleaseOrderEditBalanceClaim, At, Knows, EditSteps, Unfinished
  <2>2. faults # 0
    BY <1>2, <1>3, <2>1 DEF PriceBook
  <2> DEFINE w == [shipment[g] EXCEPT !.claimed = FALSE, !.expected = 0, !.aged = FALSE]
             q == [req[Desk] EXCEPT !.step = "before"]
  <2>3. shipment' = [shipment EXCEPT ![g] = w] /\ Become(Desk, q)
    BY <1>7, <2>1 DEF ReleaseOrderEditBalanceClaim, Goto, g
  <2>4. w \in Row /\ ~ w.claimed /\ w.sent = shipment[g].sent /\ w.paid = shipment[g].paid
    <3>1. ASSUME NEW x \in Row, NEW n \in Int, NEW b \in BOOLEAN
          PROVE  LET y == [x EXCEPT !.claimed = b, !.expected = n, !.aged = b]
                 IN  y \in Row /\ y.sent = x.sent /\ y.paid = x.paid /\ y.claimed = b
      BY DEF Row
    <3>2. FALSE \in BOOLEAN /\ 0 \in Int
      OBVIOUS
    <3> QED
      BY <1>2, <3>1, <3>2, Zenon
  <2>5. q.step = "before" /\ q.group = g
    BY <1>2 DEF Request
  <2> HIDE DEF w, q
  <2>6. shipment'[g] = w /\ \A h \in Groups \ {g} : shipment'[h] = shipment[h]
    BY <1>2, <2>3
  <2>7. Knows(req[Desk])'
    BY <1>2, <1>3, <1>4, <2>1, <2>3, <2>4, <2>5, <2>6, SoloBecomes DEF Knows, EditSteps, Billing, Unfinished
  <2> QED
    <3>1. ~ Owes(g) /\ (w.paid => w.sent)
      BY <1>2, <1>4, <1>5, <2>1, <2>4
    <3> QED
      BY <1>1, <1>2, <2>2, <2>3, <2>4, <2>5, <2>7, <3>1, SoloWrites DEF g
<1>8. CASE CompleteOrderEditBalance(Desk)
  <2> DEFINE w == [shipment[g] EXCEPT !.claimed = TRUE, !.sent = TRUE, !.aged = FALSE,
                                      !.expected = req[Desk].due]
             q == [req[Desk] EXCEPT !.step = "mark"]
  <2>1. req[Desk].step = "save" /\ ~ shipment[g].sent /\ shipment[g].claimed /\ ~ shipment[g].paid
    BY <1>2, <1>3, <1>4, <1>8 DEF CompleteOrderEditBalance, At, Knows, EditSteps
  <2>2. shipment' = [shipment EXCEPT ![g] = w] /\ Become(Desk, q)
    BY <1>8 DEF CompleteOrderEditBalance, Goto, g
  <2>3. /\ w \in Row /\ w.claimed /\ w.sent /\ w.paid = shipment[g].paid
        /\ w.ship = shipment[g].ship
    BY <1>2 DEF Row
  <2>4. q.step = "mark" /\ q.group = g
    BY <1>2 DEF Request
  <2> HIDE DEF w, q
  <2>5. Knows(req[Desk])' /\ PriceOf(req[Desk])'
    BY <2>2, <2>4, SoloBecomes DEF Knows, PriceOf, EditSteps
  <2>6. faults = 0 => /\ w.ship = charged[g]
                      /\ \A h \in Groups \ {g} :
                            ~ Unfinished(h) /\ (Awaiting(h) => shipment[h].ship = charged[h])
    BY <1>2, <1>3, <2>1, <2>3 DEF PriceBook, PriceOf, EditSteps
  <2> QED
    BY <1>1, <1>2, <1>4, <1>5, <2>1, <2>2, <2>3, <2>4, <2>5, <2>6, SoloWrites DEF g, Billing
<1>9. CASE UpdateShippingByShipmentID(Desk)
  <2> DEFINE w == [shipment[g] EXCEPT !.ship = req[Desk].ship, !.aged = FALSE]
  <2>1. req[Desk].step = "setShip" /\ ~ shipment[g].claimed
    BY <1>2, <1>3, <1>9 DEF UpdateShippingByShipmentID, At, Knows
  <2>2. shipment' = [shipment EXCEPT ![g] = w] /\ Become(Desk, Idle)
    BY <1>9 DEF UpdateShippingByShipmentID, Finish, g
  <2>3. w \in Row /\ ~ w.claimed /\ w.sent = shipment[g].sent /\ w.paid = shipment[g].paid
    BY <1>2, <2>1 DEF Row
  <2> HIDE DEF w
  <2>4. faults = 0 => \A h \in Groups \ {g} :
                            ~ Unfinished(h) /\ (Awaiting(h) => shipment[h].ship = charged[h])
    BY <1>2, <1>3, <2>1 DEF PriceBook
  <2> QED
    BY <1>1, <1>2, <1>4, <1>5, <1>6, <2>1, <2>2, <2>3, <2>4, SoloWrites DEF g, Idle, Billing
<1>10. CASE UpdateOrderEditBalanceShipping(Desk)
  <2>1. req[Desk].step = "resave" /\ shipment[g].sent /\ shipment[g].claimed
    BY <1>2, <1>3, <1>4, <1>10 DEF UpdateOrderEditBalanceShipping, At, Knows
  <2>2. CASE Mine(Desk).paid
    BY <1>1, <1>10, <2>1, <2>2, SoloFinish DEF UpdateOrderEditBalanceShipping
  <2>3. CASE ~ Mine(Desk).paid
    <3> DEFINE w == [shipment[g] EXCEPT !.expected = req[Desk].due]
               q == [req[Desk] EXCEPT !.step = "reship"]
    <3>1. shipment' = [shipment EXCEPT ![g] = w] /\ Become(Desk, q)
      BY <1>10, <2>3 DEF UpdateOrderEditBalanceShipping, Goto, g
    <3>2. /\ w \in Row /\ w.claimed /\ w.sent /\ ~ w.paid
          /\ w.ship = shipment[g].ship
      BY <1>2, <2>1, <2>3 DEF Row, Mine, g
    <3>3. q.step = "reship" /\ q.group = g /\ q.ship = req[Desk].ship
      BY <1>2 DEF Request
    <3> HIDE DEF w, q
    <3>4. shipment'[g] = w /\ \A h \in Groups \ {g} : shipment'[h] = shipment[h]
      BY <1>2, <3>1
    <3>5. Knows(req[Desk])'
      BY <1>2, <1>3, <2>1, <3>1, <3>2, <3>3, <3>4, SoloBecomes DEF Knows, EditSteps, Billing
    <3>6. faults = 0 => /\ PriceOf(req[Desk])'
                        /\ \A h \in Groups \ {g} :
                              ~ Unfinished(h) /\ (Awaiting(h) => shipment[h].ship = charged[h])
      BY <1>1, <1>2, <1>3, <2>1, <3>1, <3>3, SoloBecomes DEF PriceBook, PriceOf, EditSteps, shopify
    <3> QED
      BY <1>1, <1>2, <1>4, <1>5, <2>1, <2>3, <3>1, <3>2, <3>3, <3>5, <3>6, SoloWrites
         DEF g, Billing, Mine
  <2> QED
    BY <2>2, <2>3
<1>11. CASE UpdateInvoicedShipping(Desk)
  <2>1. req[Desk].step = "reship" /\ shipment[g].sent /\ shipment[g].claimed
    BY <1>2, <1>3, <1>4, <1>11 DEF UpdateInvoicedShipping, At, Knows
  <2>2. CASE Mine(Desk).paid
    BY <1>1, <1>11, <2>1, <2>2, SoloFinish DEF UpdateInvoicedShipping
  <2>3. CASE ~ Mine(Desk).paid
    <3> DEFINE w == [shipment[g] EXCEPT !.ship = req[Desk].ship]
    <3>1. shipment' = [shipment EXCEPT ![g] = w] /\ Become(Desk, Idle)
      BY <1>11, <2>3 DEF UpdateInvoicedShipping, Finish, g
    <3>2. /\ w \in Row /\ w.claimed /\ w.sent /\ ~ w.paid
          /\ w.ship = req[Desk].ship
      BY <1>2, <2>1, <2>3 DEF Row, Mine, g
    <3> HIDE DEF w
    <3>3. faults = 0 => /\ w.ship = charged[g]
                        /\ \A h \in Groups \ {g} :
                              ~ Unfinished(h) /\ (Awaiting(h) => shipment[h].ship = charged[h])
      BY <1>2, <1>3, <2>1, <3>2 DEF PriceBook, PriceOf, EditSteps
    <3> QED
      BY <1>1, <1>2, <1>4, <1>5, <1>6, <2>1, <2>3, <3>1, <3>2, <3>3, SoloWrites
         DEF g, Billing, Mine, Idle
  <2> QED
    BY <2>2, <2>3
<1> QED
  BY <1>7, <1>8, <1>9, <1>10, <1>11

(* Both the claim and a commit leave every request that is not in hand be.  *)
LEMMA SoloClaim ==
    ASSUME Basics, SoloWell, ClaimOrderEditBalance(Desk)
    PROVE  SoloWell'
<1> DEFINE g == Group(Desk)
<1>1. /\ req[Desk].step = "claim" /\ g \in Groups /\ UNCHANGED <<shopify, faults>>
      /\ g = req[Desk].group /\ req[Desk] \in Request /\ shipment[g] \in Row
      /\ req[Desk].due \in Int /\ shipment \in [Groups -> Row] /\ Desk \in Requests
  BY SoloTypes DEF ClaimOrderEditBalance, At, Request
<1>2. Knows(req[Desk]) /\ (faults = 0 => PriceBook(req[Desk]) /\ PriceOf(req[Desk]))
  BY DEF SoloWell, Solo, Priced
<1>3. ~ shipment[g].claimed /\ ~ shipment[g].sent /\ owed = 0 /\ ~ req[Desk].outdated
  BY <1>1, <1>2 DEF Knows, EditSteps
<1>4. ~ shipment[g].paid
  BY <1>1, <1>3 DEF Basics, Rows
<1> DEFINE w == [shipment[g] EXCEPT !.claimed = TRUE, !.aged = FALSE, !.expected = req[Desk].due]
           next(p) == [req[p] EXCEPT !.step = IF p = Desk THEN "commit" ELSE @,
                                     !.during = IF req[p].step = "idle" THEN @
                                                ELSE @ \cup {Group(Desk)}]
<1>5. shipment' = [shipment EXCEPT ![g] = w] /\ req' = [p \in Requests |-> next(p)]
  BY <1>3 DEF ClaimOrderEditBalance, Mine
<1>6. /\ w.claimed /\ ~ w.sent /\ ~ w.paid /\ w.ship = shipment[g].ship
  BY <1>1, <1>3, <1>4 DEF Row
<1>7. \A p \in Requests :
        /\ next(p).step = IF p = Desk THEN "commit" ELSE req[p].step
        /\ next(p).group = req[p].group /\ next(p).ship = req[p].ship
        /\ next(p).outdated = req[p].outdated
  BY Types DEF Basics, Request
<1> HIDE DEF w, next, g
<1>8. /\ req'[Desk].step = "commit" /\ req'[Desk].group = g /\ req'[Desk].ship = req[Desk].ship
      /\ ~ req'[Desk].outdated
      /\ \A r \in Requests \ {Desk} : req'[r].step = req[r].step
  BY <1>1, <1>3, <1>5, <1>7
<1>9. shipment'[g] = w /\ \A h \in Groups \ {g} : shipment'[h] = shipment[h]
  BY <1>1, <1>5
<1>10. UNCHANGED <<owed, billed, settled, charged>>
  BY <1>1 DEF shopify
<1>11. \A h \in Groups \ {g} : ~ Billing(h)
  BY <1>1, <1>2 DEF Knows
<1>12. Alone'
  BY <1>8 DEF SoloWell, Solo, Alone, At
<1>13. OneBill'
  BY <1>9, <1>11 DEF OneBill, Billing
<1>14. \A h \in Groups : ~ Owes(h)
  <2>1. \A h \in Groups : Owes(h) => owed = Goods[h] + charged[h]
    BY DEF SoloWell, Solo, BillBook
  <2>2. \A h \in Groups : Goods[h] \in Nat /\ Goods[h] > 0 /\ charged[h] \in Nat
    BY SoloTypes, Types DEF Basics
  <2> QED
    BY <1>3, <2>1, <2>2
<1>15. BillBook'
  BY <1>3, <1>10, <1>14 DEF BillBook, Owes
<1>16. Knows(req[Desk])'
  BY <1>3, <1>6, <1>8, <1>9, <1>10, <1>11 DEF Knows, EditSteps, Billing
<1>17. Priced'
  <2>1. faults = 0 => PriceOf(req[Desk])'
    BY <1>1, <1>2, <1>6, <1>8, <1>9 DEF PriceOf, EditSteps
  <2>2. faults = 0 => PriceBook(req[Desk])'
    BY <1>1, <1>2, <1>6, <1>8, <1>9, <1>10 DEF PriceBook, Unfinished, Awaiting
  <2> QED
    BY <1>1, <2>1, <2>2 DEF Priced
<1> QED
  BY <1>12, <1>13, <1>15, <1>16, <1>17 DEF SoloWell, Solo

(* A commit changes the order, and what it says of the groups in it.        *)
LEMMA SoloOutdates ==
    ASSUME Basics, NEW s \in {"save", "resave"}, Outdate(Desk, s)
    PROVE  /\ req'[Desk].step = s /\ req'[Desk].group = req[Desk].group
           /\ req'[Desk].ship = req[Desk].ship
           /\ \A r \in Requests \ {Desk} : req'[r].step = req[r].step
<1> DEFINE next(p) == [req[p] EXCEPT !.step = IF p = Desk THEN s ELSE @,
                                     !.outdated = @ \/ req[p].step # "idle"]
<1>1. \A p \in Requests : req'[p] = next(p)
  BY DEF Outdate
<1>2. \A p \in Requests : /\ next(p).step = IF p = Desk THEN s ELSE req[p].step
                          /\ next(p).group = req[p].group /\ next(p).ship = req[p].ship
  BY Types DEF Basics, Request
<1> HIDE DEF next
<1> QED
  BY <1>1, <1>2, DeskAssumption

LEMMA SoloCommit ==
    ASSUME Basics, SoloWell, CommitOrderEdit(Desk)
    PROVE  SoloWell'
<1> DEFINE g == Group(Desk)
<1>1. /\ req[Desk].step = "commit" /\ g \in Groups /\ UNCHANGED <<shipment, faults>>
      /\ g = req[Desk].group /\ req[Desk].ship \in Nat
  BY SoloTypes DEF CommitOrderEdit, At
<1>2. Knows(req[Desk]) /\ (faults = 0 => PriceBook(req[Desk]) /\ PriceOf(req[Desk]))
  BY DEF SoloWell, Solo, Priced
<1>3. shipment[g].claimed /\ ~ shipment[g].sent /\ owed = 0 /\ ~ req[Desk].outdated
  BY <1>1, <1>2 DEF Knows, EditSteps
<1>4. ~ shipment[g].paid /\ \A h \in Groups : Unfinished(h) => Billing(h)
  BY <1>1, <1>3 DEF Basics, Rows, Unfinished, Billing
<1>5. /\ owed' = owed + Balance(Desk) /\ settled' = settled
      /\ billed' = [billed EXCEPT ![g] = @ + 1]
      /\ charged' = [charged EXCEPT ![g] = req[Desk].ship]
      /\ Outdate(Desk, "save")
  BY <1>3 DEF CommitOrderEdit
<1>6. /\ \A h \in Groups : billed[h] \in Nat /\ settled[h] \in Nat /\ charged[h] \in Nat
      /\ \A h \in Groups : Goods[h] \in Nat /\ Goods[h] > 0
      /\ billed \in [Groups -> Nat] /\ charged \in [Groups -> 0 .. MaxPrice]
  BY SoloTypes, Types DEF Basics, Inv, TypeOK
<1>7. owed' = Goods[g] + req[Desk].ship
  BY <1>1, <1>3, <1>5, <1>6 DEF Balance
<1> HIDE DEF g
<1>8. /\ billed'[g] = billed[g] + 1 /\ charged'[g] = req[Desk].ship
      /\ \A h \in Groups \ {g} : billed'[h] = billed[h] /\ charged'[h] = charged[h]
  BY <1>1, <1>5, <1>6
<1>9. /\ req'[Desk].step = "save" /\ req'[Desk].group = g /\ req'[Desk].ship = req[Desk].ship
      /\ \A r \in Requests \ {Desk} : req'[r].step = req[r].step
  BY <1>1, <1>5, SoloOutdates
<1>10. \A h \in Groups : ~ Owes(h)
  <2>1. \A h \in Groups : Owes(h) => owed = Goods[h] + charged[h]
    BY DEF SoloWell, Solo, BillBook
  <2> QED
    BY <1>3, <1>6, <2>1
<1>11. \A h \in Groups : Billing(h) <=> h = g
  BY <1>1, <1>2, <1>3, <1>4 DEF Knows, Billing
<1>12. Alone' /\ OneBill'
  BY <1>1, <1>9 DEF SoloWell, Solo, Alone, At, OneBill, Billing
<1>13. BillBook'
  <2>1. ASSUME NEW h \in Groups, Owes(h)' PROVE Billing(h)' /\ owed' = Goods[h] + charged'[h]
    BY <1>1, <1>5, <1>7, <1>8, <1>10, <1>11, <2>1 DEF Owes, Billing
  <2>2. ASSUME NEW h \in Groups, Unfinished(h)' PROVE billed'[h] > 0
    BY <1>1, <1>4, <1>6, <1>8, <1>11, <2>2 DEF Unfinished, Billing
  <2> QED
    BY <2>1, <2>2 DEF BillBook
<1>14. Knows(req[Desk])'
  BY <1>1, <1>3, <1>6, <1>8, <1>9, <1>11 DEF Knows, EditSteps, Billing
<1>15. Priced'
  <2>1. faults = 0 => PriceOf(req[Desk])'
    BY <1>1, <1>2, <1>8, <1>9 DEF PriceOf, EditSteps
  <2>2. faults = 0 => PriceBook(req[Desk])'
    BY <1>1, <1>2, <1>3, <1>8, <1>9 DEF PriceBook, Unfinished, Awaiting
  <2> QED
    BY <1>1, <2>1, <2>2 DEF Priced
<1> QED
  BY <1>12, <1>13, <1>14, <1>15 DEF SoloWell, Solo

(* Re-pricing the one group that is billed: whatever it owed for its goods  *)
(* it still owes.                                                           *)
LEMMA SoloReprice ==
    ASSUME Basics, SoloWell, RepriceCommit(Desk), ~ req[Desk].outdated
    PROVE  /\ SoloWell'
           /\ \A h \in Groups : Owes(h) => owed' > 0
<1> DEFINE g == Group(Desk)
<1>1. /\ req[Desk].step = "recommit" /\ g \in Groups /\ UNCHANGED <<shipment, faults>>
      /\ g = req[Desk].group /\ req[Desk].ship \in Nat
  BY SoloTypes DEF RepriceCommit, At
<1>2. Knows(req[Desk]) /\ (faults = 0 => PriceBook(req[Desk]) /\ PriceOf(req[Desk]))
  BY DEF SoloWell, Solo, Priced
<1>3. /\ owed' = (IF Swapped(Desk) > 0 THEN Swapped(Desk) ELSE 0)
      /\ charged' = [charged EXCEPT ![g] = req[Desk].ship]
      /\ Outdate(Desk, "resave") /\ UNCHANGED <<left, billed, settled>>
  BY DEF RepriceCommit
<1>4. /\ \A h \in Groups : billed[h] \in Nat /\ settled[h] \in Nat /\ charged[h] \in Nat
      /\ \A h \in Groups : Goods[h] \in Nat /\ Goods[h] > 0
      /\ charged \in [Groups -> 0 .. MaxPrice] /\ owed \in Nat
  BY SoloTypes, Types DEF Basics, Inv, TypeOK
<1>5. Swapped(Desk) = owed - charged[g] + req[Desk].ship
  BY DEF Swapped
<1> HIDE DEF g
<1>6. charged'[g] = req[Desk].ship /\ \A h \in Groups \ {g} : charged'[h] = charged[h]
  BY <1>1, <1>3, <1>4
<1>7. /\ req'[Desk].step = "resave" /\ req'[Desk].group = g /\ req'[Desk].ship = req[Desk].ship
      /\ \A r \in Requests \ {Desk} : req'[r].step = req[r].step
  BY <1>1, <1>3, SoloOutdates
<1>8. shipment[g].sent /\ \A h \in Groups : Billing(h) => h = g
  BY <1>1, <1>2 DEF Knows
<1>9. \A h \in Groups : Owes(h) => Billing(h) /\ h = g /\ owed = Goods[h] + charged[h]
  BY <1>8 DEF SoloWell, Solo, BillBook
<1>10. \A h \in Groups : Owes(h) => owed' = Goods[h] + charged'[h] /\ owed' > 0
  BY <1>1, <1>3, <1>4, <1>5, <1>6, <1>9
<1>11. \A h \in Groups : ~ Unfinished(h)
  BY <1>8 DEF Basics, Rows, Unfinished, Billing
<1>12. Alone' /\ OneBill'
  BY <1>1, <1>7 DEF SoloWell, Solo, Alone, At, OneBill, Billing
<1>13. BillBook'
  BY <1>1, <1>3, <1>9, <1>10, <1>11 DEF BillBook, Owes, Billing, Unfinished
<1>14. Knows(req[Desk])'
  BY <1>1, <1>7, <1>8 DEF Knows, EditSteps, Billing
<1>15. Priced'
  <2>1. faults = 0 => PriceOf(req[Desk])'
    BY <1>6, <1>7 DEF PriceOf, EditSteps
  <2>2. faults = 0 => PriceBook(req[Desk])'
    BY <1>1, <1>2, <1>6, <1>7, <1>11 DEF PriceBook, Unfinished, Awaiting
  <2> QED
    BY <1>1, <2>1, <2>2 DEF Priced
<1> QED
  BY <1>10, <1>12, <1>13, <1>14, <1>15 DEF SoloWell, Solo

LEMMA SoloPay ==
    ASSUME Basics, SoloWell, Pay
    PROVE  SoloWell'
<1>1. owed' = 0 /\ settled' = billed /\ UNCHANGED <<shipment, req, charged, billed, faults>>
  BY DEF Pay
<1>2. \A h \in Groups : billed[h] \in Nat
  BY Types DEF Basics
<1>3. BillBook'
  BY <1>1, <1>2 DEF BillBook, Owes
<1>4. Alone' /\ OneBill' /\ Knows(req[Desk])'
  BY <1>1 DEF SoloWell, Solo, Alone, At, OneBill, Billing, Knows
<1>5. Priced'
  BY <1>1 DEF SoloWell, Priced, PriceBook, PriceOf, Unfinished, Awaiting
<1> QED
  BY <1>3, <1>4, <1>5 DEF SoloWell, Solo

(* The auditors and the clock leave the order and the requests alone.       *)
LEMMA SoloOutside ==
    ASSUME Basics, SoloWell, Audited,
           \/ \E a \in Auditors : Reconcile(a) \/ AbandonAudit(a)
           \/ \E g \in Groups : ClaimTimeout(g)
    PROVE  SoloWell'
<1>1. UNCHANGED <<req, owed, billed, settled, charged>> /\ (faults' = 0 => faults = 0)
  <2>1. faults \in Nat
    BY BoundsAssumption DEF Basics, Inv, TypeOK
  <2> QED
    BY <2>1 DEF Reconcile, ReadAwaiting, LookAtOrder, MarkInvoicePaid,
                HandleSettlementOnlyPayment, AbandonAudit, ClaimTimeout, shopify
<1>2. \A g \in Groups :
        /\ shipment'[g].claimed = shipment[g].claimed /\ shipment'[g].sent = shipment[g].sent
        /\ shipment'[g].ship = shipment[g].ship
        /\ shipment[g].paid => shipment'[g].paid
        /\ shipment'[g].paid => shipment[g].paid \/ settled[g] > 0
  <2>1. shipment \in [Groups -> Row]
    BY SoloTypes
  <2>2. CASE shipment' = shipment
    BY <2>2
  <2>3. ASSUME NEW a \in Auditors, MarkInvoicePaid(a)
        PROVE  \E g \in Groups : /\ settled[g] > 0
                                 /\ shipment' = [shipment EXCEPT ![g].paid = TRUE]
    BY <2>3 DEF MarkInvoicePaid, Audited, Basics, Inv, TypeOK, Audit
  <2>4. ASSUME NEW g \in Groups, settled[g] > 0, shipment' = [shipment EXCEPT ![g].paid = TRUE]
        PROVE  <1>2!:
    BY <2>1, <2>4 DEF Row
  <2>5. ASSUME NEW g \in Groups, shipment' = [shipment EXCEPT ![g].aged = TRUE]
        PROVE  <1>2!:
    BY <2>1, <2>5 DEF Row
  <2> QED
    BY <2>2, <2>3, <2>4, <2>5
       DEF Reconcile, ReadAwaiting, LookAtOrder, HandleSettlementOnlyPayment, AbandonAudit,
           ClaimTimeout
<1>3. \A h \in Groups : settled[h] \in Nat
  BY Types DEF Basics
<1>4. Alone' /\ OneBill'
  BY <1>1, <1>2 DEF SoloWell, Solo, Alone, At, OneBill, Billing
<1>5. BillBook'
  BY <1>1, <1>2, <1>3 DEF SoloWell, Solo, BillBook, Owes, Billing, Unfinished
<1>6. Knows(req[Desk])'
  <2>1. req[Desk].step = "idle" \/ req[Desk].group \in Groups
    BY SoloTypes
  <2>2. Knows(req[Desk])
    BY DEF SoloWell, Solo
  <2> QED
    BY <1>1, <1>2, <2>1, <2>2 DEF Knows, EditSteps, Billing
<1>7. Priced'
  <2>1. req[Desk].step = "idle" \/ req[Desk].group \in Groups
    BY SoloTypes
  <2>2. faults = 0 => PriceOf(req[Desk])'
    BY <1>1, <1>2, <2>1 DEF SoloWell, Priced, PriceOf, EditSteps
  <2>3. faults = 0 => PriceBook(req[Desk])'
    BY <1>1, <1>2 DEF SoloWell, Priced, PriceBook, Unfinished, Awaiting
  <2> QED
    BY <1>1, <2>2, <2>3 DEF Priced
<1> QED
  BY <1>4, <1>5, <1>6, <1>7 DEF SoloWell, Solo

LEMMA SoloStep ==
    ASSUME Basics, SoloWell, Audited, Requesting({Desk}) \/ Repricing({Desk}) \/ Pay
    PROVE  SoloWell'
<1>1. CASE Edit(Desk)
  BY <1>1, SoloChecks, SoloRowSteps, SoloClaim, SoloCommit DEF Edit
<1>2. CASE RepriceCommit(Desk) /\ req[Desk].outdated
  <2>1. Finish(Desk) /\ UNCHANGED <<shipment, shopify, faults>> /\ req[Desk].step = "recommit"
    BY <1>2 DEF RepriceCommit, At
  <2> QED
    BY <2>1, SoloFinish
<1>3. CASE Shipping(Desk)
  BY <1>2, <1>3, SoloChecks, SoloRowSteps, SoloReprice DEF Shipping
<1> QED
  BY <1>1, <1>3, SoloStarts, SoloChecks, SoloPay, SoloOutside DEF Requesting, Repricing
----------------------------------------------------------------------------
(* All scenes together: in each of them a save follows an edit.             *)
LEMMA SceneBacked ==
    ASSUME SceneInv, Told
    PROVE  Backed
<1>1. Basics /\ Collects
  BY DEF SceneInv, Basics
<1>2. \A g \in Groups : billed[g] \in Nat /\ settled[g] \in Nat /\ charged[g] \in Nat
  BY <1>1, Types DEF Basics
<1>3. CASE scene = "together"
  <2>1. Racing /\ Summing
    BY <1>3 DEF SceneInv, Told
  <2>2. \A r \in Requests : At(r, "save") => billed[Group(r)] > 0 /\ Group(r) \in Groups
    BY <1>1, <2>1, Types DEF Summing, Sums, At, Group, Basics
  <2>3. \A r \in Requests : ~ Reprices(r)
    BY <2>1 DEF Racing, Races, EditSteps, Reprices, RepriceCommit, At
  <2> QED
    BY <1>2, <2>1, <2>2, <2>3 DEF Backed, Racing, RaceBook
<1>4. CASE scene # "together"
  <2>1. SoloWell
    BY <1>4 DEF SceneInv, SoloWell
  <2>2. \A r \in Requests : ~ At(r, "idle") => r = Desk
    BY <2>1 DEF SoloWell, Solo, Alone
  <2>3. \A g \in Groups : Owes(g) => owed > 0
    <3>1. \A g \in Groups : Goods[g] \in Nat /\ Goods[g] > 0
      BY <1>1, SoloTypes
    <3> QED
      BY <1>2, <2>1, <3>1 DEF SoloWell, Solo, BillBook
  <2>4. ASSUME NEW r \in Requests, At(r, "save")
        PROVE  billed[Group(r)] > 0 /\ (owed = 0 => settled[Group(r)] > 0)
    <3>1. r = Desk /\ Group(r) \in Groups
      BY <1>1, <2>2, <2>4, SoloTypes DEF At
    <3>2. billed[Group(r)] > 0
      BY <2>1, <2>4, <3>1 DEF SoloWell, Solo, Knows, At, Group
    <3> QED
      BY <1>2, <2>3, <3>1, <3>2 DEF Owes
  <2>5. ASSUME NEW r \in Requests, Reprices(r), owed' = 0, NEW g \in Groups, shipment[g].sent
        PROVE  settled[g] > 0
    <3>1. r = Desk /\ RepriceCommit(Desk) /\ ~ req[Desk].outdated
      BY <2>2, <2>5 DEF Reprices, RepriceCommit, At
    <3>2. ~ Owes(g)
      BY <1>1, <2>1, <2>5, <3>1, SoloReprice
    <3> QED
      BY <1>1, <1>2, <2>5, <3>2 DEF Owes, Collects
  <2> QED
    BY <2>4, <2>5 DEF Backed
<1> QED
  BY <1>3, <1>4

LEMMA SceneStart == SceneInit => SceneInv
<1> SUFFICES ASSUME SceneInit PROVE SceneInv
  OBVIOUS
<1>1. Basics /\ scene \in Scenes /\ Desk \in Requests
  BY BasicsInit, DeskAssumption DEF SceneInit
<1> USE DEF SceneInit, Init
<1>2. \A g \in Groups : /\ shipment[g] = [claimed |-> FALSE, sent |-> FALSE, paid |-> FALSE,
                                          aged |-> FALSE, expected |-> 0, ship |-> 1]
                        /\ billed[g] = 0 /\ settled[g] = 0
  OBVIOUS
<1>3. \A r \in Requests : req[r] = Idle
  OBVIOUS
<1>4. Racing
  BY <1>2, <1>3 DEF Racing, RaceBook, Races, Idle
<1>5. Summing
  BY <1>2, <1>3 DEF Summing, SumBook, Sums, Idle
<1>6. Solo
  <2>1. Alone
    BY <1>3 DEF Alone, At, Idle
  <2>2. OneBill /\ BillBook
    BY <1>2 DEF OneBill, BillBook, Billing, Owes, Unfinished
  <2>3. Knows(req[Desk])
    BY <1>1, <1>3 DEF Knows, Idle, EditSteps
  <2> QED
    BY <2>1, <2>2, <2>3 DEF Solo
<1>7. Priced
  BY <1>1, <1>2, <1>3 DEF Priced, PriceBook, PriceOf, Unfinished, Awaiting, Idle, EditSteps
<1>8. Collects
  BY <1>2 DEF Collects
<1>9. Audited
  BY DEF Audited, Quiet
<1> QED
  BY <1>1, <1>4, <1>5, <1>6, <1>7, <1>8, <1>9 DEF SceneInv, Basics

LEMMA SceneStep == SceneInv /\ [SceneNext]_<<vars, scene>> => SceneInv'
<1> SUFFICES ASSUME SceneInv, [SceneNext]_<<vars, scene>> PROVE SceneInv'
  OBVIOUS
<1>1. Basics /\ scene \in Scenes
  BY DEF SceneInv, Basics
<1>2. CASE UNCHANGED <<vars, scene>>
  BY <1>2
     DEF vars, shopify, SceneInv, Inv, TypeOK, NoUnitTwice, SessionsFit, Fits, Serving, Serves,
         Rows, Listed, Ledger, Racing, RaceBook, Races, Summing, SumBook, Sums, Solo, Alone, At,
         OneBill, BillBook, Knows, Priced, PriceBook, PriceOf, Told, Collects, Audited,
         Owes, Billing, Unfinished, Awaiting
<1>3. CASE SceneNext
  <2>1. Next /\ scene' = scene
    BY <1>3, SceneSteps DEF SceneNext
  <2>2. Basics'
    BY <1>1, <2>1, BasicsStep
  <2>3. Told => (Collects /\ Audited)'
    BY <1>1, <2>1, SceneBacked, CollectStep DEF SceneInv
  <2>4. CASE scene = "together"
    <3>1. RacingWell /\ (Requesting(Requests) \/ PayLink)
      BY <1>3, <2>4 DEF SceneInv, RacingWell, SceneNext, Together, InTurn, Asking
    <3>2. RacingWell'
      BY <1>1, <2>1, <3>1, RaceStep
    <3> QED
      BY <1>1, <2>1, <2>2, <2>3, <2>4, <3>2 DEF SceneInv, RacingWell, Basics, Told
  <2>5. CASE scene # "together"
    <3>1. SoloWell /\ (Requesting({Desk}) \/ Repricing({Desk}) \/ Pay)
      BY <1>3, <2>5 DEF SceneInv, SoloWell, SceneNext, Together, InTurn, Asking
    <3>2. Audited
      BY <2>5 DEF SceneInv, Told
    <3>3. SoloWell'
      BY <1>1, <3>1, <3>2, SoloStep
    <3> QED
      BY <1>1, <2>1, <2>2, <2>3, <2>5, <3>3 DEF SceneInv, SoloWell, Basics, Told
  <2> QED
    BY <2>4, <2>5
<1> QED
  BY <1>2, <1>3

LEMMA SceneInvariance == SceneSpec => []SceneInv
  BY SceneStart, SceneStep, PTL DEF SceneSpec

(* balance_edit.go:157, "finishes this edit or redoes it, never both": any  *)
(* number of requests race, fail, age and are retried, and no group is      *)
(* billed twice while the customer pays through the link only.              *)
THEOREM OnceCorrect == SceneSpec => []EditedOnce
<1>1. SceneInv => EditedOnce
  BY DEF SceneInv, EditedOnce, Racing, RaceBook
<1> QED
  BY <1>1, SceneInvariance, PTL

(* balance_payment.go, ReconcileOrderEditBalance: with any number of        *)
(* webhooks and jobs at once, a group is marked paid only after the         *)
(* customer paid an edit of it, unless requests race for equal amounts.     *)
THEOREM CollectedCorrect == SceneSpec => []PaidWasCollected
<1>1. SceneInv => PaidWasCollected
  BY DEF SceneInv, PaidWasCollected, Collects
<1> QED
  BY <1>1, SceneInvariance, PTL

(* balance_payment.go:36, "only one group can await payment per order":     *)
(* requests, re-pricings, failures and payments one at a time keep it so.   *)
THEOREM OneCorrect == SceneSpec => []OneAwaiting
<1>1. SceneInv => OneAwaiting
  BY DEF SceneInv, Basics, OneAwaiting, Solo, OneBill, Awaiting, Billing
<1> QED
  BY <1>1, SceneInvariance, PTL

(* UpdatePreorderShipping and repriceOrderEditBalance: when nothing failed  *)
(* and no request is in hand, the saved price is the one Shopify bills.     *)
THEOREM PriceCorrect == SceneSpec => []SavedPriceIsBilled
<1>1. SceneInv => SavedPriceIsBilled
  <2> SUFFICES ASSUME SceneInv, Told, faults = 0, \A r \in Requests : req[r] = Idle,
                      NEW g \in Groups, Awaiting(g)
               PROVE  shipment[g].ship = charged[g]
    BY DEF SavedPriceIsBilled
  <2>1. CASE scene = "together"
    <3>1. SumBook /\ shipment[g].sent /\ billed[g] > 0
      BY <2>1 DEF SceneInv, Told, Summing, Collects, Awaiting
    <3> QED
      BY <3>1 DEF SumBook
  <2>2. CASE scene # "together"
    <3>1. PriceBook(req[Desk]) /\ req[Desk] = Idle
      BY <2>2, DeskAssumption DEF SceneInv, Priced
    <3> QED
      BY <3>1 DEF PriceBook, Idle
  <2> QED
    BY <2>1, <2>2
<1> QED
  BY <1>1, SceneInvariance, PTL
=============================================================================
