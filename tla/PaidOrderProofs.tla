-------------------------- MODULE PaidOrderProofs --------------------------
(***************************************************************************)
(* Proofs about PaidOrder, for any lines, events and workers and any       *)
(* number of deliveries, failures and restarts.                            *)
(***************************************************************************)
EXTENDS PaidOrder, TLAPS

(* What a request is about.                                                 *)
Known(w) ==
    /\ req[w].step \in Handling => req[w].event \in Events
    /\ At(w, "settle") => req[w].line \in req[w].todo

Typed == TypeOK /\ \A w \in Workers : Known(w)

(* What a request knows while it loops over the lines, whoever else is at   *)
(* work: effects on the order are never undone, except by a cancellation.   *)
Later    == {"hold", "settlements", "settle", "shipment", "upsert"}
Settling == {"settlements", "settle"}
Shipping == {"shipment", "upsert"}

Progress(w) ==
    /\ At(w, "allocate") => \A l \in Lines \ req[w].todo : l \in allocated \/ dropped
    /\ req[w].step \in Later => allocated = Lines \/ dropped
    /\ req[w].step \in Settling => (hold \/ dropped) /\ \A l \in Lines \ req[w].todo : settlements[l] > 0
    /\ req[w].step \in Shipping => (hold \/ dropped) /\ \A l \in Lines : settlements[l] > 0
    /\ At(w, "release") => dropped

Order == EffectsInOrder /\ \A w \in Workers : Progress(w)

(* What it knows besides when it has no company.                            *)
Alone == ~ untimely => \A v, w \in Workers : v = w \/ At(v, "idle") \/ At(w, "idle")

Answering == {"save", "reply"}

Timely(w) ==
    /\ At(w, "create") => status = "none"
    /\ At(w, "settle") => settlements[req[w].line] = 0
    /\ req[w].step \in Answering /\ failures = 0 => Done \/ dropped
    /\ dropped => req[w].step \in {"idle", "release"}
    /\ At(w, "release") => allocated \subseteq req[w].todo

RecordedIsDone == ~ untimely /\ failures = 0 /\ processed # {} => Done \/ dropped

CancelledIsDropped == status = "cancelled" => dropped

Solo == ~ untimely => \A w \in Workers : Timely(w)

----------------------------------------------------------------------------
LEMMA IdleType == Idle \in Request
  BY DEF Idle, Request, Steps

LEMMA BecomeType ==
    ASSUME TypeOK, NEW w \in Workers, NEW r \in Request, Become(w, r)
    PROVE  req' \in [Workers -> Request]
  BY DEF TypeOK, Become

LEMMA GotoType ==
    ASSUME TypeOK, NEW w \in Workers, NEW s \in Steps, Goto(w, s) \/ Loop(w, s)
    PROVE  req' \in [Workers -> Request]
<1>1. [req[w] EXCEPT !.step = s] \in Request /\ [req[w] EXCEPT !.step = s, !.todo = Lines] \in Request
  BY DEF TypeOK, Request
<1> QED
  BY <1>1, BecomeType DEF Goto, Loop

LEMMA ReturnType ==
    ASSUME TypeOK, NEW w \in Workers, Return(w) \/ Finish(w)
    PROVE  req' \in [Workers -> Request]
<1>1. [req[w] EXCEPT !.step = "save", !.error = TRUE] \in Request
  BY DEF TypeOK, Request, Steps, Handling
<1> QED
  BY <1>1, IdleType, BecomeType DEF Return, Finish

LEMMA VisitedType ==
    ASSUME TypeOK, NEW w \in Workers, NEW l \in Lines, NEW s \in Steps, NEW t \in Steps,
           Visited(w, l, s, t)
    PROVE  req' \in [Workers -> Request]
<1> DEFINE n == IF req[w].todo = {l} THEN t ELSE s
           r == [req[w] EXCEPT !.step = n, !.todo = @ \ {l}, !.line = None]
<1>1. n \in Steps
  OBVIOUS
<1>2. req[w] \in Request
  BY DEF TypeOK
<1>3. req[w].todo \ {l} \in SUBSET Lines
  BY <1>2 DEF Request
<1> HIDE DEF n
<1>4. r \in Request
  BY <1>1, <1>2, <1>3 DEF Request
<1>5. Become(w, r)
  BY DEF Visited, n
<1> QED
  BY <1>4, <1>5, BecomeType

LEMMA FailureType ==
    ASSUME TypeOK, Failure
    PROVE  failures' \in 0 .. MaxFailures
  BY BoundsAssumption DEF TypeOK, Failure

LEMMA FailsType ==
    ASSUME TypeOK, NEW w \in Workers, Fails(w)
    PROVE  req' \in [Workers -> Request] /\ failures' \in 0 .. MaxFailures
           /\ UNCHANGED <<untimely, restarts>>
  BY ReturnType, FailureType DEF Fails

LEMMA InitType == Init => TypeOK
<1> SUFFICES ASSUME Init
             PROVE  TypeOK
  OBVIOUS
<1>1. req \in [Workers -> Request]
  BY IdleType DEF Init
<1>2. tries \in [Events -> 0 .. MaxTries] /\ failures \in 0 .. MaxFailures /\ restarts \in 0 .. MaxRestarts
  BY BoundsAssumption DEF Init
<1>3. settlements \in [Lines -> Nat] /\ sent \in [Events -> {"none", "due", "acked"}]
  BY DEF Init
<1>4. dropped \in BOOLEAN /\ hold \in BOOLEAN /\ untimely \in BOOLEAN
  BY DEF Init
<1> QED
  BY <1>1, <1>2, <1>3, <1>4 DEF Init, TypeOK

(* Deliveries and answers.                                                  *)
LEMMA DeliveryType ==
    ASSUME TypeOK, NEW e \in Events
    PROVE  /\ Pay(e) => TypeOK'
           /\ \A w \in Workers : Skip(w, e) \/ Handle(w, e) => TypeOK'
<1>1. ASSUME Pay(e) PROVE TypeOK'
  BY <1>1 DEF Pay, TypeOK, rows, past
<1>2. ASSUME NEW w \in Workers, Skip(w, e) PROVE TypeOK'
  <2>1. tries' \in [Events -> 0 .. MaxTries]
    BY <1>2, BoundsAssumption DEF Skip, Arrives, TypeOK
  <2>2. sent' \in [Events -> {"none", "due", "acked"}]
    BY <1>2 DEF Skip, Answered, TypeOK
  <2> QED
    BY <1>2, <2>1, <2>2 DEF Skip, TypeOK, rows, past
<1>3. ASSUME NEW w \in Workers, Handle(w, e) PROVE TypeOK'
  <2>1. tries' \in [Events -> 0 .. MaxTries]
    BY <1>3, BoundsAssumption DEF Handle, Arrives, TypeOK
  <2>2. [Idle EXCEPT !.step = "lookup", !.event = e] \in Request
    BY DEF Idle, Request, Steps, Handling
  <2>3. req' \in [Workers -> Request]
    BY <1>3, <2>2, BecomeType DEF Handle
  <2>4. failures' \in 0 .. MaxFailures
    BY <1>3, FailureType DEF Handle, TypeOK
  <2>5. untimely' \in BOOLEAN
    BY <1>3 DEF Handle
  <2> QED
    BY <1>3, <2>1, <2>3, <2>4, <2>5 DEF Handle, TypeOK, rows
<1> QED
  BY <1>1, <1>2, <1>3
(* The statements of HandleOrderPaid.                                       *)
LEMMA HandlerType ==
    ASSUME TypeOK, NEW w \in Workers, Known(w), HandleOrderPaid(w)
    PROVE  TypeOK'
<1> {"create", "allocate", "hold", "settlements", "settle", "shipment", "upsert", "save", "reply"} \subseteq Steps
  BY DEF Steps, Handling
<1>1. CASE LookUpOrder(w)
  <2>1. req' \in [Workers -> Request]
    BY <1>1, GotoType, FailsType DEF LookUpOrder
  <2>2. failures' \in 0 .. MaxFailures /\ UNCHANGED <<untimely, restarts>>
    BY <1>1, FailsType DEF LookUpOrder, TypeOK, past
  <2> QED
    BY <1>1, <2>1, <2>2 DEF LookUpOrder, TypeOK, rows, shop
<1>2. CASE CreateOrder(w)
  <2>1. [req[w] EXCEPT !.step = "allocate", !.todo = Lines, !.fresh = TRUE] \in Request
    BY DEF TypeOK, Request
  <2>2. req' \in [Workers -> Request]
    BY <1>2, <2>1, BecomeType, ReturnType, FailsType DEF CreateOrder
  <2>3. failures' \in 0 .. MaxFailures /\ UNCHANGED <<untimely, restarts>>
    BY <1>2, FailsType DEF CreateOrder, TypeOK, past
  <2>4. status' \in {"none", "processing", "cancelled"}
    BY <1>2 DEF CreateOrder, TypeOK
  <2> QED
    BY <1>2, <2>2, <2>3, <2>4 DEF CreateOrder, TypeOK, shop
<1>3. CASE Allocate(w)
  <2>1. req' \in [Workers -> Request] /\ allocated' \subseteq Lines
    BY <1>3, VisitedType, FailsType DEF Allocate, TypeOK, Request
  <2>2. failures' \in 0 .. MaxFailures /\ UNCHANGED <<untimely, restarts>>
    BY <1>3, FailsType DEF Allocate, TypeOK, past
  <2> QED
    BY <1>3, <2>1, <2>2 DEF Allocate, TypeOK, shop
<1>4. CASE UpdateHoldUntilBatch(w)
  <2>1. req' \in [Workers -> Request] /\ hold' \in BOOLEAN
    BY <1>4, GotoType, FailsType DEF UpdateHoldUntilBatch, TypeOK
  <2>2. failures' \in 0 .. MaxFailures /\ UNCHANGED <<untimely, restarts>>
    BY <1>4, FailsType DEF UpdateHoldUntilBatch, TypeOK, past
  <2> QED
    BY <1>4, <2>1, <2>2 DEF UpdateHoldUntilBatch, TypeOK, shop
<1>5. CASE LookUpSettlement(w)
  <2>1. ASSUME NEW l \in Lines PROVE [req[w] EXCEPT !.step = "settle", !.line = l] \in Request
    BY DEF TypeOK, Request
  <2>2. req[w].todo \subseteq Lines
    BY DEF TypeOK, Request
  <2>3. req' \in [Workers -> Request]
    BY <1>5, <2>1, <2>2, BecomeType, VisitedType, FailsType DEF LookUpSettlement
  <2>4. failures' \in 0 .. MaxFailures /\ UNCHANGED <<untimely, restarts>>
    BY <1>5, FailsType DEF LookUpSettlement, TypeOK, past
  <2> QED
    BY <1>5, <2>3, <2>4 DEF LookUpSettlement, TypeOK, rows, shop
<1>6. CASE CreateSettlement(w)
  <2>0. At(w, "settle") => req[w].line \in Lines
    BY DEF Known, TypeOK, Request
  <2>1. req' \in [Workers -> Request]
    BY <1>6, <2>0, VisitedType, FailsType DEF CreateSettlement
  <2>2. settlements' \in [Lines -> Nat]
    BY <1>6 DEF CreateSettlement, TypeOK
  <2>3. failures' \in 0 .. MaxFailures /\ UNCHANGED <<untimely, restarts>>
    BY <1>6, FailsType DEF CreateSettlement, TypeOK, past
  <2> QED
    BY <1>6, <2>1, <2>2, <2>3 DEF CreateSettlement, TypeOK, shop
<1>7. CASE LookUpShipment(w)
  <2>1. req' \in [Workers -> Request]
    BY <1>7, GotoType, FailsType DEF LookUpShipment
  <2>2. failures' \in 0 .. MaxFailures /\ UNCHANGED <<untimely, restarts>>
    BY <1>7, FailsType DEF LookUpShipment, TypeOK, past
  <2> QED
    BY <1>7, <2>1, <2>2 DEF LookUpShipment, TypeOK, rows, shop
<1>8. CASE UpsertShipment(w)
  <2>1. req' \in [Workers -> Request]
    BY <1>8, GotoType, ReturnType, FailsType DEF UpsertShipment
  <2>2. failures' \in 0 .. MaxFailures /\ UNCHANGED <<untimely, restarts>>
    BY <1>8, FailsType, FailureType DEF UpsertShipment, TypeOK, past
  <2>3. shipment' \in {"none", "charged", "declared"}
    BY <1>8 DEF UpsertShipment, Prepaid, TypeOK
  <2> QED
    BY <1>8, <2>1, <2>2, <2>3 DEF UpsertShipment, TypeOK, shop
<1>9. CASE SaveWebhookEvent(w)
  <2>0. req[w].event \in Events
    BY <1>9 DEF SaveWebhookEvent, Known, At, Handling
  <2>1. req' \in [Workers -> Request]
    BY <1>9, GotoType DEF SaveWebhookEvent
  <2>2. failures' \in 0 .. MaxFailures /\ UNCHANGED <<untimely, restarts>>
    BY <1>9, FailureType DEF SaveWebhookEvent, TypeOK, past
  <2> QED
    BY <1>9, <2>0, <2>1, <2>2 DEF SaveWebhookEvent, TypeOK, rows, shop
<1>10. CASE Reply(w)
  <2>1. req' \in [Workers -> Request]
    BY <1>10, ReturnType DEF Reply
  <2>2. sent' \in [Events -> {"none", "due", "acked"}]
    BY <1>10 DEF Reply, Answered, TypeOK
  <2> QED
    BY <1>10, <2>1, <2>2 DEF Reply, TypeOK, rows, past
<1> QED
  BY <1>1, <1>2, <1>3, <1>4, <1>5, <1>6, <1>7, <1>8, <1>9, <1>10 DEF HandleOrderPaid, Finalize
(* Cancelling, and the whole of it.                                         *)
LEMMA CancelType ==
    ASSUME TypeOK, NEW w \in Workers, CancelOrder(w) \/ Cancel(w)
    PROVE  TypeOK'
<1>1. CASE CancelOrder(w)
  <2>1. [Idle EXCEPT !.step = "release", !.todo = Lines] \in Request
    BY DEF Idle, Request, Steps
  <2>2. req' \in [Workers -> Request]
    BY <1>1, <2>1, BecomeType DEF CancelOrder
  <2>3. untimely' \in BOOLEAN
    BY <1>1 DEF CancelOrder
  <2> QED
    BY <1>1, <2>2, <2>3 DEF CancelOrder, TypeOK, shop
<1>2. CASE ReleaseAllocations(w)
  <2>1. req[w].todo \subseteq Lines /\ "release" \in Steps
    BY DEF TypeOK, Request, Steps
  <2>2. req' \in [Workers -> Request]
    BY <1>2, <2>1, VisitedType, ReturnType DEF ReleaseAllocations
  <2>3. failures' \in 0 .. MaxFailures /\ UNCHANGED <<untimely, restarts>>
    BY <1>2, FailureType DEF ReleaseAllocations, TypeOK, past
  <2>4. allocated' \subseteq Lines
    BY <1>2 DEF ReleaseAllocations, TypeOK
  <2> QED
    BY <1>2, <2>2, <2>3, <2>4 DEF ReleaseAllocations, TypeOK, shop
<1>3. CASE UpdateOrderStatus(w)
  <2>1. req' \in [Workers -> Request]
    BY <1>3, ReturnType DEF UpdateOrderStatus
  <2> QED
    BY <1>3, <2>1 DEF UpdateOrderStatus, TypeOK, shop, past
<1> QED
  BY <1>1, <1>2, <1>3 DEF Cancel

LEMMA RestartType == TypeOK /\ Restart => TypeOK'
<1> SUFFICES ASSUME TypeOK, Restart
             PROVE  TypeOK'
  OBVIOUS
<1>1. req' \in [Workers -> Request]
  BY IdleType DEF Restart
<1>2. restarts' \in 0 .. MaxRestarts
  BY BoundsAssumption DEF Restart, TypeOK
<1> QED
  BY <1>1, <1>2 DEF Restart, TypeOK, rows, shop
----------------------------------------------------------------------------
(* A step of one request leaves the others where they are.                  *)
LEMMA Apart ==
    ASSUME TypeOK, NEW w \in Workers, NEW v \in Workers, v # w, NEW r, Become(w, r)
    PROVE  req'[v] = req[v]
  BY DEF TypeOK, Become

LEMMA Here ==
    ASSUME TypeOK, NEW w \in Workers, NEW r, Become(w, r)
    PROVE  req'[w] = r
  BY DEF TypeOK, Become

(* What Visited leaves: the rest of the loop, or its next step.             *)
LEMMA VisitedIs ==
    ASSUME TypeOK, NEW w \in Workers, NEW l, NEW s, NEW t, Visited(w, l, s, t)
    PROVE  /\ req'[w].step = IF req[w].todo = {l} THEN t ELSE s
           /\ req'[w].todo = req[w].todo \ {l}
           /\ req'[w].event = req[w].event
           /\ \A v \in Workers : v # w => req'[v] = req[v]
<1>1. req[w] \in Request
  BY DEF TypeOK
<1>2. req'[w] = [req[w] EXCEPT !.step = IF req[w].todo = {l} THEN t ELSE s,
                             !.todo = @ \ {l}, !.line = None]
  BY Here DEF Visited
<1> QED
  BY <1>1, <1>2, Apart DEF Visited, Request

(* ... and the other ways to go on.                                         *)
Same(w) == req'[w].event = req[w].event /\ req'[w].line = req[w].line

LEMMA GotoIs ==
    ASSUME TypeOK, NEW w \in Workers, NEW s, Goto(w, s)
    PROVE  /\ req'[w].step = s /\ req'[w].todo = req[w].todo /\ Same(w)
           /\ \A v \in Workers \ {w} : req'[v] = req[v]
<1>1. req'[w] = [req[w] EXCEPT !.step = s] /\ req[w] \in Request
  BY Here DEF Goto, TypeOK
<1> QED
  BY <1>1, Apart DEF Goto, Request, Same

LEMMA LoopIs ==
    ASSUME TypeOK, NEW w \in Workers, NEW s, Loop(w, s)
    PROVE  /\ req'[w].step = s /\ req'[w].todo = Lines /\ Same(w)
           /\ \A v \in Workers \ {w} : req'[v] = req[v]
<1>1. req'[w] = [req[w] EXCEPT !.step = s, !.todo = Lines] /\ req[w] \in Request
  BY Here DEF Loop, TypeOK
<1> QED
  BY <1>1, Apart DEF Loop, Request, Same

LEMMA ReturnIs ==
    ASSUME TypeOK, NEW w \in Workers, Return(w) \/ Fails(w)
    PROVE  /\ req'[w].step = "save" /\ Same(w)
           /\ \A v \in Workers \ {w} : req'[v] = req[v]
<1>1. req'[w] = [req[w] EXCEPT !.step = "save", !.error = TRUE] /\ req[w] \in Request
  BY Here DEF Return, Fails, TypeOK
<1> QED
  BY <1>1, Apart DEF Return, Fails, Request, Same

LEMMA FinishIs ==
    ASSUME TypeOK, NEW w \in Workers, Finish(w)
    PROVE  req'[w].step = "idle" /\ \A v \in Workers \ {w} : req'[v] = req[v]
  BY Here, Apart DEF Finish, Idle

LEMMA SettleIs ==
    ASSUME TypeOK, NEW w \in Workers, NEW l \in req[w].todo,
           Become(w, [req[w] EXCEPT !.step = "settle", !.line = l])
    PROVE  /\ req'[w].step = "settle" /\ req'[w].todo = req[w].todo
           /\ req'[w].event = req[w].event /\ req'[w].line = l
           /\ \A v \in Workers \ {w} : req'[v] = req[v]
<1>1. req'[w] = [req[w] EXCEPT !.step = "settle", !.line = l] /\ req[w] \in Request
  BY Here DEF TypeOK
<1> QED
  BY <1>1, Apart DEF Request

LEMMA CreateIs ==
    ASSUME TypeOK, NEW w \in Workers,
           Become(w, [req[w] EXCEPT !.step = "allocate", !.todo = Lines, !.fresh = TRUE])
    PROVE  /\ req'[w].step = "allocate" /\ req'[w].todo = Lines /\ Same(w)
           /\ \A v \in Workers \ {w} : req'[v] = req[v]
<1>1. req'[w] = [req[w] EXCEPT !.step = "allocate", !.todo = Lines, !.fresh = TRUE] /\ req[w] \in Request
  BY Here DEF TypeOK
<1> QED
  BY <1>1, Apart DEF Request, Same

(* A statement of the handler keeps what the request is about.              *)
LEMMA HandlerMoves ==
    ASSUME TypeOK, NEW w \in Workers, Known(w), HandleOrderPaid(w)
    PROVE  Known(w)' /\ \A v \in Workers \ {w} : req'[v] = req[v]
<1> USE DEF Known, At, Handling, Same
<1>1. CASE LookUpOrder(w)
  BY <1>1, GotoIs, LoopIs, ReturnIs DEF LookUpOrder
<1>2. CASE CreateOrder(w)
  BY <1>2, CreateIs, ReturnIs DEF CreateOrder
<1>3. CASE Allocate(w)
  BY <1>3, VisitedIs, ReturnIs DEF Allocate
<1>4. CASE UpdateHoldUntilBatch(w)
  BY <1>4, LoopIs, ReturnIs DEF UpdateHoldUntilBatch
<1>5. CASE LookUpSettlement(w)
  <2>1. CASE Fails(w)
    BY <1>5, <2>1, ReturnIs DEF LookUpSettlement
  <2>2. ASSUME NEW l \in req[w].todo, Visited(w, l, "settlements", "shipment")
        PROVE  Known(w)' /\ \A v \in Workers \ {w} : req'[v] = req[v]
    <3>1. req'[w].step \in {"settlements", "shipment"} /\ req'[w].event = req[w].event
      BY <2>2, VisitedIs
    <3>2. \A v \in Workers \ {w} : req'[v] = req[v]
      BY <2>2, VisitedIs
    <3> QED
      BY <1>5, <3>1, <3>2 DEF LookUpSettlement
  <2>3. ASSUME NEW l \in req[w].todo, Become(w, [req[w] EXCEPT !.step = "settle", !.line = l])
        PROVE  Known(w)' /\ \A v \in Workers \ {w} : req'[v] = req[v]
    BY <1>5, <2>3, SettleIs DEF LookUpSettlement
  <2> QED
    BY <1>5, <2>1, <2>2, <2>3 DEF LookUpSettlement
<1>6. CASE CreateSettlement(w)
  BY <1>6, VisitedIs, ReturnIs DEF CreateSettlement
<1>7. CASE LookUpShipment(w)
  BY <1>7, GotoIs, ReturnIs DEF LookUpShipment
<1>8. CASE UpsertShipment(w)
  BY <1>8, GotoIs, ReturnIs DEF UpsertShipment
<1>9. CASE SaveWebhookEvent(w)
  BY <1>9, GotoIs DEF SaveWebhookEvent
<1>10. CASE Reply(w)
  BY <1>10, FinishIs DEF Reply
<1> QED
  BY <1>1, <1>2, <1>3, <1>4, <1>5, <1>6, <1>7, <1>8, <1>9, <1>10 DEF HandleOrderPaid, Finalize

LEMMA CancelMoves ==
    ASSUME TypeOK, NEW w \in Workers, CancelOrder(w) \/ Cancel(w)
    PROVE  Known(w)' /\ \A v \in Workers \ {w} : req'[v] = req[v]
<1> USE DEF Known, At, Handling
<1>1. CASE CancelOrder(w)
  BY <1>1, Here, Apart DEF CancelOrder, Idle
<1>2. CASE ReleaseAllocations(w)
  <2>1. CASE Finish(w)
    BY <2>1, FinishIs
  <2>2. ASSUME NEW l \in req[w].todo, Visited(w, l, "release", "release")
        PROVE  Known(w)' /\ \A v \in Workers \ {w} : req'[v] = req[v]
    BY <2>2, VisitedIs
  <2> QED
    BY <1>2, <2>1, <2>2 DEF ReleaseAllocations
<1>3. CASE UpdateOrderStatus(w)
  BY <1>3, FinishIs DEF UpdateOrderStatus
<1> QED
  BY <1>1, <1>2, <1>3 DEF Cancel

LEMMA DeliveryMoves ==
    ASSUME TypeOK, NEW w \in Workers, NEW e \in Events, Known(w), Skip(w, e) \/ Handle(w, e)
    PROVE  Known(w)' /\ \A v \in Workers \ {w} : req'[v] = req[v]
<1>1. CASE Skip(w, e)
  BY <1>1 DEF Skip, Known, At
<1>2. CASE Handle(w, e)
  BY <1>2, Here, Apart DEF Handle, Idle, Known, At
<1> QED
  BY <1>1, <1>2

LEMMA TypedStep == Typed /\ [Next]_vars => Typed'
<1> SUFFICES ASSUME Typed, [Next]_vars
             PROVE  Typed'
  OBVIOUS
<1>0. TypeOK /\ \A w \in Workers : Known(w)
  BY DEF Typed
<1>1. ASSUME NEW w \in Workers, Known(w)', \A v \in Workers \ {w} : req'[v] = req[v]
      PROVE  \A v \in Workers : Known(v)'
  BY <1>0, <1>1 DEF Known, At
<1>2. ASSUME NEW e \in Events, Pay(e) PROVE Typed'
  BY <1>0, <1>2, DeliveryType DEF Typed, Pay, Known, At
<1>3. ASSUME NEW e \in Events, Deliver(e) PROVE Typed'
  BY <1>0, <1>1, <1>3, DeliveryType, DeliveryMoves DEF Typed, Deliver
<1>4. ASSUME NEW w \in Workers, HandleOrderPaid(w) PROVE Typed'
  BY <1>0, <1>1, <1>4, HandlerType, HandlerMoves DEF Typed
<1>5. ASSUME NEW w \in Workers, CancelOrder(w) \/ Cancel(w) PROVE Typed'
  BY <1>0, <1>1, <1>5, CancelType, CancelMoves DEF Typed
<1>6. CASE Restart
  <2>1. \A w \in Workers : Known(w)'
    BY <1>6 DEF Restart, Known, At, Idle, Handling
  <2> QED
    BY <1>0, <1>6, <2>1, RestartType DEF Typed
<1>7. CASE UNCHANGED vars
  BY <1>0, <1>7 DEF Typed, TypeOK, Known, At, vars, rows, shop, past
<1> QED
  BY <1>2, <1>3, <1>4, <1>5, <1>6, <1>7 DEF Next

LEMMA TypedInit == Init => Typed
  BY InitType DEF Init, Typed, Known, At, Idle, Handling

(* Every reachable state has the types of TypeOK.                           *)
THEOREM TypeCorrect == Spec => []TypeOK
<1>1. Typed => TypeOK
  BY DEF Typed
<1> QED
  BY TypedInit, TypedStep, <1>1, PTL DEF Spec
----------------------------------------------------------------------------
(* Effects are not undone, except by a cancellation.                        *)
Grows ==
    /\ dropped' \/ allocated \subseteq allocated'
    /\ dropped => dropped'
    /\ hold => hold'
    /\ \A l \in Lines : settlements[l] > 0 => settlements'[l] > 0
    /\ allocated' \subseteq Lines

LEMMA KeepsProgress ==
    ASSUME TypeOK, NEW v \in Workers, Progress(v), Grows, req'[v] = req[v]
    PROVE  Progress(v)'
<1>1. allocated \subseteq Lines
  BY DEF TypeOK
<1> QED
  BY <1>1 DEF Progress, Grows, At

(* A request that begins or ends knows nothing yet.                         *)
LEMMA NoProgress ==
    ASSUME NEW w \in Workers, req'[w].step \in {"idle", "lookup", "create", "save", "reply"}
    PROVE  Progress(w)'
  BY DEF Progress, At, Later, Settling, Shipping

(* Nothing but the request changes.                                         *)
LEMMA StillGrows == ASSUME TypeOK, UNCHANGED rows PROVE Grows
  BY DEF TypeOK, Grows, rows

LEMMA StillInOrder == ASSUME EffectsInOrder, UNCHANGED rows PROVE EffectsInOrder'
  BY DEF EffectsInOrder, rows

(* Every statement of the handler, for the request itself.                  *)
LEMMA HandlerProgress ==
    ASSUME TypeOK, NEW w \in Workers, Known(w), Progress(w), EffectsInOrder, HandleOrderPaid(w)
    PROVE  Grows /\ Progress(w)' /\ EffectsInOrder'
<1> USE DEF At
<1>0. allocated \subseteq Lines /\ settlements \in [Lines -> Nat] /\ req[w].todo \subseteq Lines
  BY DEF TypeOK, Request
<1>1. CASE LookUpOrder(w)
  <2>1. Progress(w)'
    <3>1. CASE Loop(w, "allocate")
      BY <3>1, LoopIs DEF Progress, Later, Settling, Shipping
    <3>2. CASE Goto(w, "create")
      BY <3>2, GotoIs, NoProgress
    <3>3. CASE Fails(w)
      BY <3>3, ReturnIs, NoProgress
    <3> QED
      BY <1>1, <3>1, <3>2, <3>3 DEF LookUpOrder
  <2> QED
    BY <1>1, <2>1, StillGrows, StillInOrder DEF LookUpOrder
<1>2. CASE CreateOrder(w)
  <2>1. Progress(w)'
    <3>1. CASE Become(w, [req[w] EXCEPT !.step = "allocate", !.todo = Lines, !.fresh = TRUE])
      BY <3>1, CreateIs DEF Progress, Later, Settling, Shipping
    <3>2. CASE Return(w) \/ Fails(w)
      BY <3>2, ReturnIs, NoProgress
    <3> QED
      BY <1>2, <3>1, <3>2 DEF CreateOrder
  <2>2. Grows /\ EffectsInOrder'
    BY <1>0, <1>2 DEF CreateOrder, Grows, EffectsInOrder
  <2> QED
    BY <2>1, <2>2
<1>3. CASE Allocate(w)
  <2>1. CASE Fails(w) /\ UNCHANGED allocated
    <3>1. UNCHANGED rows
      BY <1>3, <2>1 DEF Allocate, rows
    <3> QED
      BY <2>1, <3>1, ReturnIs, NoProgress, StillGrows, StillInOrder
  <2>2. ASSUME NEW l \in req[w].todo, allocated' = allocated \cup {l}, Visited(w, l, "allocate", "hold")
        PROVE  Grows /\ Progress(w)' /\ EffectsInOrder'
    <3>1. req'[w].step = (IF req[w].todo = {l} THEN "hold" ELSE "allocate") /\ req'[w].todo = req[w].todo \ {l}
      BY <2>2, VisitedIs
    <3>2. Grows /\ EffectsInOrder'
      BY <1>0, <1>3, <2>2 DEF Allocate, Grows, EffectsInOrder
    <3>3. UNCHANGED dropped /\ \A k \in Lines \ req[w].todo : k \in allocated \/ dropped
      BY <1>3 DEF Allocate, Progress
    <3>4. \A k \in Lines \ (req[w].todo \ {l}) : k \in allocated' \/ dropped'
      BY <2>2, <3>3
    <3>5. req[w].todo = {l} => allocated' = Lines \/ dropped'
      BY <1>0, <2>2, <3>4
    <3>6. Progress(w)'
      BY <3>1, <3>4, <3>5 DEF Progress, Later, Settling, Shipping
    <3> QED
      BY <3>2, <3>6
  <2> QED
    BY <1>3, <2>1, <2>2 DEF Allocate
<1>4. CASE UpdateHoldUntilBatch(w)
  <2>1. CASE Fails(w) /\ UNCHANGED hold
    <3>1. UNCHANGED rows
      BY <1>4, <2>1 DEF UpdateHoldUntilBatch, rows
    <3> QED
      BY <2>1, <3>1, ReturnIs, NoProgress, StillGrows, StillInOrder
  <2>2. CASE hold' = (hold \/ CollectOrderBatchNames) /\ Loop(w, "settlements")
    <3>0. hold \in BOOLEAN /\ dropped \in BOOLEAN /\ (hold => hold')
      BY <2>2 DEF TypeOK, CollectOrderBatchNames
    <3>1. Grows /\ EffectsInOrder'
      BY <1>0, <1>4, <3>0 DEF UpdateHoldUntilBatch, Grows, EffectsInOrder
    <3>2. req'[w].step = "settlements" /\ req'[w].todo = Lines
      BY <2>2, LoopIs
    <3>3. (allocated' = Lines /\ hold') \/ dropped'
      BY <1>4, <2>2, LinesAssumption DEF UpdateHoldUntilBatch, CollectOrderBatchNames, Progress, Later
    <3> QED
      BY <2>2, <3>1, <3>2, <3>3 DEF Progress, Later, Settling, Shipping
  <2> QED
    BY <1>4, <2>1, <2>2 DEF UpdateHoldUntilBatch
<1>5. CASE LookUpSettlement(w)
  <2>0. UNCHANGED rows
    BY <1>5 DEF LookUpSettlement
  <2>1. /\ UNCHANGED <<allocated, dropped, hold, settlements>>
        /\ allocated = Lines \/ dropped
        /\ (hold \/ dropped) /\ \A k \in Lines \ req[w].todo : settlements[k] > 0
    BY <1>5, <2>0 DEF LookUpSettlement, Progress, Later, Settling, rows
  <2>2. Progress(w)'
    <3>1. CASE Fails(w)
      BY <3>1, ReturnIs, NoProgress
    <3>2. ASSUME NEW l \in req[w].todo, settlements[l] > 0, Visited(w, l, "settlements", "shipment")
          PROVE  Progress(w)'
      <4>1. req'[w].step = (IF req[w].todo = {l} THEN "shipment" ELSE "settlements") /\ req'[w].todo = req[w].todo \ {l}
        BY <3>2, VisitedIs
      <4>2. \A k \in Lines \ (req[w].todo \ {l}) : settlements'[k] > 0
        BY <2>1, <3>2
      <4>3. req[w].todo = {l} => \A k \in Lines : settlements'[k] > 0
        BY <4>2
      <4> QED
        BY <2>1, <4>1, <4>2, <4>3 DEF Progress, Later, Settling, Shipping
    <3>3. ASSUME NEW l \in req[w].todo, Become(w, [req[w] EXCEPT !.step = "settle", !.line = l])
          PROVE  Progress(w)'
      <4>1. req'[w].step = "settle" /\ req'[w].todo = req[w].todo
        BY <3>3, SettleIs
      <4> QED
        BY <2>1, <4>1 DEF Progress, Later, Settling, Shipping
    <3> QED
      BY <1>5, <3>1, <3>2, <3>3 DEF LookUpSettlement
  <2> QED
    BY <2>0, <2>2, StillGrows, StillInOrder
<1>6. CASE CreateSettlement(w)
  <2>1. CASE Fails(w) /\ UNCHANGED settlements
    <3>1. UNCHANGED rows
      BY <1>6, <2>1 DEF CreateSettlement, rows
    <3> QED
      BY <2>1, <3>1, ReturnIs, NoProgress, StillGrows, StillInOrder
  <2>2. CASE /\ settlements' = [settlements EXCEPT ![req[w].line] = @ + 1]
             /\ Visited(w, req[w].line, "settlements", "shipment")
    <3> DEFINE l == req[w].line
    <3>0. l \in req[w].todo /\ l \in Lines
      BY <1>0, <1>6 DEF CreateSettlement, Known
    <3>1. req'[w].step = (IF req[w].todo = {l} THEN "shipment" ELSE "settlements") /\ req'[w].todo = req[w].todo \ {l}
      BY <2>2, VisitedIs
    <3>2. /\ UNCHANGED <<allocated, dropped, hold, shipment>>
          /\ allocated = Lines \/ dropped
          /\ (hold \/ dropped) /\ \A k \in Lines \ req[w].todo : settlements[k] > 0
      BY <1>6 DEF CreateSettlement, Progress, Later, Settling
    <3>3. \A k \in Lines : settlements[k] \in Nat /\ settlements'[k] = IF k = l THEN settlements[k] + 1 ELSE settlements[k]
      BY <1>0, <2>2
    <3>4. \A k \in Lines : settlements[k] > 0 => settlements'[k] > 0
      BY <3>3
    <3>5. \A k \in Lines \ (req[w].todo \ {l}) : settlements'[k] > 0
      BY <3>2, <3>3, <3>4
    <3>6. req[w].todo = {l} => \A k \in Lines : settlements'[k] > 0
      BY <3>5
    <3>7. Grows /\ EffectsInOrder'
      BY <1>0, <3>2, <3>4 DEF Grows, EffectsInOrder
    <3>8. Progress(w)'
      BY <3>1, <3>2, <3>5, <3>6 DEF Progress, Later, Settling, Shipping
    <3> QED
      BY <3>7, <3>8
  <2> QED
    BY <1>6, <2>1, <2>2 DEF CreateSettlement
<1>7. CASE LookUpShipment(w)
  <2>0. UNCHANGED rows
    BY <1>7 DEF LookUpShipment
  <2>1. /\ UNCHANGED <<allocated, dropped, hold, settlements>>
        /\ allocated = Lines \/ dropped
        /\ (hold \/ dropped) /\ \A k \in Lines : settlements[k] > 0
    BY <1>7, <2>0 DEF LookUpShipment, Progress, Later, Shipping, rows
  <2>2. req'[w].step \in {"upsert", "save"}
    BY <1>7, GotoIs, ReturnIs DEF LookUpShipment
  <2>3. Progress(w)'
    BY <2>1, <2>2 DEF Progress, Later, Settling, Shipping
  <2> QED
    BY <2>0, <2>3, StillGrows, StillInOrder
<1>8. CASE UpsertShipment(w)
  <2>1. req'[w].step = "save"
    BY <1>8, GotoIs, ReturnIs DEF UpsertShipment
  <2>2. /\ UNCHANGED <<allocated, dropped, hold, settlements>>
        /\ \A k \in Lines : settlements[k] > 0
    BY <1>8 DEF UpsertShipment, Progress, Shipping
  <2> QED
    BY <1>0, <2>1, <2>2, NoProgress DEF Grows, EffectsInOrder
<1>9. CASE SaveWebhookEvent(w)
  <2>1. UNCHANGED rows /\ req'[w].step = "reply"
    BY <1>9, GotoIs DEF SaveWebhookEvent
  <2> QED
    BY <2>1, NoProgress, StillGrows, StillInOrder
<1>10. CASE Reply(w)
  <2>1. UNCHANGED rows /\ req'[w].step = "idle"
    BY <1>10, FinishIs DEF Reply
  <2> QED
    BY <2>1, NoProgress, StillGrows, StillInOrder
<1> QED
  BY <1>1, <1>2, <1>3, <1>4, <1>5, <1>6, <1>7, <1>8, <1>9, <1>10 DEF HandleOrderPaid, Finalize

(* Cancelling.                                                              *)
LEMMA CancelProgress ==
    ASSUME TypeOK, NEW w \in Workers, Progress(w), EffectsInOrder, CancelOrder(w) \/ Cancel(w)
    PROVE  Grows /\ Progress(w)' /\ EffectsInOrder'
<1> USE DEF At
<1>0. allocated \subseteq Lines /\ settlements \in [Lines -> Nat]
  BY DEF TypeOK
<1>1. CASE CancelOrder(w)
  <2>1. req'[w].step = "release"
    BY <1>1, Here DEF CancelOrder, Idle
  <2> QED
    BY <1>0, <1>1, <2>1 DEF CancelOrder, Grows, EffectsInOrder, Progress, Later, Settling, Shipping
<1>2. CASE ReleaseAllocations(w)
  <2>1. dropped /\ UNCHANGED <<dropped, hold, settlements, shipment>>
    BY <1>2 DEF ReleaseAllocations, Progress
  <2>2. req'[w].step \in {"idle", "release"}
    BY <1>2, VisitedIs, FinishIs DEF ReleaseAllocations
  <2>3. allocated' \subseteq Lines
    BY <1>0, <1>2 DEF ReleaseAllocations
  <2> QED
    BY <1>0, <2>1, <2>2, <2>3 DEF Grows, EffectsInOrder, Progress, Later, Settling, Shipping
<1>3. CASE UpdateOrderStatus(w)
  <2>1. req'[w].step = "idle"
    BY <1>3, FinishIs DEF UpdateOrderStatus
  <2> QED
    BY <1>0, <1>3, <2>1, NoProgress DEF UpdateOrderStatus, Grows, EffectsInOrder
<1> QED
  BY <1>1, <1>2, <1>3 DEF Cancel

LEMMA OrderStep == Typed /\ Order /\ [Next]_vars => Order'
<1> SUFFICES ASSUME Typed, Order, [Next]_vars
             PROVE  Order'
  OBVIOUS
<1>0. TypeOK /\ EffectsInOrder /\ \A w \in Workers : Known(w) /\ Progress(w)
  BY DEF Typed, Order
<1>1. ASSUME NEW w \in Workers, Grows, Progress(w)', EffectsInOrder',
             \A v \in Workers \ {w} : req'[v] = req[v]
      PROVE  Order'
  <2>1. ASSUME NEW v \in Workers \ {w} PROVE Progress(v)'
    BY <1>0, <1>1, <2>1, KeepsProgress
  <2> QED
    BY <1>1, <2>1 DEF Order
<1>2. ASSUME UNCHANGED <<rows, req>> PROVE Order'
  BY <1>0, <1>2, StillInOrder DEF Order, Progress, At, rows
<1>3. ASSUME NEW e \in Events, Pay(e) PROVE Order'
  BY <1>2, <1>3 DEF Pay
<1>4. ASSUME NEW e \in Events, NEW w \in Workers, Skip(w, e) PROVE Order'
  BY <1>2, <1>4 DEF Skip
<1>5. ASSUME NEW e \in Events, NEW w \in Workers, Handle(w, e) PROVE Order'
  <2>1. UNCHANGED rows /\ req'[w].step = "lookup"
    BY <1>0, <1>5, Here DEF Handle, Idle
  <2>2. \A v \in Workers \ {w} : req'[v] = req[v]
    BY <1>0, <1>5, DeliveryMoves
  <2> QED
    BY <1>0, <1>1, <2>1, <2>2, NoProgress, StillGrows, StillInOrder
<1>6. ASSUME NEW w \in Workers, HandleOrderPaid(w) PROVE Order'
  BY <1>0, <1>1, <1>6, HandlerMoves, HandlerProgress
<1>7. ASSUME NEW w \in Workers, CancelOrder(w) \/ Cancel(w) PROVE Order'
  BY <1>0, <1>1, <1>7, CancelMoves, CancelProgress
<1>8. CASE Restart
  <2>1. UNCHANGED rows /\ \A w \in Workers : req'[w].step = "idle"
    BY <1>8 DEF Restart, Idle
  <2> QED
    BY <1>0, <2>1, NoProgress, StillInOrder DEF Order
<1>9. CASE UNCHANGED vars
  BY <1>2, <1>9 DEF vars
<1> QED
  BY <1>3, <1>4, <1>5, <1>6, <1>7, <1>8, <1>9 DEF Next, Deliver

LEMMA OrderInit == Init => Order
  BY DEF Init, Order, EffectsInOrder, Progress, At, Idle, Later, Settling, Shipping

(* No line is settled before all have their units and the order knows what  *)
(* it waits for, and no shipment row comes before the settlements.          *)
THEOREM EffectsCorrect == Spec => []EffectsInOrder
<1>1. Order => EffectsInOrder
  BY DEF Order
<1> QED
  BY TypedInit, TypedStep, OrderInit, OrderStep, <1>1, PTL DEF Spec
----------------------------------------------------------------------------
(* As long as no requests overlap.                                          *)
Outcome == RecordedIsDone /\ OneSettlement /\ AckedIsDone /\ CancelledGivesBack

LEMMA IdleIsTimely ==
    ASSUME NEW v \in Workers, At(v, "idle")
    PROVE  Timely(v)
  BY DEF Timely, At, Answering

LEMMA FailureCounts ==
    ASSUME TypeOK, Failure
    PROVE  failures' # 0
  BY DEF TypeOK, Failure

(* What one request brings about for the order, ...                         *)
LEMMA StillTrue ==
    ASSUME Outcome, Done => Done', dropped => dropped', failures' = 0 => failures = 0,
           UNCHANGED <<sent, processed, untimely, settlements>>,
           status' = "cancelled" => allocated' = {}
    PROVE  Outcome'
  BY DEF Outcome, RecordedIsDone, OneSettlement, AckedIsDone, CancelledGivesBack

(* ... statement by statement: for the handler,                             *)
LEMMA HandlerTimely ==
    ASSUME TypeOK, NEW w \in Workers, Known(w), Progress(w), Timely(w), Outcome,
           CancelledIsDropped, ~ untimely, HandleOrderPaid(w)
    PROVE  Timely(w)' /\ Outcome'
<1> USE DEF At
<1>0. ~ At(w, "idle") /\ ~ At(w, "release")
  BY DEF HandleOrderPaid, Finalize, LookUpOrder, CreateOrder, Allocate, UpdateHoldUntilBatch,
         LookUpSettlement, CreateSettlement, LookUpShipment, UpsertShipment, SaveWebhookEvent, Reply
<1>1. ~ dropped /\ status # "cancelled"
  BY <1>0 DEF Timely, CancelledIsDropped
<1>2. allocated \subseteq Lines /\ settlements \in [Lines -> Nat] /\ req[w].todo \subseteq Lines
  BY DEF TypeOK, Request
<1>3. CASE LookUpOrder(w)
  <2>1. UNCHANGED <<rows, sent, processed, untimely>> /\ (failures' = 0 => failures = 0)
    BY <1>3, FailureCounts DEF LookUpOrder, Fails, past, shop
  <2>2. Outcome'
    BY <1>1, <2>1, StillTrue DEF rows, Done
  <2>3. \/ req'[w].step = "allocate"
        \/ status = "none" /\ req'[w].step = "create"
        \/ failures' # 0 /\ req'[w].step = "save"
    BY <1>3, GotoIs, LoopIs, ReturnIs, FailureCounts DEF LookUpOrder, Fails
  <2> QED
    BY <1>1, <2>1, <2>2, <2>3 DEF Timely, Answering, rows
<1>4. CASE CreateOrder(w)
  <2>1. UNCHANGED <<dropped, allocated, hold, settlements, shipment, sent, processed, untimely>>
        /\ (failures' = 0 => failures = 0) /\ status' # "cancelled"
    BY <1>1, <1>4, FailureCounts DEF CreateOrder, Fails, past, shop
  <2>2. Outcome'
    BY <2>1, StillTrue DEF Done
  <2>3. status = "none"
    BY <1>4 DEF CreateOrder, Timely
  <2>4. req'[w].step = "allocate" \/ (failures' # 0 /\ req'[w].step = "save")
    BY <1>4, <2>3, CreateIs, ReturnIs, FailureCounts DEF CreateOrder, Fails
  <2> QED
    BY <1>1, <2>1, <2>2, <2>4 DEF Timely, Answering
<1>5. CASE Allocate(w)
  <2>1. UNCHANGED <<status, dropped, hold, settlements, shipment, sent, processed, untimely>>
        /\ (failures' = 0 => failures = 0) /\ allocated \subseteq allocated' /\ allocated' \subseteq Lines
    BY <1>2, <1>5, FailureCounts DEF Allocate, Fails, past, shop
  <2>2. Outcome'
    BY <1>1, <2>1, StillTrue DEF Done
  <2>3. req'[w].step \in {"allocate", "hold"} \/ (failures' # 0 /\ req'[w].step = "save")
    BY <1>5, VisitedIs, ReturnIs, FailureCounts DEF Allocate, Fails
  <2> QED
    BY <1>1, <2>1, <2>2, <2>3 DEF Timely, Answering
<1>6. CASE UpdateHoldUntilBatch(w)
  <2>1. UNCHANGED <<status, dropped, allocated, settlements, shipment, sent, processed, untimely>>
        /\ (failures' = 0 => failures = 0) /\ (hold => hold')
    BY <1>1, <1>6, FailureCounts DEF UpdateHoldUntilBatch, CollectOrderBatchNames, Fails, past, shop, TypeOK
  <2>2. Outcome'
    BY <1>1, <2>1, StillTrue DEF Done
  <2>3. req'[w].step = "settlements" \/ (failures' # 0 /\ req'[w].step = "save")
    BY <1>6, LoopIs, ReturnIs, FailureCounts DEF UpdateHoldUntilBatch, Fails
  <2> QED
    BY <1>1, <2>1, <2>2, <2>3 DEF Timely, Answering
<1>7. CASE LookUpSettlement(w)
  <2>1. UNCHANGED <<rows, sent, processed, untimely>> /\ (failures' = 0 => failures = 0)
    BY <1>7, FailureCounts DEF LookUpSettlement, Fails, past, shop
  <2>2. Outcome'
    BY <1>1, <2>1, StillTrue DEF rows, Done
  <2>3. \/ req'[w].step \in {"settlements", "shipment"}
        \/ req'[w].step = "settle" /\ settlements[req'[w].line] = 0
        \/ failures' # 0 /\ req'[w].step = "save"
    <3>1. CASE Fails(w)
      BY <3>1, ReturnIs, FailureCounts DEF Fails
    <3>2. ASSUME NEW l \in req[w].todo, Visited(w, l, "settlements", "shipment")
          PROVE  req'[w].step \in {"settlements", "shipment"}
      BY <3>2, VisitedIs
    <3>3. ASSUME NEW l \in req[w].todo, ~ (settlements[l] > 0),
                 Become(w, [req[w] EXCEPT !.step = "settle", !.line = l])
          PROVE  req'[w].step = "settle" /\ settlements[req'[w].line] = 0
      <4>1. settlements[l] = 0
        BY <1>2, <3>3
      <4> QED
        BY <3>3, <4>1, SettleIs
    <3> QED
      BY <1>7, <3>1, <3>2, <3>3 DEF LookUpSettlement
  <2> QED
    BY <1>1, <2>1, <2>2, <2>3 DEF Timely, Answering, rows
<1>8. CASE CreateSettlement(w)
  <2>1. CASE Fails(w) /\ UNCHANGED settlements
    <3>1. UNCHANGED <<rows, sent, processed, untimely>> /\ failures' # 0 /\ req'[w].step = "save"
      BY <1>8, <2>1, FailureCounts, ReturnIs DEF CreateSettlement, Fails, shop, rows
    <3>2. Outcome'
      BY <1>1, <3>1, StillTrue DEF rows, Done
    <3> QED
      BY <1>1, <3>1, <3>2 DEF Timely, Answering, rows
  <2>2. CASE /\ settlements' = [settlements EXCEPT ![req[w].line] = @ + 1]
             /\ Visited(w, req[w].line, "settlements", "shipment")
             /\ UNCHANGED past
    <3>1. /\ UNCHANGED <<status, dropped, allocated, hold, shipment, sent, processed, untimely, failures>>
          /\ req'[w].step \in {"settlements", "shipment"}
      BY <1>8, <2>2, VisitedIs DEF CreateSettlement, shop, past
    <3>2. req[w].line \in Lines /\ settlements[req[w].line] = 0
      BY <1>2, <1>8 DEF CreateSettlement, Known, Timely
    <3>3. \A k \in Lines : settlements'[k] = IF k = req[w].line THEN 1 ELSE settlements[k]
      BY <1>2, <2>2, <3>2
    <3>4. OneSettlement'
      BY <3>1, <3>3 DEF Outcome, OneSettlement
    <3>5. Done => Done'
      BY <3>1, <3>3 DEF Done
    <3>6. RecordedIsDone' /\ AckedIsDone' /\ CancelledGivesBack'
      BY <1>1, <3>1, <3>5 DEF Outcome, RecordedIsDone, AckedIsDone, CancelledGivesBack
    <3> QED
      BY <1>1, <3>1, <3>4, <3>6 DEF Timely, Answering, Outcome
  <2> QED
    BY <1>8, <2>1, <2>2 DEF CreateSettlement
<1>9. CASE LookUpShipment(w)
  <2>1. UNCHANGED <<rows, sent, processed, untimely>> /\ (failures' = 0 => failures = 0)
    BY <1>9, FailureCounts DEF LookUpShipment, Fails, past, shop
  <2>2. Outcome'
    BY <1>1, <2>1, StillTrue DEF rows, Done
  <2>3. \/ req'[w].step = "upsert"
        \/ shipment # "none" /\ req'[w].step = "save"
        \/ failures' # 0 /\ req'[w].step = "save"
    BY <1>9, GotoIs, ReturnIs, FailureCounts DEF LookUpShipment, Fails
  <2>4. shipment # "none" => Done
    BY <1>1, <1>9 DEF LookUpShipment, Progress, Later, Shipping, Done
  <2> QED
    BY <1>1, <2>1, <2>2, <2>3, <2>4 DEF Timely, Answering, rows, Done
<1>10. CASE UpsertShipment(w)
  <2>1. UNCHANGED <<status, dropped, allocated, hold, settlements, sent, processed, untimely>>
        /\ (failures' = 0 => failures = 0) /\ (shipment' # "none" \/ UNCHANGED shipment)
    BY <1>10, FailureCounts DEF UpsertShipment, Fails, past, shop, Prepaid
  <2>2. Outcome'
    BY <1>1, <2>1, StillTrue DEF Done
  <2>3. req'[w].step = "save" /\ (failures' # 0 \/ shipment' # "none")
    BY <1>10, GotoIs, ReturnIs, FailureCounts DEF UpsertShipment, Fails, Prepaid
  <2>4. shipment' # "none" => Done'
    BY <1>1, <1>10, <2>1 DEF UpsertShipment, Progress, Later, Shipping, Done
  <2> QED
    BY <1>1, <2>1, <2>2, <2>3, <2>4 DEF Timely, Answering
<1>11. CASE SaveWebhookEvent(w)
  <2>1. UNCHANGED <<rows, sent, untimely>> /\ req'[w].step = "reply"
        /\ (failures' = 0 => UNCHANGED failures)
    BY <1>11, GotoIs, FailureCounts DEF SaveWebhookEvent, past, shop
  <2>2. failures = 0 => Done
    BY <1>1, <1>11 DEF SaveWebhookEvent, Timely, Answering
  <2>3. Done => Done'
    BY <2>1 DEF Done, rows
  <2>4. Outcome'
    BY <2>1, <2>2, <2>3 DEF Outcome, RecordedIsDone, OneSettlement, AckedIsDone, CancelledGivesBack, rows
  <2> QED
    BY <1>1, <2>1, <2>2, <2>3, <2>4 DEF Timely, Answering, rows
<1>12. CASE Reply(w)
  <2>1. UNCHANGED <<rows, processed, untimely, failures>> /\ req'[w].step = "idle"
    BY <1>12, FinishIs DEF Reply, past
  <2>2. failures = 0 => Done
    BY <1>1, <1>12 DEF Reply, Timely, Answering
  <2>3. Done => Done'
    BY <2>1 DEF Done, rows
  <2>4. Outcome'
    BY <2>1, <2>2, <2>3 DEF Outcome, RecordedIsDone, OneSettlement, AckedIsDone, CancelledGivesBack, rows
  <2> QED
    BY <2>1, <2>4 DEF Timely, Answering
<1> QED
  BY <1>3, <1>4, <1>5, <1>6, <1>7, <1>8, <1>9, <1>10, <1>11, <1>12 DEF HandleOrderPaid, Finalize

(* ... for a cancellation,                                                  *)
LEMMA CancelTimely ==
    ASSUME TypeOK, NEW w \in Workers, Progress(w), Timely(w), Outcome,
           ~ untimely, CancelOrder(w) \/ Cancel(w)
    PROVE  Timely(w)' /\ (untimely' \/ Outcome')
<1> USE DEF At
<1>0. allocated \subseteq Lines /\ req[w] \in Request
  BY DEF TypeOK
<1>1. CASE CancelOrder(w)
  <2>1. req'[w].step = "release" /\ req'[w].todo = Lines
    BY <1>1, Here DEF CancelOrder, Idle
  <2>2. dropped' /\ UNCHANGED <<status, allocated, settlements, sent, processed, failures>>
    BY <1>1 DEF CancelOrder, shop
  <2>3. untimely' \/ Outcome'
    BY <2>2 DEF Outcome, RecordedIsDone, OneSettlement, AckedIsDone, CancelledGivesBack
  <2> QED
    BY <1>0, <2>1, <2>2, <2>3 DEF Timely, Answering
<1>2. CASE ReleaseAllocations(w)
  <2>1. dropped /\ UNCHANGED <<status, dropped, settlements, sent, processed, untimely>>
    BY <1>2 DEF ReleaseAllocations, Progress, past, shop
  <2>2. allocated' \subseteq allocated /\ (failures' = 0 => failures = 0)
    BY <1>2, FailureCounts DEF ReleaseAllocations, past
  <2>3. Outcome'
    BY <2>1, <2>2 DEF Outcome, RecordedIsDone, OneSettlement, AckedIsDone, CancelledGivesBack
  <2>4. Timely(w)'
    <3>1. CASE Finish(w)
      BY <2>1, <3>1, FinishIs DEF Timely, Answering
    <3>2. ASSUME NEW l \in req[w].todo, allocated' = allocated \ {l}, Visited(w, l, "release", "release")
          PROVE  Timely(w)'
      <4>1. req'[w].step = "release" /\ req'[w].todo = req[w].todo \ {l}
        BY <3>2, VisitedIs
      <4>2. allocated \subseteq req[w].todo
        BY <1>2 DEF ReleaseAllocations, Timely
      <4> QED
        BY <2>1, <3>2, <4>1, <4>2 DEF Timely, Answering
    <3> QED
      BY <1>2, <3>1, <3>2 DEF ReleaseAllocations
  <2> QED
    BY <2>3, <2>4
<1>3. CASE UpdateOrderStatus(w)
  <2>1. dropped /\ allocated = {} /\ req'[w].step = "idle"
    BY <1>3, FinishIs DEF UpdateOrderStatus, Progress, Timely
  <2>2. UNCHANGED <<dropped, allocated, settlements, sent, processed, untimely>>
    BY <1>3 DEF UpdateOrderStatus, past, shop
  <2>3. Outcome'
    BY <2>1, <2>2 DEF Outcome, RecordedIsDone, OneSettlement, AckedIsDone, CancelledGivesBack
  <2> QED
    BY <2>1, <2>2, <2>3 DEF Timely, Answering
<1> QED
  BY <1>1, <1>2, <1>3 DEF Cancel

(* ... and for a delivery.                                                  *)
LEMMA DeliveryTimely ==
    ASSUME TypeOK, NEW w \in Workers, NEW e \in Events, Timely(w), Outcome,
           ~ untimely', Skip(w, e) \/ Handle(w, e)
    PROVE  Timely(w)' /\ Outcome'
<1> USE DEF At
<1>1. CASE Skip(w, e)
  <2>1. UNCHANGED <<rows, processed, req, past>> /\ processed # {}
    BY <1>1 DEF Skip
  <2>2. Timely(w)' /\ (Done => Done')
    BY <2>1 DEF Timely, Answering, Done, rows, past
  <2> QED
    BY <2>1, <2>2 DEF Outcome, RecordedIsDone, OneSettlement, AckedIsDone, CancelledGivesBack, rows, past
<1>2. CASE Handle(w, e)
  <2>1. ~ untimely /\ ~ dropped /\ UNCHANGED <<rows, processed, sent>>
    BY <1>2 DEF Handle
  <2>2. failures' = 0 => failures = 0
    BY <1>2, FailureCounts DEF Handle
  <2>3. req'[w].step = "lookup"
    BY <1>2, Here DEF Handle, Idle
  <2>4. Done => Done'
    BY <2>1 DEF Done, rows
  <2>5. Outcome'
    BY <2>1, <2>2, <2>4 DEF Outcome, RecordedIsDone, OneSettlement, AckedIsDone, CancelledGivesBack, rows
  <2> QED
    BY <2>1, <2>3, <2>5 DEF Timely, Answering, rows
<1> QED
  BY <1>1, <1>2

(* A request in progress is the only one.                                   *)
AllTimely == Alone /\ Solo /\ Outcome /\ CancelledIsDropped

LEMMA TimelyStep == Typed /\ Order /\ AllTimely /\ [Next]_vars => AllTimely'
<1> SUFFICES ASSUME Typed, Order, AllTimely, [Next]_vars
             PROVE  AllTimely'
  OBVIOUS
<1>0. /\ TypeOK /\ \A w \in Workers : Known(w) /\ Progress(w)
      /\ Alone /\ Solo /\ Outcome /\ CancelledIsDropped
  BY DEF Typed, Order, AllTimely
<1>1. ASSUME NEW w \in Workers, ~ untimely', ~ untimely,
             \A v \in Workers \ {w} : At(v, "idle") /\ req'[v] = req[v],
             Timely(w)', Outcome'
      PROVE  Alone' /\ Solo' /\ Outcome'
  <2>1. \A v \in Workers \ {w} : At(v, "idle")'
    BY <1>1 DEF At
  <2>2. ASSUME NEW v \in Workers PROVE Timely(v)'
    BY <1>1, <2>1 DEF Timely, At, Answering
  <2> QED
    BY <1>1, <2>1, <2>2 DEF Alone, Solo
<1>2. ASSUME untimely' PROVE Alone' /\ Solo' /\ Outcome'
  BY <1>2 DEF Alone, Solo, Outcome, RecordedIsDone, OneSettlement, AckedIsDone, CancelledGivesBack
<1>3. ASSUME NEW e \in Events, Pay(e) PROVE AllTimely'
  <2>1. UNCHANGED <<rows, processed, req, past>> /\ \A f \in Events : sent'[f] = "acked" => sent[f] = "acked"
    BY <1>0, <1>3 DEF Pay, TypeOK
  <2>2. (Done => Done') /\ CancelledIsDropped'
    BY <1>0, <2>1 DEF Done, rows, CancelledIsDropped
  <2>3. Outcome'
    BY <1>0, <2>1, <2>2 DEF Outcome, RecordedIsDone, OneSettlement, AckedIsDone, CancelledGivesBack, rows, past
  <2>4. Alone' /\ Solo'
    BY <1>0, <2>1 DEF Alone, Solo, At, Timely, Answering, Done, rows, past
  <2> QED
    BY <2>2, <2>3, <2>4 DEF AllTimely
<1>4. ASSUME NEW e \in Events, NEW w \in Workers, Skip(w, e) PROVE AllTimely'
  <2>1. UNCHANGED <<rows, processed, req, past>>
    BY <1>4 DEF Skip
  <2>2. Outcome'
    <3>1. CASE untimely
      BY <1>2, <2>1, <3>1 DEF past
    <3>2. CASE ~ untimely
      BY <1>0, <1>4, <2>1, <3>2, DeliveryTimely DEF Solo, past
    <3> QED
      BY <3>1, <3>2
  <2>3. Alone' /\ Solo' /\ CancelledIsDropped'
    BY <1>0, <2>1 DEF Alone, Solo, At, Timely, Answering, Done, CancelledIsDropped, rows, past
  <2> QED
    BY <2>2, <2>3 DEF AllTimely
<1>5. ASSUME NEW e \in Events, NEW w \in Workers, Handle(w, e) PROVE AllTimely'
  <2>1. CancelledIsDropped'
    BY <1>0, <1>5 DEF Handle, CancelledIsDropped, rows
  <2>2. ASSUME ~ untimely' PROVE Alone' /\ Solo' /\ Outcome'
    <3>1. ~ untimely /\ \A v \in Workers \ {w} : At(v, "idle")
      BY <1>5, <2>2 DEF Handle, Others
    <3>2. \A v \in Workers \ {w} : req'[v] = req[v]
      BY <1>0, <1>5, DeliveryMoves
    <3>3. Timely(w)' /\ Outcome'
      BY <1>0, <1>5, <2>2, <3>1, DeliveryTimely DEF Solo
    <3> QED
      BY <1>1, <2>2, <3>1, <3>2, <3>3
  <2> QED
    BY <1>2, <2>1, <2>2 DEF AllTimely
<1>6. ASSUME NEW w \in Workers, HandleOrderPaid(w) PROVE AllTimely'
  <2>0. ~ At(w, "idle") /\ UNCHANGED untimely
    BY <1>6 DEF HandleOrderPaid, Finalize, LookUpOrder, CreateOrder, Allocate, UpdateHoldUntilBatch,
         LookUpSettlement, CreateSettlement, LookUpShipment, UpsertShipment, SaveWebhookEvent, Reply,
         Fails, At, past
  <2>1. CancelledIsDropped'
    BY <1>0, <1>6 DEF HandleOrderPaid, Finalize, LookUpOrder, CreateOrder, Allocate, UpdateHoldUntilBatch,
         LookUpSettlement, CreateSettlement, LookUpShipment, UpsertShipment, SaveWebhookEvent, Reply,
         CancelledIsDropped, rows
  <2>2. ASSUME ~ untimely' PROVE Alone' /\ Solo' /\ Outcome'
    <3>1. ~ untimely /\ \A v \in Workers \ {w} : At(v, "idle")
      BY <1>0, <2>0, <2>2 DEF Alone
    <3>2. \A v \in Workers \ {w} : req'[v] = req[v]
      BY <1>0, <1>6, HandlerMoves
    <3>3. Timely(w)' /\ Outcome'
      BY <1>0, <1>6, <3>1, HandlerTimely DEF Solo
    <3> QED
      BY <1>1, <2>2, <3>1, <3>2, <3>3
  <2> QED
    BY <1>2, <2>1, <2>2 DEF AllTimely
<1>7. ASSUME NEW w \in Workers, CancelOrder(w) \/ Cancel(w) PROVE AllTimely'
  <2>1. CancelledIsDropped'
    BY <1>0, <1>7 DEF CancelOrder, Cancel, ReleaseAllocations, UpdateOrderStatus, CancelledIsDropped,
         Progress, At
  <2>2. ASSUME ~ untimely' PROVE Alone' /\ Solo' /\ Outcome'
    <3>1. ~ untimely /\ \A v \in Workers \ {w} : At(v, "idle")
      <4>1. CASE CancelOrder(w)
        BY <2>2, <4>1 DEF CancelOrder, Others
      <4>2. CASE Cancel(w)
        <5>1. ~ untimely /\ ~ At(w, "idle")
          BY <2>2, <4>2 DEF Cancel, ReleaseAllocations, UpdateOrderStatus, At, past
        <5> QED
          BY <1>0, <5>1 DEF Alone
      <4> QED
        BY <1>7, <4>1, <4>2
    <3>2. \A v \in Workers \ {w} : req'[v] = req[v]
      BY <1>0, <1>7, CancelMoves
    <3>3. Timely(w)' /\ Outcome'
      BY <1>0, <1>7, <2>2, <3>1, CancelTimely DEF Solo
    <3> QED
      BY <1>1, <2>2, <3>1, <3>2, <3>3
  <2> QED
    BY <1>2, <2>1, <2>2 DEF AllTimely
<1>8. CASE Restart
  <2>1. UNCHANGED <<rows, processed, shop, untimely, failures>> /\ \A w \in Workers : req'[w].step = "idle"
    BY <1>8 DEF Restart, Idle
  <2>2. (Done => Done') /\ CancelledIsDropped'
    BY <1>0, <2>1 DEF Done, rows, CancelledIsDropped
  <2>3. Outcome'
    BY <1>0, <2>1, <2>2 DEF Outcome, RecordedIsDone, OneSettlement, AckedIsDone, CancelledGivesBack, rows, shop
  <2>4. Alone' /\ Solo'
    BY <2>1 DEF Alone, Solo, At, Timely, Answering
  <2> QED
    BY <2>2, <2>3, <2>4 DEF AllTimely
<1>9. CASE UNCHANGED vars
  BY <1>0, <1>9 DEF AllTimely, Alone, Solo, Outcome, RecordedIsDone, OneSettlement, AckedIsDone,
       CancelledGivesBack, CancelledIsDropped, At, Timely, Answering, Done, vars, rows, shop, past
<1> QED
  BY <1>3, <1>4, <1>5, <1>6, <1>7, <1>8, <1>9 DEF Next, Deliver

LEMMA TimelyInit == Init => AllTimely
  BY DEF Init, AllTimely, Alone, Solo, Outcome, RecordedIsDone, OneSettlement, AckedIsDone,
     CancelledGivesBack, CancelledIsDropped, At, Timely, Answering, Idle

LEMMA TimelyAlways == Spec => []Outcome
<1>1. AllTimely => Outcome
  BY DEF AllTimely
<1> QED
  BY TypedInit, TypedStep, OrderInit, OrderStep, TimelyInit, TimelyStep, <1>1, PTL DEF Spec

(* However often the event is redelivered, calls fail and the server        *)
(* restarts, a line has at most one settlement unless requests overlap.     *)
THEOREM SettledOnce == Spec => []OneSettlement
<1>1. Outcome => OneSettlement
  BY DEF Outcome
<1> QED
  BY TimelyAlways, <1>1, PTL

(* An answered payment has all its effects, unless requests overlap or a    *)
(* call fails.                                                              *)
THEOREM AnsweredIsDone == Spec => []AckedIsDone
<1>1. Outcome => AckedIsDone
  BY DEF Outcome
<1> QED
  BY TimelyAlways, <1>1, PTL

(* A cancelled order has no units left, unless requests overlap.            *)
THEOREM UnitsGivenBack == Spec => []CancelledGivesBack
<1>1. Outcome => CancelledGivesBack
  BY DEF Outcome
<1> QED
  BY TimelyAlways, <1>1, PTL
=============================================================================
