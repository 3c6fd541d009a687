---------------------- MODULE CheckoutAndPackingProofs ----------------------
(***************************************************************************)
(* Proofs about two unrelated components.  CheckoutLocks, for every number *)
(* of workers, checkouts, shoppers, units and faults: type correctness,    *)
(* that the units locked exceed the stock by no more than counts can miss, *)
(* and that no draft gets out of the clean-up job's reach.                 *)
(* FulfillmentGroups, for every order, allocation and plan: that a packed  *)
(* group is weighed whole and, when a fulfillment without a batch has only *)
(* lines of one group, that each group shows its own units.                *)
(***************************************************************************)
EXTENDS CheckoutLocks, FulfillmentGroups, TotalsProofs

(* Inequalities of integers: what was below s + m is below s + n, ...       *)
LEMMA Below == \A a, b, s, m, n \in Int : b <= a /\ a <= s + m /\ m <= n => b <= s + n
  OBVIOUS

(* ... what moves from p to m is in the sum as before, ...                  *)
LEMMA Even == \A a, s, p, m, q, n \in Int : a <= s + p + m /\ q + n = p + m => a <= s + q + n
  OBVIOUS

(* ... and what goes on both sides leaves the order.                        *)
LEMMA Beyond ==
    \A a, b, k, q, s, m, t, n \in Int :
       b = a - k /\ a + q <= s + m /\ t + n >= s + m - k => b + q <= t + n
  OBVIOUS

LEMMA NoLockType == NoLock \in Lock /\ NoDraft \in Draft /\ 0 \in Quantities
  BY CountsAssumption DEF NoLock, Lock, NoDraft, Draft, Quantities

LEMMA IdleType == Idle \in Request
  BY NoLockType DEF Idle, Request, Steps

LEMMA InitType == Init => TypeOK
<1> SUFFICES ASSUME Init
             PROVE  TypeOK
  OBVIOUS
<1>1. lock \in [Checkouts -> Lock] /\ draft \in [Checkouts -> Draft]
  BY NoLockType DEF Init
<1>2. req \in [Workers -> Request]
  BY IdleType DEF Init
<1>3. stock \in Int /\ faults \in 0 .. MaxFaults
  BY CountsAssumption DEF Init
<1>5. missed \in Nat
  BY DEF Init
<1>4. owner \in [Checkouts -> Shoppers \cup {Admin, None}] /\ session \in [Checkouts -> {"none", "live", "expired"}]
  BY DEF Init
<1> QED
  BY <1>1, <1>2, <1>3, <1>4, <1>5 DEF TypeOK

LEMMA BecomeType ==
    ASSUME TypeOK, NEW w \in Workers, NEW r \in Request, Become(w, r)
    PROVE  req' \in [Workers -> Request]
  BY DEF TypeOK, Become

LEMMA FinishType ==
    ASSUME TypeOK, NEW w \in Workers, Finish(w)
    PROVE  req' \in [Workers -> Request]
  BY IdleType, BecomeType DEF Finish

LEMMA GotoType ==
    ASSUME TypeOK, NEW w \in Workers, NEW s \in Steps, Goto(w, s)
    PROVE  req' \in [Workers -> Request]
<1>1. [req[w] EXCEPT !.step = s] \in Request
  BY DEF TypeOK, Request
<1> QED
  BY <1>1, BecomeType DEF Goto

LEMMA FiniteCheckouts == IsFiniteSet(Checkouts)
  BY FS_Interval, CountsAssumption DEF Checkouts

LEMMA LettingType ==
    ASSUME TypeOK, NEW rows \in [Checkouts -> Lock], Letting(rows)
    PROVE  lock' \in [Checkouts -> Lock] /\ missed' \in Nat
<1> DEFINE g == [c \in Checkouts |-> IF Paid(c) /\ rows[c] # lock[c] THEN LiveQty(c) ELSE 0]
<1>1. \A c \in Checkouts : g[c] \in Nat
  BY CountsAssumption DEF TypeOK, Lock, Quantities, LiveQty
<1> HIDE DEF g
<1>2. Total(g, Checkouts) \in Nat
  BY <1>1, FiniteCheckouts, TotalType
<1> QED
  BY <1>2 DEF g, Letting, TypeOK

LEMMA DroppedType == ASSUME TypeOK, NEW s PROVE Dropped(s) \in [Checkouts -> Lock]
  BY NoLockType DEF TypeOK, Dropped

LEMMA ReleaseType ==
    ASSUME TypeOK, NEW w \in Workers, ReleaseByReference(w)
    PROVE  lock' \in [Checkouts -> Lock] /\ missed' \in Nat
<1>1. [lock EXCEPT ![Its(w)] = NoLock] \in [Checkouts -> Lock]
  BY NoLockType DEF TypeOK
<1> QED
  BY <1>1, LettingType DEF ReleaseByReference

LEMMA DeleteDraftType ==
    ASSUME TypeOK, NEW c, DeleteDraftOrder(c)
    PROVE  draft' \in [Checkouts -> Draft] /\ faults' \in 0 .. MaxFaults
<1>1. Deleted(c) \in [Checkouts -> Draft]
  BY DEF TypeOK, Deleted, Draft
<1> QED
  BY <1>1, CountsAssumption DEF TypeOK, DeleteDraftOrder
----------------------------------------------------------------------------
(* Every step of a checkout request keeps the types.                        *)
LEMMA CheckoutType ==
    ASSUME TypeOK, NEW w \in Workers, Checkout(w)
    PROVE  TypeOK'
<1> USE NoLockType, CountsAssumption
<1> {"look", "count", "lock", "batch", "draft", "session", "undoDraft", "undo"} \subseteq Steps
  BY DEF Steps, Buying
<1>1. CASE GetVariantsInventory(w)
  <2>1. [req[w] EXCEPT !.step = "count", !.seen = stock] \in Request
    BY DEF TypeOK, Request
  <2> QED
    BY <1>1, <2>1, BecomeType DEF GetVariantsInventory, TypeOK
<1>2. CASE GetActiveLocksForVariant(w)
  BY <1>2, FinishType, GotoType DEF GetActiveLocksForVariant, TypeOK
<1>3. CASE CreateLocks(w)
  <2>1. [qty |-> req[w].qty, expired |-> FALSE] \in Lock
    BY DEF TypeOK, Request, Lock
  <2>2. lock' \in [Checkouts -> Lock]
    BY <1>3, <2>1 DEF CreateLocks, TypeOK
  <2>3. missed \in Nat /\ req[w].qty \in Nat
    BY DEF TypeOK, Request, Quantities
  <2>4. missed' \in Nat
    BY <1>3, <2>3 DEF CreateLocks
  <2> QED
    BY <1>3, <2>2, <2>4, GotoType DEF CreateLocks, TypeOK
<1>4. CASE AcquireBatchLocks(w)
  BY <1>4, FinishType, GotoType, ReleaseType DEF AcquireBatchLocks, TypeOK
<1>5. CASE CreateDraftOrder(w)
  <2>1. Made(req[w].qty) \in Draft
    BY DEF Made, TypeOK, Request, Draft
  <2>2. draft' \in [Checkouts -> Draft] /\ faults' \in 0 .. MaxFaults
    BY <1>5, <2>1 DEF CreateDraftOrder, TypeOK
  <2>3. req' \in [Workers -> Request]
    BY <1>5, GotoType DEF CreateDraftOrder
  <2> QED
    BY <1>5, <2>2, <2>3 DEF CreateDraftOrder, TypeOK
<1>6. CASE UpsertCheckoutSession(w)
  <2>1. req' \in [Workers -> Request]
    BY <1>6, FinishType, GotoType DEF UpsertCheckoutSession
  <2> QED
    BY <1>6, <2>1 DEF UpsertCheckoutSession, TypeOK
<1>7. CASE UndoDraft(w)
  BY <1>7, GotoType, DeleteDraftType DEF UndoDraft, TypeOK
<1>8. CASE UndoLocks(w)
  BY <1>8, FinishType, ReleaseType DEF UndoLocks, TypeOK
<1> QED
  BY <1>1, <1>2, <1>3, <1>4, <1>5, <1>6, <1>7, <1>8 DEF Checkout

(* ... and every step of a release and of the clean-up job.                 *)
LEMMA ReleaseCleanType ==
    ASSUME TypeOK, NEW w \in Workers, Release(w) \/ CleanExpiredLocks(w)
    PROVE  TypeOK'
<1> USE NoLockType, CountsAssumption
<1> {"unlock", "forget", "clean"} \subseteq Steps
  BY DEF Steps
<1>1. CASE CancelCheckoutDraft(w)
  BY <1>1, GotoType, DeleteDraftType DEF CancelCheckoutDraft, TypeOK
<1>2. CASE DeleteLocksByReference(w)
  BY <1>2, GotoType, ReleaseType DEF DeleteLocksByReference, TypeOK
<1>3. CASE DeleteCheckoutSession(w)
  BY <1>3, FinishType DEF DeleteCheckoutSession, TypeOK
<1>4. CASE DeleteExpiredDraft(w)
  <2>1. PICK c \in req[w].todo : DeleteDraftOrder(c) /\ Become(w, [req[w] EXCEPT !.todo = @ \ {c}])
    BY <1>4 DEF DeleteExpiredDraft
  <2>2. [req[w] EXCEPT !.todo = @ \ {c}] \in Request
    BY DEF TypeOK, Request
  <2> QED
    BY <1>4, <2>1, <2>2, BecomeType, DeleteDraftType DEF DeleteExpiredDraft, TypeOK
<1>5. CASE DeleteExpiredCheckoutSessions(w)
  BY <1>5, GotoType DEF DeleteExpiredCheckoutSessions, TypeOK
<1>6. CASE DeleteExpiredLocks(w)
  BY <1>6, FinishType DEF DeleteExpiredLocks, TypeOK
<1> QED
  BY <1>1, <1>2, <1>3, <1>4, <1>5, <1>6 DEF Release, CleanExpiredLocks

(* ... and the first step of every request.                                 *)
LEMMA StartType ==
    ASSUME TypeOK, NEW w \in Workers, Start(w)
    PROVE  TypeOK'
<1> USE NoLockType, CountsAssumption
<1>1. ASSUME NEW s \in Shoppers, NEW q \in Quantities, InitiateCheckout(w, s, q)
      PROVE  TypeOK'
  <2>1. PICK c \in Checkouts :
          /\ owner' = [owner EXCEPT ![c] = s]
          /\ Become(w, [Idle EXCEPT !.step = IF q = 0 THEN "batch" ELSE "look", !.c = c, !.qty = q])
    BY <1>1 DEF InitiateCheckout
  <2>2. [Idle EXCEPT !.step = IF q = 0 THEN "batch" ELSE "look", !.c = c, !.qty = q] \in Request
    BY IdleType DEF Idle, Request, Steps, Buying
  <2>3. lock' \in [Checkouts -> Lock] /\ missed' \in Nat
    <3>1. lock \in [Checkouts -> Lock]
      BY DEF TypeOK
    <3> QED
      BY <1>1, <3>1, DroppedType, LettingType DEF InitiateCheckout
  <2> QED
    BY <1>1, <2>1, <2>2, <2>3, BecomeType DEF InitiateCheckout, TypeOK
<1>2. ASSUME NEW s \in Shoppers, ReleaseLocks(w, s)
      PROVE  TypeOK'
  BY <1>2, DroppedType, LettingType DEF ReleaseLocks, TypeOK
<1>3. ASSUME NEW c \in Checkouts, ReleaseCheckout(w, c)
      PROVE  TypeOK'
  <2>1. [Idle EXCEPT !.step = IF session[c] = "none" THEN "unlock" ELSE "cancel", !.c = c] \in Request
    BY IdleType DEF Idle, Request, Steps
  <2> QED
    BY <1>3, <2>1, BecomeType DEF ReleaseCheckout, TypeOK
<1>4. ASSUME NEW c \in Checkouts, HandleOrderPaid(w, c)
      PROVE  TypeOK'
  <2>1. [Idle EXCEPT !.step = "forget", !.c = c] \in Request
    BY IdleType DEF Idle, Request, Steps
  <2>2. req' \in [Workers -> Request]
    BY <1>4, <2>1, BecomeType DEF HandleOrderPaid
  <2>3. [lock EXCEPT ![c] = NoLock] \in [Checkouts -> Lock]
    BY DEF TypeOK
  <2>4. lock' \in [Checkouts -> Lock] /\ missed' \in Nat
    BY <1>4, <2>3, LettingType DEF HandleOrderPaid, TypeOK
  <2> QED
    BY <1>4, <2>2, <2>4 DEF HandleOrderPaid, TypeOK
<1>5. CASE ListExpiredCheckoutSessions(w)
  <2> DEFINE old == {c \in Checkouts : session[c] = "expired"}
  <2>1. [Idle EXCEPT !.step = "purge", !.listed = old, !.todo = old] \in Request
    BY IdleType DEF Idle, Request, Steps
  <2> QED
    BY <1>5, <2>1, BecomeType DEF ListExpiredCheckoutSessions, TypeOK
<1> QED
  BY <1>1, <1>2, <1>3, <1>4, <1>5 DEF Start

(* ... and what admins, customers and time do.                              *)
LEMMA OutsideType ==
    ASSUME TypeOK, Manual \/ \E c \in Checkouts : Pay(c) \/ Expire(c)
    PROVE  TypeOK'
<1>1. ASSUME NEW q \in Quantities, CreateManualOrder(q)
      PROVE  TypeOK'
  BY <1>1 DEF CreateManualOrder, Made, TypeOK, Draft
<1>2. ASSUME NEW c \in Checkouts, NEW q \in Quantities, UpdateDraftOrderItems(c, q)
      PROVE  TypeOK'
  BY <1>2 DEF UpdateDraftOrderItems, Changed, TypeOK, Draft
<1>3. ASSUME NEW c \in Checkouts, Pay(c)
      PROVE  TypeOK'
  <2>1. draft[c].qty \in Nat /\ LiveQty(c) \in Nat
    BY CountsAssumption DEF TypeOK, Draft, Lock, LiveQty, Quantities
  <2>2. draft' \in [Checkouts -> Draft]
    BY <1>3 DEF Pay, TypeOK, Draft
  <2>3. stock' \in Int
    BY <1>3, <2>1 DEF Pay, TypeOK
  <2>4. missed' \in Nat
    BY <1>3, <2>1 DEF Pay, TypeOK
  <2> QED
    BY <1>3, <2>2, <2>3, <2>4 DEF Pay, TypeOK
<1>4. ASSUME NEW c \in Checkouts, Expire(c)
      PROVE  TypeOK'
  <2>1. [lock[c] EXCEPT !.expired = TRUE] \in Lock
    BY DEF TypeOK, Lock
  <2>2. [lock EXCEPT ![c].expired = TRUE] \in [Checkouts -> Lock]
    BY <2>1 DEF TypeOK
  <2>3. lock' \in [Checkouts -> Lock] /\ missed' \in Nat
    <3>1. lock \in [Checkouts -> Lock]
      BY DEF TypeOK
    <3> QED
      BY <1>4, <2>2, <3>1, LettingType DEF Expire
  <2> QED
    BY <1>4, <2>3 DEF Expire, TypeOK
<1> QED
  BY <1>1, <1>2, <1>3, <1>4 DEF Manual

LEMMA TypeStep == TypeOK /\ [Next]_vars => TypeOK'
<1> SUFFICES ASSUME TypeOK, [Next]_vars
             PROVE  TypeOK'
  OBVIOUS
<1>1. ASSUME NEW w \in Workers, Abandon(w)
      PROVE  TypeOK'
  BY <1>1, FinishType, CountsAssumption DEF Abandon, TypeOK
<1>2. CASE UNCHANGED vars
  BY <1>2 DEF vars, TypeOK
<1>3. CASE Serve
  BY <1>1, <1>3, CheckoutType, ReleaseCleanType, StartType DEF Serve, Work
<1> QED
  BY <1>2, <1>3, OutsideType DEF Next

(* The variables keep their types, whatever runs at once and fails.         *)
THEOREM TypeCorrect == Spec => []TypeOK
<1>1. Init => TypeOK
  BY InitType
<1>2. TypeOK /\ [Next]_vars => TypeOK'
  BY TypeStep
<1> QED
  BY <1>1, <1>2, PTL DEF Spec
----------------------------------------------------------------------------
(* What a worker keeps while it looks at the stock, counts the locks and    *)
(* takes its own, whatever the others do.  A checkout that was never made   *)
(* has neither lock nor draft; ...                                          *)
Unused == \A c \in Checkouts : ~ Started(c) => lock[c] = NoLock /\ draft[c] = NoDraft

(* ... two workers make different checkouts; ...                            *)
Taking == {"look", "count", "lock"}
Making == Taking \cup {"batch", "draft"}

Apart ==
    \A v, w \in Workers : req[v].step \in Making /\ req[w].step \in Making /\ Its(v) = Its(w) => v = w

(* ... the checkout in the making has no draft yet, and no lock before      *)
(* CreateLocks; when the locks are counted, the stock that was read is on   *)
(* hand, or paid and still locked, or missed; and there is room for the     *)
(* lock about to be inserted.                                               *)
PaidLocked == Total([c \in Checkouts |-> IF Paid(c) THEN LiveQty(c) ELSE 0], Checkouts)

Careful(w) ==
    /\ req[w].step \in Making => /\ Its(w) \in Checkouts /\ Started(Its(w)) /\ draft[Its(w)] = NoDraft
                                 /\ req[w].step \in Taking => lock[Its(w)] = NoLock
    /\ At(w, "count") => req[w].seen <= stock + PaidLocked + missed
    /\ At(w, "lock") => Promised + req[w].qty <= stock + missed

IInv == TypeOK /\ Unused /\ Apart /\ ReservedWithinStock /\ \A w \in Workers : Careful(w)

(* The sums are naturals, and what is locked is promised or paid.           *)
LEMMA PromisedType ==
    ASSUME TypeOK
    PROVE  /\ Promised \in Nat /\ Locked \in Nat /\ PaidLocked \in Nat
           /\ Locked = Promised + PaidLocked
           /\ \A c \in Checkouts : Reserved(c) \in Nat /\ LiveQty(c) \in Nat
<1> DEFINE f == [c \in Checkouts |-> Reserved(c)]
           g == [c \in Checkouts |-> IF Paid(c) THEN LiveQty(c) ELSE 0]
           h == [c \in Checkouts |-> LiveQty(c)]
<1>1. \A c \in Checkouts : Reserved(c) \in Nat /\ LiveQty(c) \in Nat
  BY CountsAssumption DEF TypeOK, Lock, Quantities, Reserved, LiveQty
<1>2. \A c \in Checkouts : f[c] \in Nat /\ g[c] \in Nat /\ h[c] \in Nat /\ h[c] = f[c] + g[c]
  BY <1>1 DEF Reserved
<1> HIDE DEF f, g, h
<1>3. /\ Total(f, Checkouts) \in Nat /\ Total(g, Checkouts) \in Nat /\ Total(h, Checkouts) \in Nat
      /\ Total(h, Checkouts) = Total(f, Checkouts) + Total(g, Checkouts)
  BY <1>2, FiniteCheckouts, TotalType, TotalPlus
<1> QED
  BY <1>1, <1>3 DEF f, g, h, Promised, PaidLocked, Locked

(* The sums depend on the locks and on which drafts are paid.               *)
LEMMA SumsStay ==
    ASSUME \A c \in Checkouts : LiveQty(c)' = LiveQty(c) /\ (Paid(c)' <=> Paid(c))
    PROVE  Promised' = Promised /\ PaidLocked' = PaidLocked
<1>1. [c \in Checkouts |-> Reserved(c)'] = [c \in Checkouts |-> Reserved(c)]
  BY DEF Reserved
<1>2. [c \in Checkouts |-> IF Paid(c)' THEN LiveQty(c)' ELSE 0] = [c \in Checkouts |-> IF Paid(c) THEN LiveQty(c) ELSE 0]
  OBVIOUS
<1> QED
  BY <1>1, <1>2 DEF Promised, PaidLocked

LEMMA PaidLockedNext ==
    ASSUME TypeOK'
    PROVE  PaidLocked' \in Nat
<1> DEFINE g == [c \in Checkouts |-> IF Paid(c)' THEN LiveQty(c)' ELSE 0]
<1>1. \A c \in Checkouts : g[c] \in Nat
  BY CountsAssumption DEF TypeOK, Lock, Quantities, LiveQty
<1>2. PaidLocked' = Total(g, Checkouts)
  BY DEF PaidLocked
<1> HIDE DEF g
<1> QED
  BY <1>1, <1>2, FiniteCheckouts, TotalType

(* If no checkout reserves more than before, no more is promised.           *)
LEMMA PromisedFalls ==
    ASSUME TypeOK, TypeOK', \A c \in Checkouts : Reserved(c)' <= Reserved(c)
    PROVE  Promised' <= Promised /\ Promised' \in Nat /\ Promised \in Nat
<1> DEFINE f == [c \in Checkouts |-> Reserved(c)']
           g == [c \in Checkouts |-> Reserved(c)]
<1>1. \A c \in Checkouts : Reserved(c)' \in Nat /\ Reserved(c) \in Nat
  BY CountsAssumption DEF TypeOK, Lock, Quantities, Reserved, LiveQty
<1>2. \A c \in Checkouts : f[c] \in Nat /\ g[c] \in Nat /\ f[c] <= g[c]
  BY <1>1
<1>3. Promised' = Total(f, Checkouts) /\ Promised = Total(g, Checkouts)
  BY DEF Promised
<1> HIDE DEF f, g
<1> QED
  BY <1>2, <1>3, FiniteCheckouts, TotalMonotone

(* If one checkout reserves another number and the others what they did,    *)
(* the difference is that checkout's.                                       *)
LEMMA PromisedChanges ==
    ASSUME TypeOK, TypeOK', NEW c \in Checkouts,
           \A b \in Checkouts \ {c} : Reserved(b)' = Reserved(b)
    PROVE  Promised' = Promised - Reserved(c) + Reserved(c)' /\ Promised >= Reserved(c)
<1> DEFINE f == [b \in Checkouts |-> Reserved(b)]
           g == [b \in Checkouts |-> Reserved(b)']
<1>1. \A b \in Checkouts : Reserved(b)' \in Nat /\ Reserved(b) \in Nat
  BY CountsAssumption DEF TypeOK, Lock, Quantities, Reserved, LiveQty
<1>2. \A b \in Checkouts : f[b] \in Nat /\ g[b] \in Nat
  BY <1>1
<1>3. \A b \in Checkouts \ {c} : f[b] = g[b]
  OBVIOUS
<1>4. Promised' = Total(g, Checkouts) /\ Promised = Total(f, Checkouts)
  BY DEF Promised
<1>5. f[c] = Reserved(c) /\ g[c] = Reserved(c)'
  OBVIOUS
<1> HIDE DEF f, g
<1> QED
  BY <1>2, <1>3, <1>4, <1>5, FiniteCheckouts, TotalReplace

(* A turn is that of one worker.                                            *)
LEMMA TurnIs ==
    ASSUME TypeOK, NEW w \in Workers, NEW r, Become(w, r)
    PROVE  req'[w] = r /\ \A v \in Workers \ {w} : req'[v] = req[v]
  BY DEF TypeOK, Become

(* Locks go, drafts are deleted, checkouts are begun, and nothing else      *)
(* happens; what goes is accounted for.                                     *)
LocksFall ==
    \A c \in Checkouts :
        /\ lock'[c] \in {lock[c], NoLock, [lock[c] EXCEPT !.expired = TRUE]}
        /\ lock[c] = NoLock => lock'[c] = NoLock

DraftsFall ==
    \A c \in Checkouts :
        \/ draft'[c] = draft[c]
        \/ Open(c) /\ draft'[c] = [draft[c] EXCEPT !.state = "deleted"]

Gone == Total([c \in Checkouts |-> IF Paid(c) /\ lock'[c] # lock[c] THEN LiveQty(c) ELSE 0], Checkouts)

Accounted ==
    missed' = IF \E w \in Workers : At(w, "count") THEN missed + Gone ELSE missed

Receding ==
    /\ LocksFall /\ DraftsFall /\ Accounted /\ UNCHANGED stock
    /\ \A c \in Checkouts : owner[c] # None => owner'[c] # None

LEMMA RecedingFalls ==
    ASSUME IInv, TypeOK', Receding
    PROVE  /\ Unused' /\ ReservedWithinStock'
           /\ Promised' <= Promised /\ Promised' \in Nat /\ Promised \in Nat /\ missed' >= missed
           /\ (\E w \in Workers : At(w, "count")) => PaidLocked' + missed' = PaidLocked + missed
<1>0. ASSUME NEW c \in Checkouts
      PROVE  /\ LiveQty(c) \in Nat /\ LiveQty(c)' \in Nat /\ (Paid(c)' <=> Paid(c))
             /\ LiveQty(c)' = IF lock'[c] = lock[c] THEN LiveQty(c) ELSE 0
  <2>1. lock[c] \in Lock /\ draft[c] \in Draft
    BY DEF IInv, TypeOK
  <2>2. LiveQty(c) \in Nat
    BY <2>1, CountsAssumption DEF Lock, LiveQty, Quantities
  <2>3. LiveQty(c)' = IF lock'[c] = lock[c] THEN LiveQty(c) ELSE 0
    <3>1. CASE lock'[c] = lock[c]
      BY <3>1 DEF LiveQty
    <3>2. CASE lock'[c] = NoLock /\ lock'[c] # lock[c]
      BY <3>2 DEF NoLock, LiveQty
    <3>3. CASE lock'[c] = [lock[c] EXCEPT !.expired = TRUE] /\ lock'[c] # lock[c]
      BY <2>1, <3>3 DEF Lock, LiveQty
    <3> QED
      BY <3>1, <3>2, <3>3 DEF Receding, LocksFall
  <2>4. Paid(c)' <=> Paid(c)
    BY <2>1 DEF Receding, DraftsFall, Draft, Open, Paid
  <2> QED
    BY <2>2, <2>3, <2>4
<1>1. \A c \in Checkouts : Reserved(c)' <= Reserved(c)
  BY <1>0 DEF Reserved
<1>2. Promised' <= Promised /\ Promised' \in Nat /\ Promised \in Nat
  BY <1>1, PromisedFalls DEF IInv
<1>3. Gone \in Nat /\ PaidLocked = PaidLocked' + Gone /\ PaidLocked' \in Nat /\ PaidLocked \in Nat
  <2> DEFINE f == [c \in Checkouts |-> IF Paid(c)' THEN LiveQty(c)' ELSE 0]
             g == [c \in Checkouts |-> IF Paid(c) /\ lock'[c] # lock[c] THEN LiveQty(c) ELSE 0]
             h == [c \in Checkouts |-> IF Paid(c) THEN LiveQty(c) ELSE 0]
  <2>1. \A c \in Checkouts : f[c] \in Nat /\ g[c] \in Nat /\ h[c] \in Nat /\ h[c] = f[c] + g[c]
    BY <1>0
  <2>2. PaidLocked' = Total(f, Checkouts) /\ Gone = Total(g, Checkouts) /\ PaidLocked = Total(h, Checkouts)
    BY DEF PaidLocked, Gone
  <2> HIDE DEF f, g, h
  <2> QED
    BY <2>1, <2>2, FiniteCheckouts, TotalPlus, TotalType
<1>4. missed \in Nat /\ stock \in Int
  BY DEF IInv, TypeOK
<1>5. /\ missed' >= missed
      /\ (\E w \in Workers : At(w, "count")) => PaidLocked' + missed' = PaidLocked + missed
  BY <1>3, <1>4 DEF Receding, Accounted
<1>6. missed' \in Nat
  BY DEF TypeOK
<1>7. ReservedWithinStock'
  <2>1. Promised <= stock + missed /\ stock' = stock
    BY DEF IInv, ReservedWithinStock, Receding
  <2>2. Promised' <= stock + missed'
    <3>1. /\ Promised \in Int /\ Promised' \in Int /\ stock \in Int /\ missed \in Int /\ missed' \in Int
          /\ missed <= missed'
      BY <1>2, <1>4, <1>5, <1>6
    <3> QED
      BY <1>2, <2>1, <3>1, Below
  <2> QED
    BY <2>1, <2>2 DEF ReservedWithinStock
<1>8. Unused'
  <2> SUFFICES ASSUME NEW c \in Checkouts, ~ Started(c)'
               PROVE  lock'[c] = NoLock /\ draft'[c] = NoDraft
    BY DEF Unused
  <2>1. lock[c] = NoLock /\ draft[c] = NoDraft
    BY DEF IInv, Unused, Started, Receding
  <2>2. ~ Open(c)
    BY <2>1 DEF Open, NoDraft
  <2> QED
    BY <2>1, <2>2 DEF Receding, LocksFall, DraftsFall
<1> QED
  BY <1>2, <1>5, <1>7, <1>8

(* Who is not in turn stays careful, ...                                    *)
LEMMA RecedingOthers ==
    ASSUME IInv, TypeOK', Receding, NEW v \in Workers, req'[v] = req[v]
    PROVE  Careful(v)'
<1>1. Careful(v) /\ req[v] \in Request /\ missed \in Nat /\ missed' \in Nat /\ stock \in Int /\ stock' = stock
  BY DEF IInv, TypeOK, Receding
<1>2. ASSUME req[v].step \in Making
      PROVE  /\ Its(v) \in Checkouts /\ Started(Its(v))' /\ draft'[Its(v)] = NoDraft
             /\ req[v].step \in Taking => lock'[Its(v)] = NoLock
  <2>1. /\ Its(v) \in Checkouts /\ owner[Its(v)] # None /\ draft[Its(v)] = NoDraft
        /\ req[v].step \in Taking => lock[Its(v)] = NoLock
    BY <1>1, <1>2 DEF Careful, Started
  <2>2. ~ Open(Its(v))
    BY <2>1 DEF Open, NoDraft
  <2>3. Its(v)' = Its(v)
    BY DEF Its
  <2> QED
    BY <2>1, <2>2, <2>3 DEF Receding, LocksFall, DraftsFall, Started
<1>3. ASSUME At(v, "count")
      PROVE  req[v].seen <= stock + PaidLocked' + missed'
  <2>1. req[v].seen <= stock + PaidLocked + missed /\ req[v].seen \in Int
    BY <1>1, <1>3 DEF Careful, Request
  <2>2. PaidLocked' + missed' = PaidLocked + missed
    BY <1>3, RecedingFalls
  <2>3. PaidLocked \in Nat /\ PaidLocked' \in Nat
    BY PromisedType, PaidLockedNext DEF IInv
  <2>4. stock \in Int /\ missed \in Nat /\ missed' \in Nat
    BY DEF IInv, TypeOK
  <2>5. /\ PaidLocked \in Int /\ PaidLocked' \in Int /\ missed \in Int /\ missed' \in Int
    BY <2>3, <2>4
  <2> QED
    BY <2>1, <2>2, <2>4, <2>5, Even
<1>4. ASSUME At(v, "lock")
      PROVE  Promised' + req[v].qty <= stock + missed'
  <2>1. Promised + req[v].qty <= stock + missed /\ req[v].qty \in Nat
    BY <1>1, <1>4, CountsAssumption DEF Careful, Request, Quantities
  <2> QED
    BY <1>1, <2>1, RecedingFalls
<1> QED
  BY <1>1, <1>2, <1>3, <1>4 DEF Careful, Its, At, Started

(* ... and who is in turn leaves the making of its checkout, or goes on     *)
(* with it after its lock.                                                  *)
LEMMA RecedingTurn ==
    ASSUME IInv, TypeOK', Receding, NEW w \in Workers,
           \A v \in Workers \ {w} : req'[v] = req[v],
           \/ req'[w].step \notin Making
           \/ /\ req[w].step \in Making /\ req'[w].c = req[w].c
              /\ req'[w].step \in {"batch", "draft"}
    PROVE  IInv'
<1>1. Unused' /\ ReservedWithinStock'
  BY RecedingFalls
<1>2. \A v \in Workers \ {w} : Careful(v)'
  BY RecedingOthers
<1>3. Careful(w)'
  <2>1. CASE req'[w].step \notin Making
    BY <2>1 DEF Careful, At, Making, Taking
  <2>2. CASE req[w].step \in Making /\ req'[w].c = req[w].c /\ req'[w].step \in {"batch", "draft"}
    <3>1. Its(w) \in Checkouts /\ owner[Its(w)] # None /\ draft[Its(w)] = NoDraft
      BY <2>2 DEF IInv, Careful, Started
    <3>2. ~ Open(Its(w)) /\ Its(w)' = Its(w)
      BY <2>2, <3>1 DEF Open, NoDraft, Its
    <3> QED
      BY <2>2, <3>1, <3>2 DEF Careful, At, Taking, Receding, DraftsFall, Started
  <2> QED
    BY <2>1, <2>2
<1>4. Apart'
  <2>1. \A v \in Workers : req'[v].step \in Making => req[v].step \in Making /\ Its(v)' = Its(v)
    BY DEF Its
  <2> QED
    BY <2>1 DEF IInv, Apart
<1> QED
  BY <1>1, <1>2, <1>3, <1>4 DEF IInv
----------------------------------------------------------------------------
(* What gives up locks, and the account of it.                              *)
LEMMA Releases ==
    ASSUME TypeOK,
           \/ UNCHANGED <<lock, missed>>
           \/ \E w \in Workers : ReleaseByReference(w)
           \/ \E t : Letting(Dropped(t))
           \/ \E c \in Checkouts : Letting([lock EXCEPT ![c] = NoLock])
           \/ Letting(lock)
    PROVE  LocksFall /\ Accounted
<1>1. CASE UNCHANGED <<lock, missed>>
  <2>1. Gone = 0
    <3> DEFINE g == [c \in Checkouts |-> IF Paid(c) /\ lock'[c] # lock[c] THEN LiveQty(c) ELSE 0]
    <3>1. \A c \in Checkouts : g[c] = 0
      BY <1>1
    <3> HIDE DEF g
    <3>2. Total(g, Checkouts) = 0
      BY <3>1, TotalZero
    <3> QED
      BY <3>2 DEF g, Gone
  <2> QED
    BY <1>1, <2>1 DEF LocksFall, Accounted, TypeOK
<1>2. CASE \E w \in Workers : ReleaseByReference(w)
  BY <1>2 DEF LocksFall, Accounted, Gone, Letting, ReleaseByReference, TypeOK
<1>3. CASE \E t : Letting(Dropped(t))
  BY <1>3 DEF LocksFall, Accounted, Gone, Letting, Dropped, TypeOK
<1>4. CASE \E c \in Checkouts : Letting([lock EXCEPT ![c] = NoLock])
  BY <1>4 DEF LocksFall, Accounted, Gone, Letting, TypeOK
<1>5. CASE Letting(lock)
  BY <1>5 DEF LocksFall, Accounted, Gone, Letting
<1> QED
  BY <1>1, <1>2, <1>3, <1>4, <1>5

LEMMA Deletes ==
    ASSUME TypeOK, UNCHANGED draft \/ \E c : DeleteDraftOrder(c)
    PROVE  DraftsFall
<1>1. CASE UNCHANGED draft
  BY <1>1 DEF DraftsFall
<1>2. ASSUME NEW c, draft' = Deleted(c)
      PROVE  DraftsFall
  <2> SUFFICES ASSUME NEW b \in Checkouts
               PROVE  \/ draft'[b] = draft[b]
                      \/ Open(b) /\ draft'[b] = [draft[b] EXCEPT !.state = "deleted"]
    BY DEF DraftsFall
  <2>1. draft[b] \in Draft
    BY DEF TypeOK
  <2>2. CASE b = c /\ Open(b)
    BY <1>2, <2>1, <2>2 DEF Deleted, TypeOK, Open
  <2>3. CASE b # c \/ ~ Open(b)
    BY <1>2, <2>1, <2>3 DEF Deleted, TypeOK, Open, Draft
  <2> QED
    BY <2>2, <2>3
<1> QED
  BY <1>1, <1>2 DEF DeleteDraftOrder

(* Every step that gives up a lock or a draft.                              *)
LEMMA RecedingSteps ==
    ASSUME TypeOK, NEW w \in Workers,
           \/ AcquireBatchLocks(w) \/ UpsertCheckoutSession(w) \/ UndoDraft(w) \/ UndoLocks(w)
           \/ Release(w) \/ CleanExpiredLocks(w) \/ Abandon(w) \/ ListExpiredCheckoutSessions(w)
           \/ \E t \in Shoppers : ReleaseLocks(w, t)
           \/ \E c \in Checkouts : ReleaseCheckout(w, c) \/ HandleOrderPaid(w, c)
    PROVE  Receding
<1>1. CASE AcquireBatchLocks(w) \/ UndoLocks(w)
  BY <1>1, Releases, Deletes DEF AcquireBatchLocks, UndoLocks, Receding
<1>2. CASE UpsertCheckoutSession(w) \/ UndoDraft(w)
  BY <1>2, Releases, Deletes DEF UpsertCheckoutSession, UndoDraft, Receding
<1>3. CASE Release(w)
  BY <1>3, Releases, Deletes
     DEF Release, CancelCheckoutDraft, DeleteLocksByReference, DeleteCheckoutSession, Receding
<1>4. CASE DeleteExpiredDraft(w) \/ DeleteExpiredCheckoutSessions(w)
  BY <1>4, Releases, Deletes DEF DeleteExpiredDraft, DeleteExpiredCheckoutSessions, Receding
<1>5. CASE DeleteExpiredLocks(w)
  <2>1. LocksFall /\ missed' = missed
    BY <1>5 DEF DeleteExpiredLocks, LocksFall, TypeOK
  <2>2. Gone = 0
    <3> DEFINE g == [c \in Checkouts |-> IF Paid(c) /\ lock'[c] # lock[c] THEN LiveQty(c) ELSE 0]
    <3>1. \A c \in Checkouts : g[c] = 0
      BY <1>5 DEF DeleteExpiredLocks, LiveQty
    <3> HIDE DEF g
    <3>2. Total(g, Checkouts) = 0
      BY <3>1, TotalZero
    <3> QED
      BY <3>2 DEF g, Gone
  <2>3. Accounted
    BY <2>1, <2>2 DEF Accounted, TypeOK
  <2> QED
    BY <1>5, <2>1, <2>3, Deletes DEF DeleteExpiredLocks, Receding
<1>6. CASE Abandon(w) \/ ListExpiredCheckoutSessions(w)
  BY <1>6, Releases, Deletes DEF Abandon, ListExpiredCheckoutSessions, Receding
<1>7. CASE \E t \in Shoppers : ReleaseLocks(w, t)
  BY <1>7, Releases, Deletes DEF ReleaseLocks, Receding
<1>8. CASE \E c \in Checkouts : ReleaseCheckout(w, c) \/ HandleOrderPaid(w, c)
  BY <1>8, Releases, Deletes DEF ReleaseCheckout, HandleOrderPaid, Receding
<1> QED
  BY <1>1, <1>2, <1>3, <1>4, <1>5, <1>6, <1>7, <1>8 DEF CleanExpiredLocks

LEMMA ExpireRecedes ==
    ASSUME TypeOK, NEW c \in Checkouts, Expire(c)
    PROVE  Receding
<1>1. UNCHANGED <<owner, draft, stock>>
  BY DEF Expire
<1>2. CASE lock[c].qty > 0
  <2>1. Letting([lock EXCEPT ![c].expired = TRUE])
    BY <1>2 DEF Expire
  <2>2. /\ lock'[c] = [lock[c] EXCEPT !.expired = TRUE] /\ lock[c] # NoLock
        /\ \A b \in Checkouts \ {c} : lock'[b] = lock[b]
    BY <1>2, <2>1 DEF Letting, TypeOK, NoLock
  <2>3. LocksFall /\ Accounted
    BY <2>1, <2>2 DEF LocksFall, Accounted, Gone, Letting
  <2> QED
    BY <1>1, <2>3, Deletes DEF Receding
<1>3. CASE ~ (lock[c].qty > 0)
  <2>1. Letting(lock)
    BY <1>3 DEF Expire
  <2> QED
    BY <1>1, <2>1, Releases, Deletes DEF Receding
<1> QED
  BY <1>2, <1>3
----------------------------------------------------------------------------
(* Each step of a worker keeps the invariant.  First those that end outside *)
(* the making of a checkout, or go on with it once it has its lock.         *)
LEMMA OtherSteps ==
    ASSUME IInv, TypeOK', NEW w \in Workers,
           \/ AcquireBatchLocks(w) \/ UpsertCheckoutSession(w) \/ UndoDraft(w) \/ UndoLocks(w)
           \/ Release(w) \/ CleanExpiredLocks(w) \/ Abandon(w) \/ ListExpiredCheckoutSessions(w)
           \/ \E t \in Shoppers : ReleaseLocks(w, t)
           \/ \E c \in Checkouts : ReleaseCheckout(w, c) \/ HandleOrderPaid(w, c)
    PROVE  IInv'
<1> DEFINE Turn ==
             /\ \A v \in Workers \ {w} : req'[v] = req[v]
             /\ \/ req'[w].step \notin Making
                \/ /\ req[w].step \in Making /\ req'[w].c = req[w].c
                   /\ req'[w].step \in {"batch", "draft"}
<1> USE DEF Idle, Goto, Finish, Making, Taking
<1>1. Turn
  <2>1. TypeOK /\ req[w] \in Request
    BY DEF IInv, TypeOK
  <2> USE <2>1, TurnIs DEF Request
  <2>2. CASE UpsertCheckoutSession(w)
    BY <2>2 DEF UpsertCheckoutSession
  <2>3. CASE UndoDraft(w) \/ UndoLocks(w)
    BY <2>3 DEF UndoDraft, UndoLocks
  <2>4. CASE Release(w)
    BY <2>4 DEF Release, CancelCheckoutDraft, DeleteLocksByReference, DeleteCheckoutSession
  <2>5. CASE DeleteExpiredCheckoutSessions(w) \/ DeleteExpiredLocks(w)
    BY <2>5 DEF DeleteExpiredCheckoutSessions, DeleteExpiredLocks
  <2>6. CASE DeleteExpiredDraft(w)
    <3>1. PICK c : Become(w, [req[w] EXCEPT !.todo = @ \ {c}])
      BY <2>6 DEF DeleteExpiredDraft
    <3>2. [req[w] EXCEPT !.todo = @ \ {c}].step = "purge"
      BY <2>6 DEF DeleteExpiredDraft, At
    <3> QED
      BY <3>1, <3>2
  <2>7. CASE Abandon(w)
    BY <2>7 DEF Abandon
  <2>10. CASE ListExpiredCheckoutSessions(w)
    <3>1. PICK old : Become(w, [Idle EXCEPT !.step = "purge", !.listed = old, !.todo = old])
      BY <2>10 DEF ListExpiredCheckoutSessions
    <3> DEFINE r == [Idle EXCEPT !.step = "purge", !.listed = old, !.todo = old]
    <3>2. Become(w, r) /\ r.step = "purge"
      BY <3>1
    <3> HIDE DEF r
    <3> QED
      BY <3>2
  <2>8. CASE \E t \in Shoppers : ReleaseLocks(w, t)
    BY <2>8 DEF ReleaseLocks, At
  <2>9. ASSUME NEW c \in Checkouts, ReleaseCheckout(w, c)
        PROVE  Turn
    <3> DEFINE r == [Idle EXCEPT !.step = IF session[c] = "none" THEN "unlock" ELSE "cancel", !.c = c]
    <3>1. Become(w, r) /\ r.step \in {"unlock", "cancel"}
      BY <2>9 DEF ReleaseCheckout
    <3> HIDE DEF r
    <3> QED
      BY <3>1
  <2>11. ASSUME NEW c \in Checkouts, HandleOrderPaid(w, c)
         PROVE  Turn
    <3> DEFINE r == [Idle EXCEPT !.step = "forget", !.c = c]
    <3>1. Become(w, r) /\ r.step = "forget"
      BY <2>11 DEF HandleOrderPaid
    <3> HIDE DEF r
    <3> QED
      BY <3>1
  <2>12. CASE AcquireBatchLocks(w)
    <3>1. req[w].step = "batch"
      BY <2>12 DEF AcquireBatchLocks, At
    <3>2. CASE Finish(w)
      BY <3>2
    <3>3. CASE Goto(w, "draft")
      BY <3>1, <3>3
    <3> QED
      BY <2>12, <3>2, <3>3 DEF AcquireBatchLocks
  <2> QED
    BY <2>2, <2>3, <2>4, <2>5, <2>6, <2>7, <2>8, <2>9, <2>10, <2>11, <2>12 DEF CleanExpiredLocks
<1>2. Receding
  BY RecedingSteps DEF IInv
<1> QED
  BY <1>1, <1>2, RecedingTurn

(* Then the making of a checkout, from its request ...                      *)
LEMMA InitiateStep ==
    ASSUME IInv, TypeOK', NEW w \in Workers, NEW t \in Shoppers, NEW q \in Quantities,
           InitiateCheckout(w, t, q)
    PROVE  IInv'
<1>1. PICK c \in Checkouts :
        /\ Fresh(c)
        /\ owner' = [owner EXCEPT ![c] = t]
        /\ Become(w, [Idle EXCEPT !.step = IF q = 0 THEN "batch" ELSE "look", !.c = c, !.qty = q])
  BY DEF InitiateCheckout
<1>2. /\ req'[w] = [Idle EXCEPT !.step = IF q = 0 THEN "batch" ELSE "look", !.c = c, !.qty = q]
      /\ \A v \in Workers \ {w} : req'[v] = req[v]
  BY <1>1, TurnIs DEF IInv
<1>3. req'[w].c = c /\ req'[w].step \in {"batch", "look"}
  BY <1>2 DEF Idle
<1>4. lock[c] = NoLock /\ draft[c] = NoDraft /\ ~ Started(c)
  BY <1>1 DEF IInv, Unused, Fresh
<1>5. LocksFall /\ Accounted
  <2>1. Letting(lock) \/ Letting(Dropped(t))
    BY DEF InitiateCheckout
  <2> QED
    BY <2>1, Releases DEF IInv
<1>6. owner'[c] # None /\ \A b \in Checkouts : owner[b] # None => owner'[b] # None
  BY <1>1, NamesAssumption DEF IInv, TypeOK
<1>7. Receding
  BY <1>5, <1>6, Deletes DEF IInv, InitiateCheckout, Receding
<1>8. Careful(w)'
  BY <1>3, <1>4, <1>5, <1>6 DEF Careful, Started, Its, At, LocksFall, InitiateCheckout
<1>9. Apart'
  <2>1. \A v \in Workers \ {w} : Its(v)' = Its(v) /\ (req[v].step \in Making => Its(v) # c)
    BY <1>2, <1>4 DEF IInv, Careful, Its
  <2> QED
    BY <1>2, <1>3, <2>1 DEF IInv, Apart, Its
<1> QED
  BY <1>2, <1>7, <1>8, <1>9, RecedingFalls, RecedingOthers DEF IInv

(* Steps that leave the locks and which drafts are paid alone.              *)
LEMMA StillOthers ==
    ASSUME IInv, TypeOK', NEW v \in Workers, req'[v] = req[v],
           UNCHANGED <<lock, stock, missed>>,
           \A c \in Checkouts : Paid(c)' <=> Paid(c),
           req[v].step \in Making => owner'[Its(v)] # None /\ draft'[Its(v)] = NoDraft
    PROVE  Careful(v)'
<1>1. Promised' = Promised /\ PaidLocked' = PaidLocked
  BY SumsStay DEF LiveQty
<1> QED
  BY <1>1 DEF IInv, Careful, Its, At, Started

(* ... over what it reads ...                                               *)
LEMMA ReadingSteps ==
    ASSUME IInv, TypeOK', NEW w \in Workers,
           GetVariantsInventory(w) \/ GetActiveLocksForVariant(w)
    PROVE  IInv'
<1>1. /\ UNCHANGED <<owner, lock, draft, stock, missed>>
      /\ req[w].step \in Taking /\ req[w] \in Request
  BY DEF GetVariantsInventory, GetActiveLocksForVariant, At, Taking, IInv, TypeOK
<1>2. /\ Its(w) \in Checkouts /\ Started(Its(w)) /\ draft[Its(w)] = NoDraft
      /\ lock[Its(w)] = NoLock
  BY <1>1 DEF IInv, Careful, Making
<1>3. Promised' = Promised /\ PaidLocked' = PaidLocked
  BY <1>1, SumsStay DEF LiveQty, Paid
<1>4. Unused' /\ ReservedWithinStock'
  BY <1>1, <1>3 DEF IInv, Unused, ReservedWithinStock, Started
<1>5. /\ Promised \in Nat /\ PaidLocked \in Nat /\ Locked = Promised + PaidLocked
      /\ stock \in Int /\ missed \in Nat /\ req[w].qty \in Nat /\ req[w].seen \in Int
  BY <1>1, PromisedType, CountsAssumption DEF IInv, TypeOK, Request, Quantities
<1>6. ASSUME \A v \in Workers \ {w} : req'[v] = req[v],
             req'[w].step \notin Making \/ req'[w].c = req[w].c,
             Careful(w)'
      PROVE  IInv'
  <2>1. \A v \in Workers \ {w} : Careful(v)'
    BY <1>1, <1>6, StillOthers DEF IInv, Careful, Paid, Started
  <2>2. Apart'
    <3>1. \A v \in Workers : req'[v].step \in Making => req[v].step \in Making /\ Its(v)' = Its(v)
      BY <1>1, <1>6 DEF Its, Making
    <3> QED
      BY <3>1 DEF IInv, Apart
  <2> QED
    BY <1>4, <1>6, <2>1, <2>2 DEF IInv
<1>7. CASE GetVariantsInventory(w)
  <2>1. /\ req'[w] = [req[w] EXCEPT !.step = "count", !.seen = stock]
        /\ \A v \in Workers \ {w} : req'[v] = req[v]
    BY <1>7, TurnIs DEF IInv, GetVariantsInventory
  <2>2. req'[w].step = "count" /\ req'[w].c = req[w].c /\ req'[w].seen = stock
    BY <1>1, <2>1 DEF Request
  <2>3. stock <= stock + PaidLocked + missed
    BY <1>5
  <2>4. Careful(w)'
    BY <1>1, <1>2, <1>3, <2>2, <2>3 DEF Careful, Its, At, Started
  <2> QED
    BY <1>6, <2>1, <2>2, <2>4
<1>8. CASE GetActiveLocksForVariant(w) /\ req[w].seen - Locked < req[w].qty
  <2>1. req'[w] = Idle /\ \A v \in Workers \ {w} : req'[v] = req[v]
    BY <1>8, TurnIs DEF IInv, GetActiveLocksForVariant, Finish
  <2>2. req'[w].step \notin Making
    BY <2>1 DEF Idle, Making, Taking
  <2>3. Careful(w)'
    BY <2>2 DEF Careful, At, Making, Taking
  <2> QED
    BY <1>6, <2>1, <2>2, <2>3
<1>9. CASE GetActiveLocksForVariant(w) /\ ~ (req[w].seen - Locked < req[w].qty)
  <2>1. /\ req'[w] = [req[w] EXCEPT !.step = "lock"]
        /\ \A v \in Workers \ {w} : req'[v] = req[v]
    BY <1>9, TurnIs DEF IInv, GetActiveLocksForVariant, Goto
  <2>2. req'[w].step = "lock" /\ req'[w].c = req[w].c /\ req'[w].qty = req[w].qty
    BY <1>1, <2>1 DEF Request
  <2>3. Promised + req[w].qty <= stock + missed
    <3>1. req[w].seen <= stock + PaidLocked + missed
      BY <1>9 DEF IInv, Careful, GetActiveLocksForVariant
    <3> QED
      BY <1>5, <1>9, <3>1
  <2>4. Careful(w)'
    BY <1>1, <1>2, <1>3, <2>2, <2>3 DEF Careful, Its, At, Started
  <2> QED
    BY <1>6, <2>1, <2>2, <2>4
<1> QED
  BY <1>7, <1>8, <1>9

(* ... to its lock, which is where the room is used, and where the others   *)
(* that have counted miss it, ...                                           *)
LEMMA LockStep ==
    ASSUME IInv, TypeOK', NEW w \in Workers, CreateLocks(w)
    PROVE  IInv'
<1>0. PICK c : c = Its(w)
  OBVIOUS
<1>1. req[w].step = "lock" /\ req[w] \in Request /\ req[w].qty \in Nat
  BY CountsAssumption DEF CreateLocks, At, IInv, TypeOK, Request, Quantities
<1>2. c \in Checkouts /\ Started(c) /\ draft[c] = NoDraft /\ lock[c] = NoLock
  BY <1>0, <1>1 DEF IInv, Careful, Making, Taking
<1>3. req'[w] = [req[w] EXCEPT !.step = "batch"] /\ \A v \in Workers \ {w} : req'[v] = req[v]
  BY TurnIs DEF IInv, CreateLocks, Goto
<1>4. req'[w].step = "batch" /\ req'[w].c = c
  BY <1>0, <1>1, <1>3 DEF Request, Its
<1>5. /\ lock'[c].qty = req[w].qty /\ ~ lock'[c].expired
      /\ \A b \in Checkouts \ {c} : lock'[b] = lock[b]
      /\ UNCHANGED <<owner, draft, stock>>
  BY <1>0, <1>2 DEF CreateLocks, IInv, TypeOK
<1>6. Unused'
  BY <1>2, <1>5 DEF IInv, Unused, Started
<1>7. Promised' = Promised + req[w].qty /\ Promised \in Nat
  <2>1. Reserved(c) = 0 /\ Reserved(c)' = req[w].qty
    BY <1>1, <1>2, <1>5 DEF Reserved, LiveQty, Paid, NoLock, NoDraft
  <2>2. \A b \in Checkouts \ {c} : Reserved(b)' = Reserved(b)
    BY <1>5 DEF Reserved, LiveQty, Paid
  <2>3. Promised' = Promised - Reserved(c) + Reserved(c)' /\ Promised \in Nat
    BY <1>2, <2>2, PromisedChanges, PromisedType DEF IInv
  <2> QED
    BY <1>1, <2>1, <2>3
<1>8. PaidLocked' = PaidLocked /\ PaidLocked \in Nat
  <2>1. \A b \in Checkouts : (IF Paid(b)' THEN LiveQty(b)' ELSE 0) = IF Paid(b) THEN LiveQty(b) ELSE 0
    BY <1>2, <1>5 DEF Paid, NoDraft, LiveQty
  <2> QED
    BY <2>1, PromisedType DEF IInv, PaidLocked
<1>9. /\ stock \in Int /\ missed \in Nat /\ missed' \in Nat /\ missed' >= missed
      /\ \A v \in Workers \ {w} : At(v, "lock") => missed' = missed + req[w].qty
  BY <1>1 DEF IInv, TypeOK, CreateLocks
<1>10. ReservedWithinStock'
  <2>1. Promised + req[w].qty <= stock + missed
    BY <1>1 DEF IInv, Careful, At
  <2> QED
    BY <1>1, <1>5, <1>7, <1>9, <2>1 DEF ReservedWithinStock
<1>11. Careful(w)'
  BY <1>2, <1>4, <1>5 DEF Careful, Its, At, Started, Taking
<1>12. ASSUME NEW v \in Workers \ {w} PROVE Careful(v)'
  <2>1. Careful(v) /\ req'[v] = req[v] /\ req[v] \in Request
    BY <1>3 DEF IInv, TypeOK
  <2>2. req[v].step \in Making => Its(v) # c
    BY <1>0, <1>1 DEF IInv, Apart, Making, Taking
  <2>3. At(v, "count") => req[v].seen <= stock + PaidLocked' + missed'
    BY <1>8, <1>9, <2>1 DEF Careful, Request
  <2>4. At(v, "lock") => Promised' + req[v].qty <= stock + missed'
    <3>1. req[v].qty \in Nat
      BY <2>1, CountsAssumption DEF Request, Quantities
    <3> QED
      BY <1>1, <1>7, <1>9, <2>1, <3>1 DEF Careful
  <2> QED
    BY <1>5, <2>1, <2>2, <2>3, <2>4 DEF Careful, Its, At, Started
<1>13. Apart'
  <2>1. \A v \in Workers : req'[v].step \in Making => req[v].step \in Making /\ Its(v)' = Its(v)
    BY <1>0, <1>1, <1>3, <1>4 DEF Its, Making, Taking
  <2> QED
    BY <2>1 DEF IInv, Apart
<1> QED
  BY <1>6, <1>10, <1>11, <1>12, <1>13 DEF IInv

(* ... and its draft.                                                       *)
LEMMA DraftStep ==
    ASSUME IInv, TypeOK', NEW w \in Workers, CreateDraftOrder(w)
    PROVE  IInv'
<1>0. PICK c : c = Its(w)
  OBVIOUS
<1>1. req[w].step = "draft" /\ req[w] \in Request
  BY DEF CreateDraftOrder, At, IInv, TypeOK
<1>2. c \in Checkouts /\ Started(c) /\ draft[c] = NoDraft
  BY <1>0, <1>1 DEF IInv, Careful, Making
<1>3. PICK s \in {"session", "undo"} : Goto(w, s)
  BY DEF CreateDraftOrder
<1>4. req'[w] = [req[w] EXCEPT !.step = s] /\ \A v \in Workers \ {w} : req'[v] = req[v]
  BY <1>3, TurnIs DEF IInv, Goto
<1>5. req'[w].step \notin Making
  BY <1>1, <1>4 DEF Request, Making, Taking
<1>6. /\ UNCHANGED <<owner, lock, stock, missed>>
      /\ \A b \in Checkouts \ {c} : draft'[b] = draft[b]
      /\ draft'[c].state # "paid" /\ draft[c].state # "paid"
  BY <1>0, <1>2 DEF CreateDraftOrder, Made, IInv, TypeOK, NoDraft
<1>7. Unused'
  BY <1>2, <1>6 DEF IInv, Unused, Started
<1>8. \A b \in Checkouts : Paid(b)' <=> Paid(b)
  BY <1>6 DEF Paid
<1>9. ReservedWithinStock'
  BY <1>6, <1>8, SumsStay DEF IInv, ReservedWithinStock, LiveQty
<1>10. Careful(w)'
  BY <1>5 DEF Careful, At, Making, Taking
<1>11. ASSUME NEW v \in Workers \ {w} PROVE Careful(v)'
  <2>1. req[v].step \in Making => Its(v) # c /\ Its(v) \in Checkouts /\ owner[Its(v)] # None /\ draft[Its(v)] = NoDraft
    BY <1>0, <1>1 DEF IInv, Apart, Careful, Making, Started
  <2> QED
    BY <1>4, <1>6, <1>8, <2>1, StillOthers
<1>12. Apart'
  <2>1. \A v \in Workers : req'[v].step \in Making => req[v].step \in Making /\ Its(v)' = Its(v)
    BY <1>4, <1>5 DEF Its
  <2> QED
    BY <2>1 DEF IInv, Apart
<1> QED
  BY <1>7, <1>9, <1>10, <1>11, <1>12 DEF IInv
----------------------------------------------------------------------------
(* What others do while workers are anywhere in their requests.             *)
LEMMA ManualSteps ==
    ASSUME IInv, TypeOK', Manual
    PROVE  IInv'
<1>1. /\ UNCHANGED <<lock, stock, missed, req>>
      /\ \E c \in Checkouts :
           /\ \A b \in Checkouts \ {c} : owner'[b] = owner[b] /\ draft'[b] = draft[b]
           /\ owner'[c] # None /\ draft[c].state # "paid" /\ draft'[c].state # "paid"
           /\ owner[c] = None \/ Open(c)
  <2>1. ASSUME NEW q \in Quantities, CreateManualOrder(q)
        PROVE  <1>1!2
    <3>1. PICK c \in Checkouts :
            /\ Fresh(c)
            /\ owner' = [owner EXCEPT ![c] = Admin]
            /\ draft' = [draft EXCEPT ![c] = Made(q)]
      BY <2>1 DEF CreateManualOrder
    <3>2. lock[c] = NoLock /\ draft[c] = NoDraft /\ owner[c] = None
      BY <3>1 DEF IInv, Unused, Fresh, Started
    <3> QED
      BY <3>1, <3>2, NamesAssumption DEF Made, IInv, TypeOK, NoDraft
  <2>2. ASSUME NEW c \in Checkouts, NEW q \in Quantities, UpdateDraftOrderItems(c, q)
        PROVE  <1>1!2
    <3>1. draft[c] \in Draft /\ draft[c].state = "open" /\ owner[c] # None
      BY <2>2 DEF UpdateDraftOrderItems, Editable, GetDraftOrder, IInv, TypeOK, Unused, Started, NoDraft
    <3> QED
      BY <2>2, <3>1 DEF UpdateDraftOrderItems, Editable, GetDraftOrder, Changed, Open, IInv, TypeOK, Draft
  <2> QED
    BY <2>1, <2>2 DEF Manual, CreateManualOrder, UpdateDraftOrderItems
<1>2. PICK c \in Checkouts :
           /\ \A b \in Checkouts \ {c} : owner'[b] = owner[b] /\ draft'[b] = draft[b]
           /\ owner'[c] # None /\ draft[c].state # "paid" /\ draft'[c].state # "paid"
           /\ owner[c] = None \/ Open(c)
  BY <1>1
<1>3. Unused'
  BY <1>1, <1>2 DEF IInv, Unused, Started
<1>4. \A b \in Checkouts : Paid(b)' <=> Paid(b)
  BY <1>2 DEF Paid
<1>5. ASSUME NEW v \in Workers PROVE Careful(v)'
  <2>1. req[v].step \in Making => Its(v) \in Checkouts /\ owner[Its(v)] # None /\ draft[Its(v)] = NoDraft
    BY DEF IInv, Careful, Started
  <2>2. req[v].step \in Making => Its(v) # c
    BY <1>2, <2>1 DEF Open, NoDraft
  <2> QED
    BY <1>1, <1>2, <1>4, <2>1, <2>2, StillOthers
<1>6. ReservedWithinStock'
  BY <1>1, <1>4, SumsStay DEF IInv, ReservedWithinStock, LiveQty
<1> QED
  BY <1>1, <1>3, <1>5, <1>6 DEF IInv, Apart, Its

(* A payment takes the units of its lock off what is promised, and they     *)
(* count as locked until the lock goes; units without a lock are missed.    *)
LEMMA PayStep ==
    ASSUME IInv, TypeOK', NEW c \in Checkouts, Pay(c)
    PROVE  IInv'
<1> DEFINE n == LiveQty(c)
<1>1. /\ UNCHANGED <<owner, lock, req>>
      /\ draft[c].state = "open" /\ draft'[c].state = "paid"
      /\ \A b \in Checkouts \ {c} : draft'[b] = draft[b]
      /\ n \in Nat /\ stock \in Int /\ stock' \in Int /\ missed \in Nat /\ missed' \in Nat
      /\ missed' >= missed /\ stock' + missed' >= stock + missed - n
  <2>1. draft[c] \in Draft /\ draft[c].qty \in Nat /\ LiveQty(c) \in Nat
    BY CountsAssumption DEF IInv, TypeOK, Draft, Lock, Quantities, LiveQty
  <2>2. draft'[c].state = "paid" /\ \A b \in Checkouts \ {c} : draft'[b] = draft[b]
    BY <2>1 DEF Pay, IInv, TypeOK, Draft
  <2>3. stock \in Int /\ stock' \in Int /\ missed \in Nat /\ missed' \in Nat
    BY DEF IInv, TypeOK
  <2>4. missed' = IF draft[c].qty > LiveQty(c) THEN missed + draft[c].qty - LiveQty(c) ELSE missed
    BY DEF Pay
  <2> QED
    BY <2>1, <2>2, <2>3, <2>4 DEF Pay, Open
<1>2. Unused'
  BY <1>1 DEF IInv, Unused, Started, NoDraft
<1>3. \A b \in Checkouts \ {c} : /\ Reserved(b)' = Reserved(b) /\ LiveQty(b)' = LiveQty(b)
                               /\ Paid(b)' <=> Paid(b)
  BY <1>1 DEF Reserved, LiveQty, Paid
<1>4. Promised' = Promised - n /\ Promised \in Nat
  <2>1. Reserved(c) = n /\ Reserved(c)' = 0
    BY <1>1 DEF Reserved, Paid
  <2>2. TypeOK
    BY DEF IInv
  <2>3. Promised \in Nat
    BY <2>2, PromisedType
  <2>4. Promised' = Promised - Reserved(c) + Reserved(c)'
    <3>1. \A b \in Checkouts \ {c} : Reserved(b)' = Reserved(b)
      BY <1>1 DEF Reserved, LiveQty, Paid
    <3> QED
      BY <2>2, <3>1, PromisedChanges
  <2> QED
    BY <1>1, <2>1, <2>3, <2>4
<1>5. PaidLocked' = PaidLocked + n /\ PaidLocked \in Nat
  <2> DEFINE f == [b \in Checkouts |-> IF Paid(b) THEN LiveQty(b) ELSE 0]
             g == [b \in Checkouts |-> IF Paid(b)' THEN LiveQty(b)' ELSE 0]
  <2>1. f[c] = 0 /\ g[c] = n /\ \A b \in Checkouts \ {c} : f[b] = g[b]
    BY <1>1, <1>3 DEF Paid, LiveQty
  <2>2. \A b \in Checkouts : f[b] \in Nat /\ g[b] \in Nat
    <3>1. \A b \in Checkouts : f[b] \in Nat
      BY PromisedType DEF IInv
    <3> HIDE DEF f, g
    <3> QED
      BY <1>1, <2>1, <3>1
  <2>3. PaidLocked = Total(f, Checkouts) /\ PaidLocked' = Total(g, Checkouts)
    BY DEF PaidLocked
  <2> HIDE DEF f, g
  <2> QED
    BY <1>1, <2>1, <2>2, <2>3, FiniteCheckouts, TotalReplace, TotalType
<1> HIDE DEF n
<1>6. ReservedWithinStock'
  BY <1>1, <1>4 DEF IInv, ReservedWithinStock
<1>7. ASSUME NEW v \in Workers PROVE Careful(v)'
  <2>1. Careful(v) /\ req'[v] = req[v] /\ req[v] \in Request
    BY <1>1 DEF IInv, TypeOK
  <2>2. req[v].step \in Making => Its(v) # c
    BY <1>1, <2>1 DEF Careful, NoDraft
  <2>3. At(v, "count") => req[v].seen <= stock' + PaidLocked' + missed'
    BY <1>1, <1>5, <2>1 DEF Careful, Request
  <2>4. At(v, "lock") => Promised' + req[v].qty <= stock' + missed'
    <3>1. req[v].qty \in Nat
      BY <2>1, CountsAssumption DEF Request, Quantities
    <3>2. At(v, "lock") => Promised + req[v].qty <= stock + missed
      BY <2>1 DEF Careful
    <3>3. /\ Promised \in Int /\ n \in Int /\ req[v].qty \in Int
          /\ stock \in Int /\ missed \in Int /\ stock' \in Int /\ missed' \in Int
      BY <1>1, <1>4, <3>1
    <3>4. Promised' \in Int /\ Promised' = Promised - n
      BY <1>4, <3>3
    <3> QED
      <4> SUFFICES ASSUME At(v, "lock")
                   PROVE  Promised' + req[v].qty <= stock' + missed'
        OBVIOUS
      <4>1. stock' + missed' >= stock + missed - n
        BY <1>1
      <4>2. Promised + req[v].qty <= stock + missed
        BY <3>2
      <4> QED
        BY <3>3, <3>4, <4>1, <4>2, Beyond
  <2> QED
    BY <1>1, <2>1, <2>2, <2>3, <2>4 DEF Careful, Its, At, Started
<1> QED
  BY <1>1, <1>2, <1>6, <1>7 DEF IInv, Apart, Its

LEMMA ExpireStep ==
    ASSUME IInv, TypeOK', NEW c \in Checkouts, Expire(c)
    PROVE  IInv'
<1>1. Receding /\ UNCHANGED req
  BY ExpireRecedes DEF IInv, Expire
<1> QED
  BY <1>1, RecedingFalls, RecedingOthers DEF IInv, Apart, Its
----------------------------------------------------------------------------
LEMMA ServeStep ==
    ASSUME IInv, TypeOK', Serve
    PROVE  IInv'
<1> SUFFICES ASSUME NEW w \in Workers, Start(w) \/ Work(w) \/ Abandon(w)
             PROVE  IInv'
  BY DEF Serve
<1>1. CASE Start(w)
  BY <1>1, InitiateStep, OtherSteps DEF Start
<1>2. CASE Checkout(w)
  BY <1>2, ReadingSteps, LockStep, DraftStep, OtherSteps DEF Checkout
<1>3. CASE Release(w) \/ CleanExpiredLocks(w) \/ Abandon(w)
  BY <1>3, OtherSteps
<1> QED
  BY <1>1, <1>2, <1>3 DEF Work

LEMMA ReservedStep == IInv /\ [Next]_vars => IInv'
<1> SUFFICES ASSUME IInv, [Next]_vars
             PROVE  IInv'
  OBVIOUS
<1>1. TypeOK'
  BY TypeStep DEF IInv
<1>2. CASE Serve
  BY <1>1, <1>2, ServeStep
<1>3. CASE Manual
  BY <1>1, <1>3, ManualSteps
<1>4. CASE \E c \in Checkouts : Pay(c) \/ Expire(c)
  BY <1>1, <1>4, PayStep, ExpireStep
<1>5. CASE UNCHANGED vars
  <2>1. Promised' = Promised /\ PaidLocked' = PaidLocked
    BY <1>5, SumsStay DEF vars, LiveQty, Paid
  <2> QED
    BY <1>1, <1>5, <2>1 DEF vars, IInv, Unused, Apart, Careful, ReservedWithinStock, Started, Its, At
<1> QED
  BY <1>2, <1>3, <1>4, <1>5 DEF Next

LEMMA ReservedInit == Init => IInv
<1> SUFFICES ASSUME Init
             PROVE  IInv
  OBVIOUS
<1>1. TypeOK
  BY InitType
<1>2. \A w \in Workers : req[w].step = "idle"
  BY DEF Init, Idle
<1>3. Apart /\ \A w \in Workers : Careful(w)
  BY <1>2 DEF Apart, Careful, At, Making, Taking
<1>4. Unused
  BY DEF Init, Unused
<1>5. Promised = 0
  <2> DEFINE f == [c \in Checkouts |-> Reserved(c)]
  <2>1. \A c \in Checkouts : f[c] = 0
    BY DEF Init, NoDraft, NoLock, Reserved, LiveQty, Paid
  <2> HIDE DEF f
  <2>2. Total(f, Checkouts) = 0
    BY <2>1, TotalZero
  <2> QED
    BY <2>2 DEF f, Promised
<1>6. ReservedWithinStock
  BY <1>5, CountsAssumption DEF Init, ReservedWithinStock
<1> QED
  BY <1>1, <1>3, <1>4, <1>6 DEF IInv

(* AcquireLocks, for any numbers of workers, units, checkouts and faults:   *)
(* no more units are locked for customers who have still to pay than are on *)
(* hand, but for those that a count overlooked or that were paid without a  *)
(* lock.                                                                    *)
THEOREM ReservedCorrect == Spec => []ReservedWithinStock
<1>1. Init => IInv
  BY ReservedInit
<1>2. IInv /\ [Next]_vars => IInv'
  BY ReservedStep
<1>3. IInv => ReservedWithinStock
  BY DEF IInv
<1> QED
  BY <1>1, <1>2, <1>3, PTL DEF Spec
----------------------------------------------------------------------------
(* What keeps a draft within reach of the clean-up job while no call fails, *)
(* for any number of workers.  A checkout that no request has in hand any   *)
(* more is over: no request turns to it again, and its draft, once it is    *)
(* not open, stays so.                                                      *)
AtWork  == Buying \cup {"undoDraft", "undo"}
Hand(w) == req[w].step \in AtWork
Over(c) == Started(c) /\ ~ InHand(c)
Done(c) == Over(c) /\ ~ Open(c)

(* A draft nobody began does not exist; two requests have different         *)
(* checkouts in hand; and what has a session or a paid draft is over.       *)
Unbegun == \A c \in Checkouts : ~ Started(c) => draft[c] = NoDraft
OneEach == \A v, w \in Workers : Hand(v) /\ Hand(w) /\ Its(v) = Its(w) => v = w
Past    == \A c \in Checkouts : session[c] # "none" \/ draft[c].state = "paid" => Over(c)

(* A request has a draft only between CreateDraftOrder and its session; a   *)
(* release takes the locks and the session after the draft, and the job     *)
(* deletes the sessions whose drafts it has dealt with.                     *)
Sound(w) ==
    /\ Hand(w) => /\ Its(w) \in Checkouts /\ Started(Its(w)) /\ ~ At(w, "undoDraft")
                  /\ ~ At(w, "session") => ~ Open(Its(w))
    /\ At(w, "cancel") => Its(w) \in Checkouts /\ Over(Its(w))
    /\ At(w, "unlock") \/ At(w, "forget") => Its(w) \in Checkouts /\ Done(Its(w))
    /\ At(w, "purge") => \A c \in req[w].listed : Over(c) /\ (c \in req[w].todo \/ ~ Open(c))

Reachable == \A c \in Checkouts : Open(c) /\ owner[c] # Admin => session[c] # "none" \/ InHand(c)

Reach == Unbegun /\ OneEach /\ Past /\ Reachable /\ \A w \in Workers : Sound(w)
RInv  == TypeOK /\ (faults = 0 => Reach)

(* All that a step of worker w does to other requests, drafts and sessions. *)
Turn(w) ==
    /\ \A v \in Workers \ {w} : req'[v] = req[v]
    /\ \A c \in Checkouts : Started(c) => owner'[c] = owner[c]
    /\ Hand(w)' => \/ Hand(w) /\ Its(w)' = Its(w)
                   \/ ~ Hand(w) /\ Its(w)' \in Checkouts /\ ~ Started(Its(w)')
    /\ Hand(w) /\ ~ Hand(w)' => session'[Its(w)] # "none" \/ ~ Open(Its(w))
    /\ \A c \in Checkouts :
          /\ Open(c)' => Open(c) \/ (At(w, "draft") /\ Its(w) = c /\ Hand(w)')
          /\ draft'[c].state = "paid" => draft[c].state = "paid"
          /\ ~ Started(c) => draft'[c] = draft[c]
          /\ session'[c] # "none" => session[c] # "none" \/ (At(w, "session") /\ Its(w) = c /\ ~ Hand(w)')
          /\ session[c] # "none" /\ session'[c] = "none" => ~ Open(c)

LEMMA DraftIsWork == \A w : At(w, "draft") \/ At(w, "session") => Hand(w)
  BY DEF At, Hand, AtWork, Buying

LEMMA InHandIs == \A c : InHand(c) <=> \E w \in Workers : Its(w) = c /\ Hand(w)
  BY DEF InHand, Hand, AtWork

LEMMA InHandNext == \A c \in Checkouts : InHand(c)' <=> \E w \in Workers : Its(w)' = c /\ Hand(w)'
  BY DEF InHand, Hand, AtWork

(* Such a step leaves what is over as it is.                                *)
LEMMA TurnOver ==
    ASSUME Reach, NEW w \in Workers, Turn(w), NEW c \in Checkouts
    PROVE  /\ Started(c) => Started(c)'
           /\ Over(c) => Over(c)'
           /\ Done(c) => Done(c)'
<1>1. Started(c) => Started(c)'
  BY DEF Turn, Started
<1>2. Started(c) /\ InHand(c)' => InHand(c)
  <2> SUFFICES ASSUME Started(c), NEW v \in Workers, Its(v)' = c, Hand(v)'
               PROVE  InHand(c)
    BY InHandNext
  <2>1. CASE v = w
    BY <2>1, InHandIs DEF Turn
  <2>2. CASE v # w
    <3>1. Its(v) = c /\ Hand(v)
      BY <2>2 DEF Turn, Its, Hand
    <3> QED
      BY <3>1, InHandIs
  <2> QED
    BY <2>1, <2>2
<1>3. Over(c) => Over(c)'
  BY <1>1, <1>2 DEF Over
<1>4. Over(c) /\ Open(c)' => Open(c)
  BY DraftIsWork, InHandIs DEF Turn, Over
<1> QED
  BY <1>1, <1>3, <1>4 DEF Done

(* The other requests are as sound as they were, ...                        *)
LEMMA TurnOthers ==
    ASSUME TypeOK, Reach, NEW w \in Workers, Turn(w), NEW v \in Workers \ {w}
    PROVE  Sound(v)'
<1>1. Sound(v) /\ req'[v] = req[v]
  BY DEF Reach, Turn
<1>2. \A c \in Checkouts : (Started(c) => Started(c)') /\ (Over(c) => Over(c)') /\ (Done(c) => Done(c)')
  BY TurnOver
<1>3. Hand(v)' <=> Hand(v)
  BY <1>1 DEF Hand
<1>4. Its(v)' = Its(v) /\ \A s : At(v, s)' <=> At(v, s)
  BY <1>1 DEF Its, At
<1> PICK c : c = Its(v)
  OBVIOUS
<1>5. Hand(v) => c \in Checkouts /\ Started(c)' /\ ~ At(v, "undoDraft") /\ (~ At(v, "session") => ~ Open(c)')
  <2> SUFFICES ASSUME Hand(v)
               PROVE  c \in Checkouts /\ Started(c)' /\ ~ At(v, "undoDraft") /\ (~ At(v, "session") => ~ Open(c)')
    OBVIOUS
  <2>1. c \in Checkouts /\ Started(c) /\ ~ At(v, "undoDraft") /\ (~ At(v, "session") => ~ Open(c))
    BY <1>1 DEF Sound
  <2>2. ~ (At(w, "draft") /\ Its(w) = c)
    BY DraftIsWork DEF Reach, OneEach
  <2>3. Open(c)' => Open(c)
    BY <2>1, <2>2 DEF Turn
  <2> QED
    BY <1>2, <2>1, <2>3
<1>6. At(v, "purge") => \A b \in req[v].listed : Over(b)' /\ (b \in req[v].todo \/ ~ Open(b)')
  <2> SUFFICES ASSUME At(v, "purge"), NEW b \in req[v].listed
               PROVE  Over(b)' /\ (b \in req[v].todo \/ ~ Open(b)')
    OBVIOUS
  <2>1. b \in Checkouts /\ Over(b) /\ (b \in req[v].todo \/ ~ Open(b))
    BY <1>1 DEF Sound, TypeOK, Request
  <2> QED
    BY <1>2, <2>1 DEF Done
<1> QED
  BY <1>1, <1>2, <1>3, <1>4, <1>5, <1>6 DEF Sound

(* ... and so is the whole, once the step's own request is.                 *)
LEMMA TurnReach ==
    ASSUME TypeOK, Reach, NEW w \in Workers, Turn(w), Sound(w)'
    PROVE  Reach'
<1>1. \A v \in Workers : Sound(v)'
  BY TurnOthers
<1>2. \A v \in Workers \ {w} : (Hand(v)' <=> Hand(v)) /\ Its(v)' = Its(v)
  BY DEF Turn, Hand, Its
<1>3. OneEach'
  <2>1. ASSUME NEW v \in Workers \ {w}, Hand(v)', Hand(w)', Its(v)' = Its(w)'
        PROVE  FALSE
    <3>1. Hand(v) /\ Its(v) = Its(w)' /\ Started(Its(v))
      BY <1>2, <2>1 DEF Reach, Sound
    <3>2. Hand(w) /\ Its(w) = Its(v)
      BY <2>1, <3>1 DEF Turn
    <3> QED
      BY <3>1, <3>2 DEF Reach, OneEach
  <2>2. ASSUME NEW u \in Workers \ {w}, NEW v \in Workers \ {w}, Hand(u)', Hand(v)', Its(u)' = Its(v)'
        PROVE  u = v
    BY <1>2, <2>2 DEF Reach, OneEach
  <2> QED
    BY <2>1, <2>2 DEF OneEach
<1>4. Unbegun'
  BY TurnOver DEF Reach, Unbegun, Turn
<1>5. Past'
  <2> SUFFICES ASSUME NEW c \in Checkouts, session'[c] # "none" \/ draft'[c].state = "paid"
               PROVE  Over(c)'
    BY DEF Past
  <2>1. CASE session[c] # "none" \/ draft[c].state = "paid"
    BY <2>1, TurnOver DEF Reach, Past
  <2>2. CASE ~ (session[c] # "none" \/ draft[c].state = "paid")
    <3>1. At(w, "session") /\ Its(w) = c /\ ~ Hand(w)'
      BY <2>2 DEF Turn
    <3>2. Hand(w) /\ Started(c)
      BY <3>1, DraftIsWork DEF Reach, Sound
    <3>3. ASSUME NEW v \in Workers, Its(v)' = c, Hand(v)'
          PROVE  FALSE
      <4>1. v # w /\ Hand(v) /\ Its(v) = c
        BY <1>2, <3>1, <3>3
      <4> QED
        BY <3>1, <3>2, <4>1 DEF Reach, OneEach
    <3> QED
      BY <3>2, <3>3, InHandNext, TurnOver DEF Over
  <2> QED
    BY <2>1, <2>2
<1>6. Reachable'
  <2> SUFFICES ASSUME NEW c \in Checkouts, Open(c)', owner'[c] # Admin
               PROVE  session'[c] # "none" \/ InHand(c)'
    BY DEF Reachable
  <2>1. CASE ~ Open(c)
    <3>1. At(w, "draft") /\ Its(w) = c /\ Hand(w)'
      BY <2>1 DEF Turn
    <3>2. Its(w)' = c
      BY <3>1, DraftIsWork DEF Turn
    <3> QED
      BY <3>1, <3>2, InHandNext
  <2>2. CASE Open(c)
    <3>1. Started(c) /\ owner[c] # Admin
      BY <2>2 DEF Reach, Unbegun, Open, NoDraft, Turn
    <3>2. CASE session[c] # "none"
      BY <2>2, <3>2 DEF Turn
    <3>3. CASE InHand(c)
      <4>1. PICK v \in Workers : Its(v) = c /\ Hand(v)
        BY <3>3, InHandIs
      <4>2. CASE Its(v)' = c /\ Hand(v)'
        BY <4>2, InHandNext
      <4>3. CASE ~ (Its(v)' = c /\ Hand(v)')
        <5>1. v = w
          BY <1>2, <4>1, <4>3
        <5>2. ~ Hand(w)'
          BY <4>1, <4>3, <5>1 DEF Turn
        <5> QED
          BY <2>2, <4>1, <5>1, <5>2 DEF Turn
      <4> QED
        BY <4>2, <4>3
    <3> QED
      BY <2>2, <3>1, <3>2, <3>3 DEF Reach, Reachable
  <2> QED
    BY <2>1, <2>2
<1> QED
  BY <1>1, <1>3, <1>4, <1>5, <1>6 DEF Reach
----------------------------------------------------------------------------
LEMMA BecomeIs ==
    ASSUME TypeOK, NEW w \in Workers, NEW r \in Request, Become(w, r)
    PROVE  /\ \A v \in Workers \ {w} : req'[v] = req[v]
           /\ req'[w] = r /\ Its(w)' = r.c
           /\ Hand(w)' <=> r.step \in AtWork
           /\ \A t : At(w, t)' <=> r.step = t
  BY DEF TypeOK, Become, Its, Hand, At

LEMMA GotoIs ==
    ASSUME TypeOK, NEW w \in Workers, NEW s \in Steps, Goto(w, s)
    PROVE  /\ \A v \in Workers \ {w} : req'[v] = req[v]
           /\ Its(w)' = Its(w) /\ req'[w].listed = req[w].listed /\ req'[w].todo = req[w].todo
           /\ Hand(w)' <=> s \in AtWork
           /\ \A t : At(w, t)' <=> s = t
  BY DEF TypeOK, Request, Goto, Become, Its, Hand, At

LEMMA FinishIs ==
    ASSUME TypeOK, NEW w \in Workers, Finish(w)
    PROVE  /\ \A v \in Workers \ {w} : req'[v] = req[v]
           /\ ~ Hand(w)' /\ Sound(w)'
<1>1. /\ \A v \in Workers \ {w} : req'[v] = req[v]
      /\ req'[w].step = "idle"
  BY IdleType DEF Finish, Become, TypeOK, Idle
<1> QED
  BY <1>1 DEF Hand, AtWork, Buying, Sound, At

(* A step that moves only the request on, within the checkout it has in     *)
(* hand, or leaves one without an open draft.                               *)
LEMMA QuietTurn ==
    ASSUME NEW w \in Workers, UNCHANGED <<owner, draft, session>>,
           \A v \in Workers \ {w} : req'[v] = req[v],
           Hand(w)' => Hand(w) /\ Its(w)' = Its(w),
           Hand(w) /\ ~ Hand(w)' => ~ Open(Its(w))
    PROVE  Turn(w)
  BY DEF Turn, Open

LEMMA HandSteps ==
    ASSUME NEW w \in Workers
    PROVE  /\ Hand(w) <=> \E s \in AtWork : At(w, s)
           /\ {"look", "count", "lock", "batch", "draft", "session", "undoDraft", "undo"} = AtWork
           /\ AtWork \subseteq Steps
           /\ \A s, t : At(w, s) /\ At(w, t) => s = t
  BY DEF Hand, At, AtWork, Buying, Steps

(* A checkout request on its way to its draft, ...                          *)
LEMMA OnwardTurn ==
    ASSUME TypeOK, Reach, NEW w \in Workers, Hand(w), ~ At(w, "session"),
           UNCHANGED <<owner, draft, session>>,
           \/ \E s \in {"count", "lock", "batch", "draft"} : Goto(w, s)
           \/ Become(w, [req[w] EXCEPT !.step = "count", !.seen = stock])
           \/ Finish(w)
    PROVE  Turn(w) /\ Sound(w)'
<1> PICK c : c = Its(w)
  OBVIOUS
<1>1. c \in Checkouts /\ Started(c) /\ ~ Open(c)
  BY DEF Reach, Sound
<1>2. Started(c)' /\ ~ Open(c)'
  BY <1>1 DEF Started, Open
<1>3. CASE Finish(w)
  BY <1>1, <1>3, FinishIs, QuietTurn
<1>4. CASE \E s \in {"count", "lock", "batch", "draft"} : Goto(w, s)
  <2>1. PICK s \in {"count", "lock", "batch", "draft"} : Goto(w, s)
    BY <1>4
  <2>2. s \in AtWork /\ s \in Steps
    BY HandSteps
  <2>3. Turn(w)
    BY <2>1, <2>2, GotoIs, QuietTurn
  <2>4. Sound(w)'
    <3>1. Its(w)' = c /\ \A t : At(w, t)' <=> s = t
      BY <2>1, <2>2, GotoIs
    <3> QED
      BY <1>1, <1>2, <3>1 DEF Sound
  <2> QED
    BY <2>3, <2>4
<1>5. CASE Become(w, [req[w] EXCEPT !.step = "count", !.seen = stock])
  <2> DEFINE r == [req[w] EXCEPT !.step = "count", !.seen = stock]
  <2>1. r \in Request /\ r.step = "count" /\ r.c = Its(w)
    BY HandSteps DEF TypeOK, Request, Its
  <2>2. "count" \in AtWork
    BY HandSteps
  <2>3. Become(w, r)
    BY <1>5
  <2> HIDE DEF r
  <2>6. /\ \A v \in Workers \ {w} : req'[v] = req[v]
        /\ Its(w)' = c /\ Hand(w)' /\ \A t : At(w, t)' <=> "count" = t
    BY <2>1, <2>2, <2>3, BecomeIs
  <2>4. Turn(w)
    BY <2>6, QuietTurn
  <2>5. Sound(w)'
    BY <1>1, <1>2, <2>6 DEF Sound
  <2> QED
    BY <2>4, <2>5
<1> QED
  BY <1>3, <1>4, <1>5

(* ... at its draft, ...                                                    *)
LEMMA DraftTurn ==
    ASSUME TypeOK, Reach, NEW w \in Workers, CreateDraftOrder(w), faults = 0, faults' = 0
    PROVE  Turn(w) /\ Sound(w)'
<1> PICK c : c = Its(w)
  OBVIOUS
<1>1. At(w, "draft") /\ Hand(w) /\ UNCHANGED <<owner, session>>
  BY DraftIsWork DEF CreateDraftOrder
<1>2. c \in Checkouts /\ Started(c) /\ ~ Open(c)
  BY <1>1, HandSteps DEF Reach, Sound
<1>3. Started(c)'
  BY <1>1, <1>2 DEF Started
<1>4. CASE draft' = draft
  <2>1. Goto(w, "undo")
    BY <1>2, <1>4 DEF CreateDraftOrder, Made, Open, TypeOK
  <2>2. Its(w)' = c /\ Hand(w)' /\ \A t : At(w, t)' <=> "undo" = t
    BY <2>1, GotoIs, HandSteps
  <2>3. \A v \in Workers \ {w} : req'[v] = req[v]
    BY <2>1, GotoIs, HandSteps
  <2>4. ~ Open(c)'
    BY <1>2, <1>4 DEF Open
  <2> QED
    BY <1>1, <1>2, <1>3, <1>4, <2>2, <2>3, <2>4, QuietTurn DEF Sound
<1>5. CASE draft' = [draft EXCEPT ![c] = Made(req[w].qty)] /\ Goto(w, "session")
  <2>1. Its(w)' = c /\ Hand(w)' /\ \A t : At(w, t)' <=> "session" = t
    BY <1>5, GotoIs, HandSteps
  <2>2. \A v \in Workers \ {w} : req'[v] = req[v]
    BY <1>5, GotoIs, HandSteps
  <2>3. (\A b \in Checkouts \ {c} : draft'[b] = draft[b]) /\ draft'[c].state = "open"
    BY <1>2, <1>5 DEF TypeOK, Made
  <2>4. Turn(w)
    BY <1>1, <1>2, <2>1, <2>2, <2>3 DEF Turn, Open
  <2>5. Sound(w)'
    BY <1>2, <1>3, <2>1 DEF Sound
  <2> QED
    BY <2>4, <2>5
<1> QED
  BY <1>4, <1>5 DEF CreateDraftOrder

(* ... and at its session.                                                  *)
LEMMA SessionTurn ==
    ASSUME TypeOK, Reach, NEW w \in Workers, UpsertCheckoutSession(w), faults = 0, faults' = 0
    PROVE  Turn(w) /\ Sound(w)'
<1> PICK c : c = Its(w)
  OBVIOUS
<1>1. At(w, "session") /\ Hand(w) /\ UNCHANGED <<owner, draft>>
  BY DraftIsWork DEF UpsertCheckoutSession
<1>2. c \in Checkouts
  BY <1>1 DEF Reach, Sound
<1>3. session' = [session EXCEPT ![c] = "live"] /\ Finish(w)
  BY DEF UpsertCheckoutSession
<1>4. session'[c] = "live" /\ \A b \in Checkouts \ {c} : session'[b] = session[b]
  BY <1>2, <1>3 DEF TypeOK
<1>5. (\A v \in Workers \ {w} : req'[v] = req[v]) /\ ~ Hand(w)' /\ Sound(w)'
  BY <1>3, FinishIs
<1>6. Turn(w)
  BY <1>1, <1>2, <1>4, <1>5 DEF Turn, Open
<1> QED
  BY <1>5, <1>6

(* A deleted draft was open, and no other changes.                          *)
LEMMA DeletedIs ==
    ASSUME TypeOK, NEW c \in Checkouts, DeleteDraftOrder(c), faults = 0, faults' = 0
    PROVE  /\ ~ Open(c)' /\ \A b \in Checkouts \ {c} : draft'[b] = draft[b]
           /\ Open(c) \/ draft'[c] = draft[c]
           /\ draft'[c].state = "paid" => draft[c].state = "paid"
<1>1. draft' = Deleted(c) /\ draft[c] \in Draft
  BY DEF DeleteDraftOrder, TypeOK
<1>2. draft'[c] = [draft[c] EXCEPT !.state = IF @ = "open" THEN "deleted" ELSE @]
  BY <1>1 DEF Deleted, TypeOK
<1>3. \A b \in Checkouts \ {c} : draft'[b] = draft[b]
  BY <1>1 DEF Deleted, TypeOK
<1>4. draft'[c].state = IF draft[c].state = "open" THEN "deleted" ELSE draft[c].state
  BY <1>1, <1>2 DEF Draft
<1>5. Open(c) \/ draft'[c] = draft[c]
  BY <1>1, <1>2 DEF Open, Draft
<1> QED
  BY <1>3, <1>4, <1>5 DEF Open

LEMMA DeletedTurn ==
    ASSUME TypeOK, Reach, NEW w \in Workers, NEW c \in Checkouts, DeleteDraftOrder(c), Started(c),
           faults = 0, faults' = 0, UNCHANGED <<owner, session>>, ~ Hand(w), ~ Hand(w)',
           \A v \in Workers \ {w} : req'[v] = req[v]
    PROVE  Turn(w)
  BY DeletedIs DEF Turn, Open, Started

(* What a release does to its checkout, ...                                 *)
LEMMA ReleaseTurn ==
    ASSUME TypeOK, Reach, NEW w \in Workers, Release(w), faults = 0, faults' = 0
    PROVE  Turn(w) /\ Sound(w)'
<1> PICK c : c = Its(w)
  OBVIOUS
<1>1. CASE CancelCheckoutDraft(w)
  <2>1. At(w, "cancel") /\ ~ Hand(w) /\ UNCHANGED <<owner, session>>
    BY <1>1, HandSteps DEF CancelCheckoutDraft
  <2>2. c \in Checkouts /\ Over(c)
    BY <2>1 DEF Reach, Sound
  <2>3. Its(w)' = c /\ ~ Hand(w)' /\ \A t : At(w, t)' <=> "unlock" = t
    <3>1. Goto(w, "unlock") /\ "unlock" \in Steps /\ "unlock" \notin AtWork
      BY <1>1 DEF CancelCheckoutDraft, Steps, AtWork, Buying
    <3> QED
      BY <3>1, GotoIs
  <2>4. \A v \in Workers \ {w} : req'[v] = req[v]
    BY <1>1 DEF CancelCheckoutDraft, Goto, Become
  <2>5. DeleteDraftOrder(c)
    BY <1>1 DEF CancelCheckoutDraft
  <2>6. Turn(w)
    BY <2>1, <2>2, <2>3, <2>4, <2>5, DeletedTurn DEF Over
  <2>7. Over(c)' /\ ~ Open(c)'
    BY <2>2, <2>5, <2>6, TurnOver, DeletedIs
  <2>8. Sound(w)'
    BY <2>2, <2>3, <2>7 DEF Sound, Done
  <2> QED
    BY <2>6, <2>8
<1>2. CASE DeleteLocksByReference(w)
  <2>1. At(w, "unlock") /\ ~ Hand(w) /\ UNCHANGED <<owner, draft, session>>
    BY <1>2, HandSteps DEF DeleteLocksByReference
  <2>2. c \in Checkouts /\ Done(c)
    BY <2>1 DEF Reach, Sound
  <2>3. Goto(w, "forget") /\ "forget" \in Steps /\ "forget" \notin AtWork
    BY <1>2 DEF DeleteLocksByReference, Steps, AtWork, Buying
  <2>4. Its(w)' = c /\ ~ Hand(w)' /\ \A t : At(w, t)' <=> "forget" = t
    BY <2>3, GotoIs
  <2>5. \A v \in Workers \ {w} : req'[v] = req[v]
    BY <2>3, GotoIs
  <2>6. Turn(w)
    BY <2>1, <2>4, <2>5, QuietTurn
  <2>7. Sound(w)'
    BY <2>2, <2>4, <2>6, TurnOver DEF Sound
  <2> QED
    BY <2>6, <2>7
<1>3. CASE DeleteCheckoutSession(w)
  <2>1. At(w, "forget") /\ ~ Hand(w) /\ UNCHANGED <<owner, draft>>
    BY <1>3, HandSteps DEF DeleteCheckoutSession
  <2>2. c \in Checkouts /\ Done(c)
    BY <2>1 DEF Reach, Sound
  <2>3. session'[c] = "none" /\ \A b \in Checkouts \ {c} : session'[b] = session[b]
    BY <1>3, <2>2 DEF DeleteCheckoutSession, TypeOK
  <2>4. (\A v \in Workers \ {w} : req'[v] = req[v]) /\ ~ Hand(w)' /\ Sound(w)'
    BY <1>3, FinishIs DEF DeleteCheckoutSession
  <2>5. Turn(w)
    BY <2>1, <2>2, <2>3, <2>4 DEF Turn, Open, Done
  <2> QED
    BY <2>4, <2>5
<1> QED
  BY <1>1, <1>2, <1>3 DEF Release

(* ... and the job to the sessions it listed.                               *)
LEMMA CleanTurn ==
    ASSUME TypeOK, Reach, NEW w \in Workers, CleanExpiredLocks(w), faults = 0, faults' = 0
    PROVE  Turn(w) /\ Sound(w)'
<1>1. CASE DeleteExpiredDraft(w)
  <2>1. PICK c \in req[w].todo : DeleteDraftOrder(c) /\ Become(w, [req[w] EXCEPT !.todo = @ \ {c}])
    BY <1>1 DEF DeleteExpiredDraft
  <2>2. At(w, "purge") /\ ~ Hand(w) /\ UNCHANGED <<owner, session>>
    BY <1>1, HandSteps DEF DeleteExpiredDraft
  <2> DEFINE r == [req[w] EXCEPT !.todo = @ \ {c}]
  <2>3. /\ r \in Request /\ r.step = "purge" /\ r.listed = req[w].listed /\ r.todo = req[w].todo \ {c}
        /\ c \in Checkouts /\ r.listed \subseteq Checkouts
    BY <2>2 DEF TypeOK, Request, At
  <2>4. Become(w, r)
    BY <2>1
  <2> HIDE DEF r
  <2>5. /\ \A v \in Workers \ {w} : req'[v] = req[v]
        /\ ~ Hand(w)' /\ req'[w] = r /\ \A t : At(w, t)' <=> "purge" = t
    <3>1. "purge" \notin AtWork
      BY DEF AtWork, Buying
    <3> QED
      BY <2>3, <2>4, <3>1, BecomeIs
  <2>6. Turn(w)
    <3>1. CASE Open(c)
      <4>1. Started(c)
        BY <2>3, <3>1 DEF Reach, Unbegun, Open, NoDraft
      <4> QED
        BY <2>1, <2>2, <2>3, <2>5, <4>1, DeletedTurn
    <3>2. CASE ~ Open(c)
      <4>1. \A b \in Checkouts : draft'[b] = draft[b]
        BY <2>1, <2>3, <3>2, DeletedIs
      <4> QED
        BY <2>2, <2>5, <4>1 DEF Turn, Open
    <3> QED
      BY <3>1, <3>2
  <2>7. ASSUME NEW b \in r.listed
        PROVE  Over(b)' /\ (b \in r.todo \/ ~ Open(b)')
    <3>1. b \in Checkouts /\ Over(b) /\ (b \in req[w].todo \/ ~ Open(b))
      BY <2>2, <2>3, <2>7 DEF Reach, Sound
    <3>2. CASE b = c
      BY <2>1, <2>6, <3>1, <3>2, TurnOver, DeletedIs
    <3>3. CASE b # c
      BY <2>3, <2>6, <3>1, <3>3, TurnOver DEF Done
    <3> QED
      BY <3>2, <3>3
  <2>8. Sound(w)'
    BY <2>5, <2>7 DEF Sound
  <2> QED
    BY <2>6, <2>8
<1>2. CASE DeleteExpiredCheckoutSessions(w)
  <2>1. At(w, "purge") /\ req[w].todo = {} /\ ~ Hand(w) /\ UNCHANGED <<owner, draft>>
    BY <1>2, HandSteps DEF DeleteExpiredCheckoutSessions
  <2>2. \A c \in req[w].listed : ~ Open(c)
    BY <2>1 DEF Reach, Sound
  <2>3. \A c \in Checkouts : session'[c] = IF c \in req[w].listed THEN "none" ELSE session[c]
    BY <1>2 DEF DeleteExpiredCheckoutSessions
  <2>4. Goto(w, "clean") /\ "clean" \in Steps /\ "clean" \notin AtWork
    BY <1>2 DEF DeleteExpiredCheckoutSessions, Steps, AtWork, Buying
  <2>5. ~ Hand(w)' /\ \A t : At(w, t)' <=> "clean" = t
    BY <2>4, GotoIs
  <2>6. \A v \in Workers \ {w} : req'[v] = req[v]
    BY <2>4, GotoIs
  <2>7. Turn(w)
    BY <2>1, <2>2, <2>3, <2>5, <2>6 DEF Turn, Open
  <2>8. Sound(w)'
    BY <2>5 DEF Sound
  <2> QED
    BY <2>7, <2>8
<1>3. CASE DeleteExpiredLocks(w)
  <2>1. At(w, "clean") /\ ~ Hand(w) /\ UNCHANGED <<owner, draft, session>> /\ Finish(w)
    BY <1>3, HandSteps DEF DeleteExpiredLocks
  <2> QED
    BY <2>1, FinishIs, QuietTurn
<1> QED
  BY <1>1, <1>2, <1>3 DEF CleanExpiredLocks

(* The steps of a checkout request together.                                *)
LEMMA CheckoutTurn ==
    ASSUME TypeOK, Reach, NEW w \in Workers, Checkout(w), faults = 0, faults' = 0
    PROVE  Turn(w) /\ Sound(w)'
<1>1. CASE GetVariantsInventory(w) \/ GetActiveLocksForVariant(w) \/ CreateLocks(w)
           \/ AcquireBatchLocks(w) \/ UndoLocks(w)
  <2>1. Hand(w) /\ ~ At(w, "session") /\ UNCHANGED <<owner, draft, session>>
    BY <1>1, HandSteps DEF GetVariantsInventory, GetActiveLocksForVariant, CreateLocks, AcquireBatchLocks, UndoLocks
  <2>2. \/ \E s \in {"count", "lock", "batch", "draft"} : Goto(w, s)
        \/ Become(w, [req[w] EXCEPT !.step = "count", !.seen = stock])
        \/ Finish(w)
    BY <1>1 DEF GetVariantsInventory, GetActiveLocksForVariant, CreateLocks, AcquireBatchLocks, UndoLocks
  <2> QED
    BY <2>1, <2>2, OnwardTurn
<1>2. ~ UndoDraft(w)
  BY HandSteps DEF Reach, Sound, UndoDraft
<1> QED
  BY <1>1, <1>2, DraftTurn, SessionTurn DEF Checkout

(* The first step of a request.                                             *)
LEMMA StartTurn ==
    ASSUME TypeOK, Reach, NEW w \in Workers, Start(w), faults = 0, faults' = 0,
           ~ \E s \in Shoppers : ReleaseLocks(w, s)
    PROVE  Turn(w) /\ Sound(w)'
<1>1. ASSUME NEW s \in Shoppers, NEW q \in Quantities, InitiateCheckout(w, s, q)
      PROVE  Turn(w) /\ Sound(w)'
  <2>1. At(w, "idle") /\ ~ Hand(w) /\ UNCHANGED <<draft, session>>
    BY <1>1 DEF InitiateCheckout, Hand, AtWork, Buying, At
  <2>2. PICK c \in Checkouts :
          /\ Fresh(c)
          /\ owner' = [owner EXCEPT ![c] = s]
          /\ Become(w, [Idle EXCEPT !.step = IF q = 0 THEN "batch" ELSE "look", !.c = c, !.qty = q])
    BY <1>1 DEF InitiateCheckout
  <2> DEFINE r == [Idle EXCEPT !.step = IF q = 0 THEN "batch" ELSE "look", !.c = c, !.qty = q]
  <2>3. r \in Request /\ r.step \in {"batch", "look"} /\ r.c = c
    BY IdleType DEF Idle, Request, Steps, Buying
  <2>4. Become(w, r)
    BY <2>2
  <2> HIDE DEF r
  <2>5. /\ \A v \in Workers \ {w} : req'[v] = req[v]
        /\ Its(w)' = c /\ \A t : At(w, t)' <=> r.step = t
    BY <2>3, <2>4, BecomeIs
  <2>6. ~ Started(c) /\ Started(c)' /\ \A b \in Checkouts \ {c} : owner'[b] = owner[b]
    BY <2>2, NamesAssumption DEF Fresh, Started, TypeOK
  <2>7. draft[c] = NoDraft
    BY <2>6 DEF Reach, Unbegun
  <2>8. ~ Open(c)'
    BY <2>1, <2>7 DEF Open, NoDraft
  <2>9. Turn(w)
    BY <2>1, <2>5, <2>6 DEF Turn, Open
  <2>10. Sound(w)'
    BY <2>3, <2>5, <2>6, <2>8 DEF Sound
  <2> QED
    BY <2>9, <2>10
<1>2. ASSUME NEW c \in Checkouts, ReleaseCheckout(w, c) \/ HandleOrderPaid(w, c)
      PROVE  Turn(w) /\ Sound(w)'
  <2>1. At(w, "idle") /\ ~ Hand(w) /\ UNCHANGED <<owner, draft, session>>
    BY <1>2 DEF ReleaseCheckout, HandleOrderPaid, Hand, AtWork, Buying, At
  <2>2. PICK s \in {"cancel", "unlock", "forget"} :
          /\ Become(w, [Idle EXCEPT !.step = s, !.c = c])
          /\ Over(c) /\ (s # "cancel" => Done(c))
    <3>1. CASE ReleaseCheckout(w, c)
      <4>1. Over(c) /\ owner[c] # Admin
        BY <3>1, NamesAssumption DEF ReleaseCheckout, Over, Started
      <4>2. session[c] = "none" => Done(c)
        BY <4>1 DEF Reach, Reachable, Over, Done
      <4> QED
        BY <3>1, <4>1, <4>2 DEF ReleaseCheckout
    <3>2. CASE HandleOrderPaid(w, c)
      <4>1. Done(c)
        BY <3>2 DEF HandleOrderPaid, Paid, Reach, Past, Done, Open
      <4> QED
        BY <3>2, <4>1 DEF HandleOrderPaid, Done
    <3> QED
      BY <1>2, <3>1, <3>2
  <2> DEFINE r == [Idle EXCEPT !.step = s, !.c = c]
  <2>3. r \in Request /\ r.step = s /\ r.c = c
    BY IdleType DEF Idle, Request, Steps
  <2>4. Become(w, r)
    BY <2>2
  <2> HIDE DEF r
  <2>5. s \notin AtWork
    BY DEF AtWork, Buying
  <2>6. /\ \A v \in Workers \ {w} : req'[v] = req[v]
        /\ Its(w)' = c /\ ~ Hand(w)' /\ \A t : At(w, t)' <=> s = t
    BY <2>3, <2>4, <2>5, BecomeIs
  <2>7. Turn(w)
    BY <2>1, <2>6, QuietTurn
  <2>8. Sound(w)'
    BY <2>2, <2>6, <2>7, TurnOver DEF Sound
  <2> QED
    BY <2>7, <2>8
<1>3. CASE ListExpiredCheckoutSessions(w)
  <2>1. At(w, "idle") /\ ~ Hand(w) /\ UNCHANGED <<owner, draft, session>>
    BY <1>3 DEF ListExpiredCheckoutSessions, Hand, AtWork, Buying, At
  <2> DEFINE old == {c \in Checkouts : session[c] = "expired"}
             r == [Idle EXCEPT !.step = "purge", !.listed = old, !.todo = old]
  <2>2. r \in Request /\ r.step = "purge" /\ r.listed = old /\ r.todo = old
    BY IdleType DEF Idle, Request, Steps
  <2>3. Become(w, r)
    BY <1>3 DEF ListExpiredCheckoutSessions
  <2>4. \A c \in old : c \in Checkouts /\ Over(c)
    BY DEF Reach, Past
  <2> HIDE DEF old, r
  <2>5. "purge" \notin AtWork
    BY DEF AtWork, Buying
  <2>6. /\ \A v \in Workers \ {w} : req'[v] = req[v]
        /\ req'[w] = r /\ ~ Hand(w)' /\ \A t : At(w, t)' <=> "purge" = t
    BY <2>2, <2>3, <2>5, BecomeIs
  <2>7. Turn(w)
    BY <2>1, <2>6, QuietTurn
  <2>8. Sound(w)'
    BY <2>2, <2>4, <2>6, <2>7, TurnOver DEF Sound
  <2> QED
    BY <2>7, <2>8
<1> QED
  BY <1>1, <1>2, <1>3 DEF Start

(* A step that leaves all of this alone.                                    *)
LEMMA StillReach ==
    ASSUME Reach, UNCHANGED <<owner, draft, session, req>>
    PROVE  Reach'
<1>1. Unbegun' /\ OneEach' /\ Past' /\ Reachable'
  BY DEF Reach, Unbegun, OneEach, Past, Reachable, Started, Hand, Its, Over, InHand, Open
<1>2. ASSUME NEW w \in Workers
      PROVE  Sound(w)'
  BY DEF Reach, Sound, Hand, Its, At, Started, Over, Done, InHand, Open
<1> QED
  BY <1>1, <1>2 DEF Reach

(* What admins, customers and time do: only an admin's own draft appears,   *)
(* and only the draft of a checkout that is over is paid.                   *)
LEMMA OutsideReach ==
    ASSUME TypeOK, Reach, Manual \/ \E c \in Checkouts : Pay(c) \/ Expire(c)
    PROVE  Reach'
<1>1. /\ UNCHANGED req
      /\ \A c \in Checkouts :
            /\ Started(c) => owner'[c] = owner[c]
            /\ Open(c)' => Open(c) \/ (~ Started(c) /\ owner'[c] = Admin)
            /\ draft'[c].state = "paid" => draft[c].state = "paid" \/ Over(c)
            /\ ~ Started(c)' => ~ Started(c) /\ draft'[c] = draft[c]
            /\ session'[c] = "none" <=> session[c] = "none"
  <2>1. ASSUME NEW q \in Quantities, CreateManualOrder(q)
        PROVE  <1>1!2
    <3>1. PICK c \in Checkouts :
            /\ Fresh(c)
            /\ owner' = [owner EXCEPT ![c] = Admin]
            /\ draft' = [draft EXCEPT ![c] = Made(q)]
      BY <2>1 DEF CreateManualOrder
    <3>2. /\ owner'[c] = Admin /\ draft'[c].state = "open" /\ ~ Started(c)
          /\ \A b \in Checkouts \ {c} : owner'[b] = owner[b] /\ draft'[b] = draft[b]
      BY <3>1 DEF Fresh, Made, TypeOK
    <3> QED
      BY <2>1, <3>2, NamesAssumption DEF CreateManualOrder, Open, Started
  <2>2. ASSUME NEW c \in Checkouts, NEW q \in Quantities, UpdateDraftOrderItems(c, q)
        PROVE  <1>1!2
    <3>1. draft'[c].state = "open" /\ draft[c].state = "open"
      BY <2>2 DEF UpdateDraftOrderItems, Editable, GetDraftOrder, Changed, TypeOK, Draft
    <3>2. (\A b \in Checkouts \ {c} : draft'[b] = draft[b]) /\ UNCHANGED <<owner, session>>
      BY <2>2 DEF UpdateDraftOrderItems, Changed, TypeOK
    <3>3. Started(c)
      BY <3>1 DEF Reach, Unbegun, NoDraft
    <3> QED
      BY <3>1, <3>2, <3>3 DEF Open, Started
  <2>3. ASSUME NEW c \in Checkouts, Pay(c)
        PROVE  <1>1!2
    <3>1. draft'[c].state = "paid" /\ draft[c].state = "open" /\ ~ InHand(c)
      BY <2>3 DEF Pay, Open, TypeOK, Draft
    <3>2. (\A b \in Checkouts \ {c} : draft'[b] = draft[b]) /\ UNCHANGED <<owner, session>>
      BY <2>3 DEF Pay, TypeOK
    <3>3. Started(c)
      BY <3>1 DEF Reach, Unbegun, NoDraft
    <3> QED
      BY <3>1, <3>2, <3>3 DEF Open, Started, Over
  <2>4. ASSUME NEW c \in Checkouts, Expire(c)
        PROVE  <1>1!2
    <3>1. UNCHANGED <<owner, draft>> /\ session' = [session EXCEPT ![c] = IF @ = "live" THEN "expired" ELSE @]
      BY <2>4 DEF Expire
    <3>2. \A b \in Checkouts : session'[b] = "none" <=> session[b] = "none"
      BY <3>1 DEF TypeOK
    <3> QED
      BY <3>1, <3>2 DEF Open, Started
  <2> QED
    BY <2>1, <2>2, <2>3, <2>4 DEF Manual, CreateManualOrder, UpdateDraftOrderItems, Pay, Expire
<1>2. \A w \in Workers : (Hand(w)' <=> Hand(w)) /\ Its(w)' = Its(w) /\ \A s : At(w, s)' <=> At(w, s)
  BY <1>1 DEF Hand, Its, At
<1>3. ASSUME NEW c \in Checkouts
      PROVE  /\ InHand(c)' <=> InHand(c)
             /\ Started(c) => Started(c)'
             /\ Over(c) => Over(c)'
             /\ Started(c) /\ ~ Open(c) => ~ Open(c)'
             /\ Done(c) => Done(c)'
  <2>1. InHand(c)' <=> InHand(c)
    BY <1>2, InHandIs, InHandNext
  <2>2. Started(c) => Started(c)'
    BY <1>1 DEF Started
  <2>3. Started(c) /\ ~ Open(c) => ~ Open(c)'
    BY <1>1
  <2> QED
    BY <2>1, <2>2, <2>3 DEF Over, Done
<1>4. Unbegun' /\ OneEach'
  BY <1>1, <1>2 DEF Reach, Unbegun, OneEach
<1>5. Past'
  <2> SUFFICES ASSUME NEW c \in Checkouts, session'[c] # "none" \/ draft'[c].state = "paid"
               PROVE  Over(c)'
    BY DEF Past
  <2>1. session[c] # "none" \/ draft[c].state = "paid" \/ Over(c)
    BY <1>1
  <2>2. Over(c)
    BY <2>1 DEF Reach, Past
  <2> QED
    BY <1>3, <2>2
<1>6. Reachable'
  <2> SUFFICES ASSUME NEW c \in Checkouts, Open(c)', owner'[c] # Admin
               PROVE  session'[c] # "none" \/ InHand(c)'
    BY DEF Reachable
  <2>1. Open(c)
    BY <1>1
  <2>2. Started(c)
    BY <2>1 DEF Reach, Unbegun, Open, NoDraft
  <2>3. owner[c] # Admin
    BY <1>1, <2>2
  <2>4. session[c] # "none" \/ InHand(c)
    BY <2>1, <2>3 DEF Reach, Reachable
  <2>5. session'[c] = "none" <=> session[c] = "none"
    BY <1>1
  <2>6. InHand(c)' <=> InHand(c)
    BY <1>3
  <2> QED
    BY <2>4, <2>5, <2>6
<1>7. ASSUME NEW w \in Workers
      PROVE  Sound(w)'
  <2>1. Sound(w) /\ req'[w] = req[w] /\ req[w].listed \subseteq Checkouts
    BY <1>1 DEF Reach, TypeOK, Request
  <2> PICK c : c = Its(w)
    OBVIOUS
  <2>2. c \in Checkouts =>
          /\ Started(c) => Started(c)'
          /\ Over(c) => Over(c)'
          /\ Started(c) /\ ~ Open(c) => ~ Open(c)'
          /\ Done(c) => Done(c)'
    BY <1>3
  <2>3. \A b \in req[w].listed : Over(b) => Started(b) /\ Over(b)' /\ (~ Open(b) => ~ Open(b)')
    <3> SUFFICES ASSUME NEW b \in req[w].listed, Over(b)
                 PROVE  Started(b) /\ Over(b)' /\ (~ Open(b) => ~ Open(b)')
      OBVIOUS
    <3>1. b \in Checkouts /\ Started(b)
      BY <2>1 DEF Over
    <3> QED
      BY <1>3, <3>1
  <2>4. Its(w)' = c
    BY <1>2
  <2>5. Hand(w) => /\ c \in Checkouts /\ Started(c)' /\ ~ At(w, "undoDraft")
                   /\ ~ At(w, "session") => ~ Open(c)'
    BY <2>1, <2>2 DEF Sound
  <2>6. /\ At(w, "cancel") => c \in Checkouts /\ Over(c)'
        /\ At(w, "unlock") \/ At(w, "forget") => c \in Checkouts /\ Done(c)'
    BY <2>1, <2>2 DEF Sound
  <2>7. At(w, "purge") => \A b \in req[w].listed : Over(b)' /\ (b \in req[w].todo \/ ~ Open(b)')
    BY <2>1, <2>3 DEF Sound
  <2> QED
    BY <1>2, <2>1, <2>4, <2>5, <2>6, <2>7 DEF Sound
<1> QED
  BY <1>4, <1>5, <1>6, <1>7 DEF Reach
----------------------------------------------------------------------------
LEMMA FaultsStay ==
    ASSUME TypeOK, TypeOK', [Next]_vars, faults' = 0
    PROVE  faults = 0 /\ ~ \E w \in Workers : Abandon(w)
<1>1. faults \in Nat
  <2>1. faults \in 0 .. MaxFaults
    BY DEF TypeOK
  <2> QED
    BY <2>1, CountsAssumption
<1> DEFINE Counted == faults' = faults \/ faults' = faults + 1
<1>4. Counted
  <2>1. ASSUME NEW w \in Workers, Checkout(w)
        PROVE  Counted
    BY <2>1 DEF Checkout, GetVariantsInventory, GetActiveLocksForVariant, CreateLocks, AcquireBatchLocks,
                CreateDraftOrder, UpsertCheckoutSession, UndoDraft, UndoLocks, DeleteDraftOrder
  <2>2. ASSUME NEW w \in Workers, Release(w) \/ CleanExpiredLocks(w)
        PROVE  Counted
    <3>1. CASE DeleteExpiredDraft(w)
      <4>1. PICK c \in req[w].todo : DeleteDraftOrder(c)
        BY <3>1 DEF DeleteExpiredDraft
      <4> QED
        BY <4>1 DEF DeleteDraftOrder
    <3>2. CASE CancelCheckoutDraft(w)
      BY <3>2 DEF CancelCheckoutDraft, DeleteDraftOrder
    <3> QED
      BY <2>2, <3>1, <3>2 DEF Release, CleanExpiredLocks, DeleteLocksByReference, DeleteCheckoutSession,
                              DeleteExpiredCheckoutSessions, DeleteExpiredLocks
  <2>3. ASSUME NEW w \in Workers, Start(w) \/ Abandon(w)
        PROVE  Counted
    BY <2>3 DEF Start, Abandon, ReleaseLocks, InitiateCheckout, ReleaseCheckout, HandleOrderPaid,
                ListExpiredCheckoutSessions
  <2>4. CASE Manual \/ \E c \in Checkouts : Pay(c) \/ Expire(c)
    BY <2>4 DEF Manual, CreateManualOrder, UpdateDraftOrderItems, Pay, Expire
  <2>5. CASE UNCHANGED vars
    BY <2>5 DEF vars
  <2> HIDE DEF Counted
  <2> QED
    BY <2>1, <2>2, <2>3, <2>4, <2>5 DEF Next, Serve, Work
<1>2. faults = 0
  BY <1>1, <1>4
<1>3. ASSUME NEW w \in Workers, Abandon(w)
      PROVE  FALSE
  BY <1>1, <1>2, <1>3 DEF Abandon
<1> QED
  BY <1>2, <1>3

LEMMA ReachStep == RInv /\ [Next]_vars => RInv'
<1> SUFFICES ASSUME RInv, [Next]_vars
             PROVE  RInv'
  OBVIOUS
<1>1. TypeOK /\ TypeOK'
  BY TypeStep DEF RInv
<1> SUFFICES ASSUME faults' = 0
             PROVE  Reach'
  BY <1>1 DEF RInv
<1>2. faults = 0 /\ ~ \E w \in Workers : Abandon(w)
  BY <1>1, FaultsStay
<1>3. Reach
  BY <1>2 DEF RInv
<1>4. ASSUME NEW w \in Workers, Work(w)
      PROVE  Reach'
  <2>1. Turn(w) /\ Sound(w)'
    BY <1>1, <1>2, <1>3, <1>4, CheckoutTurn, ReleaseTurn, CleanTurn DEF Work
  <2> QED
    BY <1>1, <1>3, <2>1, TurnReach
<1>5. ASSUME NEW w \in Workers, NEW s \in Shoppers, ReleaseLocks(w, s)
      PROVE  Reach'
  BY <1>3, <1>5, StillReach DEF ReleaseLocks
<1>6. ASSUME NEW w \in Workers, Start(w), ~ \E s \in Shoppers : ReleaseLocks(w, s)
      PROVE  Reach'
  <2>1. Turn(w) /\ Sound(w)'
    BY <1>1, <1>2, <1>3, <1>6, StartTurn
  <2> QED
    BY <1>1, <1>3, <2>1, TurnReach
<1>7. CASE Manual \/ \E c \in Checkouts : Pay(c) \/ Expire(c)
  BY <1>1, <1>3, <1>7, OutsideReach
<1>8. CASE UNCHANGED vars
  BY <1>3, <1>8, StillReach DEF vars
<1> QED
  BY <1>2, <1>4, <1>5, <1>6, <1>7, <1>8 DEF Next, Serve

LEMMA ReachInit == Init => RInv
<1> SUFFICES ASSUME Init
             PROVE  RInv
  OBVIOUS
<1>1. TypeOK
  BY InitType
<1>2. \A w \in Workers : req[w].step = "idle" /\ ~ Hand(w)
  BY DEF Init, Idle, Hand, AtWork, Buying
<1>3. \A w \in Workers : Sound(w)
  BY <1>2 DEF Sound, At
<1>4. Unbegun /\ OneEach /\ Past /\ Reachable
  BY <1>2 DEF Init, Unbegun, OneEach, Past, Reachable, NoDraft, Open
<1> QED
  BY <1>1, <1>3, <1>4 DEF RInv, Reach

(* CleanExpiredLocks finds drafts by their sessions: for any number of      *)
(* requests, webhooks and jobs at once, while no call fails, every draft a  *)
(* shopper can still pay has its session or is in the hands of its request. *)
THEOREM ReachableCorrect == Spec => []DraftReachable
<1>1. Init => RInv
  BY ReachInit
<1>2. RInv /\ [Next]_vars => RInv'
  BY ReachStep
<1>3. RInv => DraftReachable
  BY DEF RInv, Reach, Reachable, DraftReachable
<1> QED
  BY <1>1, <1>2, <1>3, PTL DEF Spec

----------------------------------------------------------------------------
(* Packing.  The rows of a group are those of the plan it was last priced   *)
(* with, and its weight is the weight of these.                             *)
Box == [boxes: Nat, nested: BOOLEAN]
PricedRow == [boxes: Nat, weight: Nat, priced: BOOLEAN, sent: BOOLEAN, paid: BOOLEAN]

Allocates == alloc \in [Batches -> [Lines -> Nat]] /\ \A l \in Lines : Allocated(l) <= Qty[l]
PackInv   == Allocates /\ shipment \in [Groups -> PricedRow] /\ (\E P : packing \in [Groups -> P]) /\ PackedWhole

(* No row is left out of the boxes.                                         *)
AllBoxed(p) == \A l \in DOMAIN p : p[l].nested \/ p[l].boxes > 0

LEMMA BatchesFinite == IsFiniteSet(Batches) /\ IsFiniteSet(Goods)
<1>1. IsFiniteSet(Batches)
  BY FS_Interval, BatchesAssumption DEF Batches
<1> QED
  BY <1>1, LinesAssumption

(* What a group packs is some of the goods, a natural number of each.       *)
LEMMA UnitsType ==
  ASSUME Allocates, NEW g \in Groups
  PROVE  /\ Packed(g) \subseteq Goods /\ IsFiniteSet(Packed(g))
         /\ \A l \in Packed(g) : UnitsIn(g, l) \in Nat /\ Weight[l] \in Nat /\ Weights(g)[l] = Weight[l] * UnitsIn(g, l)
                                 /\ Weights(g)[l] \in Nat
<1>1. Packed(g) \subseteq Goods
  BY DEF Packed, GroupLines, Goods
<1>2. IsFiniteSet(Packed(g))
  BY <1>1, BatchesFinite, FS_Subset
<1>3. \A l \in Lines : Slice(g, l) \in Nat
  <2> SUFFICES ASSUME NEW l \in Lines PROVE Slice(g, l) \in Nat
    OBVIOUS
  <2>1. Qty[l] \in Nat
    BY UnitsAssumption DEF Goods
  <2>2. \A b \in Batches : [c \in Batches |-> alloc[c][l]][b] = alloc[b][l] /\ alloc[b][l] \in Nat
    BY DEF Allocates
  <2>3. Allocated(l) \in Nat
    BY <2>2, BatchesFinite, TotalType DEF Allocated
  <2>4. g # Unbatched => g \in Batches
    BY BatchesAssumption DEF Groups, Batches, Unbatched
  <2> QED
    BY <2>1, <2>2, <2>3, <2>4 DEF Slice, Allocates
<1>4. \A l \in Packed(g) : UnitsIn(g, l) \in Nat
  BY <1>1, <1>3, UnitsAssumption DEF UnitsIn, Goods
<1>5. \A l \in Packed(g) : Weight[l] \in Nat
  BY <1>1, UnitsAssumption
<1>6. \A l \in Packed(g) : Weights(g)[l] = Weight[l] * UnitsIn(g, l)
  BY DEF Weights
<1>7. \A w, u \in Nat : w * u \in Nat
  OBVIOUS
<1> QED
  BY <1>1, <1>2, <1>4, <1>5, <1>6, <1>7

(* CalculatePreorderShipping packs every line, whatever the plan left out.  *)
LEMMA PreparedType ==
  ASSUME Allocates, NEW g \in Groups, NEW plan \in Plans(g)
  PROVE  Prepared(g, plan) \in [Packed(g) -> Box]
<1> DEFINE m == MergeDefaultPacking(g, plan)
<1>1. \A l \in DOMAIN plan : plan[l] \in Box
  BY BoundsAssumption DEF Plans, Box
<1>2. \A l \in Packed(g) : BuildDefaultPacking(g, l) \in Box
  BY UnitsType DEF BuildDefaultPacking, Box
<1>3. m \in [Packed(g) -> Box]
  BY <1>1, <1>2 DEF MergeDefaultPacking
<1> HIDE DEF m
<1>4. \A l \in Packed(g) : [m[l] EXCEPT !.boxes = Least(@, UnitsIn(g, l))] \in Box
  <2> SUFFICES ASSUME NEW l \in Packed(g) PROVE [m[l] EXCEPT !.boxes = Least(@, UnitsIn(g, l))] \in Box
    OBVIOUS
  <2>1. m[l] \in Box /\ UnitsIn(g, l) \in Nat
    BY <1>3, UnitsType
  <2>2. Least(m[l].boxes, UnitsIn(g, l)) \in Nat
    BY <2>1 DEF Least, Box
  <2> QED
    BY <2>1, <2>2 DEF Box
<1>5. EnsurePackingQuantities(g, m) \in [Packed(g) -> Box]
  BY <1>3, <1>4 DEF EnsurePackingQuantities
<1> QED
  BY <1>5 DEF Prepared, m

(* The weight of the boxes that BuildPackableUnits makes.                   *)
LEMMA BoxesWeigh ==
  ASSUME Allocates, NEW g \in Groups, NEW p \in [Packed(g) -> Box], ValidPacking(g, p), TotalBoxes(p) > 0
  PROVE  /\ TotalBoxes(p) \in Nat
         /\ TotalWeight(g, p) = Total(Weights(g), Boxed(p)) + Nested(g, p)
         /\ TotalWeight(g, p) \in Nat
<1> DEFINE B == Boxed(p)
           t == TotalBoxes(p)
           n == Nested(g, p)
           box == [l \in B |-> p[l].boxes]
           goods == [l \in B |-> t * Weights(g)[l]]
           share == [l \in B |-> n * box[l]]
           all == [l \in B |-> BoxWeight(g, p, l) * p[l].boxes]
           w == Total(Weights(g), B)
<1>1. /\ B \subseteq Packed(g) /\ IsFiniteSet(B) /\ {l \in DOMAIN p : p[l].nested} \subseteq Packed(g)
      /\ IsFiniteSet({l \in DOMAIN p : p[l].nested})
  <2>1. B \subseteq Packed(g) /\ {l \in DOMAIN p : p[l].nested} \subseteq Packed(g)
    BY DEF Boxed
  <2> QED
    BY <2>1, UnitsType, FS_Subset
<1>2. \A l \in B : /\ p[l].boxes \in Nat \ {0} /\ UnitsIn(g, l) \in Nat /\ Weight[l] \in Nat
                   /\ UnitsIn(g, l) % p[l].boxes = 0 /\ Weights(g)[l] = Weight[l] * UnitsIn(g, l)
                   /\ Weights(g)[l] \in Nat /\ box[l] = p[l].boxes
  BY <1>1, UnitsType DEF Boxed, Box, ValidPacking
<1>3. t = Total(box, B) /\ t \in Nat
  BY <1>1, <1>2, TotalType DEF TotalBoxes
<1>4. n \in Nat /\ w \in Nat
  <2>1. w \in Nat
    BY <1>1, <1>2, TotalType
  <2>2. \A l \in {k \in DOMAIN p : p[k].nested} : Weights(g)[l] \in Nat
    BY <1>1, UnitsType
  <2>3. n \in Nat
    BY <1>1, <2>2, TotalType DEF Nested
  <2> QED
    BY <2>1, <2>3
<1> HIDE DEF t, n
<1>5. \A l \in B : /\ goods[l] = t * Weights(g)[l] /\ share[l] = n * box[l]
                   /\ goods[l] \in Nat /\ share[l] \in Nat
                   /\ all[l] = goods[l] + share[l]
  <2> SUFFICES ASSUME NEW l \in B
               PROVE  /\ goods[l] = t * Weights(g)[l] /\ share[l] = n * box[l]
                      /\ goods[l] \in Nat /\ share[l] \in Nat
                      /\ all[l] = goods[l] + share[l]
    OBVIOUS
  <2> DEFINE u == UnitsIn(g, l)
             b == p[l].boxes
             d == UnitsPerBox(g, p, l)
  <2>1. u \in Nat /\ b \in Nat \ {0} /\ u % b = 0 /\ Weight[l] \in Nat
    BY <1>2
  <2>2. d \in Nat /\ d * b = u
    BY <2>1 DEF UnitsPerBox
  <2>3. BoxWeight(g, p, l) = Weight[l] * d * t + n
    BY DEF BoxWeight, t, n
  <2>4. all[l] = (Weight[l] * d * t + n) * b
    BY <2>3
  <2>5. goods[l] = t * (Weight[l] * u) /\ share[l] = n * b
    BY <1>2
  <2> HIDE DEF u, b, d
  <2>6. (Weight[l] * d * t + n) * b = t * (Weight[l] * (d * b)) + n * b
    BY <1>3, <1>4, <2>1, <2>2
  <2>7. goods[l] \in Nat /\ share[l] \in Nat
    BY <1>3, <1>4, <2>1, <2>5
  <2> QED
    BY <2>2, <2>4, <2>5, <2>6, <2>7, <1>2
<1> HIDE DEF goods, share, all, box, B, w
<1>6. Total(goods, B) = t * w
  BY <1>1, <1>2, <1>3, <1>5, TotalScale DEF w
<1>7. Total(share, B) = n * t
  <2>1. Total(share, B) = n * Total(box, B)
    BY <1>1, <1>2, <1>4, <1>5, TotalScale
  <2> QED
    BY <1>3, <2>1
<1>8. Total(all, B) = Total(goods, B) + Total(share, B)
  BY <1>1, <1>5, TotalPlus
<1>9. Total(all, B) = (w + n) * t
  BY <1>3, <1>4, <1>6, <1>7, <1>8
<1>10. TotalWeight(g, p) = Total(all, B) \div t
  BY DEF TotalWeight, all, B, t
<1>11. t > 0
  BY DEF t
<1>12. ((w + n) * t) \div t = w + n
  BY <1>3, <1>4, <1>11
<1>13. TotalWeight(g, p) = w + n
  BY <1>9, <1>10, <1>12
<1> QED
  BY <1>3, <1>4, <1>13 DEF w, B, n, t

(* If no row is left out, they weigh what the group packs.                  *)
LEMMA PlanWeighs ==
  ASSUME Allocates, NEW g \in Groups, NEW p \in [Packed(g) -> Box], ValidPacking(g, p), TotalBoxes(p) > 0, AllBoxed(p)
  PROVE  TotalWeight(g, p) = Total(Weights(g), Packed(g))
<1> DEFINE N == {l \in DOMAIN p : p[l].nested}
<1>1. Boxed(p) \cup N = Packed(g) /\ Boxed(p) \cap N = {}
  BY DEF Boxed, AllBoxed
<1>2. IsFiniteSet(Boxed(p)) /\ IsFiniteSet(N)
  BY <1>1, UnitsType, FS_Subset
<1>3. \A l \in Boxed(p) \cup N : Weights(g)[l] \in Nat
  BY <1>1, UnitsType
<1>4. Total(Weights(g), Boxed(p) \cup N) = Total(Weights(g), Boxed(p)) + Total(Weights(g), N)
  BY <1>1, <1>2, <1>3, TotalUnion
<1> QED
  BY <1>1, <1>4, BoxesWeigh DEF Nested

LEMMA PackStart == GroupsInit => PackInv
<1> SUFFICES ASSUME GroupsInit PROVE PackInv
  OBVIOUS
<1>1. UNION {0 .. Qty[l] : l \in Lines} \subseteq Nat
  BY UnitsAssumption DEF Goods
<1>2. Allocates
  BY <1>1 DEF GroupsInit, Loads, Allocates
<1>3. NoRow \in PricedRow
  BY DEF NoRow, PricedRow
<1>4. shipment \in [Groups -> PricedRow]
  BY <1>3 DEF GroupsInit
<1>5. packing \in [Groups -> {<<>>}] /\ \A g \in Groups : DOMAIN packing[g] = {}
  BY DEF GroupsInit
<1> QED
  BY <1>2, <1>4, <1>5 DEF PackInv, PackedWhole

LEMMA PackStep == PackInv /\ [GroupsNext]_groupVars => PackInv'
<1> SUFFICES ASSUME PackInv, [GroupsNext]_groupVars PROVE PackInv'
  OBVIOUS
<1>1. alloc' = alloc
  BY DEF GroupsNext, groupVars, CalculatePreorderShipping, SetFinalPrice, RequestSecondPayment, MarkInvoicePaid,
         CreateFulfillment, FulfilledInShopify, Ship, MarkFulfillmentDelivered
<1>2. \A g : /\ Packed(g)' = Packed(g) /\ \A l : UnitsIn(g, l)' = UnitsIn(g, l)
             /\ Weights(g)' = Weights(g)
  BY <1>1 DEF Packed, GroupLines, Slice, Allocated, IncludesShipReady, UnitsIn, Weights, Total
<1>3. Allocates'
  BY <1>1 DEF PackInv, Allocates, Allocated, Total
<1>4. ASSUME NEW g \in Groups, NEW plan \in Plans(g), CalculatePreorderShipping(g, plan) PROVE PackInv'
  <2> DEFINE p == Prepared(g, plan)
  <2>1. p \in [Packed(g) -> Box]
    BY PreparedType DEF PackInv
  <2>2. /\ ValidPacking(g, p) /\ TotalBoxes(p) > 0 /\ packing' = [packing EXCEPT ![g] = p]
        /\ shipment' = [shipment EXCEPT ![g].boxes = TotalBoxes(p), ![g].weight = TotalWeight(g, p)]
    BY <1>4 DEF CalculatePreorderShipping, Packable
  <2> HIDE DEF p
  <2>3. TotalBoxes(p) \in Nat /\ TotalWeight(g, p) \in Nat
    BY <2>1, <2>2, BoxesWeigh DEF PackInv
  <2>4. /\ shipment' \in [Groups -> PricedRow] /\ shipment'[g].weight = TotalWeight(g, p)
        /\ \A h \in Groups \ {g} : shipment'[h] = shipment[h]
    BY <2>2, <2>3 DEF PackInv, PricedRow
  <2>5. PICK P : packing \in [Groups -> P]
    BY DEF PackInv
  <2>6. packing' \in [Groups -> P \cup {p}] /\ packing'[g] = p /\ \A h \in Groups \ {g} : packing'[h] = packing[h]
    BY <2>2, <2>5
  <2>7. DOMAIN p = Packed(g) /\ (AllBoxed(p) => TotalWeight(g, p) = Total(Weights(g), Packed(g)))
    BY <2>1, <2>2, PlanWeighs DEF PackInv
  <2>8. PackedWhole'
    BY <1>2, <2>4, <2>6, <2>7 DEF PackInv, PackedWhole, AllBoxed, Total
  <2> QED
    BY <1>3, <2>4, <2>6, <2>8 DEF PackInv
<1>5. ASSUME NEW g \in Groups, SetFinalPrice(g) \/ RequestSecondPayment(g) \/ MarkInvoicePaid(g) PROVE PackInv'
  <2>1. UNCHANGED packing
    BY <1>5 DEF SetFinalPrice, RequestSecondPayment, MarkInvoicePaid
  <2>2. /\ shipment' \in [Groups -> PricedRow]
        /\ \A h \in Groups : shipment'[h].weight = shipment[h].weight
    <3> DEFINE row == shipment[g]
    <3>1. row \in PricedRow /\ shipment \in [Groups -> PricedRow]
      BY DEF PackInv
    <3>2. ASSUME NEW r \in PricedRow, r.weight = row.weight, shipment' = [shipment EXCEPT ![g] = r]
          PROVE  shipment' \in [Groups -> PricedRow] /\ \A h \in Groups : shipment'[h].weight = shipment[h].weight
      BY <3>1, <3>2
    <3>3. CASE SetFinalPrice(g)
      <4>1. [row EXCEPT !.priced = TRUE] \in PricedRow /\ [row EXCEPT !.priced = TRUE].weight = row.weight
        BY <3>1 DEF PricedRow
      <4> QED
        BY <3>2, <3>3, <4>1 DEF SetFinalPrice
    <3>4. CASE RequestSecondPayment(g)
      <4>1. [row EXCEPT !.sent = TRUE] \in PricedRow /\ [row EXCEPT !.sent = TRUE].weight = row.weight
        BY <3>1 DEF PricedRow
      <4> QED
        BY <3>2, <3>4, <4>1 DEF RequestSecondPayment
    <3>5. CASE MarkInvoicePaid(g)
      <4>1. [row EXCEPT !.paid = TRUE] \in PricedRow /\ [row EXCEPT !.paid = TRUE].weight = row.weight
        BY <3>1 DEF PricedRow
      <4> QED
        BY <3>2, <3>5, <4>1 DEF MarkInvoicePaid
    <3> QED
      BY <1>5, <3>3, <3>4, <3>5
  <2>3. PackedWhole'
    BY <1>2, <2>1, <2>2 DEF PackInv, PackedWhole, Total
  <2> QED
    BY <1>3, <2>1, <2>2, <2>3 DEF PackInv
<1>6. ASSUME UNCHANGED <<shipment, packing>> PROVE PackInv'
  <2>1. PackedWhole'
    BY <1>2, <1>6 DEF PackInv, PackedWhole, Total
  <2> QED
    BY <1>3, <1>6, <2>1 DEF PackInv
<1> QED
  BY <1>4, <1>5, <1>6 DEF GroupsNext, groupVars, CreateFulfillment, FulfilledInShopify, Ship, MarkFulfillmentDelivered

(* However a group is packed, in whatever boxes, nested or stacked, and with*)
(* whatever the plan left out, all its goods have a row and, unless one was *)
(* given no box, the boxes that are sent for the quote weigh what its units *)
(* weigh (preorder_packing.go, BuildPackableUnits).                         *)
THEOREM PackedCorrect == GroupsSpec => []PackedWhole
<1>1. PackInv => PackedWhole
  BY DEF PackInv
<1> QED
  BY <1>1, PackStart, PackStep, PTL DEF GroupsSpec
----------------------------------------------------------------------------
(* The page of the groups.  A card is of lines of the group of its batch,   *)
(* or of lines that one group holds, and takes no more than is left.        *)
Card == [tag: Batches \cup {NoGroup}, units: [Lines -> Nat], delivered: BOOLEAN,
         from: [Lines -> Groups \cup {NoGroup}]]

Belongs(c) ==
    /\ \A l \in Lines : c.from[l] = NoGroup <=> c.units[l] = 0
    /\ c.tag # NoGroup => c.tag \in Present /\ \A l \in Lines : c.units[l] > 0 => c.from[l] = c.tag
    /\ c.tag = NoGroup => \A l \in Lines : c.units[l] > 0 => Sole(l)

CardInv ==
    /\ card \in Seq(Card)
    /\ \A n \in 1 .. Len(card) : Belongs(card[n])
    /\ \A g \in Groups, l \in Lines : Shipped(g, l) <= Slice(g, l)

PayInv ==
    \A g \in Groups : /\ shipment[g].paid => shipment[g].sent
                      /\ shipment[g].sent => shipment[g].priced
                      /\ shipment[g].priced => g \in Present

PageInv == /\ Allocates /\ shipment \in [Groups -> PricedRow] /\ CardInv /\ PayInv

(* What the first n cards took from a group, and what it holds then.        *)
ShippedBy(n, g, l) == Total(Units(l), {m \in 1 .. n : card[m].from[l] = g})
Held(n, l) == [g \in Groups |-> Slice(g, l) - ShippedBy(n, g, l)]

LEMMA SliceType == ASSUME Allocates, NEW g \in Groups, NEW l \in Lines PROVE Slice(g, l) \in Nat
<1>1. Qty[l] \in Nat
  BY UnitsAssumption DEF Goods
<1>2. \A b \in Batches : [c \in Batches |-> alloc[c][l]][b] = alloc[b][l] /\ alloc[b][l] \in Nat
  BY DEF Allocates
<1>3. Allocated(l) \in Nat
  BY <1>2, BatchesFinite, TotalType DEF Allocated
<1>4. g # Unbatched => g \in Batches
  BY BatchesAssumption DEF Groups, Batches, Unbatched
<1> QED
  BY <1>1, <1>2, <1>3, <1>4 DEF Slice, Allocates

LEMMA CardAt ==
    ASSUME CardInv
    PROVE  /\ Len(card) \in Nat /\ DOMAIN card = 1 .. Len(card)
           /\ \A n \in 1 .. Len(card) : /\ card[n] \in Card /\ Belongs(card[n])
                                        /\ \A l \in Lines : /\ Units(l)[n] = card[n].units[l]
                                                            /\ card[n].units[l] \in Nat
<1>1. card \in Seq(Card)
  BY DEF CardInv
<1>2. Len(card) \in Nat /\ DOMAIN card = 1 .. Len(card) /\ \A n \in 1 .. Len(card) : card[n] \in Card
  BY <1>1
<1>3. \A n \in 1 .. Len(card) : Belongs(card[n])
  BY DEF CardInv
<1>4. \A n \in 1 .. Len(card), l \in Lines : Units(l)[n] = card[n].units[l]
  BY <1>2 DEF Units
<1>5. \A c \in Card, l \in Lines : c.units[l] \in Nat
  BY DEF Card
<1> QED
  BY <1>2, <1>3, <1>4, <1>5

(* The cards up to one of them are finitely many.                           *)
LEMMA CardsFinite == ASSUME NEW n \in Nat, NEW S, S \subseteq 1 .. n PROVE IsFiniteSet(S)
<1>1. IsFiniteSet(1 .. n)
  BY FS_Interval
<1> QED
  BY <1>1, FS_Subset

LEMMA ShippedByType ==
    ASSUME CardInv, NEW n \in 0 .. Len(card), NEW l \in Lines, NEW g
    PROVE  ShippedBy(n, g, l) \in Nat /\ ShippedBy(n, g, l) <= Shipped(g, l)
<1> DEFINE P == {m \in 1 .. n : card[m].from[l] = g}
           S == {m \in DOMAIN card : card[m].from[l] = g}
<1>1. Len(card) \in Nat /\ DOMAIN card = 1 .. Len(card)
  BY CardAt
<1>2. P \subseteq S
  BY <1>1
<1>3. IsFiniteSet(S)
  <2>1. S \subseteq 1 .. Len(card)
    BY <1>1
  <2> HIDE DEF S
  <2> QED
    BY <1>1, <2>1, CardsFinite
<1>4. \A m \in S : Units(l)[m] \in Nat
  BY <1>1, CardAt
<1> HIDE DEF P, S
<1>5. Total(Units(l), P) \in Nat /\ Total(Units(l), P) <= Total(Units(l), S)
  BY <1>2, <1>3, <1>4, TotalPart
<1> QED
  BY <1>5 DEF ShippedBy, Shipped, P, S

LEMMA ShippedNext ==
    ASSUME CardInv, NEW n \in 1 .. Len(card), NEW l \in Lines, NEW g \in Groups
    PROVE  ShippedBy(n, g, l) =
              ShippedBy(n - 1, g, l) + (IF card[n].from[l] = g THEN card[n].units[l] ELSE 0)
<1> DEFINE P == {m \in 1 .. n - 1 : card[m].from[l] = g}
           Q == {m \in 1 .. n : card[m].from[l] = g}
<1>1. /\ Len(card) \in Nat /\ DOMAIN card = 1 .. Len(card) /\ n \in Nat /\ n - 1 \in 0 .. Len(card)
      /\ n \in 0 .. Len(card)
  BY CardAt
<1>2. CASE card[n].from[l] = g
  <2>1. n \in Q /\ Q \ {n} = P
    BY <1>1, <1>2
  <2>2. IsFiniteSet(Q)
    <3>1. Q \subseteq 1 .. n
      OBVIOUS
    <3> HIDE DEF Q
    <3> QED
      BY <1>1, <3>1, CardsFinite
  <2>3. \A m \in Q : Units(l)[m] \in Nat
    BY <1>1, CardAt
  <2>4. Total(Units(l), P) \in Nat
    BY <1>1, ShippedByType DEF ShippedBy
  <2> HIDE DEF P, Q
  <2>5. Total(Units(l), Q) = Units(l)[n] + Total(Units(l), Q \ {n})
    <3>1. n \in Q
      BY <2>1
    <3> QED
      BY ONLY <2>2, <2>3, <3>1, TotalSplit, ZenonT(60)
  <2>6. Units(l)[n] = card[n].units[l] /\ card[n].units[l] \in Nat
    BY <1>1, CardAt
  <2>7. ShippedBy(n, g, l) = Total(Units(l), Q) /\ ShippedBy(n - 1, g, l) = Total(Units(l), P)
    BY DEF ShippedBy, P, Q
  <2>8. Total(Units(l), Q \ {n}) = Total(Units(l), P)
    BY <2>1
  <2>9. (IF card[n].from[l] = g THEN card[n].units[l] ELSE 0) = card[n].units[l]
    BY <1>2
  <2> QED
    BY <2>4, <2>5, <2>6, <2>7, <2>8, <2>9
<1>3. CASE card[n].from[l] # g
  <2>1. P = Q
    BY <1>1, <1>3
  <2>2. Total(Units(l), P) \in Nat
    BY <1>1, ShippedByType DEF ShippedBy
  <2>3. ShippedBy(n, g, l) = Total(Units(l), Q) /\ ShippedBy(n - 1, g, l) = Total(Units(l), P)
    BY DEF ShippedBy
  <2>4. (IF card[n].from[l] = g THEN card[n].units[l] ELSE 0) = 0
    BY <1>3
  <2> HIDE DEF P, Q
  <2> QED
    BY <2>1, <2>2, <2>3, <2>4
<1> QED
  BY <1>2, <1>3

LEMMA HeldIs ==
    ASSUME PageInv, NEW n \in 0 .. Len(card), NEW l \in Lines
    PROVE  \A g \in Groups : /\ Held(n, l)[g] \in Nat /\ Held(n, l)[g] <= Slice(g, l)
                             /\ Slice(g, l) \in Nat
<1> SUFFICES ASSUME NEW g \in Groups
             PROVE  Held(n, l)[g] \in Nat /\ Held(n, l)[g] <= Slice(g, l) /\ Slice(g, l) \in Nat
  OBVIOUS
<1>1. Slice(g, l) \in Nat
  BY SliceType DEF PageInv
<1>2. ShippedBy(n, g, l) \in Nat /\ ShippedBy(n, g, l) <= Shipped(g, l)
  BY ShippedByType DEF PageInv
<1>3. Shipped(g, l) <= Slice(g, l) /\ Shipped(g, l) \in Nat
  <2>1. Shipped(g, l) = ShippedBy(Len(card), g, l) /\ Len(card) \in 0 .. Len(card)
    BY CardAt DEF PageInv, Shipped, ShippedBy
  <2> QED
    BY <2>1, ShippedByType DEF PageInv, CardInv
<1> QED
  BY <1>1, <1>2, <1>3 DEF Held

(* A line that one group holds.                                             *)
LEMMA SoleGroup ==
    ASSUME NEW l, Sole(l), NEW g \in Groups, NEW h \in Groups, Slice(g, l) > 0, Slice(h, l) > 0
    PROVE  g = h
<1>1. IsFiniteSet(Groups)
  BY BatchesAssumption, FS_Interval DEF Groups
<1>2. IsFiniteSet({k \in Groups : Slice(k, l) > 0})
  BY <1>1, FS_Subset
<1>3. Cardinality({k \in Groups : Slice(k, l) > 0}) = 1
  BY DEF Sole
<1>4. \E k : {m \in Groups : Slice(m, l) > 0} = {k}
  BY <1>2, <1>3, FS_Singleton
<1> QED
  BY <1>4

(* A card takes from each line what it shipped, and from its own group.     *)
LEMMA CardTakes ==
    ASSUME PageInv, NEW n \in 1 .. Len(card)
    PROVE  TakeCard([l \in Lines |-> Held(n - 1, l)], card[n]) = [l \in Lines |-> Held(n, l)]
<1> DEFINE c == card[n]
           caps == [l \in Lines |-> Held(n - 1, l)]
<1>1. /\ Len(card) \in Nat /\ n - 1 \in 0 .. Len(card) /\ n \in 0 .. Len(card)
      /\ c \in Card /\ Belongs(c) /\ CardInv
  BY CardAt DEF PageInv
<1>2. ASSUME NEW l \in Lines
      PROVE  (IF c.units[l] = 0 THEN caps[l]
              ELSE IF c.tag # NoGroup /\ c.tag \in Present THEN TakeTagged(caps[l], c.units[l], c.tag)
              ELSE TakeLine(caps[l], c.units[l])) = Held(n, l)
  <2> DEFINE cap == Held(n - 1, l)
             need == c.units[l]
             own == c.from[l]
  <2>1. /\ \A g \in Groups : cap[g] \in Nat /\ cap[g] <= Slice(g, l) /\ Slice(g, l) \in Nat
        /\ \A g \in Groups : Held(n, l)[g] \in Nat
    BY <1>1, HeldIs
  <2>2. need \in Nat
    BY <1>1 DEF Card
  <2>3. \A g \in Groups : Held(n, l)[g] = cap[g] - (IF own = g THEN need ELSE 0)
    <3> SUFFICES ASSUME NEW g \in Groups PROVE Held(n, l)[g] = cap[g] - (IF own = g THEN need ELSE 0)
      OBVIOUS
    <3>1. ShippedBy(n, g, l) = ShippedBy(n - 1, g, l) + (IF own = g THEN need ELSE 0)
      BY <1>1, ShippedNext
    <3>2. ShippedBy(n - 1, g, l) \in Nat /\ Slice(g, l) \in Nat
      BY <1>1, <2>1, ShippedByType
    <3> HIDE DEF need, own
    <3> QED
      BY <2>2, <3>1, <3>2 DEF Held
  <2>4. CASE need = 0
    <3>1. own = NoGroup
      BY <1>1, <2>4 DEF Belongs
    <3>2. \A g \in Groups : Held(n, l)[g] = cap[g]
      BY <2>1, <2>3, <3>1, NoGroupAssumption
    <3>3. Held(n, l) = cap
      BY <3>2 DEF Held
    <3> QED
      BY <2>4, <3>3
  <2>5. CASE need > 0
    <3>1. own \in Groups
      BY <1>1, <2>2, <2>5 DEF Belongs, Card
    <3>2. need <= cap[own]
      BY <2>1, <2>2, <2>3, <3>1
    <3>3. Held(n, l) = [cap EXCEPT ![own] = cap[own] - need]
      <4>1. Held(n, l) = [g \in Groups |-> Held(n, l)[g]] /\ cap = [g \in Groups |-> cap[g]]
        BY DEF Held
      <4> HIDE DEF cap, need, own
      <4> QED
        BY <2>1, <2>3, <3>1, <4>1
    <3>4. CASE c.tag # NoGroup
      <4>1. c.tag \in Present /\ own = c.tag
        BY <1>1, <2>5, <3>4 DEF Belongs
      <4>2. Least(cap[own], need) = need
        BY <2>1, <2>2, <3>1, <3>2 DEF Least
      <4>3. TakeTagged(cap, need, own) = [cap EXCEPT ![own] = cap[own] - need]
        BY <4>2 DEF TakeTagged
      <4> HIDE DEF cap
      <4> QED
        BY <2>2, <2>5, <3>3, <3>4, <4>1, <4>3 DEF cap
    <3>5. CASE c.tag = NoGroup
      <4>1. \A g \in Groups : Slice(g, l) > 0 <=> g = own
        <5>1. Slice(own, l) > 0
          BY <2>1, <2>2, <2>5, <3>1, <3>2
        <5>2. Sole(l)
          BY <1>1, <2>5, <3>5 DEF Belongs
        <5> QED
          BY <3>1, <5>1, <5>2, SoleGroup
      <4>2. \A g \in Groups : g # own => cap[g] = 0
        BY <2>1, <4>1
      <4>3. own \in Present /\ Present \subseteq Groups
        BY <3>1, <4>1 DEF Present
      <4>4. Min({own}) = own
        BY <3>1 DEF Min, Groups
      <4>5. TakeLine(cap, need) = [cap EXCEPT ![own] = cap[own] - need]
        <5> DEFINE exact == {g \in Present : cap[g] = need}
                   absorb == {g \in Present : cap[g] >= need}
        <5>1. CASE cap[own] = need
          <6>1. exact = {own}
            BY <2>5, <4>2, <4>3, <5>1
          <6>2. TakeLine(cap, need) = [cap EXCEPT ![own] = 0]
            <7>1. TakeLine(cap, need) = [cap EXCEPT ![Min({own})] = 0]
              BY <6>1, Zenon DEF TakeLine
            <7> QED
              BY <4>4, <7>1
          <6>3. cap[own] - need = 0
            BY <2>1, <2>2, <3>1, <5>1
          <6> QED
            BY <6>2, <6>3
        <5>2. CASE cap[own] # need
          <6>1. exact = {}
            BY <2>5, <4>2, <4>3, <5>2
          <6>2. absorb = {own}
            BY <2>2, <2>5, <3>2, <4>2, <4>3
          <6>3. TakeLine(cap, need) = [cap EXCEPT ![Min({own})] = @ - need]
            BY <6>1, <6>2, Zenon DEF TakeLine
          <6> QED
            BY <4>4, <6>3
        <5> QED
          BY <5>1, <5>2
      <4> HIDE DEF cap
      <4> QED
        BY <2>2, <2>5, <3>3, <3>5, <4>5 DEF cap
    <3> QED
      BY <3>4, <3>5
  <2> QED
    BY <2>2, <2>4, <2>5
<1>3. TakeCard(caps, c) = [l \in Lines |->
        IF c.units[l] = 0 THEN caps[l]
        ELSE IF c.tag # NoGroup /\ c.tag \in Present THEN TakeTagged(caps[l], c.units[l], c.tag)
        ELSE TakeLine(caps[l], c.units[l])]
  BY Zenon DEF TakeCard
<1> HIDE DEF c, caps
<1> QED
  BY <1>2, <1>3 DEF c, caps

(* No step changes what a group holds.                                      *)
LEMMA SlicesKept ==
    [GroupsNext]_groupVars => /\ alloc' = alloc
                              /\ \A g, l : Slice(g, l)' = Slice(g, l)
                              /\ Present' = Present
                              /\ \A l : Sole(l)' <=> Sole(l)
<1> SUFFICES ASSUME [GroupsNext]_groupVars
             PROVE  /\ alloc' = alloc /\ \A g, l : Slice(g, l)' = Slice(g, l)
                    /\ Present' = Present /\ \A l : Sole(l)' <=> Sole(l)
  OBVIOUS
<1>1. alloc' = alloc
  BY DEF GroupsNext, groupVars, CalculatePreorderShipping, SetFinalPrice, RequestSecondPayment, MarkInvoicePaid,
         CreateFulfillment, FulfilledInShopify, Ship, MarkFulfillmentDelivered
<1>2. \A g, l : Slice(g, l)' = Slice(g, l)
  BY <1>1 DEF Slice, Allocated, Total
<1>3. Present' = Present
  BY <1>2 DEF Present
<1>4. \A l : Sole(l)' <=> Sole(l)
  BY <1>2 DEF Sole
<1> QED
  BY <1>1, <1>2, <1>3, <1>4

LEMMA PageStart == GroupsInit => CardInv /\ PayInv
<1> SUFFICES ASSUME GroupsInit PROVE CardInv /\ PayInv
  OBVIOUS
<1>1. card = <<>> /\ Len(card) = 0 /\ DOMAIN card = {}
  BY DEF GroupsInit
<1>2. card \in Seq(Card) /\ \A n \in 1 .. Len(card) : Belongs(card[n])
  BY <1>1
<1>3. ASSUME NEW g \in Groups, NEW l \in Lines PROVE Shipped(g, l) <= Slice(g, l)
  <2>1. {n \in DOMAIN card : card[n].from[l] = g} = {}
    BY <1>1
  <2>2. Shipped(g, l) = 0
    BY <2>1, TotalZero DEF Shipped
  <2>3. Allocates
    BY PackStart DEF PackInv
  <2> QED
    BY <2>2, <2>3, SliceType
<1>4. PayInv
  BY DEF GroupsInit, NoRow, PayInv
<1> QED
  BY <1>2, <1>3, <1>4 DEF CardInv

(* A row is paid when it was sent, and sent when a group that is there had  *)
(* its final price.                                                         *)
LEMMA BillingStep ==
    ASSUME PayInv, shipment \in [Groups -> PricedRow], [GroupsNext]_groupVars
    PROVE  PayInv'
<1>1. Present' = Present
  BY SlicesKept
<1>2. ASSUME NEW g \in Groups, NEW plan \in Plans(g), CalculatePreorderShipping(g, plan) PROVE PayInv'
  <2>1. \A h \in Groups : /\ shipment'[h].priced = shipment[h].priced /\ shipment'[h].sent = shipment[h].sent
                          /\ shipment'[h].paid = shipment[h].paid
    BY <1>2 DEF CalculatePreorderShipping, PricedRow
  <2> QED
    BY <1>1, <2>1 DEF PayInv
<1>3. ASSUME NEW g \in Groups, SetFinalPrice(g) PROVE PayInv'
  <2>1. /\ g \in Present /\ \A h \in Groups \ {g} : shipment'[h] = shipment[h]
        /\ shipment'[g].priced = TRUE /\ shipment'[g].sent = shipment[g].sent /\ shipment'[g].paid = shipment[g].paid
    BY <1>3 DEF SetFinalPrice, PricedRow
  <2> QED
    BY <1>1, <2>1 DEF PayInv
<1>4. ASSUME NEW g \in Groups, RequestSecondPayment(g) PROVE PayInv'
  <2>1. /\ shipment[g].priced /\ \A h \in Groups \ {g} : shipment'[h] = shipment[h]
        /\ shipment'[g].priced = shipment[g].priced /\ shipment'[g].sent = TRUE /\ shipment'[g].paid = shipment[g].paid
    BY <1>4 DEF RequestSecondPayment, PricedRow
  <2> QED
    BY <1>1, <2>1 DEF PayInv
<1>5. ASSUME NEW g \in Groups, MarkInvoicePaid(g) PROVE PayInv'
  <2>1. /\ shipment[g].sent /\ \A h \in Groups \ {g} : shipment'[h] = shipment[h]
        /\ shipment'[g].priced = shipment[g].priced /\ shipment'[g].sent = shipment[g].sent /\ shipment'[g].paid = TRUE
    BY <1>5 DEF MarkInvoicePaid, PricedRow
  <2> QED
    BY <1>1, <2>1 DEF PayInv
<1>6. ASSUME UNCHANGED shipment PROVE PayInv'
  BY <1>1, <1>6 DEF PayInv
<1> QED
  BY <1>2, <1>3, <1>4, <1>5, <1>6
  DEF GroupsNext, groupVars, CreateFulfillment, FulfilledInShopify, Ship, MarkFulfillmentDelivered

(* A fulfillment takes no more of a group than it has left.                 *)
LEMMA ShipStep ==
    ASSUME CardInv, Allocates, SoleCards', [GroupsNext]_groupVars,
           NEW tag \in Batches \cup {NoGroup}, NEW units \in Loads, NEW from \in [Lines -> Groups],
           Ship(tag, units, from),
           tag # NoGroup => tag \in Present /\ \A l \in Lines : from[l] = tag
    PROVE  CardInv'
<1> DEFINE new == [tag |-> tag, units |-> units, delivered |-> FALSE,
                   from |-> [l \in Lines |-> IF units[l] = 0 THEN NoGroup ELSE from[l]]]
           N == Len(card) + 1
<1>1. units \in [Lines -> Nat]
  BY UnitsAssumption DEF Loads, Goods
<1>2. new \in Card
  BY <1>1 DEF Card
<1>3. /\ card' = Append(card, new) /\ \A l \in Lines : units[l] <= Left(from[l], l)
  BY DEF Ship
<1>4. /\ Len(card) \in Nat /\ DOMAIN card = 1 .. Len(card) /\ card \in Seq(Card)
  BY CardAt DEF CardInv
<1> HIDE DEF new
<1>5. /\ card' \in Seq(Card) /\ Len(card') = N /\ DOMAIN card' = 1 .. N /\ card'[N] = new
      /\ \A n \in 1 .. Len(card) : card'[n] = card[n]
  BY <1>2, <1>3, <1>4
<1>6. /\ \A g, l : Slice(g, l)' = Slice(g, l)
      /\ Present' = Present /\ \A l : Sole(l)' <=> Sole(l)
  BY SlicesKept
<1>7. \A l \in Lines : new.units[l] = units[l] /\ new.from[l] = IF units[l] = 0 THEN NoGroup ELSE from[l]
  BY DEF new
<1>8. new.tag = tag
  BY DEF new
<1>9. ASSUME NEW n \in 1 .. N PROVE Belongs(card[n])'
  <2>1. CASE n = N
    <3>1. \A l \in Lines : new.from[l] = NoGroup <=> new.units[l] = 0
      BY <1>7, NoGroupAssumption
    <3>2. tag # NoGroup => tag \in Present' /\ \A l \in Lines : new.units[l] > 0 => new.from[l] = tag
      BY <1>1, <1>6, <1>7
    <3>3. tag = NoGroup => \A l \in Lines : new.units[l] > 0 => Sole(l)'
      <4>1. N \in DOMAIN card'
        BY <1>4, <1>5
      <4> QED
        BY <1>5, <1>8, <4>1 DEF SoleCards
    <3> QED
      BY <1>5, <1>8, <2>1, <3>1, <3>2, <3>3 DEF Belongs
  <2>2. CASE n # N
    <3>1. n \in 1 .. Len(card) /\ card'[n] = card[n]
      BY <1>4, <1>5, <2>2
    <3>2. Belongs(card[n])
      BY <3>1, CardAt
    <3> QED
      BY <1>6, <3>1, <3>2 DEF Belongs
  <2> QED
    BY <2>1, <2>2
<1>10. ASSUME NEW g \in Groups, NEW l \in Lines PROVE (Shipped(g, l) <= Slice(g, l))'
  <2> DEFINE S == {n \in DOMAIN card : card[n].from[l] = g}
             T == {n \in DOMAIN card' : card'[n].from[l] = g}
             f == Units(l)
             h == Units(l)'
  <2>1. Shipped(g, l) = Total(f, S) /\ Shipped(g, l)' = Total(h, T)
    BY DEF Shipped, Total, Tokens
  <2>2. \A n \in 1 .. Len(card) : f[n] = card[n].units[l] /\ h[n] = f[n] /\ f[n] \in Nat
    BY <1>4, <1>5, CardAt DEF Units
  <2>3. h[N] = units[l] /\ units[l] \in Nat
    BY <1>1, <1>4, <1>5, <1>7 DEF Units
  <2>4. S \subseteq 1 .. Len(card) /\ S \subseteq T /\ T \subseteq S \cup {N} /\ T \subseteq 1 .. N /\ N \notin S
    BY <1>4, <1>5
  <2>5. N \in T <=> new.from[l] = g
    BY <1>4, <1>5
  <2>6. Shipped(g, l) <= Slice(g, l) /\ Slice(g, l) \in Nat
    BY SliceType DEF CardInv
  <2> HIDE DEF S, T, f, h
  <2>7. Total(f, S) = Total(h, S)
    BY <2>2, <2>4, TotalCongruence
  <2>8. CASE new.from[l] = g
    <3>1. units[l] <= Left(g, l)
      BY <1>3, <1>7, <2>8, NoGroupAssumption
    <3>2. N \in T /\ T \ {N} = S
      BY <2>4, <2>5, <2>8
    <3>3. IsFiniteSet(T) /\ \A n \in T : h[n] \in Nat
      <4>1. N \in Nat
        BY <1>4
      <4> QED
        BY <2>2, <2>3, <2>4, <4>1, CardsFinite
    <3>4. Total(h, T) = h[N] + Total(h, S) /\ Total(h, S) \in Nat
      <4>1. N \in T
        BY <3>2
      <4>2. Total(h, T) = h[N] + Total(h, T \ {N})
        BY <3>3, <4>1, TotalSplit
      <4>3. Total(h, T \ {N}) \in Nat
        BY <3>3, <4>1, TotalSplit
      <4> QED
        BY <3>2, <4>2, <4>3
    <3>5. Left(g, l) = Slice(g, l) - Total(h, S)
      BY <2>1, <2>7 DEF Left
    <3>6. Total(h, T) <= Slice(g, l)
      BY <2>3, <2>6, <3>1, <3>4, <3>5
    <3> QED
      BY <1>6, <2>1, <3>6
  <2>9. CASE new.from[l] # g
    <3>1. T = S
      BY <2>4, <2>5, <2>9
    <3> QED
      BY <1>6, <2>1, <2>6, <2>7, <3>1
  <2> QED
    BY <2>8, <2>9
<1> QED
  BY <1>5, <1>9, <1>10 DEF CardInv

LEMMA DeliverStep ==
    ASSUME CardInv, [GroupsNext]_groupVars, NEW k \in DOMAIN card, MarkFulfillmentDelivered(k)
    PROVE  CardInv'
<1>1. /\ Len(card) \in Nat /\ DOMAIN card = 1 .. Len(card) /\ card \in Seq(Card)
  BY CardAt DEF CardInv
<1>2. [card[k] EXCEPT !.delivered = TRUE] \in Card
  <2>1. card[k] \in Card
    BY <1>1
  <2> QED
    BY <2>1 DEF Card
<1>3. card' = [card EXCEPT ![k] = [card[k] EXCEPT !.delivered = TRUE]]
  BY DEF MarkFulfillmentDelivered
<1>4. card' \in Seq(Card) /\ Len(card') = Len(card) /\ DOMAIN card' = DOMAIN card
  BY <1>1, <1>2, <1>3
<1>5. \A n \in DOMAIN card : /\ card'[n].tag = card[n].tag /\ card'[n].units = card[n].units
                             /\ card'[n].from = card[n].from
  <2>1. \A c \in Card : LET d == [c EXCEPT !.delivered = TRUE]
                        IN  d.tag = c.tag /\ d.units = c.units /\ d.from = c.from
    BY DEF Card
  <2>2. \A n \in DOMAIN card : card'[n] = IF n = k THEN [card[k] EXCEPT !.delivered = TRUE] ELSE card[n]
    BY <1>1, <1>3
  <2>3. card[k] \in Card
    BY <1>1
  <2> QED
    BY <2>1, <2>2, <2>3
<1>6. /\ \A g, l : Slice(g, l)' = Slice(g, l)
      /\ Present' = Present /\ \A l : Sole(l)' <=> Sole(l)
  BY SlicesKept
<1>7. \A n \in 1 .. Len(card') : Belongs(card[n])'
  <2> SUFFICES ASSUME NEW n \in 1 .. Len(card') PROVE Belongs(card[n])'
    OBVIOUS
  <2>1. n \in DOMAIN card /\ Belongs(card[n])
    BY <1>1, <1>4, CardAt
  <2> QED
    BY <1>5, <1>6, <2>1 DEF Belongs
<1>8. ASSUME NEW g \in Groups, NEW l \in Lines PROVE (Shipped(g, l) <= Slice(g, l))'
  <2>1. Units(l)' = Units(l)
    BY <1>4, <1>5 DEF Units
  <2>2. {n \in DOMAIN card' : card'[n].from[l] = g} = {n \in DOMAIN card : card[n].from[l] = g}
    BY <1>4, <1>5
  <2>3. Shipped(g, l)' = Shipped(g, l)
    BY <2>1, <2>2 DEF Shipped, Total
  <2> QED
    BY <1>6, <2>3 DEF CardInv
<1> QED
  BY <1>4, <1>7, <1>8 DEF CardInv

LEMMA PageStep == PackInv /\ CardInv /\ PayInv /\ [GroupsNext /\ SoleCards']_groupVars => (PackInv /\ CardInv /\ PayInv)'
<1> SUFFICES ASSUME PackInv, CardInv, PayInv, [GroupsNext /\ SoleCards']_groupVars
             PROVE  (PackInv /\ CardInv /\ PayInv)'
  OBVIOUS
<1>1. [GroupsNext]_groupVars
  OBVIOUS
<1>2. PackInv' /\ PayInv'
  BY <1>1, PackStep, BillingStep DEF PackInv
<1>3. Allocates
  BY DEF PackInv
<1>4. ASSUME NEW g \in Groups, NEW units \in Loads, CreateFulfillment(g, units), SoleCards' PROVE CardInv'
  <2> DEFINE tag == IF g = Unbatched THEN NoGroup ELSE g
             from == [l \in Lines |-> g]
  <2>1. g \in Present /\ Ship(tag, units, from)
    BY <1>4 DEF CreateFulfillment
  <2>2. tag \in Batches \cup {NoGroup} /\ from \in [Lines -> Groups] /\ g \in 1 .. NumBatches + 1
    BY BatchesAssumption DEF Groups, Batches, Unbatched
  <2>3. tag # NoGroup => tag \in Present /\ \A l \in Lines : from[l] = tag
    BY <2>1
  <2> HIDE DEF tag, from
  <2> QED
    BY <1>1, <1>3, <1>4, <2>1, <2>2, <2>3, ShipStep
<1>5. ASSUME NEW units \in Loads, NEW from \in [Lines -> Groups], FulfilledInShopify(units, from), SoleCards' PROVE CardInv'
  BY <1>1, <1>3, <1>5, ShipStep DEF FulfilledInShopify
<1>6. ASSUME NEW n \in DOMAIN card, MarkFulfillmentDelivered(n) PROVE CardInv'
  BY <1>1, <1>6, DeliverStep
<1>7. ASSUME UNCHANGED card PROVE CardInv'
  <2>1. /\ \A g, l : Slice(g, l)' = Slice(g, l)
        /\ Present' = Present /\ \A l : Sole(l)' <=> Sole(l)
    BY <1>1, SlicesKept
  <2>2. \A g, l : Shipped(g, l)' = Shipped(g, l)
    BY <1>7 DEF Shipped, Total, Tokens, Units
  <2>3. \A c : Belongs(c)' <=> Belongs(c)
    BY <2>1 DEF Belongs
  <2>4. (\A n \in 1 .. Len(card) : Belongs(card[n]))'
    BY <1>7, <2>1 DEF CardInv, Belongs
  <2> QED
    BY <1>7, <2>1, <2>2, <2>4 DEF CardInv
<1>8. CardInv'
  BY <1>4, <1>5, <1>6, <1>7
  DEF GroupsNext, groupVars, CalculatePreorderShipping, SetFinalPrice, RequestSecondPayment, MarkInvoicePaid
<1> QED
  BY <1>2, <1>8

(* The page recovers what each group still holds after each card.           *)
LEMMA CapsAre ==
    ASSUME PageInv
    PROVE  \A n \in 0 .. Len(card) : CapsAfter[n] = [l \in Lines |-> Held(n, l)]
<1> DEFINE h == [n \in 0 .. Len(card) |-> [l \in Lines |-> Held(n, l)]]
           f == CHOOSE k : k = [n \in 0 .. Len(card) |->
                                   IF n = 0 THEN Capacity ELSE TakeCard(k[n - 1], card[n])]
           Next1(k, n) == IF n = 0 THEN Capacity ELSE TakeCard(k[n - 1], card[n])
<1>1. Len(card) \in Nat
  BY CardAt DEF PageInv
<1>2. \A n \in 0 .. Len(card) : n # 0 => n \in 1 .. Len(card) /\ n - 1 \in 0 .. Len(card)
  BY <1>1
<1>3. Capacity = [l \in Lines |-> Held(0, l)]
  <2>1. ASSUME NEW l \in Lines PROVE [g \in Groups |-> Slice(g, l)] = Held(0, l)
    <3>1. ASSUME NEW g \in Groups PROVE Slice(g, l) = Slice(g, l) - ShippedBy(0, g, l)
      <4>1. {m \in 1 .. 0 : card[m].from[l] = g} = {}
        OBVIOUS
      <4>2. ShippedBy(0, g, l) = 0
        BY <4>1, TotalZero DEF ShippedBy
      <4>3. Slice(g, l) \in Nat
        BY SliceType DEF PageInv
      <4> QED
        BY <4>2, <4>3
    <3> QED
      BY <3>1 DEF Held
  <2> QED
    BY <2>1 DEF Capacity
<1>4. ASSUME NEW n \in 0 .. Len(card) PROVE h[n] = Next1(h, n)
  <2>1. h[n] = [l \in Lines |-> Held(n, l)]
    OBVIOUS
  <2>2. CASE n = 0
    BY <1>3, <2>1, <2>2
  <2>3. CASE n # 0
    <3>1. n \in 1 .. Len(card) /\ h[n - 1] = [l \in Lines |-> Held(n - 1, l)]
      BY <1>2, <2>3
    <3>2. TakeCard(h[n - 1], card[n]) = [l \in Lines |-> Held(n, l)]
      BY <3>1, CardTakes
    <3> HIDE DEF h
    <3> QED
      BY <2>1, <2>3, <3>2
  <2> HIDE DEF h
  <2> QED
    BY <2>2, <2>3
<1>5. h = [n \in 0 .. Len(card) |-> IF n = 0 THEN Capacity ELSE TakeCard(h[n - 1], card[n])]
  <2>1. h = [n \in 0 .. Len(card) |-> h[n]]
    OBVIOUS
  <2> HIDE DEF h
  <2> QED
    BY <1>4, <2>1
<1>6. f = [n \in 0 .. Len(card) |-> IF n = 0 THEN Capacity ELSE TakeCard(f[n - 1], card[n])]
  <2> HIDE DEF h
  <2> QED
    BY <1>5, Zenon
<1>7. CapsAfter = f
  BY Zenon DEF CapsAfter
<1> HIDE DEF f, h
<1>8. \A n \in 0 .. Len(card) : f[n] = Next1(f, n)
  BY <1>6, Zenon
<1> DEFINE Bad == {n \in 0 .. Len(card) : f[n] # h[n]}
<1>9. Bad = {}
  <2> SUFFICES ASSUME Bad # {} PROVE FALSE
    OBVIOUS
  <2>1. PICK n \in Bad : \A m \in Bad : n <= m
    <3>1. Bad \subseteq Nat
      BY <1>1
    <3> HIDE DEF Bad
    <3> QED
      BY <3>1, NatLeast
  <2>2. n \in 0 .. Len(card) /\ f[n] # h[n]
    OBVIOUS
  <2>3. n # 0
    <3>1. f[0] = Capacity /\ h[0] = Capacity
      BY <1>1, <1>4, <1>8
    <3> QED
      BY <2>2, <3>1
  <2>4. n - 1 \in 0 .. Len(card) /\ n - 1 \notin Bad
    <3>1. n - 1 \in 0 .. Len(card) /\ n \in Nat /\ ~ (n <= n - 1)
      BY <1>2, <2>2, <2>3
    <3> QED
      BY <2>1, <3>1
  <2>5. f[n - 1] = h[n - 1]
    BY <2>4
  <2> HIDE DEF Bad
  <2>6. f[n] = TakeCard(f[n - 1], card[n]) /\ h[n] = TakeCard(h[n - 1], card[n])
    BY <1>4, <1>8, <2>2, <2>3
  <2> QED
    BY <2>2, <2>5, <2>6
<1> QED
  BY <1>7, <1>9 DEF h

(* A card is shown by the groups that shipped it.                           *)
LEMMA ShownIs ==
    ASSUME PageInv, NEW n \in 1 .. Len(card)
    PROVE  ShownIn(n) = {g \in Present : \E l \in Lines : card[n].from[l] = g}
<1>1. /\ Len(card) \in Nat /\ n \in 0 .. Len(card) /\ n - 1 \in 0 .. Len(card)
      /\ card[n] \in Card /\ Belongs(card[n]) /\ CardInv
  BY CardAt DEF PageInv
<1>2. ASSUME NEW g \in Groups, NEW l \in Lines
      PROVE  CapsAfter[n][l][g] < CapsAfter[n - 1][l][g] <=> card[n].from[l] = g
  <2>1. CapsAfter[n][l] = Held(n, l) /\ CapsAfter[n - 1][l] = Held(n - 1, l)
    BY <1>1, CapsAre
  <2>2. /\ CapsAfter[n][l][g] = Slice(g, l) - ShippedBy(n, g, l)
        /\ CapsAfter[n - 1][l][g] = Slice(g, l) - ShippedBy(n - 1, g, l)
    BY <2>1 DEF Held
  <2>3. ShippedBy(n, g, l) = ShippedBy(n - 1, g, l) + (IF card[n].from[l] = g THEN card[n].units[l] ELSE 0)
    BY <1>1, ShippedNext
  <2>4. ShippedBy(n - 1, g, l) \in Nat /\ Slice(g, l) \in Nat
    BY <1>1, ShippedByType, SliceType DEF PageInv
  <2>5. card[n].units[l] \in Nat /\ (card[n].from[l] = g => card[n].units[l] # 0)
    BY <1>1, NoGroupAssumption DEF Card, Belongs
  <2> QED
    BY <2>2, <2>3, <2>4, <2>5
<1>3. Present \subseteq Groups
  BY DEF Present
<1> QED
  BY <1>2, <1>3 DEF ShownIn

(* What a group shows of a line are the units that it shipped of it.        *)
LEMMA OwnCards ==
    ASSUME PageInv, NEW g \in Present, NEW l \in GroupLines(g)
    PROVE  /\ Total(Units(l), CardsOf(g)) = Shipped(g, l)
           /\ \A n \in DOMAIN card : card[n].from[l] = g <=> n \in CardsOf(g) /\ card[n].units[l] > 0
           /\ Shipped(g, l) \in Nat /\ Slice(g, l) \in Nat /\ Shipped(g, l) <= Slice(g, l)
<1> DEFINE P == {n \in DOMAIN card : card[n].from[l] = g}
<1>1. /\ Len(card) \in Nat /\ DOMAIN card = 1 .. Len(card) /\ CardInv /\ g \in Groups /\ l \in Lines
      /\ Slice(g, l) > 0
  BY CardAt DEF PageInv, Present, GroupLines
<1>2. CardsOf(g) = {n \in DOMAIN card : \E k \in Lines : card[n].from[k] = g}
  BY <1>1, ShownIs DEF CardsOf
<1>3. ASSUME NEW n \in DOMAIN card PROVE card[n].from[l] = g <=> n \in CardsOf(g) /\ card[n].units[l] > 0
  <2>1. /\ card[n] \in Card /\ Belongs(card[n]) /\ card[n].units[l] \in Nat
        /\ card[n].from[l] \in Groups \cup {NoGroup}
    BY <1>1, CardAt DEF Card
  <2>2. card[n].from[l] = g => n \in CardsOf(g) /\ card[n].units[l] > 0
    BY <1>1, <1>2, <2>1, NoGroupAssumption DEF Belongs
  <2>3. ASSUME n \in CardsOf(g), card[n].units[l] > 0 PROVE card[n].from[l] = g
    <3>1. PICK k \in Lines : card[n].from[k] = g
      BY <1>2, <2>3
    <3>2. card[n].units[k] > 0
      <4>1. card[n].units[k] \in Nat /\ card[n].units[k] # 0
        BY <1>1, <2>1, <3>1, NoGroupAssumption DEF Belongs, Card
      <4> QED
        BY <4>1
    <3>3. CASE card[n].tag # NoGroup
      BY <1>1, <2>1, <2>3, <3>1, <3>2, <3>3 DEF Belongs
    <3>4. CASE card[n].tag = NoGroup
      <4> DEFINE own == card[n].from[l]
      <4>1. own \in Groups
        BY <1>1, <2>1, <2>3 DEF Belongs
      <4>2. Slice(own, l) > 0
        <5>1. n \in 0 .. Len(card) /\ n \in 1 .. Len(card) /\ n - 1 \in 0 .. Len(card)
          BY <1>1
        <5>2. ShippedBy(n, own, l) = ShippedBy(n - 1, own, l) + card[n].units[l]
          BY <1>1, <4>1, <5>1, ShippedNext
        <5>3. ShippedBy(n - 1, own, l) \in Nat /\ ShippedBy(n, own, l) \in Nat
          BY <1>1, <5>1, ShippedByType
        <5>4. Slice(own, l) \in Nat /\ Slice(own, l) - ShippedBy(n, own, l) \in Nat
          <6>1. Held(n, l)[own] \in Nat /\ Slice(own, l) \in Nat
            BY <1>1, <4>1, <5>1, HeldIs
          <6>2. Held(n, l)[own] = Slice(own, l) - ShippedBy(n, own, l)
            BY <4>1 DEF Held
          <6> QED
            BY <6>1, <6>2
        <5> QED
          BY <2>1, <2>3, <5>2, <5>3, <5>4
      <4>3. Sole(l)
        BY <1>1, <2>1, <2>3, <3>4 DEF Belongs
      <4> QED
        BY <1>1, <4>1, <4>2, <4>3, SoleGroup
    <3> QED
      BY <3>3, <3>4
  <2> QED
    BY <2>2, <2>3
<1>4. /\ CardsOf(g) \subseteq 1 .. Len(card) /\ P \subseteq CardsOf(g)
      /\ \A n \in CardsOf(g) \ P : card[n].units[l] = 0
  <2>1. CardsOf(g) \subseteq DOMAIN card
    BY DEF CardsOf
  <2>2. \A n \in DOMAIN card : card[n].units[l] \in Nat
    BY <1>1, CardAt
  <2> QED
    BY <1>1, <1>3, <2>1, <2>2
<1>5. \A n \in 1 .. Len(card) : Units(l)[n] = card[n].units[l] /\ Units(l)[n] \in Nat
  BY <1>1, CardAt
<1>6. IsFiniteSet(CardsOf(g))
  BY <1>1, <1>4, CardsFinite
<1>7. Shipped(g, l) = Total(Units(l), P)
  BY DEF Shipped
<1> HIDE DEF P
<1>8. /\ \A n \in CardsOf(g) : Units(l)[n] \in Nat
      /\ \A n \in CardsOf(g) \ P : Units(l)[n] = 0
  BY <1>4, <1>5
<1>9. Total(Units(l), P) = Total(Units(l), CardsOf(g)) /\ Total(Units(l), P) \in Nat
  BY <1>4, <1>6, <1>8, TotalPart
<1>10. Slice(g, l) \in Nat /\ Shipped(g, l) <= Slice(g, l)
  BY <1>1, SliceType DEF PageInv, CardInv
<1> QED
  BY <1>3, <1>7, <1>9, <1>10

(* The badge of the order is that of all its groups, or of any.             *)
LEMMA SummaryIs ==
    ASSUME PageInv
    PROVE  /\ SecondPaymentSummary = "paid" <=> Present # {} /\ \A g \in Present : shipment[g].paid
           /\ SecondPaymentSummary = "invoiced" <=>
                 (\E g \in Present : shipment[g].sent) /\ \E g \in Present : ~ shipment[g].paid
<1> DEFINE badges     == {SecondPaymentStatus(g) : g \in Present}
           configured == {g \in Present : shipment[g].priced}
<1>1. \A g \in Present : /\ shipment[g].paid => shipment[g].sent
                         /\ shipment[g].sent => shipment[g].priced
  BY DEF PageInv, PayInv, Present
<1>2. \A g \in Present : /\ SecondPaymentStatus(g) = "paid" <=> shipment[g].paid
                         /\ SecondPaymentStatus(g) = "invoiced" <=> shipment[g].sent /\ ~ shipment[g].paid
  BY DEF SecondPaymentStatus
<1>3. configured = Present /\ badges = {"paid"} <=> Present # {} /\ \A g \in Present : shipment[g].paid
  BY <1>1, <1>2
<1>4. badges \cap {"paid", "invoiced"} # {} <=> \E g \in Present : shipment[g].sent
  BY <1>1, <1>2
<1>5. SecondPaymentSummary =
        IF configured = Present /\ badges = {"paid"} THEN "paid"
        ELSE IF badges \cap {"paid", "invoiced"} # {} THEN "invoiced"
        ELSE IF "ready" \in badges \/ configured # {} THEN "ready" ELSE "pending"
  BY Zenon DEF SecondPaymentSummary
<1> HIDE DEF badges, configured
<1> QED
  BY <1>1, <1>3, <1>4, <1>5

LEMMA PageShows == PageInv => OwnShown
<1> SUFFICES ASSUME PageInv PROVE OwnShown
  OBVIOUS
<1>1. ASSUME NEW g \in Present, NEW l \in GroupLines(g)
      PROVE  /\ ScrubbedSlice(g, l).remaining = Slice(g, l) - Shipped(g, l)
             /\ ScrubbedSlice(g, l).status =
                   IF Shipped(g, l) = 0 THEN Badge(g)
                   ELSE IF \E n \in DOMAIN card : card[n].delivered /\ card[n].from[l] = g
                   THEN "delivered" ELSE "shipped"
  <2>1. /\ Total(Units(l), CardsOf(g)) = Shipped(g, l)
        /\ \A n \in DOMAIN card : card[n].from[l] = g <=> n \in CardsOf(g) /\ card[n].units[l] > 0
        /\ Shipped(g, l) \in Nat /\ Slice(g, l) \in Nat /\ Shipped(g, l) <= Slice(g, l)
    BY OwnCards
  <2>2. Least(Shipped(g, l), Slice(g, l)) = Shipped(g, l)
    BY <2>1 DEF Least
  <2>3. (\E n \in CardsOf(g) : card[n].delivered /\ card[n].units[l] > 0)
           <=> \E n \in DOMAIN card : card[n].delivered /\ card[n].from[l] = g
    <3>1. CardsOf(g) \subseteq DOMAIN card
      BY DEF CardsOf
    <3> QED
      BY <2>1, <3>1
  <2>4. ScrubbedSlice(g, l) =
          [remaining |-> Slice(g, l) - Shipped(g, l),
           status |-> IF Shipped(g, l) = 0 THEN Badge(g)
                      ELSE IF \E n \in CardsOf(g) : card[n].delivered /\ card[n].units[l] > 0
                      THEN "delivered" ELSE "shipped"]
    BY <2>1, <2>2, Zenon DEF ScrubbedSlice
  <2> QED
    BY <2>3, <2>4
<1> QED
  BY <1>1, SummaryIs DEF OwnShown

(* However an order is split over batches and its groups are billed, paid   *)
(* and shipped, as long as a fulfillment without a batch has only lines that*)
(* one group holds, each group shows what was shipped of its own units and  *)
(* whether they were delivered, and the order the badge of all its groups   *)
(* (fulfillment_groups.go, assignFulfillmentsToPreorderGroups).             *)
THEOREM OwnShownCorrect == SoleSpec => []OwnShown
<1> DEFINE Inv == PackInv /\ CardInv /\ PayInv
<1>1. GroupsInit => Inv
  BY PackStart, PageStart
<1>2. Inv /\ [GroupsNext /\ SoleCards']_groupVars => Inv'
  BY PageStep
<1>3. Inv => OwnShown
  BY PageShows DEF PackInv, PageInv
<1> QED
  BY <1>1, <1>2, <1>3, PTL DEF SoleSpec
=============================================================================
