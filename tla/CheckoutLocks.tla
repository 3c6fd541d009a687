--------------------------- MODULE CheckoutLocks ---------------------------
(***************************************************************************)
(* Checkout of ready stock: internal/checkout.  A checkout locks units of  *)
(* a variant for 15 minutes in stock_locks, creates a Shopify draft order  *)
(* that the customer can pay, and remembers the draft in                   *)
(* checkout_sessions.  The stock itself is Shopify's: it falls when a      *)
(* draft is paid.  Requests, the webhook of a paid order and the job that  *)
(* cleans up every five minutes run in workers; each step ends at a        *)
(* statement or a Shopify call that others can see.                        *)
(***************************************************************************)
EXTENDS Totals

CONSTANTS
    MaxCheckouts,  \* bound: checkouts ever started
    MaxQty,        \* bound: units a cart asks for
    Supply,        \* units of the variant Shopify has at first
    Shoppers,      \* identities: a user or a guest session
    Admin,         \* who makes manual orders
    Workers,       \* requests and jobs in flight at once
    MaxFaults,     \* bound: calls that fail and requests that stop
    None           \* no owner, no checkout

ASSUME CountsAssumption == MaxCheckouts \in Nat /\ MaxQty \in Nat /\ Supply \in Nat /\ MaxFaults \in Nat
ASSUME NamesAssumption  == Admin \notin Shoppers /\ None \notin Shoppers \cup {Admin}
ASSUME NoneAssumption   == None \notin 1 .. MaxCheckouts

Checkouts  == 1 .. MaxCheckouts     \* checkout references, in the order they are made
Quantities == 0 .. MaxQty           \* 0: a cart of pre-orders only

VARIABLES
    owner,    \* owner[c]: who started checkout c
    lock,     \* lock[c]: the rows of stock_locks for c
    session,  \* session[c]: the row of checkout_sessions
    draft,    \* Shopify: draft[c], its draft order
    stock,    \* Shopify: units on hand
    missed,   \* history: units that counts overlooked or that were sold without a lock
    req,      \* req[w]: what worker w is doing
    faults    \* history: faults so far

vars == <<owner, lock, session, draft, stock, missed, req, faults>>

Lock    == [qty: Quantities, expired: BOOLEAN]
NoLock  == [qty |-> 0, expired |-> FALSE]
Draft   == [state: {"none", "open", "paid", "deleted"}, qty: Quantities]
NoDraft == [state |-> "none", qty |-> 0]

Buying == {"look", "count", "lock", "batch", "draft", "session"}   \* InitiateCheckout
Steps  == Buying \cup {"idle", "undoDraft", "undo", "cancel", "unlock", "forget", "purge", "clean"}

(* seen: the stock read from Shopify; listed: the sessions the job found    *)
(* expired; todo: those whose draft it has still to delete.                 *)
Request == [step: Steps, c: Checkouts \cup {None}, qty: Quantities, seen: Int,
            listed: SUBSET Checkouts, todo: SUBSET Checkouts]
Idle    == [step |-> "idle", c |-> None, qty |-> 0, seen |-> 0, listed |-> {}, todo |-> {}]

At(w, s)     == req[w].step = s
Its(w)       == req[w].c
Become(w, r) == req' = [req EXCEPT ![w] = r]
Goto(w, s)   == Become(w, [req[w] EXCEPT !.step = s])
Finish(w)    == Become(w, Idle)

Started(c) == owner[c] # None
Fresh(c)   == ~ Started(c) /\ \A b \in 1 .. c - 1 : Started(b)
Open(c)    == draft[c].state = "open"
LiveQty(c) == IF lock[c].expired THEN 0 ELSE lock[c].qty
InHand(c)  == \E w \in Workers : Its(w) = c /\ req[w].step \in Buying \cup {"undoDraft", "undo"}

Locked     == Total([c \in Checkouts |-> LiveQty(c)], Checkouts)    \* GetActiveLocksForVariant
Paid(c)    == draft[c].state = "paid"

(* The locks become `rows', which have the same lock of a checkout or none  *)
(* that is live.  A request between its look at the stock and its count     *)
(* sees neither the payment nor the lock of a paid draft that goes now.     *)
Letting(rows) ==
    /\ lock' = rows
    /\ missed' = IF \E w \in Workers : At(w, "count")
                 THEN missed + Total([c \in Checkouts |-> IF Paid(c) /\ rows[c] # lock[c] THEN LiveQty(c) ELSE 0],
                                     Checkouts)
                 ELSE missed
----------------------------------------------------------------------------
Dropped(s) == [c \in Checkouts |-> IF owner[c] = s THEN NoLock ELSE lock[c]]

(* InitiateCheckout.  A cart without ready stock takes no stock lock; for   *)
(* another AcquireLocks deletes the locks of the shopper's earlier          *)
(* checkouts, asks Shopify for the stock, counts the live locks and inserts *)
(* the new one, each by itself.                                             *)
InitiateCheckout(w, s, q) ==
    /\ At(w, "idle")
    /\ \E c \in Checkouts :
          /\ Fresh(c)
          /\ owner' = [owner EXCEPT ![c] = s]
          /\ Become(w, [Idle EXCEPT !.step = IF q = 0 THEN "batch" ELSE "look", !.c = c, !.qty = q])
    /\ Letting(IF q = 0 THEN lock ELSE Dropped(s))
    /\ UNCHANGED <<session, draft, stock, faults>>

GetVariantsInventory(w) ==
    /\ At(w, "look")
    /\ Become(w, [req[w] EXCEPT !.step = "count", !.seen = stock])
    /\ UNCHANGED <<owner, lock, session, draft, stock, missed, faults>>

(* Mutant: the units others have locked are not subtracted.                 *)
CountNothing(w) ==
    /\ At(w, "count")
    /\ IF req[w].seen < req[w].qty THEN Finish(w) ELSE Goto(w, "lock")
    /\ UNCHANGED <<owner, lock, session, draft, stock, missed, faults>>

GetActiveLocksForVariant(w) ==
    /\ At(w, "count")
    /\ IF req[w].seen - Locked < req[w].qty THEN Finish(w) ELSE Goto(w, "lock")
    /\ UNCHANGED <<owner, lock, session, draft, stock, missed, faults>>

(* A request that has counted before, and inserts after this, missed these  *)
(* units.                                                                   *)
CreateLocks(w) ==
    /\ At(w, "lock")
    /\ missed' = IF \E v \in Workers \ {w} : At(v, "lock") THEN missed + req[w].qty ELSE missed
    /\ lock' = [lock EXCEPT ![Its(w)] = [qty |-> req[w].qty, expired |-> FALSE]]
    /\ Goto(w, "batch")
    /\ UNCHANGED <<owner, session, draft, stock, faults>>

ReleaseByReference(w) == Letting([lock EXCEPT ![Its(w)] = NoLock])

(* The batches of the pre-orders in the cart are locked too, or refuse; a   *)
(* batch that runs out first needs the shopper's consent, and meanwhile the *)
(* stock locks stay.                                                        *)
AcquireBatchLocks(w) ==
    /\ At(w, "batch")
    /\ \/ Goto(w, "draft") /\ UNCHANGED <<lock, missed>>
       \/ ReleaseByReference(w) /\ Finish(w)
       \/ Finish(w) /\ UNCHANGED <<lock, missed>>
    /\ UNCHANGED <<owner, session, draft, stock, faults>>

(* draftOrderCreate.                                                        *)
Made(q) == [state |-> "open", qty |-> q]

(* CreateDraftOrder: made, refused, or made without the service knowing.    *)
CreateDraftOrder(w) ==
    /\ At(w, "draft")
    /\ \/ /\ draft' = [draft EXCEPT ![Its(w)] = Made(req[w].qty)]
          /\ \/ Goto(w, "session") /\ UNCHANGED faults
             \/ Goto(w, "undo") /\ faults < MaxFaults /\ faults' = faults + 1
       \/ Goto(w, "undo") /\ UNCHANGED <<draft, faults>>
    /\ UNCHANGED <<owner, lock, session, stock, missed>>

UpsertCheckoutSession(w) ==
    /\ At(w, "session")
    /\ \/ session' = [session EXCEPT ![Its(w)] = "live"] /\ Finish(w) /\ UNCHANGED faults
       \/ /\ faults < MaxFaults /\ faults' = faults + 1
          /\ Goto(w, "undoDraft") /\ UNCHANGED session
    /\ UNCHANGED <<owner, lock, draft, stock, missed>>

(* draftOrderDelete: Shopify refuses once the draft is paid; every caller   *)
(* goes on whether it worked or not.                                        *)
Deleted(c) == [draft EXCEPT ![c].state = IF @ = "open" THEN "deleted" ELSE @]

DeleteDraftOrder(c) ==
    \/ draft' = Deleted(c) /\ UNCHANGED faults
    \/ faults < MaxFaults /\ faults' = faults + 1 /\ UNCHANGED draft

UndoDraft(w) ==
    /\ At(w, "undoDraft")
    /\ DeleteDraftOrder(Its(w))
    /\ Goto(w, "undo")
    /\ UNCHANGED <<owner, lock, session, stock, missed>>

UndoLocks(w) ==
    /\ At(w, "undo")
    /\ ReleaseByReference(w)
    /\ Finish(w)
    /\ UNCHANGED <<owner, session, draft, stock, faults>>
----------------------------------------------------------------------------
(* ReleaseCheckout with the reference of a finished checkout: the draft,    *)
(* the locks, the session.  Without one only the locks of the shopper go.   *)
ReleaseCheckout(w, c) ==
    /\ At(w, "idle")
    /\ owner[c] \in Shoppers /\ ~ InHand(c)
    /\ Become(w, [Idle EXCEPT !.step = IF session[c] = "none" THEN "unlock" ELSE "cancel", !.c = c])
    /\ UNCHANGED <<owner, lock, session, draft, stock, missed, faults>>

ReleaseLocks(w, s) ==
    /\ At(w, "idle")
    /\ Letting(Dropped(s))
    /\ UNCHANGED <<owner, session, draft, stock, req, faults>>

(* Mutant: the draft stays.                                                 *)
CancelNothing(w) ==
    /\ At(w, "cancel")
    /\ Goto(w, "unlock")
    /\ UNCHANGED <<owner, lock, session, draft, stock, missed, faults>>

CancelCheckoutDraft(w) ==
    /\ At(w, "cancel")
    /\ DeleteDraftOrder(Its(w))
    /\ Goto(w, "unlock")
    /\ UNCHANGED <<owner, lock, session, stock, missed>>

DeleteLocksByReference(w) ==
    /\ At(w, "unlock")
    /\ ReleaseByReference(w)
    /\ Goto(w, "forget")
    /\ UNCHANGED <<owner, session, draft, stock, faults>>

DeleteCheckoutSession(w) ==
    /\ At(w, "forget")
    /\ session' = [session EXCEPT ![Its(w)] = "none"]
    /\ Finish(w)
    /\ UNCHANGED <<owner, lock, draft, stock, missed, faults>>

(* finalizePaidCheckoutOrder, as far as it concerns the checkout: a release *)
(* that fails does not stop it.                                             *)
HandleOrderPaid(w, c) ==
    /\ At(w, "idle")
    /\ Paid(c) /\ (lock[c] # NoLock \/ session[c] # "none")
    /\ \/ Letting([lock EXCEPT ![c] = NoLock]) /\ UNCHANGED faults
       \/ faults < MaxFaults /\ faults' = faults + 1 /\ UNCHANGED <<lock, missed>>
    /\ Become(w, [Idle EXCEPT !.step = "forget", !.c = c])
    /\ UNCHANGED <<owner, session, draft, stock>>
----------------------------------------------------------------------------
(* CleanExpiredLocks: drafts of expired sessions, the sessions, the locks.  *)
ListExpiredCheckoutSessions(w) ==
    /\ At(w, "idle")
    /\ LET old == {c \in Checkouts : session[c] = "expired"}
       IN  Become(w, [Idle EXCEPT !.step = "purge", !.listed = old, !.todo = old])
    /\ UNCHANGED <<owner, lock, session, draft, stock, missed, faults>>

DeleteExpiredDraft(w) ==
    /\ At(w, "purge")
    /\ \E c \in req[w].todo :
          /\ DeleteDraftOrder(c)
          /\ Become(w, [req[w] EXCEPT !.todo = @ \ {c}])
    /\ UNCHANGED <<owner, lock, session, stock, missed>>

DeleteExpiredCheckoutSessions(w) ==
    /\ At(w, "purge") /\ req[w].todo = {}
    /\ session' = [c \in Checkouts |-> IF c \in req[w].listed THEN "none" ELSE session[c]]
    /\ Goto(w, "clean")
    /\ UNCHANGED <<owner, lock, draft, stock, missed, faults>>

(* Mutant: only locks that have not expired are found.                      *)
DeleteNoLocks(w) ==
    /\ At(w, "clean")
    /\ Finish(w)
    /\ UNCHANGED <<owner, lock, session, draft, stock, missed, faults>>

DeleteExpiredLocks(w) ==
    /\ At(w, "clean")
    /\ lock' = [c \in Checkouts |-> IF lock[c].expired THEN NoLock ELSE lock[c]]
    /\ Finish(w)
    /\ UNCHANGED <<owner, session, draft, stock, missed, faults>>
----------------------------------------------------------------------------
(* CreateManualOrder: an admin's draft has no lock and no session.          *)
CreateManualOrder(q) ==
    /\ \E c \in Checkouts :
          /\ Fresh(c)
          /\ owner' = [owner EXCEPT ![c] = Admin]
          /\ draft' = [draft EXCEPT ![c] = Made(q)]
    /\ UNCHANGED <<lock, session, stock, missed, req, faults>>

(* loadEditableWebsiteDraft: a draft that Shopify has and nobody has paid.  *)
GetDraftOrder(c) == draft[c]
Editable(c)      == GetDraftOrder(c).state = "open"

(* draftOrderUpdate replaces the items.                                     *)
Changed(c, q) == [draft EXCEPT ![c].qty = q]

(* UpdateDraftOrderItems: an admin changes what any open draft sells.       *)
UpdateDraftOrderItems(c, q) ==
    /\ Editable(c)
    /\ draft' = Changed(c, q)
    /\ UNCHANGED <<owner, lock, session, stock, missed, req, faults>>

(* The customer pays the draft, through the link in the answer or in the    *)
(* invoice an admin sends, and Shopify takes the units off the stock,       *)
(* whether they are locked or not.                                          *)
Pay(c) ==
    /\ Open(c) /\ ~ InHand(c)
    /\ draft' = [draft EXCEPT ![c].state = "paid"]
    /\ stock' = stock - draft[c].qty
    /\ missed' = IF draft[c].qty > LiveQty(c) THEN missed + draft[c].qty - LiveQty(c) ELSE missed
    /\ UNCHANGED <<owner, lock, session, req, faults>>

(* 15 minutes pass: lock and session have one expiry.  A request is taken   *)
(* to be over by then.                                                      *)
Expire(c) ==
    /\ ~ InHand(c)
    /\ LiveQty(c) > 0 \/ session[c] = "live"
    /\ Letting(IF lock[c].qty > 0 THEN [lock EXCEPT ![c].expired = TRUE] ELSE lock)
    /\ session' = [session EXCEPT ![c] = IF @ = "live" THEN "expired" ELSE @]
    /\ UNCHANGED <<owner, draft, stock, req, faults>>

(* A statement fails or the server stops: what is done stays done.          *)
Abandon(w) ==
    /\ ~ At(w, "idle") /\ faults < MaxFaults
    /\ faults' = faults + 1
    /\ Finish(w)
    /\ UNCHANGED <<owner, lock, session, draft, stock, missed>>
----------------------------------------------------------------------------
Init ==
    /\ owner = [c \in Checkouts |-> None]
    /\ lock = [c \in Checkouts |-> NoLock]
    /\ session = [c \in Checkouts |-> "none"]
    /\ draft = [c \in Checkouts |-> NoDraft]
    /\ stock = Supply
    /\ missed = 0
    /\ req = [w \in Workers |-> Idle]
    /\ faults = 0

Checkout(w) ==
    \/ GetVariantsInventory(w) \/ GetActiveLocksForVariant(w)
    \/ CreateLocks(w) \/ AcquireBatchLocks(w) \/ CreateDraftOrder(w) \/ UpsertCheckoutSession(w)
    \/ UndoDraft(w) \/ UndoLocks(w)

Release(w) == CancelCheckoutDraft(w) \/ DeleteLocksByReference(w) \/ DeleteCheckoutSession(w)

CleanExpiredLocks(w) ==
    DeleteExpiredDraft(w) \/ DeleteExpiredCheckoutSessions(w) \/ DeleteExpiredLocks(w)

Work(w) == Checkout(w) \/ Release(w) \/ CleanExpiredLocks(w)

Start(w) ==
    \/ \E s \in Shoppers : ReleaseLocks(w, s) \/ \E q \in Quantities : InitiateCheckout(w, s, q)
    \/ \E c \in Checkouts : ReleaseCheckout(w, c) \/ HandleOrderPaid(w, c)
    \/ ListExpiredCheckoutSessions(w)

Manual ==
    \/ \E q \in Quantities : CreateManualOrder(q)
    \/ \E c \in Checkouts, q \in Quantities : UpdateDraftOrderItems(c, q)

Serve == \E w \in Workers : Start(w) \/ Work(w) \/ Abandon(w)

Next == Serve \/ Manual \/ \E c \in Checkouts : Pay(c) \/ Expire(c)

Spec == Init /\ [][Next]_vars
----------------------------------------------------------------------------
TypeOK ==
    /\ owner \in [Checkouts -> Shoppers \cup {Admin, None}]
    /\ lock \in [Checkouts -> Lock]
    /\ session \in [Checkouts -> {"none", "live", "expired"}]
    /\ draft \in [Checkouts -> Draft]
    /\ stock \in Int /\ missed \in Nat
    /\ req \in [Workers -> Request]
    /\ faults \in 0 .. MaxFaults

(* AcquireLocks, whatever requests, payments and jobs overlap and whatever  *)
(* fails: the units locked for customers who have still to pay are on hand, *)
(* but for those that were paid without a lock, that were locked after      *)
(* another request had counted and before it locked its own, or whose       *)
(* payment and released lock fell between a look at the stock and a count.  *)
Reserved(c) == IF Paid(c) THEN 0 ELSE LiveQty(c)

Promised    == Total([c \in Checkouts |-> Reserved(c)], Checkouts)

ReservedWithinStock == Promised <= stock + missed

(* While no call fails, the clean-up job can find every draft a shopper     *)
(* might still pay: its session is there, or its request has it in hand.    *)
DraftReachable ==
    faults = 0 => \A c \in Checkouts : Open(c) /\ owner[c] # Admin => session[c] # "none" \/ InHand(c)

(* A lock does not outlive its checkout, even when the request that took it *)
(* or the webhook that should release it failed.                            *)
LocksReleased == \A c \in Checkouts : lock[c].qty > 0 ~> lock[c].qty = 0

=============================================================================
