------------------------- MODULE SettlementsProofs -------------------------
(***************************************************************************)
(* Theorems about Settlements, for any lines, admins, drafts and faults: a *)
(* line is never billed by two links (BilledOnce), and the order advances  *)
(* only when all its lines were paid (AdvancedIsPaid).                     *)
(***************************************************************************)
EXTENDS Settlements, TLAPS

----------------------------------------------------------------------------
(* A draft that is recorded is recorded for all its lines, and a line that  *)
(* has a draft is no longer pending: it cannot be recorded for another.     *)
Unmade    == \A d \in Drafts : draft[d].state = "none" => draft[d].lines = {}
Carried   == \A r \in Requests : At(r, "mark") =>
                /\ req[r].draft \in Drafts
                /\ draft[req[r].draft].state # "none"
                /\ draft[req[r].draft].lines = req[r].lines
Whole     == \A d \in Drafts : Linked(d) # {} => Linked(d) = draft[d].lines
Unlinked  == \A l \in Lines : Status(l) = "pending" => settlement[l].draft = None

OneLink == Unmade /\ Carried /\ Whole /\ Unlinked

(* Every step towards the end of the order rests on payments: a paid row,   *)
(* the handling of a payment, and whoever found all rows paid.              *)
Settled(l)  == Collected(l) \/ l \in byHand
AllSettled  == \A l \in Lines : Settled(l)
PaidRows    == \A l \in Lines : Status(l) = "paid" => Settled(l)
PaidHooks   == \A d \in Drafts :
                  /\ hook[d].step # "none" => draft[d].state = "paid"
                  /\ hook[d].todo \subseteq draft[d].lines
                  /\ hook[d].todo # {} => hook[d].step # "none"
SureRequest == \A r \in Requests : At(r, "close") => AllSettled
SureHook    == \A d \in Drafts : HookAt(d, "advance") => AllSettled

Earned == PaidRows /\ PaidHooks /\ SureRequest /\ SureHook /\ AdvancedIsPaid

IInv == TypeOK /\ OneLink /\ Earned
----------------------------------------------------------------------------
LEMMA InitHolds == Init => IInv
<1>1. ASSUME Init
      PROVE  TypeOK
  <2>1. RowsOK
    <3>1. [status |-> "pending", age |-> 0, draft |-> None] \in Settlement
      BY BoundsAssumption DEF Settlement, Statuses
    <3> QED BY <1>1, <3>1 DEF Init, RowsOK
  <2>2. ShopOK
    BY <1>1 DEF Init, ShopOK, Draft
  <2>3. WorkOK
    BY <1>1 DEF Init, WorkOK, Request, NoRequest, Hook
  <2>4. faults \in 0 .. MaxFaults
    BY <1>1, BoundsAssumption DEF Init
  <2>5. PastOK
    BY <1>1, <2>4 DEF Init, PastOK
  <2> QED BY <2>1, <2>2, <2>3, <2>5 DEF TypeOK
<1>2. Init => OneLink
  BY NoneAssumption DEF Init, OneLink, Unmade, Carried, Whole, Unlinked, Linked, Status, At, NoRequest, Drafts
<1>3. Init => Earned
  BY DEF Init, Earned, PaidRows, PaidHooks, SureRequest, SureHook, AdvancedIsPaid, Status, At, HookAt, NoRequest
<1> QED BY <1>1, <1>2, <1>3 DEF IInv

(* The types of the rows that a step writes.                                *)
LEMMA SetStatusTyped ==
  ASSUME RowsOK, NEW l \in Lines, NEW s \in Statuses, SetStatus(l, s)
  PROVE  settlement' \in [Lines -> Settlement]
  BY DEF RowsOK, SetStatus, Settlement

LEMMA BecomeTyped ==
  ASSUME WorkOK, NEW r \in Requests, NEW q \in Request, Become(r, q)
  PROVE  req' \in [Requests -> Request]
  BY DEF WorkOK, Become

LEMMA FinishTyped ==
  ASSUME WorkOK, NEW r \in Requests, Finish(r)
  PROVE  req' \in [Requests -> Request]
  BY DEF WorkOK, Finish, Become, NoRequest, Request

LEMMA FailsTyped ==
  ASSUME PastOK, Fails
  PROVE  PastOK'
  BY BoundsAssumption DEF PastOK, Fails, Fault

LEMMA GotoTyped ==
  ASSUME WorkOK, NEW d \in Drafts, NEW s \in {"none", "settle", "check", "advance", "done"}, HookGoto(d, s)
  PROVE  hook' \in [Drafts -> Hook]
  BY DEF WorkOK, HookGoto, Hook

LEMMA InvoiceTyped ==
  ASSUME TypeOK, NEW r \in Requests, Invoice(r)
  PROVE  TypeOK'
<1> USE DEF TypeOK
<1>1. ASSUME NEW S \in (SUBSET Lines) \ {{}}, StartInvoice(r, S)
      PROVE  TypeOK'
  <2>1. [NoRequest EXCEPT !.step = "create", !.lines = S] \in Request
    BY DEF NoRequest, Request
  <2>2. req' \in [Requests -> Request]
    BY <1>1, <2>1, BecomeTyped DEF StartInvoice
  <2> QED BY <1>1, <2>2 DEF StartInvoice, rows, shop, clock, past, RowsOK, ShopOK, WorkOK, PastOK
<1>2. ASSUME NEW d \in Drafts, CreateDraftOrder(r, d)
      PROVE  TypeOK'
  <2>0. req[r] \in Request
    BY DEF WorkOK
  <2>1. [req[r] EXCEPT !.step = "mark", !.draft = d] \in Request
    BY <2>0 DEF Request
  <2>2. req' \in [Requests -> Request]
    BY <1>2, <2>1, BecomeTyped DEF CreateDraftOrder
  <2>3. draft' \in [Drafts -> Draft]
    BY <1>2, <2>0 DEF CreateDraftOrder, ShopOK, Draft, Request
  <2> QED BY <1>2, <2>2, <2>3 DEF CreateDraftOrder, rows, clock, past, RowsOK, ShopOK, WorkOK, PastOK
<1>3. CASE MarkSettlementsInvoiced(r)
  <2>1. req' \in [Requests -> Request]
    BY <1>3, FinishTyped DEF MarkSettlementsInvoiced
  <2>2. req[r].draft \in Drafts \cup {None}
    BY DEF WorkOK, Request
  <2>3. settlement' \in [Lines -> Settlement]
    BY <1>3, <2>2, BoundsAssumption DEF MarkSettlementsInvoiced, Record, RowsOK, Settlement, Statuses
  <2> QED BY <1>3, <2>1, <2>3 DEF MarkSettlementsInvoiced, shop, clock, past, RowsOK, ShopOK, WorkOK, PastOK
<1> QED BY <1>1, <1>2, <1>3 DEF Invoice

LEMMA MarkPaidTyped ==
  ASSUME TypeOK, NEW r \in Requests, MarkPaid(r)
  PROVE  TypeOK'
<1> USE DEF TypeOK
<1>0. req[r] \in Request
  BY DEF WorkOK
<1>1. ASSUME NEW S \in (SUBSET Lines) \ {{}}, StartMarkPaid(r, S)
      PROVE  TypeOK'
  <2>1. [NoRequest EXCEPT !.step = "write", !.lines = S] \in Request
    BY DEF NoRequest, Request
  <2>2. req' \in [Requests -> Request]
    BY <1>1, <2>1, BecomeTyped DEF StartMarkPaid
  <2> QED BY <1>1, <2>2 DEF StartMarkPaid, rows, shop, clock, past, RowsOK, ShopOK, WorkOK, PastOK
<1>2. ASSUME NEW l \in Lines, WritePaid(r, l)
      PROVE  TypeOK'
  <2> DEFINE q == [req[r] EXCEPT !.lines = @ \ {l}, !.step = IF req[r].lines = {l} THEN "check" ELSE @]
  <2>1. q \in Request
    BY <1>0 DEF Request
  <2>2. req' \in [Requests -> Request]
    BY <1>2, <2>1, BecomeTyped DEF WritePaid
  <2>3. CASE SetStatus(l, "paid") /\ byHand' = byHand \cup {l} /\ UNCHANGED <<overtaken, missed, faults>>
    BY <1>2, <2>2, <2>3, SetStatusTyped DEF WritePaid, Statuses, shop, clock, RowsOK, ShopOK, WorkOK, PastOK
  <2>4. CASE Fails /\ UNCHANGED settlement
    BY <1>2, <2>2, <2>4, FailsTyped DEF WritePaid, shop, clock, RowsOK, ShopOK, WorkOK
  <2> QED BY <1>2, <2>3, <2>4 DEF WritePaid
<1>3. CASE CheckOrderStatus(r)
  <2>1. [req[r] EXCEPT !.step = "close"] \in Request
    BY <1>0 DEF Request
  <2>2. req' \in [Requests -> Request]
    BY <1>3, <2>1, BecomeTyped, FinishTyped DEF CheckOrderStatus, Goto
  <2> QED BY <1>3, <2>2 DEF CheckOrderStatus, rows, shop, clock, past, RowsOK, ShopOK, WorkOK, PastOK
<1>4. CASE UpdateOrderStatus(r)
  BY <1>4, FinishTyped DEF UpdateOrderStatus, shop, clock, past, RowsOK, ShopOK, WorkOK, PastOK
<1> QED BY <1>1, <1>2, <1>3, <1>4 DEF MarkPaid

LEMMA PaymentTyped ==
  ASSUME TypeOK, NEW d \in Drafts, Pay(d) \/ HandlePayment(d) \/ HookFails(d)
  PROVE  TypeOK'
<1> USE DEF TypeOK
<1>1. CASE Pay(d)
  <2>1. draft' \in [Drafts -> Draft] /\ hook' \in [Drafts -> Hook]
    BY <1>1 DEF Pay, ShopOK, WorkOK, Draft, Hook
  <2> QED BY <1>1, <2>1 DEF Pay, rows, clock, past, RowsOK, ShopOK, WorkOK, PastOK
<1>2. ASSUME NEW l \in Lines, PaySettlement(d, l)
      PROVE  TypeOK'
  <2>1. hook' \in [Drafts -> Hook]
    BY <1>2 DEF PaySettlement, HookVisits, WorkOK, Hook
  <2>2. CASE SetStatus(l, "paid") /\ item' = [item EXCEPT ![l] = "paid"] /\ UNCHANGED past
    <3>1. settlement' \in [Lines -> Settlement]
      BY <2>2, SetStatusTyped DEF Statuses
    <3> QED BY <1>2, <2>1, <2>2, <3>1 DEF PaySettlement, shop, clock, past, RowsOK, ShopOK, WorkOK, PastOK
  <2>3. CASE Fails /\ UNCHANGED <<settlement, item>>
    BY <1>2, <2>1, <2>3, FailsTyped DEF PaySettlement, shop, clock, RowsOK, ShopOK, WorkOK
  <2> QED BY <1>2, <2>2, <2>3 DEF PaySettlement
<1>3. CASE CheckSettlements(d)
  BY <1>3, GotoTyped DEF CheckSettlements, rows, shop, clock, past, RowsOK, ShopOK, WorkOK, PastOK
<1>4. CASE AdvanceOrder(d)
  <2>1. hook' \in [Drafts -> Hook]
    BY <1>4, GotoTyped DEF AdvanceOrder
  <2>2. PastOK'
    BY <1>4, FailsTyped DEF AdvanceOrder, past, PastOK
  <2>3. RowsOK'
    BY <1>4 DEF AdvanceOrder, AllReceived, RowsOK
  <2> QED BY <1>4, <2>1, <2>2, <2>3 DEF AdvanceOrder, shop, clock, ShopOK, WorkOK
<1>5. CASE HookFails(d)
  BY <1>5, GotoTyped, FailsTyped DEF HookFails, rows, shop, clock, RowsOK, ShopOK, WorkOK
<1> QED BY <1>1, <1>2, <1>3, <1>4, <1>5 DEF HandlePayment

LEMMA DayTyped ==
  ASSUME TypeOK, ProcessReminders \/ Restart \/ NextDay
  PROVE  TypeOK'
<1> USE DEF TypeOK
<1>1. CASE StartJob
  BY <1>1 DEF StartJob, ListExpiring, rows, shop, past, RowsOK, ShopOK, WorkOK, PastOK
<1>2. ASSUME NEW l \in Lines, ExpireSettlement(l)
      PROVE  TypeOK'
  <2>1. WorkOK'
    BY <1>2 DEF ExpireSettlement, WorkOK
  <2>2. ASSUME SetStatus(l, "expired"), Overtaken(l), CreateRefund(l), UNCHANGED <<byHand, missed, faults>>
        PROVE  TypeOK'
    <3>1. settlement' \in [Lines -> Settlement]
      BY <2>2, SetStatusTyped DEF Statuses
    <3>2. refunds' \in [Lines -> Nat]
      BY <2>2 DEF CreateRefund, ShopOK
    <3>3. overtaken' \in BOOLEAN
      BY <2>2 DEF Overtaken
    <3> QED BY <1>2, <2>1, <2>2, <3>1, <3>2, <3>3 DEF ExpireSettlement, RowsOK, ShopOK, PastOK
  <2>3. ASSUME SetStatus(l, "expired"), Overtaken(l), Fault, UNCHANGED <<refunds, byHand, missed>>
        PROVE  TypeOK'
    <3>1. settlement' \in [Lines -> Settlement]
      BY <2>3, SetStatusTyped DEF Statuses
    <3>2. overtaken' \in BOOLEAN
      BY <2>3 DEF Overtaken
    <3>3. faults' \in 0 .. MaxFaults
      BY <2>3, BoundsAssumption DEF Fault, PastOK
    <3> QED BY <1>2, <2>1, <2>3, <3>1, <3>2, <3>3 DEF ExpireSettlement, RowsOK, ShopOK, PastOK
  <2>4. ASSUME Fault, missed' = TRUE, UNCHANGED <<settlement, refunds, byHand, overtaken>>
        PROVE  TypeOK'
    <3>1. faults' \in 0 .. MaxFaults
      BY <2>4, BoundsAssumption DEF Fault, PastOK
    <3> QED BY <1>2, <2>1, <2>4, <3>1 DEF ExpireSettlement, RowsOK, ShopOK, PastOK
  <2> QED BY <1>2, <2>2, <2>3, <2>4 DEF ExpireSettlement
<1>3. CASE Restart
  <2>1. hook' \in [Drafts -> Hook]
    BY <1>3 DEF Restart, WorkOK, ShopOK, Hook, Draft
  <2>2. req' \in [Requests -> Request]
    BY <1>3 DEF Restart, NoRequest, Request
  <2>3. faults' \in 0 .. MaxFaults
    BY <1>3, BoundsAssumption DEF Restart, Fault, PastOK
  <2>4. missed' \in BOOLEAN
    BY <1>3 DEF Restart
  <2>5. today' \in {"due", "done", "lost"} /\ job' \in SUBSET Lines
    BY <1>3 DEF Restart, WorkOK
  <2> QED BY <1>3, <2>1, <2>2, <2>3, <2>4, <2>5 DEF Restart, rows, shop, RowsOK, ShopOK, WorkOK, PastOK
<1>4. CASE NextDay
  <2>1. \A l \in Lines : settlement[l].age <= ExpiryDays => settlement[l].age + 1 \in 0 .. ExpiryDays + 1
    BY BoundsAssumption DEF RowsOK, Settlement
  <2>2. settlement' \in [Lines -> Settlement]
    BY <1>4, <2>1 DEF NextDay, RowsOK, Settlement
  <2> QED BY <1>4, <2>2 DEF NextDay, shop, past, RowsOK, ShopOK, WorkOK, PastOK
<1> QED BY <1>1, <1>2, <1>3, <1>4 DEF ProcessReminders

LEMMA TypesKept ==
  ASSUME TypeOK, [Next]_vars
  PROVE  TypeOK'
<1>1. ASSUME NEW r \in Requests, Abandon(r)
      PROVE  TypeOK'
  BY <1>1, FinishTyped, FailsTyped DEF Abandon, rows, shop, clock, TypeOK, RowsOK, ShopOK, WorkOK
<1>2. CASE UNCHANGED vars
  BY <1>2 DEF vars, rows, shop, clock, past, TypeOK, RowsOK, ShopOK, WorkOK, PastOK
<1> QED BY <1>1, <1>2, InvoiceTyped, MarkPaidTyped, PaymentTyped, DayTyped, ClerksAssumption DEF Next
----------------------------------------------------------------------------
(* A step that leaves the drafts alone and what rows link to keeps OneLink, *)
(* if no row becomes pending and no request comes to carry another draft.   *)
LEMMA LinksRest ==
  ASSUME TypeOK, OneLink, TypeOK',
         \/ draft' = draft
         \/ \E d \in Drafts : draft[d].state # "none" /\ draft' = [draft EXCEPT ![d].state = "paid"],
         \A l \in Lines : /\ settlement'[l].draft = settlement[l].draft
                          /\ settlement'[l].status = "pending" => Status(l) = "pending",
         \A r \in Requests : req'[r].step = "mark" => req'[r] = req[r]
  PROVE  OneLink'
<1>1. \A d \in Drafts : /\ draft'[d].lines = draft[d].lines
                        /\ draft'[d].state = "none" <=> draft[d].state = "none"
  <2>1. CASE draft' = draft
    BY <2>1
  <2>2. ASSUME NEW e \in Drafts, draft' = [draft EXCEPT ![e].state = "paid"],
               draft[e].state # "none"
        PROVE  \A d \in Drafts : /\ draft'[d].lines = draft[d].lines
                                 /\ draft'[d].state = "none" <=> draft[d].state = "none"
    BY <2>2 DEF TypeOK, ShopOK, Draft
  <2> QED BY <2>1, <2>2
<1>2. \A d \in Drafts : Linked(d)' = Linked(d)
  BY DEF Linked
<1>3. Unmade' /\ Whole'
  BY <1>1, <1>2 DEF OneLink, Unmade, Whole
<1>4. Carried'
  BY <1>1 DEF OneLink, Carried, At
<1>5. Unlinked'
  BY DEF OneLink, Unlinked, Status
<1> QED BY <1>3, <1>4, <1>5 DEF OneLink

LEMMA LinksRecorded ==
  ASSUME IInv, NEW r \in Requests, MarkSettlementsInvoiced(r)
  PROVE  OneLink'
<1>a. /\ req[r].draft \in Drafts /\ draft[req[r].draft].lines = req[r].lines
      /\ req[r].lines \in SUBSET Lines /\ None \notin Drafts
  BY NoneAssumption DEF IInv, OneLink, Carried, MarkSettlementsInvoiced, TypeOK, WorkOK, Request, Drafts
<1>b. PICK d \in Drafts, S \in SUBSET Lines : d = req[r].draft /\ S = req[r].lines
  BY <1>a
<1>0. draft[d].lines = S /\ None \notin Drafts
  BY <1>a, <1>b
<1>1. Unmade' /\ Carried'
  <2>1. \A q \in Requests : q # r => req'[q] = req[q]
    BY DEF MarkSettlementsInvoiced, Finish, Become, IInv, TypeOK, WorkOK
  <2>2. req'[r].step = "idle"
    BY DEF MarkSettlementsInvoiced, Finish, Become, IInv, TypeOK, WorkOK, NoRequest
  <2> QED BY <2>1, <2>2 DEF MarkSettlementsInvoiced, shop, IInv, OneLink, Unmade, Carried, At
<1>2. CASE Pending(S) = S
  <2>1. \A l \in S : settlement[l].draft = None
    BY <1>0, <1>2 DEF Pending, IInv, OneLink, Unlinked
  <2>2. \A l \in Lines : settlement'[l] = IF l \in S THEN [status |-> "invoiced", age |-> 0, draft |-> d]
                                          ELSE settlement[l]
    BY <1>2, <1>b DEF MarkSettlementsInvoiced, Record
  <2>3. Linked(d)' = S
    BY <1>0, <2>2 DEF Linked, IInv, OneLink, Whole
  <2>4. \A e \in Drafts : e # d => Linked(e)' = Linked(e)
    BY <1>0, <2>1, <2>2 DEF Linked
  <2>5. Whole'
    BY <1>0, <2>3, <2>4 DEF IInv, OneLink, Whole, MarkSettlementsInvoiced, shop
  <2>6. Unlinked'
    BY <2>2 DEF IInv, OneLink, Unlinked, Status
  <2> QED BY <1>1, <2>5, <2>6 DEF OneLink
<1>3. CASE Pending(S) # S
  <2>1. settlement' = settlement /\ draft' = draft
    BY <1>3, <1>b DEF MarkSettlementsInvoiced, shop
  <2> QED BY <1>1, <2>1 DEF IInv, OneLink, Whole, Unlinked, Linked, Status
<1> QED BY <1>2, <1>3

LEMMA LinksCreated ==
  ASSUME IInv, NEW r \in Requests, NEW d \in Drafts, CreateDraftOrder(r, d)
  PROVE  OneLink'
<1>1. /\ draft[d].state = "none" /\ draft[d].lines = {} /\ Linked(d) = {}
      /\ settlement' = settlement
  BY DEF CreateDraftOrder, rows, IInv, OneLink, Unmade, Whole
<1>2. /\ draft'[d] = [state |-> "open", lines |-> req[r].lines]
      /\ \A e \in Drafts : e # d => draft'[e] = draft[e]
  BY DEF CreateDraftOrder, IInv, TypeOK, ShopOK
<1>3. /\ req'[r] = [req[r] EXCEPT !.step = "mark", !.draft = d]
      /\ \A q \in Requests : q # r => req'[q] = req[q]
      /\ req[r] \in Request
  BY DEF CreateDraftOrder, Become, IInv, TypeOK, WorkOK
<1>4. Unmade'
  BY <1>2 DEF IInv, OneLink, Unmade
<1>5. Carried'
  <2>1. At(r, "mark")' => draft'[req'[r].draft] = [state |-> "open", lines |-> req'[r].lines] /\ req'[r].draft = d
    BY <1>2, <1>3 DEF Request
  <2>2. \A q \in Requests : q # r /\ At(q, "mark") => req[q].draft # d
    BY <1>1 DEF IInv, OneLink, Carried
  <2>3. ASSUME NEW q \in Requests, q # r, At(q, "mark")'
        PROVE  /\ req'[q].draft \in Drafts /\ draft'[req'[q].draft].state # "none"
               /\ draft'[req'[q].draft].lines = req'[q].lines
    <3>1. At(q, "mark") /\ req'[q] = req[q]
      BY <1>3, <2>3 DEF At
    <3>2. req[q].draft \in Drafts /\ draft'[req[q].draft] = draft[req[q].draft]
      BY <1>2, <2>2, <2>3, <3>1 DEF IInv, OneLink, Carried
    <3> QED BY <3>1, <3>2 DEF IInv, OneLink, Carried
  <2> QED BY <2>1, <2>3 DEF Carried, At
<1>6. Whole'
  BY <1>1, <1>2 DEF IInv, OneLink, Whole, Linked
<1>7. Unlinked'
  BY <1>1 DEF IInv, OneLink, Unlinked, Status
<1> QED BY <1>4, <1>5, <1>6, <1>7 DEF OneLink

LEMMA LinksKept ==
  ASSUME IInv, TypeOK', [Next]_vars
  PROVE  OneLink'
<1> USE DEF IInv
<1>1. ASSUME NEW r \in Requests, Invoice(r)
      PROVE  OneLink'
  <2>1. ASSUME NEW S \in (SUBSET Lines) \ {{}}, StartInvoice(r, S)
        PROVE  OneLink'
    BY <2>1, LinksRest DEF StartInvoice, Become, NoRequest, rows, shop, Status, TypeOK, WorkOK
  <2> QED BY <1>1, <2>1, LinksCreated, LinksRecorded DEF Invoice
<1>2. ASSUME NEW r \in Requests, MarkPaid(r)
      PROVE  OneLink'
  <2>1. draft' = draft
    BY <1>2 DEF MarkPaid, StartMarkPaid, WritePaid, CheckOrderStatus, UpdateOrderStatus, shop
  <2>2. \A l \in Lines : /\ settlement'[l].draft = settlement[l].draft
                         /\ settlement'[l].status = "pending" => Status(l) = "pending"
    <3>1. CASE settlement' = settlement
      BY <3>1 DEF Status
    <3>2. ASSUME NEW l \in Lines, SetStatus(l, "paid")
          PROVE  \A k \in Lines : /\ settlement'[k].draft = settlement[k].draft
                                  /\ settlement'[k].status = "pending" => Status(k) = "pending"
      BY <3>2 DEF SetStatus, Status, TypeOK, RowsOK, Settlement
    <3> QED BY <1>2, <3>1, <3>2 DEF MarkPaid, StartMarkPaid, WritePaid, CheckOrderStatus, UpdateOrderStatus, rows
  <2>3. ASSUME NEW q \in Requests, req'[q].step = "mark"
        PROVE  req'[q] = req[q]
    <3>1. CASE q # r
      BY <1>2, <3>1 DEF MarkPaid, StartMarkPaid, WritePaid, CheckOrderStatus, UpdateOrderStatus, Goto, Finish,
         Become, TypeOK, WorkOK
    <3>2. req'[r].step # "mark"
      <4>1. req \in [Requests -> Request] /\ req[r] \in Request
        BY DEF TypeOK, WorkOK
      <4>2. ASSUME NEW S \in (SUBSET Lines) \ {{}}, StartMarkPaid(r, S)
            PROVE  req'[r].step # "mark"
        BY <4>1, <4>2 DEF StartMarkPaid, Become, NoRequest
      <4>3. ASSUME NEW l \in Lines, WritePaid(r, l)
            PROVE  req'[r].step # "mark"
        BY <4>1, <4>3 DEF WritePaid, Become, At, Request
      <4>4. CASE CheckOrderStatus(r) \/ UpdateOrderStatus(r)
        BY <4>1, <4>4 DEF CheckOrderStatus, UpdateOrderStatus, Goto, Finish, Become, NoRequest, Request
      <4> QED BY <1>2, <4>2, <4>3, <4>4 DEF MarkPaid
    <3> QED BY <2>3, <3>1, <3>2
  <2> QED BY <2>1, <2>2, <2>3, LinksRest
<1>3. ASSUME NEW r \in Requests, Abandon(r)
      PROVE  OneLink'
  BY <1>3, LinksRest DEF Abandon, Finish, Become, NoRequest, rows, shop, Status, TypeOK, WorkOK
<1>4. ASSUME NEW d \in Drafts, Pay(d) \/ HandlePayment(d) \/ HookFails(d)
      PROVE  OneLink'
  <2>1. req' = req
    BY <1>4 DEF Pay, HandlePayment, PaySettlement, CheckSettlements, AdvanceOrder, HookFails
  <2>2. \/ draft' = draft
        \/ draft[d].state # "none" /\ draft' = [draft EXCEPT ![d].state = "paid"]
    BY <1>4 DEF Pay, HandlePayment, PaySettlement, CheckSettlements, AdvanceOrder, HookFails, shop
  <2>3. \A l \in Lines : /\ settlement'[l].draft = settlement[l].draft
                         /\ settlement'[l].status = "pending" => Status(l) = "pending"
    BY <1>4 DEF Pay, HandlePayment, PaySettlement, CheckSettlements, AdvanceOrder, HookFails, SetStatus,
         rows, Status, TypeOK, RowsOK, Settlement
  <2> QED BY <2>1, <2>2, <2>3, LinksRest
<1>5. CASE ProcessReminders \/ Restart \/ NextDay
  <2>1. draft' = draft
    BY <1>5 DEF ProcessReminders, StartJob, ExpireSettlement, Restart, NextDay, shop
  <2>2. \A l \in Lines : /\ settlement'[l].draft = settlement[l].draft
                         /\ settlement'[l].status = "pending" => Status(l) = "pending"
    BY <1>5 DEF ProcessReminders, StartJob, ExpireSettlement, Restart, NextDay, SetStatus, rows,
         Status, TypeOK, RowsOK, Settlement
  <2>3. \A q \in Requests : req'[q].step = "mark" => req'[q] = req[q]
    BY <1>5 DEF ProcessReminders, StartJob, ExpireSettlement, Restart, NextDay, NoRequest
  <2> QED BY <2>1, <2>2, <2>3, LinksRest
<1>6. CASE UNCHANGED vars
  BY <1>6, LinksRest DEF vars, rows, shop, Status
<1> QED BY <1>1, <1>2, <1>3, <1>4, <1>5, <1>6, ClerksAssumption DEF Next
----------------------------------------------------------------------------
(* What was paid stays paid, and so what rests on it.                       *)
LEMMA PaidStays ==
  ASSUME IInv, [Next]_vars
  PROVE  /\ byHand \subseteq byHand'
         /\ \A d \in Drafts : draft[d].state = "paid" => draft'[d] = draft[d]
<1> USE DEF IInv
<1>1. byHand \subseteq byHand'
  BY DEF Next, Invoice, StartInvoice, CreateDraftOrder, MarkSettlementsInvoiced, Abandon, MarkPaid,
     StartMarkPaid, WritePaid, CheckOrderStatus, UpdateOrderStatus, Pay, HandlePayment, PaySettlement,
     CheckSettlements, AdvanceOrder, HookFails, ProcessReminders, StartJob, ExpireSettlement, Restart,
     NextDay, Fails, past, vars
<1>2. CASE draft' = draft
  BY <1>1, <1>2
<1>3. ASSUME NEW r \in Requests, NEW d \in Drafts, CreateDraftOrder(r, d)
      PROVE  \A e \in Drafts : draft[e].state = "paid" => draft'[e] = draft[e]
  BY <1>3 DEF CreateDraftOrder, TypeOK, ShopOK
<1>4. ASSUME NEW d \in Drafts, Pay(d)
      PROVE  \A e \in Drafts : draft[e].state = "paid" => draft'[e] = draft[e]
  BY <1>4 DEF Pay, TypeOK, ShopOK
<1>5. \/ draft' = draft
      \/ \E r \in Requests, d \in Drafts : CreateDraftOrder(r, d)
      \/ \E d \in Drafts : Pay(d)
  BY DEF Next, Invoice, StartInvoice, MarkSettlementsInvoiced, Abandon, MarkPaid,
     StartMarkPaid, WritePaid, CheckOrderStatus, UpdateOrderStatus, HandlePayment, PaySettlement,
     CheckSettlements, AdvanceOrder, HookFails, ProcessReminders, StartJob, ExpireSettlement, Restart,
     NextDay, shop, vars
<1> QED BY <1>1, <1>2, <1>3, <1>4, <1>5

LEMMA SettledStays ==
  ASSUME IInv, [Next]_vars, NEW l \in Lines, Settled(l)
  PROVE  Settled(l)'
  BY PaidStays DEF Settled, Collected

(* A step keeps Earned if it marks no row as paid but with a payment, and   *)
(* no request or handler comes to close or to advance but with all of them. *)
LEMMA EarnedRests ==
  ASSUME IInv, [Next]_vars,
         \A l \in Lines : settlement'[l].status = "paid" => Status(l) = "paid" \/ Settled(l)',
         PaidHooks',
         \A r \in Requests : At(r, "close")' => AllSettled,
         \A d \in Drafts : HookAt(d, "advance")' => AllSettled,
         order' # "open" \/ step4' => order # "open" \/ step4 \/ AllSettled
  PROVE  Earned'
<1>1. AllSettled => AllSettled'
  BY SettledStays DEF AllSettled
<1>2. PaidRows'
  BY SettledStays DEF IInv, Earned, PaidRows, Status
<1>3. SureRequest' /\ SureHook'
  BY <1>1 DEF SureRequest, SureHook
<1>4. AdvancedIsPaid'
  <2>1. AdvancedIsPaid => (order # "open" \/ step4 => AllSettled)
    BY DEF AdvancedIsPaid, AllSettled, Settled
  <2>2. AllSettled' => AdvancedIsPaid'
    BY DEF AdvancedIsPaid, AllSettled, Settled
  <2>3. CASE order' # "open" \/ step4'
    BY <1>1, <2>1, <2>2, <2>3 DEF IInv, Earned
  <2>4. CASE ~ (order' # "open" \/ step4')
    BY <2>4 DEF AdvancedIsPaid
  <2> QED BY <2>3, <2>4
<1> QED BY <1>2, <1>3, <1>4 DEF Earned

(* The handlers' lists, when drafts and handlers rest.                      *)
LEMMA HooksRest ==
  ASSUME IInv, [Next]_vars, hook' = hook
  PROVE  PaidHooks'
<1>1. \A d \in Drafts : hook[d].step = "none" => hook[d].todo = {}
  BY DEF IInv, Earned, PaidHooks
<1>2. \A d \in Drafts : hook[d].step # "none" => draft[d].state = "paid" /\ draft'[d] = draft[d]
  BY PaidStays DEF IInv, Earned, PaidHooks
<1> QED BY <1>1, <1>2 DEF IInv, Earned, PaidHooks

(* A step of neither an admin who marks nor a payment.                      *)
LEMMA EarnedUntouched ==
  ASSUME IInv, [Next]_vars,
         \A l \in Lines : settlement'[l].status = "paid" => Status(l) = "paid",
         PaidHooks',
         \A r \in Requests : At(r, "close")' => At(r, "close"),
         \A d \in Drafts : HookAt(d, "advance")' => HookAt(d, "advance"),
         order' = order, step4' = step4
  PROVE  Earned'
  BY EarnedRests DEF IInv, Earned, SureRequest, SureHook

LEMMA PaidForAll ==
  ASSUME IInv, AllSettlementsPaid
  PROVE  AllSettled
  BY DEF IInv, Earned, PaidRows, AllSettlementsPaid, AllSettled

LEMMA EarnedByInvoice ==
  ASSUME IInv, [Next]_vars, NEW r \in Requests, Invoice(r) \/ Abandon(r)
  PROVE  Earned'
<1>1. hook' = hook /\ order' = order /\ step4' = step4
  BY DEF Invoice, StartInvoice, CreateDraftOrder, MarkSettlementsInvoiced, Abandon, rows
<1>2. \A l \in Lines : settlement'[l].status = "paid" => Status(l) = "paid"
  <2>1. CASE settlement' = settlement
    BY <2>1 DEF Status
  <2>2. CASE Record(req[r].lines, req[r].draft)
    BY <2>2 DEF Record, Status
  <2>3. settlement' = settlement \/ Record(req[r].lines, req[r].draft)
    BY DEF Invoice, StartInvoice, CreateDraftOrder, MarkSettlementsInvoiced, Abandon, rows
  <2> QED BY <2>1, <2>2, <2>3
<1>3. \A q \in Requests : At(q, "close")' => At(q, "close")
  <2>1. req \in [Requests -> Request] /\ req[r] \in Request
    BY DEF IInv, TypeOK, WorkOK
  <2>2. \A q \in Requests : q # r => req'[q] = req[q]
    BY <2>1 DEF Invoice, StartInvoice, CreateDraftOrder, MarkSettlementsInvoiced, Abandon, Finish, Become
  <2>3. req'[r].step # "close"
    <3>1. ASSUME NEW S \in (SUBSET Lines) \ {{}}, StartInvoice(r, S)
          PROVE  req'[r].step # "close"
      BY <2>1, <3>1 DEF StartInvoice, Become, NoRequest
    <3>2. ASSUME NEW d \in Drafts, CreateDraftOrder(r, d)
          PROVE  req'[r].step # "close"
      BY <2>1, <3>2 DEF CreateDraftOrder, Become, Request
    <3>3. CASE MarkSettlementsInvoiced(r) \/ Abandon(r)
      BY <2>1, <3>3 DEF MarkSettlementsInvoiced, Abandon, Finish, Become, NoRequest
    <3> QED BY <3>1, <3>2, <3>3 DEF Invoice
  <2> QED BY <2>2, <2>3 DEF At
<1>4. PaidHooks'
  BY <1>1, HooksRest
<1> QED BY <1>1, <1>2, <1>3, <1>4, EarnedUntouched DEF HookAt

LEMMA EarnedByHand ==
  ASSUME IInv, [Next]_vars, NEW r \in Requests, MarkPaid(r)
  PROVE  Earned'
<1>0. req \in [Requests -> Request] /\ req[r] \in Request
  BY DEF IInv, TypeOK, WorkOK
<1>1. hook' = hook /\ step4' = step4
  BY DEF MarkPaid, StartMarkPaid, WritePaid, CheckOrderStatus, UpdateOrderStatus, rows
<1>2. PaidHooks'
  BY <1>1, HooksRest
<1>3. \A q \in Requests : q # r => req'[q] = req[q]
  BY <1>0 DEF MarkPaid, StartMarkPaid, WritePaid, CheckOrderStatus, UpdateOrderStatus, Goto, Finish, Become
<1>4. ASSUME NEW S \in (SUBSET Lines) \ {{}}, StartMarkPaid(r, S)
      PROVE  Earned'
  <2>1. req'[r].step = "write"
    BY <1>0, <1>4 DEF StartMarkPaid, Become, NoRequest
  <2>2. settlement' = settlement /\ order' = order
    BY <1>4 DEF StartMarkPaid, rows
  <2> QED BY <1>1, <1>2, <1>3, <2>1, <2>2, EarnedUntouched DEF At, HookAt, Status
<1>5. ASSUME NEW l \in Lines, WritePaid(r, l)
      PROVE  Earned'
  <2>1. req'[r].step # "close" /\ order' = order
    BY <1>0, <1>5 DEF WritePaid, Become, At, Request
  <2>2. \A k \in Lines : settlement'[k].status = "paid" => Status(k) = "paid" \/ Settled(k)'
    BY <1>5 DEF WritePaid, SetStatus, Settled, Status, IInv, TypeOK, RowsOK
  <2>3. \A q \in Requests : At(q, "close")' => AllSettled
    BY <1>3, <2>1 DEF At, IInv, Earned, SureRequest
  <2>4. \A d \in Drafts : HookAt(d, "advance")' => AllSettled
    BY <1>1 DEF HookAt, IInv, Earned, SureHook
  <2> QED BY <1>1, <1>2, <2>1, <2>2, <2>3, <2>4, EarnedRests
<1>6. CASE CheckOrderStatus(r)
  <2>1. settlement' = settlement /\ order' = order
    BY <1>6 DEF CheckOrderStatus, rows
  <2>2. req'[r].step = "close" => AllSettled
    BY <1>0, <1>6, PaidForAll DEF CheckOrderStatus, Goto, Finish, Become, NoRequest
  <2>3. \A q \in Requests : At(q, "close")' => AllSettled
    BY <1>3, <2>2 DEF At, IInv, Earned, SureRequest
  <2>4. \A d \in Drafts : HookAt(d, "advance")' => AllSettled
    BY <1>1 DEF HookAt, IInv, Earned, SureHook
  <2> QED BY <1>1, <1>2, <2>1, <2>3, <2>4, EarnedRests DEF Status
<1>7. CASE UpdateOrderStatus(r)
  <2>1. AllSettled /\ settlement' = settlement
    BY <1>7 DEF UpdateOrderStatus, IInv, Earned, SureRequest
  <2> QED BY <1>1, <1>2, <2>1, EarnedRests DEF Status
<1> QED BY <1>4, <1>5, <1>6, <1>7 DEF MarkPaid

LEMMA EarnedByPayment ==
  ASSUME IInv, [Next]_vars, NEW d \in Drafts, Pay(d) \/ HandlePayment(d) \/ HookFails(d)
  PROVE  Earned'
<1>0. /\ hook \in [Drafts -> Hook] /\ draft \in [Drafts -> Draft]
      /\ req' = req
  BY DEF IInv, TypeOK, WorkOK, ShopOK, Pay, HandlePayment, PaySettlement, CheckSettlements, AdvanceOrder, HookFails
<1>1. \A q \in Requests : At(q, "close")' => AllSettled
  BY <1>0 DEF At, IInv, Earned, SureRequest
<1>2. \A e \in Drafts : e # d => hook'[e] = hook[e]
  BY <1>0 DEF Pay, HandlePayment, PaySettlement, HookVisits, CheckSettlements, AdvanceOrder, HookFails, HookGoto
<1>3. ASSUME hook'[d].step # "none" => draft'[d].state = "paid",
             hook'[d].todo \subseteq draft'[d].lines,
             hook'[d].todo # {} => hook'[d].step # "none"
      PROVE  PaidHooks'
  <2>1. ASSUME NEW e \in Drafts, e # d
        PROVE  /\ hook'[e].step # "none" => draft'[e].state = "paid"
               /\ hook'[e].todo \subseteq draft'[e].lines
               /\ hook'[e].todo # {} => hook'[e].step # "none"
    <3>1. hook'[e] = hook[e]
      BY <1>2, <2>1
    <3>2. hook[e].step # "none" => draft[e].state = "paid" /\ draft'[e] = draft[e]
      BY PaidStays DEF IInv, Earned, PaidHooks
    <3> QED BY <3>1, <3>2 DEF IInv, Earned, PaidHooks
  <2> QED BY <1>3, <2>1 DEF PaidHooks
<1>4. ASSUME hook'[d].step = "advance" => AllSettled
      PROVE  \A e \in Drafts : HookAt(e, "advance")' => AllSettled
  BY <1>2, <1>4 DEF HookAt, IInv, Earned, SureHook
<1>5. CASE Pay(d)
  <2>1. /\ hook'[d] = [step |-> "settle", todo |-> draft[d].lines]
        /\ draft'[d].state = "paid" /\ draft'[d].lines = draft[d].lines
        /\ settlement' = settlement /\ order' = order /\ step4' = step4
    BY <1>0, <1>5 DEF Pay, rows, Draft
  <2> QED BY <1>1, <1>3, <1>4, <2>1, EarnedRests DEF Status
<1>a. ASSUME hook[d].step # "none"
      PROVE  draft[d].state = "paid" /\ draft'[d] = draft[d]
  BY <1>a, PaidStays DEF IInv, Earned, PaidHooks
<1>6. ASSUME NEW l \in Lines, PaySettlement(d, l)
      PROVE  Earned'
  <2>1. /\ hook[d].step = "settle" /\ l \in hook[d].todo
        /\ hook'[d].step \in {"check", "settle"} /\ hook'[d].todo \subseteq hook[d].todo
        /\ order' = order /\ step4' = step4
    BY <1>0, <1>6 DEF PaySettlement, HookAt, HookVisits
  <2>2. Settled(l)'
    BY <1>a, <2>1 DEF Settled, Collected, IInv, Earned, PaidHooks
  <2>3. \A k \in Lines : settlement'[k].status = "paid" => Status(k) = "paid" \/ Settled(k)'
    BY <1>6, <2>2 DEF PaySettlement, SetStatus, Status, IInv, TypeOK, RowsOK
  <2>4. PaidHooks'
    BY <1>3, <1>a, <2>1 DEF IInv, Earned, PaidHooks
  <2> QED BY <1>1, <1>4, <2>1, <2>3, <2>4, EarnedRests
<1>7. CASE CheckSettlements(d)
  <2>1. /\ hook[d].step = "check" /\ hook'[d].todo = hook[d].todo
        /\ hook'[d].step \in {"advance", "done"}
        /\ hook'[d].step = "advance" => AllSettlementsPaid
        /\ settlement' = settlement /\ order' = order /\ step4' = step4
    BY <1>0, <1>7 DEF CheckSettlements, HookAt, HookGoto, rows, Hook
  <2>2. PaidHooks'
    BY <1>3, <1>a, <2>1 DEF IInv, Earned, PaidHooks
  <2> QED BY <1>1, <1>4, <2>1, <2>2, PaidForAll, EarnedRests DEF Status
<1>8. CASE AdvanceOrder(d)
  <2>1. /\ hook[d].step = "advance" /\ hook'[d].todo = hook[d].todo /\ hook'[d].step = "done"
        /\ settlement' = settlement
    BY <1>0, <1>8 DEF AdvanceOrder, HookAt, HookGoto, Hook
  <2>2. PaidHooks'
    BY <1>3, <1>a, <2>1 DEF IInv, Earned, PaidHooks
  <2>3. AllSettled
    BY <2>1 DEF IInv, Earned, SureHook, HookAt
  <2> QED BY <1>1, <1>4, <2>1, <2>2, <2>3, EarnedRests DEF Status
<1>9. CASE HookFails(d)
  <2>1. /\ hook[d].step # "none" /\ hook'[d].todo = hook[d].todo /\ hook'[d].step = "done"
        /\ settlement' = settlement /\ order' = order /\ step4' = step4
    BY <1>0, <1>9 DEF HookFails, Handling, HookGoto, rows, Hook
  <2>2. PaidHooks'
    BY <1>3, <1>a, <2>1 DEF IInv, Earned, PaidHooks
  <2> QED BY <1>1, <1>4, <2>1, <2>2, EarnedRests DEF Status
<1> QED BY <1>5, <1>6, <1>7, <1>8, <1>9 DEF HandlePayment

LEMMA EarnedByDay ==
  ASSUME IInv, [Next]_vars, ProcessReminders \/ Restart \/ NextDay
  PROVE  Earned'
<1>1. order' = order /\ step4' = step4
  BY DEF ProcessReminders, StartJob, ExpireSettlement, Restart, NextDay, rows
<1>2. \A l \in Lines : settlement'[l].status = "paid" => Status(l) = "paid"
  BY DEF ProcessReminders, StartJob, ExpireSettlement, Restart, NextDay, SetStatus, rows, Status,
     IInv, TypeOK, RowsOK, Settlement
<1>3. \A q \in Requests : At(q, "close")' => At(q, "close")
  BY DEF ProcessReminders, StartJob, ExpireSettlement, Restart, NextDay, At, NoRequest
<1>4. CASE Restart
  <2>1. \A d \in Drafts : hook'[d] = IF Handling(d) THEN [step |-> "settle", todo |-> draft[d].lines] ELSE hook[d]
    BY <1>4 DEF Restart
  <2>2. draft' = draft
    BY <1>4 DEF Restart, shop
  <2>3. ASSUME NEW d \in Drafts
        PROVE  /\ hook'[d].step # "none" => draft'[d].state = "paid"
               /\ hook'[d].todo \subseteq draft'[d].lines
               /\ hook'[d].todo # {} => hook'[d].step # "none"
               /\ HookAt(d, "advance")' => HookAt(d, "advance")
    <3>1. CASE Handling(d)
      <4>1. hook'[d] = [step |-> "settle", todo |-> draft[d].lines]
        BY <2>1, <3>1
      <4>2. draft[d].state = "paid"
        BY <3>1 DEF Handling, IInv, Earned, PaidHooks
      <4> QED BY <2>2, <4>1, <4>2 DEF HookAt
    <3>2. CASE ~ Handling(d)
      <4>1. hook'[d] = hook[d]
        BY <2>1, <3>2
      <4> QED BY <2>2, <4>1 DEF HookAt, IInv, Earned, PaidHooks
    <3> QED BY <3>1, <3>2
  <2>4. PaidHooks'
    BY <2>3 DEF PaidHooks
  <2> QED BY <1>1, <1>2, <1>3, <2>3, <2>4, EarnedUntouched
<1>5. CASE hook' = hook
  BY <1>1, <1>2, <1>3, <1>5, HooksRest, EarnedUntouched DEF HookAt
<1> QED BY <1>4, <1>5 DEF ProcessReminders, StartJob, ExpireSettlement, NextDay

LEMMA EarnedKept ==
  ASSUME IInv, [Next]_vars
  PROVE  Earned'
<1>1. CASE UNCHANGED vars
  BY <1>1, HooksRest, EarnedUntouched DEF vars, rows, Status, At, HookAt
<1> QED BY <1>1, EarnedByInvoice, EarnedByHand, EarnedByPayment, EarnedByDay, ClerksAssumption DEF Next

LEMMA IInvHolds == Spec => []IInv
<1>1. IInv /\ [Next]_vars => IInv'
  BY TypesKept, LinksKept, EarnedKept DEF IInv
<1> QED BY <1>1, InitHolds, PTL DEF Spec
----------------------------------------------------------------------------
(* Every variable keeps its type: no age passes the bound, no payment is of *)
(* an unknown draft.                                                        *)
THEOREM TypeCorrect == Spec => []TypeOK
  BY IInvHolds, PTL DEF IInv

(* However requests to invoice race, a line is recorded for one draft, and  *)
(* the customer has one link to pay it with (MarkSettlementsInvoiced).      *)
THEOREM BilledCorrect == Spec => []BilledOnce
<1>1. IInv => BilledOnce
  <2> SUFFICES ASSUME IInv, NEW d \in Drafts, NEW e \in Drafts, d # e, Linked(d) # {}, Linked(e) # {}
               PROVE  draft[d].lines \cap draft[e].lines = {}
    BY DEF BilledOnce
  <2> QED BY DEF IInv, OneLink, Whole, Linked
<1> QED BY <1>1, IInvHolds, PTL

(* Whatever fails, and in whatever order payments, admins and the job come: *)
(* the order goes on only when each line was paid, or marked so by hand.    *)
THEOREM AdvancedCorrect == Spec => []AdvancedIsPaid
<1>1. IInv => AdvancedIsPaid
  BY DEF IInv, Earned
<1> QED BY <1>1, IInvHolds, PTL
============================================================================
