\* Two lines billed together or apart, two admins at once, one fault.
CONSTANTS
    Lines = {l1, l2}
    MaxDrafts = 2
    Requests = {r1, r2}
    Clerks = {r1}
    ExpiryDays = 1
    MaxFaults = 1
    None = None
SPECIFICATION FairSpec
INVARIANTS BilledOnce AdvancedIsPaid
PROPERTIES InvoicesEnd LastPaymentAdvances
CHECK_DEADLOCK FALSE
