CONSTANTS
    Features = {f1, f2}
    Invoices = {i1, i2}
    Payments = {p1, p2, p3}
    TrialDays = 1
    LeadDays = 1
    GraceDays = 1
    MonthEnd <- EvenDays
    LastDay = 3
SYMMETRY BillingSymmetry
SPECIFICATION Spec
INVARIANTS
    PaidThroughIsPaid
