CONSTANTS
    Payments <- TwoProofs
    Requests = {r1, r2}
    Price = 2
    Advance = 1
    Amounts <- UpToThree
    BalanceProofs = FALSE
    AutoApprovals = TRUE
    PolicyAllows = TRUE
    Crashes = FALSE
SYMMETRY RequestSymmetry
SPECIFICATION MCSpec
CHECK_DEADLOCK FALSE
INVARIANTS
    PaidCancelOwesRefund
