CONSTANTS
    Payments <- TwoProofs
    Requests = {r1, r2, r3}
    Price = 2
    Advance = 1
    Amounts <- UpToThree
    BalanceProofs = TRUE
    AutoApprovals = TRUE
    PolicyAllows = TRUE
    Crashes = TRUE
SYMMETRY RequestSymmetry
SPECIFICATION MCSpec
CHECK_DEADLOCK FALSE
INVARIANTS
    TypeOK
    RejectionReleasesSlot
    BookedOnOneAdvance
    CancelRefundedOnce
    AcceptedMoneyIsKept
PROPERTIES
    FirstReviewWins
    ReviewSparesPaidSlot
