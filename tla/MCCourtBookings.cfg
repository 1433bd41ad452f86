SPECIFICATION FairSpec
CONSTANTS
    Bookings = {b1, b2}
    GridTicks = 1
    MaxSlots = 2
    GridStarts <- TwoSlots
    ClosingTick = 3
    HoldTicks = 1
    ReviewTicks = 1
    AutoCancel = TRUE
    LastRequest = 2
    MaxTime = 5
CHECK_DEADLOCK FALSE
INVARIANTS
    TypeOK
    NoDoubleBooking
PROPERTIES
    RefusedOnlyForLiveClaim
    DeadStaysDead
    ImplementsCalendar
    UnpaidClaimsEnd
