SPECIFICATION Spec
CONSTANTS
    Bookings = {b1, b2}
    GridTicks = 1
    MaxSlots = 1
    GridStarts <- OneSlot
    ClosingTick = 3
    HoldTicks = 1
    ReviewTicks = 1
    AutoCancel = TRUE
    LastRequest = 1
    MaxTime = 4
CHECK_DEADLOCK FALSE
INVARIANTS SlotSoldOnce
