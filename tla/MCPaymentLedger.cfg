CONSTANTS
    Requests = {r1, r2}
    Price = 3
    Amounts <- OneOrTwo
    MaxEntries = 3
SYMMETRY RequestSymmetry
SPECIFICATION Spec
CHECK_DEADLOCK FALSE
INVARIANTS
    TypeOK
    RefundedWithinOwed
    ColumnWasTheSum
PROPERTIES
    RecordedWithinPrice
