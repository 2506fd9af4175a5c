SPECIFICATION Spec
CONSTANTS
    Subs = {s1}
    None = None
    MaxSales = 2
    MaxNow = 1
    MaxOpen = 3
INVARIANTS PaymentsBooked ActiveWasApproved EndIsPaidFor
SYMMETRY Symmetry
CHECK_DEADLOCK FALSE
