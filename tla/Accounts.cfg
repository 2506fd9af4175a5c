SPECIFICATION AccountSpec
CONSTANTS
    MaxCodes = 2
    Logins = {l1, l2, l3}
INVARIANTS OnlyLastCodeWorks OneWorkspace
SYMMETRY Symmetry
CHECK_DEADLOCK FALSE
