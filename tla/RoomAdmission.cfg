SPECIFICATION Spec
CONSTANTS
    Requests = {q1, q2}
    Rooms = {r1, r2, r3}
    Invited = {r1}
    Users = {u1, u2}
    None = None
    MaxRooms = 1
    MaxMinutes = 1
    MaxUses = 2
    MaxGuests = 3
INVARIANTS QuotaOvershoot JoinsAreCounted CodeOfOneUser
SYMMETRY Symmetry
CHECK_DEADLOCK FALSE
