--------------------------- MODULE MCRoomAdmission ---------------------------
(* Two requests at a time; requests, users and the rooms without an        *)
(* invitation are interchangeable.                                          *)
EXTENDS RoomAdmission, TLC
Symmetry == Permutations(Requests) \cup Permutations(Rooms \ Invited) \cup Permutations(Users)
=============================================================================
