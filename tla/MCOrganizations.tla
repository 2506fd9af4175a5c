--------------------------- MODULE MCOrganizations ---------------------------
(* A founder, two users who may join, and two requests at a time.          *)
EXTENDS Organizations, TLC
Symmetry == Permutations(Users \ {Founder}) \cup Permutations(Requests)
=============================================================================
