----------------------------- MODULE UsageLedger -----------------------------
(***************************************************************************)
(* What metering promises about every usage event, whatever carries it: an *)
(* event that was emitted is recorded once or dropped once, for good, and  *)
(* the rows of one transaction are recorded together.                      *)
(***************************************************************************)
CONSTANT Ids

VARIABLE status   \* what has become of each event

vars == status

With(S, s) == [i \in Ids |-> IF i \in S THEN s ELSE status[i]]

Pending == {i \in Ids : status[i] = "pending"}

Init == status = [i \in Ids |-> "none"]

Emit(i) == status[i] = "none" /\ status' = With({i}, "pending")

\* A transaction with the rows of these events commits.
Record(S) == S # {} /\ S \subseteq Pending /\ status' = With(S, "recorded")

Drop(S) == S # {} /\ S \subseteq Pending /\ status' = With(S, "dropped")

Next ==
  \/ \E i \in Ids : Emit(i)
  \/ \E S \in SUBSET Ids : Record(S) \/ Drop(S)

Spec == Init /\ [][Next]_vars
==============================================================================
