------------------------------ MODULE ScreenParts ------------------------------
(***************************************************************************)
(* What the tables of screens are written with.  A screen is a list that a *)
(* page loads from the server and the requests that its controls send.     *)
(*                                                                         *)
(* home: "tab", a component that is unmounted when it is left, or "page",  *)
(* state that lives on when its tab is left.                               *)
(* selects: the list is that of the selected organization or room, "no",   *)
(* "follows" (the component stays) or "remounts" (it is mounted anew).     *)
(* hides: no row is shown while a loud load is in flight.                  *)
(* keeps: whether a load that fails leaves the rows that are shown; both,  *)
(* where it depends on which of two requests of the load fails.            *)
(* again: how the list is loaded while it is shown, "never", "silent" (by  *)
(* a timer) or "loud" (by a button).                                       *)
(*                                                                         *)
(* guard: where the flag lives that disables a control while its request   *)
(* is in flight: "screen", "dialog" (lost when the dialog is closed),      *)
(* "row" (one cell that holds the row acted upon) or "none".               *)
(* dialog: the dialog or part of the page the control is in; closes: which *)
(* success closes; locked: which cannot be closed meanwhile.               *)
(* rows: the control belongs to a row.                                     *)
(* after: what success does to the list: "reload", "refresh" (a reload     *)
(* without the spinner), "patch", "overwrite" (with what was shown when    *)
(* the request was sent), "nothing" (the list does not change), "unshown"  *)
(* (it changes and shows it later) or "leaves" (another page is opened).   *)
(***************************************************************************)

Request(guard, after) ==
    [guard |-> guard, after |-> after, dialog |-> "none", closes |-> FALSE, locked |-> FALSE,
     rows |-> FALSE]
InDialog(name, r) == [r EXCEPT !.dialog = name, !.closes = TRUE]
InPart(name, r) == [r EXCEPT !.dialog = name]
Locked(name, r) == [r EXCEPT !.dialog = name, !.closes = TRUE, !.locked = TRUE]
OnRow(r) == [r EXCEPT !.rows = TRUE]

List(home, requests) ==
    [home |-> home, lists |-> TRUE, selects |-> "no", hides |-> TRUE, keeps |-> {TRUE},
     again |-> "never", requests |-> requests]
Form(requests) == [List("tab", requests) EXCEPT !.lists = FALSE]
Selected(s) == [s EXCEPT !.selects = "follows"]
Remounted(s) == [s EXCEPT !.selects = "remounts"]
Polled(s) == [s EXCEPT !.again = "silent"]
Refreshed(s) == [s EXCEPT !.again = "loud"]
Emptied(s) == [s EXCEPT !.keeps = {FALSE}]
HalfEmptied(s) == [s EXCEPT !.keeps = BOOLEAN]
Uncovered(s) == [s EXCEPT !.hides = FALSE]
NoRequest == [a \in {} |-> a]
=============================================================================
