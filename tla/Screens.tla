-------------------------------- MODULE Screens --------------------------------
(***************************************************************************)
(* How any list page of the web client behaves: it loads its list, loads   *)
(* it again, sends what its controls ask for and applies the answers in    *)
(* the order they come in, which is not the order they were asked for.     *)
(* What differs between the pages is in the tables this module extends;    *)
(* one of their screens is open throughout a behaviour.                    *)
(***************************************************************************)
EXTENDS AdminScreens, OrgScreens, AccountScreens, RoomScreens, Naturals, FiniteSets

CONSTANTS
    Keys,    \* what can be selected
    Rows,    \* rows of a list that a control acts on
    MaxCalls \* bound: requests the user and the timer start

\* A list is first loaded for selection 1; 0 stands for none, and a flag that is
\* free or held by a request without a row is no row.
ASSUME ScreenAssumption ==
    /\ Keys \subseteq Nat \ {0} /\ 1 \in Keys
    /\ "free" \notin Rows /\ "whole" \notin Rows

AllScreens == AdminScreens \cup OrgScreenSet \cup AccountScreenSet \cup RoomScreenSet

VARIABLES
    screen,  \* the screen that is open
    mounted, \* it is shown, and not another tab or page
    key,     \* what is selected
    rows,    \* the list shown: of which selection, reflecting which writes
    spinner,
    flag,    \* of each request: what its guard holds
    dialog,  \* the request whose dialog is open
    loads,   \* lists asked for and not answered
    writes,  \* requests sent and not answered
    saved,   \* writes the server has done
    sent,    \* number of requests started
    newest,  \* ghost: the newest request whose outcome the list has seen
    late,    \* ghost: what is shown is an answer overtaken, another's or an error
    lost     \* ghost: writes done that nothing will bring into the list

screenVars == <<screen, mounted, key, rows, spinner, flag, dialog, loads, writes, saved, sent,
                newest, late, lost>>

Free == "free"
Closed == "closed"
Whole == "whole"  \* the row of a request that belongs to none
NoRows == [of |-> 0, seen |-> {}]
Unread == {0}

Controls == DOMAIN screen.requests
At(a) == screen.requests[a]
Load(n, k, loud) == [n |-> n, key |-> k, loud |-> loud, read |-> Unread]
Shown == mounted /\ rows # NoRows /\ ~(screen.hides /\ spinner)

Fetch(k, loud) ==
    /\ sent' = sent + 1
    /\ IF screen.lists
       THEN /\ loads' = loads \cup {Load(sent + 1, k, loud)}
            /\ spinner' = (spinner \/ loud)
       ELSE UNCHANGED <<loads, spinner>>

ScreenInit ==
    /\ screen \in AllScreens /\ mounted = TRUE /\ key = 1 /\ rows = NoRows
    /\ spinner = screen.lists /\ loads = IF screen.lists THEN {Load(1, 1, TRUE)} ELSE {}
    /\ flag = [a \in DOMAIN screen.requests |-> Free] /\ dialog = Closed
    /\ writes = {} /\ saved = {} /\ sent = 1
    /\ newest = 0 /\ late = FALSE /\ lost = {}

\* A component that is unmounted drops the answers it waits for.
Gone(W) == {[w EXCEPT !.dropped = TRUE, !.freed = TRUE] : w \in W}
Unmount ==
    /\ rows' = NoRows /\ spinner' = FALSE /\ loads' = {} /\ late' = FALSE
    /\ flag' = [a \in Controls |-> Free] /\ writes' = Gone(writes)

CanSelect(k) == mounted /\ dialog = Closed /\ k # key /\ sent < MaxCalls

\* Mutant: the effect loads without the spinner.
SelectQuietly(k) ==
    /\ screen.selects = "follows" /\ CanSelect(k) /\ key' = k /\ Fetch(k, FALSE)
    /\ UNCHANGED <<screen, mounted, rows, flag, dialog, writes, saved, newest, late, lost>>

Select(k) ==
    /\ screen.selects = "follows" /\ CanSelect(k) /\ key' = k /\ Fetch(k, TRUE)
    /\ UNCHANGED <<screen, mounted, rows, flag, dialog, writes, saved, newest, late, lost>>

SelectAnew(k) ==
    /\ screen.selects = "remounts" /\ CanSelect(k) /\ key' = k /\ sent' = sent + 1
    /\ rows' = NoRows /\ spinner' = TRUE /\ loads' = {Load(sent + 1, k, TRUE)} /\ late' = FALSE
    /\ flag' = [a \in Controls |-> Free] /\ writes' = Gone(writes)
    /\ UNCHANGED <<screen, mounted, dialog, saved, newest, lost>>

LoadAgain ==
    /\ screen.again # "never" /\ mounted /\ sent < MaxCalls
    /\ Fetch(key, screen.again = "loud")
    /\ UNCHANGED <<screen, mounted, key, rows, flag, dialog, writes, saved, newest, late, lost>>

Leave ==
    /\ mounted /\ dialog = Closed /\ mounted' = FALSE
    /\ IF screen.home = "tab" THEN Unmount ELSE UNCHANGED <<rows, spinner, loads, late, flag, writes>>
    /\ UNCHANGED <<screen, key, dialog, saved, sent, newest, lost>>

Return ==
    /\ ~mounted /\ sent < MaxCalls /\ mounted' = TRUE /\ Fetch(key, TRUE)
    /\ UNCHANGED <<screen, key, rows, flag, dialog, writes, saved, newest, late, lost>>

Done(k) == {s.n : s \in {s \in saved : s.key = k}}

ServerReads(l) ==
    /\ l.read = Unread
    /\ loads' = (loads \ {l}) \cup {[l EXCEPT !.read = Done(l.key)]}
    /\ UNCHANGED <<screen, mounted, key, rows, spinner, flag, dialog, writes, saved, sent, newest, late, lost>>

Newer(n) == IF n > newest THEN n ELSE newest
LoadAnswers(l) ==
    /\ l.read # Unread /\ loads' = loads \ {l}
    /\ rows' = [of |-> l.key, seen |-> l.read]
    /\ spinner' = (spinner /\ ~l.loud)
    /\ late' = (l.key # key \/ l.n < newest) /\ newest' = Newer(l.n)
    /\ UNCHANGED <<screen, mounted, key, flag, dialog, writes, saved, sent, lost>>

LoadFails(l) ==
    /\ loads' = loads \ {l} /\ newest' = Newer(l.n) /\ late' = TRUE
    /\ \E kept \in screen.keeps : rows' = IF kept THEN rows ELSE NoRows
    /\ spinner' = (spinner /\ ~l.loud)
    /\ UNCHANGED <<screen, mounted, key, flag, dialog, writes, saved, sent, lost>>

OpenDialog(a) ==
    /\ mounted /\ dialog = Closed /\ At(a).dialog # "none"
    /\ dialog' = At(a).dialog
    /\ UNCHANGED <<screen, mounted, key, rows, spinner, flag, loads, writes, saved, sent, newest, late, lost>>

\* The state of a dialog goes with it, and with it the flags that it holds.
Holds(a) == At(a).guard = "dialog" /\ At(a).dialog = dialog
Close(W, f) ==
    /\ dialog' = Closed
    /\ flag' = [a \in Controls |-> IF Holds(a) THEN Free ELSE f[a]]
    /\ writes' = {[w EXCEPT !.freed = (@ \/ Holds(w.act))] : w \in W}

Busy(d) == \E a \in Controls : At(a).dialog = d /\ At(a).locked /\ flag[a] # Free
Dismiss ==
    /\ dialog # Closed /\ ~Busy(dialog) /\ Close(writes, flag)
    /\ UNCHANGED <<screen, mounted, key, rows, spinner, loads, saved, sent, newest, late, lost>>

\* The control that sends request a can be used on row r.
Offered(a, r) ==
    /\ mounted /\ r \in IF At(a).rows THEN Rows ELSE {Whole}
    /\ dialog = IF At(a).dialog = "none" THEN Closed ELSE At(a).dialog
    /\ At(a).rows => Shown

\* Mutant: the control is not disabled.
EnabledAlways(a, r) == TRUE

Enabled(a, r) ==
    CASE At(a).guard = "none" -> TRUE
      [] At(a).guard = "row" -> flag[a] # r
      [] OTHER -> flag[a] = Free

Sent(a, r) ==
    [n |-> sent + 1, act |-> a, row |-> r, key |-> key, of |-> rows.of, had |-> rows.seen, late |-> late,
     done |-> FALSE, dropped |-> FALSE, freed |-> FALSE]

\* Marks the other writes of a request whose flag was one cell for all rows.
Freed(a, W) ==
    IF At(a).guard = "row" THEN {[w EXCEPT !.freed = (@ \/ w.act = a)] : w \in W} ELSE W

Click(a, r) ==
    /\ sent < MaxCalls /\ Offered(a, r) /\ Enabled(a, r)
    /\ sent' = sent + 1
    /\ writes' = Freed(a, writes) \cup {Sent(a, r)}
    /\ flag' = IF At(a).guard = "none" THEN flag ELSE [flag EXCEPT ![a] = r]
    /\ UNCHANGED <<screen, mounted, key, rows, spinner, dialog, loads, saved, newest, late, lost>>

ServerWrites(w) ==
    /\ ~w.done
    /\ writes' = (writes \ {w}) \cup {[w EXCEPT !.done = TRUE]}
    /\ saved' = IF At(w.act).after = "nothing" THEN saved ELSE saved \cup {[n |-> w.n, key |-> w.key]}
    /\ UNCHANGED <<screen, mounted, key, rows, spinner, flag, dialog, loads, sent, newest, late, lost>>

\* The finally block; a dialog that is gone has no flag to reset.
Unflag(w) == IF At(w.act).guard = "dialog" /\ w.freed THEN flag ELSE [flag EXCEPT ![w.act] = Free]
Others(w) == Freed(w.act, writes \ {w})

\* Mutant: the handler does not load the list again.
RefreshNot(w) == UNCHANGED <<rows, spinner, loads, sent, newest, lost>>

\* The closure loads the list of what was selected when it was made.
Refresh(w) ==
    CASE At(w.act).after \in {"reload", "refresh"} ->
           Fetch(w.key, At(w.act).after = "reload") /\ UNCHANGED <<rows, newest, lost>>
      [] At(w.act).after = "patch" ->
           /\ IF rows.of \in {0, w.key}
              THEN /\ rows' = [of |-> w.key, seen |-> rows.seen \cup {w.n}]
                   /\ newest' = sent + 1 /\ UNCHANGED lost
              ELSE lost' = lost \cup {w.n} /\ UNCHANGED <<rows, newest>>
           /\ UNCHANGED <<spinner, loads, sent>>
      [] At(w.act).after = "overwrite" ->
           /\ rows' = [of |-> w.key, seen |-> w.had \cup {w.n}] /\ newest' = sent + 1
           /\ lost' = lost \cup (rows.seen \ w.had)
           /\ UNCHANGED <<spinner, loads, sent>>
      [] OTHER -> lost' = lost \cup {w.n} /\ UNCHANGED <<rows, spinner, loads, sent, newest>>

WriteAnswers(w) ==
    /\ w.done /\ ~w.dropped /\ At(w.act).after # "leaves" /\ Refresh(w)
    /\ IF At(w.act).closes THEN Close(Others(w), Unflag(w))
       ELSE flag' = Unflag(w) /\ writes' = Others(w) /\ UNCHANGED dialog
    /\ UNCHANGED <<screen, mounted, key, saved, late>>

\* The answer opens another page, whatever is shown by then.
WriteLeads(w) ==
    /\ w.done /\ ~w.dropped /\ At(w.act).after = "leaves"
    /\ mounted' = FALSE /\ rows' = NoRows /\ spinner' = FALSE /\ loads' = {} /\ late' = FALSE
    /\ flag' = [a \in Controls |-> Free] /\ dialog' = Closed /\ writes' = Gone(writes \ {w})
    /\ UNCHANGED <<screen, key, saved, sent, newest, lost>>

WriteFails(w) ==
    /\ ~w.dropped /\ flag' = Unflag(w) /\ writes' = Others(w)
    /\ lost' = IF w.done THEN lost \cup {w.n} ELSE lost
    /\ UNCHANGED <<screen, mounted, key, rows, spinner, dialog, loads, saved, sent, newest, late>>

\* The answer of a component that is gone changes nothing.
AnswerDropped(w) ==
    /\ w.dropped /\ w.done /\ writes' = writes \ {w} /\ lost' = lost \cup {w.n}
    /\ UNCHANGED <<screen, mounted, key, rows, spinner, flag, dialog, loads, saved, sent, newest, late>>

Answer(w) == WriteAnswers(w) \/ WriteLeads(w) \/ WriteFails(w) \/ AnswerDropped(w)
ScreenNext ==
    \/ \E k \in Keys : Select(k) \/ SelectAnew(k)
    \/ LoadAgain \/ Leave \/ Return \/ Dismiss
    \/ \E l \in loads : ServerReads(l) \/ LoadAnswers(l) \/ LoadFails(l)
    \/ \E a \in Controls : OpenDialog(a) \/ \E r \in Rows \cup {Whole} : Click(a, r)
    \/ \E w \in writes : ServerWrites(w) \/ Answer(w)

ScreenSpec == ScreenInit /\ [][ScreenNext]_screenVars

-----------------------------------------------------------------------------
\* Once nothing is in flight a page shows the list of what is selected with
\* everything its own controls have done, unless the answer it shows was an
\* error or overtook a newer one, or the write is one that no handler brings
\* into the list.
SettledRows ==
    screen.lists /\ mounted /\ loads = {} /\ writes = {} /\ ~late =>
        rows.of = key /\ Done(key) \ lost \subseteq rows.seen

\* A control that is disabled while its request runs does not send the same
\* request twice, unless what held its flag went in the meantime: the tab, the
\* dialog, or the one cell that remembers a row.
OneSubmission ==
    \A v, w \in writes :
        v # w /\ v.act = w.act /\ v.row = w.row /\ At(v.act).guard # "none" => v.freed \/ w.freed

\* On a page that hides its rows while it loads, the row a control acts on is
\* one of what is selected, unless the list shown is a late answer or a load
\* has failed.
ActsOnItsRows ==
    \A w \in writes : screen.hides /\ w.row # Whole => w.of = w.key \/ w.late
=============================================================================
