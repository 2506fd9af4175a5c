----------------------------- MODULE StageSession -----------------------------
(***************************************************************************)
(* The session of one user on the stage page: attempts to connect to the   *)
(* LiveKit room, the rooms they leave connected, what the page shows, and  *)
(* the clock by which the minutes of the session are billed.               *)
(*                                                                         *)
(* connectToRoom is called by the join button, by the reconnect button,    *)
(* when the tab becomes visible and by a timer, and awaits a token, the    *)
(* connection, the microphone prompt and the details of the room.  The     *)
(* events of every room it made stay wired to the page.                    *)
(***************************************************************************)
EXTENDS Naturals, FiniteSets

CONSTANTS
    MaxAttempts, \* bound: calls of connectToRoom
    MaxTime      \* bound: ticks, the least time that is recorded each

ASSUME StageAssumption == MaxAttempts \in Nat /\ MaxTime \in Nat

Attempts == 1..MaxAttempts
NoRoom == 0

VARIABLES
    shown,      \* connection.state; "gone" once the page is left
    connecting, \* connectingRef
    connected,  \* connectedRef
    current,    \* roomRef
    attempt,    \* what each call of connectToRoom awaits
    room,       \* external: the LiveKit room each attempt made
    retry,      \* the timer set when the server finds a state mismatch
    leaving,    \* how the page is being left: "no", "button" or "ended"
    org,        \* currentOrg of the store: "known" when the page opened, "none", or come "late"
    clock,      \* session clock: is it started, last flush, is its timer set, has it an organization
    posts,      \* usage records sent and not answered
    billed,     \* external: how often each tick was recorded
    now,
    live,       \* ghost: ticks during which a room was connected, up to the leave button
    amiss       \* ghost: what went out of step, by kind

connectVars == <<connecting, connected, current, attempt, room, retry>>
clockVars == <<clock, posts, billed>>
stageVars == <<shown, connectVars, leaving, org, clockVars, now, live, amiss>>

\* The organization is read again when the clock is.
Stopped == [on |-> FALSE, last |-> 0, timer |-> FALSE, org |-> FALSE]

\* A room opened by its address, and one reloaded, has no organization: only the
\* layout of the other pages asks for it. Guests have none either.
StageInit ==
    /\ shown = "idle" /\ connecting = FALSE /\ connected = FALSE /\ current = NoRoom
    /\ attempt = [i \in Attempts |-> "unused"] /\ room = [i \in Attempts |-> "none"]
    /\ retry = FALSE /\ leaving = "no" /\ org \in {"none", "known"} /\ clock = Stopped /\ posts = {}
    /\ billed = [t \in 1..MaxTime |-> 0] /\ now = 0 /\ live = {} /\ amiss = {}

Left == shown = "gone"
Running(i) == attempt[i] \notin {"unused", "done"}
InProgress == \E i \in Attempts : Running(i)
Alive(i) == room[i] \in {"connected", "resuming"}

-----------------------------------------------------------------------------
\* connectToRoom.

Call(i, ui, at, r) ==
    /\ attempt[i] = "unused" /\ \A j \in 1..(i - 1) : attempt[j] # "unused"
    /\ attempt' = [attempt EXCEPT ![i] = "token"] /\ room' = r
    /\ connecting' = TRUE /\ connected' = FALSE /\ current' = at /\ shown' = ui

\* The button of the first screen and of the one that shows an error.
JoinClick(i) ==
    /\ ~connecting /\ ~connected /\ shown \in {"idle", "error"}
    /\ Call(i, "connecting", current, room)
    /\ UNCHANGED <<retry, leaving, org, clockVars, now, live, amiss>>

Disconnect(i) ==
    IF i = NoRoom THEN room
    ELSE [room EXCEPT ![i] = IF @ \in {"connecting", "connected", "resuming"} THEN "closing" ELSE @]

\* By its button, or because the tab is visible again and the room is dead.
ManualReconnect(i) ==
    /\ ~connecting /\ shown = "disconnected" /\ Call(i, "connecting", NoRoom, Disconnect(current))
    /\ UNCHANGED <<retry, leaving, org, clockVars, now, live, amiss>>

TabVisible(i) ==
    /\ ~connecting /\ ~Left
    /\ \/ ~connected /\ shown = "disconnected"
       \/ current # NoRoom /\ room[current] # "connected"
    /\ Call(i, "connecting", NoRoom, Disconnect(current))
    /\ UNCHANGED <<retry, leaving, org, clockVars, now, live, amiss>>

\* Half a second after a mismatch, on a page that may be gone by then; or, when
\* the closing of an older room showed the reconnect button before, beside
\* the room or the attempt that button made.
RetryFires(i) ==
    /\ retry /\ ~connecting /\ retry' = FALSE
    /\ attempt[i] = "unused" /\ \A j \in 1..(i - 1) : attempt[j] # "unused"
    /\ attempt' = [attempt EXCEPT ![i] = "token"] /\ connecting' = TRUE
    /\ shown' = IF Left THEN shown ELSE "connecting"
    /\ amiss' = amiss \cup (IF Left THEN {"left"} ELSE {})
                          \cup (IF \E j \in Attempts : Alive(j) \/ attempt[j] \in {"token", "connect"}
                                THEN {"two", "left"} ELSE {})
    /\ UNCHANGED <<connected, current, room, leaving, org, clockVars, now, live>>

\* Nothing calls again when it finds an attempt under way.
RetrySkipped ==
    /\ retry /\ connecting /\ retry' = FALSE /\ amiss' = amiss \cup {"stuck"}
    /\ UNCHANGED <<shown, connecting, connected, current, attempt, room, leaving, org, clockVars,
                   now, live>>

TokenArrives(i) ==
    /\ attempt[i] = "token"
    /\ attempt' = [attempt EXCEPT ![i] = "connect"] /\ room' = [room EXCEPT ![i] = "connecting"]
    /\ current' = i
    /\ UNCHANGED <<shown, connecting, connected, retry, leaving, org, clockVars, now, live, amiss>>

\* Does a call made so far see the organization?
OrgSeen == CASE org = "known" -> {TRUE} [] org = "none" -> {FALSE} [] OTHER -> BOOLEAN

\* The session clock starts anew with every connection, and its timer with an
\* organization.
Connects(i) ==
    /\ attempt[i] = "connect" /\ room[i] = "connecting"
    /\ attempt' = [attempt EXCEPT ![i] = "mic"] /\ room' = [room EXCEPT ![i] = "connected"]
    /\ connected' = TRUE /\ shown' = IF Left THEN shown ELSE "connected"
    /\ \E o \in OrgSeen :
         /\ clock' = [on |-> TRUE, last |-> now, timer |-> o, org |-> o]
         /\ amiss' = amiss \cup (IF clock.on /\ clock.last < now THEN {"anew"} ELSE {})
                               \cup (IF o THEN {} ELSE {"unpaid"})
    /\ UNCHANGED <<connecting, current, retry, leaving, org, posts, billed, now, live>>

\* The prompt for the microphone is answered either way.
MicAnswered(i) ==
    /\ attempt[i] = "mic" /\ attempt' = [attempt EXCEPT ![i] = "details"]
    /\ UNCHANGED <<shown, connecting, connected, current, room, retry, leaving, org, clockVars,
                   now, live, amiss>>

DetailsArrive(i) ==
    /\ attempt[i] = "details" /\ attempt' = [attempt EXCEPT ![i] = "done"] /\ connecting' = FALSE
    /\ UNCHANGED <<shown, connected, current, room, retry, leaving, org, clockVars, now, live, amiss>>

\* The catch block: whatever was reached, the page shows an error and offers
\* to join; a room that is connected already stays so.
ConnectFails(i) ==
    /\ Running(i) /\ attempt[i] # "mic"
    /\ attempt' = [attempt EXCEPT ![i] = "done"] /\ connecting' = FALSE /\ connected' = FALSE
    /\ shown' = IF Left THEN shown ELSE "error"
    /\ room' = [room EXCEPT ![i] = IF attempt[i] = "connect" THEN "closed" ELSE @]
    /\ amiss' = amiss \cup (IF attempt[i] = "details" THEN {"two", "left"} ELSE {})
    /\ UNCHANGED <<current, retry, leaving, org, clockVars, now, live>>

-----------------------------------------------------------------------------
\* Events of a room, of the current one or of one that was replaced.

Stale(i) == IF i # current /\ current # NoRoom THEN {"two", "left", "stuck"} ELSE {}

Disconnected(i, ui) ==
    /\ connected' = FALSE /\ room' = [room EXCEPT ![i] = "closed"]
    /\ shown' = IF Left THEN shown ELSE ui
    /\ amiss' = amiss \cup Stale(i)

Drops(i) ==
    /\ Alive(i) \/ room[i] = "closing"
    /\ Disconnected(i, "disconnected")
    /\ UNCHANGED <<connecting, current, attempt, retry, leaving, org, clockVars, now, live>>

StateMismatch(i) ==
    /\ Alive(i) /\ Disconnected(i, "reconnecting") /\ current' = NoRoom /\ retry' = TRUE
    /\ UNCHANGED <<connecting, attempt, leaving, org, clockVars, now, live>>

Reconnecting(i) ==
    /\ room[i] = "connected" /\ room' = [room EXCEPT ![i] = "resuming"]
    /\ shown' = IF Left THEN shown ELSE "reconnecting"
    /\ amiss' = amiss \cup Stale(i)
    /\ UNCHANGED <<connecting, connected, current, attempt, retry, leaving, org, clockVars, now, live>>

Reconnected(i) ==
    /\ room[i] = "resuming" /\ room' = [room EXCEPT ![i] = "connected"]
    /\ connected' = TRUE /\ shown' = IF Left THEN shown ELSE "connected"
    /\ amiss' = amiss \cup Stale(i)
    /\ UNCHANGED <<connecting, current, attempt, retry, leaving, org, clockVars, now, live>>

-----------------------------------------------------------------------------
\* The session clock.

Tick ==
    /\ now < MaxTime /\ now' = now + 1
    /\ live' = IF leaving # "button" /\ \E i \in Attempts : room[i] = "connected"
               THEN live \cup {now + 1} ELSE live
    /\ UNCHANGED <<shown, connectVars, leaving, org, clockVars, amiss>>

\* An earlier page had asked for the organization.
OrgArrives ==
    /\ org = "none" /\ org' = "late"
    /\ UNCHANGED <<shown, connectVars, leaving, clockVars, now, live, amiss>>

Due == clock.on /\ clock.org /\ clock.last < now
Record == [from |-> clock.last + 1, to |-> now]

\* Mutant: the time of the last flush is set by the answer.
FlushLate(final) ==
    IF Due
    THEN /\ posts' = posts \cup {Record}
         /\ clock' = IF final THEN Stopped ELSE clock
    ELSE UNCHANGED <<posts, clock>>

\* Without an organization, or under six seconds, nothing is recorded, nor the
\* clock stopped.
FlushSessionUsage(final) ==
    IF Due
    THEN /\ posts' = posts \cup {Record}
         /\ clock' = IF final THEN Stopped ELSE [clock EXCEPT !.last = now]
    ELSE UNCHANGED <<posts, clock>>

UsageTimer ==
    /\ clock.timer /\ Due /\ FlushSessionUsage(FALSE)
    /\ UNCHANGED <<shown, connectVars, leaving, org, billed, now, live, amiss>>

RecordUsage(p) ==
    /\ posts' = posts \ {p}
    /\ billed' = [t \in DOMAIN billed |-> IF t \in p.from..p.to THEN billed[t] + 1 ELSE billed[t]]
    /\ UNCHANGED <<shown, connectVars, leaving, org, clock, now, live, amiss>>

\* recordUsage swallows the error; the minutes are not sent again.
RecordFails(p) ==
    /\ posts' = posts \ {p} /\ amiss' = amiss \cup {"lost"}
    /\ UNCHANGED <<shown, connectVars, leaving, org, clock, billed, now, live>>

-----------------------------------------------------------------------------
\* Leaving.

\* The host's message: a last flush, and the page is left three seconds later.
SessionEnded(i) ==
    /\ room[i] = "connected" /\ ~Left
    /\ leaving' = IF leaving = "no" THEN "ended" ELSE leaving
    /\ FlushSessionUsage(TRUE)
    /\ room' = Disconnect(current) /\ connected' = FALSE /\ shown' = "disconnected"
    /\ amiss' = amiss \cup Stale(i)
    /\ UNCHANGED <<connecting, current, attempt, retry, org, billed, now, live>>

\* Mutant: the page is left without the last flush.
LeaveUnflushed ==
    /\ shown = "connected" /\ leaving' = "button"
    /\ UNCHANGED <<shown, connectVars, org, clockVars, now, live, amiss>>

LeaveClick ==
    /\ shown = "connected" /\ leaving' = "button"
    /\ FlushSessionUsage(TRUE)
    /\ UNCHANGED <<shown, connectVars, org, billed, now, live, amiss>>

\* Mutant: the page is left with its room connected.
LeavePageConnected ==
    /\ ~Left /\ shown' = "gone" /\ current' = NoRoom
    /\ connected' = FALSE /\ connecting' = FALSE /\ clock' = [clock EXCEPT !.timer = FALSE]
    /\ amiss' = amiss \cup (IF InProgress \/ retry THEN {"left"} ELSE {})
    /\ UNCHANGED <<attempt, room, retry, leaving, org, posts, billed, now, live>>

\* The effect's cleanup, whatever made the page go.
LeavePage ==
    /\ ~Left /\ shown' = "gone" /\ room' = Disconnect(current) /\ current' = NoRoom
    /\ connected' = FALSE /\ connecting' = FALSE /\ clock' = [clock EXCEPT !.timer = FALSE]
    /\ amiss' = amiss \cup (IF InProgress \/ retry THEN {"left"} ELSE {})
    /\ UNCHANGED <<attempt, retry, leaving, org, posts, billed, now, live>>

StageNext ==
    \/ \E i \in Attempts :
         \/ JoinClick(i) \/ ManualReconnect(i) \/ TabVisible(i) \/ RetryFires(i)
         \/ TokenArrives(i) \/ Connects(i) \/ MicAnswered(i) \/ DetailsArrive(i) \/ ConnectFails(i)
         \/ Drops(i) \/ StateMismatch(i) \/ Reconnecting(i) \/ Reconnected(i) \/ SessionEnded(i)
    \/ RetrySkipped \/ OrgArrives \/ Tick \/ UsageTimer \/ LeaveClick \/ LeavePage
    \/ \E p \in posts : RecordUsage(p) \/ RecordFails(p)

StageSpec == StageInit /\ [][StageNext]_stageVars

-----------------------------------------------------------------------------
\* What the clock, its records and the page hold.
StageTypeOK ==
    /\ shown \in {"idle", "connecting", "connected", "reconnecting", "disconnected", "error", "gone"}
    /\ connecting \in BOOLEAN /\ connected \in BOOLEAN /\ current \in Attempts \cup {NoRoom}
    /\ attempt \in [Attempts -> {"unused", "token", "connect", "mic", "details", "done"}]
    /\ room \in [Attempts -> {"none", "connecting", "connected", "resuming", "closing", "closed"}]
    /\ retry \in BOOLEAN /\ leaving \in {"no", "button", "ended"}
    /\ org \in {"none", "late", "known"}
    /\ clock \in [on : BOOLEAN, last : 0..now, timer : BOOLEAN, org : BOOLEAN]
    /\ posts \subseteq [from : Nat, to : Nat] /\ billed \in [1..MaxTime -> Nat]
    /\ now \in 0..MaxTime /\ live \subseteq 1..MaxTime
    /\ amiss \subseteq {"two", "left", "stuck", "anew", "lost", "unpaid"}

\* The page never holds two connected rooms, unless the details of a room
\* could not be read after connecting to it, a late event of a replaced room
\* was taken for the current one's, or the retry timer fired beside a reconnect.
OneRoom == "two" \in amiss \/ Cardinality({i \in Attempts : Alive(i)}) <= 1

\* Once the page is left no room stays connected and no timer bills it, unless
\* it was left with an attempt or a retry under way or a room forgotten.
LeftIsSilent ==
    Left /\ "left" \notin amiss => ~clock.timer /\ \A i \in Attempts : ~Alive(i)

\* While the page shows that it is connecting something is under way that will
\* end it, unless the retry was skipped or a late event said so.
SpinnerEnds ==
    shown \in {"connecting", "reconnecting"} /\ "stuck" \notin amiss =>
        InProgress \/ retry \/ \E i \in Attempts : room[i] = "resuming"

\* Together: the page and its rooms agree.
PageMatchesRooms == OneRoom /\ LeftIsSilent /\ SpinnerEnds

\* No part of the session is recorded twice.
BilledOnce == \A t \in DOMAIN billed : billed[t] <= 1

\* A session left by its button is recorded from the first to the last tick,
\* unless a record failed, a new connection restarted the clock, or the page
\* connected before it had the user's organization (Stage.jsx:1877).
LiveIsBilled ==
    Left /\ leaving = "button" /\ posts = {} /\ amiss = {} => \A t \in live : billed[t] > 0
=============================================================================
