------------------------------ MODULE PushToTalk ------------------------------
(***************************************************************************)
(* Push-to-talk in the speaker's Stage (clients/web/src/v2/Stage.jsx): each*)
(* press opens a WebSocket to the relay and the microphone, each release   *)
(* commits what was said, and a turn_done hands the translation on.        *)
(*                                                                         *)
(* The refs are shared by all presses: a setup or a handler that outlives  *)
(* its press acts on whatever the refs hold when it resumes. A press, its  *)
(* WebSocket and its microphone stream are named by the press's number.    *)
(***************************************************************************)
EXTENDS Naturals, FiniteSets

CONSTANTS
  MaxPresses,  \* bound: presses of the button
  MaxDrops     \* bound: connections lost to the network

ASSUME PttAssumption == MaxPresses \in Nat /\ MaxDrops \in Nat

VARIABLES
  enabled,    \* localAIEnabled
  held,       \* the press whose button is down, or 0
  presses,
  setup,      \* startLocalRecording of each press
  opened,     \* presses whose _wsOpenPromise resolved
  granted,    \* presses whose getUserMedia resolved
  ws,         \* the WebSocket of each press
  cur,        \* realtimeWsRef.current, or 0
  abort,      \* realtimeSetupAbortRef.current
  mic,        \* realtimeMicStreamRef.current and realtimeWorkletRef.current
  micLive,    \* microphone streams whose tracks run
  worklets,   \* worklets that deliver frames
  recording,  \* isRecording
  processing, \* isProcessing
  heard,      \* presses whose speech each WebSocket has been sent
  turn,       \* the turn of each press
  handlers,   \* calls of _handleRealtimeTurnDone per WebSocket that are not over
  pcm,        \* realtimePcmChunksRef: the turns its chunks belong to
  said,       \* turns whose audio was forwarded with each turn
  closing,    \* WebSockets the 3 s timers will close
  lost,       \* turns whose connection the aborting setup of another press closed
  late,       \* presses whose setup was done after their release
  failed,     \* turns whose handler broke off
  drops

button  == <<enabled, held, presses, recording>>
hardware == <<granted, mic, micLive, worklets>>
sockets == <<opened, ws, cur, heard, drops>>
turns   == <<turn, handlers, pcm, said, processing, closing>>
history == <<lost, late, failed>>
vars == <<button, setup, abort, hardware, sockets, turns, history>>

P == 1..MaxPresses
Refs == 0..MaxPresses

TypeOK ==
  /\ enabled \in BOOLEAN /\ held \in Refs /\ presses \in Refs /\ recording \in BOOLEAN
  /\ setup \in [P -> {"none", "waiting", "ready", "aborted", "gaveUp", "denied", "broken",
                     "refused"}]
  /\ abort \in BOOLEAN
  /\ granted \subseteq P /\ mic \in Refs /\ micLive \subseteq P /\ worklets \subseteq micLive
  /\ opened \subseteq P /\ ws \in [P -> {"none", "connecting", "open", "closed"}]
  /\ cur \in Refs /\ heard \in [P -> SUBSET P] /\ drops \in 0..MaxDrops
  /\ turn \in [P -> {"none", "committed", "empty", "done"}]
  /\ handlers \in [P -> Nat]
  /\ pcm \subseteq P /\ said \in [P -> SUBSET P]
  /\ processing \in BOOLEAN /\ closing \subseteq Refs
  /\ lost \subseteq P /\ late \subseteq P /\ failed \subseteq P

Init ==
  /\ enabled = TRUE /\ held = 0 /\ presses = 0 /\ recording = FALSE
  /\ setup = [p \in P |-> "none"] /\ abort = FALSE
  /\ granted = {} /\ mic = 0 /\ micLive = {} /\ worklets = {}
  /\ opened = {} /\ ws = [p \in P |-> "none"] /\ cur = 0
  /\ heard = [p \in P |-> {}] /\ drops = 0
  /\ turn = [p \in P |-> "none"] /\ handlers = [p \in P |-> 0] /\ pcm = {} /\ said = [p \in P |-> {}]
  /\ processing = FALSE /\ closing = {} /\ lost = {} /\ late = {} /\ failed = {}

\* ws with w closed (w = 0: no WebSocket).
Shut(w) == [p \in P |-> IF p = w THEN "closed" ELSE ws[p]]

\* A turn is lost with a connection it is being spoken on or translated on.
Wanted(p) ==
  /\ ws[p] \in {"connecting", "open"}
  /\ turn[p] = "committed" \/ (held = p /\ setup[p] \in {"waiting", "ready"})

------------------------------------------------------------------------------
(* The button: toggleMicGlobal. *)

\* isProcessing refuses the press.
PressRefused ==
  /\ enabled /\ held = 0 /\ presses < MaxPresses /\ processing
  /\ presses' = presses + 1 /\ held' = presses'
  /\ setup' = [setup EXCEPT ![presses'] = "refused"]
  /\ UNCHANGED <<enabled, recording, abort, hardware, sockets, turns, history>>

\* Mutant: the previous WebSocket is left open.
PressBesideOld ==
  /\ enabled /\ held = 0 /\ presses < MaxPresses /\ ~processing
  /\ presses' = presses + 1 /\ held' = presses'
  /\ setup' = [setup EXCEPT ![presses'] = "waiting"]
  /\ abort' = FALSE /\ recording' = TRUE
  /\ ws' = [ws EXCEPT ![presses'] = "connecting"]
  /\ cur' = presses'
  /\ UNCHANGED <<enabled, hardware, opened, heard, drops, turns, history>>

\* startLocalRecording up to its first await: the WebSocket of the previous
\* press, if still there, gives way to a new one.
Press ==
  /\ enabled /\ held = 0 /\ presses < MaxPresses /\ ~processing
  /\ presses' = presses + 1 /\ held' = presses'
  /\ setup' = [setup EXCEPT ![presses'] = "waiting"]
  /\ abort' = FALSE /\ recording' = TRUE
  /\ ws' = [Shut(cur) EXCEPT ![presses'] = "connecting"]
  /\ cur' = presses'
  /\ UNCHANGED <<enabled, hardware, opened, heard, drops, turns, history>>

\* stopLocalRecording before any microphone is set up. The pointer-up handler is
\* that of the render that saw the press: it comes here even once deactivated.
ReleaseEarly ==
  /\ held # 0 /\ mic = 0
  /\ held' = 0 /\ recording' = FALSE /\ abort' = TRUE
  /\ UNCHANGED <<enabled, presses, setup, hardware, sockets, turns, history>>

\* stopLocalRecording: the turn is committed, or too short or too silent and
\* its WebSocket closed.
Release(commit) ==
  /\ held # 0 /\ mic # 0
  /\ held' = 0 /\ recording' = FALSE
  /\ mic' = 0 /\ micLive' = micLive \ {mic} /\ worklets' = worklets \ {mic}
  /\ IF cur = 0 \/ ws[cur] # "open"
     THEN UNCHANGED <<ws, cur, turn>> /\ ~commit
     ELSE IF commit
     THEN /\ heard[cur] # {}
          /\ turn' = [turn EXCEPT ![cur] = "committed"]
          /\ UNCHANGED <<ws, cur>>
     ELSE ws' = Shut(cur) /\ cur' = 0 /\ UNCHANGED turn
  /\ UNCHANGED <<enabled, presses, setup, abort, granted, opened, heard, drops,
                 handlers, pcm, said, processing, closing, history>>

\* handleActivateAI when it is active.
Deactivate ==
  /\ enabled /\ enabled' = FALSE /\ recording' = FALSE
  /\ mic' = 0 /\ micLive' = micLive \ {mic} /\ worklets' = {}
  /\ ws' = Shut(cur) /\ cur' = 0
  /\ UNCHANGED <<held, presses, setup, abort, granted, opened, heard, drops, turns, history>>

\* handleActivateAI when it is not: its trial microphone stream is stopped.
Activate ==
  /\ ~enabled /\ enabled' = TRUE
  /\ UNCHANGED <<held, presses, recording, setup, abort, hardware, sockets, turns, history>>

------------------------------------------------------------------------------
(* The setup of press p goes on when what it awaits has settled. *)

WsOpens(p) ==
  /\ ws[p] = "connecting"
  /\ ws' = [ws EXCEPT ![p] = "open"]
  /\ opened' = opened \cup {p}
  /\ UNCHANGED <<button, setup, abort, hardware, cur, heard, drops, turns, history>>

\* getUserMedia may resolve after its setup gave up on something else.
MicGranted(p) ==
  /\ setup[p] \in {"waiting", "gaveUp"} /\ p \notin granted
  /\ granted' = granted \cup {p} /\ micLive' = micLive \cup {p}
  /\ UNCHANGED <<button, setup, abort, mic, worklets, sockets, turns, history>>

Ready(p) == setup[p] = "waiting" /\ p \in opened /\ p \in granted

\* "User released PTT before hardware was ready": the current WebSocket goes.
SetupAborts(p) ==
  /\ Ready(p) /\ abort
  /\ setup' = [setup EXCEPT ![p] = "aborted"]
  /\ micLive' = micLive \ {p}
  /\ ws' = Shut(cur) /\ cur' = 0
  /\ lost' = lost \cup {q \in P \ {p} : q = cur /\ Wanted(q)}
  /\ recording' = FALSE
  /\ UNCHANGED <<enabled, held, presses, abort, granted, mic, worklets, opened, heard, drops, turns, late, failed>>

\* Mutant: the chunks of the previous turn are kept.
SetupDoneKeepsChunks(p) ==
  /\ Ready(p) /\ ~abort
  /\ setup' = [setup EXCEPT ![p] = "ready"]
  /\ mic' = p /\ worklets' = worklets \cup {p}
  /\ late' = IF held = p THEN late ELSE late \cup {p}
  /\ UNCHANGED <<button, abort, granted, micLive, sockets, turns, lost, failed>>

SetupDone(p) ==
  /\ Ready(p) /\ ~abort
  /\ setup' = [setup EXCEPT ![p] = "ready"]
  /\ pcm' = {}
  /\ mic' = p /\ worklets' = worklets \cup {p}
  /\ late' = IF held = p THEN late ELSE late \cup {p}
  /\ UNCHANGED <<button, abort, granted, micLive, sockets, turn, handlers, said, processing, closing, lost, failed>>

\* What a catch leaves, stream m stopped: the refs are cleared whatever they
\* hold, and the AudioContext of every worklet is closed.
Cleared(m) ==
  /\ mic' = 0 /\ micLive' = micLive \ {m} /\ worklets' = {}
  /\ ws' = Shut(cur) /\ cur' = 0

\* One of the three that are awaited together fails: the microphone is refused,
\* or the WebSocket does not open in 8 s or the worklet module does not load,
\* and the stream getUserMedia has granted or will grant is nobody's.
SetupFails(p) ==
  /\ setup[p] = "waiting"
  /\ \/ setup' = [setup EXCEPT ![p] = "gaveUp"]
     \/ p \notin granted /\ setup' = [setup EXCEPT ![p] = "denied"]
  /\ Cleared(mic)
  /\ UNCHANGED <<button, abort, granted, opened, heard, drops, turns, history>>

\* An audio node cannot be made once the stream is in its ref.
SetupBreaks(p) ==
  /\ Ready(p) /\ ~abort
  /\ setup' = [setup EXCEPT ![p] = "broken"]
  /\ pcm' = {}
  /\ Cleared(p)
  /\ UNCHANGED <<button, abort, granted, opened, heard, drops, turn, handlers, said, processing,
                 closing, history>>

\* A frame of the worklet of press p goes to the current WebSocket.
MicFrame(p) ==
  /\ p \in worklets /\ cur # 0 /\ ws[cur] = "open"
  /\ heard' = [heard EXCEPT ![cur] = @ \cup {p}]
  /\ UNCHANGED <<button, setup, abort, hardware, opened, ws, cur, drops, turns, history>>

------------------------------------------------------------------------------
(* What the relay sends on the WebSocket of press p. *)

\* The onclose handler sees isRecording as it was before the press: nothing.
WsDrops(p) ==
  /\ ws[p] \in {"connecting", "open"} /\ drops < MaxDrops /\ drops' = drops + 1
  /\ ws' = [ws EXCEPT ![p] = "closed"]
  /\ UNCHANGED <<button, setup, abort, hardware, opened, cur, heard, turns, history>>

AudioArrives(p) ==
  /\ ws[p] = "open" /\ turn[p] = "committed"
  /\ pcm' = pcm \cup {p}
  /\ UNCHANGED <<button, setup, abort, hardware, sockets, turn, handlers, said, processing, closing, history>>

\* turn_done with text: _handleRealtimeTurnDone up to its first await.
TurnDone(p) ==
  /\ ws[p] = "open" /\ turn[p] = "committed"
  /\ turn' = [turn EXCEPT ![p] = "done"]
  /\ handlers' = [handlers EXCEPT ![p] = @ + 1]
  /\ processing' = TRUE
  /\ said' = [said EXCEPT ![p] = pcm] /\ pcm' = {}
  /\ UNCHANGED <<button, setup, abort, hardware, sockets, closing, history>>

\* turn_done without text is not handled.
TurnEmpty(p) ==
  /\ ws[p] = "open" /\ turn[p] = "committed"
  /\ turn' = [turn EXCEPT ![p] = "empty"]
  /\ UNCHANGED <<button, setup, abort, hardware, sockets, handlers, pcm, said, processing, closing, history>>

ErrorArrives(p) ==
  /\ ws[p] = "open"
  /\ processing' = FALSE
  /\ UNCHANGED <<button, setup, abort, hardware, sockets, turn, handlers, pcm, said, closing, history>>

\* Mutant: the handler leaves isProcessing set.
HandlerEndsProcessing(p) ==
  /\ handlers[p] > 0 /\ handlers' = [handlers EXCEPT ![p] = @ - 1]
  /\ closing' = closing \cup {cur}
  /\ UNCHANGED <<button, setup, abort, hardware, sockets, turn, pcm, said, processing, history>>

\* Mutant: nothing closes the WebSocket.
HandlerEndsNoTimer(p) ==
  /\ handlers[p] > 0 /\ handlers' = [handlers EXCEPT ![p] = @ - 1]
  /\ processing' = FALSE
  /\ UNCHANGED <<button, setup, abort, hardware, sockets, turn, pcm, said, closing, history>>

\* The audio was broadcast and played: the handler captures the WebSocket of
\* the moment for its timer.
HandlerEnds(p) ==
  /\ handlers[p] > 0 /\ handlers' = [handlers EXCEPT ![p] = @ - 1]
  /\ processing' = FALSE
  /\ closing' = closing \cup {cur}
  /\ UNCHANGED <<button, setup, abort, hardware, sockets, turn, pcm, said, history>>

\* The handler throws, because roomRef was cleared while the audio was sent and
\* the notice needs its identity, or waits for a playback that never settles.
HandlerFails(p) ==
  /\ handlers[p] > 0 /\ handlers' = [handlers EXCEPT ![p] = @ - 1]
  /\ failed' = failed \cup {p}
  /\ UNCHANGED <<button, setup, abort, hardware, sockets, turn, pcm, said, processing, closing,
                 lost, late>>

CloseTimer(w) ==
  /\ w \in closing /\ closing' = closing \ {w}
  /\ ws' = Shut(w)
  /\ cur' = IF cur = w THEN 0 ELSE cur
  /\ UNCHANGED <<button, setup, abort, hardware, opened, heard, drops, turn, handlers, pcm, said,
                 processing, history>>

------------------------------------------------------------------------------
Resume(p) == SetupAborts(p) \/ SetupDone(p) \/ SetupBreaks(p) \/ SetupFails(p)

Next ==
  \/ Press \/ PressRefused \/ ReleaseEarly \/ Deactivate \/ Activate
  \/ \E c \in BOOLEAN : Release(c)
  \/ \E p \in P :
       \/ WsOpens(p) \/ WsDrops(p) \/ MicGranted(p) \/ MicFrame(p) \/ Resume(p)
       \/ AudioArrives(p) \/ TurnDone(p) \/ TurnEmpty(p) \/ ErrorArrives(p) \/ HandlerEnds(p) \/ HandlerFails(p)
  \/ \E w \in Refs : CloseTimer(w)

Spec == Init /\ [][Next]_vars

\* A setup settles within its timeout, a handler ends unless it fails, a timer
\* fires.
FairSpec ==
  /\ Spec
  /\ \A p \in P : WF_vars(Resume(p)) /\ WF_vars(HandlerEnds(p))
  /\ \A w \in Refs : WF_vars(CloseTimer(w))

------------------------------------------------------------------------------
(* Properties. *)

\* At most one relay connection, each of them a paid OpenAI session, is up.
OneConnection == Cardinality({p \in P : ws[p] \in {"connecting", "open"}}) <= 1

\* While every setup is done before its release, turns stay apart: only the
\* press's own speech is sent to its session, and only the audio of its own
\* translation is forwarded with it, through buffers all presses share.
TurnsStayApart ==
  late = {} => \A p \in P : heard[p] \subseteq {p} /\ said[p] \subseteq {p}

\* stopLocalRecording, "If the user released before async setup finished, signal
\* the setup to abort" (Stage.jsx:1652): no microphone is set up for a press
\* whose button is up.
EarlyReleaseAborts == late = {}

\* With one press, no microphone runs once the button is up and no setup is
\* under way, unless that setup gave up on the WebSocket or on the worklet and
\* forgot the stream.
SinglePressMicOff ==
  held = 0 /\ presses = 1 /\ setup[1] \notin {"waiting", "gaveUp"} => micLive = {}

\* "User released PTT before hardware was ready — abort cleanly"
\* (Stage.jsx:1599): the setup that aborts closes whatever connection is
\* current, and still never one a turn of another press needs, while every
\* setup is done before its release (without that, six presses lose a turn).
AbortSparesOthers == late = {} => lost = {}

\* What the page holds open is one connection for the press that needs it and
\* no microphone for none.
NothingLeftOpen == OneConnection /\ SinglePressMicOff /\ AbortSparesOthers

\* The button comes back: it refuses presses for ever only once the handler of a
\* turn has failed (Stage.jsx:1365).
ButtonComesBack == processing ~> (~processing \/ failed # {})

\* The paid session of a turn that was shown is closed in the end, unless its
\* handler failed before it set the timer.
ShownClosesSession ==
  \A p \in P : turn[p] = "done" /\ handlers[p] = 0 ~> ws[p] = "closed" \/ p \in failed
==============================================================================
