---------------------------- MODULE RealtimeRelay ----------------------------
(***************************************************************************)
(* One /api/v1/realtime/ws connection: the relay between a browser and the *)
(* OpenAI Realtime API (services/api/api/v1/realtime_translate.py).        *)
(*                                                                         *)
(* The handler loops: connect to OpenAI, configure the session, run one    *)
(* task per direction (c2o: client to OpenAI, o2c: OpenAI to client) until *)
(* either ends, cancel the other, and connect again while the client lives.*)
(* The browser and OpenAI are the environment.                             *)
(***************************************************************************)
EXTENDS Naturals, Sequences, FiniteSets, Functions

CONSTANTS
  Modes,          \* "ptt": the client commits; "vad": OpenAI detects turns
  MaxRetries,     \* max_retries of the handler (8 in the code)
  MaxDelay,       \* cap of the exponential backoff (30 seconds in the code)
  ReinjectEvery,  \* turns between two prompt injections (3 or 5 in the code)
  MaxAudio,       \* bound: audio frames the browser sends
  MaxCtrl         \* bound: commit and interrupt frames the browser sends

ASSUME RelayAssumption ==
  /\ Modes \subseteq {"ptt", "vad"} /\ Modes # {}
  /\ MaxRetries \in Nat \ {0} /\ MaxDelay \in Nat \ {0}
  /\ ReinjectEvery \in Nat \ {0}
  /\ MaxAudio \in Nat /\ MaxCtrl \in Nat

VARIABLES
  mode,         \* the mode query parameter of the connection
  clientOpen,   \* the browser's end of the WebSocket is open
  sentAudio, sentCtrl,  \* frames the browser has sent, by kind
  inbox,        \* frames the server has not read yet, in order
  pc,           \* where the handler's loop is
  clientAlive,  \* client_alive
  attempts, retryDelay,
  c2o,          \* _client_to_openai tasks alive: of this connection, or left over
  o2c,          \* the _openai_to_client task of this connection runs
  oaiUp,        \* the OpenAI connection is up
  oaiBuf,       \* OpenAI's input audio buffer: frame numbers not committed
  oaiPending,   \* responses OpenAI has been asked for: the audio of each
  oaiOut,       \* events OpenAI sent that the relay has not read
  turnCaption,  \* turn_caption: the response each caption delta belongs to
  turnCount,    \* turn_count of this connection
  sinceInject,  \* turns finished since the prompt was last sent
  appended,     \* audio frames appended on this connection
  turns         \* turn_done messages sent to the client: their captions

clientVars == <<mode, clientOpen, sentAudio, sentCtrl>>
loopVars   == <<pc, clientAlive, attempts, retryDelay>>
oaiVars    == <<oaiUp, oaiBuf, oaiPending, oaiOut>>
turnVars   == <<turnCaption, turnCount, sinceInject>>
vars == <<clientVars, inbox, loopVars, c2o, o2c, oaiVars, turnVars, appended, turns>>

Audio(n) == [kind |-> "audio", n |-> n]
Ctrl(k)  == [kind |-> k, n |-> 0]
Frames   == {Audio(n) : n \in 1..MaxAudio}
              \cup {Ctrl(k) : k \in {"commit", "interrupt", "disconnect"}}

\* A response is named by the audio frames it translates.
Responses == SUBSET (1..MaxAudio)
Events    == [kind : {"delta", "done", "error", "noise"}, resp : Responses]

TypeOK ==
  /\ mode \in Modes
  /\ clientOpen \in BOOLEAN /\ clientAlive \in BOOLEAN
  /\ sentAudio \in 0..MaxAudio /\ sentCtrl \in 0..MaxCtrl
  /\ inbox \in Seq(Frames)
  /\ pc \in {"connect", "backoff", "relay", "ended"}
  /\ attempts \in 0..MaxRetries /\ retryDelay \in 1..MaxDelay
  /\ c2o \subseteq {"current", "stale"} /\ o2c \in BOOLEAN
  /\ oaiUp \in BOOLEAN
  /\ oaiBuf \in Seq(1..MaxAudio) /\ oaiPending \in Seq(Responses)
  /\ oaiOut \in Seq(Events)
  /\ turnCaption \in Seq(Responses)
  /\ turnCount \in 0..(ReinjectEvery - 1) /\ sinceInject \in Nat
  /\ appended \in Seq(1..MaxAudio)
  /\ turns \in SUBSET SUBSET Responses

Init ==
  /\ mode \in Modes
  /\ clientOpen = TRUE /\ sentAudio = 0 /\ sentCtrl = 0 /\ inbox = <<>>
  /\ pc = "connect" /\ clientAlive = TRUE /\ attempts = 0 /\ retryDelay = 1
  /\ c2o = {} /\ o2c = FALSE
  /\ oaiUp = FALSE /\ oaiBuf = <<>> /\ oaiPending = <<>> /\ oaiOut = <<>>
  /\ turnCaption = <<>> /\ turnCount = 0 /\ sinceInject = 0
  /\ appended = <<>> /\ turns = {}

------------------------------------------------------------------------------
(* The browser. *)

ClientSendAudio ==
  /\ clientOpen /\ sentAudio < MaxAudio
  /\ sentAudio' = sentAudio + 1
  /\ inbox' = Append(inbox, Audio(sentAudio + 1))
  /\ UNCHANGED <<mode, clientOpen, sentCtrl, loopVars, c2o, o2c, oaiVars, turnVars, appended, turns>>

\* Push-to-talk release (commit) or an interrupt.
ClientSendCtrl(k) ==
  /\ clientOpen /\ sentCtrl < MaxCtrl
  /\ k = "commit" => mode = "ptt"
  /\ sentCtrl' = sentCtrl + 1
  /\ inbox' = Append(inbox, Ctrl(k))
  /\ UNCHANGED <<mode, clientOpen, sentAudio, loopVars, c2o, o2c, oaiVars, turnVars, appended, turns>>

\* The disconnect is read after every frame sent before it.
ClientClose ==
  /\ clientOpen
  /\ clientOpen' = FALSE
  /\ inbox' = Append(inbox, Ctrl("disconnect"))
  /\ UNCHANGED <<mode, sentAudio, sentCtrl, loopVars, c2o, o2c, oaiVars, turnVars, appended, turns>>

------------------------------------------------------------------------------
(* The handler's loop. *)

\* Mutant: the loop forgets why it stopped and only counts attempts.
LoopAgainDeaf == attempts < MaxRetries

LoopAgain == clientAlive /\ attempts < MaxRetries

\* Mutant: turn_caption is created once, outside the loop.
ConnectKeepsCaption ==
  /\ pc = "connect"
  /\ pc' = "relay" /\ attempts' = 0 /\ retryDelay' = 1
  /\ oaiUp' = TRUE /\ oaiBuf' = <<>> /\ oaiPending' = <<>> /\ oaiOut' = <<>>
  /\ c2o' = c2o \cup {"current"} /\ o2c' = TRUE
  /\ turnCount' = 0 /\ sinceInject' = 0 /\ appended' = <<>>
  /\ UNCHANGED <<clientVars, inbox, clientAlive, turnCaption, turns>>

\* ws_connect succeeded and session.update went out: backoff is reset and the
\* relay tasks of this connection start with fresh per-connection state.
Connect ==
  /\ pc = "connect"
  /\ pc' = "relay" /\ attempts' = 0 /\ retryDelay' = 1
  /\ oaiUp' = TRUE /\ oaiBuf' = <<>> /\ oaiPending' = <<>> /\ oaiOut' = <<>>
  /\ c2o' = c2o \cup {"current"} /\ o2c' = TRUE
  /\ turnCaption' = <<>> /\ turnCount' = 0 /\ sinceInject' = 0
  /\ appended' = <<>>
  /\ UNCHANGED <<clientVars, inbox, clientAlive, turns>>

\* aiohttp.ClientError: count the attempt, give up or back off.
ConnectFails ==
  /\ pc = "connect"
  /\ attempts' = attempts + 1
  /\ pc' = IF ~clientAlive \/ attempts + 1 >= MaxRetries THEN "ended" ELSE "backoff"
  /\ UNCHANGED <<clientVars, inbox, clientAlive, retryDelay, c2o, o2c, oaiVars, turnVars, appended, turns>>

\* Any other exception around the connection ends the handler.
ConnectRaises ==
  /\ pc = "connect"
  /\ pc' = "ended"
  /\ UNCHANGED <<clientVars, inbox, clientAlive, attempts, retryDelay, c2o, o2c, oaiVars, turnVars, appended, turns>>

BackoffOver ==
  /\ pc = "backoff"
  /\ retryDelay' = IF 2 * retryDelay <= MaxDelay THEN 2 * retryDelay ELSE MaxDelay
  /\ pc' = IF LoopAgain THEN "connect" ELSE "ended"
  /\ UNCHANGED <<clientVars, inbox, clientAlive, attempts, c2o, o2c, oaiVars, turnVars, appended, turns>>

\* Mutant: the pending task is left running instead of cancelled.
IterationEndsUncancelled ==
  /\ pc = "relay"
  /\ "current" \notin c2o \/ ~o2c
  /\ c2o' = (IF c2o = {} THEN {} ELSE {"stale"}) /\ o2c' = FALSE
  /\ oaiUp' = FALSE /\ oaiBuf' = <<>> /\ oaiPending' = <<>> /\ oaiOut' = <<>>
  /\ pc' = IF LoopAgain THEN "connect" ELSE "ended"
  /\ UNCHANGED <<clientVars, inbox, clientAlive, attempts, retryDelay, turnVars, appended, turns>>

\* asyncio.wait(FIRST_COMPLETED) returned: the pending task is cancelled and
\* leaving the context closes the OpenAI connection.
IterationEnds ==
  /\ pc = "relay"
  /\ "current" \notin c2o \/ ~o2c
  /\ c2o' = {} /\ o2c' = FALSE
  /\ oaiUp' = FALSE /\ oaiBuf' = <<>> /\ oaiPending' = <<>> /\ oaiOut' = <<>>
  /\ pc' = IF LoopAgain THEN "connect" ELSE "ended"
  /\ UNCHANGED <<clientVars, inbox, clientAlive, attempts, retryDelay, turnVars, appended, turns>>

------------------------------------------------------------------------------
(* _client_to_openai: task t reads one frame. *)

ReadFrame(t, k) ==
  /\ t \in c2o /\ inbox # <<>> /\ Head(inbox).kind = k
  /\ inbox' = Tail(inbox)

CanSend(t) == t = "current" /\ oaiUp

ReadDisconnect(t) ==
  /\ ReadFrame(t, "disconnect")
  /\ clientAlive' = FALSE
  /\ c2o' = c2o \ {t}
  /\ UNCHANGED <<clientVars, pc, attempts, retryDelay, o2c, oaiVars, turnVars, appended, turns>>

ForwardAudio(t) ==
  /\ ReadFrame(t, "audio") /\ CanSend(t)
  /\ oaiBuf' = Append(oaiBuf, Head(inbox).n)
  /\ appended' = Append(appended, Head(inbox).n)
  /\ UNCHANGED <<clientVars, loopVars, c2o, o2c, oaiUp, oaiPending, oaiOut, turnVars, turns>>

\* send_json raises on a closing transport: the task gives the client up.
ForwardAudioFails(t) ==
  /\ ReadFrame(t, "audio") /\ ~CanSend(t)
  /\ clientAlive' = FALSE
  /\ c2o' = c2o \ {t}
  /\ UNCHANGED <<clientVars, pc, attempts, retryDelay, o2c, oaiVars, turnVars, appended, turns>>

\* commit then response.create. OpenAI answers a commit of nothing with
\* input_audio_buffer_empty and still runs the response it was asked for.
ForwardCommit(t) ==
  /\ ReadFrame(t, "commit") /\ CanSend(t)
  /\ oaiPending' = Append(oaiPending, Range(oaiBuf))
  /\ oaiOut' = IF oaiBuf = <<>> THEN Append(oaiOut, [kind |-> "noise", resp |-> {}]) ELSE oaiOut
  /\ oaiBuf' = <<>>
  /\ UNCHANGED <<clientVars, loopVars, c2o, o2c, oaiUp, turnVars, appended, turns>>

\* response.cancel: OpenAI drops the response it has not started or reports
\* that nothing was active.
ForwardInterrupt(t) ==
  /\ ReadFrame(t, "interrupt") /\ CanSend(t)
  /\ IF oaiPending = <<>>
     THEN /\ oaiOut' = Append(oaiOut, [kind |-> "noise", resp |-> {}])
          /\ UNCHANGED oaiPending
     ELSE /\ oaiPending' = Tail(oaiPending)
          /\ oaiOut' = Append(oaiOut, [kind |-> "done", resp |-> Head(oaiPending)])
  /\ UNCHANGED <<clientVars, loopVars, c2o, o2c, oaiUp, oaiBuf, turnVars, appended, turns>>

\* Any failure around a control frame is caught and the frame is dropped.
DropCtrl(t) ==
  /\ ReadFrame(t, "commit") \/ ReadFrame(t, "interrupt")
  /\ ~CanSend(t)
  /\ UNCHANGED <<clientVars, loopVars, c2o, o2c, oaiVars, turnVars, appended, turns>>

ClientToOpenai(t) ==
  \/ ReadDisconnect(t)
  \/ ForwardAudio(t)  \/ ForwardAudioFails(t)
  \/ ForwardCommit(t) \/ ForwardInterrupt(t) \/ DropCtrl(t)

------------------------------------------------------------------------------
(* _openai_to_client: the task handles one event. *)

NextEvent(k) == o2c /\ oaiOut # <<>> /\ Head(oaiOut).kind = k

\* The WebSocket to the browser raises once the browser is gone.
SendFails ==
  /\ o2c /\ oaiOut # <<>> /\ Head(oaiOut).kind # "noise" /\ ~clientOpen
  /\ o2c' = FALSE
  /\ oaiOut' = Tail(oaiOut)
  /\ UNCHANGED <<clientVars, inbox, loopVars, c2o, oaiUp, oaiBuf, oaiPending, turnVars, appended, turns>>

ForwardDelta ==
  /\ NextEvent("delta") /\ clientOpen
  /\ oaiOut' = Tail(oaiOut)
  /\ turnCaption' = Append(turnCaption, Head(oaiOut).resp)
  /\ UNCHANGED <<clientVars, inbox, loopVars, c2o, o2c, oaiUp, oaiBuf, oaiPending, turnCount, sinceInject, appended, turns>>

\* Mutant: the prompt goes out one turn late.
ForwardDoneLateInject ==
  /\ NextEvent("done") /\ clientOpen
  /\ oaiOut' = Tail(oaiOut)
  /\ turns' = turns \cup {Range(turnCaption)}
  /\ turnCaption' = <<>>
  /\ turnCount' = (turnCount + 1) % ReinjectEvery
  /\ IF turnCount' = 0 /\ sinceInject >= ReinjectEvery
     THEN sinceInject' = 0 /\ o2c' = oaiUp
     ELSE sinceInject' = sinceInject + 1 /\ UNCHANGED o2c
  /\ UNCHANGED <<clientVars, inbox, loopVars, c2o, oaiUp, oaiBuf, oaiPending, appended>>

\* response.done: turn_done goes to the client, and every ReinjectEvery-th
\* turn the prompt goes to OpenAI again. turnCount is kept modulo
\* ReinjectEvery, the only thing the code looks at. On a connection that is
\* gone the injection raises and the task ends.
ForwardDone ==
  /\ NextEvent("done") /\ clientOpen
  /\ oaiOut' = Tail(oaiOut)
  /\ turns' = turns \cup {Range(turnCaption)}
  /\ turnCaption' = <<>>
  /\ turnCount' = (turnCount + 1) % ReinjectEvery
  /\ IF turnCount' = 0
     THEN sinceInject' = 0 /\ o2c' = oaiUp
     ELSE sinceInject' = sinceInject + 1 /\ UNCHANGED o2c
  /\ UNCHANGED <<clientVars, inbox, loopVars, c2o, oaiUp, oaiBuf, oaiPending, appended>>

\* Errors are forwarded, the codes of _IGNORABLE_ERROR_CODES are not.
ForwardError ==
  /\ NextEvent("noise") \/ (NextEvent("error") /\ clientOpen)
  /\ oaiOut' = Tail(oaiOut)
  /\ UNCHANGED <<clientVars, inbox, loopVars, c2o, o2c, oaiUp, oaiBuf, oaiPending, turnVars, appended, turns>>

\* The stream of events ended, or receive_timeout raised.
StreamEnds ==
  /\ o2c /\ ~oaiUp /\ oaiOut = <<>>
  /\ o2c' = FALSE
  /\ UNCHANGED <<clientVars, inbox, loopVars, c2o, oaiVars, turnVars, appended, turns>>

OpenaiToClient == SendFails \/ ForwardDelta \/ ForwardDone \/ ForwardError \/ StreamEnds

------------------------------------------------------------------------------
(* OpenAI: an environment the relay sees only through its events. *)

Emit(es) == oaiOut' = oaiOut \o es

\* Server VAD ends the user's turn and creates the response by itself.
OaiDetectsTurn ==
  /\ oaiUp /\ mode = "vad" /\ oaiBuf # <<>>
  /\ oaiPending' = Append(oaiPending, Range(oaiBuf))
  /\ oaiBuf' = <<>>
  /\ UNCHANGED <<clientVars, inbox, loopVars, c2o, o2c, oaiUp, oaiOut, turnVars, appended, turns>>

\* A response streams two deltas; or it has no transcript; or it fails.
OaiResponds ==
  /\ oaiUp /\ oaiPending # <<>>
  /\ oaiPending' = Tail(oaiPending)
  /\ LET r == Head(oaiPending)
         ev(k) == [kind |-> k, resp |-> r]
     IN \/ Emit(<<ev("delta"), ev("delta"), ev("done")>>)
        \/ Emit(<<ev("done")>>)
        \/ Emit(<<ev("delta"), ev("error"), ev("done")>>)
  /\ UNCHANGED <<clientVars, inbox, loopVars, c2o, o2c, oaiUp, oaiBuf, turnVars, appended, turns>>

\* The connection drops; of what OpenAI sent, a prefix still reaches the relay.
OaiDrops ==
  /\ oaiUp
  /\ oaiUp' = FALSE
  /\ \E n \in 0..Len(oaiOut) : oaiOut' = SubSeq(oaiOut, 1, n)
  /\ oaiBuf' = <<>> /\ oaiPending' = <<>>
  /\ UNCHANGED <<clientVars, inbox, loopVars, c2o, o2c, turnVars, appended, turns>>

------------------------------------------------------------------------------
Environment ==
  \/ ClientSendAudio \/ (\E k \in {"commit", "interrupt"} : ClientSendCtrl(k)) \/ ClientClose
  \/ OaiDetectsTurn \/ OaiResponds \/ OaiDrops

Loop == Connect \/ ConnectFails \/ ConnectRaises \/ BackoffOver \/ IterationEnds

Next ==
  \/ Environment
  \/ Loop
  \/ OpenaiToClient
  \/ \E t \in {"current", "stale"} : ClientToOpenai(t)

\* The event loop runs every task that can run; the browser and OpenAI owe
\* nothing. c2o is created first on every connection and so gets its turn on
\* each, however short-lived: strong fairness, since a flapping connection
\* disables it again and again.
Fairness ==
  /\ WF_vars(Loop)
  /\ WF_vars(OpenaiToClient)
  /\ SF_vars(\E t \in {"current", "stale"} : ClientToOpenai(t))

Spec == Init /\ [][Next]_vars
FairSpec == Spec /\ Fairness

------------------------------------------------------------------------------
(* Properties. *)

\* The caption of a turn_done never joins the text of two responses, across
\* interrupts, failed responses and connections lost in the middle of a turn.
OneResponsePerTurn == \A c \in turns : Cardinality(c) <= 1

\* On one OpenAI connection no audio frame is skipped, repeated or reordered:
\* frames are lost only between two connections. It fails if a task of an
\* earlier connection still reads from the browser.
NoGapInSession ==
  \A i \in 1..(Len(appended) - 1) : appended[i + 1] = appended[i] + 1

\* No connection goes ReinjectEvery turns without the accent-locked prompt.
PromptIsFresh == sinceInject < ReinjectEvery

TwoTo[n \in 0..MaxRetries] == IF n = 0 THEN 1 ELSE 2 * TwoTo[n - 1]
Capped(d) == IF d > MaxDelay THEN MaxDelay ELSE d

\* While connecting fails in a row, the delay is the doubling of the number of
\* failures, capped: a success in between resets both together.
BackoffFollowsAttempts == pc = "backoff" => retryDelay = Capped(TwoTo[attempts - 1])

\* client_alive "tracks whether client WS is still open"
\* (realtime_translate.py:1120): it is cleared only after the browser left.
ClientAliveTracksSocket == ~clientAlive => ~clientOpen

\* Once the browser is gone the handler ends and with it the paid OpenAI
\* session, whatever OpenAI does meanwhile.
HandlerEnds == ~clientOpen ~> (pc = "ended" /\ ~oaiUp)

\* Connecting is not tried for ever: the handler gets a session or gives up.
ConnectSettles == (pc \in {"connect", "backoff"}) ~> (pc \in {"relay", "ended"})

\* The handler is always on its way somewhere, to a session or to its end, and
\* tries again at the pace of its failures.
HandlerSettles == HandlerEnds /\ ConnectSettles /\ []BackoffFollowsAttempts
==============================================================================
