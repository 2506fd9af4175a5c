------------------------------- MODULE EchoGate -------------------------------
(***************************************************************************)
(* The two directions of a Talk Together session in one browser            *)
(* (clients/web/src/utils/RealtimeTranslateSession.js): each sends its     *)
(* microphone to its own relay connection and plays what comes back, and   *)
(* while one plays the other's microphone is gated.                        *)
(*                                                                         *)
(* Time is counted in ticks of 80 ms, the tail of the gate; a chunk lasts  *)
(* a tick. A timer fires when it is due or later, as in a busy page. The   *)
(* playback context is taken to be running.                                *)
(***************************************************************************)
EXTENDS Naturals

CONSTANTS
  MaxChunks,  \* bound: audio chunks each direction receives
  MaxCloses   \* bound: times a connection closes

ASSUME GateAssumption == MaxChunks \in Nat /\ MaxCloses \in Nat

VARIABLES
  state,    \* starting, live (_active), failed or stopped, per direction
  ws,       \* the relay connection: none, connecting, open, closed (retry due)
  received, closes,
  queue,    \* chunks in _playbackQueue
  playing,  \* _isPlaying, and the gate of the sibling's microphone with it
  timer,    \* the timer pending: none, poll (8 ms), tail
  tail,     \* ticks until the tail timer is due
  audible   \* ticks of scheduled audio still to be heard: _nextPlayAt - now

Dirs == {"A", "B"}
Sibling == [A |-> "B", B |-> "A"]

playback == <<queue, playing, timer, tail, audible>>
vars == <<state, ws, received, closes, playback>>

TypeOK ==
  /\ state \in [Dirs -> {"starting", "live", "failed", "stopped"}]
  /\ ws \in [Dirs -> {"none", "connecting", "open", "closed"}]
  /\ received \in [Dirs -> 0..MaxChunks] /\ closes \in 0..MaxCloses
  /\ queue \in [Dirs -> 0..MaxChunks]
  /\ playing \in [Dirs -> BOOLEAN]
  /\ timer \in [Dirs -> {"none", "poll", "tail"}]
  /\ tail \in [Dirs -> 0..(MaxChunks + 1)]
  /\ audible \in [Dirs -> 0..MaxChunks]

Each(x) == [d \in Dirs |-> x]

Init ==
  /\ state = Each("starting") /\ ws = Each("none")
  /\ received = Each(0) /\ closes = 0
  /\ queue = Each(0) /\ playing = Each(FALSE)
  /\ timer = Each("none") /\ tail = Each(0) /\ audible = Each(0)

Active(d) == state[d] \in {"starting", "live"}

------------------------------------------------------------------------------
(* Connection. *)

\* The microphone and the worklet are ready: _connect.
StartOk(d) ==
  /\ state[d] = "starting"
  /\ state' = [state EXCEPT ![d] = "live"]
  /\ ws' = [ws EXCEPT ![d] = "connecting"]
  /\ UNCHANGED <<received, closes, playback>>

StartFails(d) ==
  /\ state[d] = "starting"
  /\ state' = [state EXCEPT ![d] = "failed"]
  /\ UNCHANGED <<ws, received, closes, playback>>

Opens(d) ==
  /\ ws[d] = "connecting"
  /\ ws' = [ws EXCEPT ![d] = "open"]
  /\ UNCHANGED <<state, received, closes, playback>>

\* onclose: _connect is due in 500 ms.
Closes(d) ==
  /\ state[d] = "live" /\ ws[d] \in {"connecting", "open"}
  /\ closes < MaxCloses /\ closes' = closes + 1
  /\ ws' = [ws EXCEPT ![d] = "closed"]
  /\ UNCHANGED <<state, received, playback>>

Reconnect(d) ==
  /\ state[d] = "live" /\ ws[d] = "closed"
  /\ ws' = [ws EXCEPT ![d] = "connecting"]
  /\ UNCHANGED <<state, received, closes, playback>>

\* stop: the page has the session once both directions started. The playback
\* context closes, the timers stay.
Stop ==
  /\ \A d \in Dirs : state[d] = "live"
  /\ state' = Each("stopped") /\ ws' = Each("none") /\ audible' = Each(0)
  /\ UNCHANGED <<received, closes, queue, playing, timer, tail>>

------------------------------------------------------------------------------
(* Playback. *)

\* _drainQueue: everything queued is scheduled back to back, then polled.
Drain(d, n) ==
  /\ queue' = [queue EXCEPT ![d] = 0]
  /\ audible' = [audible EXCEPT ![d] = @ + n]
  /\ timer' = [timer EXCEPT ![d] = "poll"]

HandleAudio(d) ==
  /\ state[d] = "live" /\ ws[d] = "open" /\ received[d] < MaxChunks
  /\ received' = [received EXCEPT ![d] = @ + 1]
  /\ IF playing[d]
     THEN /\ queue' = [queue EXCEPT ![d] = @ + 1]
          /\ UNCHANGED <<playing, timer, audible>>
     ELSE /\ playing' = [playing EXCEPT ![d] = TRUE]
          /\ Drain(d, queue[d] + 1)
  /\ UNCHANGED <<state, ws, closes, tail>>

\* The poll finds more chunks, or starts the tail: what is left, and 80 ms.
PollDrains(d) ==
  /\ timer[d] = "poll" /\ queue[d] > 0
  /\ IF Active(d)
     THEN Drain(d, queue[d])
     ELSE timer' = [timer EXCEPT ![d] = "none"] /\ UNCHANGED <<queue, audible>>
  /\ UNCHANGED <<state, ws, received, closes, playing, tail>>

\* Mutant: the tail starts now instead of when the audio ends.
PollEndsEarly(d) ==
  /\ timer[d] = "poll" /\ queue[d] = 0
  /\ timer' = [timer EXCEPT ![d] = "tail"]
  /\ tail' = [tail EXCEPT ![d] = 1]
  /\ UNCHANGED <<state, ws, received, closes, queue, playing, audible>>

PollEnds(d) ==
  /\ timer[d] = "poll" /\ queue[d] = 0
  /\ timer' = [timer EXCEPT ![d] = "tail"]
  /\ tail' = [tail EXCEPT ![d] = audible[d] + 1]
  /\ UNCHANGED <<state, ws, received, closes, queue, playing, audible>>

\* Mutant: chunks that came during the tail keep the gate closed for ever.
TailEndsOnlyIfEmpty(d) ==
  /\ timer[d] = "tail" /\ tail[d] = 0
  /\ timer' = [timer EXCEPT ![d] = "none"]
  /\ playing' = [playing EXCEPT ![d] = queue[d] > 0]
  /\ UNCHANGED <<state, ws, received, closes, queue, tail, audible>>

\* Whatever was queued during the tail stays queued.
TailEnds(d) ==
  /\ timer[d] = "tail" /\ tail[d] = 0
  /\ timer' = [timer EXCEPT ![d] = "none"]
  /\ playing' = [playing EXCEPT ![d] = FALSE]
  /\ UNCHANGED <<state, ws, received, closes, queue, tail, audible>>

Less(f) == [d \in Dirs |-> IF f[d] > 0 THEN f[d] - 1 ELSE 0]

Tick ==
  /\ \E d \in Dirs : audible[d] > 0 \/ tail[d] > 0
  /\ audible' = Less(audible) /\ tail' = Less(tail)
  /\ UNCHANGED <<state, ws, received, closes, queue, playing, timer>>

------------------------------------------------------------------------------
Timers(d) == PollDrains(d) \/ PollEnds(d) \/ TailEnds(d)

Next ==
  \/ Stop \/ Tick
  \/ \E d \in Dirs :
       \/ StartOk(d) \/ StartFails(d) \/ Opens(d) \/ Closes(d) \/ Reconnect(d)
       \/ HandleAudio(d) \/ Timers(d)

Spec == Init /\ [][Next]_vars

\* Time passes and every timer fires.
FairSpec == Spec /\ WF_vars(Tick) /\ \A d \in Dirs : WF_vars(Timers(d))

------------------------------------------------------------------------------
(* Properties. *)

\* The worklet's onmessage sends what the microphone hears.
MicSends(d) == state[d] = "live" /\ ws[d] = "open" /\ ~playing[Sibling[d]]

\* No microphone is live to its relay while the sibling's translation can be
\* heard: across polls, tails, late timers and reconnects.
NoEcho == \A d \in Dirs : audible[Sibling[d]] > 0 => ~MicSends(d)

\* RealtimeTranslateSession.js:350 "Nothing left — re-enable mic after audio
\* finishes": when a gate opens again all that was received has been played.
NothingLeft == \A d \in Dirs : ~playing[d] => queue[d] = 0

\* A gate that closed opens again: the directions cannot mute each other for
\* ever. Stopping the session is the other way out.
GateReopens == \A d \in Dirs : playing[d] ~> (~playing[d] \/ state[d] = "stopped")
==============================================================================
