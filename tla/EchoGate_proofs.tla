---------------------------- MODULE EchoGate_proofs ----------------------------
(***************************************************************************)
(* The echo gate holds for any number of chunks and lost connections: a    *)
(* direction that can be heard gates the other.                            *)
(***************************************************************************)
EXTENDS EchoGate, TLAPS

\* What was queued or scheduled was received: this bounds both.
Accounted == \A d \in Dirs : queue[d] + audible[d] <= received[d]

\* The gate is closed while anything can be heard or a timer is to open it, and
\* the tail outlasts the audio: NoEcho does not say so, and a TailEnds in a state
\* without it would open the gate on audible output.
GateClosed ==
  \A d \in Dirs :
    /\ audible[d] > 0 \/ timer[d] # "none" => playing[d]
    /\ timer[d] = "tail" => audible[d] <= tail[d]

Inv == TypeOK /\ Accounted /\ GateClosed

\* The gate of a direction is that of its sibling, and there is one.
LEMMA SiblingInDirs == \A d \in Dirs : Sibling[d] \in Dirs
BY DEF Dirs, Sibling

LEMMA InitInv == Init => Inv
BY GateAssumption DEF Init, Inv, TypeOK, Accounted, GateClosed, Each

\* Connections come and go and leave the playback alone.
LEMMA ConnectionInv ==
  ASSUME Inv, NEW d \in Dirs, StartOk(d) \/ StartFails(d) \/ Opens(d) \/ Closes(d) \/ Reconnect(d)
  PROVE  Inv'
<1>1. UNCHANGED <<received, playback>>
  BY DEF StartOk, StartFails, Opens, Closes, Reconnect
<1>2. TypeOK'
  BY GateAssumption DEF Inv, TypeOK, StartOk, StartFails, Opens, Closes, Reconnect, playback
<1> QED
  BY <1>1, <1>2 DEF Inv, Accounted, GateClosed, playback

\* Stopping silences both directions and leaves the timers to run out.
LEMMA StopInv == ASSUME Inv, Stop PROVE Inv'
<1>1. TypeOK'
  BY GateAssumption DEF Inv, TypeOK, Stop, Each
<1>2. Accounted'
  BY DEF Inv, TypeOK, Accounted, Stop, Each
<1>3. GateClosed'
  BY DEF Inv, TypeOK, GateClosed, Stop, Each
<1> QED  BY <1>1, <1>2, <1>3 DEF Inv

\* A chunk is queued behind a closed gate, or closes the gate and is scheduled.
LEMMA HandleAudioInv == ASSUME Inv, NEW d \in Dirs, HandleAudio(d) PROVE Inv'
<1>1. CASE playing[d]
  <2>1. /\ queue[d] + 1 \in 0..MaxChunks /\ received[d] + 1 \in 0..MaxChunks
        /\ queue[d] + 1 + audible[d] <= received[d] + 1
    BY GateAssumption DEF Inv, TypeOK, Accounted, HandleAudio
  <2>2. TypeOK'
    BY <1>1, <2>1 DEF Inv, TypeOK, HandleAudio
  <2>3. Accounted'
    BY <1>1, <2>1 DEF Inv, TypeOK, Accounted, HandleAudio
  <2>4. GateClosed'
    BY <1>1 DEF Inv, TypeOK, GateClosed, HandleAudio
  <2> QED  BY <2>2, <2>3, <2>4 DEF Inv
<1>2. CASE ~playing[d]
  <2>1. audible[d] = 0 /\ timer[d] = "none"
    BY <1>2 DEF Inv, TypeOK, GateClosed
  <2>2. /\ queue[d] + 1 \in 0..MaxChunks /\ received[d] + 1 \in 0..MaxChunks
        /\ queue[d] + 1 <= received[d] + 1 /\ 0 \in 0..MaxChunks
    BY GateAssumption DEF Inv, TypeOK, Accounted, HandleAudio
  <2>3. /\ queue' = [queue EXCEPT ![d] = 0]
        /\ audible' = [audible EXCEPT ![d] = queue[d] + 1]
    BY <1>2, <2>1 DEF Inv, TypeOK, HandleAudio, Drain
  <2>4. TypeOK'
    BY <1>2, <2>2, <2>3 DEF Inv, TypeOK, HandleAudio, Drain
  <2>5. Accounted'
    BY <2>2, <2>3 DEF Inv, TypeOK, Accounted, HandleAudio
  <2>6. GateClosed'
    BY <1>2, <2>3 DEF Inv, TypeOK, GateClosed, HandleAudio, Drain
  <2> QED  BY <2>4, <2>5, <2>6 DEF Inv
<1> QED  BY <1>1, <1>2

\* A poll schedules what is queued or hands over to the tail, which is set to end
\* after the last chunk; only the tail opens the gate, when that time has passed.
LEMMA TimersInv == ASSUME Inv, NEW d \in Dirs, Timers(d) PROVE Inv'
<1>1. CASE PollDrains(d)
  BY <1>1, GateAssumption DEF Inv, TypeOK, Accounted, GateClosed, PollDrains, Drain
<1>2. CASE PollEnds(d)
  BY <1>2, GateAssumption DEF Inv, TypeOK, Accounted, GateClosed, PollEnds
<1>3. CASE TailEnds(d)
  <2>1. audible[d] = 0
    BY <1>3 DEF Inv, TypeOK, GateClosed, TailEnds
  <2> QED
    BY <1>3, <2>1, GateAssumption DEF Inv, TypeOK, Accounted, GateClosed, TailEnds
<1> QED  BY <1>1, <1>2, <1>3 DEF Timers

\* Time takes as much from the tail as from the audio.
LEMMA TickInv == ASSUME Inv, Tick PROVE Inv'
BY GateAssumption DEF Inv, TypeOK, Accounted, GateClosed, Tick, Less

LEMMA NextInv == Inv /\ [Next]_vars => Inv'
<1> SUFFICES ASSUME Inv, [Next]_vars PROVE Inv'
  OBVIOUS
<1>1. CASE UNCHANGED vars
  BY <1>1 DEF Inv, TypeOK, Accounted, GateClosed, vars, playback
<1>2. CASE Next
  BY <1>2, StopInv, TickInv, ConnectionInv, HandleAudioInv, TimersInv DEF Next
<1> QED  BY <1>1, <1>2

\* The gate is closed while anything can be heard or a timer is pending, and the
\* tail outlasts the audio (RealtimeTranslateSession.js, _isPlaying).
THEOREM Invariance == Spec => []Inv
BY InitInv, NextInv, PTL DEF Spec

\* Every reachable state is well-typed: queues and tails stay within the chunks
\* received.
THEOREM TypeCorrect == Spec => []TypeOK
<1>1. Inv => TypeOK
  BY DEF Inv
<1> QED  BY <1>1, Invariance, PTL

\* No microphone sends to its relay while the other direction can be heard, for
\* any number of chunks and lost connections.
THEOREM NoEchoEver == Spec => []NoEcho
<1>1. Inv => NoEcho
  BY SiblingInDirs DEF Inv, GateClosed, NoEcho, MicSends
<1> QED  BY <1>1, Invariance, PTL
================================================================================
