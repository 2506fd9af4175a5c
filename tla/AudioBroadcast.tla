---------------------------- MODULE AudioBroadcast ----------------------------
(***************************************************************************)
(* A translated turn on its way from the speaker's Stage to another one    *)
(* (clients/web/src/v2/Stage.jsx): the audio is cut into chunks, published *)
(* on the LiveKit data channel as start, chunks, end, each with retries,   *)
(* and reassembled by the receiver, which plays it as soon as it can.      *)
(* Sends of two turns overlap: nothing waits for the previous one.         *)
(***************************************************************************)
EXTENDS Naturals, Sequences, FiniteSets

CONSTANTS
  Msgs,       \* turns, named by their message id
  N,          \* chunks of a turn
  MaxTries,   \* DC_MAX_RETRIES (3 in the code)
  MaxFaults   \* bound: publishData calls that raise, times the receiver loses the
              \* room and frames that grow old, all together

ASSUME BroadcastAssumption ==
  N \in Nat \ {0} /\ MaxTries \in Nat \ {0} /\ MaxFaults \in Nat

VARIABLES
  phase,    \* the send of each turn
  step,     \* its next packet: 0 start, 1..N chunks, N+1 end
  tries,    \* failed publishData calls for that packet
  channel,  \* reliable ordered packets on their way to the receiver
  present,  \* the receiver is in the room
  missed,   \* turns of which a packet was sent while the receiver was away
  frames,   \* incomingAudioFramesRef: the turns being reassembled
  decoding, \* decodeAudioData calls of attemptPartialPlayback not settled
  captions, \* captions shown per turn
  streams,  \* per turn, plays by attemptPartialPlayback
  finals,   \* per turn, plays by tryFinalizeChunkedAudio
  gapped,   \* turns played with a chunk missing
  aged,     \* turns whose frame was more than 120 s old
  faults    \* faults so far

sender   == <<phase, step, tries>>
link     == <<channel, present, missed>>
played   == <<captions, streams, finals, gapped>>
receiver == <<frames, decoding, played, aged>>
broadcastVars == <<sender, link, receiver, faults>>

Steps == 0..(N + 1)
Packets == [id : Msgs, kind : {"start", "chunk", "end", "notice"}, idx : Steps]
Entries == [got : SUBSET (1..N), received : 0..N, ended : BOOLEAN,
            streamPlayed : BOOLEAN, old : BOOLEAN]

BroadcastTypes ==
  /\ phase \in [Msgs -> {"idle", "sending", "ok", "notice", "noticed", "failed"}]
  /\ step \in [Msgs -> Steps] /\ tries \in [Msgs -> 0..(MaxTries - 1)]
  /\ faults \in 0..MaxFaults
  /\ channel \in Seq(Packets) /\ present \in BOOLEAN
  /\ missed \subseteq Msgs /\ gapped \subseteq Msgs /\ aged \subseteq Msgs
  /\ \E S \in SUBSET Msgs : frames \in [S -> Entries]
  /\ decoding \in [Msgs -> Nat]
  /\ captions \in [Msgs -> Nat] /\ streams \in [Msgs -> Nat] /\ finals \in [Msgs -> Nat]

Zero == [m \in Msgs |-> 0]

BroadcastInit ==
  /\ phase = [m \in Msgs |-> "idle"] /\ step = Zero /\ tries = Zero /\ faults = 0
  /\ channel = <<>> /\ present = TRUE /\ missed = {}
  /\ frames = [m \in {} |-> <<>>] /\ decoding = Zero
  /\ captions = Zero /\ streams = Zero /\ finals = Zero /\ gapped = {} /\ aged = {}

------------------------------------------------------------------------------
(* sendChunkedBroadcastAudio and safePublishDataPacket. *)

\* _handleRealtimeTurnDone has a caption and audio to send.
BroadcastTurn(m) ==
  /\ phase[m] = "idle"
  /\ phase' = [phase EXCEPT ![m] = "sending"]
  /\ UNCHANGED <<step, tries, link, receiver, faults>>

Packet(m) ==
  [id |-> m, idx |-> step[m],
   kind |-> IF phase[m] = "notice" THEN "notice"
            ELSE IF step[m] = 0 THEN "start"
            ELSE IF step[m] <= N THEN "chunk" ELSE "end"]

Deliver(m) ==
  /\ channel' = IF present THEN Append(channel, Packet(m)) ELSE channel
  /\ missed' = IF present THEN missed ELSE missed \cup {m}
  /\ UNCHANGED present

\* publishData resolves: on to the next packet.
PublishOk(m) ==
  /\ phase[m] \in {"sending", "notice"}
  /\ Deliver(m)
  /\ tries' = [tries EXCEPT ![m] = 0]
  /\ IF phase[m] = "sending" /\ step[m] <= N
     THEN step' = [step EXCEPT ![m] = @ + 1] /\ UNCHANGED phase
     ELSE /\ phase' = [phase EXCEPT ![m] = IF @ = "sending" THEN "ok" ELSE "noticed"]
          /\ UNCHANGED step
  /\ UNCHANGED <<receiver, faults>>

\* Mutant: a send given up is taken for one that was announced.
AfterErrorUnannounced(m) ==
  IF tries[m] + 1 < MaxTries
  THEN tries' = [tries EXCEPT ![m] = @ + 1] /\ UNCHANGED phase
  ELSE /\ tries' = [tries EXCEPT ![m] = 0]
       /\ phase' = [phase EXCEPT ![m] = "noticed"]

\* After the last retry the send is given up and a notice with the text alone
\* is tried instead.
AfterError(m) ==
  IF tries[m] + 1 < MaxTries
  THEN tries' = [tries EXCEPT ![m] = @ + 1] /\ UNCHANGED phase
  ELSE /\ tries' = [tries EXCEPT ![m] = 0]
       /\ phase' = [phase EXCEPT ![m] = IF @ = "sending" THEN "notice" ELSE "failed"]

\* publishData raises, whether or not the packet went out.
PublishRaises(m) ==
  /\ phase[m] \in {"sending", "notice"}
  /\ faults < MaxFaults /\ faults' = faults + 1
  /\ AfterError(m)
  /\ Deliver(m) \/ UNCHANGED link
  /\ UNCHANGED <<step, receiver>>

------------------------------------------------------------------------------
(* The LiveKit room, as seen by the receiver. *)

\* Packets on their way are lost with the connection; frames survive it.
ReceiverDrops ==
  /\ present /\ present' = FALSE
  /\ faults < MaxFaults /\ faults' = faults + 1
  /\ missed' = missed \cup {channel[i].id : i \in DOMAIN channel}
  /\ channel' = <<>>
  /\ UNCHANGED <<sender, receiver>>

ReceiverBack ==
  /\ ~present
  /\ present' = TRUE
  /\ UNCHANGED <<sender, channel, missed, receiver, faults>>

------------------------------------------------------------------------------
(* handleData in the receiving Stage. *)

Whole(e) == e.received >= N

\* Every packet first clears the frames that are more than 120 s old.
Kept == {m \in DOMAIN frames : ~frames[m].old}

Only(f, S) == [m \in S |-> f[m]]
With(f, m, e) == [x \in DOMAIN f \cup {m} |-> IF x = m THEN e ELSE f[x]]

Next1(kind) ==
  /\ channel # <<>> /\ Head(channel).kind = kind
  /\ channel' = Tail(channel)
  /\ UNCHANGED <<sender, present, missed, aged, faults>>

\* tryFinalizeChunkedAudio on entry e of m, in frames f.
Finalize(f, m, e) ==
  IF ~Whole(e)
  THEN frames' = With(f, m, e) /\ UNCHANGED <<finals, gapped>>
  ELSE /\ frames' = Only(f, DOMAIN f \ {m})
       /\ IF e.streamPlayed
          THEN UNCHANGED <<finals, gapped>>
          ELSE /\ finals' = [finals EXCEPT ![m] = @ + 1]
               /\ gapped' = IF e.got = 1..N THEN gapped ELSE gapped \cup {m}

ShowCaption(m) == captions' = [captions EXCEPT ![m] = @ + 1]

HandleStart ==
  /\ Next1("start")
  /\ LET m == Head(channel).id IN
     /\ frames' = With(Only(frames, Kept), m,
          [got |-> {}, received |-> 0, ended |-> FALSE, streamPlayed |-> FALSE, old |-> FALSE])
     /\ ShowCaption(m)
  /\ UNCHANGED <<decoding, streams, finals, gapped>>

\* Mutant: every chunk that arrives is counted.
AcceptAgain(e, i) ==
  [e EXCEPT !.got = @ \cup {i}, !.received = IF @ < N THEN @ + 1 ELSE @]

\* A chunk not held yet is counted, and a whole turn starts to decode; the
\* decoder answers later.
Accept(e, i) ==
  IF i \in e.got THEN e ELSE [e EXCEPT !.got = @ \cup {i}, !.received = @ + 1]

\* Mutant: the frame is marked as played when decoding starts.
HandleChunkMarksEarly ==
  /\ Next1("chunk")
  /\ LET m == Head(channel).id  i == Head(channel).idx  f == Only(frames, Kept)
     IN IF m \notin DOMAIN f
        THEN frames' = f /\ UNCHANGED <<decoding, finals, gapped>>
        ELSE LET e == [Accept(f[m], i) EXCEPT !.streamPlayed = Whole(Accept(f[m], i))]
             IN /\ decoding' = IF e # f[m] /\ Whole(e) THEN [decoding EXCEPT ![m] = @ + 1] ELSE decoding
                /\ IF e.ended
                   THEN Finalize(f, m, e)
                   ELSE frames' = With(f, m, e) /\ UNCHANGED <<finals, gapped>>
  /\ UNCHANGED <<captions, streams>>

HandleChunk ==
  /\ Next1("chunk")
  /\ LET m == Head(channel).id  i == Head(channel).idx  f == Only(frames, Kept)
     IN IF m \notin DOMAIN f
        THEN frames' = f /\ UNCHANGED <<decoding, finals, gapped>>
        ELSE LET e == Accept(f[m], i)
             IN /\ decoding' = IF e # f[m] /\ Whole(e) THEN [decoding EXCEPT ![m] = @ + 1] ELSE decoding
                /\ IF e.ended
                   THEN Finalize(f, m, e)
                   ELSE frames' = With(f, m, e) /\ UNCHANGED <<finals, gapped>>
  /\ UNCHANGED <<captions, streams>>

HandleEnd ==
  /\ Next1("end")
  /\ LET m == Head(channel).id  f == Only(frames, Kept)
     IN IF m \notin DOMAIN f
        THEN frames' = f /\ UNCHANGED <<finals, gapped>>
        ELSE Finalize(f, m, [f[m] EXCEPT !.ended = TRUE])
  /\ UNCHANGED <<decoding, captions, streams>>

HandleNotice ==
  /\ Next1("notice")
  /\ frames' = Only(frames, Kept)
  /\ ShowCaption(Head(channel).id)
  /\ UNCHANGED <<decoding, streams, finals, gapped>>

\* decodeAudioData resolves: the audio starts and the entry, if it is still
\* there, remembers it.
DecodeDone(m) ==
  /\ decoding[m] > 0
  /\ decoding' = [decoding EXCEPT ![m] = @ - 1]
  /\ streams' = [streams EXCEPT ![m] = @ + 1]
  /\ frames' = IF m \in DOMAIN frames THEN [frames EXCEPT ![m].streamPlayed = TRUE] ELSE frames
  /\ UNCHANGED <<sender, link, captions, finals, gapped, aged, faults>>

DecodeFails(m) ==
  /\ decoding[m] > 0
  /\ decoding' = [decoding EXCEPT ![m] = @ - 1]
  /\ UNCHANGED <<sender, link, frames, played, aged, faults>>

\* 120 s have passed since the start of a turn was handled.
FrameAges(m) ==
  /\ m \in DOMAIN frames /\ ~frames[m].old
  /\ faults < MaxFaults /\ faults' = faults + 1
  /\ frames' = [frames EXCEPT ![m].old = TRUE]
  /\ aged' = aged \cup {m}
  /\ UNCHANGED <<sender, link, decoding, played>>

------------------------------------------------------------------------------
Send(m) == PublishOk(m) \/ PublishRaises(m)
Receive == HandleStart \/ HandleChunk \/ HandleEnd \/ HandleNotice
Decode(m) == DecodeDone(m) \/ DecodeFails(m)

BroadcastNext ==
  \/ Receive \/ ReceiverDrops \/ ReceiverBack
  \/ \E m \in Msgs : BroadcastTurn(m) \/ Send(m) \/ Decode(m) \/ FrameAges(m)

BroadcastSpec == BroadcastInit /\ [][BroadcastNext]_broadcastVars

\* publishData and decodeAudioData settle and packets are handled as they come.
FairBroadcast ==
  /\ BroadcastSpec
  /\ WF_broadcastVars(Receive)
  /\ \A m \in Msgs : WF_broadcastVars(Send(m)) /\ WF_broadcastVars(Decode(m))

------------------------------------------------------------------------------
(* Properties. *)

\* A turn is never played with a hole in it, whatever was sent twice, lost with
\* a connection or interleaved with another turn.
NoGapPlayed == gapped = {}

\* Reassembly plays a turn at most once, though its end may arrive twice.
FinalizedOnce == \A m \in Msgs : finals[m] <= 1 /\ streams[m] <= 1

\* What is played of a turn is played whole, and once by each path.
PlayedWhole == NoGapPlayed /\ FinalizedOnce

\* Stage.jsx:1113 "If we already streamed partial playback successfully, skip
\* final playback": no listener hears a turn twice.
HeardOnce == \A m \in Msgs : finals[m] + streams[m] <= 1

Settled(m) == decoding[m] = 0 /\ \A i \in DOMAIN channel : channel[i].id # m

\* A turn whose send returned ok was heard by a receiver that was there for all
\* of it, even when the early decode failed: unless its frame grew too old.
SentIsHeard ==
  \A m \in Msgs \ (missed \cup aged) :
    phase[m] = "ok" /\ Settled(m) => finals[m] + streams[m] >= 1

\* What cannot be heard can be read: a turn whose send is over, with the audio
\* or with the notice alone, was captioned by a receiver that was there.
OverIsCaptioned ==
  \A m \in Msgs \ missed :
    phase[m] \in {"ok", "noticed"} /\ Settled(m) => captions[m] >= 1

\* A turn that was sent got through: heard, and captioned whatever failed.
SentGetsThrough == SentIsHeard /\ OverIsCaptioned

\* A turn the speaker finished is heard or read in the end, unless the receiver
\* was away or the notice failed as well.
TurnReachesReceiver ==
  \A m \in Msgs :
    phase[m] = "sending" ~> (captions[m] >= 1 \/ m \in missed \/ phase[m] = "failed")
==============================================================================
