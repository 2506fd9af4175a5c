----------------------------- MODULE TurnCaptions -----------------------------
(***************************************************************************)
(* The captions of one Talk Together direction: what OpenAI reports of each*)
(* turn, what the relay makes of it, and the two buffers of the browser    *)
(* (_handleText in clients/web/src/utils/RealtimeTranslateSession.js).     *)
(* Text is the set of turns it was taken from.                             *)
(***************************************************************************)
EXTENDS Naturals, Sequences, FiniteSets, Functions

CONSTANTS
  MaxTurns,  \* bound: turns the user speaks
  MaxLine,   \* bound: messages on their way to the browser
  MaxDrops   \* bound: connections lost, to OpenAI or to the relay

ASSUME CaptionAssumption == MaxTurns \in Nat /\ MaxLine \in Nat /\ MaxDrops \in Nat

VARIABLES
  turn,        \* turns begun
  speaking,    \* the user speaks: the last turn begun is not over
  hearing,     \* turns whose input transcription is not completed
  answering,   \* the turn whose response is running, or 0
  waiting,     \* turns whose response has not started, in order
  turnCaption, \* turn_caption of the relay
  line,        \* messages from the relay the browser has not handled
  captionBuf, speechBuf,
  transcripts, \* the turns shown: source and translation
  drops

openai == <<turn, speaking, hearing, answering, waiting>>
browser == <<captionBuf, speechBuf, transcripts>>
vars == <<openai, turnCaption, line, browser, drops>>

Turns == 1..MaxTurns
Messages == [type : {"speech_started", "speech_delta", "speech_done", "caption_delta", "turn_done"},
             text : SUBSET Turns]

TypeOK ==
  /\ turn \in 0..MaxTurns /\ speaking \in BOOLEAN /\ hearing \subseteq Turns
  /\ answering \in 0..MaxTurns /\ waiting \in Seq(Turns)
  /\ turnCaption \subseteq Turns /\ captionBuf \subseteq Turns /\ speechBuf \subseteq Turns
  /\ line \in Seq(Messages)
  /\ transcripts \in Seq([source : SUBSET Turns, translated : SUBSET Turns])
  /\ drops \in 0..MaxDrops

Init ==
  /\ turn = 0 /\ speaking = FALSE /\ hearing = {} /\ answering = 0 /\ waiting = <<>>
  /\ turnCaption = {} /\ line = <<>>
  /\ captionBuf = {} /\ speechBuf = {} /\ transcripts = <<>>
  /\ drops = 0

------------------------------------------------------------------------------
(* OpenAI, with server VAD, and the relay's forwarding of each event. *)

Msg(type, text) == [type |-> type, text |-> text]

\* The relay forwards messages in order.
Forward(msgs) ==
  /\ Len(line) + Len(msgs) <= MaxLine
  /\ line' = line \o msgs
Send(type, text) == Forward(<<Msg(type, text)>>)

\* input_audio_buffer.speech_started. A response that runs is cut short by it:
\* its response.done carries what was said so far.
SpeechStarted ==
  /\ turn < MaxTurns /\ ~speaking
  /\ turn' = turn + 1 /\ speaking' = TRUE
  /\ IF answering = 0
     THEN Send("speech_started", {}) /\ UNCHANGED <<answering, turnCaption>>
     ELSE /\ Forward(<<Msg("speech_started", {}), Msg("turn_done", turnCaption)>>)
          /\ answering' = 0 /\ turnCaption' = {}
  /\ UNCHANGED <<hearing, waiting, browser, drops>>

\* The turn is over: it is transcribed, and a response to it is due.
SpeechStopped ==
  /\ speaking /\ speaking' = FALSE
  /\ hearing' = hearing \cup {turn}
  /\ waiting' = Append(waiting, turn)
  /\ UNCHANGED <<turn, answering, turnCaption, line, browser, drops>>

SpeechDelta(t) ==
  /\ t \in hearing
  /\ Send("speech_delta", {t})
  /\ UNCHANGED <<openai, turnCaption, browser, drops>>

\* An empty transcript is not forwarded.
SpeechCompleted(t) ==
  /\ t \in hearing
  /\ hearing' = hearing \ {t}
  /\ Send("speech_done", {t}) \/ UNCHANGED line
  /\ UNCHANGED <<turn, speaking, answering, waiting, turnCaption, browser, drops>>

ResponseStarts ==
  /\ answering = 0 /\ waiting # <<>>
  /\ answering' = Head(waiting) /\ waiting' = Tail(waiting)
  /\ UNCHANGED <<turn, speaking, hearing, turnCaption, line, browser, drops>>

CaptionDelta ==
  /\ answering # 0
  /\ turnCaption' = turnCaption \cup {answering}
  /\ Send("caption_delta", {answering})
  /\ UNCHANGED <<openai, browser, drops>>

ResponseDone ==
  /\ answering # 0
  /\ answering' = 0
  /\ Send("turn_done", turnCaption)
  /\ turnCaption' = {}
  /\ UNCHANGED <<turn, speaking, hearing, waiting, browser, drops>>

\* The OpenAI connection is lost: the relay connects again by itself.
OpenaiDrops ==
  /\ drops < MaxDrops /\ drops' = drops + 1
  /\ speaking' = FALSE /\ hearing' = {} /\ answering' = 0 /\ waiting' = <<>>
  /\ turnCaption' = {}
  /\ UNCHANGED <<turn, line, browser>>

------------------------------------------------------------------------------
(* The browser. *)

\* The relay connection is lost: _connect resets both buffers.
Reconnect ==
  /\ drops < MaxDrops /\ drops' = drops + 1
  /\ speaking' = FALSE /\ hearing' = {} /\ answering' = 0 /\ waiting' = <<>>
  /\ turnCaption' = {}
  /\ line' = <<>>
  /\ captionBuf' = {} /\ speechBuf' = {}
  /\ UNCHANGED <<turn, transcripts>>

Handle(type) ==
  /\ line # <<>> /\ Head(line).type = type
  /\ line' = Tail(line)
  /\ UNCHANGED <<openai, turnCaption, drops>>

Text == Head(line).text

OnSpeechStarted ==
  /\ Handle("speech_started")
  /\ captionBuf' = {} /\ speechBuf' = {}
  /\ UNCHANGED transcripts

OnSpeechDelta ==
  /\ Handle("speech_delta")
  /\ speechBuf' = speechBuf \cup Text
  /\ UNCHANGED <<captionBuf, transcripts>>

OnSpeechDone ==
  /\ Handle("speech_done")
  /\ speechBuf' = Text
  /\ UNCHANGED <<captionBuf, transcripts>>

OnCaptionDelta ==
  /\ Handle("caption_delta")
  /\ captionBuf' = captionBuf \cup Text
  /\ UNCHANGED <<speechBuf, transcripts>>

\* The text of the message, or else the buffer; nothing is shown without any.
Full == IF Text # {} THEN Text ELSE captionBuf

\* Mutant: the buffers are left to the next speech_started.
OnTurnDoneKeepsBuffers ==
  /\ Handle("turn_done")
  /\ transcripts' = IF Full = {} THEN transcripts
                    ELSE Append(transcripts, [source |-> speechBuf, translated |-> Full])
  /\ UNCHANGED <<captionBuf, speechBuf>>

OnTurnDone ==
  /\ Handle("turn_done")
  /\ transcripts' = IF Full = {} THEN transcripts
                    ELSE Append(transcripts, [source |-> speechBuf, translated |-> Full])
  /\ captionBuf' = {} /\ speechBuf' = {}

------------------------------------------------------------------------------
OpenAI ==
  \/ SpeechStarted \/ SpeechStopped \/ ResponseStarts \/ CaptionDelta \/ ResponseDone \/ OpenaiDrops
  \/ \E t \in Turns : SpeechDelta(t) \/ SpeechCompleted(t)

Browser ==
  \/ OnSpeechStarted \/ OnSpeechDelta \/ OnSpeechDone \/ OnCaptionDelta \/ OnTurnDone
  \/ Reconnect

Next == OpenAI \/ Browser

Spec == Init /\ [][Next]_vars

------------------------------------------------------------------------------
(* Properties. *)

\* The translation shown is that of one turn, though responses are cut short
\* and connections lost between a caption_delta and its turn_done.
TranslationOfOneTurn == \A r \in Range(transcripts) : Cardinality(r.translated) = 1

\* No turn is shown twice.
ShownOnce ==
  \A i, j \in DOMAIN transcripts :
    transcripts[i].translated = transcripts[j].translated => i = j

\* The partial caption never mixes two turns.
PartialOfOneTurn == Cardinality(captionBuf) <= 1

\* Together: what is read is one turn, once.
CaptionsApart == TranslationOfOneTurn /\ ShownOnce /\ PartialOfOneTurn

\* RealtimeTranslateSession.js:282 "what the speaker actually said": the source
\* beside a translation is the speech it translates.
SourceOfSameTurn == \A r \in Range(transcripts) : r.source \subseteq r.translated
==============================================================================
