----------------------------- MODULE SpeechPipeline -----------------------------
(***************************************************************************)
(* The translation cascade of one room: segments of speech are transcribed *)
(* by concurrent tasks into a queue, one loop takes the transcripts and    *)
(* has them translated, and while somebody still speaks another loop has   *)
(* partial transcripts translated ahead into a cache.  A language intent   *)
(* turns the direction around, change_language builds a whole new          *)
(* pipeline beside what the old one still does.                            *)
(*                                                                         *)
(* The loops read self.* anew on every turn, so a loop that outlives its   *)
(* pipeline goes on with the components of the newest; the cache and the   *)
(* accumulated words are its own.  A text is the number of its words.      *)
(***************************************************************************)
EXTENDS Naturals, FiniteSets, Sequences, SequencesExt

CONSTANTS
    MaxUtterances, MaxWords,
    MaxPipelines,  \* how often change_language builds a pipeline, plus one
    MaxIntents

ASSUME SpeechAssumption ==
    {MaxUtterances, MaxWords, MaxPipelines, MaxIntents} \subseteq Nat \ {0}

Texts == 1..MaxWords
Pipelines == 1..MaxPipelines
Directions == {"there", "back"}   \* from one language to another
None == [key |-> 0]

VARIABLES
    mode,      \* "conversation" or "talk_together"
    newest,    \* the pipeline the fields of the processor belong to
    dir,       \* direction of the newest translator
    listed,    \* pipelines whose loops are in _cascade_tasks
    emitted,    \* segments emitted so far
    stt,       \* transcriptions under way, with the queue they go to
    text,      \* the transcripts, in the order they were queued
    finals,    \* whisper_out_queue of each pipeline
    words,     \* accumulated_words: how many
    polls,     \* pipelines whose PollerToSpecCache loop runs
    cache,     \* direction of the translation cached for each text, "none" without
    inFlight,  \* _in_flight: the speculative translation of each cache
    loop,      \* where the WhisperToTTS loop of each pipeline is
    fed,       \* what was handed to speech synthesis, in order
    overtaken, \* ghost: the direction changed under a loop at work or a loop left behind
    intents

speechVars == <<mode, newest, dir, listed, emitted, stt, text, finals, words, polls, cache, inFlight,
          loop, fed, overtaken, intents>>

pipeline == <<mode, newest, dir, listed>>
heard == <<emitted, stt, text>>
changes == <<overtaken, intents>>

Translating == {"await", "resume", "miss"}
Off == [at |-> "off"]
Starting == [at |-> "starting"]
Getting(h) == [at |-> "get", from |-> h]
Alive(g) == loop[g] \notin {Off, Starting}
Empty == [t \in Texts |-> "none"]

\* The first pipeline is ready before anybody speaks.
SpeechInit ==
    /\ mode \in {"conversation", "talk_together"} /\ newest = 1 /\ dir = "there" /\ listed = {1}
    /\ emitted = 0 /\ stt = {} /\ text = <<>>
    /\ finals = [g \in Pipelines |-> <<>>] /\ words = [g \in Pipelines |-> 0] /\ polls = {1}
    /\ cache = [g \in Pipelines |-> Empty] /\ inFlight = [g \in Pipelines |-> None]
    /\ loop = [g \in Pipelines |-> IF g = 1 THEN Getting(1) ELSE Off]
    /\ fed = <<>> /\ overtaken = FALSE /\ intents = 0

-----------------------------------------------------------------------------
(* Speech to text *)

\* The detector closes a segment, at a pause or because it is long, and starts a
\* task for it; the task writes to the queue of its own processor.
EmitSegment(t) ==
    /\ emitted < MaxUtterances /\ emitted' = emitted + 1
    /\ stt' = stt \cup {[n |-> emitted', text |-> t, to |-> newest]}
    /\ UNCHANGED <<pipeline, text, finals, words, polls, cache, inFlight, loop, fed,
                   changes>>

\* The answers come in any order.
OnSpeechSegment(s) ==
    /\ stt' = stt \ {s}
    /\ text' = Append(text, s.text)
    /\ finals' = [finals EXCEPT ![s.to] = Append(@, Len(text'))]
    /\ UNCHANGED <<pipeline, emitted, words, polls, cache, inFlight, loop, fed, changes>>

\* Too short, too quiet, timed out, refused or taken for a hallucination.
SegmentDropped(s) ==
    /\ stt' = stt \ {s}
    /\ UNCHANGED <<pipeline, emitted, text, finals, words, polls, cache, inFlight, loop, fed,
                   changes>>

-----------------------------------------------------------------------------
(* Speculation *)

\* What the poller heard since it last looked: a word the loop has not got yet.
OnWords(g) == words[g] + 1

\* PollerToSpecCache: one more word, and submit_partial of all of them.  A running
\* translation of fewer words is cancelled.
PollerToSpecCache(g) ==
    /\ g \in polls /\ words[g] < MaxWords
    /\ words' = [words EXCEPT ![g] = OnWords(g)]
    /\ LET key == OnWords(g) IN
       inFlight' = IF cache[g][key] # "none" THEN inFlight
                   ELSE [inFlight EXCEPT ![g] = [key |-> key, dir |-> dir]]
    /\ UNCHANGED <<pipeline, heard, finals, polls, cache, loop, fed, changes>>

\* _translate_and_store, which stores nothing when the call fails.
TranslateAndStore(g, ok) ==
    /\ inFlight[g] # None
    /\ cache' = IF ok THEN [cache EXCEPT ![g][inFlight[g].key] = inFlight[g].dir] ELSE cache
    /\ inFlight' = [inFlight EXCEPT ![g] = None]
    /\ UNCHANGED <<pipeline, heard, finals, words, polls, loop, fed, changes>>

-----------------------------------------------------------------------------
(* WhisperToTTS *)

\* reset_utterance, then speech synthesis and the next transcript.
Say(g, u, want, d) ==
    /\ fed' = Append(fed, [u |-> u, right |-> d = want])
    /\ inFlight' = [inFlight EXCEPT ![g] = None]
    /\ loop' = [loop EXCEPT ![g] = Getting(newest)]

\* Takes the transcript, and the direction with it.
GetOrTranslate(g) ==
    LET h == loop[g].from  u == Head(finals[h])  key == text[u]  task == inFlight[g] IN
    /\ loop[g].at = "get" /\ finals[h] # <<>>
    /\ finals' = [finals EXCEPT ![h] = Tail(@)] /\ words' = [words EXCEPT ![g] = 0]
    /\ \/ cache[g][key] # "none" /\ Say(g, u, dir, cache[g][key])
       \/ /\ cache[g][key] = "none" /\ task # None /\ task.key = key
          /\ loop' = [loop EXCEPT ![g] = [at |-> "await", u |-> u, want |-> dir, task |-> task.dir]]
          /\ inFlight' = [inFlight EXCEPT ![g] = None]  \* detached
          /\ UNCHANGED fed
       \/ /\ cache[g][key] = "none" /\ (task = None \/ task.key # key)
          /\ loop' = [loop EXCEPT ![g] = [at |-> "miss", u |-> u, want |-> dir]]
          /\ UNCHANGED <<fed, inFlight>>
    /\ UNCHANGED <<pipeline, heard, polls, cache, changes>>

\* The detached translation ends, with something to store or not.
DetachedEnds(g, ok) ==
    LET r == loop[g] IN
    /\ r.at = "await"
    /\ cache' = IF ok THEN [cache EXCEPT ![g][text[r.u]] = r.task] ELSE cache
    /\ loop' = [loop EXCEPT ![g] = [at |-> "resume", u |-> r.u, want |-> r.want]]
    /\ UNCHANGED <<pipeline, heard, finals, words, polls, inFlight, fed, changes>>

\* Mutant: without a translation in the cache it goes on waiting.
ResumeStuck(g) ==
    LET r == loop[g]  d == cache[g][text[r.u]] IN
    /\ r.at = "resume" /\ d # "none" /\ Say(g, r.u, r.want, d)
    /\ UNCHANGED <<pipeline, heard, finals, words, polls, cache, changes>>

Resume(g) ==
    LET r == loop[g]  d == cache[g][text[r.u]] IN
    /\ r.at = "resume"
    /\ \/ d # "none" /\ Say(g, r.u, r.want, d)
       \/ d = "none" /\ loop' = [loop EXCEPT ![g] = [at |-> "miss", u |-> r.u, want |-> r.want]]
                     /\ UNCHANGED <<fed, inFlight>>
    /\ UNCHANGED <<pipeline, heard, finals, words, polls, cache, changes>>

\* Mutant: without a result the transcript goes back to the queue.
TranslateFnRetried(g, ok) ==
    LET r == loop[g] IN
    /\ r.at = "miss"
    /\ IF ok THEN /\ cache' = [cache EXCEPT ![g][text[r.u]] = r.want]
                  /\ Say(g, r.u, r.want, r.want) /\ UNCHANGED finals
             ELSE /\ finals' = [finals EXCEPT ![newest] = Append(@, r.u)]
                  /\ loop' = [loop EXCEPT ![g] = Getting(newest)]
                  /\ UNCHANGED <<cache, fed, inFlight>>
    /\ UNCHANGED <<pipeline, heard, words, polls, changes>>

\* The fresh translation ends; without a result the transcript is passed over.
TranslateFn(g, ok) ==
    LET r == loop[g] IN
    /\ r.at = "miss"
    /\ IF ok THEN /\ cache' = [cache EXCEPT ![g][text[r.u]] = r.want]
                  /\ Say(g, r.u, r.want, r.want)
             ELSE /\ inFlight' = [inFlight EXCEPT ![g] = None]
                  /\ loop' = [loop EXCEPT ![g] = Getting(newest)]
                  /\ UNCHANGED <<cache, fed>>
    /\ UNCHANGED <<pipeline, heard, finals, words, polls, changes>>

-----------------------------------------------------------------------------
(* Data messages *)

Overtakes == \E g \in Pipelines :
    \/ loop[g].at \in Translating
    \/ g # newest /\ (Alive(g) \/ g \in polls)

\* Mutant: cancels what is under way but keeps what is cached.
IntentKeepsCache(d) ==
    /\ intents < MaxIntents /\ intents' = intents + 1
    /\ inFlight' = [inFlight EXCEPT ![newest] = None]
    /\ dir' = d /\ overtaken' = (overtaken \/ Overtakes)
    /\ UNCHANGED <<heard, mode, newest, listed, finals, words, polls, cache, loop, fed>>

\* "intent": the cache of the newest pipeline is cleared and the direction set.
\* A detached translation is not found by clear(), nor are older caches.
Intent(d) ==
    /\ intents < MaxIntents /\ intents' = intents + 1
    /\ inFlight' = [inFlight EXCEPT ![newest] = None]
    /\ cache' = [cache EXCEPT ![newest] = Empty]
    /\ dir' = d /\ overtaken' = (overtaken \/ Overtakes)
    /\ UNCHANGED <<heard, mode, newest, listed, finals, words, polls, loop, fed>>

\* Cancelling a loop that waits for a detached translation cancels that instead:
\* get_or_translate takes it for a failure and the loop goes on.
Cancelled(r) ==
    CASE r.at = "await" -> [at |-> "resume", u |-> r.u, want |-> r.want]
      [] r.at = "resume" -> [at |-> "miss", u |-> r.u, want |-> r.want]
      [] OTHER -> Off

\* "change_language": in conversation mode nothing is stopped.  The fields are
\* replaced before the components are started, the loops launched after.  Nothing
\* refers to the cache of a loop that ended.
StartOpenaiStream(d) ==
    /\ newest < MaxPipelines /\ newest' = newest + 1 /\ dir' = d
    /\ LET old == IF mode = "conversation" THEN {} ELSE listed
           gone == {g \in old : Cancelled(loop[g]) = Off} IN
       /\ loop' = [g \in Pipelines |-> IF g = newest + 1 THEN Starting
                                      ELSE IF g \in old THEN Cancelled(loop[g]) ELSE loop[g]]
       /\ polls' = polls \ old
       /\ cache' = [g \in Pipelines |-> IF g \in gone THEN Empty ELSE cache[g]]
       /\ inFlight' = [g \in Pipelines |-> IF g \in gone THEN None ELSE inFlight[g]]
       /\ words' = [g \in Pipelines |-> IF g \in gone THEN 0 ELSE words[g]]
    /\ overtaken' = (overtaken \/ polls' # {} \/ \E g \in Pipelines : Alive(g)')
    /\ UNCHANGED <<heard, mode, listed, finals, fed, intents>>

\* Two changes in quick succession launch both sets of loops.
Launch(g) ==
    /\ loop[g] = Starting
    /\ loop' = [loop EXCEPT ![g] = Getting(newest)] /\ polls' = polls \cup {g} /\ listed' = {g}
    /\ overtaken' = (overtaken \/ g # newest)
    /\ UNCHANGED <<heard, mode, newest, dir, finals, words, cache, inFlight, fed, intents>>

-----------------------------------------------------------------------------
LoopStep(g) ==
    GetOrTranslate(g) \/ Resume(g) \/ \E ok \in BOOLEAN : DetachedEnds(g, ok) \/ TranslateFn(g, ok)

SpeechNext ==
    \/ \E t \in Texts : EmitSegment(t)
    \/ \E s \in stt : OnSpeechSegment(s) \/ SegmentDropped(s)
    \/ \E g \in Pipelines : PollerToSpecCache(g) \/ (\E ok \in BOOLEAN : TranslateAndStore(g, ok))
    \/ \E g \in Pipelines : LoopStep(g) \/ Launch(g)
    \/ \E d \in Directions : Intent(d) \/ StartOpenaiStream(d)

\* The event loop runs every task that is ready, and calls to OpenAI time out.
SpeechSpec == SpeechInit /\ [][SpeechNext]_speechVars /\ \A g \in Pipelines : WF_speechVars(LoopStep(g))

-----------------------------------------------------------------------------
\* As long as the direction did not change in the middle of a translation or while an
\* older loop was running, everything is spoken in the direction that held when its transcript
\* was taken, from the cache or not.
RightDirection == overtaken \/ \A i \in DOMAIN fed : fed[i].right

\* One loop at a time speaks every transcript once and in the order they were
\* queued: while it waits for one translation the next may be cached already, and a
\* new pipeline takes over from the old one.
InOrder ==
    newest = 1 \/ ~overtaken => \A i, j \in DOMAIN fed : i < j => fed[i].u < fed[j].u

\* Unless the pipeline is replaced, every transcript is spoken or passed over, also
\* when the speculative translation it waits for is cancelled or fails.
Backlog ==
    \E g \in Pipelines : finals[g] # <<>> \/ loop[g].at \in Translating
TranscriptsHandled == Backlog ~> (newest > 1 \/ ~Backlog)
=============================================================================
