------------------------------- MODULE WorkerJobs -------------------------------
(***************************************************************************)
(* The job stream between the API and the media workers.  Every worker     *)
(* reads every job, one at a time: a broadcast is set up and left running, *)
(* a conversation is served inside the job loop until its room is gone.    *)
(* The bots of a conversation throw each other out of the LiveKit room and *)
(* keep a key in Redis.                                                    *)
(*                                                                         *)
(* A job, and the pipeline or bot started for it, is the position of the   *)
(* job in the stream.                                                      *)
(***************************************************************************)
EXTENDS Naturals, FiniteSets, Sequences, SequencesExt

CONSTANTS
    Workers, Broadcasts, Conversations,  \* workers, and rooms by their mode
    Languages,  \* languages as starts and demands write them: codes, or names
    Source,     \* the name a start resolves the spoken language to: one of Languages
                \* only where that is how somebody wrote it
    MaxJobs, MaxCrashes, MaxLangs        \* bounds: jobs, crashes, languages of a start

ASSUME WorkerAssumption ==
    /\ Broadcasts \cap Conversations = {}
    /\ {MaxJobs, MaxCrashes, MaxLangs} \subseteq Nat

Rooms == Broadcasts \cup Conversations
Jobs == 1..MaxJobs
NoJob == 0
\* available_langs: what the room is started with, in any order, also twice.
LanguageLists == UNION {[1..n -> Languages] : n \in 0..MaxLangs}

VARIABLES
    ended,    \* rooms whose host ended them
    jobs,     \* worker:jobs, the stream
    lastJob,  \* last_job_id of a worker, and whether it is still "$"
    doing,    \* where the job loop of a worker is
    activeRooms, \* broadcast_worker.active_rooms: the pipeline of each room
    adds,     \* add_language calls waiting for their track
    started,  \* language pipelines running
    bots,     \* bots of conversations in their LiveKit rooms
    beats,    \* bots whose heartbeat task runs
    key,      \* bot:active:<room>
    failed,   \* ghost: jobs a worker gave up
    met,      \* ghost: rooms two bots entered at the same time, or one was not evicted
    silenced, \* ghost: bots whose heartbeat ended in an error
    crashes

broadcasting == <<activeRooms, adds, started>>
serving == <<bots, beats, key, met, silenced>>
workerVars == <<ended, jobs, lastJob, doing, broadcasting, serving, failed, crashes>>

Resting == [at |-> "idle"]
Fresh == [read |-> 0, first |-> NoJob]

WorkerInit ==
    /\ ended = {} /\ jobs = <<>> /\ crashes = 0 /\ failed = {}
    /\ lastJob = [w \in Workers |-> Fresh] /\ doing = [w \in Workers |-> Resting]
    /\ activeRooms = [w \in Workers |-> [r \in Broadcasts |-> NoJob]] /\ adds = {} /\ started = {}
    /\ bots = {} /\ beats = {} /\ key = [r \in Conversations |-> FALSE]
    /\ met = {} /\ silenced = {}

At(w, where) == doing' = [doing EXCEPT ![w] = where]
Enqueue(job) == Len(jobs) < MaxJobs /\ jobs' = Append(jobs, job)

-----------------------------------------------------------------------------
(* The API *)

StartMediaBot(r, langs) ==
    /\ Enqueue([type |-> "bot_start", room |-> r, langs |-> langs])
    /\ UNCHANGED <<ended, lastJob, doing, broadcasting, serving, failed, crashes>>

ChangeListenerLanguage(r, lang) ==
    /\ Enqueue([type |-> "language_demand", room |-> r, langs |-> <<lang>>])
    /\ UNCHANGED <<ended, lastJob, doing, broadcasting, serving, failed, crashes>>

\* The key it looks for is written by nobody, and the job it adds has no type.
WorkerWatchdog(r) ==
    /\ r \notin ended /\ Enqueue([type |-> "none"])
    /\ UNCHANGED <<ended, lastJob, doing, broadcasting, serving, failed, crashes>>

\* The LiveKit room goes with everybody in it, if it can be deleted.
EndRoom(r) ==
    /\ r \notin ended /\ ended' = ended \cup {r}
    /\ \/ bots' = {b \in bots : b.room # r}
       \/ bots' = bots
    /\ UNCHANGED <<jobs, lastJob, doing, broadcasting, beats, key, met, silenced, failed, crashes>>

-----------------------------------------------------------------------------
(* The job loop *)

\* A call that starts at "$" returns only what is added while it waits; after the first
\* job it does not matter when a call starts.
XReadBlocks(w) ==
    /\ doing[w] = Resting /\ lastJob[w].first = NoJob /\ At(w, [at |-> "xread"])
    /\ lastJob' = [lastJob EXCEPT ![w].read = Len(jobs)]
    /\ UNCHANGED <<ended, jobs, broadcasting, serving, failed, crashes>>

XReadTimesOut(w) ==
    /\ doing[w].at = "xread" /\ lastJob[w].read = Len(jobs) /\ At(w, Resting)
    /\ UNCHANGED <<ended, jobs, lastJob, broadcasting, serving, failed, crashes>>

Reads(w) == doing[w].at = "xread" \/ (doing[w] = Resting /\ lastJob[w].first # NoJob)

\* Where the job's handler begins: a demand for a room the worker does not serve and a
\* job without type are passed over, a start whose connection fails is logged.  A bot of
\* the worker's own name in a broadcast's room is replaced with its pipeline.
ProcessJob(w, k, joined) ==
    LET job == jobs[k]  add == [at |-> "adding", job |-> k, todo |-> job.langs] IN
    CASE job.type = "language_demand" ->
           /\ IF activeRooms[w][job.room] # NoJob THEN At(w, add) ELSE At(w, Resting)
           /\ UNCHANGED <<activeRooms, failed>>
      [] job.type = "bot_start" /\ ~joined ->
           At(w, Resting) /\ failed' = failed \cup {<<w, k>>} /\ UNCHANGED activeRooms
      [] job.type = "bot_start" /\ joined /\ job.room \in Broadcasts ->
           At(w, add) /\ activeRooms' = [activeRooms EXCEPT ![w][job.room] = k] /\ UNCHANGED failed
      [] job.type = "bot_start" /\ joined /\ job.room \in Conversations ->
           At(w, [at |-> "list", job |-> k, seen |-> {}]) /\ UNCHANGED <<activeRooms, failed>>
      [] OTHER -> At(w, Resting) /\ UNCHANGED <<activeRooms, failed>>

\* The position is advanced first, whatever becomes of the job.
XRead(w, joined) ==
    LET k == lastJob[w].read + 1 IN
    /\ Reads(w) /\ k <= Len(jobs)
    /\ lastJob' = [lastJob EXCEPT ![w] = [read |-> k, first |-> IF @.first = NoJob THEN k ELSE @.first]]
    /\ ProcessJob(w, k, joined)
    /\ UNCHANGED <<ended, jobs, adds, started, serving, crashes>>

-----------------------------------------------------------------------------
(* Broadcast: add_language, once for a demand and for each language of a start *)

Pipeline(w, lang) ==
    [worker |-> w, of |-> activeRooms[w][jobs[doing[w].job].room], lang |-> lang]
HasLanguage(p) == \E s \in started : s.p = p

\* Mutant: the job loop does not wait for the track.
AddLanguageDetached(w) ==
    LET d == doing[w]  lang == Head(d.todo)  p == Pipeline(w, lang) IN
    /\ d.at = "adding"
    /\ IF d.todo = <<>> THEN At(w, Resting) /\ UNCHANGED adds
       ELSE /\ At(w, [d EXCEPT !.todo = Tail(@)])
            /\ adds' = IF lang = Source \/ HasLanguage(p) THEN adds
                       ELSE adds \cup {[p |-> p, job |-> d.job]}
    /\ UNCHANGED <<ended, jobs, lastJob, activeRooms, started, serving, failed, crashes>>

AddLanguage(w) ==
    LET d == doing[w]  lang == Head(d.todo)  p == Pipeline(w, lang) IN
    /\ d.at = "adding"
    /\ IF d.todo = <<>> THEN At(w, Resting) /\ UNCHANGED adds
       ELSE IF lang = Source \/ HasLanguage(p)
       THEN At(w, [d EXCEPT !.todo = Tail(@)]) /\ UNCHANGED adds
       ELSE /\ At(w, [d EXCEPT !.at = "track"])
            /\ adds' = adds \cup {[p |-> p, job |-> d.job]}
    /\ UNCHANGED <<ended, jobs, lastJob, activeRooms, started, serving, failed, crashes>>

\* get_or_create_track; its failure ends the job, with the languages still to come.
TrackReady(a, ok) ==
    LET w == a.p.worker  waits == doing[w].at = "track" IN
    /\ adds' = adds \ {a}
    /\ IF ok THEN /\ started' = started \cup {a} /\ UNCHANGED failed
                  /\ doing' = IF waits THEN [doing EXCEPT ![w].at = "adding", ![w].todo = Tail(@)]
                                       ELSE doing
             ELSE /\ failed' = failed \cup {<<w, a.job>>} /\ UNCHANGED started
                  /\ doing' = IF waits THEN [doing EXCEPT ![w] = Resting] ELSE doing
    /\ UNCHANGED <<ended, jobs, lastJob, activeRooms, serving, crashes>>

-----------------------------------------------------------------------------
(* Conversation: connect_livekit and the wait for the room to go *)

Bot(w) == [worker |-> w, job |-> doing[w].job, room |-> jobs[doing[w].job].room]
Entering(r) ==
    {w \in Workers : doing[w].at \in {"evict", "connect"} /\ jobs[doing[w].job].room = r}

\* The bots there, or none when they cannot be listed.
ListParticipants(w, ok) ==
    /\ doing[w].at = "list"
    /\ LET r == Bot(w).room  there == {b \in bots : b.room = r} IN
       /\ At(w, [doing[w] EXCEPT !.at = "evict", !.seen = IF ok THEN there ELSE {}])
       /\ met' = IF Entering(r) = {} /\ (ok \/ there = {}) THEN met ELSE met \cup {r}
    /\ UNCHANGED <<ended, jobs, lastJob, broadcasting, bots, beats, key, silenced, failed, crashes>>

\* Mutant: nobody is asked to leave.
EvictNobody(w, ok) ==
    /\ doing[w].at = "evict" /\ At(w, [doing[w] EXCEPT !.at = "connect"])
    /\ UNCHANGED <<ended, jobs, lastJob, broadcasting, serving, failed, crashes>>

Evict(w, ok) ==
    /\ doing[w].at = "evict" /\ At(w, [doing[w] EXCEPT !.at = "connect"])
    /\ bots' = IF ok THEN bots \ doing[w].seen ELSE bots
    /\ met' = IF ok THEN met ELSE met \cup {Bot(w).room}
    /\ UNCHANGED <<ended, jobs, lastJob, broadcasting, beats, key, silenced, failed, crashes>>

ConnectLivekit(w, ok) ==
    /\ doing[w].at = "connect"
    /\ IF ok THEN /\ bots' = bots \cup {Bot(w)} /\ beats' = beats \cup {Bot(w)}
                  /\ At(w, [doing[w] EXCEPT !.at = "serving"]) /\ UNCHANGED failed
             ELSE /\ At(w, Resting) /\ failed' = failed \cup {<<w, doing[w].job>>}
                  /\ UNCHANGED <<bots, beats>>
    /\ UNCHANGED <<ended, jobs, lastJob, broadcasting, key, met, silenced, crashes>>

\* Looked at every two seconds; the processor is not stopped.
RoomGone(w) ==
    /\ doing[w].at = "serving" /\ Bot(w) \notin bots /\ At(w, Resting)
    /\ UNCHANGED <<ended, jobs, lastJob, broadcasting, serving, failed, crashes>>

\* Mutant: the task is given up when another keeps the key.
BeatUnlessSet(b) ==
    /\ IF b \in bots THEN /\ key' = [key EXCEPT ![b.room] = TRUE]
                          /\ beats' = IF key[b.room] THEN beats \ {b} ELSE beats
                     ELSE key' = [key EXCEPT ![b.room] = FALSE] /\ beats' = beats \ {b}
    /\ UNCHANGED <<ended, jobs, lastJob, doing, broadcasting, bots, met, silenced, failed, crashes>>

\* _run_heartbeat: every ten seconds; the last round deletes the key.
Beat(b) ==
    /\ IF b \in bots THEN key' = [key EXCEPT ![b.room] = TRUE] /\ UNCHANGED beats
                     ELSE key' = [key EXCEPT ![b.room] = FALSE] /\ beats' = beats \ {b}
    /\ UNCHANGED <<ended, jobs, lastJob, doing, broadcasting, bots, met, silenced, failed, crashes>>

\* Redis refuses a round: the task ends for good and takes the key with it, unless
\* that is refused too.  The bot stays.
BeatFails(b) ==
    /\ b \in beats /\ beats' = beats \ {b} /\ silenced' = silenced \cup {b}
    /\ key' \in {key, [key EXCEPT ![b.room] = FALSE]}
    /\ UNCHANGED <<ended, jobs, lastJob, doing, broadcasting, bots, met, failed, crashes>>

KeyExpires(r) ==
    /\ key[r] /\ ~\E b \in beats \cap bots : b.room = r
    /\ key' = [key EXCEPT ![r] = FALSE]
    /\ UNCHANGED <<ended, jobs, lastJob, doing, broadcasting, bots, beats, met, silenced, failed, crashes>>

-----------------------------------------------------------------------------
\* The process dies and is started again: at "$", without rooms.
Crash(w) ==
    /\ crashes < MaxCrashes /\ crashes' = crashes + 1 /\ At(w, Resting)
    /\ lastJob' = [lastJob EXCEPT ![w] = Fresh]
    /\ activeRooms' = [activeRooms EXCEPT ![w] = [r \in Broadcasts |-> NoJob]]
    /\ adds' = {a \in adds : a.p.worker # w} /\ started' = {s \in started : s.p.worker # w}
    /\ bots' = {b \in bots : b.worker # w} /\ beats' = {b \in beats : b.worker # w}
    /\ UNCHANGED <<ended, jobs, key, met, silenced, failed>>

JobStep(w) ==
    \/ XReadBlocks(w) \/ XReadTimesOut(w) \/ AddLanguage(w) \/ RoomGone(w)
    \/ \E ok \in BOOLEAN : ListParticipants(w, ok) \/ Evict(w, ok) \/ ConnectLivekit(w, ok)

WorkerNext ==
    \/ \E r \in Broadcasts, langs \in LanguageLists : StartMediaBot(r, langs)
    \/ \E r \in Conversations : StartMediaBot(r, <<>>)
    \/ \E r \in Broadcasts, l \in Languages : ChangeListenerLanguage(r, l)
    \/ \E r \in Rooms : WorkerWatchdog(r) \/ EndRoom(r)
    \/ \E w \in Workers : JobStep(w) \/ Crash(w) \/ \E joined \in BOOLEAN : XRead(w, joined)
    \/ \E a \in adds, ok \in BOOLEAN : TrackReady(a, ok)
    \/ \E b \in beats : Beat(b) \/ BeatFails(b)
    \/ \E r \in Conversations : KeyExpires(r)

\* Tasks that are ready run and timers fire.
AllBots == [worker : Workers, job : Jobs, room : Conversations]
WorkerSpec ==
    /\ WorkerInit /\ [][WorkerNext]_workerVars
    /\ \A w \in Workers :
         WF_workerVars(JobStep(w) \/ \E joined \in BOOLEAN : XRead(w, joined))
    /\ WF_workerVars(\E a \in adds, ok \in BOOLEAN : TrackReady(a, ok))
    /\ \A b \in AllBots : WF_workerVars(b \in beats /\ Beat(b))

-----------------------------------------------------------------------------
\* Two pipelines that speak one language in a room are of two workers, or of two
\* starts: add_language looks, waits for the track and then writes, so one worker
\* must not begin a second before the first is there.
OnePerWorker ==
    \A s, t \in started :
        /\ s.p.lang = t.p.lang /\ jobs[s.p.of].room = jobs[t.p.of].room
        /\ s.p.worker = t.p.worker /\ s.p.of = t.p.of
        => s = t

\* "Scale when one worker handles 5 rooms" (kubernetes/hpa.yaml 50): a room is one
\* worker's, and a language in it one track.  Every worker reads every job.
OneTrackPerLanguage ==
    \A s, t \in started :
        s.p.lang = t.p.lang /\ jobs[s.p.of].room = jobs[t.p.of].room => s.p.worker = t.p.worker

\* A demand that reached a worker after the room's last start was carried out is
\* answered by a pipeline of that worker, unless it is written as the spoken language's
\* name; nothing between a worker's first job and its last is missed.
Answered(w, k) ==
    LET job == jobs[k]
        since == {j \in lastJob[w].first..(k - 1) :
                    jobs[j].type = "bot_start" /\ jobs[j].room = job.room /\ <<w, j>> \notin failed} IN
    job.type = "language_demand" /\ since # {} /\ <<w, k>> \notin failed =>
        \/ Head(job.langs) = Source
        \/ \E j \in (k + 1)..lastJob[w].read :  \* a later start begins anew
              jobs[j].type = "bot_start" /\ jobs[j].room = job.room
        \/ HasLanguage([worker |-> w, of |-> activeRooms[w][job.room], lang |-> Head(job.langs)])
DemandServed ==
    \A w \in Workers : doing[w].at \in {"idle", "xread"} /\ lastJob[w].first # NoJob =>
        \A k \in lastJob[w].first..lastJob[w].read : Answered(w, k)

\* Together: every worker that serves a room answers what is demanded of it, once.
LanguagesServed == OnePerWorker /\ DemandServed

\* Bots that enter one after the other replace each other: never two translate one
\* conversation.
OneBot == \A b, c \in bots : b.room = c.room /\ b.room \notin met => b = c

\* A key that the heartbeat of an earlier bot deletes is written again by the bot
\* that is there, unless its own heartbeat met an error.
LiveBotIsSeen ==
    \A r \in Conversations :
        (\E b \in bots \ silenced : b.room = r)
            ~> (key[r] \/ ~\E b \in bots \ silenced : b.room = r)
=============================================================================
