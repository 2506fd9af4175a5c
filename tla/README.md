# A TLA+ model of Aytme Voice AI

Aytme Voice AI translates speech in a meeting while it is spoken. This directory
holds a formal model of the parts of it where several things happen at once: TLA+
modules written from the code, TLC configurations that check them on small
instances, and TLAPS proofs of what matters most for instances of any size.

All paths below are relative to the repository's `src/`. `PROJECT.json` ties each
definition to the lines it models (`map`), each property to the change of the code
that would break it (`mutants`), and lists the hazards of the code (`hazards`) with
the properties that cover them and where it departs from its own comments
(`findings`).

## 1. The system and its components

| component | code | state it keeps | operations | modelled by |
|---|---|---|---|---|
| Realtime relay | `services/api/api/v1/realtime_translate.py` | per WebSocket: `client_alive`, attempts, backoff, two tasks, `turn_caption`, `turn_count` | reconnect loop, browser to OpenAI, OpenAI to browser | `RealtimeRelay` |
| Usage metering | `services/media_worker/processing.py` (UsageCounter), `services/api/services/usage_processor.py` | counters, Redis stream `usage:events` and its consumer group, `usage_records` | count speech, emit, read, handle, acknowledge, commit | `UsageStream`, promise in `UsageLedger` |
| Media worker jobs | `services/media_worker/main.py`, `broadcast_worker.py`, `processing.py` (`connect_livekit`), `api/v1/rooms.py`, watchdog in `api/main.py` | stream `worker:jobs`, cursor, `active_rooms`, language pipelines, `bot:active:*` | enqueue, read, add a language, evict, connect, heartbeat | `WorkerJobs` |
| Translation cascade | `processing.py`, `whisper_processor.py`, `whisper_poller.py`, `speculative_translation_cache.py` | queues of segments and transcripts, cache, translation in flight, direction | transcribe, speculate, translate, intent, change_language | `SpeechPipeline` |
| PayPal billing | `services/billing/*`, `api/v1/billing.py`, `api/services/billing_service.py` | subscription row, invoices, recorded webhook events | checkout, redirect, webhook, verification, cancellation, synchronization of invoices | `PayPalBilling` |
| Rooms, quota, invitations, discounts | `api/v1/rooms.py`, `quota_service.py`, `invitation_service.py`, `api/v1/billing.py` | rooms by status, `use_count`, `used_by` | check and insert, validate and use | `RoomAdmission` |
| Organizations | `api/v1/organizations.py`, part of `api/v1/admin.py` | `org_members`, `owner_id` | add, role, remove, leave, transfer, delete | `Organizations` |
| Sign-in codes, workspaces | `api/v1/auth.py` | `otp_codes`, `otp:<email>`, user, organizations | request, store twice, look up, erase, provision | `Accounts` |
| Stage session | `clients/web/src/v2/Stage.jsx` (`connectToRoom` and its events, `flushSessionUsage`), `services/api.js` | `connectingRef`, `connectedRef`, `roomRef`, session clock and timer | join, reconnect, retry, drop, flush, leave | `StageSession` |
| Push-to-talk | `Stage.jsx` | refs: WebSocket, microphone, worklet, PCM chunks; `isProcessing`, abort | press, asynchronous setup, release, turn_done, error, 3 s timer | `PushToTalk` |
| Audio broadcast | `Stage.jsx` (`sendChunkedBroadcastAudio`, `handleData`) | `incomingAudioFramesRef`, retries | send in chunks, retry, reassemble, early decode, expire | `AudioBroadcast` |
| Talk Together gate | `clients/web/src/utils/RealtimeTranslateSession.js` | playback queue, `_isPlaying`, timers, in two directions | receive audio, drain, poll, tail, reconnect | `EchoGate` |
| Talk Together captions | same file, `_handleText` | `_captionBuf`, `_speechBuf` | six relay messages | `TurnCaptions` |
| List pages | `v2/Admin.jsx`, `Billing.jsx`, `Organizations.jsx`, `Account.jsx`, `Rooms.jsx`, `TranscriptsView.jsx`, `pages/user/*`, `pages/organization/*`, `store/roomStore.js` | selection, list shown, spinner, flags, dialogs, requests in flight | load, select, click, answer, dismiss, leave | `Screens` and its tables |
| Everything else | see `PROJECT.json` and section 6 | | | not modelled |

How they meet. The Stage of the speaker opens a WebSocket to the relay, which
opens one to OpenAI. `turn_done` comes back on the first, and the Stage forwards
text and audio to the other participants on LiveKit's data channel; beside that it
bills the minutes it was connected. Talk Together runs two relay connections in
one browser whose only tie is the echo gate. The API puts jobs on a Redis stream
that every media worker reads; a worker reports speech on another one, which every
API replica reads through a shared consumer group and writes to PostgreSQL, where
quotas read it. PayPal calls the API back, in its own time.

What is hard about it: handlers that await and then act on state other handlers
have changed (Stage, push-to-talk, the list pages, every API handler with more than
one statement), timers that race with messages (echo gate, close timer, mismatch
retry), at-most-once and at-least-once steps in one flow (acknowledge before
commit; publish that raises after sending; webhooks answered after the commit),
two stores that fail apart (login codes), several replicas on one consumer and
several workers without one, and connections lost at any of these moments.

## 2. The modules

Each component is one module; `MC<module>` is what TLC runs. `\* Mutant:` marks a
definition that is no part of the model: it is a plausible mistake in the
definition under it, which a property named in `PROJECT.json` must detect. A
variable commented `ghost` is not in the code: it remembers what a property needs.

**RealtimeRelay.** One connection. `pc` is the place in the loop of
`realtime_translate_ws`; `c2o` and `o2c` are its two tasks; `inbox` holds the
frames the browser sent, `oaiOut` the events OpenAI sent, both in order. Audio
frames are numbers, a response is the set of frames it translates, and
`turn_caption` is the sequence of responses its deltas came from. One action for
each branch of each task, each with the failure of its send; `IterationEnds`
cancels the task that is left.

**UsageStream / UsageLedger.** The worker counts speech and appends events; the
replicas read, handle (which acknowledges) and commit batches. `pel` is the
group's list of pending entries, `rows[p]` the rows of the open session of
replica p, `copies[i]` the committed rows of event i. `UsageLedger` promises the
little the code can keep: an event is settled once, recorded or lost.

**WorkerJobs.** A job, and the bot or pipeline it starts, is its position in the
stream. `cursor[w].first` is unset while the worker still reads from `$`: then a
read sees only what is added while it waits. A conversation keeps its worker busy
(`doing[w]` is "serving") until its room is gone, a broadcast does not. Listing
the bots, evicting them and connecting are three steps, and so are the look-up,
the track and the entry of `add_language`. A crash takes the worker's pipelines
and bots; what keys it leaves expire. Languages are kept as they are written: a
start resolves the spoken language to its name, the languages it lists and those
listeners demand are codes, and `add_language` compares the two. So a demand for the
spoken language gets a pipeline unless it is written as that name; the run has one
language of each kind. A `redis.set` that fails ends a heartbeat for good.

**SpeechPipeline.** One room. `change_language` builds a whole pipeline: pipeline
g has its queue `finals[g]`, its cache and its loop; the loops read `self.*` anew
each round, so a loop that survives works for the newest pipeline with its own
cache. A text is the number of its words; a translation is the direction it was
made in, which is all that can go wrong with it here. `loop[g]` is where
`WhisperToTTS` is inside `get_or_translate`: waiting for a detached speculative
translation, just back from it, or translating afresh.

**PayPalBilling.** One organization. A handler is a record in `open` with the row
it has read; `Save` writes back only the columns that differ from it, as the
session does. PayPal's side is the status of each subscription, its sales and the
events it keeps sending until it is answered. An invoice is known by the id it is
written under: that of a sale, or that of the subscription, which a verification
uses for what was paid first. `SyncInvoices` is the administrator's completion of
the invoices from what PayPal lists. PayPal's listing is taken to give a payment the
id its webhook gives; that id is unique in the table, so a synchronization that
meets a webhook's new row writes nothing.

**RoomAdmission.** Requests hold what they have read between two statements.
Rooms are rows by status, an invitation is its `use_count`.

**Organizations.** An organization is made by a user, who becomes its owner, or by
the site administrator, who names an owner but writes no row of a member. `Begin`
reads the caller's row, `ReadTarget` the target's and decides, a commit writes.
Roles that carry the same rights here are one value.

**Accounts.** `request_otp` deletes, inserts, commits, caches and mails in five
steps that fail apart; `login_otp` looks in the table, then in Redis, erases both
and makes user and workspace. Codes are numbered in the order they were asked for.

**StageSession.** Calls of `connectToRoom` are numbered and so are the LiveKit
rooms they make; `attempt[i]` is the await that call is in, `room[i]` the state of
its room, whose events reach the page whether or not it is still `current`. The
refs hold one value each, whoever wrote last. `clock` is the session clock with
its timer and whether it has an organization, `posts` the records on their way,
`billed[t]` how often tick t was recorded; a tick is the least time that is recorded.
`org` is what the store holds: a page opened or reloaded at the address of the room
has no organization, since only the layout of the other pages asks for it, and
records nothing; one that an earlier page asked for may still arrive.

**AudioBroadcast.** Turns on a reliable ordered channel that loses its contents
with the connection. `publishData` may raise after the packet went out.
`decodeAudioData` answers later, and `HandleEnd` may come first.

**EchoGate.** Time is in ticks of 80 ms (the tail); a timer fires when due or
later. `playing[d]` is `_isPlaying` of direction d and the gate of its sibling.

**TurnCaptions.** What OpenAI says of each turn in any order it may (input
transcription is not ordered with the response), what the relay forwards, what
the buffers make of it. Text is the set of turns it was taken from.

**PushToTalk.** Presses are numbered and so are the WebSocket and the microphone
stream each opens. The steps between two awaits of `startLocalRecording` and
`_handleRealtimeTurnDone` are actions. A setup gives up on the WebSocket or the
worklet, is denied the microphone, or breaks when the nodes are made; a handler ends,
or breaks off (`HandlerFails`) because `roomRef` was cleared while it sent or because
the playback it waits for does not settle.

**Screens, ScreenParts, AdminScreens, OrgScreens, AccountScreens, RoomScreens.** The
forty-odd list pages and tabs of the client do the same things in different
combinations: load on mount or on a change of the selection, show a spinner that
does or does not hide the rows, send requests whose flag lives in the component, in
a dialog or in one cell for all rows, and reload, patch or overwrite the list when
the answer comes. `Screens` is that engine: requests are answered in any order,
dropped when their component is gone, and lists are read by the server before or
after a write. A load that takes two requests is one step there, which may leave or
empty the rows when it fails, whichever of the two it was. `ScreenParts` names the
choices a page makes, and the four tables say for every page which it makes; each
row of a table is mapped to the component or handler it describes. `Request("none",
...)` is a handler without a guard, `Uncovered` a page that shows rows while it
loads, and so on.

**MCWebClient** puts the pages of one browser together: the list pages, the stage
and Talk Together share no state, so a behaviour is one of an open page.
**MCPageAudio** does the same for EchoGate and AudioBroadcast; no fair action of the
one that is not used is enabled, so the fairness of both can be assumed at once.

## 3. The runs

One run answers all questions of a component, or of two that share no state; `worker` and `bots` are two instances
of one module, since symmetry and liveness do not go together.

| run | instance | distinct states |
|---|---|---|
| `relay` | both modes, 3 audio and 2 control frames, 4 attempts, delays up to 3, prompt every 2 turns | 309 000 |
| `usage` | 2 replicas, batches of 2, 3 events, 3 units of speech, increments of 2, 2 faults | 84 000 |
| `audio` | a broadcast of 2 turns of 2 chunks, 2 tries, 2 faults of any kind; Talk Together with 3 chunks each way, 1 lost connection | 249 000 |
| `ptt` | 3 presses, 1 lost connection | 593 000 |
| `client` | 43 list pages with 2 selections, 2 rows and 3 requests; 2 attempts to connect and 2 ticks; 2 turns, 4 messages under way, 2 lost connections | 2 041 000 |
| `billing` | 1 PayPal subscription, 2 payments, 3 handlers at a time | 1 921 000 |
| `rooms` | 2 requests, 3 rooms of a plan for 1, an invitation for 2, 2 users of a code | 187 000 |
| `members` | 3 users, 2 requests | 1 081 000 |
| `speech` | 2 utterances of up to 2 words, 2 pipelines, 1 intent | 1 381 000 |
| `accounts` | 2 codes, 3 logins | 680 000 |
| `worker` | 2 workers, a broadcast and a conversation, a language as a code and one as the name of the spoken one, starts with up to 2, 2 jobs, 1 crash | 1 379 000 |
| `bots` | 2 workers, a conversation, 2 jobs, 1 crash | 221 000 |

Deadlock is not checked: every system here may stop (the browser leaves, the
bounds are used up).

### Bounds

- *relay, usage, audio.* Three frames let a commit fall between two frames and
  a connection be lost after either. Two replicas and three events allow two
  batches under way and one event neither has read; two faults allow a crash of
  each replica. Two chunks are what a hole needs; two tries and two faults reach
  the notice. Three chunks are one that plays, one queued and one in the tail.
  `MaxRetries = 4` and `MaxDelay = 3` make the backoff reach its cap.
- *ptt.* Three presses allow a setup of the first, a translation of the second and
  a press of the third at once. An aborting setup closes the connection of another
  press's turn only with more, after a setup that was done too late; the property
  excepts those, and the theorem covers any number of presses.
- *client.* Three requests are a load, a write and a second load or write: an
  answer that overtakes, a request sent twice, a selection changed in between. With
  a fourth all properties hold as well (5 million states). Two attempts are an
  old room and a new one; two ticks let a flush fall between two. With four attempts
  and one tick, and with three and two, they hold as well (12 million
  states each): four is what a reconnect beside a retry needs, see below.
- *billing.* Three handlers allow a webhook, a verification and a cancellation or
  synchronization at once, on one subscription; the theorems cover any number of
  each.
- *rooms, members.* Two requests are the least that overlap, three rooms one more
  than the overshoot they can cause.
- *speech.* Two utterances are what an order needs, two words what a partial
  transcript needs, two pipelines a change of language.
- *accounts.* Two codes are an old and a new one; three logins allow one with
  each code beside one with the password. Three codes with two logins were checked
  too (6.1 million states).
- *worker, bots.* Two jobs are a start and a demand, two starts of one room, or a job
  beside another; two workers read both. One crash leaves the other worker alone.

### What the runs check

*relay.* `OneResponsePerTurn`: the caption of a turn never joins two responses,
though deltas accumulate across interrupts, errors and reconnects.
`NoGapInSession`: the frames sent on one OpenAI connection are consecutive; it
fails if a task survives its iteration and swallows frames. `PromptIsFresh`: never
more than `ReinjectEvery` turns without the prompt. `HandlerSettles`: the handler
ends once the browser has left, connecting gets a session or gives up, and the
delay follows the failures.

*usage.* `NothingTwice`: no event is billed twice, is in two hands, or is still
pending once it is recorded, which is what reading the pending entries after a
crash would rely on. `NeverOverbilled`: rows never exceed speech. `LedgerSpec`:
refinement of `UsageLedger`. `UsageRecorded`: without failures usage is recorded in
the end.

*audio.* `PlayedWhole`: no turn is played with a hole, or twice by one path.
`SentGetsThrough`: what was sent is heard, also when the early decode fails, and
captioned. `TurnReachesReceiver`: heard or read in the end. `NoEcho`: no microphone
sends while the other direction can be heard. `GateReopens`: every gate opens again.

*ptt.* `TurnsStayApart`: speech and audio of presses are not mixed in the buffers
they share. `NothingLeftOpen`: at most one paid session, no microphone without a
press, and an aborting setup closes no connection another press needs.
`ButtonComesBack`, `ShownClosesSession`: the button takes presses again and the paid
session of a shown turn ends, unless a handler broke off (`Stage.jsx:1365`). A single
press releases its microphone however its setup ends, but for a setup that gave up on
the WebSocket or the worklet, whose stream is nobody's.

*client, list pages.* `SettledRows`: once nothing is in flight the list shown is
that of the selection, with everything its own controls did. `OneSubmission`: a
disabled control does not send twice. `ActsOnItsRows`: the row acted upon belongs
to the selection. Each names the cases the code does not prevent: an answer that
overtakes another, a flag whose holder went away, a write no handler brings back.

*client, stage.* `PageMatchesRooms`: no two connected rooms, none once the page is
left, and no "connecting" with nothing under way. `BilledOnce`: no minute of a
session is recorded twice, by timer, leave button and session end together.
`LiveIsBilled`: what was live is recorded when the page is left by its button, if the
organization was known when it connected, the clock was not restarted and no record
failed.

*client, captions.* `CaptionsApart`: a translation shown is one turn, shown once,
and the partial caption never mixes two.

*billing.* `PaymentsBooked`: however often PayPal sends an event, whatever fails and
whatever runs beside it, a sale extends the period at most once and is invoiced if it
did, and no invoice is of a sale that was not paid or a subscription that was not
approved. It does not say that a payment has one invoice, which is false, see below.
`ActiveWasApproved`: only an approved subscription is served. `EndIsPaidFor`: the
period ends no later than one period for the trial or a verification and one for each
sale give.

*rooms.* `QuotaOvershoot`: overlapping requests exceed the plan by at most one
each, one alone never. `JoinsAreCounted`: stale counts never pass the limit, and
joins that do not overlap are all counted. `CodeOfOneUser`.

*members.* `OneOwner`: exactly one owner, unless a transfer overlapped another
handler, the owner's account was deleted or the site administrator made the
organization. `ComesBackByInvitation`: no role change
or transfer brings back a member removed meanwhile.

*speech.* `RightDirection`: spoken in the direction that held when the transcript
was taken, from the cache or not. `InOrder`: once each, in the order of the
transcripts. `TranscriptsHandled`: every transcript is spoken or passed over, also
when the speculation it waits for is cancelled.

*accounts.* `OnlyLastCodeWorks`: the code sent last is the one found, a used one is
in neither store again. `OneWorkspace`.

*worker.* `LanguagesServed`: a worker has one pipeline for each start and language as
written, though it looks for one, awaits the track and then writes; and a demand it
read after a start is answered by that start's own. It says nothing of two workers,
see below. `OneBot`: bots replace each other.

*bots.* `LiveBotIsSeen`: a key another bot's heartbeat deletes is written again by a
bot whose own heartbeat met no error. Nothing that is deployed reads this key.

The type invariants of the modules hold on the same instances; where there are
proofs they are theorems.

### Fairness

Weak fairness is given only to what the program does by itself: the relay's tasks
and loop (asyncio runs them; strong for the task that is created first on every
connection, since a flapping connection disables it again and again),
`process_usage_events` (an endless loop), the job loop of a worker and its
heartbeats, the loops of the cascade (calls to OpenAI have a timeout), timers,
packet handlers, `publishData` and `decodeAudioData` (promises that settle), the
handler of a turn, which may end by failing, setups (both awaits have a timeout or a
prompt that is answered). Users, OpenAI, PayPal, faults and lost connections get
none. The other runs check safety only.

### Where the code and its comments disagree

`findings` quotes the lines. Those that have a property in a module, which is
left out of its run because TLC refutes it there (`INVARIANT <name>`, or `PROPERTY`
for `AcceptedIsPersisted`, in the same configuration shows the behaviour):

- `ClientAliveTracksSocket` (RealtimeRelay): a failed send to OpenAI clears
  `client_alive`, and a session that should reconnect ends.
- `AcceptedIsPersisted` (UsageStream): acknowledged before the commit, so a
  rejected row takes the whole batch with it.
- `HeardOnce` (AudioBroadcast): the end packet during the early decode plays the
  turn twice.
- `NothingLeft` (EchoGate): audio that arrives in the tail stays queued.
- `SourceOfSameTurn` (TurnCaptions): a late transcription is shown with the next
  translation.
- `EarlyReleaseAborts` (PushToTalk): the abort flag of a released press is
  withdrawn by the next one.
- `OneTrackPerLanguage` (WorkerJobs): every worker serves every broadcast, so two
  workers run two pipelines and publish two tracks of a language.
- `InvoicedOnce` (PayPalBilling): the first payment is invoiced under the id of the
  subscription and again under that of the sale, and gives two periods.
- `ActivatedIsActive` (PayPalBilling): the activation event of a subscription whose
  redirect was lost is recorded as processed and changes nothing.

The others are steps of a model a property has to make an exception for: the login
that finds an older code in the table and does not look into Redis
(`auth.py:228`, `LastCodeWorks`); the detached translation that outlives `clear()`
(`overtaken`); the reconnect that is skipped beside an attempt (`SpinnerEnds`); the
watchdog whose jobs no worker understands (`WorkerWatchdog`); and three that need
no model: the limit of 600 minutes commented as 10, the bot status that reads keys
nobody writes, the automatic upgrade to the plan one has.

### What else the models had to allow

Behaviour that no line promises to be otherwise, found while modelling:

- *Stage.* A disconnect neither flushes nor stops the clock, and a reconnect
  restarts it, so the minutes between are billed though nobody was connected, or
  lost (`Stage.jsx:1809`, `1875`). A failure after `r.connect` shows the join
  screen over a connected room (`1965`); a page left during the token request or
  the half second before a retry leaves a room connected with a timer that bills
  it. Events of a replaced room are taken for the current one's. The timer of a
  retry may fire beside the reconnect such an event begins; then two rooms are
  connected or one is left behind. A record that fails is not sent again
  (`api.js:227`). A page that does not know the organization when it connects sets no
  timer, and its flushes return at once (`1041`, `1877`).
- *List pages.* Answers are not compared with the selection they are for. One cell
  remembers the row a request runs for, so a second row re-enables the first.
  Dialogs are closed by the answer of an earlier submission. A handler's closure
  reloads the list that was selected when it was made (`Organizations.jsx:343`).
  The transcripts' spinner ends before they are loaded (`TranscriptsView.jsx:79`).
- *Worker.* The spoken language, demanded by its code, is translated into itself
  (`broadcast_worker.py:125`); a heartbeat that meets an error ends and deletes the
  key of a bot that stays (`processing.py:465`); a second start drops the languages
  demanded; broadcast bots are named `bot-` and are never evicted; jobs added
  between two reads from `$` are missed.
- *Cascade.* In conversation mode `change_language` stops nothing; cancelling a
  loop inside `get_or_translate` is taken for a failed translation.
- *Accounts, organizations.* Overlapping requests for a code leave two rows; a login
  erases codes by address; verifying an address after a login makes a second
  workspace; a transfer beside another request can leave two owners or none.
- *Push-to-talk, broadcast.* A setup that is done after its release closes
  whatever connection is current (`Stage.jsx:1599`), at worst that of a turn another
  press waits for. A frame older than 120 s is dropped half-way
  (`Stage.jsx:1088`); the 3 s timer can capture a later press's WebSocket (`1387`);
  a setup that gives up on the WebSocket or the worklet forgets the microphone stream
  (`1588`, `1634`); a handler that breaks off at `1365` leaves the button blocked and
  the paid session open.
- *Billing.* The synchronization invoices sales that extended no period
  (`admin.py:348`), as those of a subscription the row did not yet name.

## 4. The proofs

For every value of the constants that satisfies the module's assumption:

| module | theorems (and the property of a run each states) |
|---|---|
| `RealtimeRelay_proofs` | `TypeCorrect`, `OneResponse` (`OneResponsePerTurn`), `NoGap` (`NoGapInSession`), `PromptFresh` (`PromptIsFresh`), `PacedByFailures` (`BackoffFollowsAttempts`, a part of `HandlerSettles`) |
| `MediaWorker_proofs`, metering | `TypeCorrect`, `NeverTwice` (`NothingTwice`) with its parts, `BilledAtMostSpoken` (`NeverOverbilled`), `ImplementsLedger` (`LedgerSpec`) |
| `MediaWorker_proofs`, jobs | `OneBotEver` (`OneBot`), `DemandsServed` (`LanguagesServed`) |
| `MediaWorker_proofs`, cascade | `DirectionRight` (`RightDirection`), `SpokenInOrder` (`InOrder`) |
| `EchoGate_proofs` | `TypeCorrect`, `NoEchoEver` (`NoEcho`) |
| `StageAudio_proofs`, push-to-talk | `TypeCorrect`, `TurnsApart` (`TurnsStayApart`), `NothingOpen` (`NothingLeftOpen`) |
| `StageAudio_proofs`, broadcast | `WholePlayed` (`PlayedWhole`), `GetsThrough` (`SentGetsThrough`) |
| `PayPalBilling_proofs` | `TypeCorrect`, `Booked` (`PaymentsBooked`), `ActiveApproved` (`ActiveWasApproved`), `EndPaidFor` (`EndIsPaidFor`) |
| `RoomAdmission_proofs` | `TypeCorrect`, `QuotaBounded` (`QuotaOvershoot`), `JoinsCounted` (`JoinsAreCounted`), `CodeIsOneUsers` (`CodeOfOneUser`) |
| `Organizations_proofs` | `TypeCorrect`, `OwnerUnique` (`OneOwner`), `ComesBack` (`ComesBackByInvitation`) |
| `Organizations_proofs`, accounts | `LastCode` (`OnlyLastCodeWorks`), `WorkspaceIsOne` (`OneWorkspace`) |
| `WebClient_proofs`, list pages | `OneAtATime` (`OneSubmission`), `ActOnOwnRows` (`ActsOnItsRows`), `RowsSettle` (`SettledRows`) |
| `WebClient_proofs`, stage | `TypeCorrect`, `RecordedOnce` (`BilledOnce`), `PageMatches` (`PageMatchesRooms`), `LiveRecorded` (`LiveIsBilled`) |
| `WebClient_proofs`, captions | `CaptionsStayApart` (`CaptionsApart`) |

The three parts of `WebClient_proofs` are in one module as they are in one run; each
is about its own specification (`ScreenSpec`, `StageSpec`, `Spec`); so are the parts
of `Organizations_proofs` (`Spec`, `AccountSpec`), of `StageAudio_proofs` (`Spec`,
`BroadcastSpec`) and of `MediaWorker_proofs` (`Spec`, `WorkerSpec`, `SpeechSpec`).

Hardly any of these properties is inductive. What each strengthening adds:

- *RealtimeRelay.* `LoopInv` ties the place in the loop to its tasks: every
  iteration cancels them, so none reads for an earlier connection, and `turn_count`
  counts the turns since the prompt. `CaptionInv` orders what OpenAI said and the
  relay has not read: the events of a response are together and end with its
  `response.done` unless the connection dropped, and a caption under way is of the
  response read next. `FrameInv` says that the audio that waits is consecutive and
  follows what was forwarded. Lemmas on sequences (`GroupedTail`, `GroupedAppend`)
  carry the steps. `Paced` gives the delay of every place in the loop by the failures
  so far, as a capped power of two.
- *UsageStream.* From a state where a replica holds a row of an event that already
  has one, a commit writes a second. `Inv` adds that acknowledged rows are in one
  hand and that nothing beyond the group's cursor is held, pending or recorded:
  what a read delivers is new to everyone. The refinement has one lemma for each
  kind of step: emit, drop, commit, and the steps that stutter. For
  `NeverOverbilled`, `Counted` says that the speech the stream tells of and what was
  counted since the last whole increment were both heard. Its sum is a fold, and the
  library proves nothing of folds: the lemmas on sums (`SumAdd`, `SumSame`,
  `SumOfPart`) take, where an induction over the set is needed, a smallest part that
  fails (`Least`, from the well-foundedness of `<`; so do the powers of two of the relay).
- *WorkerJobs.* `LoopInv` ties what a worker does to the job it last read, and every
  pipeline and add to a job of its type. `Seats`: while nobody met, one worker at most
  enters a room, and a bot in it is one the entering worker has listed; once it has
  evicted, none is left. For the demands, `OneAdd` (a worker has one add under way,
  of a language the pipeline lacks) gives each worker's start one pipeline for a
  language, and `ServedBy` and
  `KnownBy` say that everything read is answered but the job at hand, and that a
  start that was carried out is in `active_rooms`.
- *SpeechPipeline.* `CascadeInv` says that a transcript in a queue or in a loop has
  been written, and that a pipeline not built yet is clean. `OneDirection`: as long as
  nothing was overtaken, the newest pipeline alone works, and all it has cached, is
  translating or waits for is in the direction that holds. `OneOrder` puts what was
  said before the transcript at work and that before the queue. `LoopTurn` reduces
  the many ways through `get_or_translate` to what a turn takes, where it goes and
  what it stores.
- *EchoGate.* `NoEcho` says nothing of timers. `Inv` adds that the gate is closed
  while anything can be heard or a timer is pending, that the tail outlasts the
  audio, and that what is queued was received.
- *PushToTalk.* `BaseInv`: the only WebSocket that can be up is the current one, and
  a microphone in the refs is of a setup that is done. `Apart`: while every setup is
  done before its release, the refs all presses share are of the press whose button
  is down, and a turn that is translated has the chunks to itself. `OnePress` follows
  a page with a single press through setup, release and microphone.
- *AudioBroadcast.* Neither property mentions the order of packets, and both rest on
  it. `Wired`: packets of a turn are on their way in order, repeated or not, and none
  is ahead of the sender; `After(m, i)` says a turn is past packet i for good. With
  it, `Framed` keeps what a frame counts equal to what it holds and never whole once
  its end was handled, and `Once` keeps what played from being reassembled again.
  For `SentGetsThrough`, `AllReach` follows every packet sent to a receiver that was
  there: it is on its way, or its frame holds it, or the turn was heard.
- *PayPalBilling.* A second handler of the same event would grant it again:
  `OnceInv` says that a webhook under way is of an event not yet recorded, and no
  two are of the same. The synchronization writes no invoice of a sale but those
  PayPal took, and a verification only under an approved id. `ApprovedInv` follows
  the approved id through everything a handler may still write. `PaidInv`: whatever
  end of the period a handler has read was paid for, and its own payment does not
  count yet.
- *RoomAdmission.* `QuotaInv` counts, with the rooms there are, the requests that
  have passed the check and may still insert; it needs the cardinality theorems of
  the library. `JoinInv` bounds the stale counts in flight, and holds them equal to
  the row as long as no two joins overlap. `CodeInv` says that a request at the code
  is alone there and the code not yet used.
- *Organizations.* A role change that was allowed must not meet an owner when it
  is written: `OwnerInv` says that no target waiting to be written is the owner, and
  that a transfer is alone and its caller the owner. `ComesBack` is an action
  property and needs the types only, once every step has been looked at.
- *Accounts.* Nothing in `OnlyLastCodeWorks` speaks of requests under way. `CodesInv`
  adds that codes are asked for in turn, that what can be typed was mailed and so is
  written by nobody any more, and that the newest undisturbed request is alone and
  its DELETE sees all rows. `OneProvisioning`: whoever makes the first workspace is
  alone.
- *Screens.* A list page is a choice of features, and not every combination is safe.
  The proof begins with the tables: `EveryTable` shows that on none of them a list
  that follows the selection is overwritten by an answer, or loaded again by one without
  the spinner. `Held` says which write
  every disabled control waits for, `HidesRows` whose rows are shown once the spinner
  is gone, and `Brought` that a settled write is in the list or in a load that will be
  shown: a load that has not seen it is overtaken by one that has.
- *StageSession.* Records on their way lie before the last flush, apart from each
  other and from what is billed. Whatever connects, drops or fails leaves the clock
  alone or starts it later, which is one lemma for all those steps. `RoomInv` adds
  that one call runs at a time, that a connected room is the one `roomRef` holds, and
  what the spinner waits for; `LiveInv` that a live tick is recorded, on its way, or
  before a flush that is still to come.
- *TurnCaptions.* That no caption mixes two turns needs the order of all that may
  still say something: `CaptionsInv` puts the turns shown before the caption buffer,
  that before the messages on the line in their order, and those before the turns
  OpenAI has not finished. A message the browser takes shifts every place by one;
  the lemmas on places say which conjunct that concerns.

Three things came out of proofs and not out of runs, whose bounds they exceed. In
the stage, a retry that fires beside a reconnect (four attempts); in push-to-talk,
the turn that loses its connection to an aborting setup (six presses): the two
properties now except these cases, and the runs were repeated with larger bounds.
And the lists take selections and rows that differ from the marks the pages use for
none and all, which `ScreenAssumption` says.

Only model-checked is everything under fairness: liveness and `ENABLED` are out of
the prover's reach.

## 5. What to do next

Every invariant of the runs is a theorem. Modules that could
be added: the playback half of the cascade (synthesis, tracks), the start button of
Talk Together, the sign-in store and its interceptor, the plan changes of the
administrator. Promises that could be stated as abstract specifications, as
`UsageLedger` is: a reliable turn channel under the broadcast, a seat per room under
the worker.

## 6. Not modelled, and why

- *Data.* Language tables, prompts, hallucination filters, formatting, prices.
- *Outside.* LiveKit, OpenAI, PayPal, S3 and e-mail appear only as what the code
  can see of them.
- *Playback of the cascade.* Synthesis, tracks and audio routing move audio through
  queues; `TTSToLiveKit` picks its track by the language of the moment
  (`get_or_publish_track` awaits between look-up and publication).
- *Nothing to interleave.* CRUD of one row (users, tokens, audit, analytics,
  settings, plans), exports, rendering, sliding-window rate limits.
- *Dead or unreached code.* Nothing creates `Participant` rows and no page calls
  the lobby; grace period and retention jobs are never scheduled (one calls a method
  that does not exist); `WorkerHeartbeat`, `media_worker.py` and the
  `handle_paypal_*` functions of `webhooks.py` are not called; `TalkTogetherSession.js`
  and `broadcast_audio` in one packet are superseded; `pages/admin/*` and
  `/room/...` have no route; the password-reset pages are timeouts.
- *Redis stand-in.* One failed connection installs an in-memory Redis for good:
  two replicas then share nothing, and no model of either half says more.
- *Sign-in.* Passwords, tokens and their expiry; the client's store, in which a
  401 for an old token removes a newer one.
- *Approximations.* A page's form contents and rows that no request acts on are
  left out. Two handlers that await a reload before they free their flag are modelled
  as freeing it at the write's answer, which allows more. `EchoGate` takes the
  playback context to be running (`RealtimeTranslateSession.js:327`).
