----------------------------- MODULE UsageStream -----------------------------
(***************************************************************************)
(* Metering: the media worker counts speech and appends events to the      *)
(* Redis stream usage:events (services/media_worker/processing.py); every  *)
(* API replica runs process_usage_events, which reads the stream through   *)
(* one consumer group and writes rows to PostgreSQL                        *)
(* (services/api/services/usage_processor.py).                             *)
(*                                                                         *)
(* An event is named by its position in the stream. Time is counted in     *)
(* units of which Increment make one reported increment (10 seconds).      *)
(***************************************************************************)
EXTENDS Integers, Sequences, FiniteSets, FiniteSetsExt

CONSTANTS
  Procs,      \* the API replicas, each running process_usage_events
  BatchSize,  \* count= of xreadgroup (50 in the code)
  Increment,  \* units of speech in one increment
  MaxSpeech,  \* bound: units of speech in the room
  MaxEvents,  \* bound: events in the stream
  MaxFaults   \* bound: failures and restarts

ASSUME UsageAssumption ==
  /\ BatchSize \in Nat \ {0} /\ Increment \in Nat \ {0}
  /\ MaxSpeech \in Nat /\ MaxEvents \in Nat /\ MaxFaults \in Nat

VARIABLES
  spoken,     \* units of speech heard in the room, whoever counted them
  active,     \* active_speech_ms of the room's UsageCounter
  reported,   \* last_reported_increment of that counter
  stream,     \* usage:events
  cursor,     \* last-delivered-id of the consumer group
  pel,        \* the group's pending entries: delivered, not acknowledged
  todo,       \* todo[p]: messages p has read and not handled
  rows,       \* rows[p]: messages whose row is in p's open session
  copies,     \* copies[i]: committed rows for event i
  faults

producer == <<spoken, active, reported, stream>>
consumer == <<cursor, pel, todo, rows, copies>>
vars == <<producer, consumer, faults>>

Ids == 1..MaxEvents

\* usage: seconds_processed of a room; transcript: a row of no length.
\* unusable: the handler skips it or raises on it (no room and no org, an id
\* that is no UUID). rejected: the row breaks the foreign key of its org.
Kinds == {"usage", "transcript", "unusable", "rejected"}
Events == [kind : Kinds, units : Nat]

TypeOK ==
  /\ spoken \in 0..MaxSpeech /\ active \in 0..MaxSpeech /\ reported \in Nat
  /\ stream \in Seq(Events)
  /\ cursor \in Nat /\ pel \in SUBSET Ids
  /\ todo \in [Procs -> SUBSET Ids] /\ rows \in [Procs -> SUBSET Ids]
  /\ copies \in [Ids -> Nat]
  /\ faults \in 0..MaxFaults

Init ==
  /\ spoken = 0 /\ active = 0 /\ reported = 0 /\ stream = <<>>
  /\ cursor = 0 /\ pel = {}
  /\ todo = [p \in Procs |-> {}] /\ rows = [p \in Procs |-> {}]
  /\ copies = [i \in Ids |-> 0]
  /\ faults = 0

Fault == faults < MaxFaults /\ faults' = faults + 1

------------------------------------------------------------------------------
(* The media worker. *)

\* Mutant: a started increment counts as a whole one.
NewIncrementsRoundedUp(d) == (active + d + Increment - 1) \div Increment - reported

\* The increments that d more units of speech complete.
NewIncrements(d) == (active + d) \div Increment - reported

Count(d) ==
  /\ spoken + d <= MaxSpeech /\ Len(stream) < MaxEvents
  /\ spoken' = spoken + d
  /\ active' = active + d
  /\ reported' = reported + NewIncrements(d)

\* add_speech_duration: the increments are marked reported, then emitted.
AddSpeechDuration(d) ==
  /\ Count(d)
  /\ stream' = IF NewIncrements(d) > 0
               THEN Append(stream, [kind |-> "usage", units |-> NewIncrements(d) * Increment])
               ELSE stream
  /\ UNCHANGED <<consumer, faults>>

\* The xadd raises and emit_usage swallows it.
EmitUsageFails(d) ==
  /\ Count(d) /\ NewIncrements(d) > 0
  /\ Fault
  /\ UNCHANGED <<stream, consumer>>

\* A new pipeline for the room has a new UsageCounter.
CounterRestarts ==
  /\ active > 0
  /\ Fault
  /\ active' = 0 /\ reported' = 0
  /\ UNCHANGED <<spoken, stream, consumer>>

EmitOther(k) ==
  /\ Len(stream) < MaxEvents
  /\ stream' = Append(stream, [kind |-> k, units |-> 0])
  /\ UNCHANGED <<spoken, active, reported, consumer, faults>>

------------------------------------------------------------------------------
(* process_usage_events in replica p. *)

Idle(p) == todo[p] = {} /\ rows[p] = {}

\* Mutant: the processor waits for a full batch.
ReadFullBatch(p) ==
  /\ Idle(p) /\ cursor + BatchSize <= Len(stream)
  /\ cursor' = cursor + BatchSize
  /\ todo' = [todo EXCEPT ![p] = (cursor + 1)..(cursor + BatchSize)]
  /\ pel' = pel \cup ((cursor + 1)..(cursor + BatchSize))
  /\ UNCHANGED <<producer, rows, copies, faults>>

\* xreadgroup ">": the group hands over what it never handed to any consumer.
Read(p) ==
  /\ Idle(p) /\ cursor < Len(stream)
  /\ LET last == IF cursor + BatchSize < Len(stream) THEN cursor + BatchSize ELSE Len(stream)
         new  == (cursor + 1)..last
     IN /\ cursor' = last
        /\ todo' = [todo EXCEPT ![p] = new]
        /\ pel' = pel \cup new
  /\ UNCHANGED <<producer, rows, copies, faults>>

\* The first message not handled leaves the batch and the pending entries.
Handle(p, i) ==
  /\ i \in todo[p] /\ \A j \in todo[p] : i <= j
  /\ todo' = [todo EXCEPT ![p] = @ \ {i}]
  /\ pel' = pel \ {i}

\* db.add, then xack: before the row is committed.
AddRow(p, i) ==
  /\ Handle(p, i)
  /\ stream[i].kind # "unusable"
  /\ rows' = [rows EXCEPT ![p] = @ \cup {i}]
  /\ UNCHANGED <<producer, cursor, copies, faults>>

SkipMessage(p, i) ==
  /\ Handle(p, i)
  /\ stream[i].kind = "unusable"
  /\ UNCHANGED <<producer, cursor, rows, copies, faults>>

Rejected(p) == \E i \in rows[p] : stream[i].kind = "rejected"

\* A lookup raises, by itself or as it flushes a row that is rejected:
\* "Acknowledge anyway".
HandlingRaises(p, i) ==
  /\ Handle(p, i)
  /\ IF Rejected(p) THEN UNCHANGED faults ELSE Fault
  /\ UNCHANGED <<producer, cursor, rows, copies>>

\* Mutant: the session keeps its rows and writes them again next time.
CommitKeepsRows(p) ==
  /\ todo[p] = {} /\ rows[p] # {} /\ ~Rejected(p)
  /\ copies' = [i \in Ids |-> IF i \in rows[p] THEN copies[i] + 1 ELSE copies[i]]
  /\ UNCHANGED <<producer, cursor, pel, todo, rows, faults>>

\* Mutant: a commit per row instead of one per batch, stopped half way.
CommitPartly(p) ==
  /\ todo[p] = {} /\ rows[p] # {} /\ ~Rejected(p)
  /\ copies' = [i \in Ids |-> IF i = Min(rows[p]) THEN copies[i] + 1 ELSE copies[i]]
  /\ rows' = [rows EXCEPT ![p] = {}]
  /\ UNCHANGED <<producer, cursor, pel, todo, faults>>

\* The batch commit; one rejected row fails it for all, as does the database.
Commit(p) ==
  /\ todo[p] = {} /\ rows[p] # {} /\ ~Rejected(p)
  /\ copies' = [i \in Ids |-> IF i \in rows[p] THEN copies[i] + 1 ELSE copies[i]]
  /\ rows' = [rows EXCEPT ![p] = {}]
  /\ UNCHANGED <<producer, cursor, pel, todo, faults>>

CommitFails(p) ==
  /\ todo[p] = {} /\ rows[p] # {}
  /\ IF Rejected(p) THEN UNCHANGED faults ELSE Fault
  /\ rows' = [rows EXCEPT ![p] = {}]
  /\ UNCHANGED <<producer, cursor, pel, todo, copies>>

\* The replica stops or crashes and starts again, or Redis fails under xack:
\* the session is closed, what was read stays pending and is never read again.
Abandon(p) ==
  /\ ~Idle(p)
  /\ Fault
  /\ todo' = [todo EXCEPT ![p] = {}]
  /\ rows' = [rows EXCEPT ![p] = {}]
  /\ UNCHANGED <<producer, cursor, pel, copies>>

------------------------------------------------------------------------------
Worker ==
  \/ \E d \in 1..MaxSpeech : AddSpeechDuration(d) \/ EmitUsageFails(d)
  \/ CounterRestarts
  \/ \E k \in Kinds \ {"usage"} : EmitOther(k)

Process(p) ==
  \/ Read(p) \/ Commit(p) \/ CommitFails(p)
  \/ \E i \in Ids : AddRow(p, i) \/ SkipMessage(p, i)

Next ==
  \/ Worker
  \/ \E p \in Procs : Process(p) \/ Abandon(p) \/ (\E i \in Ids : HandlingRaises(p, i))

Spec == Init /\ [][Next]_vars

\* The event loop of every replica keeps running its task.
FairSpec == Spec /\ \A p \in Procs : WF_vars(Process(p))

------------------------------------------------------------------------------
(* Properties. *)

Held(p) == todo[p] \cup rows[p]

\* No event is billed twice, though the replicas share one consumer name,
\* handle the batch before they commit it, and crash at any point of it.
AtMostOnce == \A i \in Ids : copies[i] <= 1

\* No event is in the hands of two replicas, nor of any once it is recorded.
HeldOnce ==
  \A p \in Procs : \A i \in Held(p) :
    copies[i] = 0 /\ \A q \in Procs \ {p} : i \notin Held(q)

\* End to end, from the counter to the ledger: a room is never billed for more
\* speech than was heard in it, across lost events, restarts and failed commits.
Billed == {i \in DOMAIN stream : copies[i] > 0}
Units == [i \in DOMAIN stream |-> stream[i].units]
NeverOverbilled == SumFunctionOnSet(Units, Billed) <= spoken

\* An event the group still has pending was not recorded: reading the pending
\* entries again after a crash would bill nothing twice.
PendingIsUnrecorded == \A i \in pel : copies[i] = 0

\* Together: nothing is billed twice, or could be by reading it once more.
NothingTwice == AtMostOnce /\ HeldOnce /\ PendingIsUnrecorded

\* usage_processor.py:18 "Process usage events from Redis and persist to
\* PostgreSQL": a usage event the processor accepted and acknowledged leaves
\* its session only by being recorded.
AcceptedIsPersisted ==
  [][\A p \in Procs : \A i \in rows[p] \ rows'[p] :
       stream[i].kind = "usage" => copies'[i] > copies[i]]_vars

\* With no failure every usage event reaches the ledger, unless it shared its
\* batch with a row the database rejects: here, when there is no such row.
UsageRecorded ==
  \A i \in Ids :
    (i \in DOMAIN stream /\ stream[i].kind = "usage")
      ~> (copies[i] = 1 \/ faults > 0
            \/ \E j \in DOMAIN stream : stream[j].kind = "rejected")

\* What has become of each event, as UsageLedger sees it.
Status ==
  [i \in Ids |->
    IF i \notin DOMAIN stream THEN "none"
    ELSE IF copies[i] > 1 THEN "double"
    ELSE IF copies[i] = 1 THEN "recorded"
    ELSE IF i > cursor \/ \E p \in Procs : i \in Held(p) THEN "pending"
    ELSE "dropped"]

Ledger == INSTANCE UsageLedger WITH status <- Status

\* The stream and its processors implement the ledger: an event is settled
\* once and for good, and a commit records the whole of its batch.
LedgerSpec == Ledger!Spec
==============================================================================
