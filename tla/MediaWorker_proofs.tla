-------------------------- MODULE MediaWorker_proofs --------------------------
(***************************************************************************)
(* The media worker.  For every number of replicas, batch size and stream: *)
(* metering writes no event twice, no event is in two hands, no room is    *)
(* billed for more speech than it heard, and UsageStream implements        *)
(* UsageLedger.  For every set of workers, rooms and languages: every      *)
(* demand a worker read is answered by that worker, once, and bots replace *)
(* each other.  For every number of utterances, words, pipelines and       *)
(* intents: the cascade speaks in the direction that held, and in order.   *)
(***************************************************************************)
EXTENDS UsageStream, WorkerJobs, SpeechPipeline, SequenceTheorems, FiniteSetTheorems,
        WellFoundedInduction, TLAPS

\* What makes AtMostOnce inductive: an event is recorded, held or pending in
\* the group only after it was delivered, a replica's unhandled messages have
\* no row yet, and nothing recorded is held or pending.
Delivered ==
  /\ cursor <= Len(stream) /\ Len(stream) <= MaxEvents
  /\ \A p \in Procs : \A i \in Held(p) : i <= cursor
  /\ \A i \in Ids : copies[i] > 0 => i <= cursor
  /\ \A p \in Procs : todo[p] \cap rows[p] = {} /\ todo[p] \subseteq pel
  /\ \A i \in pel : i <= cursor

RowsAcknowledged == \A p \in Procs : rows[p] \cap pel = {}

Inv == /\ TypeOK /\ active <= spoken
       /\ Delivered /\ HeldOnce /\ AtMostOnce
       /\ PendingIsUnrecorded /\ RowsAcknowledged

\* The increments counted so far are a natural number.
LEMMA IncrementsNat ==
  ASSUME NEW n \in Nat
  PROVE  n \div Increment \in Nat
BY UsageAssumption

LEMMA InitInv == Init => Inv
BY UsageAssumption DEF Init, Inv, TypeOK, Delivered, HeldOnce, AtMostOnce,
   PendingIsUnrecorded, RowsAcknowledged, Held, Ids, Events

\* The worker touches only what it counts and the end of the stream.
LEMMA EmitInv ==
  ASSUME Inv, UNCHANGED consumer, faults' \in 0..MaxFaults,
         spoken' \in 0..MaxSpeech, active' \in 0..MaxSpeech, reported' \in Nat,
         active' <= spoken',
         stream' = stream \/ (Len(stream) < MaxEvents /\ \E e \in Events : stream' = Append(stream, e))
  PROVE  Inv'
<1>0. stream \in Seq(Events) /\ Len(stream) \in Nat /\ Len(stream) <= MaxEvents /\ MaxEvents \in Nat
  BY UsageAssumption DEF Inv, TypeOK, Delivered
<1>1. /\ stream' \in Seq(Events)
      /\ Len(stream') \in Nat /\ Len(stream') >= Len(stream) /\ Len(stream') <= MaxEvents
  <2>1. CASE stream' = stream
    BY <1>0, <2>1
  <2>2. ASSUME NEW e \in Events, stream' = Append(stream, e), Len(stream) < MaxEvents
        PROVE  /\ stream' \in Seq(Events) /\ Len(stream') \in Nat
               /\ Len(stream') >= Len(stream) /\ Len(stream') <= MaxEvents
    <3>1. stream' \in Seq(Events) /\ Len(stream') = Len(stream) + 1
      BY <1>0, <2>2
    <3> QED  BY <1>0, <2>2, <3>1
  <2> QED  BY <2>1, <2>2
<1>2. TypeOK'
  BY <1>1 DEF Inv, TypeOK, consumer
<1>3. Delivered'
  BY <1>1 DEF Inv, TypeOK, Delivered, Held, consumer, Ids
<1> QED
  BY <1>2, <1>3 DEF Inv, HeldOnce, Held, AtMostOnce, PendingIsUnrecorded, RowsAcknowledged, consumer, Ids

LEMMA CountType ==
  ASSUME TypeOK, active <= spoken, NEW d \in 1..MaxSpeech, Count(d)
  PROVE  /\ spoken' \in 0..MaxSpeech /\ reported' \in Nat
         /\ active' \in 0..MaxSpeech /\ active' <= spoken'
         /\ NewIncrements(d) \in Int
<1>0. MaxSpeech \in Nat /\ active \in Nat /\ spoken \in Nat /\ reported \in Nat /\ d \in Nat
  BY UsageAssumption DEF TypeOK
<1>1. (active + d) \div Increment \in Nat
  BY <1>0, IncrementsNat
<1>2. reported' = (active + d) \div Increment
  <2>1. reported' = reported + ((active + d) \div Increment - reported)
    BY DEF Count, NewIncrements
  <2> QED  BY <2>1, <1>0, <1>1
<1>3. NewIncrements(d) \in Int
  BY <1>0, <1>1 DEF NewIncrements
<1>4. spoken' = spoken + d /\ active' = active + d /\ spoken + d <= MaxSpeech
  BY DEF Count
<1> QED
  BY <1>0, <1>1, <1>2, <1>3, <1>4

LEMMA WorkerInv == Inv /\ Worker => Inv'
<1> SUFFICES ASSUME Inv, Worker PROVE Inv'
  OBVIOUS
<1>0. TypeOK /\ active <= spoken
  BY DEF Inv
<1>f. Fault => faults' \in 0..MaxFaults
  BY <1>0, UsageAssumption DEF Fault, TypeOK
<1>1. ASSUME NEW d \in 1..MaxSpeech, AddSpeechDuration(d)
      PROVE  Inv'
  <2>1. Count(d)
    BY <1>1 DEF AddSpeechDuration
  <2>2. /\ spoken' \in 0..MaxSpeech /\ active' \in 0..MaxSpeech /\ reported' \in Nat
        /\ active' <= spoken' /\ NewIncrements(d) \in Int
    BY <1>0, <2>1, CountType
  <2>3. ASSUME NewIncrements(d) > 0
        PROVE  [kind |-> "usage", units |-> NewIncrements(d) * Increment] \in Events
    <3>1. NewIncrements(d) * Increment \in Nat
      <4>1. Increment \in Nat /\ NewIncrements(d) \in Nat
        BY <2>2, <2>3, UsageAssumption
      <4> HIDE DEF NewIncrements
      <4>2. ASSUME NEW a \in Nat, NEW b \in Nat PROVE a * b \in Nat
        OBVIOUS
      <4> QED  BY <4>1, <4>2
    <3> QED  BY <3>1 DEF Events, Kinds
  <2>4. \/ stream' = stream
        \/ Len(stream) < MaxEvents /\ \E e \in Events : stream' = Append(stream, e)
    <3>1. CASE NewIncrements(d) > 0
      <4>1. stream' = Append(stream, [kind |-> "usage", units |-> NewIncrements(d) * Increment])
        BY <1>1, <3>1 DEF AddSpeechDuration
      <4> QED  BY <4>1, <2>1, <2>3, <3>1 DEF Count
    <3>2. CASE ~(NewIncrements(d) > 0)
      BY <1>1, <3>2 DEF AddSpeechDuration
    <3> QED  BY <3>1, <3>2
  <2>5. UNCHANGED consumer /\ faults' \in 0..MaxFaults
    BY <1>1, <1>0 DEF AddSpeechDuration, TypeOK
  <2> QED  BY <2>2, <2>4, <2>5, EmitInv
<1>2. ASSUME NEW d \in 1..MaxSpeech, EmitUsageFails(d)
      PROVE  Inv'
  <2>1. Count(d) /\ Fault /\ stream' = stream /\ UNCHANGED consumer
    BY <1>2 DEF EmitUsageFails
  <2> QED  BY <1>0, <1>f, <2>1, CountType, EmitInv
<1>3. ASSUME CounterRestarts
      PROVE  Inv'
  <2>1. /\ Fault /\ stream' = stream /\ UNCHANGED consumer
        /\ spoken' = spoken /\ active' = 0 /\ reported' = 0
    BY <1>3 DEF CounterRestarts
  <2>2. spoken' \in 0..MaxSpeech /\ active' \in 0..MaxSpeech /\ reported' \in Nat /\ active' <= spoken'
    BY <1>0, <2>1, UsageAssumption DEF TypeOK
  <2> QED  BY <1>f, <2>1, <2>2, EmitInv
<1>4. ASSUME NEW k \in Kinds, EmitOther(k)
      PROVE  Inv'
  <2>1. /\ Len(stream) < MaxEvents
        /\ stream' = Append(stream, [kind |-> k, units |-> 0])
        /\ UNCHANGED <<spoken, active, reported, consumer, faults>>
    BY <1>4 DEF EmitOther
  <2>2. [kind |-> k, units |-> 0] \in Events
    BY DEF Events
  <2>3. /\ spoken' \in 0..MaxSpeech /\ active' \in 0..MaxSpeech /\ reported' \in Nat
        /\ active' <= spoken' /\ faults' \in 0..MaxFaults /\ UNCHANGED consumer
    BY <1>0, <2>1 DEF TypeOK
  <2> QED  BY <2>1, <2>2, <2>3, EmitInv
<1> QED
  BY <1>1, <1>2, <1>3, <1>4 DEF Worker

LEMMA ReadInv == ASSUME Inv, NEW p \in Procs, Read(p) PROVE Inv'
<1> DEFINE last == IF cursor + BatchSize < Len(stream) THEN cursor + BatchSize ELSE Len(stream)
           new  == (cursor + 1)..last
<1>1. /\ Idle(p) /\ cursor < Len(stream) /\ cursor' = last
      /\ todo' = [todo EXCEPT ![p] = new] /\ pel' = pel \cup new
      /\ rows' = rows /\ copies' = copies /\ faults' = faults
      /\ spoken' = spoken /\ active' = active /\ reported' = reported /\ stream' = stream
  BY DEF Read, producer
<1>2. /\ cursor \in Nat /\ last \in Nat /\ cursor < last /\ last <= Len(stream)
      /\ Len(stream) \in Nat /\ Len(stream) <= MaxEvents
  BY <1>1, UsageAssumption DEF Inv, TypeOK, Delivered
<1>3. new \subseteq Ids /\ \A i \in new : i \in Nat /\ cursor < i /\ i <= last
  BY <1>2, UsageAssumption DEF Ids
<1> HIDE DEF last, new
<1>4. TypeOK'
  BY <1>1, <1>2, <1>3 DEF Inv, TypeOK
<1>5. Delivered'
  BY <1>1, <1>2, <1>3 DEF Inv, TypeOK, Delivered, Held, Idle, Ids
<1>6. HeldOnce'
  BY <1>1, <1>2, <1>3 DEF Inv, TypeOK, Delivered, HeldOnce, Held, Idle, Ids
<1>7. AtMostOnce' /\ PendingIsUnrecorded' /\ RowsAcknowledged'
  BY <1>1, <1>2, <1>3 DEF Inv, TypeOK, Delivered, AtMostOnce, PendingIsUnrecorded, RowsAcknowledged, Held, Ids
<1> QED
  BY <1>1, <1>4, <1>5, <1>6, <1>7 DEF Inv

\* A message leaves the batch, with its row or without.
LEMMA HandleInv ==
  ASSUME Inv, NEW p \in Procs, NEW i \in Ids, Handle(p, i),
         UNCHANGED <<producer, cursor, copies>>, faults' \in 0..MaxFaults,
         rows' = rows \/ rows' = [rows EXCEPT ![p] = @ \cup {i}]
  PROVE  Inv'
<1>1. /\ i \in todo[p] /\ todo' = [todo EXCEPT ![p] = @ \ {i}] /\ pel' = pel \ {i}
      /\ spoken' = spoken /\ active' = active /\ reported' = reported /\ stream' = stream
      /\ cursor' = cursor /\ copies' = copies
  BY DEF Handle, producer
<1>2. TypeOK'
  BY <1>1 DEF Inv, TypeOK
<1>3. \A q \in Procs : Held(q)' \subseteq Held(q)
  BY <1>1 DEF Inv, TypeOK, Held
<1>4. HeldOnce'
  BY <1>1, <1>3 DEF Inv, HeldOnce
<1>5. \A q \in Procs : todo'[q] \cap rows'[q] = {} /\ todo'[q] \subseteq pel' /\ rows'[q] \cap pel' = {}
  <2> SUFFICES ASSUME NEW q \in Procs
               PROVE  todo'[q] \cap rows'[q] = {} /\ todo'[q] \subseteq pel' /\ rows'[q] \cap pel' = {}
    OBVIOUS
  <2>1. i \in Held(p) /\ (q # p => i \notin Held(q))
    BY <1>1 DEF Inv, HeldOnce, Held
  <2>2. todo[q] \cap rows[q] = {} /\ todo[q] \subseteq pel /\ rows[q] \cap pel = {}
    BY DEF Inv, Delivered, RowsAcknowledged
  <2>3. /\ todo'[q] = IF q = p THEN todo[p] \ {i} ELSE todo[q]
        /\ rows'[q] = rows[q] \/ (q = p /\ rows'[q] = rows[q] \cup {i})
    BY <1>1 DEF Inv, TypeOK
  <2> QED
    BY <1>1, <2>1, <2>2, <2>3 DEF Held
<1>6. Delivered' /\ RowsAcknowledged'
  BY <1>1, <1>3, <1>5 DEF Inv, Delivered, RowsAcknowledged
<1> QED
  BY <1>1, <1>2, <1>4, <1>6 DEF Inv, AtMostOnce, PendingIsUnrecorded

LEMMA CommitInv == ASSUME Inv, NEW p \in Procs, Commit(p) PROVE Inv'
<1>1. /\ todo[p] = {} /\ todo' = todo /\ pel' = pel /\ cursor' = cursor /\ faults' = faults
      /\ copies' = [i \in Ids |-> IF i \in rows[p] THEN copies[i] + 1 ELSE copies[i]]
      /\ rows' = [rows EXCEPT ![p] = {}]
      /\ spoken' = spoken /\ active' = active /\ reported' = reported /\ stream' = stream
  BY DEF Commit, producer
<1>2. TypeOK'
  BY <1>1 DEF Inv, TypeOK
<1>3. \A q \in Procs : Held(q)' = IF q = p THEN {} ELSE Held(q)
  BY <1>1 DEF Inv, TypeOK, Held
<1>4. \A i \in Ids : copies'[i] = IF i \in rows[p] THEN 1 ELSE copies[i]
  BY <1>1 DEF Inv, TypeOK, HeldOnce, Held
<1>5. \A i \in Ids : copies'[i] > copies[i] => i \in Held(p) /\ i <= cursor
  BY <1>4 DEF Inv, TypeOK, Delivered, Held
<1>6. AtMostOnce'
  BY <1>4 DEF Inv, AtMostOnce
<1>7. HeldOnce'
  <2> SUFFICES ASSUME NEW q \in Procs, NEW i \in Held(q)'
               PROVE  copies'[i] = 0 /\ \A r \in Procs \ {q} : i \notin Held(r)'
    BY DEF HeldOnce
  <2>1. q # p /\ i \in Held(q)
    BY <1>3
  <2>2. i \in Ids /\ copies[i] = 0 /\ i \notin rows[p] /\ \A r \in Procs \ {q} : i \notin Held(r)
    BY <2>1 DEF Inv, TypeOK, HeldOnce, Held
  <2> QED
    BY <1>3, <1>4, <2>2
<1>8. PendingIsUnrecorded' /\ RowsAcknowledged'
  BY <1>1, <1>4 DEF Inv, TypeOK, PendingIsUnrecorded, RowsAcknowledged
<1>9. Delivered'
  BY <1>1, <1>3, <1>4 DEF Inv, TypeOK, Delivered, Held
<1> QED
  BY <1>1, <1>2, <1>6, <1>7, <1>8, <1>9 DEF Inv

\* A session closed without a commit, whatever was still unhandled.
LEMMA CloseInv ==
  ASSUME Inv, NEW p \in Procs, UNCHANGED <<producer, cursor, pel, copies>>,
         faults' \in 0..MaxFaults,
         rows' = [rows EXCEPT ![p] = {}],
         todo' = todo \/ todo' = [todo EXCEPT ![p] = {}]
  PROVE  Inv'
<1>1. /\ cursor' = cursor /\ pel' = pel /\ copies' = copies
      /\ spoken' = spoken /\ active' = active /\ reported' = reported /\ stream' = stream
  BY DEF producer
<1>2. TypeOK'
  BY <1>1 DEF Inv, TypeOK
<1>3. \A q \in Procs : todo'[q] \subseteq todo[q] /\ rows'[q] \subseteq rows[q]
  BY DEF Inv, TypeOK
<1>4. \A q \in Procs : Held(q)' \subseteq Held(q)
  BY <1>3 DEF Held
<1>5. HeldOnce'
  BY <1>1, <1>4 DEF Inv, HeldOnce
<1>6. Delivered' /\ RowsAcknowledged'
  BY <1>1, <1>3, <1>4 DEF Inv, Delivered, RowsAcknowledged
<1> QED
  BY <1>1, <1>2, <1>5, <1>6 DEF Inv, AtMostOnce, PendingIsUnrecorded

LEMMA NextInv == Inv /\ [Next]_vars => Inv'
<1> SUFFICES ASSUME Inv, [Next]_vars PROVE Inv'
  OBVIOUS
<1>f. faults \in 0..MaxFaults /\ (Fault => faults' \in 0..MaxFaults)
  BY UsageAssumption DEF Fault, Inv, TypeOK
<1>1. CASE Worker
  BY <1>1, WorkerInv
<1>2. ASSUME NEW p \in Procs, Process(p) PROVE Inv'
  <2>1. CASE Read(p)
    BY <2>1, ReadInv
  <2>2. CASE Commit(p)
    BY <2>2, CommitInv
  <2>3. CASE CommitFails(p)
    <3>1. UNCHANGED <<producer, cursor, pel, todo, copies>> /\ rows' = [rows EXCEPT ![p] = {}]
      BY <2>3 DEF CommitFails
    <3>2. faults' \in 0..MaxFaults
      BY <2>3, <1>f DEF CommitFails
    <3> QED  BY <3>1, <3>2, CloseInv
  <2>4. ASSUME NEW i \in Ids, AddRow(p, i) PROVE Inv'
    <3>1. /\ Handle(p, i) /\ rows' = [rows EXCEPT ![p] = @ \cup {i}]
          /\ UNCHANGED <<producer, cursor, copies, faults>>
      BY <2>4 DEF AddRow
    <3>2. faults' \in 0..MaxFaults
      BY <3>1, <1>f
    <3> QED  BY <3>1, <3>2, HandleInv
  <2>5. ASSUME NEW i \in Ids, SkipMessage(p, i) PROVE Inv'
    <3>1. Handle(p, i) /\ UNCHANGED <<producer, cursor, rows, copies, faults>>
      BY <2>5 DEF SkipMessage
    <3>2. faults' \in 0..MaxFaults
      BY <3>1, <1>f
    <3> QED  BY <3>1, <3>2, HandleInv
  <2> QED
    BY <1>2, <2>1, <2>2, <2>3, <2>4, <2>5 DEF Process
<1>3. ASSUME NEW p \in Procs, Abandon(p) PROVE Inv'
  <2>1. /\ UNCHANGED <<producer, cursor, pel, copies>> /\ Fault
        /\ rows' = [rows EXCEPT ![p] = {}] /\ todo' = [todo EXCEPT ![p] = {}]
    BY <1>3 DEF Abandon
  <2> QED  BY <2>1, <1>f, CloseInv
<1>4. ASSUME NEW p \in Procs, NEW i \in Ids, HandlingRaises(p, i) PROVE Inv'
  <2>1. Handle(p, i) /\ UNCHANGED <<producer, cursor, rows, copies>>
    BY <1>4 DEF HandlingRaises
  <2>2. faults' \in 0..MaxFaults
    BY <1>4, <1>f DEF HandlingRaises
  <2> QED  BY <2>1, <2>2, HandleInv
<1>5. CASE UNCHANGED vars
  BY <1>5 DEF vars, producer, consumer, Inv, TypeOK, Delivered, HeldOnce, AtMostOnce,
     PendingIsUnrecorded, RowsAcknowledged, Held
<1> QED
  BY <1>1, <1>2, <1>3, <1>4, <1>5 DEF Next

\* Every reachable state of the metering pipeline satisfies the invariant.
\* What a read delivers is new to everyone: no hand, list or row has it.
THEOREM Invariance == Spec => []Inv
BY InitInv, NextInv, PTL DEF Spec

\* The state of the stream, its group and its processors is well formed.
THEOREM TypeCorrect == Spec => []TypeOK
BY Invariance, PTL DEF Inv

\* No usage event is ever written to the ledger twice.
THEOREM NothingBilledTwice == Spec => []AtMostOnce
BY Invariance, PTL DEF Inv

\* No event is in the hands of two replicas, nor of any once it is recorded.
THEOREM NothingHeldTwice == Spec => []HeldOnce
BY Invariance, PTL DEF Inv

\* What the group has pending after a crash has not been recorded.
THEOREM PendingSafeToRead == Spec => []PendingIsUnrecorded
BY Invariance, PTL DEF Inv

\* The three together: replicas that share one consumer, crash and fail to
\* commit never bill an event twice, nor would one that read it again.
THEOREM NeverTwice == Spec => []NothingTwice
BY NothingBilledTwice, NothingHeldTwice, PendingSafeToRead, PTL DEF NothingTwice

------------------------------------------------------------------------------
(* Sums over finite sets, for NeverOverbilled. SumFunctionOnSet is defined  *)
(* by a recursion over the parts of the set: that it has a solution, and    *)
(* what the sum then is, follow by taking a smallest part where they fail.  *)

\* The order of the numbers, as a set of pairs.
Less == {ss \in Nat \X Nat : ss[1] < ss[2]}

\* Every set of numbers has a least one.
LEMMA Least ==
  ASSUME NEW T, T \subseteq Nat, T # {}
  PROVE  \E x \in T : \A y \in T : x <= y
<1>0. IsWellFoundedOn(Less, Nat)
  BY NatLessThanWellFounded DEF OpToRel, Less
<1>1. PICK x \in T : \A y \in T : <<y, x>> \notin Less
  BY <1>0, WFMin
<1>2. ASSUME NEW y \in T PROVE x <= y
  <2>1. x \in Nat /\ y \in Nat  BY <1>1
  <2>2. <<y, x>> \notin Less  BY <1>1
  <2>3. ~(y < x)  BY <2>1, <2>2 DEF Less
  <2> QED  BY <2>1, <2>3
<1> QED  BY <1>1, <1>2

\* A smallest set, where there is one at all.
LEMMA Smallest ==
  ASSUME NEW T, IsFiniteSet(T), NEW B, B \subseteq SUBSET T, B # {}
  PROVE  \E s \in B : \A t \in B : Cardinality(s) <= Cardinality(t)
<1> DEFINE Sizes == {Cardinality(s) : s \in B}
<1>1. Sizes \subseteq Nat /\ Sizes # {}
  BY FS_Subset, FS_CardinalityType
<1>2. PICK n \in Sizes : \A k \in Sizes : n <= k  BY <1>1, Least
<1>3. PICK s \in B : n = Cardinality(s)  BY <1>2
<1> QED  BY <1>2, <1>3

\* The element a sum takes first, and the recursion of the sums of parts of T.
First(s) == CHOOSE x \in s : TRUE
Adds(F, u, T) == F = [s \in SUBSET T |-> IF s = {} THEN 0 ELSE u[First(s)] + F[s \ {First(s)}]]

\* Without its first element a part is smaller by one.
LEMMA FirstOf ==
  ASSUME NEW T, IsFiniteSet(T), NEW s \in SUBSET T, s # {}
  PROVE  /\ First(s) \in s /\ s \ {First(s)} \in SUBSET T
         /\ Cardinality(s) \in Nat /\ Cardinality(s \ {First(s)}) = Cardinality(s) - 1
<1>1. First(s) \in s  BY DEF First
<1>2. IsFiniteSet(s)  BY FS_Subset
<1> QED  BY <1>1, <1>2, FS_CardinalityType, FS_RemoveElement

\* The recursion has a solution: no size is the least without one.
LEMMA AddsExists ==
  ASSUME NEW u, NEW T, IsFiniteSet(T)
  PROVE  \E F : Adds(F, u, T)
<1> DEFINE Small(n) == {s \in SUBSET T : Cardinality(s) <= n}
           Upto(F, n) == F = [s \in Small(n) |-> IF s = {} THEN 0 ELSE u[First(s)] + F[s \ {First(s)}]]
           Bad == {n \in Nat : ~\E F : Upto(F, n)}
<1>1. ASSUME Bad # {} PROVE FALSE
  <2>1. PICK n \in Bad : \A k \in Bad : n <= k  BY <1>1, Least
  <2>2. CASE n = 0
    <3>1. \A s \in Small(0) : s = {}
      BY FS_Subset, FS_CardinalityType, FS_EmptySet
    <3>2. Upto([s \in Small(0) |-> 0], 0)  BY <3>1
    <3> QED  BY <2>1, <2>2, <3>2
  <2>3. CASE n # 0
    <3>0. n \in Nat /\ \A k \in Bad : n <= k  BY <2>1
    <3>1. n - 1 \in Nat /\ n - 1 \notin Bad
      <4> HIDE DEF Bad
      <4> QED  BY <2>3, <3>0
    <3>2. PICK G : Upto(G, n - 1)
      <4> HIDE DEF Upto
      <4> QED  BY <3>1
    <3> DEFINE F == [s \in Small(n) |-> IF s = {} THEN 0 ELSE u[First(s)] + G[s \ {First(s)}]]
    <3>3. \A s \in Small(n) : s # {} => s \ {First(s)} \in Small(n - 1)
      <4> SUFFICES ASSUME NEW s \in Small(n), s # {} PROVE s \ {First(s)} \in Small(n - 1)
        OBVIOUS
      <4> QED  BY <3>1, FirstOf
    <3>4. \A s \in Small(n - 1) : s \in Small(n)
      BY <3>1, FS_Subset, FS_CardinalityType
    <3>5. \A s \in Small(n - 1) : F[s] = G[s]
      BY <3>2, <3>4
    <3>6. Upto(F, n)  BY <3>3, <3>5
    <3> QED  BY <2>1, <3>6
  <2> QED  BY <2>2, <2>3
<1>2. PICK n : n = Cardinality(T) /\ n \in Nat  BY FS_CardinalityType
<1>3. Small(n) = SUBSET T  BY <1>2, FS_Subset
<1>4. PICK F : Upto(F, n)
  <2>1. n \notin Bad  BY <1>1
  <2> HIDE DEF Upto
  <2> QED  BY <1>2, <2>1
<1> QED  BY <1>3, <1>4 DEF Adds

\* The sum of the library is the solution at the whole set.
LEMMA SumIs ==
  ASSUME NEW u, NEW T, IsFiniteSet(T)
  PROVE  \E F : Adds(F, u, T) /\ SumFunctionOnSet(u, T) = F[T]
<1>1. PICK G : Adds(G, u, T)  BY AddsExists
<1> QED  BY <1>1 DEF Adds, First, SumFunctionOnSet, FoldFunctionOnSet, MapThenFoldSet

\* Functions that agree on S have the same sums of its parts.
LEMMA AddsSame ==
  ASSUME NEW T, IsFiniteSet(T), NEW S \in SUBSET T, NEW u, NEW v, \A i \in S : u[i] = v[i],
         NEW F, Adds(F, u, T), NEW G, Adds(G, v, S)
  PROVE  \A s \in SUBSET S : F[s] = G[s]
<1> DEFINE Bad == {s \in SUBSET S : F[s] # G[s]}
<1>1. ASSUME Bad # {} PROVE FALSE
  <2>1. PICK s \in Bad : \A t \in Bad : Cardinality(s) <= Cardinality(t)
    <3>1. IsFiniteSet(S)  BY FS_Subset
    <3> QED  BY <1>1, <3>1, Smallest
  <2>2. s # {} /\ s \in SUBSET S /\ s \in SUBSET T  BY <2>1 DEF Adds
  <2>3. /\ First(s) \in s /\ Cardinality(s) \in Nat
        /\ Cardinality(s \ {First(s)}) = Cardinality(s) - 1
    BY <2>2, FirstOf
  <2>4. s \ {First(s)} \in SUBSET S /\ s \ {First(s)} \notin Bad
    BY <2>1, <2>2, <2>3
  <2>5. F[s \ {First(s)}] = G[s \ {First(s)}]  BY <2>4
  <2>6. F[s] = u[First(s)] + F[s \ {First(s)}] /\ G[s] = v[First(s)] + G[s \ {First(s)}]
    BY <2>2 DEF Adds
  <2>7. u[First(s)] = v[First(s)]  BY <2>2, <2>3
  <2> QED  BY <2>1, <2>5, <2>6, <2>7
<1> QED  BY <1>1

\* The sum depends on the values of the elements alone.
LEMMA SumSame ==
  ASSUME NEW S, IsFiniteSet(S), NEW u, NEW v, \A i \in S : u[i] = v[i]
  PROVE  SumFunctionOnSet(u, S) = SumFunctionOnSet(v, S)
<1>1. PICK F : Adds(F, u, S) /\ SumFunctionOnSet(u, S) = F[S]  BY SumIs
<1>2. PICK G : Adds(G, v, S) /\ SumFunctionOnSet(v, S) = G[S]  BY SumIs
<1> QED  BY <1>1, <1>2, AddsSame

\* A sum is its first value and the sum of the rest.
LEMMA SumFirst ==
  ASSUME NEW u, NEW S, IsFiniteSet(S)
  PROVE  SumFunctionOnSet(u, S) =
             IF S = {} THEN 0 ELSE u[First(S)] + SumFunctionOnSet(u, S \ {First(S)})
<1>1. PICK F : Adds(F, u, S) /\ SumFunctionOnSet(u, S) = F[S]  BY SumIs
<1>2. PICK R : R = S \ {First(S)}  OBVIOUS
<1>3. R \in SUBSET S /\ IsFiniteSet(R)  BY <1>2, FS_Subset
<1>4. PICK G : Adds(G, u, R) /\ SumFunctionOnSet(u, R) = G[R]  BY <1>3, SumIs
<1>5. F[R] = G[R]  BY <1>1, <1>3, <1>4, AddsSame
<1>6. F[S] = IF S = {} THEN 0 ELSE u[First(S)] + F[R]  BY <1>1, <1>2 DEF Adds
<1> QED  BY <1>1, <1>2, <1>4, <1>5, <1>6

\* A sum of natural numbers is one.
LEMMA SumNat ==
  ASSUME NEW S, IsFiniteSet(S), NEW u, \A i \in S : u[i] \in Nat
  PROVE  SumFunctionOnSet(u, S) \in Nat
<1> DEFINE Bad == {s \in SUBSET S : SumFunctionOnSet(u, s) \notin Nat}
<1>1. ASSUME Bad # {} PROVE FALSE
  <2>1. PICK s \in Bad : \A t \in Bad : Cardinality(s) <= Cardinality(t)  BY <1>1, Smallest
  <2>2. s \in SUBSET S /\ IsFiniteSet(s)  BY <2>1, FS_Subset
  <2>3. s # {} /\ SumFunctionOnSet(u, s) = u[First(s)] + SumFunctionOnSet(u, s \ {First(s)})
    <3>1. SumFunctionOnSet(u, s) =
             IF s = {} THEN 0 ELSE u[First(s)] + SumFunctionOnSet(u, s \ {First(s)})
      BY <2>2, SumFirst
    <3>2. SumFunctionOnSet(u, s) # 0  BY <2>1
    <3> QED  BY <3>1, <3>2
  <2>4. /\ First(s) \in s /\ Cardinality(s) \in Nat
        /\ Cardinality(s \ {First(s)}) = Cardinality(s) - 1 /\ s \ {First(s)} \in SUBSET S
    BY <2>2, <2>3, FirstOf
  <2>5. s \ {First(s)} \notin Bad  BY <2>1, <2>4
  <2>6. SumFunctionOnSet(u, s \ {First(s)}) \in Nat  BY <2>4, <2>5
  <2> QED  BY <2>1, <2>2, <2>3, <2>4, <2>6
<1> QED  BY <1>1

\* Any element may be taken first.
LEMMA SumAdd ==
  ASSUME NEW S, IsFiniteSet(S), NEW u, \A i \in S : u[i] \in Nat, NEW y \in S
  PROVE  SumFunctionOnSet(u, S) = u[y] + SumFunctionOnSet(u, S \ {y})
<1> DEFINE Splits(s, z) == SumFunctionOnSet(u, s) = u[z] + SumFunctionOnSet(u, s \ {z})
           Bad == {s \in SUBSET S : \E z \in s : ~Splits(s, z)}
<1>1. ASSUME Bad # {} PROVE FALSE
  <2>1. PICK s \in Bad : \A t \in Bad : Cardinality(s) <= Cardinality(t)
    <3>1. Bad \subseteq SUBSET S  OBVIOUS
    <3> HIDE DEF Bad
    <3> QED  BY <1>1, <3>1, Smallest
  <2>2. PICK z \in s : ~Splits(s, z)  BY <2>1
  <2>3. s \in SUBSET S /\ IsFiniteSet(s)  BY <2>1, FS_Subset
  <2>4. PICK x : x = First(s)  OBVIOUS
  <2>5. x \in s /\ Splits(s, x)
    <3>1. s # {}  BY <2>2
    <3> QED  BY <2>3, <2>4, <3>1, SumFirst, FirstOf
  <2>6. x # z  BY <2>2, <2>5
  <2>7. PICK a, b, c : a = s \ {x} /\ b = s \ {z} /\ c = s \ {x, z}  OBVIOUS
  <2>8. /\ a \in SUBSET S /\ b \in SUBSET S /\ c \in SUBSET S /\ IsFiniteSet(c)
        /\ z \in a /\ x \in b /\ a \ {z} = c /\ b \ {x} = c
    BY <2>2, <2>3, <2>5, <2>6, <2>7, FS_Subset
  <2>9. /\ Cardinality(s) \in Nat
        /\ Cardinality(a) = Cardinality(s) - 1 /\ Cardinality(b) = Cardinality(s) - 1
    BY <2>2, <2>3, <2>5, <2>7, FS_CardinalityType, FS_RemoveElement
  <2>10. a \notin Bad /\ b \notin Bad
    <3> HIDE DEF Bad
    <3> QED  BY <2>1, <2>9
  <2>11. Splits(a, z) /\ Splits(b, x)
    <3> HIDE DEF Splits
    <3> QED  BY <2>8, <2>10
  <2>12. SumFunctionOnSet(u, c) \in Nat /\ u[x] \in Nat /\ u[z] \in Nat
    <3>1. \A i \in c : u[i] \in Nat  BY <2>8
    <3> QED  BY <2>2, <2>3, <2>5, <2>8, <3>1, SumNat
  <2>13. /\ SumFunctionOnSet(u, s) = u[x] + SumFunctionOnSet(u, a)
         /\ SumFunctionOnSet(u, a) = u[z] + SumFunctionOnSet(u, c)
         /\ SumFunctionOnSet(u, b) = u[x] + SumFunctionOnSet(u, c)
         /\ SumFunctionOnSet(u, s) # u[z] + SumFunctionOnSet(u, b)
    BY <2>2, <2>5, <2>7, <2>8, <2>11
  <2> QED  BY <2>12, <2>13
<1>2. S \notin Bad  BY <1>1
<1> QED  BY <1>2

\* Of natural numbers, a part sums to no more than the whole.
LEMMA SumOfPart ==
  ASSUME NEW S, IsFiniteSet(S), NEW u, \A i \in S : u[i] \in Nat, NEW B \in SUBSET S
  PROVE  SumFunctionOnSet(u, B) <= SumFunctionOnSet(u, S)
<1> DEFINE Bad == {s \in SUBSET S : B \subseteq s /\ ~(SumFunctionOnSet(u, B) <= SumFunctionOnSet(u, s))}
<1>0. \A s \in SUBSET S : IsFiniteSet(s) /\ SumFunctionOnSet(u, s) \in Nat
  BY FS_Subset, SumNat
<1>1. ASSUME Bad # {} PROVE FALSE
  <2>1. PICK s \in Bad : \A t \in Bad : Cardinality(s) <= Cardinality(t)
    <3>1. Bad \subseteq SUBSET S  OBVIOUS
    <3> HIDE DEF Bad
    <3> QED  BY <1>1, <3>1, Smallest
  <2>2. PICK y \in s : y \notin B
    <3>1. s # B /\ B \subseteq s  BY <1>0, <2>1
    <3> QED  BY <3>1
  <2>3. PICK r : r = s \ {y}  OBVIOUS
  <2>4. s \in SUBSET S /\ r \in SUBSET S /\ B \subseteq r /\ IsFiniteSet(s)  BY <1>0, <2>1, <2>2, <2>3
  <2>5. Cardinality(s) \in Nat /\ Cardinality(r) = Cardinality(s) - 1
    BY <2>2, <2>3, <2>4, FS_CardinalityType, FS_RemoveElement
  <2>6. r \notin Bad
    <3> HIDE DEF Bad
    <3> QED  BY <2>1, <2>5
  <2>7. SumFunctionOnSet(u, B) <= SumFunctionOnSet(u, r)  BY <2>4, <2>6
  <2>8. SumFunctionOnSet(u, s) = u[y] + SumFunctionOnSet(u, r)
    <3>1. \A i \in s : u[i] \in Nat  BY <2>4
    <3> QED  BY <2>2, <2>3, <2>4, <3>1, SumAdd
  <2>9. u[y] \in Nat  BY <2>2, <2>4
  <2> QED  BY <1>0, <2>1, <2>4, <2>7, <2>8, <2>9
<1>2. S \notin Bad  BY <1>1
<1> QED  BY <1>2

------------------------------------------------------------------------------
(* A room is never billed for more speech than was heard in it. *)

\* What makes NeverOverbilled inductive: the speech the stream tells of and the
\* speech counted since the last whole increment were all heard.
Counted ==
  /\ reported * Increment <= active
  /\ SumFunctionOnSet(Units, DOMAIN stream) + (active - reported * Increment) <= spoken

\* The units of the events of a sequence, and their sum.
UnitsOf(q) == [i \in DOMAIN q |-> q[i].units]
SpeechIn(q) == SumFunctionOnSet(UnitsOf(q), DOMAIN q)

LEMMA SpeechNat ==
  ASSUME NEW q \in Seq(Events)
  PROVE  /\ IsFiniteSet(DOMAIN q) /\ SpeechIn(q) \in Nat
         /\ \A i \in DOMAIN q : UnitsOf(q)[i] \in Nat
<1>1. DOMAIN q = 1..Len(q) /\ Len(q) \in Nat
  OBVIOUS
<1>2. IsFiniteSet(DOMAIN q)
  BY <1>1, FS_Interval
<1>3. ASSUME NEW i \in DOMAIN q PROVE UnitsOf(q)[i] \in Nat
  <2>1. q[i] \in Events
    BY <1>1
  <2> QED  BY <2>1 DEF UnitsOf, Events
<1> QED  BY <1>2, <1>3, SumNat DEF SpeechIn

\* One event more adds its units.
LEMMA SpeechAppended ==
  ASSUME NEW q \in Seq(Events), NEW e \in Events
  PROVE  SpeechIn(Append(q, e)) = SpeechIn(q) + e.units
<1>1. PICK r : r = Append(q, e)
  OBVIOUS
<1>2. r \in Seq(Events) /\ Len(q) \in Nat /\ Len(r) = Len(q) + 1 /\ r[Len(r)] = e
  BY <1>1
<1>3. /\ Len(r) \in DOMAIN r /\ DOMAIN r \ {Len(r)} = DOMAIN q
      /\ \A i \in DOMAIN q : r[i] = q[i] /\ i \in DOMAIN r
  <2>1. DOMAIN r = 1..Len(r) /\ DOMAIN q = 1..Len(q)
    BY <1>2
  <2>2. \A i \in 1..Len(q) : r[i] = q[i]
    BY <1>1
  <2> QED  BY <1>2, <2>1, <2>2
<1>4. SpeechIn(r) = UnitsOf(r)[Len(r)] + SumFunctionOnSet(UnitsOf(r), DOMAIN q)
  <2>1. PICK u, D : u = UnitsOf(r) /\ D = DOMAIN r
    OBVIOUS
  <2>2. IsFiniteSet(D) /\ \A i \in D : u[i] \in Nat
    BY <1>2, <2>1, SpeechNat
  <2>3. SumFunctionOnSet(u, D) = u[Len(r)] + SumFunctionOnSet(u, D \ {Len(r)})
    BY <1>3, <2>1, <2>2, SumAdd
  <2> QED  BY <1>3, <2>1, <2>3 DEF SpeechIn
<1>5. SumFunctionOnSet(UnitsOf(r), DOMAIN q) = SpeechIn(q)
  <2>1. \A i \in DOMAIN q : UnitsOf(r)[i] = UnitsOf(q)[i]
    BY <1>3 DEF UnitsOf
  <2> QED  BY <2>1, SpeechNat, SumSame DEF SpeechIn
<1>6. UnitsOf(r)[Len(r)] = e.units
  BY <1>2, <1>3 DEF UnitsOf
<1>7. e.units \in Nat
  BY DEF Events
<1> QED  BY <1>1, <1>4, <1>5, <1>6, <1>7, SpeechNat

\* Whole increments are no more than what was counted, and no less than before.
LEMMA WholeIncrements ==
  ASSUME NEW n \in Nat, NEW k \in Nat, k * Increment <= n
  PROVE  /\ (n \div Increment) * Increment <= n
         /\ n \div Increment \in Nat /\ k <= n \div Increment
<1>1. PICK c \in Nat \ {0} : c = Increment
  BY UsageAssumption
<1>2. n \div c \in Nat /\ c * (n \div c) <= n /\ n < c * (n \div c) + c
  OBVIOUS
<1>3. PICK m \in Nat : m = n \div c
  BY <1>2
<1>4. ASSUME k > m PROVE FALSE
  <2>1. k * c >= (m + 1) * c
    BY <1>1, <1>4
  <2> QED  BY <1>1, <1>2, <1>3, <2>1
<1> QED  BY <1>1, <1>2, <1>3, <1>4

\* Units of speech are counted, and whole increments are marked reported.
LEMMA CountUnits ==
  ASSUME Inv, Counted, NEW d \in 1..MaxSpeech, Count(d)
  PROVE  /\ spoken' = spoken + d /\ active' = active + d
         /\ NewIncrements(d) \in Nat
         /\ reported' * Increment = reported * Increment + NewIncrements(d) * Increment
         /\ reported' * Increment <= active'
<1>1. /\ active \in Nat /\ spoken \in Nat /\ reported \in Nat /\ d \in Nat /\ Increment \in Nat
      /\ reported * Increment <= active + d
  BY UsageAssumption DEF Inv, TypeOK, Counted
<1>2. PICK m : m = (active + d) \div Increment
  OBVIOUS
<1>3. m \in Nat /\ reported <= m /\ m * Increment <= active + d
  BY <1>1, <1>2, WholeIncrements
<1>4. NewIncrements(d) = m - reported
  BY <1>2 DEF NewIncrements
<1>5. spoken' = spoken + d /\ active' = active + d /\ reported' = m
  BY <1>1, <1>3, <1>4 DEF Count
<1>6. m * Increment = reported * Increment + (m - reported) * Increment
  BY <1>1, <1>3
<1> QED  BY <1>1, <1>3, <1>4, <1>5, <1>6

\* Each step of the worker keeps the two sides apart; no replica touches them.
LEMMA StepCounted == Inv /\ Counted /\ [Next]_vars => Counted'
<1> SUFFICES ASSUME Inv, Counted, [Next]_vars PROVE Counted'
  OBVIOUS
<1>0. /\ active \in Nat /\ spoken \in Nat /\ reported \in Nat /\ stream \in Seq(Events)
      /\ Increment \in Nat
  BY UsageAssumption DEF Inv, TypeOK
<1>s. PICK s, x : s = SpeechIn(stream) /\ x = reported * Increment
  OBVIOUS
<1>t. s \in Nat /\ x \in Nat /\ x <= active /\ s + (active - x) <= spoken
  <2>1. s \in Nat
    BY <1>0, <1>s, SpeechNat
  <2>2. x \in Nat
    BY <1>0, <1>s
  <2> QED  BY <1>s, <2>1, <2>2 DEF Counted, SpeechIn, UnitsOf, Units
<1>g. SUFFICES /\ reported' * Increment <= active'
               /\ SpeechIn(stream') + (active' - reported' * Increment) <= spoken'
  BY DEF Counted, SpeechIn, UnitsOf, Units
<1>1. ASSUME NEW d \in 1..MaxSpeech, AddSpeechDuration(d)
      PROVE  /\ reported' * Increment <= active'
             /\ SpeechIn(stream') + (active' - reported' * Increment) <= spoken'
  <2>1. PICK w, n : w = NewIncrements(d) /\ n = w * Increment
    OBVIOUS
  <2>2. /\ spoken' = spoken + d /\ active' = active + d
        /\ w \in Nat /\ reported' * Increment = x + n /\ reported' * Increment <= active'
    BY <1>1, <1>s, <2>1, CountUnits DEF AddSpeechDuration
  <2>3. n \in Nat /\ (w = 0 => n = 0)
    BY <1>0, <2>1, <2>2
  <2>4. SpeechIn(stream') = s + n
    <3>1. CASE w = 0
      BY <1>1, <1>s, <1>t, <2>1, <2>3, <3>1 DEF AddSpeechDuration
    <3>2. CASE w # 0
      <4>1. PICK e : e = [kind |-> "usage", units |-> n]
        OBVIOUS
      <4>2. e \in Events /\ e.units = n
        BY <2>3, <4>1 DEF Events, Kinds
      <4>3. stream' = Append(stream, e)
        BY <1>1, <2>1, <2>2, <3>2, <4>1 DEF AddSpeechDuration
      <4> QED  BY <1>0, <1>s, <4>2, <4>3, SpeechAppended
    <3> QED  BY <3>1, <3>2
  <2>5. d \in Nat
    BY UsageAssumption
  <2> QED  BY <1>0, <1>t, <2>2, <2>3, <2>4, <2>5
<1>2. ASSUME NEW d \in 1..MaxSpeech, EmitUsageFails(d)
      PROVE  /\ reported' * Increment <= active'
             /\ SpeechIn(stream') + (active' - reported' * Increment) <= spoken'
  <2>1. PICK w, n : w = NewIncrements(d) /\ n = w * Increment
    OBVIOUS
  <2>2. /\ spoken' = spoken + d /\ active' = active + d
        /\ w \in Nat /\ reported' * Increment = x + n /\ reported' * Increment <= active'
    BY <1>2, <1>s, <2>1, CountUnits DEF EmitUsageFails
  <2>3. n \in Nat /\ d \in Nat
    BY <1>0, <2>1, <2>2, UsageAssumption
  <2>4. SpeechIn(stream') = s
    BY <1>2, <1>s DEF EmitUsageFails
  <2> QED  BY <1>0, <1>t, <2>2, <2>3, <2>4
<1>3. ASSUME CounterRestarts
      PROVE  /\ reported' * Increment <= active'
             /\ SpeechIn(stream') + (active' - reported' * Increment) <= spoken'
  <2>1. active' = 0 /\ reported' = 0 /\ spoken' = spoken /\ SpeechIn(stream') = s
    BY <1>3, <1>s DEF CounterRestarts
  <2>2. reported' * Increment = 0
    BY <1>0, <2>1
  <2> QED  BY <1>0, <1>t, <2>1, <2>2
<1>4. ASSUME NEW k \in Kinds, EmitOther(k)
      PROVE  /\ reported' * Increment <= active'
             /\ SpeechIn(stream') + (active' - reported' * Increment) <= spoken'
  <2>1. PICK e : e = [kind |-> k, units |-> 0]
    OBVIOUS
  <2>2. e \in Events /\ e.units = 0
    BY <2>1 DEF Events
  <2>3. stream' = Append(stream, e) /\ UNCHANGED <<spoken, active, reported>>
    BY <1>4, <2>1 DEF EmitOther
  <2>4. SpeechIn(stream') = s
    BY <1>0, <1>s, <1>t, <2>2, <2>3, SpeechAppended
  <2> QED  BY <1>0, <1>s, <1>t, <2>3, <2>4
<1>5. ASSUME UNCHANGED producer
      PROVE  /\ reported' * Increment <= active'
             /\ SpeechIn(stream') + (active' - reported' * Increment) <= spoken'
  BY <1>5, <1>s, <1>t DEF producer
<1>6. ASSUME ~Worker PROVE UNCHANGED producer
  BY <1>6 DEF Next, Process, Abandon, Read, Commit, CommitFails, AddRow, SkipMessage,
     HandlingRaises, vars
<1> QED  BY <1>1, <1>2, <1>3, <1>4, <1>5, <1>6 DEF Worker

LEMMA InitCounted == Init => Counted
<1> SUFFICES ASSUME Init PROVE Counted
  OBVIOUS
<1>1. active = 0 /\ spoken = 0 /\ reported * Increment = 0 /\ DOMAIN stream = {}
  BY UsageAssumption DEF Init
<1>2. SumFunctionOnSet(Units, {}) = 0
  BY FS_EmptySet, SumFirst
<1> QED  BY <1>1, <1>2 DEF Counted

\* The events on record are some of the stream's: with each of them written
\* once, they bill no more than was heard.
LEMMA CountedBills == Inv /\ Counted => NeverOverbilled
<1> SUFFICES ASSUME Inv, Counted PROVE NeverOverbilled
  OBVIOUS
<1>1. PICK u, D, B : u = Units /\ D = DOMAIN stream /\ B = Billed
  OBVIOUS
<1>2. IsFiniteSet(D) /\ B \in SUBSET D /\ \A i \in D : u[i] \in Nat
  BY <1>1, SpeechNat DEF Inv, TypeOK, Units, UnitsOf, Billed
<1>3. SumFunctionOnSet(u, B) <= SumFunctionOnSet(u, D)
  BY <1>2, SumOfPart
<1>4. SumFunctionOnSet(u, B) \in Nat /\ SumFunctionOnSet(u, D) \in Nat
  BY <1>2, SumNat, FS_Subset
<1>5. reported * Increment \in Nat
  <2>1. reported \in Nat /\ Increment \in Nat
    BY UsageAssumption DEF Inv, TypeOK
  <2> QED  BY <2>1
<1>6. active \in Nat /\ spoken \in Nat
  BY UsageAssumption DEF Inv, TypeOK
<1>7. reported * Increment <= active /\ SumFunctionOnSet(u, D) + (active - reported * Increment) <= spoken
  BY <1>1 DEF Counted
<1>8. PICK x : x = reported * Increment
  OBVIOUS
<1> QED  BY <1>1, <1>3, <1>4, <1>5, <1>6, <1>7, <1>8 DEF NeverOverbilled

\* A room is never billed for more speech than was heard in it, though events
\* are lost, counters restart and commits fail (processing.py and
\* usage_processor.py), for every batch, increment, replica and stream.
THEOREM BilledAtMostSpoken == Spec => []NeverOverbilled
<1>1. Init => Inv /\ Counted
  BY InitInv, InitCounted
<1>2. Inv /\ Counted /\ [Next]_vars => (Inv /\ Counted)'
  BY NextInv, StepCounted
<1>3. Inv /\ Counted => NeverOverbilled
  BY CountedBills
<1> QED  BY <1>1, <1>2, <1>3, PTL DEF Spec

------------------------------------------------------------------------------
(* UsageStream implements UsageLedger. *)

LEMMA StatusValue ==
  ASSUME NEW i \in Ids
  PROVE  Status[i] = IF i \notin DOMAIN stream THEN "none"
                     ELSE IF copies[i] > 1 THEN "double"
                     ELSE IF copies[i] = 1 THEN "recorded"
                     ELSE IF i > cursor \/ \E p \in Procs : i \in Held(p) THEN "pending"
                     ELSE "dropped"
BY DEF Status

LEMMA HeldIsPending ==
  ASSUME Inv, NEW p \in Procs, NEW i \in Held(p)
  PROVE  i \in Ids /\ Status[i] = "pending"
<1>1. i \in Ids /\ i <= cursor /\ cursor <= Len(stream) /\ copies[i] = 0
  BY DEF Inv, TypeOK, Delivered, HeldOnce, Held
<1>2. i \in DOMAIN stream
  BY <1>1, UsageAssumption DEF Inv, TypeOK, Ids
<1> QED
  BY <1>1, <1>2, StatusValue

LEMMA InitRefines == Init => Ledger!Init
<1> SUFFICES ASSUME Init PROVE Status = [i \in Ids |-> "none"]
  BY DEF Ledger!Init
<1>1. \A i \in Ids : Status[i] = "none"
  BY StatusValue DEF Init
<1> QED
  BY <1>1 DEF Status

\* Nothing the ledger sees changes when the stream, the cursor, the rows
\* committed and what the replicas hold together stay the same.
LEMMA Stutters ==
  ASSUME stream' = stream, cursor' = cursor, copies' = copies,
         \A p \in Procs : Held(p)' = Held(p)
  PROVE  Status' = Status
BY DEF Status

\* An appended event becomes pending.
LEMMA EmitRefines ==
  ASSUME Inv, UNCHANGED consumer, Len(stream) < MaxEvents,
         NEW e \in Events, stream' = Append(stream, e)
  PROVE  Ledger!Next
<1> DEFINE n == Len(stream) + 1
<1>1. /\ n \in Ids /\ Len(stream) \in Nat /\ DOMAIN stream = 1..Len(stream) /\ DOMAIN stream' = 1..n
      /\ cursor < n /\ copies[n] = 0
  BY UsageAssumption DEF Inv, TypeOK, Delivered, Ids
<1>2. cursor' = cursor /\ copies' = copies /\ \A p \in Procs : Held(p)' = Held(p)
  BY DEF consumer, Held
<1>3. Status[n] = "none"
  BY <1>1, StatusValue
<1>4. \A i \in Ids : Status'[i] = IF i = n THEN "pending" ELSE Status[i]
  BY <1>1, <1>2 DEF Status, Ids
<1>5. Status' = Ledger!With({n}, "pending")
  BY <1>4 DEF Ledger!With, Status
<1> QED
  BY <1>1, <1>3, <1>5 DEF Ledger!Next, Ledger!Emit

\* What the replicas no longer hold, neither committed nor handed on, is dropped.
LEMMA DropRefines ==
  ASSUME Inv, UNCHANGED <<stream, cursor, copies>>,
         NEW S \in SUBSET Ids, S # {}, NEW p \in Procs, S \subseteq Held(p),
         Held(p)' = Held(p) \ S, \A q \in Procs \ {p} : Held(q)' = Held(q)
  PROVE  Ledger!Next
<1>1. \A i \in S : Status[i] = "pending" /\ i \in DOMAIN stream /\ i <= cursor /\ copies[i] = 0
                   /\ \A q \in Procs : i \notin Held(q)'
  <2> SUFFICES ASSUME NEW i \in S
               PROVE  Status[i] = "pending" /\ i \in DOMAIN stream /\ i <= cursor /\ copies[i] = 0
                        /\ \A q \in Procs : i \notin Held(q)'
    OBVIOUS
  <2>1. Status[i] = "pending"
    BY HeldIsPending
  <2>2. i <= cursor /\ copies[i] = 0 /\ \A q \in Procs \ {p} : i \notin Held(q)
    BY DEF Inv, Delivered, HeldOnce
  <2>3. i \in DOMAIN stream
    BY <2>2, UsageAssumption DEF Inv, TypeOK, Delivered, Ids
  <2> QED
    BY <2>1, <2>2, <2>3
<1>2. \A i \in Ids \ S : \A q \in Procs : i \in Held(q)' <=> i \in Held(q)
  OBVIOUS
<1>3. \A i \in Ids : Status'[i] = IF i \in S THEN "dropped" ELSE Status[i]
  <2> SUFFICES ASSUME NEW i \in Ids PROVE Status'[i] = IF i \in S THEN "dropped" ELSE Status[i]
    OBVIOUS
  <2>1. CASE i \in S
    <3>1. i \in Nat /\ cursor \in Nat
      BY DEF Inv, TypeOK, Ids
    <3>2. /\ i \in DOMAIN stream' /\ ~(copies'[i] > 1) /\ copies'[i] # 1 /\ ~(i > cursor')
          /\ ~ \E q \in Procs : i \in Held(q)'
      BY <1>1, <2>1, <3>1
    <3> QED  BY <2>1, <3>2 DEF Status
  <2>2. CASE i \notin S
    BY <1>2, <2>2 DEF Status
  <2> QED  BY <2>1, <2>2
<1>4. Status' = Ledger!With(S, "dropped")
  BY <1>3 DEF Ledger!With, Status
<1> QED
  BY <1>1, <1>4 DEF Ledger!Next, Ledger!Drop, Ledger!Pending

LEMMA CommitRefines ==
  ASSUME Inv, NEW p \in Procs, Commit(p)
  PROVE  Ledger!Next
<1>1. /\ todo[p] = {} /\ rows[p] # {} /\ todo' = todo /\ cursor' = cursor /\ stream' = stream
      /\ copies' = [i \in Ids |-> IF i \in rows[p] THEN copies[i] + 1 ELSE copies[i]]
      /\ rows' = [rows EXCEPT ![p] = {}]
  BY DEF Commit, producer
<1>2. Held(p) = rows[p] /\ \A q \in Procs : Held(q)' = IF q = p THEN {} ELSE Held(q)
  BY <1>1 DEF Inv, TypeOK, Held
<1>3. rows[p] \subseteq Ids /\ \A i \in rows[p] : Status[i] = "pending" /\ copies[i] = 0 /\ i \in DOMAIN stream
  <2> SUFFICES ASSUME NEW i \in rows[p]
               PROVE  i \in Ids /\ Status[i] = "pending" /\ copies[i] = 0 /\ i \in DOMAIN stream
    OBVIOUS
  <2>1. i \in Ids /\ Status[i] = "pending"
    BY <1>2, HeldIsPending
  <2>2. copies[i] = 0
    BY <1>2 DEF Inv, HeldOnce
  <2>3. i \in DOMAIN stream
    BY <1>2, <2>1, UsageAssumption DEF Inv, TypeOK, Delivered, Ids
  <2> QED  BY <2>1, <2>2, <2>3
<1>4. \A i \in Ids : Status'[i] = IF i \in rows[p] THEN "recorded" ELSE Status[i]
  <2> SUFFICES ASSUME NEW i \in Ids PROVE Status'[i] = IF i \in rows[p] THEN "recorded" ELSE Status[i]
    OBVIOUS
  <2>1. CASE i \in rows[p]
    <3>1. copies'[i] = 1 /\ i \in DOMAIN stream'
      BY <1>1, <1>3, <2>1
    <3> QED  BY <2>1, <3>1 DEF Status
  <2>2. CASE i \notin rows[p]
    <3>1. copies'[i] = copies[i] /\ \A q \in Procs : i \in Held(q)' <=> i \in Held(q)
      BY <1>1, <1>2, <2>2
    <3> QED  BY <1>1, <2>2, <3>1 DEF Status
  <2> QED  BY <2>1, <2>2
<1>5. Status' = Ledger!With(rows[p], "recorded")
  BY <1>4 DEF Ledger!With, Status
<1> QED
  BY <1>1, <1>3, <1>5 DEF Ledger!Next, Ledger!Record, Ledger!Pending

\* A read moves the cursor past what it puts in the reader's hands.
LEMMA ReadStutters ==
  ASSUME Inv, NEW p \in Procs, Read(p)
  PROVE  Status' = Status
<1> DEFINE last == IF cursor + BatchSize < Len(stream) THEN cursor + BatchSize ELSE Len(stream)
           new  == (cursor + 1)..last
<1>1. /\ Idle(p) /\ cursor < Len(stream) /\ cursor' = last
      /\ todo' = [todo EXCEPT ![p] = new]
      /\ rows' = rows /\ copies' = copies /\ stream' = stream
  BY DEF Read, producer
<1>2. cursor \in Nat /\ last \in Nat /\ cursor < last
  BY <1>1, UsageAssumption DEF Inv, TypeOK, Delivered
<1>3. \A i \in new : i \in Nat /\ cursor < i /\ i <= last
  BY <1>2
<1>4. \A i \in Nat : cursor < i /\ i <= last => i \in new
  BY <1>2
<1> HIDE DEF last, new
<1>5. Held(p)' = new /\ Held(p) = {} /\ \A q \in Procs \ {p} : Held(q)' = Held(q)
  BY <1>1 DEF Inv, TypeOK, Held, Idle
<1>6. \A i \in Ids : (i > cursor' \/ \E q \in Procs : i \in Held(q)')
                     <=> (i > cursor \/ \E q \in Procs : i \in Held(q))
  <2> SUFFICES ASSUME NEW i \in Ids
               PROVE  (i > cursor' \/ \E q \in Procs : i \in Held(q)')
                        <=> (i > cursor \/ \E q \in Procs : i \in Held(q))
    OBVIOUS
  <2>1. i \in Nat
    BY DEF Ids
  <2>2. CASE i \in new
    <3>1. i > cursor
      BY <1>2, <1>3, <2>1, <2>2
    <3> QED  BY <1>5, <2>2, <3>1
  <2>3. CASE i \notin new
    <3>1. i > cursor' <=> i > cursor
      BY <1>1, <1>2, <1>4, <2>1, <2>3
    <3>2. \A q \in Procs : i \in Held(q)' <=> i \in Held(q)
      BY <1>5, <2>3
    <3> QED  BY <3>1, <3>2
  <2> QED  BY <2>2, <2>3
<1> QED
  BY <1>1, <1>6 DEF Status

LEMMA HandleDrops ==
  ASSUME Inv, NEW p \in Procs, NEW i \in Ids, Handle(p, i),
         UNCHANGED <<producer, cursor, rows, copies>>
  PROVE  Ledger!Next
<1>1. /\ i \in todo[p] /\ todo' = [todo EXCEPT ![p] = @ \ {i}] /\ rows' = rows
      /\ UNCHANGED <<stream, cursor, copies>>
  BY DEF Handle, producer
<1>2. i \notin rows[p]
  BY <1>1 DEF Inv, Delivered
<1> DEFINE S == {i}
<1>3. /\ S \in SUBSET Ids /\ S # {}
      /\ S \subseteq Held(p) /\ Held(p)' = Held(p) \ S
      /\ \A q \in Procs \ {p} : Held(q)' = Held(q)
  BY <1>1, <1>2 DEF Inv, TypeOK, Held
<1> HIDE DEF S
<1> QED
  BY <1>1, <1>3, DropRefines

LEMMA WorkerRefines == Inv /\ Worker => Ledger!Next \/ Status' = Status
<1> SUFFICES ASSUME Inv, Worker PROVE Ledger!Next \/ Status' = Status
  OBVIOUS
<1>s. UNCHANGED <<stream, consumer>> => Status' = Status
  BY Stutters DEF consumer, Held
<1>1. ASSUME NEW d \in 1..MaxSpeech, AddSpeechDuration(d)
      PROVE  Ledger!Next \/ Status' = Status
  <2>1. Count(d) /\ UNCHANGED consumer
    BY <1>1 DEF AddSpeechDuration
  <2>2. CASE NewIncrements(d) > 0
    <3>1. stream' = Append(stream, [kind |-> "usage", units |-> NewIncrements(d) * Increment])
      BY <1>1, <2>2 DEF AddSpeechDuration
    <3>2. [kind |-> "usage", units |-> NewIncrements(d) * Increment] \in Events
      <4>1. NewIncrements(d) \in Nat /\ Increment \in Nat
        BY <2>1, <2>2, CountType, UsageAssumption DEF Inv
      <4>2. ASSUME NEW a \in Nat, NEW b \in Nat PROVE a * b \in Nat
        OBVIOUS
      <4> QED  BY <4>1, <4>2 DEF Events, Kinds
    <3> QED  BY <2>1, <3>1, <3>2, EmitRefines DEF Count
  <2>3. CASE ~(NewIncrements(d) > 0)
    BY <1>1, <2>1, <2>3, <1>s DEF AddSpeechDuration
  <2> QED  BY <2>2, <2>3
<1>2. ASSUME NEW d \in 1..MaxSpeech, EmitUsageFails(d) PROVE Status' = Status
  BY <1>2, <1>s DEF EmitUsageFails
<1>3. ASSUME CounterRestarts PROVE Status' = Status
  BY <1>3, <1>s DEF CounterRestarts
<1>4. ASSUME NEW k \in Kinds, EmitOther(k) PROVE Ledger!Next
  <2>1. /\ Len(stream) < MaxEvents /\ UNCHANGED consumer
        /\ stream' = Append(stream, [kind |-> k, units |-> 0])
    BY <1>4 DEF EmitOther
  <2>2. [kind |-> k, units |-> 0] \in Events
    BY DEF Events
  <2> QED  BY <2>1, <2>2, EmitRefines
<1> QED
  BY <1>1, <1>2, <1>3, <1>4 DEF Worker

LEMMA StepRefines == Inv /\ [Next]_vars => [Ledger!Next]_Status
<1> SUFFICES ASSUME Inv, [Next]_vars PROVE Ledger!Next \/ Status' = Status
  OBVIOUS
<1>1. CASE Worker
  BY <1>1, WorkerRefines
<1>2. ASSUME NEW p \in Procs, Process(p) PROVE Ledger!Next \/ Status' = Status
  <2>1. CASE Read(p)
    BY <2>1, ReadStutters
  <2>2. CASE Commit(p)
    BY <2>2, CommitRefines
  <2>3. CASE CommitFails(p)
    <3>1. /\ UNCHANGED <<stream, cursor, copies>> /\ todo' = todo
          /\ todo[p] = {} /\ rows[p] # {} /\ rows' = [rows EXCEPT ![p] = {}]
      BY <2>3 DEF CommitFails, producer
    <3>2. /\ rows[p] \in SUBSET Ids /\ rows[p] \subseteq Held(p) /\ Held(p)' = Held(p) \ rows[p]
          /\ \A q \in Procs \ {p} : Held(q)' = Held(q)
      BY <3>1 DEF Inv, TypeOK, Held
    <3> QED  BY <3>1, <3>2, DropRefines
  <2>4. ASSUME NEW i \in Ids, AddRow(p, i) PROVE Status' = Status
    <3>1. /\ i \in todo[p] /\ todo' = [todo EXCEPT ![p] = @ \ {i}]
          /\ rows' = [rows EXCEPT ![p] = @ \cup {i}]
          /\ stream' = stream /\ cursor' = cursor /\ copies' = copies
      BY <2>4 DEF AddRow, Handle, producer
    <3>2. \A q \in Procs : Held(q)' = Held(q)
      BY <3>1 DEF Inv, TypeOK, Held
    <3> QED  BY <3>1, <3>2, Stutters
  <2>5. ASSUME NEW i \in Ids, SkipMessage(p, i) PROVE Ledger!Next
    BY <2>5, HandleDrops DEF SkipMessage
  <2> QED
    BY <1>2, <2>1, <2>2, <2>3, <2>4, <2>5 DEF Process
<1>3. ASSUME NEW p \in Procs, Abandon(p) PROVE Ledger!Next
  <2>1. /\ UNCHANGED <<stream, cursor, copies>> /\ ~Idle(p)
        /\ rows' = [rows EXCEPT ![p] = {}] /\ todo' = [todo EXCEPT ![p] = {}]
    BY <1>3 DEF Abandon, producer
  <2>2. /\ Held(p) # {} /\ Held(p) \in SUBSET Ids /\ Held(p)' = Held(p) \ Held(p)
        /\ \A q \in Procs \ {p} : Held(q)' = Held(q)
    BY <2>1 DEF Inv, TypeOK, Held, Idle
  <2> QED  BY <2>1, <2>2, DropRefines
<1>4. ASSUME NEW p \in Procs, NEW i \in Ids, HandlingRaises(p, i) PROVE Ledger!Next
  BY <1>4, HandleDrops DEF HandlingRaises
<1>5. CASE UNCHANGED vars
  BY <1>5, Stutters DEF vars, producer, consumer, Held
<1> QED
  BY <1>1, <1>2, <1>3, <1>4, <1>5 DEF Next

\* The stream and its processors implement the ledger: every event is settled
\* at most once and for good, and a commit records its whole batch.
THEOREM ImplementsLedger == Spec => LedgerSpec
<1>1. Inv /\ [Next]_vars => [Ledger!Next]_(Ledger!vars)
  BY StepRefines DEF Ledger!vars
<1> QED
  BY Invariance, InitRefines, <1>1, PTL DEF Spec, LedgerSpec, Ledger!Spec

-----------------------------------------------------------------------------
\* The job stream and the workers that read it.

USE WorkerAssumption

\* What the API puts on the stream, and where a worker's job loop can be.
JobRecords ==
    [type : {"bot_start"}, room : Rooms, langs : Seq(Languages)]
    \cup [type : {"language_demand"}, room : Broadcasts, langs : {<<l>> : l \in Languages}]
    \cup [type : {"none"}]
BotRecords == [worker : Workers, job : Nat, room : Conversations]
Waiting == [at : {"idle", "xread"}]
Speaking == [at : {"adding", "track"}, job : Nat, todo : Seq(Languages)]
Hosting == [at : {"list", "evict", "connect", "serving"}, job : Nat, seen : SUBSET BotRecords]
PipelineRecords == [worker : Workers, of : Nat, lang : Languages]
AddRecords == [p : PipelineRecords, job : Nat]

LoopTypes ==
    /\ jobs \in Seq(JobRecords) /\ bots \subseteq BotRecords
    /\ lastJob \in [Workers -> [read : Nat, first : Nat]]
    /\ doing \in [Workers -> Waiting \cup Speaking \cup Hosting]
    /\ activeRooms \in [Workers -> [Broadcasts -> Nat]]
    /\ adds \subseteq AddRecords /\ started \subseteq AddRecords

\* A worker has read no further than the stream goes; the job it works on is one
\* of those it has read.
Placed(w) ==
    /\ lastJob[w].read <= Len(jobs) /\ lastJob[w].first <= lastJob[w].read
    /\ doing[w] \in Speaking =>
         /\ doing[w].job = lastJob[w].read /\ doing[w].job >= 1
         /\ jobs[doing[w].job].type \in {"bot_start", "language_demand"}
         /\ jobs[doing[w].job].room \in Broadcasts
         /\ doing[w].at = "track" => doing[w].todo # << >>
    /\ doing[w] \in Hosting =>
         /\ doing[w].job = lastJob[w].read /\ doing[w].job >= 1
         /\ jobs[doing[w].job].type = "bot_start"
         /\ jobs[doing[w].job].room \in Conversations
Position == \A w \in Workers : Placed(w)

LoopInv == LoopTypes /\ Position

\* In a room where no two bots met one worker at a time is about to enter, and
\* there is one bot: what the worker has listed, or none once it has evicted them.
Seats ==
    \A r \in Conversations \ met :
        /\ \A v, w \in Entering(r) : v = w
        /\ \A b, c \in bots : b.room = r /\ c.room = r => b = c
        /\ \A w \in Entering(r), b \in bots : b.room = r =>
             doing[w].at = "evict" /\ b \in doing[w].seen

LEMMA JobKinds ==
    /\ \A s : s \in Waiting => s.at \in {"idle", "xread"}
    /\ \A s : s \in Speaking => s.at \in {"adding", "track"} /\ s.job \in Nat /\ s.todo \in Seq(Languages)
    /\ \A s : s \in Hosting => s.at \in {"list", "evict", "connect", "serving"} /\ s.job \in Nat /\ s.seen \subseteq BotRecords
    /\ Resting \in Waiting /\ Resting.at = "idle" /\ [at |-> "xread"] \in Waiting
BY DEF Waiting, Speaking, Hosting, Resting

LEMMA InitLoop == WorkerInit => LoopInv /\ Seats
<1> SUFFICES ASSUME WorkerInit PROVE LoopInv /\ Seats
  OBVIOUS
<1>1. LoopTypes
  BY JobKinds DEF WorkerInit, LoopTypes, Fresh, NoJob
<1>2. \A w \in Workers : doing[w] = Resting /\ lastJob[w].read = 0 /\ lastJob[w].first = 0
  BY DEF WorkerInit, Fresh, NoJob
<1>3. Len(jobs) = 0
  BY DEF WorkerInit
<1>4. Position
  BY <1>2, <1>3, JobKinds DEF Position, Placed
<1>5. Seats
  BY <1>2, JobKinds DEF WorkerInit, Seats, Entering
<1> QED  BY <1>1, <1>4, <1>5 DEF LoopInv

\* The stream only grows.
LEMMA Enqueued ==
    ASSUME LoopInv, NEW job \in JobRecords, Enqueue(job)
    PROVE  /\ jobs' \in Seq(JobRecords) /\ Len(jobs) <= Len(jobs') /\ Len(jobs) \in Nat
           /\ \A k \in 1..Len(jobs) : jobs'[k] = jobs[k]
BY AppendProperties, LenProperties DEF Enqueue, LoopInv, LoopTypes

Grows ==
    /\ Len(jobs) <= Len(jobs')
    /\ \A k \in 1..Len(jobs) : jobs'[k] = jobs[k]

\* Nobody enters a room and nothing is forgotten: the seats stay.
LEMMA SeatsStay ==
    ASSUME LoopInv, Seats, Grows, bots' \subseteq bots, met \subseteq met',
           \A w \in Workers : doing'[w].at \in {"evict", "connect"} => doing'[w] = doing[w]
    PROVE  Seats'
<1>1. \A w \in Workers : doing[w].at \in {"evict", "connect"} =>
        doing[w].job \in 1..Len(jobs) /\ jobs'[doing[w].job] = jobs[doing[w].job]
  <2> SUFFICES ASSUME NEW w \in Workers, doing[w].at \in {"evict", "connect"}
               PROVE  doing[w].job \in 1..Len(jobs)
    BY DEF Grows
  <2>1. doing[w] \in Hosting
    BY JobKinds DEF LoopInv, LoopTypes
  <2>2. doing[w].job \in Nat /\ doing[w].job >= 1 /\ doing[w].job <= Len(jobs)
    BY <2>1, JobKinds DEF LoopInv, Position, Placed
  <2> QED  BY <2>2, LenProperties DEF LoopInv, LoopTypes
<1>2. \A r \in Conversations : Entering(r)' \subseteq Entering(r)
  BY <1>1 DEF Entering
<1>3. \A r \in Conversations : \A w \in Entering(r)' : doing'[w] = doing[w]
  BY DEF Entering
<1> QED  BY <1>2, <1>3 DEF Seats

\* A worker's job loop moves on to s; nobody else's does.
LEMMA Moves ==
    ASSUME LoopInv, NEW w \in Workers, NEW s \in Waiting \cup Speaking \cup Hosting, At(w, s)
    PROVE  /\ doing' \in [Workers -> Waiting \cup Speaking \cup Hosting]
           /\ doing'[w] = s /\ \A v \in Workers \ {w} : doing'[v] = doing[v]
BY DEF At, LoopInv, LoopTypes

\* The API.
ApiStep ==
    \/ \E r \in Broadcasts, langs \in LanguageLists : StartMediaBot(r, langs)
    \/ \E r \in Broadcasts, l \in Languages : ChangeListenerLanguage(r, l)
    \/ \E r \in Conversations : StartMediaBot(r, <<>>)
    \/ \E r \in Rooms : WorkerWatchdog(r) \/ EndRoom(r)

LEMMA ApiChanges ==
    ASSUME LoopInv, ApiStep
    PROVE  /\ jobs' \in Seq(JobRecords) /\ Grows /\ Len(jobs') \in Nat
           /\ UNCHANGED <<lastJob, doing, broadcasting, failed, met>> /\ bots' \subseteq bots
<1>0. ASSUME NEW r \in Broadcasts, NEW langs \in LanguageLists, StartMediaBot(r, langs)
      PROVE  \E j \in JobRecords : Enqueue(j)
  <2>1. PICK n \in 0..MaxLangs : langs \in [1..n -> Languages]
    BY DEF LanguageLists
  <2>2. langs \in Seq(Languages) /\ r \in Rooms
    BY <2>1 DEF Rooms
  <2>3. [type |-> "bot_start", room |-> r, langs |-> langs] \in JobRecords
    BY <2>2 DEF JobRecords
  <2> QED  BY <1>0, <2>3 DEF StartMediaBot
<1>1. ASSUME NEW r \in Broadcasts, NEW l \in Languages, ChangeListenerLanguage(r, l)
      PROVE  \E j \in JobRecords : Enqueue(j)
  <2>1. [type |-> "language_demand", room |-> r, langs |-> <<l>>] \in JobRecords
    BY DEF JobRecords
  <2> QED  BY <1>1, <2>1 DEF ChangeListenerLanguage
<1>2. ASSUME NEW r \in Conversations, StartMediaBot(r, <<>>)
      PROVE  \E j \in JobRecords : Enqueue(j)
  <2>1. << >> \in Seq(Languages) /\ r \in Rooms
    BY DEF Rooms
  <2>2. [type |-> "bot_start", room |-> r, langs |-> << >>] \in JobRecords
    BY <2>1 DEF JobRecords
  <2> QED  BY <1>2, <2>2 DEF StartMediaBot
<1>3. ASSUME NEW r \in Rooms, WorkerWatchdog(r)
      PROVE  \E j \in JobRecords : Enqueue(j)
  BY <1>3 DEF WorkerWatchdog, JobRecords
<1>4. (\E j \in JobRecords : Enqueue(j)) \/ jobs' = jobs
  BY <1>0, <1>1, <1>2, <1>3 DEF ApiStep, EndRoom
<1>5. jobs' \in Seq(JobRecords) /\ Grows
  <2>1. CASE jobs' = jobs
    BY <2>1, LenProperties DEF Grows, LoopInv, LoopTypes
  <2> QED  BY <1>4, <2>1, Enqueued DEF Grows
<1> QED
  BY <1>5, LenProperties DEF ApiStep, StartMediaBot, ChangeListenerLanguage, WorkerWatchdog, EndRoom, serving

LEMMA ApiLoop == ASSUME LoopInv, ApiStep PROVE LoopInv'
<1>1. LoopTypes'
  BY ApiChanges DEF LoopInv, LoopTypes, broadcasting
<1>2. \A w \in Workers : doing[w] \in Speaking \cup Hosting =>
        jobs'[doing[w].job] = jobs[doing[w].job]
  <2> SUFFICES ASSUME NEW w \in Workers, doing[w] \in Speaking \cup Hosting
               PROVE  doing[w].job \in 1..Len(jobs)
    BY ApiChanges DEF Grows
  <2>1. doing[w].job \in Nat /\ doing[w].job = lastJob[w].read /\ doing[w].job >= 1
    BY JobKinds DEF LoopInv, Position, Placed
  <2> QED  BY <2>1, LenProperties DEF LoopInv, LoopTypes, Position, Placed
<1>3. Position'
  <2>1. Len(jobs) \in Nat /\ Len(jobs') \in Nat /\ \A w \in Workers : lastJob[w].read \in Nat
    BY ApiChanges, LenProperties DEF LoopInv, LoopTypes
  <2> QED  BY <1>2, <2>1, ApiChanges DEF LoopInv, Position, Placed, Grows
<1> QED  BY <1>1, <1>3 DEF LoopInv

\* The job loop between two jobs.
ReadStep ==
    \E w \in Workers : XReadBlocks(w) \/ XReadTimesOut(w) \/ \E joined \in BOOLEAN : XRead(w, joined)

\* What the handler of a job begins with: its place is the job's.
LEMMA JobBegins ==
    ASSUME LoopInv, NEW w \in Workers, NEW k \in 1..Len(jobs), NEW joined \in BOOLEAN, ProcessJob(w, k, joined)
    PROVE  \E s \in Waiting \cup Speaking \cup Hosting :
             /\ At(w, s)
             /\ s \in Speaking => /\ s.at = "adding" /\ s.job = k /\ s.todo = jobs[k].langs
                                  /\ jobs[k].type \in {"bot_start", "language_demand"}
                                  /\ jobs[k].room \in Broadcasts
             /\ s \in Hosting => /\ s.at = "list" /\ s.job = k
                                 /\ jobs[k].type = "bot_start" /\ jobs[k].room \in Conversations
<1>1. jobs[k] \in JobRecords
  BY ElementOfSeq DEF LoopInv, LoopTypes
<1>2. CASE At(w, Resting)
  BY <1>2, JobKinds
<1>3. CASE /\ At(w, [at |-> "adding", job |-> k, todo |-> jobs[k].langs])
           /\ jobs[k].type \in {"bot_start", "language_demand"} /\ jobs[k].room \in Broadcasts
  <2> DEFINE s == [at |-> "adding", job |-> k, todo |-> jobs[k].langs]
  <2>1. jobs[k].langs \in Seq(Languages)
    <3>1. \A l \in Languages : <<l>> \in Seq(Languages)
      OBVIOUS
    <3> QED  BY <1>1, <1>3, <3>1 DEF JobRecords
  <2>2. s \in Speaking /\ s \notin Hosting /\ s.at = "adding" /\ s.job = k /\ s.todo = jobs[k].langs
    BY <2>1, JobKinds DEF Speaking
  <2> QED  BY <1>3, <2>2
<1>4. CASE /\ At(w, [at |-> "list", job |-> k, seen |-> {}])
           /\ jobs[k].type = "bot_start" /\ jobs[k].room \in Conversations
  <2> DEFINE s == [at |-> "list", job |-> k, seen |-> {}]
  <2>1. s \in Hosting /\ s \notin Speaking /\ s.at = "list" /\ s.job = k
    BY JobKinds DEF Hosting
  <2> QED  BY <1>4, <2>1
<1>5. jobs[k].type = "language_demand" => jobs[k].room \in Broadcasts
  BY <1>1 DEF JobRecords
<1> QED  BY <1>2, <1>3, <1>4, <1>5 DEF ProcessJob

LEMMA ReadLoop == ASSUME LoopInv, ReadStep PROVE LoopInv'
<1>1. PICK w \in Workers : XReadBlocks(w) \/ XReadTimesOut(w) \/ \E joined \in BOOLEAN : XRead(w, joined)
  BY DEF ReadStep
<1>0. /\ Len(jobs) \in Nat /\ jobs' = jobs /\ bots' = bots /\ UNCHANGED <<adds, started>>
      /\ \A v \in Workers : lastJob[v].read \in Nat /\ lastJob[v].first \in Nat
  BY <1>1, LenProperties DEF XReadBlocks, XReadTimesOut, XRead, broadcasting, serving, LoopInv, LoopTypes
<1>2. CASE XReadBlocks(w) \/ XReadTimesOut(w)
  <2>1. PICK s \in Waiting : At(w, s)
    BY <1>2, JobKinds DEF XReadBlocks, XReadTimesOut
  <2>2. /\ lastJob' \in [Workers -> [read : Nat, first : Nat]] /\ \A v \in Workers \ {w} : lastJob'[v] = lastJob[v]
        /\ lastJob'[w].read = lastJob[w].read \/ (lastJob'[w].read = Len(jobs) /\ lastJob'[w].first = 0)
        /\ lastJob'[w].first = lastJob[w].first
    <3>1. lastJob \in [Workers -> [read : Nat, first : Nat]]  BY DEF LoopInv, LoopTypes
    <3>2. CASE lastJob' = lastJob  BY <3>1, <3>2
    <3>3. CASE lastJob[w].first = 0 /\ lastJob' = [lastJob EXCEPT ![w].read = Len(jobs)]
      BY <1>0, <3>1, <3>3
    <3> QED  BY <1>2, <3>2, <3>3 DEF XReadBlocks, XReadTimesOut, NoJob
  <2>3. LoopTypes'
    BY <1>0, <1>2, <2>1, <2>2, Moves DEF XReadBlocks, XReadTimesOut, LoopInv, LoopTypes, broadcasting
  <2>4. s \notin Speaking /\ s \notin Hosting
    BY <2>1, JobKinds
  <2>5. Position'
    <3>1. \A v \in Workers \ {w} : doing'[v] = doing[v] /\ lastJob'[v] = lastJob[v]
      BY <2>1, <2>2, Moves
    <3>2. \A v \in Workers \ {w} : Placed(v)'
      BY <1>0, <3>1 DEF LoopInv, Position, Placed
    <3>3. doing'[w] = s /\ Placed(w)
      BY <2>1, Moves DEF LoopInv, Position
    <3>4. Placed(w)'
      BY <1>0, <2>2, <2>4, <3>3 DEF Placed
    <3> QED  BY <3>2, <3>4 DEF Position
  <2> QED  BY <2>3, <2>5 DEF LoopInv
<1>3. ASSUME NEW joined \in BOOLEAN, XRead(w, joined) PROVE LoopInv'
  <2> DEFINE k == lastJob[w].read + 1
  <2>1. k \in 1..Len(jobs) /\ ProcessJob(w, k, joined)
    BY <1>0, <1>3 DEF XRead
  <2>2. PICK s \in Waiting \cup Speaking \cup Hosting :
          /\ At(w, s)
          /\ s \in Speaking => /\ s.at = "adding" /\ s.job = k /\ s.todo = jobs[k].langs
                               /\ jobs[k].type \in {"bot_start", "language_demand"}
                               /\ jobs[k].room \in Broadcasts
          /\ s \in Hosting => /\ s.at = "list" /\ s.job = k
                              /\ jobs[k].type = "bot_start" /\ jobs[k].room \in Conversations
    BY <2>1, JobBegins
  <2>3. /\ lastJob' \in [Workers -> [read : Nat, first : Nat]] /\ \A v \in Workers \ {w} : lastJob'[v] = lastJob[v]
        /\ lastJob'[w].read = k /\ lastJob'[w].first \in {k, lastJob[w].first}
    BY <1>0, <1>3 DEF XRead, LoopInv, LoopTypes
  <2>4. activeRooms' \in [Workers -> [Broadcasts -> Nat]]
    <3>1. activeRooms' = activeRooms \/ \E r \in Broadcasts : activeRooms' = [activeRooms EXCEPT ![w] = [activeRooms[w] EXCEPT ![r] = k]]
      BY <2>1 DEF ProcessJob, LoopInv, LoopTypes
    <3>2. k \in Nat /\ activeRooms[w] \in [Broadcasts -> Nat] /\ activeRooms \in [Workers -> [Broadcasts -> Nat]]
      BY <2>1 DEF LoopInv, LoopTypes
    <3>3. \A r \in Broadcasts : [activeRooms[w] EXCEPT ![r] = k] \in [Broadcasts -> Nat]
      BY <3>2
    <3> QED  BY <3>1, <3>2, <3>3
  <2>5. LoopTypes'
    BY <1>0, <2>2, <2>3, <2>4, Moves DEF LoopInv, LoopTypes
  <2>6. lastJob[w].first <= lastJob[w].read
    BY DEF LoopInv, Position, Placed
  <2>7. Position'
    <3>1. \A v \in Workers \ {w} : doing'[v] = doing[v] /\ lastJob'[v] = lastJob[v]
      BY <2>2, <2>3, Moves
    <3>2. doing'[w] = s /\ lastJob'[w].read = k /\ lastJob'[w].first <= k /\ k >= 1 /\ k <= Len(jobs) /\ k \in Nat
      BY <1>0, <2>1, <2>2, <2>3, <2>6, Moves
    <3>3. s \notin Speaking \/ s \notin Hosting
      BY JobKinds
    <3>4. \A v \in Workers \ {w} : Placed(v)'
      BY <1>0, <3>1 DEF LoopInv, Position, Placed
    <3>5. s.at # "track" \/ s \notin Speaking
      BY <2>2
    <3>6. Placed(w)'
      BY <1>0, <2>2, <3>2, <3>3, <3>5 DEF Placed
    <3> QED  BY <3>4, <3>6 DEF Position
  <2> QED  BY <2>5, <2>7 DEF LoopInv
<1> QED  BY <1>1, <1>2, <1>3

\* A worker goes on with its job, or is done with it.
LEMMA TurnsLoop ==
    ASSUME LoopInv, NEW w \in Workers, NEW s \in Waiting \cup Speaking \cup Hosting, At(w, s),
           UNCHANGED <<jobs, lastJob, activeRooms>>, bots' \subseteq BotRecords,
           adds' \subseteq AddRecords, started' \subseteq AddRecords,
           s \notin Waiting =>
             /\ s.job = doing[w].job
             /\ (s \in Speaking => doing[w] \in Speaking)
             /\ (s \in Hosting => doing[w] \in Hosting),
           s.at = "track" => s.todo # << >>
    PROVE  LoopInv'
<1>1. LoopTypes'
  BY Moves DEF LoopInv, LoopTypes
<1>2. s \in Waiting => s \notin Speaking /\ s \notin Hosting
  BY JobKinds
<1>3. Position'
  <2>1. doing'[w] = s /\ \A v \in Workers \ {w} : doing'[v] = doing[v]
    BY Moves
  <2>2. CASE s \in Waiting
    BY <1>2, <2>1, <2>2 DEF LoopInv, Position, Placed
  <2>3. CASE s \notin Waiting
    BY <2>1, <2>3 DEF LoopInv, Position, Placed
  <2> QED  BY <2>2, <2>3
<1> QED  BY <1>1, <1>3 DEF LoopInv

\* What a worker speaks of is on the stream.
LEMMA JobOnStream ==
    ASSUME LoopInv, NEW w \in Workers, doing[w] \in Speaking \cup Hosting
    PROVE  /\ doing[w].job \in 1..Len(jobs) /\ doing[w].job = lastJob[w].read
           /\ doing[w] \in Speaking => jobs[doing[w].job].room \in Broadcasts
           /\ doing[w] \in Hosting => jobs[doing[w].job].room \in Conversations
<1>1. doing[w].job \in Nat /\ doing[w].job = lastJob[w].read /\ doing[w].job >= 1
  BY JobKinds DEF LoopInv, Position, Placed
<1> QED  BY <1>1, LenProperties DEF LoopInv, LoopTypes, Position, Placed

LEMMA AddLoop == ASSUME LoopInv, NEW w \in Workers, AddLanguage(w) PROVE LoopInv'
<1> DEFINE d == doing[w]  lang == Head(d.todo)  p == Pipeline(w, lang)
<1>1. d \in Speaking /\ d.at = "adding" /\ d.todo \in Seq(Languages) /\ d.job \in Nat
  BY JobKinds DEF AddLanguage, LoopInv, LoopTypes
<1>2. UNCHANGED <<jobs, lastJob, activeRooms, started, bots>>
  BY DEF AddLanguage, serving
<1>3. CASE d.todo = << >>
  BY <1>1, <1>2, <1>3, JobKinds, TurnsLoop DEF AddLanguage, LoopInv, LoopTypes
<1>4. CASE d.todo # << >>
  <2>1. lang \in Languages /\ Tail(d.todo) \in Seq(Languages)
    BY <1>1, <1>4, HeadTailProperties
  <2>2. [p |-> p, job |-> d.job] \in AddRecords
    <3>1. activeRooms[w][jobs[d.job].room] \in Nat
      BY <1>1, JobOnStream DEF LoopInv, LoopTypes
    <3> QED  BY <1>1, <2>1, <3>1 DEF AddRecords, PipelineRecords, Pipeline
  <2>3. PICK s \in Speaking : At(w, s) /\ s.job = d.job /\ (s.at = "track" => s.todo # << >>)
    <3>1. CASE At(w, [d EXCEPT !.todo = Tail(d.todo)])
      <4>1. [d EXCEPT !.todo = Tail(d.todo)] \in Speaking /\ [d EXCEPT !.todo = Tail(d.todo)].job = d.job
            /\ [d EXCEPT !.todo = Tail(d.todo)].at = "adding"
        BY <1>1, <2>1 DEF Speaking
      <4> QED  BY <3>1, <4>1
    <3>2. CASE At(w, [d EXCEPT !.at = "track"])
      <4>1. [d EXCEPT !.at = "track"] \in Speaking /\ [d EXCEPT !.at = "track"].job = d.job
            /\ [d EXCEPT !.at = "track"].todo # << >>
        BY <1>1, <1>4 DEF Speaking
      <4> QED  BY <3>2, <4>1
    <3> QED  BY <1>4, <3>1, <3>2 DEF AddLanguage
  <2>4. adds' \subseteq AddRecords
    BY <1>4, <2>2 DEF AddLanguage, LoopInv, LoopTypes
  <2>5. s \notin Hosting /\ s \notin Waiting /\ d \notin Hosting
    BY <1>1, JobKinds
  <2> QED  BY <1>1, <1>2, <2>3, <2>4, <2>5, TurnsLoop DEF LoopInv, LoopTypes
<1> QED  BY <1>3, <1>4

LEMMA TrackLoop ==
    ASSUME LoopInv, NEW a \in adds, NEW ok \in BOOLEAN, TrackReady(a, ok)
    PROVE  LoopInv'
<1> DEFINE w == a.p.worker  d == doing[w]
<1>1. w \in Workers /\ a \in AddRecords
  BY DEF LoopInv, LoopTypes, AddRecords, PipelineRecords
<1>2. /\ UNCHANGED <<jobs, lastJob, activeRooms, bots>>
      /\ adds' \subseteq AddRecords /\ started' \subseteq AddRecords
  BY <1>1 DEF TrackReady, serving, LoopInv, LoopTypes
<1>3. CASE doing' = doing
  BY <1>2, <1>3 DEF LoopInv, LoopTypes, Position, Placed
<1>4. CASE doing' # doing
  <2>1. d \in Speaking /\ d.at = "track" /\ d.todo \in Seq(Languages) /\ d.job \in Nat /\ d.todo # << >>
    BY <1>1, <1>4, JobKinds DEF TrackReady, LoopInv, LoopTypes, Position, Placed
  <2> DEFINE s == [d EXCEPT !.at = "adding", !.todo = Tail(d.todo)]
  <2>2. s \in Speaking /\ s.job = d.job /\ s.at = "adding"
    BY <2>1, HeadTailProperties DEF Speaking
  <2>3. At(w, s) \/ At(w, Resting)
    BY <1>1, <1>4, <2>1 DEF TrackReady, At, LoopInv, LoopTypes
  <2>4. s \notin Hosting /\ s \notin Waiting /\ d \notin Hosting
    BY <2>1, <2>2, JobKinds
  <2>5. CASE At(w, s)
    <3> HIDE DEF s
    <3> QED  BY <1>1, <1>2, <2>1, <2>2, <2>4, <2>5, TurnsLoop DEF LoopInv, LoopTypes
  <2>6. CASE At(w, Resting)
    BY <1>1, <1>2, <2>6, JobKinds, TurnsLoop DEF LoopInv, LoopTypes
  <2> QED  BY <2>3, <2>5, <2>6
<1> QED  BY <1>3, <1>4

\* The steps of a worker that lets a bot into a conversation.
HostStep(w) ==
    \/ RoomGone(w)
    \/ \E ok \in BOOLEAN : ListParticipants(w, ok) \/ Evict(w, ok) \/ ConnectLivekit(w, ok)

LEMMA BotTyped ==
    ASSUME LoopInv, NEW w \in Workers, doing[w] \in Hosting
    PROVE  Bot(w) \in BotRecords /\ Bot(w).room = jobs[doing[w].job].room /\ Bot(w).worker = w
BY JobOnStream, JobKinds DEF Bot, BotRecords

LEMMA HostMoves ==
    ASSUME LoopInv, NEW w \in Workers, HostStep(w)
    PROVE  /\ doing[w] \in Hosting /\ UNCHANGED <<jobs, lastJob, activeRooms, adds, started>>
           /\ bots' \subseteq bots \cup {Bot(w)} /\ met \subseteq met'
           /\ \E s \in {Resting} \cup Hosting :
                /\ At(w, s)
                /\ s # Resting => s.job = doing[w].job /\ s.seen \in (SUBSET bots) \cup {doing[w].seen}
<1> DEFINE d == doing[w]
<1>1. d \in Hosting
  BY JobKinds DEF HostStep, RoomGone, ListParticipants, Evict, ConnectLivekit, LoopInv, LoopTypes
<1>3. UNCHANGED <<jobs, lastJob, activeRooms, adds, started>> /\ bots' \subseteq bots \cup {Bot(w)} /\ met \subseteq met'
  BY DEF HostStep, RoomGone, ListParticipants, Evict, ConnectLivekit, broadcasting, serving
<1>4. ASSUME NEW ok \in BOOLEAN, ListParticipants(w, ok)
      PROVE  \E s \in Hosting : At(w, s) /\ s.job = d.job /\ s.seen \in SUBSET bots
  <2>1. PICK seen \in SUBSET bots : At(w, [d EXCEPT !.at = "evict", !.seen = seen])
    BY <1>4 DEF ListParticipants
  <2> DEFINE s == [d EXCEPT !.at = "evict", !.seen = seen]
  <2>2. s \in Hosting /\ s.job = d.job /\ s.seen = seen
    BY <1>1 DEF Hosting, LoopInv, LoopTypes
  <2> QED  BY <2>1, <2>2
<1>5. ASSUME NEW x \in {"connect", "serving"}, At(w, [d EXCEPT !.at = x])
      PROVE  \E s \in Hosting : At(w, s) /\ s.job = d.job /\ s.seen = d.seen
  <2> DEFINE s == [d EXCEPT !.at = x]
  <2>2. s \in Hosting /\ s.job = d.job /\ s.seen = d.seen
    BY <1>1 DEF Hosting
  <2> QED  BY <1>5, <2>2
<1>7. ASSUME NEW ok \in BOOLEAN, Evict(w, ok) \/ ConnectLivekit(w, ok)
      PROVE  At(w, Resting) \/ \E x \in {"connect", "serving"} : At(w, [d EXCEPT !.at = x])
  BY <1>7 DEF Evict, ConnectLivekit
<1>8. At(w, Resting) \/ \E s \in Hosting : At(w, s) /\ s.job = d.job /\ s.seen \in (SUBSET bots) \cup {d.seen}
  BY <1>4, <1>5, <1>7 DEF HostStep, RoomGone
<1> QED  BY <1>1, <1>3, <1>8

LEMMA HostLoop == ASSUME LoopInv, NEW w \in Workers, HostStep(w) PROVE LoopInv'
<1> DEFINE d == doing[w]
<1>1. d \in Hosting /\ bots' \subseteq BotRecords
  BY HostMoves, BotTyped, JobKinds DEF LoopInv, LoopTypes
<1>2. PICK s \in {Resting} \cup Hosting : At(w, s) /\ (s # Resting => s.job = d.job)
  BY HostMoves
<1>3. s \notin Waiting => s \in Hosting /\ s.job = d.job
  BY <1>2, JobKinds
<1>4. s \notin Speaking /\ s.at # "track"
  BY <1>2, JobKinds
<1> QED  BY <1>1, <1>2, <1>3, <1>4, HostMoves, JobKinds, TurnsLoop DEF LoopInv, LoopTypes

LEMMA CrashLoop == ASSUME LoopInv, NEW w \in Workers, Crash(w) PROVE LoopInv'
<1>1. /\ lastJob' \in [Workers -> [read : Nat, first : Nat]] /\ lastJob'[w] = Fresh
      /\ \A v \in Workers \ {w} : lastJob'[v] = lastJob[v]
  BY DEF Crash, LoopInv, LoopTypes, Fresh, NoJob
<1>2. activeRooms' \in [Workers -> [Broadcasts -> Nat]]
  <2>1. [r \in Broadcasts |-> NoJob] \in [Broadcasts -> Nat]
    BY DEF NoJob
  <2> QED  BY <2>1 DEF Crash, LoopInv, LoopTypes
<1>3. LoopTypes'
  BY <1>1, <1>2, JobKinds, Moves DEF Crash, LoopInv, LoopTypes
<1>4. doing'[w] \notin Speaking /\ doing'[w] \notin Hosting /\ \A v \in Workers \ {w} : doing'[v] = doing[v]
  BY JobKinds, Moves DEF Crash
<1>5. Len(jobs) \in Nat /\ lastJob'[w].read = 0 /\ lastJob'[w].first = 0 /\ jobs' = jobs
  BY <1>1, LenProperties DEF Crash, Fresh, NoJob, LoopInv, LoopTypes
<1>6. Position'
  BY <1>1, <1>4, <1>5 DEF LoopInv, Position, Placed
<1> QED  BY <1>3, <1>6 DEF LoopInv

\* The heartbeat, and its key.
BeatStep == (\E b \in beats : Beat(b) \/ BeatFails(b)) \/ (\E r \in Conversations : KeyExpires(r)) \/ UNCHANGED workerVars

LEMMA BeatChanges ==
    ASSUME BeatStep
    PROVE  UNCHANGED <<jobs, bots, lastJob, doing, broadcasting, failed, met>>
BY DEF BeatStep, Beat, BeatFails, KeyExpires, workerVars, serving

LEMMA BeatLoop == ASSUME LoopInv, BeatStep PROVE LoopInv'
BY BeatChanges DEF LoopInv, LoopTypes, Position, Placed, broadcasting

LEMMA NextSteps ==
    ASSUME LoopInv, [WorkerNext]_workerVars
    PROVE  \/ ApiStep \/ ReadStep \/ BeatStep
           \/ \E w \in Workers : AddLanguage(w) \/ HostStep(w) \/ Crash(w)
           \/ \E a \in adds, ok \in BOOLEAN : TrackReady(a, ok)
BY DEF WorkerNext, JobStep, ApiStep, ReadStep, HostStep, BeatStep

LEMMA StepLoop == LoopInv /\ [WorkerNext]_workerVars => LoopInv'
BY NextSteps, ApiLoop, ReadLoop, BeatLoop, AddLoop, TrackLoop, HostLoop, CrashLoop

\* Whoever is about to enter a room is known to it: their place is of that room.
LEMMA EnteringIn ==
    ASSUME LoopInv, NEW w \in Workers, doing[w].at \in {"list", "evict", "connect"}
    PROVE  /\ doing[w] \in Hosting /\ Bot(w).room \in Conversations
           /\ \A r \in Conversations : w \in Entering(r) => r = Bot(w).room
           /\ doing[w].at # "list" => w \in Entering(Bot(w).room)
<1>1. doing[w] \in Hosting
  BY JobKinds DEF LoopInv, LoopTypes
<1> QED  BY <1>1, JobOnStream DEF Entering, Bot

LEMMA ListSeats ==
    ASSUME LoopInv, Seats, NEW w \in Workers, NEW ok \in BOOLEAN, ListParticipants(w, ok)
    PROVE  Seats'
<1>0. PICK r \in Conversations : r = Bot(w).room
  BY EnteringIn DEF ListParticipants
<1> DEFINE there == {b \in bots : b.room = r}
<1>1. doing[w] \in Hosting /\ r = jobs[doing[w].job].room /\ doing[w].at = "list"
  BY <1>0, EnteringIn DEF ListParticipants, Bot
<1>2. /\ doing'[w].at = "evict" /\ doing'[w].job = doing[w].job /\ doing'[w].seen = IF ok THEN there ELSE {}
      /\ \A v \in Workers \ {w} : doing'[v] = doing[v]
  BY <1>0, <1>1 DEF ListParticipants, At, LoopInv, LoopTypes, Hosting
<1>3. /\ jobs' = jobs /\ bots' = bots /\ met \subseteq met'
      /\ r \notin met' => Entering(r) = {} /\ (ok \/ there = {})
  BY <1>0 DEF ListParticipants
<1>4. \A q \in Conversations : Entering(q)' = IF q = r THEN Entering(q) \cup {w} ELSE Entering(q)
  BY <1>1, <1>2, <1>3 DEF Entering
<1>5. \A q \in Conversations \ met' : q # r =>
        /\ \A u, v \in Entering(q)' : u = v
        /\ \A u \in Entering(q)', b \in bots : b.room = q => doing'[u].at = "evict" /\ b \in doing'[u].seen
  <2>1. \A q \in Conversations : q # r => w \notin Entering(q)
    BY <1>1 DEF Entering
  <2>2. \A q \in Conversations : \A u \in Entering(q) : u \in Workers
    BY DEF Entering
  <2> QED  BY <1>2, <1>3, <1>4, <2>1, <2>2 DEF Seats
<1>6. r \notin met' => /\ \A u, v \in Entering(r)' : u = v
                      /\ \A u \in Entering(r)', b \in bots : b.room = r => doing'[u].at = "evict" /\ b \in doing'[u].seen
  BY <1>1, <1>2, <1>3, <1>4
<1> QED  BY <1>3, <1>5, <1>6 DEF Seats

LEMMA EvictSeats ==
    ASSUME LoopInv, Seats, NEW w \in Workers, NEW ok \in BOOLEAN, Evict(w, ok)
    PROVE  Seats'
<1>0. PICK r \in Conversations : r = Bot(w).room
  BY EnteringIn DEF Evict
<1>1. doing[w] \in Hosting /\ r = jobs[doing[w].job].room /\ w \in Entering(r)
  BY <1>0, EnteringIn DEF Evict, Bot
<1>2. /\ doing'[w].at = "connect" /\ doing'[w].job = doing[w].job
      /\ \A v \in Workers \ {w} : doing'[v] = doing[v]
  BY <1>1 DEF Evict, At, LoopInv, LoopTypes, Hosting
<1>3. /\ jobs' = jobs /\ bots' \subseteq bots /\ met \subseteq met'
      /\ r \notin met' => bots' = bots \ doing[w].seen
  BY <1>0 DEF Evict
<1>4. \A q \in Conversations : Entering(q)' = Entering(q)
  BY <1>1, <1>2, <1>3 DEF Entering
<1>5. \A q \in Conversations : \A u \in Entering(q) : u \in Workers /\ (u = w => q = r)
  BY <1>1 DEF Entering
<1>6. r \notin met' => \A b \in bots' : b.room # r
  BY <1>1, <1>3 DEF Seats
<1> QED  BY <1>1, <1>2, <1>3, <1>4, <1>5, <1>6 DEF Seats

LEMMA ConnectSeats ==
    ASSUME LoopInv, Seats, NEW w \in Workers, ConnectLivekit(w, TRUE)
    PROVE  Seats'
<1>0. PICK r \in Conversations : r = Bot(w).room
  BY EnteringIn DEF ConnectLivekit
<1>1. /\ doing[w] \in Hosting /\ r = jobs[doing[w].job].room
      /\ w \in Entering(r) /\ doing[w].at = "connect"
  BY <1>0, EnteringIn DEF ConnectLivekit, Bot
<1>2. doing'[w].at = "serving" /\ \A v \in Workers \ {w} : doing'[v] = doing[v]
  BY <1>1 DEF ConnectLivekit, At, LoopInv, LoopTypes, Hosting
<1>3. jobs' = jobs /\ bots' = bots \cup {Bot(w)} /\ met' = met
  BY DEF ConnectLivekit
<1>4. \A q \in Conversations : Entering(q)' = Entering(q) \ {w}
  BY <1>2, <1>3 DEF Entering
<1>5. r \notin met => Entering(r)' = {} /\ \A b \in bots : b.room # r
  <2>1. r \notin met => (\A u \in Entering(r) : u = w) /\ \A b \in bots : b.room # r
    BY <1>1 DEF Seats
  <2> QED  BY <1>1, <1>4, <2>1
<1>6. \A q \in Conversations : \A u \in Entering(q) : u \in Workers
  BY DEF Entering
<1>7. ASSUME NEW q \in Conversations \ met', q # r
      PROVE  /\ \A u, v \in Entering(q)' : u = v
             /\ \A b, c \in bots' : b.room = q /\ c.room = q => b = c
             /\ \A u \in Entering(q)', b \in bots' : b.room = q => doing'[u].at = "evict" /\ b \in doing'[u].seen
  BY <1>0, <1>2, <1>3, <1>4, <1>6, <1>7 DEF Seats
<1> QED  BY <1>0, <1>3, <1>5, <1>7 DEF Seats

LEMMA StepSeats == LoopInv /\ Seats /\ [WorkerNext]_workerVars => Seats'
<1> SUFFICES ASSUME LoopInv, Seats, [WorkerNext]_workerVars PROVE Seats'
  OBVIOUS
<1>0. jobs' = jobs => Grows
  BY LenProperties DEF Grows, LoopInv, LoopTypes
<1>1. CASE ApiStep \/ BeatStep
  BY <1>0, <1>1, ApiChanges, BeatChanges, SeatsStay
<1>2. ASSUME NEW w \in Workers, NEW s, At(w, s), s.at \notin {"evict", "connect"},
             jobs' = jobs, bots' \subseteq bots, met' = met
      PROVE  Seats'
  <2>1. \A v \in Workers : doing'[v].at \in {"evict", "connect"} => doing'[v] = doing[v]
    BY <1>2 DEF At, LoopInv, LoopTypes
  <2> QED  BY <1>0, <1>2, <2>1, SeatsStay
<1>3. CASE ReadStep
  <2>1. PICK w \in Workers : XReadBlocks(w) \/ XReadTimesOut(w) \/ \E joined \in BOOLEAN : XRead(w, joined)
    BY <1>3 DEF ReadStep
  <2>2. \E s : At(w, s) /\ s.at \notin {"evict", "connect"}
    <3>1. ASSUME NEW joined \in BOOLEAN, XRead(w, joined)
          PROVE  \E s : At(w, s) /\ s.at \notin {"evict", "connect"}
      <4>1. lastJob[w].read + 1 \in 1..Len(jobs) /\ ProcessJob(w, lastJob[w].read + 1, joined)
        BY <3>1, LenProperties DEF XRead, LoopInv, LoopTypes
      <4> QED  BY <4>1, JobBegins, JobKinds
    <3> QED  BY <2>1, <3>1, JobKinds DEF XReadBlocks, XReadTimesOut
  <2> QED  BY <1>2, <2>1, <2>2 DEF XReadBlocks, XReadTimesOut, XRead, serving
<1>4. ASSUME NEW w \in Workers, AddLanguage(w) PROVE Seats'
  <2>1. doing[w] \in Speaking /\ doing[w].at = "adding"
    BY <1>4, JobKinds DEF AddLanguage, LoopInv, LoopTypes
  <2>2. \E s : At(w, s) /\ s.at \notin {"evict", "connect"}
    BY <1>4, <2>1, JobKinds DEF AddLanguage, Speaking
  <2> QED  BY <1>2, <1>4, <2>2 DEF AddLanguage, serving
<1>5. ASSUME NEW a \in adds, NEW ok \in BOOLEAN, TrackReady(a, ok) PROVE Seats'
  <2>1. a.p.worker \in Workers
    BY DEF LoopInv, LoopTypes, AddRecords, PipelineRecords
  <2>2. \/ doing' = doing
        \/ /\ doing'[a.p.worker].at \in {"adding", "idle"}
           /\ \A v \in Workers \ {a.p.worker} : doing'[v] = doing[v]
    <3>1. doing[a.p.worker].at = "track" => doing[a.p.worker] \in Speaking
      BY <2>1, JobKinds DEF LoopInv, LoopTypes
    <3> QED  BY <1>5, <2>1, <3>1, JobKinds DEF TrackReady, Speaking, LoopInv, LoopTypes
  <2> QED  BY <1>0, <1>5, <2>1, <2>2, SeatsStay DEF TrackReady, serving
<1>6. ASSUME NEW w \in Workers, RoomGone(w) \/ ConnectLivekit(w, FALSE) \/ Crash(w) PROVE Seats'
  BY <1>2, <1>6, JobKinds DEF RoomGone, ConnectLivekit, Crash, serving
<1>7. ASSUME NEW w \in Workers, HostStep(w) PROVE Seats'
  <2>1. \/ RoomGone(w) \/ ConnectLivekit(w, FALSE) \/ ConnectLivekit(w, TRUE)
        \/ \E ok \in BOOLEAN : ListParticipants(w, ok) \/ Evict(w, ok)
    BY <1>7 DEF HostStep
  <2> QED  BY <1>6, <2>1, ListSeats, EvictSeats, ConnectSeats
<1> QED  BY <1>1, <1>3, <1>4, <1>5, <1>6, <1>7, NextSteps

\* Bots that enter a conversation one after the other, each evicting those it
\* finds, leave one: no room is translated twice (media_pipeline.py,
\* connect_livekit).
THEOREM OneBotEver == WorkerSpec => []OneBot
<1>1. LoopInv /\ Seats => OneBot
  BY DEF LoopInv, LoopTypes, BotRecords, Seats, OneBot
<1> QED  BY <1>1, InitLoop, StepLoop, StepSeats, PTL DEF WorkerSpec

-----------------------------------------------------------------------------
\* A worker waits for one track at a time, of a language the pipeline lacks.
OneAdd ==
    \A a \in adds :
        /\ doing[a.p.worker].at = "track" /\ ~HasLanguage(a.p)
        /\ a.p = Pipeline(a.p.worker, Head(doing[a.p.worker].todo)) /\ a.job = doing[a.p.worker].job

Single == OneAdd /\ OnePerWorker

\* Every demand is answered, but the one that is worked on; a start that was carried
\* out is known.
ServedBy(w) ==
    lastJob[w].first # NoJob => \A k \in lastJob[w].first..lastJob[w].read :
        \/ Answered(w, k)
        \/ /\ jobs[k].type = "language_demand" /\ k = lastJob[w].read
           /\ doing[w] \in Speaking /\ doing[w].todo = jobs[k].langs
KnownBy(w) ==
    lastJob[w].first # NoJob => \A k \in lastJob[w].first..lastJob[w].read :
        jobs[k].type = "bot_start" /\ jobs[k].room \in Broadcasts /\ <<w, k>> \notin failed =>
            activeRooms[w][jobs[k].room] # NoJob
Serving == \A w \in Workers : ServedBy(w) /\ KnownBy(w)

LEMMA AddOfWorker ==
    ASSUME LoopInv, NEW a \in adds
    PROVE  a.p.worker \in Workers /\ a \in AddRecords
BY DEF LoopInv, LoopTypes, AddRecords, PipelineRecords

\* Two that wait for the same worker are the same.
LEMMA AddsDiffer ==
    ASSUME LoopInv, OneAdd, NEW a \in adds, NEW b \in adds, a.p.worker = b.p.worker
    PROVE  a = b
<1>1. a.p = b.p /\ a.job = b.job
  BY DEF OneAdd
<1> QED  BY <1>1, AddOfWorker DEF AddRecords

\* What a worker waits for stays what it is while the worker does not move.
LEMMA AddsStay ==
    ASSUME LoopInv, OneAdd, Grows, NEW a \in adds, ~HasLanguage(a.p)',
           doing'[a.p.worker] = doing[a.p.worker], activeRooms'[a.p.worker] = activeRooms[a.p.worker]
    PROVE  /\ doing'[a.p.worker].at = "track" /\ a.job = doing'[a.p.worker].job
           /\ a.p = Pipeline(a.p.worker, Head(doing[a.p.worker].todo))'
<1> DEFINE w == a.p.worker
<1>1. w \in Workers /\ doing[w].at = "track"
  BY AddOfWorker DEF OneAdd
<1>2. doing[w] \in Speaking
  BY <1>1, JobKinds DEF LoopInv, LoopTypes
<1>3. jobs'[doing[w].job] = jobs[doing[w].job]
  BY <1>1, <1>2, JobOnStream DEF Grows
<1> QED  BY <1>1, <1>3 DEF OneAdd, Pipeline

LEMMA AddsKept ==
    ASSUME LoopInv, Single, Grows, adds' \subseteq adds, started' \subseteq started,
           \A a \in adds' : doing'[a.p.worker] = doing[a.p.worker] /\ activeRooms'[a.p.worker] = activeRooms[a.p.worker]
    PROVE  Single'
<1>1. \A a \in adds' : a \in adds /\ ~HasLanguage(a.p)'
  BY DEF Single, OneAdd, HasLanguage
<1>2. ASSUME NEW a \in adds'
      PROVE  /\ doing'[a.p.worker].at = "track" /\ ~HasLanguage(a.p)'
             /\ a.p = Pipeline(a.p.worker, Head(doing[a.p.worker].todo))' /\ a.job = doing'[a.p.worker].job
  BY <1>1, AddsStay DEF Single
<1>3. OnePerWorker'
  BY DEF Single, OnePerWorker
<1> QED  BY <1>2, <1>3 DEF Single, OneAdd

LEMMA AddSingle == ASSUME LoopInv, Single, NEW w \in Workers, AddLanguage(w) PROVE Single'
<1> DEFINE d == doing[w]
<1>1. d \in Speaking /\ d.at = "adding" /\ d.job \in Nat
  BY JobKinds DEF AddLanguage, LoopInv, LoopTypes
<1>2. UNCHANGED <<jobs, activeRooms, started>> /\ Grows /\ \A v \in Workers \ {w} : doing'[v] = doing[v]
  BY LenProperties DEF AddLanguage, At, Grows, LoopInv, LoopTypes
<1>3. \A a \in adds : a.p.worker \in Workers \ {w}
  BY <1>1, AddOfWorker DEF Single, OneAdd
<1>4. CASE adds' = adds
  BY <1>2, <1>3, <1>4, AddsKept
<1>5. CASE adds' # adds
  <2>0. PICK p, new : p = Pipeline(w, Head(d.todo)) /\ new = [p |-> p, job |-> d.job]
    OBVIOUS
  <2>1. adds' = adds \cup {new} /\ ~HasLanguage(p) /\ At(w, [d EXCEPT !.at = "track"])
    BY <1>5, <2>0 DEF AddLanguage
  <2>2. doing'[w].at = "track" /\ doing'[w].job = d.job /\ doing'[w].todo = d.todo
    BY <1>1, <2>1 DEF At, LoopInv, LoopTypes, Speaking
  <2>3. new.p = p /\ new.job = d.job /\ p.worker = w
    BY <2>0 DEF Pipeline
  <2>4. Pipeline(w, Head(doing[w].todo))' = p
    BY <1>2, <2>0, <2>2 DEF Pipeline
  <2>5. \A a \in adds : ~HasLanguage(a.p)' /\ doing'[a.p.worker] = doing[a.p.worker] /\ activeRooms'[a.p.worker] = activeRooms[a.p.worker]
    BY <1>2, <1>3 DEF Single, OneAdd, HasLanguage
  <2>6. ~HasLanguage(p)'
    BY <1>2, <2>1 DEF HasLanguage
  <2>7. ASSUME NEW a \in adds'
        PROVE  /\ doing'[a.p.worker].at = "track" /\ ~HasLanguage(a.p)'
               /\ a.p = Pipeline(a.p.worker, Head(doing[a.p.worker].todo))' /\ a.job = doing'[a.p.worker].job
    <3>1. CASE a = new
      BY <2>2, <2>3, <2>4, <2>6, <3>1
    <3>2. CASE a \in adds
      BY <1>2, <2>5, <3>2, AddsStay DEF Single
    <3> QED  BY <2>1, <3>1, <3>2
  <2> QED  BY <1>2, <2>7 DEF Single, OneAdd, OnePerWorker
<1> QED  BY <1>4, <1>5

LEMMA TrackSingle ==
    ASSUME LoopInv, Single, NEW a \in adds, NEW ok \in BOOLEAN, TrackReady(a, ok)
    PROVE  Single'
<1> DEFINE w == a.p.worker
<1>1. /\ w \in Workers /\ UNCHANGED <<jobs, activeRooms>> /\ Grows /\ adds' = adds \ {a}
      /\ started' \subseteq started \cup {a} /\ \A v \in Workers \ {w} : doing'[v] = doing[v]
  BY AddOfWorker, LenProperties DEF TrackReady, Grows, LoopInv, LoopTypes
<1>2. \A b \in adds' : b \in adds /\ b.p.worker \in Workers \ {w}
  BY <1>1, AddsDiffer, AddOfWorker DEF Single
<1>3. \A b \in adds' : ~HasLanguage(b.p)'
  BY <1>1, <1>2 DEF Single, OneAdd, HasLanguage
<1>4. ASSUME NEW b \in adds'
      PROVE  /\ doing'[b.p.worker].at = "track" /\ ~HasLanguage(b.p)'
             /\ b.p = Pipeline(b.p.worker, Head(doing[b.p.worker].todo))' /\ b.job = doing'[b.p.worker].job
  BY <1>1, <1>2, <1>3, AddsStay DEF Single
<1>5. OnePerWorker'
  <2>1. \A s \in started : s.p # a.p
    BY DEF Single, OneAdd, HasLanguage
  <2>2. \A s \in started : s.p.worker = a.p.worker /\ s.p.of = a.p.of /\ s.p.lang = a.p.lang => s.p = a.p
    <3>1. a.p \in PipelineRecords /\ \A s \in started : s.p \in PipelineRecords
      BY AddOfWorker DEF LoopInv, LoopTypes, AddRecords
    <3> QED  BY <3>1 DEF PipelineRecords
  <2> QED  BY <1>1, <2>1, <2>2 DEF Single, OnePerWorker
<1> QED  BY <1>4, <1>5 DEF Single, OneAdd

LEMMA StepSingle == LoopInv /\ Single /\ [WorkerNext]_workerVars => Single'
<1> SUFFICES ASSUME LoopInv, Single, [WorkerNext]_workerVars PROVE Single'
  OBVIOUS
<1>0. jobs' = jobs => Grows
  BY LenProperties DEF Grows, LoopInv, LoopTypes
<1>1. CASE ApiStep \/ BeatStep
  BY <1>0, <1>1, ApiChanges, BeatChanges, AddsKept DEF broadcasting
<1>2. ASSUME NEW w \in Workers, doing[w].at # "track", jobs' = jobs, UNCHANGED <<adds, started>>,
             \A v \in Workers \ {w} : doing'[v] = doing[v] /\ activeRooms'[v] = activeRooms[v]
      PROVE  Single'
  <2>1. \A a \in adds : a.p.worker \in Workers \ {w}
    BY <1>2, AddOfWorker DEF Single, OneAdd
  <2> QED  BY <1>0, <1>2, <2>1, AddsKept
<1>3. CASE ReadStep
  <2>1. PICK w \in Workers : XReadBlocks(w) \/ XReadTimesOut(w) \/ \E joined \in BOOLEAN : XRead(w, joined)
    BY <1>3 DEF ReadStep
  <2>2. doing[w].at # "track" /\ jobs' = jobs /\ UNCHANGED <<adds, started>>
    BY <2>1, JobKinds DEF XReadBlocks, XReadTimesOut, XRead, Reads, broadcasting
  <2>3. \A v \in Workers \ {w} : doing'[v] = doing[v] /\ activeRooms'[v] = activeRooms[v]
    BY <2>1 DEF XReadBlocks, XReadTimesOut, XRead, ProcessJob, At, broadcasting, LoopInv, LoopTypes
  <2> QED  BY <1>2, <2>2, <2>3
<1>4. ASSUME NEW w \in Workers, HostStep(w) PROVE Single'
  <2>1. doing[w] \in Hosting /\ UNCHANGED <<jobs, activeRooms, adds, started>>
    BY <1>4, HostMoves
  <2>2. \A v \in Workers \ {w} : doing'[v] = doing[v]
    BY <1>4, HostMoves DEF At, LoopInv, LoopTypes
  <2> QED  BY <1>2, <2>1, <2>2, JobKinds
<1>5. ASSUME NEW w \in Workers, Crash(w) PROVE Single'
  <2>1. /\ jobs' = jobs /\ started' \subseteq started /\ adds' = {a \in adds : a.p.worker # w}
        /\ \A v \in Workers \ {w} : doing'[v] = doing[v] /\ activeRooms'[v] = activeRooms[v]
    BY <1>5 DEF Crash, At, LoopInv, LoopTypes
  <2> QED  BY <1>0, <2>1, AddsKept, AddOfWorker
<1> QED  BY <1>1, <1>3, <1>4, <1>5, AddSingle, TrackSingle, NextSteps

-----------------------------------------------------------------------------
Past(w) == lastJob[w].first..lastJob[w].read

LEMMA PastOnStream ==
    ASSUME LoopInv, NEW w \in Workers, lastJob[w].first # NoJob, NEW k \in Past(w)
    PROVE  /\ k \in 1..Len(jobs) /\ jobs[k] \in JobRecords /\ lastJob[w].first >= 1
           /\ jobs[k].type = "language_demand" =>
                jobs[k].room \in Broadcasts /\ \E l \in Languages : jobs[k].langs = <<l>>
<1>1. /\ lastJob[w].first \in Nat /\ lastJob[w].first >= 1 /\ lastJob[w].read \in Nat /\ lastJob[w].read <= Len(jobs)
      /\ Len(jobs) \in Nat
  BY LenProperties DEF LoopInv, LoopTypes, Position, Placed, NoJob
<1>2. k \in 1..Len(jobs)
  BY <1>1 DEF Past
<1>3. jobs[k] \in JobRecords
  BY <1>2, ElementOfSeq DEF LoopInv, LoopTypes
<1> QED  BY <1>1, <1>2, <1>3 DEF JobRecords

\* What w has started stays, and its pipelines change only with a start it reads.
Follows(w) ==
    /\ Grows /\ failed \subseteq failed'
    /\ lastJob'[w].first = lastJob[w].first /\ lastJob[w].read <= lastJob'[w].read /\ lastJob'[w].read \in Nat
    /\ \A s \in started : s.p.worker = w => s \in started'
    /\ \A r \in Broadcasts :
         \/ activeRooms'[w][r] = activeRooms[w][r]
         \/ /\ activeRooms'[w][r] # NoJob
            /\ \E j \in (lastJob[w].read + 1)..lastJob'[w].read : jobs'[j].type = "bot_start" /\ jobs'[j].room = r

LEMMA AnswersStay ==
    ASSUME LoopInv, NEW w \in Workers, Follows(w), lastJob[w].first # NoJob, NEW k \in Past(w), Answered(w, k)
    PROVE  Answered(w, k)'
<1> DEFINE since == {j \in lastJob[w].first..(k - 1) :
                       jobs[j].type = "bot_start" /\ jobs[j].room = jobs[k].room /\ <<w, j>> \notin failed}
           later == \E j \in (k + 1)..lastJob[w].read : jobs[j].type = "bot_start" /\ jobs[j].room = jobs[k].room
           served == HasLanguage([worker |-> w, of |-> activeRooms[w][jobs[k].room], lang |-> Head(jobs[k].langs)])
<1>1. /\ k \in 1..Len(jobs) /\ lastJob[w].first \in Nat /\ lastJob[w].first >= 1 /\ k <= lastJob[w].read
      /\ lastJob[w].read \in Nat /\ lastJob[w].read <= Len(jobs) /\ Len(jobs) \in Nat
  BY PastOnStream, LenProperties DEF LoopInv, LoopTypes, Position, Placed, Past
<1>2. \A j \in 1..Len(jobs) : jobs'[j] = jobs[j]
  BY DEF Follows, Grows
<1> SUFFICES ASSUME jobs[k].type = "language_demand", since' # {}, <<w, k>> \notin failed'
             PROVE  Head(jobs[k].langs) = Source \/ later' \/ served'
  BY <1>1, <1>2 DEF Answered
<1>3. since' \subseteq since
  <2>1. \A j \in lastJob[w].first..(k - 1) : jobs'[j] = jobs[j]
    BY <1>1, <1>2
  <2>2. jobs'[k] = jobs[k] /\ lastJob'[w].first = lastJob[w].first /\ failed \subseteq failed'
    BY <1>1, <1>2 DEF Follows
  <2> QED  BY <2>1, <2>2
<1>4. <<w, k>> \notin failed /\ since # {}
  BY <1>3 DEF Follows
<1>5. Head(jobs[k].langs) = Source \/ later \/ served
  BY <1>4 DEF Answered
<1>6. CASE later
  <2>1. PICK j \in (k + 1)..lastJob[w].read : jobs[j].type = "bot_start" /\ jobs[j].room = jobs[k].room
    BY <1>6
  <2>2. lastJob[w].read <= lastJob'[w].read /\ lastJob'[w].read \in Nat  BY DEF Follows
  <2>3. j \in (k + 1)..lastJob'[w].read /\ j \in 1..Len(jobs)
    <3>1. k \in Nat /\ j \in Nat /\ k + 1 <= j /\ j <= lastJob[w].read  BY <1>1
    <3>2. j <= lastJob'[w].read  BY <1>1, <2>2, <3>1
    <3>3. j >= 1 /\ j <= Len(jobs)  BY <1>1, <3>1
    <3> QED  BY <1>1, <2>2, <3>1, <3>2, <3>3
  <2>4. jobs'[j] = jobs[j] /\ jobs'[k] = jobs[k]  BY <1>1, <1>2, <2>3
  <2> QED  BY <2>1, <2>3, <2>4
<1>7. CASE served
  <2>1. jobs[k].room \in Broadcasts /\ jobs'[k] = jobs[k]
    BY <1>1, <1>2, PastOnStream
  <2>2. CASE activeRooms'[w][jobs[k].room] = activeRooms[w][jobs[k].room]
    BY <1>7, <2>1, <2>2 DEF HasLanguage, Follows
  <2>3. CASE activeRooms'[w][jobs[k].room] # activeRooms[w][jobs[k].room]
    <3>1. PICK j \in (lastJob[w].read + 1)..lastJob'[w].read : jobs'[j].type = "bot_start" /\ jobs'[j].room = jobs[k].room
      BY <2>1, <2>3 DEF Follows
    <3>2. j \in (k + 1)..lastJob'[w].read
      BY <1>1, <3>1 DEF Follows
    <3> QED  BY <2>1, <3>1, <3>2
  <2> QED  BY <2>2, <2>3
<1> QED  BY <1>5, <1>6, <1>7

LEMMA KnownStays ==
    ASSUME LoopInv, NEW w \in Workers, Follows(w), lastJob[w].first # NoJob, KnownBy(w), NEW k \in Past(w),
           jobs'[k].type = "bot_start", jobs'[k].room \in Broadcasts, <<w, k>> \notin failed'
    PROVE  activeRooms'[w][jobs'[k].room] # NoJob
<1>1. jobs'[k] = jobs[k]
  BY PastOnStream DEF Follows, Grows
<1>2. activeRooms[w][jobs[k].room] # NoJob
  BY <1>1 DEF KnownBy, Past, Follows
<1> QED  BY <1>1, <1>2 DEF Follows

\* A worker nothing happens to.
LEMMA Untouched ==
    ASSUME LoopInv, NEW w \in Workers, Follows(w), ServedBy(w), KnownBy(w), lastJob'[w] = lastJob[w],
           doing'[w] = doing[w]
           \/ \A k \in Past(w) : lastJob[w].first # NoJob /\ k = lastJob[w].read => Answered(w, k) \/ Answered(w, k)'
    PROVE  ServedBy(w)' /\ KnownBy(w)'
<1> SUFFICES ASSUME lastJob[w].first # NoJob PROVE ServedBy(w)' /\ KnownBy(w)'
  BY DEF ServedBy, KnownBy, NoJob
<1>1. KnownBy(w)'
  BY KnownStays DEF KnownBy, Past
<1>2. ASSUME NEW k \in Past(w)
      PROVE  \/ Answered(w, k)'
             \/ /\ jobs'[k].type = "language_demand" /\ k = lastJob[w].read
                /\ doing'[w] \in Speaking /\ doing'[w].todo = jobs'[k].langs
  <2>1. jobs'[k] = jobs[k]
    BY PastOnStream DEF Follows, Grows
  <2> QED  BY <2>1, AnswersStay DEF ServedBy, Past
<1>3. ServedBy(w)'
  BY <1>2 DEF ServedBy, Past
<1> QED  BY <1>1, <1>3

\* A worker whose pipelines, starts and place in the stream stay.
LEMMA FollowsWhenStill ==
    ASSUME LoopInv, NEW w \in Workers, Grows, failed \subseteq failed', lastJob'[w] = lastJob[w], activeRooms'[w] = activeRooms[w],
           \A s \in started : s.p.worker = w => s \in started'
    PROVE  Follows(w)
BY DEF Follows, LoopInv, LoopTypes

\* A worker that speaks of nothing has answered all demands, and what it does next
\* is no answer.
LEMMA IdleServes ==
    ASSUME LoopInv, NEW w \in Workers, Follows(w), ServedBy(w), KnownBy(w), lastJob'[w] = lastJob[w],
           doing[w] \notin Speaking
    PROVE  ServedBy(w)' /\ KnownBy(w)'
<1>1. \A k \in Past(w) : lastJob[w].first # NoJob => Answered(w, k)
  BY DEF ServedBy, Past
<1> QED  BY <1>1, Untouched

LEMMA ReadServes ==
    ASSUME LoopInv, NEW w \in Workers, ServedBy(w), KnownBy(w), NEW joined \in BOOLEAN, XRead(w, joined)
    PROVE  ServedBy(w)' /\ KnownBy(w)'
<1>0. PICK k : k = lastJob[w].read + 1
  OBVIOUS
<1>1. /\ k \in 1..Len(jobs) /\ ProcessJob(w, k, joined) /\ lastJob[w].read \in Nat /\ lastJob[w].first \in Nat
      /\ k \in Nat /\ k # NoJob
      /\ jobs' = jobs /\ started' = started /\ Grows
      /\ lastJob'[w].read = k /\ lastJob'[w].first = IF lastJob[w].first = NoJob THEN k ELSE lastJob[w].first
  BY <1>0, LenProperties DEF XRead, Grows, LoopInv, LoopTypes, NoJob
<1>2. doing[w] \notin Speaking
  BY <1>0, JobKinds DEF XRead, Reads
<1>3. jobs[k] \in JobRecords
  BY <1>1, ElementOfSeq DEF LoopInv, LoopTypes
<1>4. /\ jobs[k].type = "language_demand" => jobs[k].room \in Broadcasts /\ activeRooms' = activeRooms /\ failed' = failed
      /\ jobs[k].type = "bot_start" /\ jobs[k].room \in Broadcasts =>
           \/ failed' = failed \cup {<<w, k>>} /\ activeRooms' = activeRooms
           \/ failed' = failed /\ activeRooms'[w] = [activeRooms[w] EXCEPT ![jobs[k].room] = k]
      /\ ~(jobs[k].type = "bot_start" /\ jobs[k].room \in Broadcasts) => activeRooms' = activeRooms /\ failed \subseteq failed'
  BY <1>1, <1>3 DEF ProcessJob, JobRecords, LoopInv, LoopTypes
<1>5. failed \subseteq failed'
  BY <1>4
<1>6. /\ jobs[k].type = "bot_start" /\ jobs[k].room \in Broadcasts /\ <<w, k>> \notin failed' => activeRooms'[w][jobs[k].room] = k
      /\ \A r \in Broadcasts :
           activeRooms'[w][r] = activeRooms[w][r] \/ (activeRooms'[w][r] = k /\ jobs[k].type = "bot_start" /\ jobs[k].room = r)
  <2>1. activeRooms[w] \in [Broadcasts -> Nat]
    BY DEF LoopInv, LoopTypes
  <2> QED  BY <1>4, <2>1
<1>7. lastJob[w].first # NoJob => Follows(w)
  BY <1>0, <1>1, <1>5, <1>6 DEF Follows
<1>8. Past(w)' = (IF lastJob[w].first = NoJob THEN {} ELSE Past(w)) \cup {k}
  <2>1. lastJob[w].first # NoJob => lastJob[w].first <= lastJob[w].read
    BY DEF LoopInv, Position, Placed
  <2> QED  BY <1>0, <1>1, <2>1 DEF Past
<1>9. KnownBy(w)'
  <2> SUFFICES ASSUME NEW j \in Past(w)', jobs'[j].type = "bot_start", jobs'[j].room \in Broadcasts, <<w, j>> \notin failed'
               PROVE  activeRooms'[w][jobs'[j].room] # NoJob
    BY DEF KnownBy, Past
  <2>1. CASE j = k
    BY <1>1, <1>6, <2>1
  <2>2. CASE lastJob[w].first # NoJob /\ j \in Past(w)
    BY <1>7, <2>2, KnownStays
  <2> QED  BY <1>8, <2>1, <2>2
<1>10. \/ Answered(w, k)'
       \/ /\ jobs'[k].type = "language_demand" /\ k = lastJob'[w].read
          /\ doing'[w] \in Speaking /\ doing'[w].todo = jobs'[k].langs
  <2> SUFFICES ASSUME jobs[k].type = "language_demand", ~Answered(w, k)'
               PROVE  doing'[w] \in Speaking /\ doing'[w].todo = jobs[k].langs
    BY <1>1 DEF Answered
  <2>1. PICK j \in lastJob'[w].first..(k - 1) :
          jobs[j].type = "bot_start" /\ jobs[j].room = jobs[k].room /\ <<w, j>> \notin failed'
    BY <1>1 DEF Answered
  <2>2. lastJob[w].first # NoJob /\ j \in Past(w)
    <3>1. j \in lastJob'[w].first..lastJob[w].read
      BY <1>0, <1>1, <2>1
    <3>2. lastJob[w].first # NoJob
      BY <1>0, <1>1, <3>1
    <3> QED  BY <1>1, <3>1, <3>2 DEF Past
  <2>3. activeRooms[w][jobs[k].room] # NoJob
    BY <1>4, <2>1, <2>2 DEF KnownBy, Past
  <2>4. At(w, [at |-> "adding", job |-> k, todo |-> jobs[k].langs])
    BY <1>1, <2>3 DEF ProcessJob
  <2>5. jobs[k].langs \in Seq(Languages)
    <3>1. \A l \in Languages : <<l>> \in Seq(Languages)
      OBVIOUS
    <3> QED  BY <1>3, <3>1 DEF JobRecords
  <2>6. [at |-> "adding", job |-> k, todo |-> jobs[k].langs] \in Speaking
    BY <1>1, <2>5 DEF Speaking
  <2> QED  BY <2>4, <2>6 DEF At, LoopInv, LoopTypes
<1>11. ASSUME NEW j \in Past(w), lastJob[w].first # NoJob PROVE Answered(w, j)'
  <2>1. Answered(w, j)
    BY <1>2, <1>11 DEF ServedBy, Past
  <2> QED  BY <1>7, <1>11, <2>1, AnswersStay
<1>12. ServedBy(w)'
  BY <1>8, <1>10, <1>11 DEF ServedBy, Past
<1> QED  BY <1>9, <1>12

LEMMA AddServes ==
    ASSUME LoopInv, NEW w \in Workers, ServedBy(w), KnownBy(w), AddLanguage(w)
    PROVE  ServedBy(w)' /\ KnownBy(w)'
<1> DEFINE d == doing[w]  k == lastJob[w].read
<1>1. d \in Speaking /\ d.at = "adding" /\ d.job = k
  BY JobKinds, JobOnStream DEF AddLanguage, LoopInv, LoopTypes
<1>2. /\ UNCHANGED <<jobs, lastJob, activeRooms, started, failed>> /\ Follows(w)
  BY FollowsWhenStill, LenProperties DEF AddLanguage, Grows, LoopInv, LoopTypes
<1>3. ASSUME lastJob[w].first # NoJob, k \in Past(w), ~Answered(w, k)
      PROVE  doing'[w] \in Speaking /\ doing'[w].todo = d.todo
  <2>1. jobs[k].type = "language_demand" /\ d.todo = jobs[k].langs /\ d.todo # << >>
    <3>1. jobs[k].type = "language_demand" /\ d.todo = jobs[k].langs
      BY <1>3 DEF ServedBy, Past
    <3>2. PICK l \in Languages : jobs[k].langs = <<l>>
      BY <1>3, <3>1, PastOnStream
    <3> QED  BY <3>1, <3>2
  <2>2. Head(d.todo) # Source /\ ~HasLanguage(Pipeline(w, Head(d.todo)))
    BY <1>1, <1>3, <2>1 DEF Answered, Pipeline
  <2>3. At(w, [d EXCEPT !.at = "track"])
    BY <2>1, <2>2 DEF AddLanguage
  <2>4. [d EXCEPT !.at = "track"] \in Speaking /\ [d EXCEPT !.at = "track"].todo = d.todo
    BY <1>1 DEF Speaking
  <2> QED  BY <2>3, <2>4 DEF At, LoopInv, LoopTypes
<1>4. KnownBy(w)'
  BY <1>2 DEF KnownBy
<1>5. ServedBy(w)'
  <2> SUFFICES ASSUME lastJob[w].first # NoJob, NEW j \in Past(w)
               PROVE  \/ Answered(w, j)'
                      \/ /\ jobs[j].type = "language_demand" /\ j = k
                         /\ doing'[w] \in Speaking /\ doing'[w].todo = jobs[j].langs
    BY <1>2 DEF ServedBy, Past
  <2>1. Answered(w, j)' = Answered(w, j)
    BY <1>2 DEF Answered, HasLanguage
  <2> QED  BY <1>3, <2>1 DEF ServedBy, Past
<1> QED  BY <1>4, <1>5

LEMMA TrackServes ==
    ASSUME LoopInv, OneAdd, NEW a \in adds, NEW ok \in BOOLEAN, TrackReady(a, ok),
           NEW w \in Workers, ServedBy(w), KnownBy(w)
    PROVE  ServedBy(w)' /\ KnownBy(w)'
<1>1. UNCHANGED <<jobs, lastJob, activeRooms>> /\ failed \subseteq failed' /\ started \subseteq started' /\ Grows
  BY LenProperties DEF TrackReady, Grows, LoopInv, LoopTypes
<1>2. Follows(w)
  BY <1>1, FollowsWhenStill
<1>3. CASE w # a.p.worker
  <2>1. doing'[w] = doing[w]
    BY <1>3 DEF TrackReady, LoopInv, LoopTypes
  <2> QED  BY <1>1, <1>2, <2>1, Untouched
<1>4. CASE w = a.p.worker
  <2> DEFINE d == doing[w]
  <2>1. /\ d.at = "track" /\ d \in Speaking /\ d.job = lastJob[w].read /\ a.job = d.job
        /\ a.p = Pipeline(w, Head(d.todo))
    BY <1>4, JobKinds, JobOnStream DEF OneAdd, LoopInv, LoopTypes
  <2>2. ASSUME NEW k \in Past(w), lastJob[w].first # NoJob, k = lastJob[w].read, ~Answered(w, k)
        PROVE  Answered(w, k)'
    <3>1. d.todo = jobs[k].langs
      BY <2>2 DEF ServedBy, Past
    <3>2. CASE ok
      <4>1. a \in started' /\ a.p = [worker |-> w, of |-> activeRooms[w][jobs[k].room], lang |-> Head(jobs[k].langs)]
        BY <2>1, <2>2, <3>1, <3>2 DEF TrackReady, Pipeline
      <4> QED  BY <1>1, <4>1 DEF Answered, HasLanguage
    <3>3. CASE ~ok
      <4>1. <<w, k>> \in failed'
        BY <1>4, <2>1, <2>2, <3>3 DEF TrackReady
      <4> QED  BY <4>1 DEF Answered
    <3> QED  BY <3>2, <3>3
  <2> QED  BY <1>1, <1>2, <2>2, Untouched
<1> QED  BY <1>3, <1>4

LEMMA StepServing == LoopInv /\ Single /\ Serving /\ [WorkerNext]_workerVars => Serving'
<1> SUFFICES ASSUME LoopInv, Single, Serving, [WorkerNext]_workerVars, NEW v \in Workers PROVE ServedBy(v)' /\ KnownBy(v)'
  BY DEF Serving
<1>a. ServedBy(v) /\ KnownBy(v)
  BY DEF Serving
<1>0. jobs' = jobs => Grows
  BY LenProperties DEF Grows, LoopInv, LoopTypes
<1>1. CASE ApiStep \/ BeatStep
  <2>1. Grows /\ UNCHANGED <<lastJob, doing, activeRooms, started, failed>>
    BY <1>0, <1>1, ApiChanges, BeatChanges DEF broadcasting
  <2> QED  BY <1>a, <2>1, FollowsWhenStill, Untouched
<1>2. ASSUME NEW w \in Workers, v # w,
             \/ XReadBlocks(w) \/ XReadTimesOut(w) \/ AddLanguage(w)
             \/ HostStep(w) \/ Crash(w) \/ \E joined \in BOOLEAN : XRead(w, joined)
      PROVE  ServedBy(v)' /\ KnownBy(v)'
  <2>1. jobs' = jobs /\ failed \subseteq failed' /\ \A s \in started : s.p.worker = v => s \in started'
    BY <1>2 DEF XReadBlocks, XReadTimesOut, AddLanguage, HostStep, RoomGone, ListParticipants, Evict, ConnectLivekit,
                Crash, XRead, ProcessJob, broadcasting
  <2>2. lastJob'[v] = lastJob[v] /\ activeRooms'[v] = activeRooms[v] /\ doing'[v] = doing[v]
    BY <1>2 DEF XReadBlocks, XReadTimesOut, AddLanguage, HostStep, RoomGone, ListParticipants, Evict, ConnectLivekit,
                Crash, XRead, ProcessJob, broadcasting, At, LoopInv, LoopTypes
  <2> QED  BY <1>0, <1>a, <2>1, <2>2, FollowsWhenStill, Untouched
<1>3. CASE XReadBlocks(v) \/ Crash(v)
  <2>1. lastJob'[v].first = NoJob
    BY <1>3 DEF XReadBlocks, Crash, Fresh, LoopInv, LoopTypes
  <2> QED  BY <2>1 DEF ServedBy, KnownBy
<1>4. CASE XReadTimesOut(v) \/ HostStep(v)
  <2>1. UNCHANGED <<jobs, lastJob, activeRooms, started>> /\ failed \subseteq failed'
    BY <1>4 DEF XReadTimesOut, HostStep, RoomGone, ListParticipants, Evict, ConnectLivekit, broadcasting
  <2>2. doing[v] \notin Speaking
    BY <1>4, HostMoves, JobKinds DEF XReadTimesOut
  <2> QED  BY <1>0, <1>a, <2>1, <2>2, FollowsWhenStill, IdleServes
<1> QED
  BY <1>a, <1>1, <1>2, <1>3, <1>4, NextSteps, ReadServes, AddServes, TrackServes DEF ReadStep, Single

LEMMA InitServing == WorkerInit => Single /\ Serving
<1> SUFFICES ASSUME WorkerInit PROVE Single /\ Serving
  OBVIOUS
<1>1. \A w \in Workers : lastJob[w].first = NoJob
  BY DEF WorkerInit, Fresh
<1> QED  BY <1>1 DEF WorkerInit, Single, OneAdd, OnePerWorker, Serving, ServedBy, KnownBy

\* For any workers, languages and starts: a demand a worker read after the room's
\* start has a pipeline on that worker, and no second one for the same start, unless
\* its track could not be made or it names the spoken language by its resolved name.
\* That other workers answer it too is not excluded (main.py, job loop;
\* broadcast_worker.py, add_language).
THEOREM DemandsServed == WorkerSpec => []LanguagesServed
<1>1. LoopInv /\ Single /\ Serving => LanguagesServed
  <2> SUFFICES ASSUME LoopInv, Single, Serving PROVE DemandServed
    BY DEF Single, LanguagesServed
  <2> SUFFICES ASSUME NEW w \in Workers, doing[w].at \in {"idle", "xread"}, lastJob[w].first # NoJob,
                      NEW k \in lastJob[w].first..lastJob[w].read
               PROVE  Answered(w, k)
    BY DEF DemandServed
  <2> QED  BY JobKinds DEF Serving, ServedBy
<1> QED  BY <1>1, InitLoop, InitServing, StepLoop, StepSingle, StepServing, PTL DEF WorkerSpec

HIDE WorkerAssumption
-----------------------------------------------------------------------------
\* What the cascade keeps.
Tasks == [key : Texts, dir : Directions]
Waits == [at : {"await"}, u : Nat, want : Directions, task : Directions]
Translates == [at : {"resume", "miss"}, u : Nat, want : Directions]
LoopStates == [at : {"off", "starting"}] \cup [at : {"get"}, from : Pipelines] \cup Waits \cup Translates

CascadeTypes ==
    /\ newest \in Pipelines /\ dir \in Directions /\ listed \subseteq Pipelines /\ polls \subseteq Pipelines
    /\ stt \subseteq [n : Nat, text : Texts, to : Pipelines] /\ text \in Seq(Texts) /\ emitted \in Nat
    /\ finals \in [Pipelines -> Seq(Nat)] /\ words \in [Pipelines -> Nat]
    /\ cache \in [Pipelines -> [Texts -> Directions \cup {"none"}]]
    /\ inFlight \in [Pipelines -> Tasks \cup {None}] /\ loop \in [Pipelines -> LoopStates]
    /\ fed \in Seq([u : Nat, right : BOOLEAN]) /\ overtaken \in BOOLEAN

\* A transcript that waits or is worked on is in the list of them.
Transcribed(g) ==
    /\ \A j \in 1..Len(finals[g]) : finals[g][j] \in 1..Len(text)
    /\ loop[g].at \in Translating => loop[g].u \in 1..Len(text)

\* A pipeline not built yet is clean, and nobody speaks to it.
Unbuilt(g) ==
    /\ loop[g] = Off /\ g \notin polls /\ finals[g] = << >>
    /\ cache[g] = Empty /\ inFlight[g] = None
Beyond ==
    /\ \A g \in Pipelines : g > newest => Unbuilt(g)
    /\ \A s \in stt : s.to <= newest

CascadeInv == CascadeTypes /\ (\A g \in Pipelines : Transcribed(g)) /\ Beyond

\* Not overtaken, the newest pipeline is alone, and all it has cached or under way is
\* in the direction that holds.
OneDirection ==
    overtaken \/
    /\ \A g \in Pipelines : Alive(g) \/ g \in polls => g = newest
    /\ \A t \in Texts : cache[newest][t] \in {"none", dir}
    /\ inFlight[newest] # None => inFlight[newest].dir = dir
    /\ loop[newest].at \in Translating => loop[newest].want = dir
    /\ loop[newest].at = "await" => loop[newest].task = dir
    /\ \A i \in 1..Len(fed) : fed[i].right

\* One loop at a time: what was said, the transcript it is at and those that wait
\* follow one another.
OneOrder ==
    newest = 1 \/ ~overtaken =>
    /\ \A g \in Pipelines : Alive(g) => g = newest
    /\ loop[newest].at = "get" => loop[newest].from = newest
    /\ \A i, j \in 1..Len(fed) : i < j => fed[i].u < fed[j].u
    /\ \A i, j \in 1..Len(finals[newest]) : i < j => finals[newest][i] < finals[newest][j]
    /\ \A i \in 1..Len(fed) : fed[i].u <= Len(text)
    /\ \A i \in 1..Len(fed), j \in 1..Len(finals[newest]) : fed[i].u < finals[newest][j]
    /\ loop[newest].at \in Translating =>
         /\ \A i \in 1..Len(fed) : fed[i].u < loop[newest].u
         /\ \A j \in 1..Len(finals[newest]) : loop[newest].u < finals[newest][j]

-----------------------------------------------------------------------------
LEMMA Queued ==
    ASSUME NEW S, NEW q \in Seq(S), NEW e \in S
    PROVE  /\ Append(q, e) \in Seq(S) /\ Len(Append(q, e)) = Len(q) + 1
           /\ \A i \in 1..Len(q) : Append(q, e)[i] = q[i]
           /\ Append(q, e)[Len(q) + 1] = e
OBVIOUS

LEMMA Member ==
    ASSUME NEW S, NEW q \in Seq(S), NEW i \in 1..Len(q)
    PROVE  q[i] \in S
OBVIOUS

LEMMA Taken ==
    ASSUME NEW S, NEW q \in Seq(S), q # << >>
    PROVE  /\ Head(q) = q[1] /\ Head(q) \in S /\ Len(q) \in Nat \ {0}
           /\ Tail(q) \in Seq(S) /\ Len(Tail(q)) = Len(q) - 1
           /\ \A i \in 1..Len(Tail(q)) : Tail(q)[i] = q[i + 1]
OBVIOUS

\* A queue of transcripts that are there stays one.
LEMMA AllQueued ==
    ASSUME NEW q \in Seq(Nat), NEW n \in Nat, \A j \in 1..Len(q) : q[j] \in 1..n
    PROVE  \A j \in 1..Len(Append(q, n + 1)) : Append(q, n + 1)[j] \in 1..(n + 1)
<1>1. /\ Len(Append(q, n + 1)) = Len(q) + 1 /\ Len(q) \in Nat
      /\ \A i \in 1..Len(q) : Append(q, n + 1)[i] = q[i]
      /\ Append(q, n + 1)[Len(q) + 1] = n + 1
  OBVIOUS
<1>2. ASSUME NEW j \in 1..Len(Append(q, n + 1)) PROVE Append(q, n + 1)[j] \in 1..(n + 1)
  <2>1. j \in 1..Len(q) \/ j = Len(q) + 1  BY <1>1
  <2>2. CASE j \in 1..Len(q)
    <3>1. q[j] \in 1..n /\ Append(q, n + 1)[j] = q[j]  BY <1>1, <2>2
    <3> QED  BY <3>1
  <2> QED  BY <1>1, <2>1, <2>2
<1> QED  BY <1>2

LEMMA AllTaken ==
    ASSUME NEW q \in Seq(Nat), NEW n \in Nat, q # << >>, \A j \in 1..Len(q) : q[j] \in 1..n
    PROVE  \A j \in 1..Len(Tail(q)) : Tail(q)[j] \in 1..n
<1>1. /\ Len(Tail(q)) = Len(q) - 1 /\ Len(q) \in Nat \ {0}
      /\ \A i \in 1..Len(Tail(q)) : Tail(q)[i] = q[i + 1]
  BY Taken
<1>2. ASSUME NEW j \in 1..Len(Tail(q)) PROVE Tail(q)[j] \in 1..n
  <2>1. j + 1 \in 1..Len(q) /\ Tail(q)[j] = q[j + 1]  BY <1>1
  <2> QED  BY <2>1
<1> QED  BY <1>2

\* What a loop that has a transcript waits for.
LEMMA Awaiting ==
    ASSUME NEW u \in Nat, NEW want \in Directions, NEW d \in Directions
    PROVE  \E s \in Waits : /\ s = [at |-> "await", u |-> u, want |-> want, task |-> d]
                           /\ s.u = u /\ s.want = want /\ s.at = "await" /\ s.task = d
<1> DEFINE s == [at |-> "await", u |-> u, want |-> want, task |-> d]
<1>1. s \in Waits  BY DEF Waits
<1>2. s.u = u /\ s.want = want /\ s.at = "await" /\ s.task = d  OBVIOUS
<1> HIDE DEF s
<1>3. \E x \in Waits : x = s /\ x.u = u /\ x.want = want /\ x.at = "await" /\ x.task = d
  BY <1>1, <1>2
<1> QED  BY <1>3 DEF s

LEMMA Situations ==
    ASSUME NEW u \in Nat, NEW want \in Directions, NEW a \in {"resume", "miss"}
    PROVE  \E s \in Translates : /\ s = [at |-> a, u |-> u, want |-> want]
                                /\ s.u = u /\ s.want = want /\ s.at = a
<1> DEFINE s == [at |-> a, u |-> u, want |-> want]
<1>1. s \in Translates  BY DEF Translates
<1>2. s.u = u /\ s.want = want /\ s.at = a  OBVIOUS
<1> HIDE DEF s
<1>3. \E x \in Translates : x = s /\ x.u = u /\ x.want = want /\ x.at = a
  BY <1>1, <1>2
<1> QED  BY <1>3 DEF s

\* The state of a loop by where it is.
LEMMA LoopKinds ==
    ASSUME CascadeTypes, NEW g \in Pipelines
    PROVE  /\ loop[g] \in LoopStates
           /\ Alive(g) <=> loop[g].at = "get" \/ loop[g].at \in Translating
           /\ loop[g].at = "get" => loop[g].from \in Pipelines
           /\ loop[g].at \in Translating => loop[g].u \in Nat /\ loop[g].want \in Directions
           /\ loop[g].at = "await" => loop[g].task \in Directions
<1>1. loop[g] \in LoopStates  BY DEF CascadeTypes
<1>2. CASE loop[g] \in [at : {"off", "starting"}]
  BY <1>1, <1>2 DEF Alive, Off, Starting, Translating
<1>3. CASE loop[g] \in [at : {"get"}, from : Pipelines]
  BY <1>1, <1>3 DEF Alive, Off, Starting, Translating
<1>4. CASE loop[g] \in Waits
  BY <1>1, <1>4 DEF Alive, Off, Starting, Translating, Waits
<1>5. CASE loop[g] \in Translates
  BY <1>1, <1>5 DEF Alive, Off, Starting, Translating, Translates
<1> QED  BY <1>1, <1>2, <1>3, <1>4, <1>5 DEF LoopStates

LEMMA InitCascade == SpeechInit => CascadeInv /\ OneDirection /\ OneOrder
<1> SUFFICES ASSUME SpeechInit PROVE CascadeInv /\ OneDirection /\ OneOrder
  OBVIOUS
<1> USE SpeechAssumption
<1>1. 1 \in Pipelines  BY DEF Pipelines
<1>2. Empty \in [Texts -> Directions \cup {"none"}]  BY DEF Empty
<1>3. CascadeTypes
  <2>1. loop \in [Pipelines -> LoopStates]
    BY <1>1 DEF SpeechInit, LoopStates, Getting, Off
  <2>2. cache \in [Pipelines -> [Texts -> Directions \cup {"none"}]]
    BY <1>2 DEF SpeechInit
  <2>3. /\ finals \in [Pipelines -> Seq(Nat)] /\ words \in [Pipelines -> Nat]
        /\ inFlight \in [Pipelines -> Tasks \cup {None}]
    BY DEF SpeechInit
  <2>4. stt = {} /\ text \in Seq(Texts) /\ fed \in Seq([u : Nat, right : BOOLEAN]) /\ emitted \in Nat
    BY DEF SpeechInit
  <2> QED  BY <1>1, <2>1, <2>2, <2>3, <2>4 DEF SpeechInit, CascadeTypes, Directions
<1>4. \A g \in Pipelines : Transcribed(g)
  BY DEF SpeechInit, Transcribed, Getting, Off, Translating
<1>5. Beyond
  BY <1>1 DEF SpeechInit, Beyond, Unbuilt, Pipelines
<1>6. OneDirection /\ OneOrder
  BY <1>1 DEF SpeechInit, OneDirection, OneOrder, Alive, Getting, Off, Empty, Translating
<1> QED  BY <1>3, <1>4, <1>5, <1>6 DEF CascadeInv

-----------------------------------------------------------------------------
\* Speech to text.
HeardStep ==
    \/ \E t \in Texts : EmitSegment(t)
    \/ \E s \in stt : OnSpeechSegment(s) \/ SegmentDropped(s)

LEMMA HeardInv == ASSUME CascadeInv, HeardStep PROVE CascadeInv'
<1> USE DEF CascadeInv
<1>1. CASE \E t \in Texts : EmitSegment(t)
  <2>1. CascadeTypes'
    BY <1>1 DEF EmitSegment, CascadeTypes, pipeline, changes
  <2>2. (\A g \in Pipelines : Transcribed(g))'
    BY <1>1 DEF EmitSegment, Transcribed
  <2>3. Beyond'
    BY <1>1 DEF EmitSegment, Beyond, Unbuilt, CascadeTypes, pipeline, Pipelines
  <2> QED  BY <2>1, <2>2, <2>3
<1>2. ASSUME NEW s \in stt, SegmentDropped(s) PROVE CascadeInv'
  <2>1. CascadeTypes'
    BY <1>2 DEF SegmentDropped, CascadeTypes, pipeline, changes
  <2>2. (\A g \in Pipelines : Transcribed(g))'
    BY <1>2 DEF SegmentDropped, Transcribed
  <2>3. Beyond'
    BY <1>2 DEF SegmentDropped, Beyond, Unbuilt, CascadeTypes, pipeline
  <2> QED  BY <2>1, <2>2, <2>3
<1>3. ASSUME NEW s \in stt, OnSpeechSegment(s) PROVE CascadeInv'
  <2>1. s.text \in Texts /\ s.to \in Pipelines /\ s.to <= newest
    BY DEF CascadeTypes, Beyond
  <2>2. text' \in Seq(Texts) /\ Len(text') = Len(text) + 1 /\ Len(text) \in Nat
    BY <1>3, <2>1, Queued DEF OnSpeechSegment, CascadeTypes
  <2>3. /\ finals'[s.to] \in Seq(Nat) /\ Len(finals'[s.to]) = Len(finals[s.to]) + 1
        /\ \A i \in 1..Len(finals[s.to]) : finals'[s.to][i] = finals[s.to][i]
        /\ finals'[s.to][Len(finals[s.to]) + 1] = Len(text')
        /\ finals[s.to] \in Seq(Nat)
    <3>1. finals[s.to] \in Seq(Nat) /\ finals'[s.to] = Append(finals[s.to], Len(text'))
      BY <1>3, <2>1 DEF OnSpeechSegment, CascadeTypes
    <3> QED  BY <3>1, <2>2, Queued
  <2>4. \A g \in Pipelines : g # s.to => finals'[g] = finals[g]
    BY <1>3, <2>1 DEF OnSpeechSegment, CascadeTypes
  <2>5. finals' \in [Pipelines -> Seq(Nat)]
    <3>1. finals' = [finals EXCEPT ![s.to] = finals'[s.to]]
      BY <1>3, <2>1 DEF OnSpeechSegment, CascadeTypes
    <3> QED  BY <3>1, <2>3 DEF CascadeTypes
  <2>6. CascadeTypes'
    BY <1>3, <2>2, <2>5 DEF OnSpeechSegment, CascadeTypes, pipeline, changes
  <2>7. ASSUME NEW g \in Pipelines PROVE Transcribed(g)'
    <3>1. Transcribed(g) /\ finals[g] \in Seq(Nat)  BY DEF CascadeTypes
    <3>2. loop'[g] = loop[g]  BY <1>3 DEF OnSpeechSegment
    <3>3. CASE g = s.to
      <4>1. \A j \in 1..Len(finals'[g]) : finals'[g][j] \in 1..Len(text')
        <5>1. finals'[g] = Append(finals[g], Len(text) + 1)
          BY <1>3, <2>1, <2>2, <3>3 DEF OnSpeechSegment, CascadeTypes
        <5> QED  BY <3>1, <2>2, <5>1, AllQueued DEF Transcribed
      <4> QED  BY <3>1, <3>2, <2>2, <4>1 DEF Transcribed
    <3>4. CASE g # s.to
      BY <3>1, <3>2, <3>4, <2>2, <2>4 DEF Transcribed
    <3> QED  BY <3>3, <3>4
  <2>8. Beyond'
    BY <1>3, <2>1, <2>4 DEF OnSpeechSegment, Beyond, Unbuilt, CascadeTypes, pipeline, Pipelines
  <2> QED  BY <2>6, <2>7, <2>8
<1> QED  BY <1>1, <1>2, <1>3 DEF HeardStep

-----------------------------------------------------------------------------
\* Speculation: writes into the cache of a pipeline.
LEMMA CacheWrite ==
    ASSUME NEW c \in [Pipelines -> [Texts -> Directions \cup {"none"}]], NEW g \in Pipelines,
           NEW k \in Texts, NEW d \in Directions \cup {"none"}
    PROVE  /\ [c EXCEPT ![g][k] = d] \in [Pipelines -> [Texts -> Directions \cup {"none"}]]
           /\ \A h \in Pipelines : h # g => [c EXCEPT ![g][k] = d][h] = c[h]
           /\ \A t \in Texts : [c EXCEPT ![g][k] = d][g][t] = IF t = k THEN d ELSE c[g][t]
OBVIOUS

SpecStep ==
    \E g \in Pipelines : PollerToSpecCache(g) \/ (\E ok \in BOOLEAN : TranslateAndStore(g, ok))

\* A pipeline that is at work or polled is built; a task too.
LEMMA Built ==
    ASSUME CascadeInv, NEW g \in Pipelines,
           loop[g] # Off \/ g \in polls \/ inFlight[g] # None
    PROVE  g <= newest
BY DEF CascadeInv, Beyond, Unbuilt, CascadeTypes, Pipelines

LEMMA SpecInv == ASSUME CascadeInv, SpecStep PROVE CascadeInv'
<1> USE DEF CascadeInv
<1>1. ASSUME NEW g \in Pipelines, PollerToSpecCache(g) PROVE CascadeInv'
  <2>1. words[g] + 1 \in Texts
    BY <1>1, SpeechAssumption DEF PollerToSpecCache, CascadeTypes, Texts
  <2>2. g <= newest /\ newest \in Nat /\ g \in Nat
    BY <1>1, Built DEF PollerToSpecCache, CascadeTypes, Pipelines
  <2>3. [key |-> words[g] + 1, dir |-> dir] \in Tasks
    BY <2>1 DEF Tasks, CascadeTypes
  <2>4. inFlight' \in [Pipelines -> Tasks \cup {None}] /\ \A h \in Pipelines : h # g => inFlight'[h] = inFlight[h]
    BY <1>1, <2>3 DEF PollerToSpecCache, OnWords, CascadeTypes
  <2>5. CascadeTypes'
    BY <1>1, <2>4 DEF PollerToSpecCache, OnWords, CascadeTypes, pipeline, heard, changes
  <2>6. (\A h \in Pipelines : Transcribed(h))'
    BY <1>1 DEF PollerToSpecCache, Transcribed, heard
  <2>7. Beyond'
    BY <1>1, <2>2, <2>4 DEF PollerToSpecCache, Beyond, Unbuilt, pipeline, heard, Pipelines
  <2> QED  BY <2>5, <2>6, <2>7
<1>2. ASSUME NEW g \in Pipelines, NEW ok \in BOOLEAN, TranslateAndStore(g, ok) PROVE CascadeInv'
  <2>1. inFlight[g] \in Tasks
    BY <1>2 DEF TranslateAndStore, CascadeTypes
  <2>2. g <= newest /\ newest \in Nat /\ g \in Nat
    BY <1>2, Built DEF TranslateAndStore, CascadeTypes, Pipelines
  <2>3. inFlight[g].key \in Texts /\ inFlight[g].dir \in Directions
    BY <2>1 DEF Tasks
  <2>4. /\ cache' \in [Pipelines -> [Texts -> Directions \cup {"none"}]]
        /\ \A h \in Pipelines : h # g => cache'[h] = cache[h]
    BY <1>2, <2>3, CacheWrite DEF TranslateAndStore, CascadeTypes
  <2>5. CascadeTypes'
    BY <1>2, <2>4 DEF TranslateAndStore, CascadeTypes, pipeline, heard, changes
  <2>6. (\A h \in Pipelines : Transcribed(h))'
    BY <1>2 DEF TranslateAndStore, Transcribed, heard
  <2>7. Beyond'
    BY <1>2, <2>2, <2>4 DEF TranslateAndStore, Beyond, Unbuilt, pipeline, heard, Pipelines, CascadeTypes
  <2> QED  BY <2>5, <2>6, <2>7
<1> QED  BY <1>1, <1>2 DEF SpecStep

-----------------------------------------------------------------------------
\* A turn of a loop: the transcript u it takes or has taken, and the direction with
\* it; where the loop goes; what it stores.
Picks(g, u, want) ==
    \/ /\ loop[g].at = "get" /\ finals[loop[g].from] # << >>
       /\ u = Head(finals[loop[g].from]) /\ want = dir
       /\ finals' = [finals EXCEPT ![loop[g].from] = Tail(finals[loop[g].from])]
    \/ /\ loop[g].at \in Translating /\ u = loop[g].u /\ want = loop[g].want /\ finals' = finals

Goes(g, u, want) ==
    \/ /\ loop' = [loop EXCEPT ![g] = Getting(newest)]
       /\ \/ fed' = fed
          \/ \E d \in Directions :
                fed' = Append(fed, [u |-> u, right |-> d = want]) /\ d \in {want, cache[g][text[u]]}
    \/ /\ fed' = fed
       /\ \E s \in Waits \cup Translates :
             /\ loop' = [loop EXCEPT ![g] = s] /\ s.u = u /\ s.want = want
             /\ s.at = "await" => inFlight[g] # None /\ s.task = inFlight[g].dir

Stores(g, u, want) ==
    \/ cache' = cache
    \/ cache' = [cache EXCEPT ![g][text[u]] = want]
    \/ loop[g].at = "await" /\ cache' = [cache EXCEPT ![g][text[u]] = loop[g].task]

LEMMA LoopTurn ==
    ASSUME CascadeInv, NEW g \in Pipelines, LoopStep(g)
    PROVE  /\ \E u \in 1..Len(text), want \in Directions :
                 Picks(g, u, want) /\ Goes(g, u, want) /\ Stores(g, u, want) /\ text[u] \in Texts
           /\ inFlight' = inFlight \/ inFlight' = [inFlight EXCEPT ![g] = None]
           /\ words' \in [Pipelines -> Nat]
           /\ UNCHANGED <<pipeline, heard, polls, changes>>
<1> USE DEF CascadeInv
<1> DEFINE r == loop[g]  h == r.from
<1>1. /\ text \in Seq(Texts) /\ dir \in Directions /\ words \in [Pipelines -> Nat]
      /\ cache[g] \in [Texts -> Directions \cup {"none"}]
      /\ inFlight[g] \in Tasks \cup {None}
  BY DEF CascadeTypes
<1>2. CASE GetOrTranslate(g)
  <2>1. h \in Pipelines /\ r.at = "get" /\ finals[h] # << >>
    BY <1>2, LoopKinds DEF GetOrTranslate
  <2>2. PICK u : u = Head(finals[h])  OBVIOUS
  <2>3. u \in 1..Len(text) /\ text[u] \in Texts
    <3>1. finals[h] \in Seq(Nat) /\ Transcribed(h)  BY <2>1 DEF CascadeTypes
    <3>2. u = finals[h][1] /\ 1 \in 1..Len(finals[h])  BY <2>1, <2>2, <3>1, Taken
    <3>3. u \in 1..Len(text)  BY <3>1, <3>2 DEF Transcribed
    <3> QED  BY <3>3, <1>1
  <2>4. u \in Nat /\ Picks(g, u, dir) /\ Stores(g, u, dir)
    <3>1. u \in Nat  BY <1>1, <2>3
    <3>2. /\ finals' = [finals EXCEPT ![loop[g].from] = Tail(finals[loop[g].from])] /\ cache' = cache
          /\ u = Head(finals[loop[g].from])
      <4> HIDE DEF CascadeInv
      <4> QED  BY <1>2, <2>2 DEF GetOrTranslate
    <3>3. loop[g].at = "get" /\ finals[loop[g].from] # << >>  BY <2>1
    <3> HIDE DEF CascadeInv, r, h
    <3> QED  BY <3>1, <3>2, <3>3 DEF Picks, Stores
  <2>5. words' \in [Pipelines -> Nat] /\ UNCHANGED <<pipeline, heard, polls, changes>>
    BY <1>1, <1>2 DEF GetOrTranslate
  <2>6. CASE cache[g][text[u]] # "none" /\ Say(g, u, dir, cache[g][text[u]])
    <3>1. cache[g][text[u]] \in Directions  BY <1>1, <2>3, <2>6
    <3>2. Goes(g, u, dir)  BY <2>6, <3>1 DEF Say, Goes
    <3>3. inFlight' = [inFlight EXCEPT ![g] = None]  BY <2>6 DEF Say
    <3> QED  BY <1>1, <2>3, <2>4, <2>5, <3>2, <3>3
  <2>7. CASE /\ inFlight[g] # None /\ inFlight' = [inFlight EXCEPT ![g] = None] /\ UNCHANGED fed
             /\ loop' = [loop EXCEPT ![g] = [at |-> "await", u |-> u, want |-> dir, task |-> inFlight[g].dir]]
    <3>1. PICK d \in Directions : d = inFlight[g].dir  BY <1>1, <2>7 DEF Tasks
    <3>2. PICK s \in Waits : /\ s = [at |-> "await", u |-> u, want |-> dir, task |-> d]
                             /\ s.u = u /\ s.want = dir /\ s.at = "await" /\ s.task = d
      BY <1>1, <2>4, Awaiting
    <3>3. Goes(g, u, dir)  BY <2>7, <3>1, <3>2 DEF Goes
    <3> QED  BY <1>1, <2>3, <2>4, <2>5, <2>7, <3>3
  <2>8. CASE /\ UNCHANGED <<fed, inFlight>>
             /\ loop' = [loop EXCEPT ![g] = [at |-> "miss", u |-> u, want |-> dir]]
    <3>2. PICK s \in Translates : /\ s = [at |-> "miss", u |-> u, want |-> dir]
                                  /\ s.u = u /\ s.want = dir /\ s.at = "miss"
      BY <1>1, <2>4, Situations
    <3>3. Goes(g, u, dir)  BY <2>8, <3>2 DEF Goes
    <3> QED  BY <1>1, <2>3, <2>4, <2>5, <2>8, <3>3
  <2> QED  BY <1>2, <2>2, <2>6, <2>7, <2>8 DEF GetOrTranslate
<1>3. ASSUME r.at \in Translating
      PROVE  /\ r.u \in 1..Len(text) /\ r.u \in Nat /\ text[r.u] \in Texts /\ r.want \in Directions
             /\ finals' = finals => Picks(g, r.u, r.want)
  <2>1. Transcribed(g)  OBVIOUS
  <2>2. r.u \in 1..Len(text) /\ r.want \in Directions  BY <1>3, <2>1, LoopKinds DEF Transcribed
  <2> QED  BY <1>1, <1>3, <2>2 DEF Picks
<1>4. CASE Resume(g)
  <2>1. r.at \in Translating /\ finals' = finals /\ cache' = cache /\ words' = words
        /\ UNCHANGED <<pipeline, heard, polls, changes>>
    BY <1>4 DEF Resume, Translating
  <2>2. Stores(g, r.u, r.want)  BY <2>1 DEF Stores
  <2>3. CASE cache[g][text[r.u]] # "none" /\ Say(g, r.u, r.want, cache[g][text[r.u]])
    <3>1. cache[g][text[r.u]] \in Directions  BY <1>1, <1>3, <2>1, <2>3
    <3>2. Goes(g, r.u, r.want)  BY <2>3, <3>1 DEF Say, Goes
    <3>3. inFlight' = [inFlight EXCEPT ![g] = None]  BY <2>3 DEF Say
    <3> QED  BY <1>1, <1>3, <2>1, <2>2, <3>2, <3>3
  <2>4. CASE /\ UNCHANGED <<fed, inFlight>>
             /\ loop' = [loop EXCEPT ![g] = [at |-> "miss", u |-> r.u, want |-> r.want]]
    <3>1. PICK s \in Translates : /\ s = [at |-> "miss", u |-> r.u, want |-> r.want]
                                  /\ s.u = r.u /\ s.want = r.want /\ s.at = "miss"
      BY <1>3, <2>1, Situations
    <3>2. Goes(g, r.u, r.want)  BY <2>4, <3>1 DEF Goes
    <3> QED  BY <1>1, <1>3, <2>1, <2>2, <2>4, <3>2
  <2> QED  BY <1>4, <2>3, <2>4 DEF Resume
<1>5. ASSUME NEW ok \in BOOLEAN, DetachedEnds(g, ok)
      PROVE  \E u \in 1..Len(text), want \in Directions :
               Picks(g, u, want) /\ Goes(g, u, want) /\ Stores(g, u, want) /\ text[u] \in Texts
  <2>1. r.at \in Translating /\ r.at = "await" /\ finals' = finals /\ fed' = fed
    BY <1>5 DEF DetachedEnds, Translating
  <2>2. Stores(g, r.u, r.want)  BY <1>5, <2>1 DEF DetachedEnds, Stores
  <2>3. PICK s \in Translates : /\ s = [at |-> "resume", u |-> r.u, want |-> r.want]
                                /\ s.u = r.u /\ s.want = r.want /\ s.at = "resume"
    BY <1>3, <2>1, Situations
  <2>4. Goes(g, r.u, r.want)  BY <1>5, <2>1, <2>3 DEF DetachedEnds, Goes
  <2> QED  BY <1>3, <2>1, <2>2, <2>4
<1>6. ASSUME NEW ok \in BOOLEAN, TranslateFn(g, ok)
      PROVE  \E u \in 1..Len(text), want \in Directions :
               Picks(g, u, want) /\ Goes(g, u, want) /\ Stores(g, u, want) /\ text[u] \in Texts
  <2>1. r.at \in Translating /\ finals' = finals
    BY <1>6 DEF TranslateFn, Translating
  <2>2. Stores(g, r.u, r.want)  BY <1>6 DEF TranslateFn, Stores
  <2>3. Goes(g, r.u, r.want)  BY <1>3, <1>6, <2>1 DEF TranslateFn, Say, Goes
  <2> QED  BY <1>3, <2>1, <2>2, <2>3
<1>7. ASSUME NEW ok \in BOOLEAN, DetachedEnds(g, ok) \/ TranslateFn(g, ok)
      PROVE  /\ inFlight' = inFlight \/ inFlight' = [inFlight EXCEPT ![g] = None]
             /\ words' \in [Pipelines -> Nat]
             /\ UNCHANGED <<pipeline, heard, polls, changes>>
  BY <1>1, <1>7 DEF DetachedEnds, TranslateFn, Say
<1> QED  BY <1>2, <1>4, <1>5, <1>6, <1>7 DEF LoopStep

\* Where a loop goes to.
LEMMA GoesTo ==
    ASSUME CascadeInv, NEW g \in Pipelines, NEW u \in 1..Len(text), NEW want \in Directions,
           Goes(g, u, want)
    PROVE  /\ fed' \in Seq([u : Nat, right : BOOLEAN])
           /\ \E s \in LoopStates :
                /\ loop' = [loop EXCEPT ![g] = s] /\ s # Off
                /\ s.at \in Translating => s.u = u
<1>1. newest \in Pipelines /\ fed \in Seq([u : Nat, right : BOOLEAN])  BY DEF CascadeInv, CascadeTypes
<1>2. ASSUME NEW d \in Directions
      PROVE  Append(fed, [u |-> u, right |-> d = want]) \in Seq([u : Nat, right : BOOLEAN])
  BY <1>1
<1>3. Getting(newest) \in LoopStates /\ Getting(newest).at = "get" /\ Getting(newest) # Off
  BY <1>1 DEF Getting, LoopStates, Off
<1>4. \A s \in Waits \cup Translates : s \in LoopStates /\ s.at # "off"
  BY DEF Waits, Translates, LoopStates
<1>5. CASE loop' = [loop EXCEPT ![g] = Getting(newest)]
  BY <1>1, <1>2, <1>3, <1>5 DEF Goes, Translating
<1>6. CASE fed' = fed /\ \E s \in Waits \cup Translates : loop' = [loop EXCEPT ![g] = s] /\ s.u = u
  <2>1. PICK s \in Waits \cup Translates : loop' = [loop EXCEPT ![g] = s] /\ s.u = u  BY <1>6
  <2>2. s \in LoopStates /\ s # Off  BY <1>4 DEF Off
  <2> QED  BY <1>1, <1>6, <2>1, <2>2
<1> QED  BY <1>5, <1>6 DEF Goes

LEMMA LoopStepInv == ASSUME CascadeInv, NEW g \in Pipelines, LoopStep(g) PROVE CascadeInv'
<1> USE DEF CascadeInv
<1>1. PICK u \in 1..Len(text), want \in Directions :
        Picks(g, u, want) /\ Goes(g, u, want) /\ Stores(g, u, want) /\ text[u] \in Texts
  BY LoopTurn
<1>2. /\ inFlight' = inFlight \/ inFlight' = [inFlight EXCEPT ![g] = None]
      /\ words' \in [Pipelines -> Nat]
      /\ UNCHANGED <<pipeline, heard, polls, changes>>
  BY LoopTurn
<1>3. PICK s \in LoopStates :
        /\ loop' = [loop EXCEPT ![g] = s] /\ s # Off
        /\ s.at \in Translating => s.u = u
  BY <1>1, GoesTo
<1>4. fed' \in Seq([u : Nat, right : BOOLEAN])  BY <1>1, GoesTo
<1>5. g <= newest
  <2>1. loop[g] # Off  BY <1>1 DEF Picks, Off, Translating
  <2> QED  BY <2>1, Built
<1>6. /\ cache' \in [Pipelines -> [Texts -> Directions \cup {"none"}]]
      /\ \A h \in Pipelines : h # g => cache'[h] = cache[h]
  <2>1. loop[g].at = "await" => loop[g].task \in Directions  BY LoopKinds
  <2>2. cache \in [Pipelines -> [Texts -> Directions \cup {"none"}]]  BY DEF CascadeTypes
  <2>3. ASSUME NEW d \in Directions, cache' = [cache EXCEPT ![g][text[u]] = d]
        PROVE  /\ cache' \in [Pipelines -> [Texts -> Directions \cup {"none"}]]
               /\ \A h \in Pipelines : h # g => cache'[h] = cache[h]
    BY <1>1, <2>2, <2>3, CacheWrite
  <2> QED  BY <1>1, <2>1, <2>2, <2>3 DEF Stores
<1>7. /\ finals' \in [Pipelines -> Seq(Nat)]
      /\ \A h \in Pipelines :
           finals'[h] = finals[h] \/ (finals[h] # << >> /\ finals'[h] = Tail(finals[h]))
  <2>0. finals \in [Pipelines -> Seq(Nat)]  BY DEF CascadeTypes
  <2> HIDE DEF CascadeInv
  <2>1. CASE finals' = finals  BY <2>0, <2>1
  <2>2. CASE loop[g].at = "get" /\ finals[loop[g].from] # << >>
             /\ finals' = [finals EXCEPT ![loop[g].from] = Tail(finals[loop[g].from])]
    <3>1. loop[g].from \in Pipelines  BY <2>2, LoopKinds DEF CascadeInv
    <3>2. PICK k \in Pipelines : k = loop[g].from  BY <3>1
    <3>3. Tail(finals[k]) \in Seq(Nat)  BY <2>0, <2>2, <3>2, Taken
    <3>4. finals' = [finals EXCEPT ![k] = Tail(finals[k])] /\ finals[k] # << >>  BY <2>2, <3>2
    <3> QED  BY <2>0, <3>2, <3>3, <3>4
  <2> QED  BY <1>1, <2>1, <2>2 DEF Picks
<1>8. CascadeTypes'
  <2>1. inFlight' \in [Pipelines -> Tasks \cup {None}]  BY <1>2 DEF CascadeTypes
  <2>2. loop' \in [Pipelines -> LoopStates]  BY <1>3 DEF CascadeTypes
  <2> QED  BY <1>2, <1>4, <1>6, <1>7, <2>1, <2>2 DEF CascadeTypes, pipeline, heard, changes
<1>9. ASSUME NEW h \in Pipelines PROVE Transcribed(h)'
  <2>1. Transcribed(h) /\ finals[h] \in Seq(Nat) /\ text' = text  BY <1>2 DEF CascadeTypes, heard
  <2>2. \A j \in 1..Len(finals'[h]) : finals'[h][j] \in 1..Len(text)
    <3>1. CASE finals'[h] = finals[h]  BY <2>1, <3>1 DEF Transcribed
    <3>2. CASE finals[h] # << >> /\ finals'[h] = Tail(finals[h])
      <4>1. Len(text) \in Nat  BY DEF CascadeTypes
      <4> QED  BY <2>1, <3>2, <4>1, AllTaken DEF Transcribed
    <3> QED  BY <1>7, <3>1, <3>2
  <2>3. loop'[h].at \in Translating => loop'[h].u \in 1..Len(text)
    <3>1. loop'[h] = IF h = g THEN s ELSE loop[h]  BY <1>3 DEF CascadeTypes
    <3> QED  BY <1>3, <2>1, <3>1 DEF Transcribed
  <2> QED  BY <2>1, <2>2, <2>3 DEF Transcribed
<1>10. Beyond'
  <2>1. newest' = newest /\ stt' = stt /\ polls' = polls  BY <1>2 DEF pipeline, heard
  <2>2. ASSUME NEW h \in Pipelines, h > newest PROVE Unbuilt(h)'
    <3>1. Unbuilt(h) /\ h # g  BY <1>5, <2>2 DEF Beyond, CascadeTypes, Pipelines
    <3>2. loop'[h] = loop[h] /\ inFlight'[h] = inFlight[h] /\ finals'[h] = finals[h]
      BY <1>2, <1>3, <1>7, <3>1 DEF CascadeTypes, Unbuilt
    <3> QED  BY <1>6, <2>1, <3>1, <3>2 DEF Unbuilt
  <2> QED  BY <2>1, <2>2 DEF Beyond
<1> QED  BY <1>8, <1>9, <1>10

-----------------------------------------------------------------------------
\* Data messages.
LEMMA IntentInv == ASSUME CascadeInv, NEW d \in Directions, Intent(d) PROVE CascadeInv'
<1> USE DEF CascadeInv
<1>1. newest \in Pipelines /\ Empty \in [Texts -> Directions \cup {"none"}]
  BY DEF CascadeTypes, Empty
<1>2. cache' = [cache EXCEPT ![newest] = Empty] /\ inFlight' = [inFlight EXCEPT ![newest] = None]
  BY DEF Intent
<1>3. CascadeTypes'
  <2>1. cache' \in [Pipelines -> [Texts -> Directions \cup {"none"}]]  BY <1>1, <1>2 DEF CascadeTypes
  <2>2. inFlight' \in [Pipelines -> Tasks \cup {None}]  BY <1>1, <1>2 DEF CascadeTypes
  <2> QED  BY <2>1, <2>2 DEF Intent, CascadeTypes, heard, Overtakes
<1>4. (\A g \in Pipelines : Transcribed(g))'
  BY DEF Intent, Transcribed, heard
<1>5. Beyond'
  BY <1>1, <1>2 DEF Intent, Beyond, Unbuilt, heard, CascadeTypes
<1> QED  BY <1>3, <1>4, <1>5

LEMMA LaunchInv == ASSUME CascadeInv, NEW g \in Pipelines, Launch(g) PROVE CascadeInv'
<1> USE DEF CascadeInv
<1>1. newest \in Pipelines /\ Getting(newest) \in LoopStates /\ Getting(newest).at \notin Translating
  BY DEF CascadeTypes, Getting, LoopStates, Translating
<1>2. loop' = [loop EXCEPT ![g] = Getting(newest)] /\ g <= newest
  <2>1. loop[g] # Off  BY DEF Launch, Starting, Off
  <2> QED  BY <2>1, Built DEF Launch
<1>3. CascadeTypes'
  <2>1. loop' \in [Pipelines -> LoopStates]  BY <1>1, <1>2 DEF CascadeTypes
  <2> QED  BY <2>1 DEF Launch, CascadeTypes, heard
<1>4. (\A h \in Pipelines : Transcribed(h))'
  BY <1>1, <1>2 DEF Launch, Transcribed, heard, CascadeTypes
<1>5. Beyond'
  BY <1>1, <1>2 DEF Launch, Beyond, Unbuilt, heard, CascadeTypes, Pipelines
<1> QED  BY <1>3, <1>4, <1>5

\* A cancelled loop is gone, or goes on with its transcript.
LEMMA CancelledIs ==
    ASSUME CascadeInv, NEW g \in Pipelines
    PROVE  /\ Cancelled(loop[g]) \in LoopStates
           /\ \/ Cancelled(loop[g]) = Off
              \/ /\ loop[g].at \in Translating /\ Cancelled(loop[g]).at \in Translating
                 /\ Cancelled(loop[g]).u = loop[g].u
<1>1. CASE loop[g].at = "await"
  <2>1. loop[g].u \in Nat /\ loop[g].want \in Directions  BY <1>1, LoopKinds DEF CascadeInv, Translating
  <2>2. Cancelled(loop[g]) = [at |-> "resume", u |-> loop[g].u, want |-> loop[g].want]
    BY <1>1 DEF Cancelled
  <2>3. Cancelled(loop[g]) \in Translates  BY <2>1, <2>2 DEF Translates
  <2> QED  BY <1>1, <2>2, <2>3 DEF LoopStates, Translating
<1>2. CASE loop[g].at = "resume"
  <2>1. loop[g].u \in Nat /\ loop[g].want \in Directions  BY <1>2, LoopKinds DEF CascadeInv, Translating
  <2>2. Cancelled(loop[g]) = [at |-> "miss", u |-> loop[g].u, want |-> loop[g].want]
    BY <1>2 DEF Cancelled
  <2>3. Cancelled(loop[g]) \in Translates  BY <2>1, <2>2 DEF Translates
  <2> QED  BY <1>2, <2>2, <2>3 DEF LoopStates, Translating
<1>3. CASE loop[g].at \notin {"await", "resume"}
  <2>1. Cancelled(loop[g]) = Off  BY <1>3 DEF Cancelled
  <2> QED  BY <2>1 DEF Off, LoopStates
<1> QED  BY <1>1, <1>2, <1>3

\* What a change of language leaves of the pipelines there were.
LEMMA ChangeIs ==
    ASSUME CascadeInv, NEW d \in Directions, StartOpenaiStream(d)
    PROVE  /\ newest' = newest + 1 /\ newest' \in Pipelines /\ dir' = d /\ polls' \subseteq polls
           /\ UNCHANGED <<heard, mode, listed, finals, fed, intents>>
           /\ loop' \in [Pipelines -> LoopStates] /\ loop'[newest'] = Starting
           /\ \A g \in Pipelines \ {newest'} :
                \/ loop'[g] = Off \/ loop'[g] = loop[g]
                \/ loop[g].at \in Translating /\ loop'[g].at \in Translating /\ loop'[g].u = loop[g].u
           /\ cache' \in [Pipelines -> [Texts -> Directions \cup {"none"}]]
           /\ inFlight' \in [Pipelines -> Tasks \cup {None}] /\ words' \in [Pipelines -> Nat]
           /\ \A g \in Pipelines : cache'[g] \in {Empty, cache[g]} /\ inFlight'[g] \in {None, inFlight[g]}
           /\ overtaken' = (overtaken \/ polls' # {} \/ \E g \in Pipelines : Alive(g)')
<1>1. PICK old : old = IF mode = "conversation" THEN {} ELSE listed  OBVIOUS
<1>2. PICK gone : gone = {g \in old : Cancelled(loop[g]) = Off}  OBVIOUS
<1>3. /\ newest < MaxPipelines /\ newest' = newest + 1 /\ dir' = d
      /\ loop' = [g \in Pipelines |-> IF g = newest + 1 THEN Starting
                                     ELSE IF g \in old THEN Cancelled(loop[g]) ELSE loop[g]]
      /\ polls' = polls \ old
      /\ cache' = [g \in Pipelines |-> IF g \in gone THEN Empty ELSE cache[g]]
      /\ inFlight' = [g \in Pipelines |-> IF g \in gone THEN None ELSE inFlight[g]]
      /\ words' = [g \in Pipelines |-> IF g \in gone THEN 0 ELSE words[g]]
      /\ overtaken' = (overtaken \/ polls' # {} \/ \E g \in Pipelines : Alive(g)')
      /\ UNCHANGED <<heard, mode, listed, finals, fed, intents>>
  BY <1>1, <1>2 DEF StartOpenaiStream
<1>4. CascadeTypes  BY DEF CascadeInv
<1>5. newest' \in Pipelines
  BY <1>3, <1>4, SpeechAssumption DEF CascadeTypes, Pipelines
<1>6. /\ cache' \in [Pipelines -> [Texts -> Directions \cup {"none"}]]
      /\ inFlight' \in [Pipelines -> Tasks \cup {None}] /\ words' \in [Pipelines -> Nat]
      /\ \A g \in Pipelines : cache'[g] \in {Empty, cache[g]} /\ inFlight'[g] \in {None, inFlight[g]}
  <2>1. Empty \in [Texts -> Directions \cup {"none"}]  BY DEF Empty
  <2>2. /\ cache \in [Pipelines -> [Texts -> Directions \cup {"none"}]]
        /\ inFlight \in [Pipelines -> Tasks \cup {None}] /\ words \in [Pipelines -> Nat]
    BY <1>4 DEF CascadeTypes
  <2>3. cache' \in [Pipelines -> [Texts -> Directions \cup {"none"}]]  BY <1>3, <2>1, <2>2
  <2>4. inFlight' \in [Pipelines -> Tasks \cup {None}]  BY <1>3, <2>2
  <2>5. words' \in [Pipelines -> Nat]  BY <1>3, <2>2
  <2> QED  BY <1>3, <2>3, <2>4, <2>5
<1>7. ASSUME NEW g \in Pipelines
      PROVE  /\ loop'[g] \in LoopStates
             /\ g = newest' => loop'[g] = Starting
             /\ g # newest' => \/ loop'[g] = Off \/ loop'[g] = loop[g]
                               \/ loop[g].at \in Translating /\ loop'[g].at \in Translating /\ loop'[g].u = loop[g].u
  <2>1. loop[g] \in LoopStates /\ Starting \in LoopStates  BY <1>4 DEF CascadeTypes, LoopStates, Starting
  <2> QED  BY <1>3, <2>1, CancelledIs
<1> QED
  <2>1. loop' \in [Pipelines -> LoopStates]  BY <1>3, <1>7
  <2> QED  BY <1>3, <1>5, <1>6, <1>7, <2>1

LEMMA ChangeInv == ASSUME CascadeInv, NEW d \in Directions, StartOpenaiStream(d) PROVE CascadeInv'
<1>1. CascadeTypes /\ Beyond /\ \A g \in Pipelines : Transcribed(g)  BY DEF CascadeInv
<1>2. CascadeTypes'
  BY <1>1, ChangeIs DEF CascadeTypes, heard
<1>3. ASSUME NEW g \in Pipelines PROVE Transcribed(g)'
  <2>1. Transcribed(g) /\ UNCHANGED <<text, finals>>  BY <1>1, ChangeIs DEF heard
  <2>2. loop'[g].at \in Translating => loop[g].at \in Translating /\ loop'[g].u = loop[g].u
    BY ChangeIs DEF Starting, Off, Translating
  <2> QED  BY <2>1, <2>2 DEF Transcribed
<1>4. Beyond'
  <2>1. newest \in Nat /\ newest' = newest + 1 /\ UNCHANGED <<stt, finals>>
    BY <1>1, ChangeIs DEF CascadeTypes, Pipelines, heard
  <2>2. ASSUME NEW g \in Pipelines, g > newest' PROVE Unbuilt(g)'
    <3>1. Unbuilt(g) /\ g # newest'  BY <1>1, <2>1, <2>2 DEF Beyond, Pipelines
    <3>2. loop[g] = Off  BY <3>1 DEF Unbuilt
    <3>3. loop[g].at \notin Translating  BY <3>2 DEF Off, Translating
    <3>4. loop'[g] = Off  BY <3>1, <3>2, <3>3, ChangeIs
    <3> QED  BY <2>1, <3>1, <3>4, ChangeIs DEF Unbuilt
  <2>3. \A s \in stt' : s.to <= newest'
    BY <1>1, <2>1 DEF Beyond, CascadeTypes, Pipelines
  <2> QED  BY <2>2, <2>3 DEF Beyond
<1> QED  BY <1>2, <1>3, <1>4 DEF CascadeInv

LEMMA SpeechSteps ==
    SpeechNext <=> \/ HeardStep \/ SpecStep
                   \/ \E g \in Pipelines : LoopStep(g) \/ Launch(g)
                   \/ \E d \in Directions : Intent(d) \/ StartOpenaiStream(d)
BY DEF SpeechNext, HeardStep, SpecStep

LEMMA StepCascade == CascadeInv /\ [SpeechNext]_speechVars => CascadeInv'
<1> SUFFICES ASSUME CascadeInv, [SpeechNext]_speechVars PROVE CascadeInv'
  OBVIOUS
<1>1. CASE UNCHANGED speechVars
  BY <1>1 DEF speechVars, CascadeInv, CascadeTypes, Transcribed, Beyond, Unbuilt
<1>2. CASE SpeechNext
  BY <1>2, SpeechSteps, HeardInv, SpecInv, LoopStepInv, LaunchInv, IntentInv, ChangeInv
<1> QED  BY <1>1, <1>2

-----------------------------------------------------------------------------
\* What was said stays right when what is said now is.
LEMMA SaidRight ==
    ASSUME NEW q \in Seq([u : Nat, right : BOOLEAN]), NEW e \in [u : Nat, right : BOOLEAN],
           e.right, \A i \in 1..Len(q) : q[i].right
    PROVE  \A i \in 1..Len(Append(q, e)) : Append(q, e)[i].right
<1>1. /\ Len(Append(q, e)) = Len(q) + 1 /\ Len(q) \in Nat
      /\ \A i \in 1..Len(q) : Append(q, e)[i] = q[i]
      /\ Append(q, e)[Len(q) + 1] = e
  OBVIOUS
<1>2. ASSUME NEW i \in 1..Len(Append(q, e)) PROVE Append(q, e)[i] = e \/ (i \in 1..Len(q) /\ Append(q, e)[i] = q[i])
  BY <1>1
<1> QED  BY <1>2

LEMMA LoopDirection ==
    ASSUME CascadeInv, OneDirection, NEW g \in Pipelines, LoopStep(g)
    PROVE  OneDirection'
<1>1. CASE overtaken
  BY <1>1, LoopTurn DEF OneDirection, changes
<1>2. CASE ~overtaken
  <2>1. PICK u \in 1..Len(text), want \in Directions :
          Picks(g, u, want) /\ Goes(g, u, want) /\ Stores(g, u, want) /\ text[u] \in Texts
    BY LoopTurn
  <2>2. /\ inFlight' = inFlight \/ inFlight' = [inFlight EXCEPT ![g] = None]
        /\ newest' = newest /\ dir' = dir /\ polls' = polls
    BY LoopTurn DEF pipeline
  <2>3. g = newest /\ want = dir /\ (loop[g].at = "await" => loop[g].task = dir)
    BY <1>2, <2>1, LoopKinds DEF OneDirection, Picks, CascadeInv
  <2>4. CascadeTypes /\ cache[g][text[u]] \in {"none", dir}
        /\ \A t \in Texts : cache[g][t] \in {"none", dir}
    BY <1>2, <2>1, <2>3 DEF OneDirection, CascadeInv
  <2>5. \A t \in Texts : cache'[g][t] \in {"none", dir}
    <3>1. cache \in [Pipelines -> [Texts -> Directions \cup {"none"}]] /\ dir \in Directions \cup {"none"}
      BY <2>4 DEF CascadeTypes
    <3>2. cache' = cache \/ cache' = [cache EXCEPT ![g][text[u]] = dir]
      BY <2>1, <2>3 DEF Stores
    <3> QED  BY <2>1, <2>4, <3>1, <3>2, CacheWrite
  <2>6. inFlight'[g] # None => inFlight'[g] = inFlight[g]
    BY <2>2, <2>4 DEF CascadeTypes
  <2>7. inFlight[g] # None => inFlight[g].dir = dir
    BY <1>2, <2>3 DEF OneDirection
  <2>8. \A i \in 1..Len(fed) : fed[i].right
    BY <1>2 DEF OneDirection
  <2>9. \A h \in Pipelines : h # g => loop'[h] = loop[h]
    BY <2>1, <2>4 DEF Goes, CascadeTypes
  <2>10. /\ loop'[g].at \in Translating => loop'[g].want = dir
         /\ loop'[g].at = "await" => loop'[g].task = dir
    <3>1. CASE loop' = [loop EXCEPT ![g] = Getting(newest)]
      BY <2>4, <3>1 DEF CascadeTypes, Getting, Translating
    <3>2. CASE \E s \in Waits \cup Translates :
                 /\ loop' = [loop EXCEPT ![g] = s] /\ s.u = u /\ s.want = want
                 /\ s.at = "await" => inFlight[g] # None /\ s.task = inFlight[g].dir
      BY <2>3, <2>4, <2>7, <3>2 DEF CascadeTypes
    <3> QED  BY <2>1, <3>1, <3>2 DEF Goes
  <2>11. \A i \in 1..Len(fed') : fed'[i].right
    <3>1. CASE fed' = fed  BY <2>8, <3>1
    <3>2. ASSUME NEW d \in Directions, fed' = Append(fed, [u |-> u, right |-> d = want]),
                 d \in {want, cache[g][text[u]]}
          PROVE  \A i \in 1..Len(fed') : fed'[i].right
      <4>1. d = want  BY <2>3, <2>4, <3>2 DEF Directions
      <4>2. [u |-> u, right |-> d = want] \in [u : Nat, right : BOOLEAN]  OBVIOUS
      <4>3. [u |-> u, right |-> d = want].right  BY <4>1
      <4>4. fed \in Seq([u : Nat, right : BOOLEAN])  BY <2>4 DEF CascadeTypes
      <4> QED  BY <2>8, <3>2, <4>2, <4>3, <4>4, SaidRight
    <3> QED  BY <2>1, <3>1, <3>2 DEF Goes
  <2>12. \A h \in Pipelines : Alive(h)' \/ h \in polls' => h = newest'
    BY <1>2, <2>2, <2>3, <2>9 DEF OneDirection, Alive
  <2> QED  BY <2>2, <2>3, <2>5, <2>6, <2>7, <2>10, <2>11, <2>12 DEF OneDirection
<1> QED  BY <1>1, <1>2

LEMMA StepDirection == CascadeInv /\ OneDirection /\ [SpeechNext]_speechVars => OneDirection'
<1> SUFFICES ASSUME CascadeInv, OneDirection, [SpeechNext]_speechVars PROVE OneDirection'
  OBVIOUS
<1>0. CascadeTypes  BY DEF CascadeInv
<1>1. CASE UNCHANGED speechVars
  BY <1>1 DEF speechVars, OneDirection, Alive
<1>2. CASE HeardStep
  <2>1. UNCHANGED <<newest, dir, polls, cache, inFlight, loop, fed, overtaken>>
    BY <1>2 DEF HeardStep, EmitSegment, OnSpeechSegment, SegmentDropped, pipeline, changes
  <2> QED  BY <2>1 DEF OneDirection, Alive
<1>3. ASSUME NEW g \in Pipelines, PollerToSpecCache(g) PROVE OneDirection'
  <2>1. UNCHANGED <<newest, dir, polls, cache, loop, fed, overtaken>>
    BY <1>3 DEF PollerToSpecCache, pipeline, changes
  <2>2. \A h \in Pipelines : inFlight'[h] = inFlight[h] \/ inFlight'[h] = [key |-> OnWords(g), dir |-> dir]
    BY <1>0, <1>3 DEF PollerToSpecCache, CascadeTypes
  <2>3. newest \in Pipelines /\ [key |-> OnWords(g), dir |-> dir].dir = dir  BY <1>0 DEF CascadeTypes
  <2> QED  BY <2>1, <2>2, <2>3 DEF OneDirection, Alive
<1>4. ASSUME NEW g \in Pipelines, NEW ok \in BOOLEAN, TranslateAndStore(g, ok) PROVE OneDirection'
  <2>1. UNCHANGED <<newest, dir, polls, loop, fed, overtaken>>
    BY <1>4 DEF TranslateAndStore, pipeline, changes
  <2>2. \A h \in Pipelines : inFlight'[h] = inFlight[h] \/ inFlight'[h] = None
    BY <1>0, <1>4 DEF TranslateAndStore, CascadeTypes
  <2>3. inFlight[g].key \in Texts /\ inFlight[g].dir \in Directions \cup {"none"}
    BY <1>0, <1>4 DEF TranslateAndStore, CascadeTypes, Tasks
  <2>4. ASSUME ~overtaken, NEW t \in Texts PROVE cache'[newest][t] \in {"none", dir}
    <3>1. newest \in Pipelines /\ cache \in [Pipelines -> [Texts -> Directions \cup {"none"}]]
      BY <1>0 DEF CascadeTypes
    <3>2. cache[newest][t] \in {"none", dir}  BY <2>4 DEF OneDirection
    <3>3. CASE cache' = cache  BY <3>2, <3>3
    <3>4. CASE cache' = [cache EXCEPT ![g][inFlight[g].key] = inFlight[g].dir]
      <4>1. g = newest => inFlight[g].dir = dir  BY <1>4, <2>4 DEF OneDirection, TranslateAndStore
      <4> QED  BY <2>3, <3>1, <3>2, <3>4, <4>1, CacheWrite
    <3> QED  BY <1>4, <3>3, <3>4 DEF TranslateAndStore
  <2>5. newest \in Pipelines  BY <1>0 DEF CascadeTypes
  <2> QED  BY <2>1, <2>2, <2>4, <2>5 DEF OneDirection, Alive
<1>5. ASSUME NEW g \in Pipelines, Launch(g) PROVE OneDirection'
  <2>1. /\ UNCHANGED <<newest, dir, cache, inFlight, fed>> /\ polls' = polls \cup {g}
        /\ loop' = [loop EXCEPT ![g] = Getting(newest)] /\ overtaken' = (overtaken \/ g # newest)
    BY <1>5 DEF Launch
  <2>2. CASE ~overtaken /\ g = newest
    <3>1. loop'[newest] = Getting(newest) /\ \A h \in Pipelines : h # newest => loop'[h] = loop[h]
      BY <1>0, <2>1, <2>2 DEF CascadeTypes
    <3>2. Getting(newest).at = "get"  BY DEF Getting
    <3> QED  BY <2>1, <2>2, <3>1, <3>2 DEF OneDirection, Alive, Translating
  <2> QED  BY <2>1, <2>2 DEF OneDirection
<1>6. ASSUME NEW d \in Directions, Intent(d) PROVE OneDirection'
  <2>1. /\ UNCHANGED <<newest, polls, loop, fed>> /\ dir' = d
        /\ inFlight' = [inFlight EXCEPT ![newest] = None] /\ cache' = [cache EXCEPT ![newest] = Empty]
        /\ overtaken' = (overtaken \/ Overtakes)
    BY <1>6 DEF Intent
  <2>2. newest \in Pipelines /\ inFlight'[newest] = None /\ cache'[newest] = Empty
    BY <1>0, <2>1 DEF CascadeTypes
  <2>3. CASE ~overtaken /\ ~Overtakes
    <3>1. loop[newest].at \notin Translating /\ loop[newest].at # "await"
      BY <2>2, <2>3 DEF Overtakes, Translating
    <3>2. \A t \in Texts : cache'[newest][t] = "none"  BY <2>2 DEF Empty
    <3> QED  BY <2>1, <2>2, <2>3, <3>1, <3>2 DEF OneDirection, Alive
  <2> QED  BY <2>1, <2>3 DEF OneDirection
<1>7. ASSUME NEW d \in Directions, StartOpenaiStream(d) PROVE OneDirection'
  <2>1. /\ newest' = newest + 1 /\ newest' \in Pipelines /\ fed' = fed /\ loop'[newest'] = Starting
        /\ \A g \in Pipelines : cache'[g] \in {Empty, cache[g]} /\ inFlight'[g] \in {None, inFlight[g]}
        /\ overtaken' = (overtaken \/ polls' # {} \/ \E g \in Pipelines : Alive(g)')
    BY <1>7, ChangeIs
  <2>2. Unbuilt(newest')
    BY <2>1 DEF CascadeInv, CascadeTypes, Beyond, Pipelines
  <2>3. cache'[newest'] = Empty /\ inFlight'[newest'] = None
    BY <2>1, <2>2 DEF Unbuilt
  <2>4. \A t \in Texts : cache'[newest'][t] = "none"  BY <2>3 DEF Empty
  <2>5. loop'[newest'].at \notin Translating /\ loop'[newest'].at # "await"
    BY <2>1 DEF Starting, Translating
  <2> QED  BY <2>1, <2>3, <2>4, <2>5 DEF OneDirection
<1> QED
  BY <1>1, <1>2, <1>3, <1>4, <1>5, <1>6, <1>7, LoopDirection, SpeechSteps DEF SpecStep

\* As long as the direction did not change in the middle of a translation or while
\* an older loop was running, everything is spoken in the direction that held when
\* its transcript was taken (openai_streaming.py, WhisperToTTS and
\* get_or_translate).
THEOREM DirectionRight == SpeechSpec => []RightDirection
<1>1. CascadeInv /\ OneDirection => RightDirection
  BY DEF CascadeInv, CascadeTypes, OneDirection, RightDirection
<1> QED  BY <1>1, InitCascade, StepCascade, StepDirection, PTL DEF SpeechSpec

-----------------------------------------------------------------------------
\* A queue in order, and its order after what is put in comes last or what is taken
\* was first.
Rising(q) == \A i, j \in 1..Len(q) : i < j => q[i] < q[j]

LEMMA RisingQueued ==
    ASSUME NEW q \in Seq(Nat), NEW n \in Nat, Rising(q), \A i \in 1..Len(q) : q[i] < n
    PROVE  /\ Rising(Append(q, n))
           /\ \A j \in 1..Len(Append(q, n)) : Append(q, n)[j] = n \/ \E i \in 1..Len(q) : Append(q, n)[j] = q[i]
<1>1. /\ Len(Append(q, n)) = Len(q) + 1 /\ Len(q) \in Nat
      /\ \A i \in 1..Len(q) : Append(q, n)[i] = q[i]
      /\ Append(q, n)[Len(q) + 1] = n
  OBVIOUS
<1>2. ASSUME NEW i \in 1..Len(Append(q, n)), NEW j \in 1..Len(Append(q, n)), i < j
      PROVE  Append(q, n)[i] < Append(q, n)[j]
  <2>1. i \in 1..Len(q) /\ Append(q, n)[i] = q[i]  BY <1>1, <1>2
  <2>2. CASE j = Len(q) + 1  BY <1>1, <2>1, <2>2
  <2>3. CASE j \in 1..Len(q)
    <3>1. Append(q, n)[j] = q[j]  BY <1>1, <2>3
    <3> QED  BY <1>2, <2>1, <2>3, <3>1 DEF Rising
  <2> QED  BY <1>1, <2>2, <2>3
<1>3. ASSUME NEW j \in 1..Len(Append(q, n))
      PROVE  Append(q, n)[j] = n \/ \E i \in 1..Len(q) : Append(q, n)[j] = q[i]
  <2>1. j = Len(q) + 1 \/ j \in 1..Len(q)  BY <1>1
  <2> QED  BY <1>1, <2>1
<1> QED  BY <1>2, <1>3 DEF Rising

LEMMA RisingTaken ==
    ASSUME NEW q \in Seq(Nat), q # << >>, Rising(q)
    PROVE  /\ Rising(Tail(q))
           /\ \A j \in 1..Len(Tail(q)) : Head(q) < Tail(q)[j] /\ \E i \in 1..Len(q) : Tail(q)[j] = q[i]
           /\ \E i \in 1..Len(q) : Head(q) = q[i]
<1>1. /\ Head(q) = q[1] /\ Len(q) \in Nat \ {0} /\ Len(Tail(q)) = Len(q) - 1
      /\ \A i \in 1..Len(Tail(q)) : Tail(q)[i] = q[i + 1]
  BY Taken
<1>2. ASSUME NEW i \in 1..Len(Tail(q)) PROVE i + 1 \in 1..Len(q) /\ i \in Nat /\ Tail(q)[i] = q[i + 1] /\ 1 < i + 1
  BY <1>1
<1>3. ASSUME NEW i \in 1..Len(Tail(q)), NEW j \in 1..Len(Tail(q)), i < j PROVE Tail(q)[i] < Tail(q)[j]
  <2>1. i + 1 < j + 1  BY <1>3
  <2> QED  BY <1>2, <2>1 DEF Rising
<1>4. 1 \in 1..Len(q)  BY <1>1
<1>5. ASSUME NEW j \in 1..Len(Tail(q)) PROVE Head(q) < Tail(q)[j] /\ \E i \in 1..Len(q) : Tail(q)[j] = q[i]
  BY <1>1, <1>2, <1>4 DEF Rising
<1> QED  BY <1>1, <1>3, <1>4, <1>5 DEF Rising

\* The transcripts said, in order.
LEMMA SaidInOrder ==
    ASSUME NEW q \in Seq([u : Nat, right : BOOLEAN]), NEW e \in [u : Nat, right : BOOLEAN],
           \A i, j \in 1..Len(q) : i < j => q[i].u < q[j].u,
           \A i \in 1..Len(q) : q[i].u < e.u
    PROVE  /\ \A i, j \in 1..Len(Append(q, e)) : i < j => Append(q, e)[i].u < Append(q, e)[j].u
           /\ \A i \in 1..Len(Append(q, e)) : Append(q, e)[i] = e \/ \E j \in 1..Len(q) : Append(q, e)[i] = q[j]
<1>1. /\ Len(Append(q, e)) = Len(q) + 1 /\ Len(q) \in Nat
      /\ \A i \in 1..Len(q) : Append(q, e)[i] = q[i]
      /\ Append(q, e)[Len(q) + 1] = e
  OBVIOUS
<1>2. ASSUME NEW i \in 1..Len(Append(q, e)), NEW j \in 1..Len(Append(q, e)), i < j
      PROVE  Append(q, e)[i].u < Append(q, e)[j].u
  <2>1. i \in 1..Len(q) /\ Append(q, e)[i] = q[i]  BY <1>1, <1>2
  <2>2. CASE j = Len(q) + 1  BY <1>1, <2>1, <2>2
  <2>3. CASE j \in 1..Len(q)
    <3>1. Append(q, e)[j] = q[j]  BY <1>1, <2>3
    <3> QED  BY <1>2, <2>1, <2>3, <3>1
  <2> QED  BY <1>1, <2>2, <2>3
<1>3. ASSUME NEW j \in 1..Len(Append(q, e))
      PROVE  Append(q, e)[j] = e \/ \E i \in 1..Len(q) : Append(q, e)[j] = q[i]
  <2>1. j = Len(q) + 1 \/ j \in 1..Len(q)  BY <1>1
  <2> QED  BY <1>1, <2>1
<1> QED  BY <1>2, <1>3

OneLoop == newest = 1 \/ ~overtaken

LEMMA LoopOrder ==
    ASSUME CascadeInv, OneOrder, NEW g \in Pipelines, LoopStep(g)
    PROVE  OneOrder'
<1>1. PICK u \in 1..Len(text), want \in Directions :
        Picks(g, u, want) /\ Goes(g, u, want) /\ Stores(g, u, want) /\ text[u] \in Texts
  BY LoopTurn
<1>2. newest' = newest /\ overtaken' = overtaken /\ text' = text
  BY LoopTurn DEF pipeline, heard, changes
<1>3. CASE ~OneLoop
  BY <1>2, <1>3 DEF OneOrder, OneLoop
<1>4. CASE OneLoop
  <2>1. CascadeTypes /\ newest \in Pipelines  BY DEF CascadeInv, CascadeTypes
  <2>2. /\ \A h \in Pipelines : Alive(h) => h = newest
        /\ loop[newest].at = "get" => loop[newest].from = newest
        /\ \A i, j \in 1..Len(fed) : i < j => fed[i].u < fed[j].u
        /\ Rising(finals[newest])
        /\ \A i \in 1..Len(fed) : fed[i].u <= Len(text)
        /\ \A i \in 1..Len(fed), j \in 1..Len(finals[newest]) : fed[i].u < finals[newest][j]
        /\ loop[newest].at \in Translating =>
             /\ \A i \in 1..Len(fed) : fed[i].u < loop[newest].u
             /\ \A j \in 1..Len(finals[newest]) : loop[newest].u < finals[newest][j]
    BY <1>4 DEF OneOrder, OneLoop, Rising
  <2>3. g = newest
    BY <1>1, <2>1, <2>2, LoopKinds DEF Picks
  <2>4. PICK q \in Seq(Nat) : q = finals[newest]  BY <2>1 DEF CascadeTypes
  <2>5. PICK p \in Seq(Nat) :
          /\ p = finals'[newest] /\ Rising(p)
          /\ \A j \in 1..Len(p) : u < p[j] /\ \E i \in 1..Len(q) : p[j] = q[i]
    <3>1. CASE loop[g].at \in Translating /\ u = loop[g].u /\ finals' = finals
      BY <2>2, <2>3, <2>4, <3>1
    <3>2. CASE /\ loop[g].at = "get" /\ finals[loop[g].from] # << >> /\ u = Head(finals[loop[g].from])
               /\ finals' = [finals EXCEPT ![loop[g].from] = Tail(finals[loop[g].from])]
      <4>1. q # << >> /\ u = Head(q) /\ finals'[newest] = Tail(q)
        BY <2>1, <2>2, <2>3, <2>4, <3>2 DEF CascadeTypes
      <4>2. Tail(q) \in Seq(Nat)  BY <4>1, Taken
      <4> QED  BY <2>2, <2>4, <4>1, <4>2, RisingTaken
    <3> QED  BY <1>1, <3>1, <3>2 DEF Picks
  <2>6. \A i \in 1..Len(fed) : fed[i].u < u
    <3>1. CASE loop[g].at \in Translating /\ u = loop[g].u
      BY <2>2, <2>3, <3>1
    <3>2. CASE /\ loop[g].at = "get" /\ finals[loop[g].from] # << >> /\ u = Head(finals[loop[g].from])
      <4>1. q # << >> /\ u = Head(q)  BY <2>2, <2>3, <2>4, <3>2
      <4>2. PICK j \in 1..Len(q) : u = q[j]  BY <2>2, <2>4, <4>1, RisingTaken
      <4> QED  BY <2>2, <2>4, <4>2
    <3> QED  BY <1>1, <3>1, <3>2 DEF Picks
  <2>7. fed \in Seq([u : Nat, right : BOOLEAN]) /\ Len(text) \in Nat /\ u \in Nat /\ u <= Len(text)
    BY <1>1, <2>1 DEF CascadeTypes
  <2>8. \A i \in 1..Len(fed), j \in 1..Len(p) : fed[i].u < p[j]
    BY <2>2, <2>4, <2>5
  <2>9. \A h \in Pipelines : Alive(h)' => h = newest
    <3>1. \A h \in Pipelines : h # g => loop'[h] = loop[h]  BY <1>1, <2>1 DEF Goes, CascadeTypes
    <3> QED  BY <2>2, <2>3, <3>1 DEF Alive
  <2>10. CASE fed' = fed
    <3>1. loop'[newest].at \in Translating => loop'[newest].u = u
      <4>1. CASE loop' = [loop EXCEPT ![g] = Getting(newest)]
        BY <2>1, <2>3, <4>1 DEF CascadeTypes, Getting, Translating
      <4>2. CASE \E s \in Waits \cup Translates : loop' = [loop EXCEPT ![g] = s] /\ s.u = u
        BY <2>1, <2>3, <4>2 DEF CascadeTypes
      <4> QED  BY <1>1, <4>1, <4>2 DEF Goes
    <3>2. loop'[newest].at = "get" => loop'[newest].from = newest
      <4>1. CASE loop' = [loop EXCEPT ![g] = Getting(newest)]
        BY <2>1, <2>3, <4>1 DEF CascadeTypes, Getting
      <4>2. CASE \E s \in Waits \cup Translates : loop' = [loop EXCEPT ![g] = s]
        BY <2>1, <2>3, <4>2 DEF CascadeTypes, Waits, Translates
      <4> QED  BY <1>1, <4>1, <4>2 DEF Goes
    <3> QED  BY <1>2, <2>2, <2>5, <2>6, <2>8, <2>9, <2>10, <3>1, <3>2 DEF OneOrder, Rising
  <2>11. ASSUME NEW e \in [u : Nat, right : BOOLEAN], e.u = u, fed' = Append(fed, e),
                loop' = [loop EXCEPT ![g] = Getting(newest)]
         PROVE  OneOrder'
    <3>1. /\ \A i, j \in 1..Len(fed') : i < j => fed'[i].u < fed'[j].u
          /\ \A i \in 1..Len(fed') : fed'[i] = e \/ \E j \in 1..Len(fed) : fed'[i] = fed[j]
      BY <2>2, <2>6, <2>7, <2>11, SaidInOrder
    <3>2. loop'[newest] = Getting(newest)  BY <2>1, <2>3, <2>11 DEF CascadeTypes
    <3>3. loop'[newest].at \notin Translating /\ loop'[newest].from = newest
      BY <3>2 DEF Getting, Translating
    <3>4. ASSUME NEW i \in 1..Len(fed') PROVE fed'[i].u <= Len(text) /\ \A j \in 1..Len(p) : fed'[i].u < p[j]
      BY <2>2, <2>5, <2>7, <2>8, <2>11, <3>1
    <3> QED  BY <1>2, <2>5, <2>9, <3>1, <3>3, <3>4 DEF OneOrder, Rising
  <2>12. ASSUME NEW d \in Directions, fed' = Append(fed, [u |-> u, right |-> d = want]),
                loop' = [loop EXCEPT ![g] = Getting(newest)]
         PROVE  OneOrder'
    <3>1. [u |-> u, right |-> d = want] \in [u : Nat, right : BOOLEAN]  BY <2>7
    <3>2. [u |-> u, right |-> d = want].u = u  OBVIOUS
    <3> QED  BY <2>11, <2>12, <3>1, <3>2
  <2> QED  BY <1>1, <2>10, <2>12 DEF Goes
<1> QED  BY <1>3, <1>4

LEMMA HeardOrder == ASSUME CascadeInv, OneOrder, HeardStep PROVE OneOrder'
<1>1. /\ UNCHANGED <<newest, overtaken, loop, fed>>
      /\ \/ UNCHANGED <<text, finals>>
         \/ \E s \in stt : text' = Append(text, s.text) /\ finals' = [finals EXCEPT ![s.to] = Append(@, Len(text'))]
  BY DEF HeardStep, EmitSegment, OnSpeechSegment, SegmentDropped, pipeline, changes
<1>2. CASE UNCHANGED <<text, finals>>
  BY <1>1, <1>2 DEF OneOrder, Alive
<1>3. CASE ~OneLoop
  BY <1>1, <1>3 DEF OneOrder, OneLoop
<1>4. ASSUME OneLoop, NEW s \in stt, text' = Append(text, s.text),
             finals' = [finals EXCEPT ![s.to] = Append(@, Len(text'))]
      PROVE  OneOrder'
  <2>1. CascadeTypes /\ newest \in Pipelines /\ Transcribed(newest) /\ s.text \in Texts /\ s.to \in Pipelines
    BY DEF CascadeInv, CascadeTypes
  <2>2. Len(text') = Len(text) + 1 /\ Len(text) \in Nat
    BY <1>4, <2>1, Queued DEF CascadeTypes
  <2>3. PICK q \in Seq(Nat) : q = finals[newest]  BY <2>1 DEF CascadeTypes
  <2>4. /\ Rising(q) /\ (\A j \in 1..Len(q) : q[j] \in 1..Len(text))
        /\ \A i \in 1..Len(fed) : fed[i].u <= Len(text)
        /\ \A i \in 1..Len(fed), j \in 1..Len(q) : fed[i].u < q[j]
        /\ loop[newest].at \in Translating =>
             /\ loop[newest].u \in 1..Len(text)
             /\ \A i \in 1..Len(fed) : fed[i].u < loop[newest].u
             /\ \A j \in 1..Len(q) : loop[newest].u < q[j]
    BY <1>4, <2>1, <2>3 DEF OneOrder, OneLoop, Rising, Transcribed
  <2>5. finals'[newest] = q \/ finals'[newest] = Append(q, Len(text) + 1)
    BY <1>4, <2>1, <2>2, <2>3 DEF CascadeTypes
  <2>10. PICK n \in Nat : n = Len(text) + 1  BY <2>2
  <2>6. PICK p \in Seq(Nat) :
          /\ p = finals'[newest] /\ Rising(p)
          /\ \A j \in 1..Len(p) : p[j] = n \/ \E i \in 1..Len(q) : p[j] = q[i]
    <3>1. \A j \in 1..Len(q) : q[j] < n  BY <2>2, <2>4, <2>10
    <3>2. Append(q, n) \in Seq(Nat)  OBVIOUS
    <3>3. CASE finals'[newest] = q  BY <2>4, <3>3
    <3>4. CASE finals'[newest] = Append(q, n)
      <4>1. Rising(Append(q, n)) /\ \A j \in 1..Len(Append(q, n)) :
              Append(q, n)[j] = n \/ \E i \in 1..Len(q) : Append(q, n)[j] = q[i]
        BY <2>4, <3>1, RisingQueued
      <4> QED  BY <3>2, <3>4, <4>1
    <3> QED  BY <2>5, <2>10, <3>3, <3>4
  <2>7. ASSUME NEW i \in 1..Len(fed) PROVE fed[i].u \in Nat
    <3>1. fed \in Seq([u : Nat, right : BOOLEAN])  BY <2>1 DEF CascadeTypes
    <3>2. fed[i] \in [u : Nat, right : BOOLEAN]  BY <3>1, Member
    <3> QED  BY <3>2
  <2>8. ASSUME NEW i \in 1..Len(fed)
        PROVE  fed[i].u <= Len(text') /\ \A j \in 1..Len(p) : fed[i].u < p[j]
    <3>1. fed[i].u \in Nat /\ fed[i].u <= Len(text) /\ \A j \in 1..Len(q) : fed[i].u < q[j]
      BY <2>4, <2>7
    <3>2. fed[i].u < n /\ fed[i].u <= Len(text')  BY <2>2, <2>10, <3>1
    <3> QED  BY <2>6, <3>1, <3>2
  <2>9. ASSUME loop[newest].at \in Translating, NEW j \in 1..Len(p) PROVE loop[newest].u < p[j]
    <3>1. loop[newest].u \in 1..Len(text) /\ \A i \in 1..Len(q) : loop[newest].u < q[i]
      BY <2>4, <2>9
    <3>2. loop[newest].u < n  BY <2>2, <2>10, <3>1
    <3> QED  BY <2>6, <3>1, <3>2
  <2> QED  BY <1>1, <1>4, <2>4, <2>6, <2>8, <2>9 DEF OneOrder, OneLoop, Rising, Alive
<1> QED  BY <1>1, <1>2, <1>3, <1>4

LEMMA StepOrder == CascadeInv /\ OneOrder /\ [SpeechNext]_speechVars => OneOrder'
<1> SUFFICES ASSUME CascadeInv, OneOrder, [SpeechNext]_speechVars PROVE OneOrder'
  OBVIOUS
<1>0. CascadeTypes  BY DEF CascadeInv
<1>1. CASE UNCHANGED speechVars
  BY <1>1 DEF speechVars, OneOrder, Alive
<1>2. CASE SpecStep
  <2>1. UNCHANGED <<newest, overtaken, loop, fed, text, finals>>
    BY <1>2 DEF SpecStep, PollerToSpecCache, TranslateAndStore, pipeline, heard, changes
  <2> QED  BY <2>1 DEF OneOrder, Alive
<1>3. ASSUME NEW g \in Pipelines, Launch(g) PROVE OneOrder'
  <2>1. /\ UNCHANGED <<newest, fed, text, finals>> /\ overtaken' = (overtaken \/ g # newest)
        /\ loop' = [loop EXCEPT ![g] = Getting(newest)] /\ g <= newest
    <3>1. loop[g] # Off  BY <1>3 DEF Launch, Starting, Off
    <3> QED  BY <1>3, <3>1, Built DEF Launch, heard
  <2>2. CASE newest = 1 \/ ~overtaken'
    <3>0. g \in Nat \ {0} /\ newest \in Nat  BY <1>0 DEF CascadeTypes, Pipelines
    <3>1. g = newest /\ OneLoop
      <4>1. CASE newest = 1  BY <2>1, <3>0, <4>1 DEF OneLoop
      <4>2. CASE ~overtaken'  BY <2>1, <4>2 DEF OneLoop
      <4> QED  BY <2>2, <4>1, <4>2
    <3>2. loop'[newest] = Getting(newest) /\ \A h \in Pipelines : h # newest => loop'[h] = loop[h]
      BY <1>0, <2>1, <3>1 DEF CascadeTypes
    <3>3. loop'[newest].at \notin Translating /\ loop'[newest].from = newest
      BY <3>2 DEF Getting, Translating
    <3> QED  BY <2>1, <3>1, <3>2, <3>3 DEF OneOrder, OneLoop, Alive
  <2> QED  BY <2>1, <2>2 DEF OneOrder
<1>4. ASSUME NEW d \in Directions, Intent(d) PROVE OneOrder'
  <2>1. UNCHANGED <<newest, loop, fed, text, finals>> /\ overtaken' = (overtaken \/ Overtakes)
    BY <1>4 DEF Intent, heard
  <2> QED  BY <2>1 DEF OneOrder, Alive
<1>5. ASSUME NEW d \in Directions, StartOpenaiStream(d) PROVE OneOrder'
  <2>1. /\ newest' = newest + 1 /\ newest' \in Pipelines /\ loop'[newest'] = Starting
        /\ UNCHANGED <<fed, text, finals>>
        /\ overtaken' = (overtaken \/ polls' # {} \/ \E g \in Pipelines : Alive(g)')
    BY <1>5, ChangeIs DEF heard
  <2>2. newest' # 1 /\ Unbuilt(newest')
    BY <1>0, <2>1 DEF CascadeInv, CascadeTypes, Beyond, Pipelines
  <2>3. finals'[newest'] = << >> /\ loop'[newest'].at \notin Translating /\ loop'[newest'].at # "get"
    BY <2>1, <2>2 DEF Unbuilt, Starting, Translating
  <2>4. CASE ~overtaken'
    <3>1. OneLoop /\ \A g \in Pipelines : ~Alive(g)'  BY <2>1, <2>4 DEF OneLoop
    <3> QED  BY <2>1, <2>3, <3>1 DEF OneOrder, OneLoop
  <2> QED  BY <2>2, <2>4 DEF OneOrder
<1> QED
  BY <1>1, <1>2, <1>3, <1>4, <1>5, LoopOrder, HeardOrder, SpeechSteps

\* One loop at a time speaks the transcripts in the order they were queued, none
\* twice, also when the next was translated ahead and when a new pipeline takes
\* over (processing.py, WhisperToTTS).
THEOREM SpokenInOrder == SpeechSpec => []InOrder
<1>1. CascadeInv /\ OneOrder => InOrder
  <2> SUFFICES ASSUME CascadeInv, OneOrder PROVE InOrder
    OBVIOUS
  <2>1. DOMAIN fed = 1..Len(fed)  BY DEF CascadeInv, CascadeTypes
  <2> QED  BY <2>1 DEF OneOrder, InOrder
<1> QED  BY <1>1, InitCascade, StepCascade, StepOrder, PTL DEF SpeechSpec
=============================================================================
