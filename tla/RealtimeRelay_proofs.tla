-------------------------- MODULE RealtimeRelay_proofs --------------------------
(***************************************************************************)
(* One relay connection, for any number of frames, attempts and turns: a   *)
(* caption is of one response, no frame is skipped on a connection, and    *)
(* the prompt is never older than ReinjectEvery turns.                     *)
(***************************************************************************)
EXTENDS RealtimeRelay, SequenceTheorems, FiniteSetTheorems, WellFoundedInduction, TLAPS

USE RelayAssumption

\* The loop only connects below max_retries, and relays from zero attempts.
AttemptsLeft == pc \in {"connect", "backoff"} => attempts < MaxRetries

\* Every iteration cancels its tasks: none reads for an earlier connection.
NoStaleTask == c2o \subseteq {"current"} /\ (c2o # {} \/ o2c => pc = "relay")

\* turnCount, kept modulo ReinjectEvery, counts the turns since the prompt.
CountsAgree == sinceInject = turnCount

-----------------------------------------------------------------------------
\* What OpenAI sent and the relay has not read: the events of a response are
\* together and end with its response.done, unless the connection dropped.

Continues(e, f) ==
    /\ e.kind = "delta" => /\ f.kind \in {"delta", "error", "done"}
                           /\ f.kind = "delta" => f.resp = e.resp
    /\ e.kind = "error" => f.kind = "done"

Grouped(s) == \A k \in 1..(Len(s) - 1) : Continues(s[k], s[k + 1])
Closed(s) == s # <<>> => s[Len(s)].kind \in {"done", "noise"}

EventsGrouped == Grouped(oaiOut) /\ (oaiUp => Closed(oaiOut))

\* The caption under way is of one response, and what the task reads next is
\* more of it, or its end.
OneCaption ==
    /\ \A i, j \in 1..Len(turnCaption) : turnCaption[i] = turnCaption[j]
    /\ o2c /\ turnCaption # <<>> =>
         IF oaiOut = <<>> THEN ~oaiUp
         ELSE /\ Head(oaiOut).kind \in {"delta", "error", "done"}
              /\ Head(oaiOut).kind = "delta" => Head(oaiOut).resp = turnCaption[1]

CaptionInv == EventsGrouped /\ OneCaption /\ OneResponsePerTurn

-----------------------------------------------------------------------------
\* The audio frames that wait are consecutive and end with the last one sent.
Waits(n) == \E k \in 1..Len(inbox) : inbox[k] = Audio(n)

FramesInOrder ==
    /\ \A k, l \in 1..Len(inbox) :
         k < l /\ inbox[k].kind = "audio" /\ inbox[l].kind = "audio" => inbox[k].n < inbox[l].n
    /\ \A n \in 1..(sentAudio - 1) : Waits(n) => Waits(n + 1)
    /\ \A n \in 1..MaxAudio : Waits(n) => n <= sentAudio

\* As long as the task of this connection reads, what waits follows what it
\* has forwarded.
NextWaits ==
    "current" \in c2o /\ appended # <<>> =>
        LET last == appended[Len(appended)] IN
        /\ last <= sentAudio
        /\ \A n \in 1..MaxAudio : Waits(n) => last < n
        /\ last < sentAudio => Waits(last + 1)

FrameInv == FramesInOrder /\ NextWaits /\ NoGapInSession

LoopInv == TypeOK /\ AttemptsLeft /\ NoStaleTask /\ CountsAgree

-----------------------------------------------------------------------------
\* Sequences of events.

LEMMA TailFacts ==
    ASSUME NEW S, NEW s \in Seq(S), s # <<>>
    PROVE  /\ Len(s) \in Nat /\ Len(s) >= 1 /\ Head(s) = s[1] /\ Head(s) \in S
           /\ Tail(s) \in Seq(S) /\ Len(Tail(s)) = Len(s) - 1
           /\ \A i \in 1..(Len(s) - 1) : Tail(s)[i] = s[i + 1]
BY HeadTailProperties, LenProperties, EmptySeq

LEMMA GroupedTail ==
    ASSUME NEW s \in Seq(Events), s # <<>>, Grouped(s)
    PROVE  /\ Grouped(Tail(s)) /\ (Closed(s) => Closed(Tail(s)))
           /\ Tail(s) # <<>> => Continues(Head(s), Head(Tail(s)))
           /\ Tail(s) = <<>> => Head(s) = s[Len(s)]
<1>1. /\ Len(s) \in Nat /\ Len(s) >= 1 /\ Head(s) = s[1]
      /\ Tail(s) \in Seq(Events) /\ Len(Tail(s)) = Len(s) - 1
      /\ \A i \in 1..(Len(s) - 1) : Tail(s)[i] = s[i + 1]
  BY TailFacts
<1>2. Grouped(Tail(s))
  BY <1>1 DEF Grouped
<1>3. Tail(s) # <<>> => Len(s) >= 2 /\ Head(Tail(s)) = s[2] /\ Tail(s)[Len(Tail(s))] = s[Len(s)]
  <2>1. Tail(s) # <<>> => Len(Tail(s)) >= 1 /\ Head(Tail(s)) = Tail(s)[1]
    BY <1>1, TailFacts
  <2> QED  BY <1>1, <2>1
<1>4. Tail(s) = <<>> => Len(s) = 1
  <2> DEFINE n == Len(s)  t == Len(Tail(s))
  <2>1. Tail(s) = <<>> => t = 0
    <3>1. Len(<<>>) = 0
      OBVIOUS
    <3> QED  BY <3>1, Zenon
  <2>2. n \in Nat /\ t = n - 1
    BY <1>1
  <2> HIDE DEF n, t
  <2>3. Tail(s) = <<>> => n = 1
    BY <2>1, <2>2
  <2> QED  BY <2>3 DEF n
<1> QED  BY <1>1, <1>2, <1>3, <1>4 DEF Grouped, Closed

LEMMA GroupedConcat ==
    ASSUME NEW s \in Seq(Events), NEW t \in Seq(Events), Grouped(s), Closed(s),
           Grouped(t), Closed(t), t # <<>>
    PROVE  /\ s \o t \in Seq(Events) /\ s \o t # <<>> /\ Grouped(s \o t) /\ Closed(s \o t)
           /\ s # <<>> => Head(s \o t) = Head(s)
<1>1. /\ s \o t \in Seq(Events) /\ Len(s \o t) = Len(s) + Len(t)
      /\ \A i \in 1..Len(s) + Len(t) : (s \o t)[i] = IF i <= Len(s) THEN s[i] ELSE t[i - Len(s)]
  BY ConcatProperties
<1>2. Len(s) \in Nat /\ Len(t) \in Nat /\ Len(t) >= 1 /\ (s # <<>> => Len(s) >= 1)
  BY LenProperties, EmptySeq
<1>3. s \o t # <<>>
  BY <1>1, <1>2, EmptySeq
<1>4. Closed(s \o t)
  BY <1>1, <1>2 DEF Closed
<1>5. ASSUME NEW k \in 1..(Len(s \o t) - 1) PROVE Continues((s \o t)[k], (s \o t)[k + 1])
  <2>1. CASE k < Len(s)
    BY <1>1, <1>2, <2>1 DEF Grouped
  <2>2. CASE k = Len(s)
    <3>1. (s \o t)[k] = s[Len(s)] /\ s # <<>>
      BY <1>1, <1>2, <2>2, EmptySeq
    <3> QED  BY <3>1 DEF Closed, Continues
  <2>3. CASE k > Len(s)
    <3>1. k - Len(s) \in 1..(Len(t) - 1) /\ (k + 1) - Len(s) = (k - Len(s)) + 1
      BY <1>1, <1>2, <2>3
    <3>2. (s \o t)[k] = t[k - Len(s)] /\ (s \o t)[k + 1] = t[(k - Len(s)) + 1]
      BY <1>1, <1>2, <2>3, <3>1
    <3> QED  BY <3>1, <3>2 DEF Grouped
  <2> QED  BY <1>1, <1>2, <2>1, <2>2, <2>3
<1>6. s # <<>> => Head(s \o t) = Head(s)
  BY <1>1, <1>2, <1>3, TailFacts
<1> QED  BY <1>1, <1>3, <1>4, <1>5, <1>6 DEF Grouped

LEMMA GroupedAppend ==
    ASSUME NEW s \in Seq(Events), NEW e \in Events, Grouped(s), Closed(s), e.kind \in {"done", "noise"}
    PROVE  /\ Append(s, e) \in Seq(Events) /\ Append(s, e) # <<>>
           /\ Grouped(Append(s, e)) /\ Closed(Append(s, e))
           /\ s # <<>> => Head(Append(s, e)) = Head(s)
<1>1. <<e>> \in Seq(Events) /\ Len(<<e>>) = 1 /\ <<e>>[1] = e /\ <<e>> # <<>>
  OBVIOUS
<1>2. Grouped(<<e>>) /\ Closed(<<e>>)
  BY <1>1 DEF Grouped, Closed
<1>3. Append(s, e) = s \o <<e>>
  BY AppendIsConcat
<1> QED  BY <1>1, <1>2, <1>3, GroupedConcat

LEMMA GroupedPrefix ==
    ASSUME NEW s \in Seq(Events), NEW n \in 0..Len(s), Grouped(s)
    PROVE  /\ SubSeq(s, 1, n) \in Seq(Events) /\ Grouped(SubSeq(s, 1, n))
           /\ SubSeq(s, 1, n) # <<>> => s # <<>> /\ Head(SubSeq(s, 1, n)) = Head(s)
<1>1. Len(s) \in Nat /\ n \in Nat
  BY LenProperties
<1>2. /\ SubSeq(s, 1, n) \in Seq(Events) /\ Len(SubSeq(s, 1, n)) = n
      /\ \A i \in 1..n : SubSeq(s, 1, n)[i] = s[i]
  BY <1>1, SubSeqProperties, ElementOfSeq
<1>3. Grouped(SubSeq(s, 1, n))
  BY <1>1, <1>2 DEF Grouped
<1>4. ASSUME SubSeq(s, 1, n) # <<>> PROVE s # <<>> /\ Head(SubSeq(s, 1, n)) = Head(s)
  <2>1. n >= 1 /\ s # <<>>
    BY <1>1, <1>2, <1>4, EmptySeq
  <2> QED  BY <1>1, <1>2, <1>4, <2>1, TailFacts
<1> QED  BY <1>2, <1>3, <1>4

-----------------------------------------------------------------------------
\* Types, and the little the loop knows of itself.

LEMMA InitLoop == Init => LoopInv
<1> SUFFICES ASSUME Init PROVE LoopInv
  OBVIOUS
<1>1. sinceInject = 0 /\ turnCount = 0 /\ 0 \in 0..(ReinjectEvery - 1)
  BY DEF Init
<1>2. TypeOK
  <2>1. mode \in Modes /\ clientOpen \in BOOLEAN /\ clientAlive \in BOOLEAN /\ o2c \in BOOLEAN /\ oaiUp \in BOOLEAN
    BY Zenon DEF Init
  <2>2. /\ inbox \in Seq(Frames) /\ oaiBuf \in Seq(1..MaxAudio) /\ oaiPending \in Seq(Responses)
        /\ oaiOut \in Seq(Events) /\ turnCaption \in Seq(Responses) /\ appended \in Seq(1..MaxAudio)
    BY EmptySeq DEF Init
  <2>3. c2o \subseteq {"current", "stale"} /\ turns \in SUBSET SUBSET Responses
    BY DEF Init
  <2>4. /\ sentAudio \in 0..MaxAudio /\ sentCtrl \in 0..MaxCtrl /\ pc \in {"connect", "backoff", "relay", "ended"}
        /\ attempts \in 0..MaxRetries /\ retryDelay \in 1..MaxDelay
        /\ turnCount \in 0..(ReinjectEvery - 1) /\ sinceInject \in Nat
    BY <1>1 DEF Init
  <2> QED  BY <2>1, <2>2, <2>3, <2>4 DEF TypeOK
<1>3. AttemptsLeft /\ NoStaleTask /\ CountsAgree
  BY DEF Init, AttemptsLeft, NoStaleTask, CountsAgree
<1> QED  BY <1>2, <1>3 DEF LoopInv

\* What the browser and OpenAI do leaves the loop alone.
LEMMA EnvironmentLoop == ASSUME LoopInv, Environment PROVE LoopInv'
<1> USE DEF TypeOK, loopVars, oaiVars, turnVars, clientVars
<1>0. TypeOK  BY DEF LoopInv
<1>1. CASE ClientSendAudio
  <2>0. sentAudio + 1 \in 1..MaxAudio
    BY <1>0, <1>1 DEF ClientSendAudio
  <2>1. Audio(sentAudio + 1) \in Frames
    BY <2>0, Zenon DEF Frames
  <2>2. Append(inbox, Audio(sentAudio + 1)) \in Seq(Frames)
    BY <1>0, <2>1, AppendProperties
  <2> QED
    BY <1>0, <1>1, <2>0, <2>2 DEF ClientSendAudio, LoopInv, AttemptsLeft, NoStaleTask, CountsAgree
<1>2. ASSUME NEW k \in {"commit", "interrupt"}, ClientSendCtrl(k) PROVE LoopInv'
  <2>1. Append(inbox, Ctrl(k)) \in Seq(Frames)
    BY <1>0, AppendProperties DEF Frames
  <2> QED
    BY <1>0, <1>2, <2>1 DEF ClientSendCtrl, LoopInv, AttemptsLeft, NoStaleTask, CountsAgree
<1>3. CASE ClientClose
  <2>1. Append(inbox, Ctrl("disconnect")) \in Seq(Frames)
    BY <1>0, AppendProperties DEF Frames
  <2> QED
    BY <1>0, <1>3, <2>1 DEF ClientClose, LoopInv, AttemptsLeft, NoStaleTask, CountsAgree
<1>4. CASE OaiDetectsTurn
  <2>1. Range(oaiBuf) \in Responses
    BY <1>0 DEF Range, Responses
  <2>2. Append(oaiPending, Range(oaiBuf)) \in Seq(Responses)
    BY <1>0, <2>1, AppendProperties
  <2> QED
    BY <1>0, <1>4, <2>2 DEF OaiDetectsTurn, LoopInv, AttemptsLeft, NoStaleTask, CountsAgree
<1>5. CASE OaiResponds
  <2>1. PICK r \in Responses : r = Head(oaiPending)
    BY <1>0, <1>5, HeadTailProperties DEF OaiResponds
  <2>2. Tail(oaiPending) \in Seq(Responses)
    BY <1>0, <1>5, HeadTailProperties DEF OaiResponds
  <2>3. \A k \in {"delta", "done", "error", "noise"} : [kind |-> k, resp |-> r] \in Events
    BY <2>1 DEF Events
  <2>4. oaiOut' \in Seq(Events)
    <3> DEFINE ev(k) == [kind |-> k, resp |-> r]
    <3>1. ev("delta") \in Events /\ ev("done") \in Events /\ ev("error") \in Events
      BY <2>3
    <3>2. \/ oaiOut' = oaiOut \o <<ev("delta"), ev("delta"), ev("done")>>
          \/ oaiOut' = oaiOut \o <<ev("done")>>
          \/ oaiOut' = oaiOut \o <<ev("delta"), ev("error"), ev("done")>>
      BY <1>5, <2>1 DEF OaiResponds, Emit
    <3> HIDE DEF ev
    <3>3. /\ <<ev("delta"), ev("delta"), ev("done")>> \in Seq(Events)
          /\ <<ev("done")>> \in Seq(Events)
          /\ <<ev("delta"), ev("error"), ev("done")>> \in Seq(Events)
      BY <3>1
    <3>4. \A es \in Seq(Events) : oaiOut \o es \in Seq(Events)
      BY <1>0, ConcatProperties
    <3> QED  BY <3>2, <3>3, <3>4
  <2> QED
    BY <1>0, <1>5, <2>2, <2>4 DEF OaiResponds, LoopInv, AttemptsLeft, NoStaleTask, CountsAgree
<1>6. CASE OaiDrops
  <2>1. PICK n \in 0..Len(oaiOut) : oaiOut' = SubSeq(oaiOut, 1, n)
    BY <1>6 DEF OaiDrops
  <2>2. oaiOut' \in Seq(Events)
    <3>1. Len(oaiOut) \in Nat /\ \A i \in 1..n : oaiOut[i] \in Events
      BY <1>0, <2>1, LenProperties, ElementOfSeq
    <3> QED  BY <2>1, <3>1, SubSeqProperties
  <2>3. oaiUp' \in BOOLEAN /\ oaiBuf' \in Seq(1..MaxAudio) /\ oaiPending' \in Seq(Responses)
    BY <1>6, EmptySeq DEF OaiDrops
  <2>4. TypeOK'
    BY <1>0, <1>6, <2>2, <2>3 DEF OaiDrops
  <2> QED
    BY <1>6, <2>4 DEF OaiDrops, LoopInv, AttemptsLeft, NoStaleTask, CountsAgree
<1> QED  BY <1>1, <1>2, <1>3, <1>4, <1>5, <1>6 DEF Environment

LEMMA LoopLoop == ASSUME LoopInv, Loop PROVE LoopInv'
<1> USE DEF TypeOK, loopVars, oaiVars, turnVars, clientVars
<1>0. TypeOK  BY DEF LoopInv
<1>1. CASE Connect
  BY <1>0, <1>1 DEF Connect, LoopInv, AttemptsLeft, NoStaleTask, CountsAgree
<1>2. CASE ConnectFails
  BY <1>0, <1>2 DEF ConnectFails, LoopInv, AttemptsLeft, NoStaleTask, CountsAgree
<1>3. CASE ConnectRaises
  BY <1>0, <1>3 DEF ConnectRaises, LoopInv, AttemptsLeft, NoStaleTask, CountsAgree
<1>4. CASE BackoffOver
  BY <1>0, <1>4 DEF BackoffOver, LoopAgain, LoopInv, AttemptsLeft, NoStaleTask, CountsAgree
<1>5. CASE IterationEnds
  <2>1. /\ oaiUp' \in BOOLEAN /\ oaiBuf' \in Seq(1..MaxAudio) /\ oaiPending' \in Seq(Responses)
        /\ oaiOut' \in Seq(Events) /\ o2c' \in BOOLEAN
    BY <1>5, EmptySeq DEF IterationEnds
  <2>2. c2o' = {} /\ pc' \in {"connect", "ended"} /\ (pc' = "connect" => attempts < MaxRetries)
    BY <1>5 DEF IterationEnds, LoopAgain
  <2>3. TypeOK'
    BY <1>0, <1>5, <2>1, <2>2 DEF IterationEnds
  <2>4. AttemptsLeft' /\ CountsAgree'
    BY <1>5, <2>2 DEF IterationEnds, LoopInv, AttemptsLeft, CountsAgree
  <2>5. NoStaleTask'
    BY <1>5, <2>2 DEF IterationEnds, NoStaleTask
  <2> QED  BY <2>3, <2>4, <2>5 DEF LoopInv
<1> QED  BY <1>1, <1>2, <1>3, <1>4, <1>5 DEF Loop

LEMMA ClientLoop == ASSUME LoopInv, NEW t \in {"current", "stale"}, ClientToOpenai(t) PROVE LoopInv'
<1> USE DEF TypeOK, loopVars, oaiVars, turnVars, clientVars, LoopInv, AttemptsLeft, NoStaleTask, CountsAgree
<1>1. inbox # <<>> /\ inbox' = Tail(inbox)
  BY DEF ClientToOpenai, ReadDisconnect, ForwardAudio, ForwardAudioFails, ForwardCommit,
     ForwardInterrupt, DropCtrl, ReadFrame
<1>2. Tail(inbox) \in Seq(Frames) /\ Head(inbox) \in Frames
  BY <1>1, HeadTailProperties
<1>3. CASE ReadDisconnect(t) \/ ForwardAudioFails(t)
  <2>1. c2o' = c2o \ {t} /\ t \in c2o /\ clientAlive' = FALSE
    BY <1>3 DEF ReadDisconnect, ForwardAudioFails, ReadFrame
  <2>2. TypeOK'
    BY <1>1, <1>2, <1>3, <2>1 DEF ReadDisconnect, ForwardAudioFails
  <2>3. NoStaleTask'
    <3>1. c2o' \subseteq {"current"} /\ pc = "relay" /\ pc' = pc
      BY <1>3, <2>1 DEF ReadDisconnect, ForwardAudioFails
    <3> QED  BY <3>1
  <2>4. AttemptsLeft' /\ CountsAgree'
    BY <1>3 DEF ReadDisconnect, ForwardAudioFails
  <2> QED  BY <2>2, <2>3, <2>4
<1>4. CASE ForwardAudio(t)
  <2>1. Head(inbox).n \in 1..MaxAudio
    BY <1>2, <1>4 DEF ForwardAudio, ReadFrame, Frames, Audio, Ctrl
  <2>2. Append(oaiBuf, Head(inbox).n) \in Seq(1..MaxAudio) /\ Append(appended, Head(inbox).n) \in Seq(1..MaxAudio)
    BY <2>1, AppendProperties
  <2> QED  BY <1>1, <1>2, <1>4, <2>2 DEF ForwardAudio
<1>5. CASE ForwardCommit(t)
  <2>1. [kind |-> "noise", resp |-> {}] \in Events
    BY DEF Responses, Events
  <2>3. \A i \in DOMAIN oaiBuf : oaiBuf[i] \in 1..MaxAudio
    BY ElementOfSeq, LenProperties
  <2>4. Range(oaiBuf) \in Responses
    BY <2>3 DEF Range, Responses
  <2>5. Append(oaiPending, Range(oaiBuf)) \in Seq(Responses)
    BY <2>4, AppendProperties
  <2>6. Append(oaiOut, [kind |-> "noise", resp |-> {}]) \in Seq(Events)
    BY <2>1, AppendProperties
  <2>7. oaiOut' \in Seq(Events)
    BY <1>5, <2>6 DEF ForwardCommit
  <2>8. UNCHANGED <<sentAudio, sentCtrl, mode, clientOpen, clientAlive, pc, attempts, retryDelay, c2o, o2c, turnCaption>>
    BY <1>5 DEF ForwardCommit
  <2>2. oaiPending' \in Seq(Responses) /\ oaiBuf' \in Seq(1..MaxAudio)
    BY <1>5, <2>5 DEF ForwardCommit
  <2> QED  BY <1>1, <1>2, <1>5, <2>2, <2>7, <2>8 DEF ForwardCommit
<1>6. CASE ForwardInterrupt(t)
  <2>1. oaiPending # <<>> => Head(oaiPending) \in Responses /\ Tail(oaiPending) \in Seq(Responses)
    BY HeadTailProperties
  <2>2. /\ [kind |-> "noise", resp |-> {}] \in Events
        /\ oaiPending # <<>> => [kind |-> "done", resp |-> Head(oaiPending)] \in Events
    BY <2>1 DEF Events, Responses
  <2>3. \A e \in Events : Append(oaiOut, e) \in Seq(Events)
    BY AppendProperties
  <2>4. oaiOut' \in Seq(Events) /\ oaiPending' \in Seq(Responses)
    <3>1. CASE oaiPending = <<>>
      <4>1. oaiOut' = Append(oaiOut, [kind |-> "noise", resp |-> {}]) /\ oaiPending' = oaiPending
        BY <1>6, <3>1 DEF ForwardInterrupt
      <4> QED  BY <4>1, <2>2, <2>3
    <3>2. CASE oaiPending # <<>>
      <4>1. /\ oaiOut' = Append(oaiOut, [kind |-> "done", resp |-> Head(oaiPending)])
            /\ oaiPending' = Tail(oaiPending)
        BY <1>6, <3>2 DEF ForwardInterrupt
      <4> QED  BY <3>2, <4>1, <2>1, <2>2, <2>3
    <3> QED  BY <3>1, <3>2
  <2> QED  BY <1>1, <1>2, <1>6, <2>4 DEF ForwardInterrupt
<1>7. CASE DropCtrl(t)
  BY <1>1, <1>2, <1>7 DEF DropCtrl
<1> QED  BY <1>3, <1>4, <1>5, <1>6, <1>7 DEF ClientToOpenai

\* Where a turn ends the two counts move together, and return to zero together.
LEMMA DoneCounts ==
    ASSUME LoopInv, ForwardDone
    PROVE  turnCount' \in 0..(ReinjectEvery - 1) /\ sinceInject' = turnCount'
<1>1. turnCount \in Nat /\ turnCount < ReinjectEvery /\ turnCount' = (turnCount + 1) % ReinjectEvery
  BY DEF LoopInv, TypeOK, ForwardDone
<1>2. CASE turnCount + 1 = ReinjectEvery
  <2>1. turnCount' = 0
    BY <1>1, <1>2
  <2> QED  BY <2>1 DEF ForwardDone
<1>3. CASE turnCount + 1 < ReinjectEvery
  <2>1. turnCount' = turnCount + 1
    BY <1>1, <1>3
  <2> QED  BY <1>1, <1>3, <2>1 DEF ForwardDone, LoopInv, CountsAgree
<1> QED  BY <1>1, <1>2, <1>3

LEMMA OpenaiLoop == ASSUME LoopInv, OpenaiToClient PROVE LoopInv'
<1> USE DEF TypeOK, loopVars, oaiVars, turnVars, clientVars, LoopInv, AttemptsLeft, NoStaleTask, CountsAgree
<1>1. oaiOut # <<>> => Head(oaiOut) \in Events /\ Tail(oaiOut) \in Seq(Events)
  BY HeadTailProperties
<1>2. CASE SendFails
  BY <1>1, <1>2 DEF SendFails
<1>3. CASE ForwardDelta
  <2>1. Head(oaiOut).resp \in Responses
    BY <1>1, <1>3 DEF ForwardDelta, NextEvent, Events
  <2>2. Append(turnCaption, Head(oaiOut).resp) \in Seq(Responses)
    BY <2>1, AppendProperties
  <2> QED  BY <1>1, <1>3, <2>2 DEF ForwardDelta, NextEvent
<1>4. CASE ForwardDone
  <2>1. Range(turnCaption) \subseteq Responses
    BY DEF Range
  <2>2. turns' \in SUBSET SUBSET Responses
    BY <1>4, <2>1 DEF ForwardDone
  <2>3. o2c /\ o2c' \in BOOLEAN
    BY <1>4 DEF ForwardDone, NextEvent
  <2>4. turnCount' \in 0..(ReinjectEvery - 1) /\ sinceInject' = turnCount' /\ sinceInject' \in Nat
    BY DoneCounts, <1>4
  <2>5. turnCaption' \in Seq(Responses)
    BY <1>4 DEF ForwardDone
  <2> QED  BY <1>1, <1>4, <2>2, <2>3, <2>4, <2>5 DEF ForwardDone, NextEvent
<1>5. CASE ForwardError
  BY <1>1, <1>5 DEF ForwardError, NextEvent
<1>6. CASE StreamEnds
  BY <1>6 DEF StreamEnds
<1> QED  BY <1>2, <1>3, <1>4, <1>5, <1>6 DEF OpenaiToClient

LEMMA StepLoop == LoopInv /\ [Next]_vars => LoopInv'
<1> SUFFICES ASSUME LoopInv, [Next]_vars PROVE LoopInv'
  OBVIOUS
<1>1. CASE UNCHANGED vars
  BY <1>1 DEF vars, clientVars, loopVars, oaiVars, turnVars, LoopInv, TypeOK, AttemptsLeft,
     NoStaleTask, CountsAgree
<1> QED  BY <1>1, EnvironmentLoop, LoopLoop, ClientLoop, OpenaiLoop DEF Next

\* The loop's place, its tasks and its sessions agree (realtime_translate.py, the
\* while loop of realtime_translate_ws and the tasks it cancels).
THEOREM LoopInvariant == Spec => []LoopInv
BY InitLoop, StepLoop, PTL DEF Spec

\* Every variable keeps its type: sinceInject too, which no code resets but
\* the injection itself and a new connection.
THEOREM TypeCorrect == Spec => []TypeOK
<1>1. LoopInv => TypeOK
  BY DEF LoopInv
<1> QED  BY <1>1, LoopInvariant, PTL

\* No connection goes ReinjectEvery turns without the accent-locked prompt:
\* turn_count is the number of turns since it was last sent.
THEOREM PromptFresh == Spec => []PromptIsFresh
<1>1. LoopInv => PromptIsFresh
  BY DEF LoopInv, TypeOK, CountsAgree, PromptIsFresh
<1> QED  BY <1>1, LoopInvariant, PTL

-----------------------------------------------------------------------------
\* The delay is a power of two, capped. That the powers are what their recursion
\* says, and numbers, follows by taking the least one that is not.

Less == {ss \in Nat \X Nat : ss[1] < ss[2]}

\* Every set of numbers has a least one.
LEMMA Least ==
  ASSUME NEW T, T \subseteq Nat, T # {}
  PROVE  \E x \in T : \A y \in T : x <= y
<1>0. IsWellFoundedOn(Less, Nat)
  BY NatLessThanWellFounded DEF OpToRel, Less
<1>1. PICK x \in T : \A y \in T : <<y, x>> \notin Less
  BY <1>0, WFMin
<1>2. ASSUME NEW y \in T PROVE x <= y
  <2>1. x \in Nat /\ y \in Nat
    BY <1>1
  <2>2. <<y, x>> \notin Less
    BY <1>1
  <2>3. ~(y < x)
    BY <2>1, <2>2 DEF Less
  <2> QED  BY <2>1, <2>3
<1> QED  BY <1>1, <1>2

Doubles(F, n) == F = [k \in 0..n |-> IF k = 0 THEN 1 ELSE 2 * F[k - 1]]

\* The recursion has a solution up to every number.
LEMMA DoublesExists == \A n \in Nat : \E F : Doubles(F, n)
<1> DEFINE Bad == {n \in Nat : ~\E F : Doubles(F, n)}
<1>1. ASSUME Bad # {} PROVE FALSE
  <2>1. PICK n \in Bad : \A k \in Bad : n <= k
    BY <1>1, Least
  <2>2. n \in Nat /\ ~\E F : Doubles(F, n)
    BY <2>1
  <2>3. n # 0
    <3>1. Doubles([k \in 0..0 |-> 1], 0)
      BY DEF Doubles
    <3> QED  BY <2>2, <3>1
  <2>4. n - 1 \in Nat /\ n - 1 \notin Bad
    <3> HIDE DEF Bad
    <3> QED  BY <2>1, <2>2, <2>3
  <2>5. PICK G : Doubles(G, n - 1)
    BY <2>4
  <2>6. PICK F : F = [k \in 0..n |-> IF k = 0 THEN 1 ELSE 2 * G[k - 1]]
    OBVIOUS
  <2>7. \A k \in 0..(n - 1) : F[k] = G[k]
    BY <2>2, <2>3, <2>5, <2>6 DEF Doubles
  <2>8. \A k \in 0..n : F[k] = IF k = 0 THEN 1 ELSE 2 * F[k - 1]
    <3>1. SUFFICES ASSUME NEW k \in 0..n, k # 0 PROVE F[k] = 2 * F[k - 1]
      BY <2>2, <2>6
    <3>2. k - 1 \in 0..(n - 1)
      BY <2>2, <3>1
    <3> QED  BY <2>6, <2>7, <3>1, <3>2
  <2>9. Doubles(F, n)
    BY <2>6, <2>8 DEF Doubles
  <2> QED  BY <2>2, <2>9
<1> QED  BY <1>1

LEMMA TwoToIs == \A n \in 0..MaxRetries : TwoTo[n] = IF n = 0 THEN 1 ELSE 2 * TwoTo[n - 1]
<1>1. Doubles(TwoTo, MaxRetries)
  BY DoublesExists DEF Doubles, TwoTo
<1> QED  BY <1>1 DEF Doubles

LEMMA TwoToNat == \A n \in 0..MaxRetries : TwoTo[n] \in Nat \ {0}
<1> DEFINE Bad == {n \in 0..MaxRetries : TwoTo[n] \notin Nat \ {0}}
<1>1. ASSUME Bad # {} PROVE FALSE
  <2>1. PICK n \in Bad : \A k \in Bad : n <= k
    <3>1. Bad \subseteq Nat
      OBVIOUS
    <3> QED  BY <1>1, <3>1, Least
  <2>2. n \in 0..MaxRetries /\ TwoTo[n] \notin Nat \ {0}
    BY <2>1
  <2>3. n # 0
    BY <2>2, TwoToIs
  <2>4. n - 1 \in 0..MaxRetries /\ n - 1 \notin Bad
    <3> HIDE DEF Bad
    <3> QED  BY <2>1, <2>2, <2>3
  <2>5. TwoTo[n - 1] \in Nat \ {0}
    BY <2>4
  <2> QED  BY <2>2, <2>3, <2>5, TwoToIs
<1> QED  BY <1>1

\* Connecting, the delay is the one the next failure waits; a relay starts anew.
Paced ==
  /\ pc = "connect" => retryDelay = Capped(TwoTo[attempts])
  /\ pc = "backoff" => attempts > 0
  /\ pc = "relay" => attempts = 0 /\ retryDelay = 1
  /\ BackoffFollowsAttempts

LEMMA FirstDelay == Capped(TwoTo[0]) = 1
BY TwoToIs DEF Capped

\* One wait more doubles the delay, up to the cap.
LEMMA NextDelay ==
  ASSUME NEW n \in 1..MaxRetries, NEW d, d = Capped(TwoTo[n - 1])
  PROVE  Capped(TwoTo[n]) = IF 2 * d <= MaxDelay THEN 2 * d ELSE MaxDelay
<1>1. n - 1 \in 0..MaxRetries /\ n \in 0..MaxRetries /\ n # 0
  OBVIOUS
<1>2. TwoTo[n - 1] \in Nat /\ TwoTo[n] = 2 * TwoTo[n - 1]
  BY <1>1, TwoToIs, TwoToNat
<1> QED  BY <1>2 DEF Capped

LEMMA StepPaced == LoopInv /\ Paced /\ [Next]_vars => Paced'
<1> SUFFICES ASSUME LoopInv, Paced, [Next]_vars PROVE Paced'
  OBVIOUS
<1>0. attempts \in 0..MaxRetries /\ AttemptsLeft
  BY DEF LoopInv, TypeOK
<1>1. CASE Connect
  BY <1>1 DEF Connect, Paced, BackoffFollowsAttempts
<1>2. CASE ConnectFails
  BY <1>0, <1>2 DEF ConnectFails, Paced, BackoffFollowsAttempts, AttemptsLeft
<1>3. CASE ConnectRaises
  BY <1>3 DEF ConnectRaises, Paced, BackoffFollowsAttempts
<1>4. CASE BackoffOver
  <2>1. attempts \in 1..MaxRetries /\ retryDelay = Capped(TwoTo[attempts - 1])
    BY <1>0, <1>4 DEF BackoffOver, Paced, BackoffFollowsAttempts
  <2>2. retryDelay' = Capped(TwoTo[attempts])
    BY <1>4, <2>1, NextDelay DEF BackoffOver
  <2> QED  BY <1>4, <2>2 DEF BackoffOver, Paced, BackoffFollowsAttempts
<1>5. CASE IterationEnds
  BY <1>5, FirstDelay DEF IterationEnds, Paced, BackoffFollowsAttempts
<1>6. CASE UNCHANGED <<pc, attempts, retryDelay>>
  BY <1>6 DEF Paced, BackoffFollowsAttempts
<1>7. ASSUME ~Loop PROVE UNCHANGED <<pc, attempts, retryDelay>>
  BY <1>7 DEF Next, Environment, ClientSendAudio, ClientSendCtrl, ClientClose, OaiDetectsTurn,
     OaiResponds, OaiDrops, OpenaiToClient, ClientToOpenai, ReadDisconnect,
     ForwardAudio, ForwardAudioFails, ForwardCommit, ForwardInterrupt, DropCtrl, SendFails, ForwardDelta,
     ForwardDone, ForwardError, StreamEnds, vars, loopVars
<1> QED  BY <1>1, <1>2, <1>3, <1>4, <1>5, <1>6, <1>7 DEF Loop

\* While connecting fails in a row, the delay is the doubling of the number of
\* failures, capped (retry_delay of realtime_translate.py): a success resets both.
THEOREM PacedByFailures == Spec => []BackoffFollowsAttempts
<1>1. Init => Paced
  BY FirstDelay DEF Init, Paced, BackoffFollowsAttempts
<1>2. Paced => BackoffFollowsAttempts
  BY DEF Paced
<1> QED  BY <1>1, <1>2, LoopInvariant, StepPaced, PTL DEF Spec

-----------------------------------------------------------------------------
\* A caption is of one response.

captionVars == <<oaiOut, oaiUp, turnCaption, o2c, turns>>

LEMMA CaptionFrame == ASSUME CaptionInv, UNCHANGED captionVars PROVE CaptionInv'
BY DEF captionVars, CaptionInv, EventsGrouped, Grouped, Closed, Continues, OneCaption, OneResponsePerTurn

LEMMA InitCaption == Init => CaptionInv
<1>1. Len(<<>>) = 0
  OBVIOUS
<1> QED
  BY <1>1 DEF Init, CaptionInv, EventsGrouped, Grouped, Closed, OneCaption, OneResponsePerTurn

\* More events behind a session that is up: what is read next is what it was.
LEMMA MoreEvents ==
    ASSUME LoopInv, CaptionInv, oaiUp, oaiUp', UNCHANGED <<turnCaption, o2c, turns>>,
           Grouped(oaiOut'), Closed(oaiOut'), oaiOut' # <<>>,
           oaiOut # <<>> => Head(oaiOut') = Head(oaiOut)
    PROVE  CaptionInv'
<1>1. EventsGrouped' /\ OneResponsePerTurn'
  BY DEF CaptionInv, EventsGrouped, Grouped, Closed, OneResponsePerTurn
<1>2. OneCaption'
  <2>1. ASSUME o2c, turnCaption # <<>>
        PROVE  /\ Head(oaiOut').kind \in {"delta", "error", "done"}
               /\ Head(oaiOut').kind = "delta" => Head(oaiOut').resp = turnCaption[1]
    <3>1. oaiOut # <<>>
      BY <2>1 DEF CaptionInv, OneCaption
    <3> QED  BY <2>1, <3>1 DEF CaptionInv, OneCaption
  <2> QED  BY <2>1 DEF CaptionInv, OneCaption
<1> QED  BY <1>1, <1>2 DEF CaptionInv

LEMMA EnvironmentCaption == ASSUME LoopInv, CaptionInv, Environment PROVE CaptionInv'
<1>0. oaiOut \in Seq(Events) /\ oaiPending \in Seq(Responses)
  BY DEF LoopInv, TypeOK
<1>1. CASE ClientSendAudio \/ (\E k \in {"commit", "interrupt"} : ClientSendCtrl(k))
             \/ ClientClose \/ OaiDetectsTurn
  BY <1>1, CaptionFrame DEF ClientSendAudio, ClientSendCtrl, ClientClose, OaiDetectsTurn,
     captionVars, oaiVars, turnVars
<1>2. CASE OaiResponds
  <2>1. PICK r \in Responses : r = Head(oaiPending)
    BY <1>0, <1>2, HeadTailProperties DEF OaiResponds
  <2> DEFINE ev(k) == [kind |-> k, resp |-> r]
  <2>2. PICK es \in {<<ev("delta"), ev("delta"), ev("done")>>, <<ev("done")>>,
                     <<ev("delta"), ev("error"), ev("done")>>} : oaiOut' = oaiOut \o es
    BY <1>2, <2>1 DEF OaiResponds, Emit
  <2>3. ev("delta") \in Events /\ ev("done") \in Events /\ ev("error") \in Events
    BY <2>1 DEF Events
  <2>4. /\ ev("delta").kind = "delta" /\ ev("done").kind = "done" /\ ev("error").kind = "error"
        /\ ev("delta").resp = r
    OBVIOUS
  <2>5. es \in Seq(Events) /\ es # <<>> /\ Grouped(es) /\ Closed(es)
    <3> HIDE DEF ev
    <3>1. CASE es = <<ev("done")>>
      <4>1. es \in Seq(Events) /\ Len(es) = 1 /\ es[1] = ev("done") /\ es # <<>>
        BY <2>3, <3>1
      <4> QED  BY <4>1, <2>4 DEF Grouped, Closed
    <3>2. CASE es = <<ev("delta"), ev("delta"), ev("done")>>
      <4>1. /\ es \in Seq(Events) /\ Len(es) = 3 /\ es # <<>>
            /\ es[1] = ev("delta") /\ es[2] = ev("delta") /\ es[3] = ev("done")
        BY <2>3, <3>2
      <4>2. Continues(es[1], es[2]) /\ Continues(es[2], es[3])
        BY <4>1, <2>4 DEF Continues
      <4> QED  BY <4>1, <4>2, <2>4 DEF Grouped, Closed
    <3>3. CASE es = <<ev("delta"), ev("error"), ev("done")>>
      <4>1. /\ es \in Seq(Events) /\ Len(es) = 3 /\ es # <<>>
            /\ es[1] = ev("delta") /\ es[2] = ev("error") /\ es[3] = ev("done")
        BY <2>3, <3>3
      <4>2. Continues(es[1], es[2]) /\ Continues(es[2], es[3])
        BY <4>1, <2>4 DEF Continues
      <4> QED  BY <4>1, <4>2, <2>4 DEF Grouped, Closed
    <3> QED  BY <2>2, <3>1, <3>2, <3>3
  <2>6. Grouped(oaiOut) /\ Closed(oaiOut)
    BY <1>2 DEF CaptionInv, EventsGrouped, OaiResponds
  <2>7. /\ Grouped(oaiOut') /\ Closed(oaiOut') /\ oaiOut' # <<>>
        /\ oaiOut # <<>> => Head(oaiOut') = Head(oaiOut)
    BY <1>0, <2>2, <2>5, <2>6, GroupedConcat
  <2> QED
    BY <1>2, <2>7, MoreEvents DEF OaiResponds, turnVars
<1>3. CASE OaiDrops
  <2>1. PICK n \in 0..Len(oaiOut) : oaiOut' = SubSeq(oaiOut, 1, n)
    BY <1>3 DEF OaiDrops
  <2>2. Grouped(oaiOut') /\ (oaiOut' # <<>> => oaiOut # <<>> /\ Head(oaiOut') = Head(oaiOut))
    BY <1>0, <2>1, GroupedPrefix DEF CaptionInv, EventsGrouped
  <2>3. ~oaiUp' /\ UNCHANGED <<turnCaption, o2c, turns>>
    BY <1>3 DEF OaiDrops, turnVars
  <2> QED
    BY <2>2, <2>3 DEF CaptionInv, EventsGrouped, OneCaption, OneResponsePerTurn, Grouped, Closed
<1> QED  BY <1>1, <1>2, <1>3 DEF Environment

LEMMA LoopCaption == ASSUME LoopInv, CaptionInv, Loop PROVE CaptionInv'
<1>0. Len(<<>>) = 0
  OBVIOUS
<1>1. CASE Connect
  BY <1>0, <1>1 DEF Connect, CaptionInv, EventsGrouped, OneCaption, OneResponsePerTurn, Grouped, Closed
<1>2. CASE ConnectFails \/ ConnectRaises \/ BackoffOver
  BY <1>2, CaptionFrame DEF ConnectFails, ConnectRaises, BackoffOver, captionVars, oaiVars, turnVars
<1>3. CASE IterationEnds
  BY <1>0, <1>3 DEF IterationEnds, turnVars, CaptionInv, EventsGrouped, OneCaption, OneResponsePerTurn,
     Grouped, Closed
<1> QED  BY <1>1, <1>2, <1>3 DEF Loop

LEMMA ClientCaption ==
    ASSUME LoopInv, CaptionInv, NEW t \in {"current", "stale"}, ClientToOpenai(t)
    PROVE  CaptionInv'
<1>0. oaiOut \in Seq(Events) /\ oaiPending \in Seq(Responses)
  BY DEF LoopInv, TypeOK
<1>1. CASE ReadDisconnect(t) \/ ForwardAudio(t) \/ ForwardAudioFails(t) \/ DropCtrl(t)
  BY <1>1, CaptionFrame DEF ReadDisconnect, ForwardAudio, ForwardAudioFails, DropCtrl,
     captionVars, oaiVars, turnVars
<1>2. ASSUME NEW e \in Events, e.kind \in {"done", "noise"}, oaiUp, oaiOut' = Append(oaiOut, e),
             UNCHANGED <<oaiUp, turnCaption, o2c, turns>>
      PROVE  CaptionInv'
  <2>1. Grouped(oaiOut) /\ Closed(oaiOut)
    BY <1>2 DEF CaptionInv, EventsGrouped
  <2>2. /\ Grouped(oaiOut') /\ Closed(oaiOut') /\ oaiOut' # <<>>
        /\ oaiOut # <<>> => Head(oaiOut') = Head(oaiOut)
    BY <1>0, <1>2, <2>1, GroupedAppend
  <2> QED  BY <1>2, <2>2, MoreEvents
<1>3. [kind |-> "noise", resp |-> {}] \in Events
  BY DEF Events, Responses
<1>4. CASE ForwardCommit(t)
  <2>1. oaiUp /\ UNCHANGED <<oaiUp, turnCaption, o2c, turns>>
    BY <1>4 DEF ForwardCommit, CanSend, turnVars
  <2>2. CASE oaiBuf = <<>>
    BY <1>2, <1>3, <1>4, <2>1, <2>2 DEF ForwardCommit
  <2>3. CASE oaiBuf # <<>>
    BY <1>4, <2>1, <2>3, CaptionFrame DEF ForwardCommit, captionVars
  <2> QED  BY <2>2, <2>3
<1>5. CASE ForwardInterrupt(t)
  <2>1. oaiUp /\ UNCHANGED <<oaiUp, turnCaption, o2c, turns>>
    BY <1>5 DEF ForwardInterrupt, CanSend, turnVars
  <2>2. CASE oaiPending = <<>>
    BY <1>2, <1>3, <1>5, <2>1, <2>2 DEF ForwardInterrupt
  <2>3. CASE oaiPending # <<>>
    <3>1. [kind |-> "done", resp |-> Head(oaiPending)] \in Events
      BY <1>0, <2>3, HeadTailProperties DEF Events
    <3> QED  BY <1>2, <1>5, <2>1, <2>3, <3>1 DEF ForwardInterrupt
  <2> QED  BY <2>2, <2>3
<1> QED  BY <1>1, <1>4, <1>5 DEF ClientToOpenai

\* All deltas of a caption name one response.
LEMMA OneInRange ==
    ASSUME NEW S, NEW s \in Seq(S), \A i, j \in 1..Len(s) : s[i] = s[j]
    PROVE  Cardinality(Range(s)) <= 1
<1>1. Len(s) \in Nat /\ Range(s) = {s[i] : i \in 1..Len(s)}
  BY DEF Range
<1>2. CASE Len(s) = 0
  <2>1. Range(s) = {}
    BY <1>1, <1>2
  <2> QED  BY <2>1, FS_EmptySet
<1>3. CASE Len(s) # 0
  <2>1. Range(s) = {s[1]}
    BY <1>1, <1>3
  <2>2. Cardinality({s[1]}) = 1
    BY FS_Singleton
  <2> QED  BY <2>1, <2>2
<1> QED  BY <1>2, <1>3

LEMMA OpenaiCaption == ASSUME LoopInv, CaptionInv, OpenaiToClient PROVE CaptionInv'
<1>0. oaiOut \in Seq(Events) /\ turnCaption \in Seq(Responses)
  BY DEF LoopInv, TypeOK
<1>1. Grouped(oaiOut) /\ (oaiUp => Closed(oaiOut)) /\ OneCaption /\ OneResponsePerTurn
  BY DEF CaptionInv, EventsGrouped
<1>2. ASSUME oaiOut # <<>>, oaiOut' = Tail(oaiOut), UNCHANGED oaiUp PROVE EventsGrouped'
  <2>1. Grouped(oaiOut') /\ (Closed(oaiOut) => Closed(oaiOut'))
    BY <1>0, <1>1, <1>2, GroupedTail
  <2> QED  BY <1>1, <1>2, <2>1 DEF EventsGrouped, Grouped, Closed
<1>3. CASE SendFails
  <2>1. EventsGrouped'
    BY <1>2, <1>3 DEF SendFails
  <2> QED  BY <1>1, <1>3, <2>1 DEF SendFails, turnVars, CaptionInv, OneCaption, OneResponsePerTurn
<1>4. CASE ForwardDelta
  <2> DEFINE h == Head(oaiOut)
  <2>1. /\ o2c /\ oaiOut # <<>> /\ h.kind = "delta" /\ oaiOut' = Tail(oaiOut)
        /\ turnCaption' = Append(turnCaption, h.resp) /\ UNCHANGED <<oaiUp, o2c, turns>>
    BY <1>4 DEF ForwardDelta, NextEvent
  <2>2. h.resp \in Responses
    <3>1. h \in Events
      BY <1>0, <2>1, TailFacts
    <3> QED  BY <3>1 DEF Events
  <2>3. turnCaption # <<>> => h.resp = turnCaption[1]
    BY <1>1, <2>1 DEF OneCaption
  <2>4. /\ Len(turnCaption) \in Nat /\ Len(turnCaption') = Len(turnCaption) + 1
        /\ \A i \in 1..Len(turnCaption) : turnCaption'[i] = turnCaption[i]
        /\ turnCaption'[Len(turnCaption) + 1] = h.resp
        /\ (turnCaption # <<>> => Len(turnCaption) >= 1)
        /\ (turnCaption = <<>> => Len(turnCaption) = 0)
    BY <1>0, <2>1, <2>2, AppendProperties, EmptySeq
  <2>5. \A i \in 1..Len(turnCaption') : turnCaption'[i] = h.resp
    <3> HIDE DEF h
    <3> QED  BY <1>1, <2>3, <2>4 DEF OneCaption
  <2>6. turnCaption'[1] = h.resp
    <3> HIDE DEF h
    <3> QED  BY <2>4, <2>5
  <2>7. IF oaiOut' = <<>> THEN ~oaiUp'
        ELSE /\ Head(oaiOut').kind \in {"delta", "error", "done"}
             /\ Head(oaiOut').kind = "delta" => Head(oaiOut').resp = turnCaption'[1]
    <3>1. CASE oaiOut' = <<>>
      <4>1. h = oaiOut[Len(oaiOut)]
        BY <1>0, <1>1, <2>1, <3>1, GroupedTail
      <4> QED  BY <1>1, <2>1, <3>1, <4>1 DEF Closed
    <3>2. CASE oaiOut' # <<>>
      <4>1. Continues(h, Head(oaiOut'))
        BY <1>0, <1>1, <2>1, <3>2, GroupedTail
      <4> QED  BY <2>1, <2>6, <3>2, <4>1 DEF Continues
    <3> QED  BY <3>1, <3>2
  <2>8. OneCaption'
    <3> HIDE DEF h
    <3> QED  BY <2>5, <2>7 DEF OneCaption
  <2> QED  BY <1>1, <1>2, <2>1, <2>8 DEF CaptionInv, OneResponsePerTurn
<1>5. CASE ForwardDone
  <2>1. EventsGrouped'
    BY <1>2, <1>5 DEF ForwardDone, NextEvent
  <2>2. Cardinality(Range(turnCaption)) <= 1
    BY <1>0, <1>1, OneInRange DEF OneCaption
  <2>3. OneResponsePerTurn'
    BY <1>1, <1>5, <2>2 DEF ForwardDone, OneResponsePerTurn
  <2>4. turnCaption' = <<>> /\ Len(<<>>) = 0
    BY <1>5 DEF ForwardDone
  <2> QED  BY <2>1, <2>3, <2>4 DEF CaptionInv, OneCaption
<1>6. CASE ForwardError
  <2> DEFINE h == Head(oaiOut)
  <2>1. /\ o2c /\ oaiOut # <<>> /\ h.kind \in {"noise", "error"} /\ oaiOut' = Tail(oaiOut)
        /\ UNCHANGED <<turnCaption, oaiUp, o2c, turns>>
    BY <1>6 DEF ForwardError, NextEvent, turnVars
  <2>2. ASSUME turnCaption # <<>>
        PROVE  IF oaiOut' = <<>> THEN ~oaiUp ELSE Head(oaiOut').kind = "done"
    <3>1. h.kind = "error"
      BY <1>1, <2>1, <2>2 DEF OneCaption
    <3>2. CASE oaiOut' = <<>>
      <4>1. h = oaiOut[Len(oaiOut)]
        BY <1>0, <1>1, <2>1, <3>2, GroupedTail
      <4> QED  BY <1>1, <2>1, <3>1, <3>2, <4>1 DEF Closed
    <3>3. CASE oaiOut' # <<>>
      <4>1. Continues(h, Head(oaiOut'))
        BY <1>0, <1>1, <2>1, <3>3, GroupedTail
      <4> QED  BY <3>1, <3>3, <4>1 DEF Continues
    <3> QED  BY <3>2, <3>3
  <2>3. OneCaption'
    BY <1>1, <2>1, <2>2 DEF OneCaption
  <2> QED  BY <1>1, <1>2, <2>1, <2>3 DEF CaptionInv, OneResponsePerTurn
<1>7. CASE StreamEnds
  BY <1>1, <1>7 DEF StreamEnds, oaiVars, turnVars, CaptionInv, EventsGrouped, OneCaption,
     OneResponsePerTurn, Grouped, Closed
<1> QED  BY <1>3, <1>4, <1>5, <1>6, <1>7 DEF OpenaiToClient

LEMMA StepCaption == LoopInv /\ CaptionInv /\ [Next]_vars => CaptionInv'
<1> SUFFICES ASSUME LoopInv, CaptionInv, [Next]_vars PROVE CaptionInv'
  OBVIOUS
<1>1. CASE UNCHANGED vars
  BY <1>1, CaptionFrame DEF vars, captionVars, oaiVars, turnVars
<1> QED  BY <1>1, EnvironmentCaption, LoopCaption, ClientCaption, OpenaiCaption DEF Next

\* The caption of a turn_done is of one response at most, whatever interrupts,
\* failed responses and lost connections came before it.
THEOREM OneResponse == Spec => []OneResponsePerTurn
<1>1. CaptionInv => OneResponsePerTurn
  BY DEF CaptionInv
<1> QED  BY <1>1, InitCaption, StepCaption, LoopInvariant, PTL DEF Spec

-----------------------------------------------------------------------------
\* No frame is skipped on a connection.

frameVars == <<inbox, sentAudio, appended, c2o>>

LEMMA FrameFrame == ASSUME FrameInv, UNCHANGED frameVars PROVE FrameInv'
BY DEF frameVars, FrameInv, FramesInOrder, Waits, NextWaits, NoGapInSession

LEMMA FrameKinds ==
    /\ \A n : Audio(n).kind = "audio" /\ Audio(n).n = n
    /\ \A k : Ctrl(k).kind = k
    /\ \A f \in Frames : f.kind = "audio" => f.n \in 1..MaxAudio /\ f = Audio(f.n)
BY DEF Audio, Ctrl, Frames

\* Between a browser that sends and a task that reads, the order is kept.
LEMMA InitFrames == Init => FrameInv
<1>1. Len(<<>>) = 0
  OBVIOUS
<1> QED
  BY <1>1 DEF Init, FrameInv, FramesInOrder, Waits, NextWaits, NoGapInSession

\* A frame at the end of the queue.
LEMMA SentWaits ==
    ASSUME LoopInv, NEW f \in Frames, inbox' = Append(inbox, f)
    PROVE  /\ Len(inbox) \in Nat /\ Len(inbox') = Len(inbox) + 1 /\ inbox'[Len(inbox) + 1] = f
           /\ \A k \in 1..Len(inbox) : inbox'[k] = inbox[k]
           /\ \A n : Waits(n)' <=> Waits(n) \/ f = Audio(n)
<1>1. /\ Len(inbox) \in Nat /\ Len(inbox') = Len(inbox) + 1 /\ inbox'[Len(inbox) + 1] = f
      /\ \A k \in 1..Len(inbox) : inbox'[k] = inbox[k]
  BY AppendProperties DEF LoopInv, TypeOK
<1> QED  BY <1>1 DEF Waits

LEMMA SendsFrames ==
    ASSUME LoopInv, FrameInv, ClientSendAudio
    PROVE  FrameInv'
<1>1. /\ sentAudio \in Nat /\ sentAudio + 1 \in 1..MaxAudio /\ sentAudio' = sentAudio + 1
      /\ inbox' = Append(inbox, Audio(sentAudio + 1)) /\ UNCHANGED <<appended, c2o>>
  BY DEF LoopInv, TypeOK, ClientSendAudio
<1>2. Audio(sentAudio + 1) \in Frames /\ \A n : Audio(sentAudio + 1) = Audio(n) <=> n = sentAudio + 1
  <2>1. Audio(sentAudio + 1) \in Frames
    BY <1>1, Zenon DEF Frames
  <2>2. \A n : Audio(sentAudio + 1) = Audio(n) => n = sentAudio + 1
    BY FrameKinds
  <2> QED  BY <2>1, <2>2
<1>3. /\ Len(inbox) \in Nat /\ Len(inbox') = Len(inbox) + 1
      /\ inbox'[Len(inbox) + 1] = Audio(sentAudio + 1)
      /\ \A k \in 1..Len(inbox) : inbox'[k] = inbox[k]
      /\ \A n : Waits(n)' <=> Waits(n) \/ n = sentAudio + 1
  BY <1>1, <1>2, SentWaits
<1>4. \A k \in 1..Len(inbox) : inbox[k].kind = "audio" => inbox[k].n \in 1..sentAudio
  <2>1. TAKE k \in 1..Len(inbox)
  <2>2. HAVE inbox[k].kind = "audio"
  <2>3. inbox[k] \in Frames
    BY ElementOfSeq DEF LoopInv, TypeOK
  <2>4. inbox[k].n \in 1..MaxAudio /\ inbox[k] = Audio(inbox[k].n)
    BY <2>2, <2>3, FrameKinds
  <2>5. Waits(inbox[k].n)
    BY <2>4 DEF Waits
  <2> QED  BY <1>1, <2>4, <2>5 DEF FrameInv, FramesInOrder
<1>5. ASSUME NEW k \in 1..Len(inbox'), NEW l \in 1..Len(inbox'), k < l,
             inbox'[k].kind = "audio", inbox'[l].kind = "audio"
      PROVE  inbox'[k].n < inbox'[l].n
  <2>1. k \in 1..Len(inbox) /\ inbox'[k] = inbox[k]
    BY <1>3, <1>5
  <2>2. CASE l \in 1..Len(inbox)
    BY <1>3, <1>5, <2>1, <2>2 DEF FrameInv, FramesInOrder
  <2>3. CASE l = Len(inbox) + 1
    BY <1>1, <1>3, <1>4, <1>5, <2>1, <2>3, FrameKinds
  <2> QED  BY <1>3, <2>2, <2>3
<1>6. FramesInOrder'
  <2>1. \A n \in 1..(sentAudio' - 1) : Waits(n)' => Waits(n + 1)'
    BY <1>1, <1>3 DEF FrameInv, FramesInOrder
  <2>2. \A n \in 1..MaxAudio : Waits(n)' => n <= sentAudio'
    BY <1>1, <1>3 DEF FrameInv, FramesInOrder
  <2> QED  BY <1>5, <2>1, <2>2 DEF FramesInOrder
<1>7. NextWaits'
  <2> SUFFICES ASSUME "current" \in c2o, appended # <<>>,
                      NEW last, last = appended'[Len(appended')]
               PROVE  /\ last <= sentAudio'
                      /\ \A n \in 1..MaxAudio : Waits(n)' => last < n
                      /\ last < sentAudio' => Waits(last + 1)'
    BY <1>1 DEF NextWaits
  <2>1. last \in Nat /\ last = appended[Len(appended)]
    BY <1>1, ElementOfSeq, EmptySeq, LenProperties DEF LoopInv, TypeOK
  <2>2. /\ last <= sentAudio
        /\ \A n \in 1..MaxAudio : Waits(n) => last < n
        /\ last < sentAudio => Waits(last + 1)
    BY <2>1 DEF FrameInv, NextWaits
  <2>3. last <= sentAudio' /\ \A n \in 1..MaxAudio : Waits(n)' => last < n
    BY <1>1, <1>3, <2>1, <2>2
  <2>4. ASSUME last < sentAudio' PROVE Waits(last + 1)'
    <3>1. Waits(last + 1) \/ last + 1 = sentAudio + 1
      BY <1>1, <2>1, <2>2, <2>4
    <3> QED  BY <1>3, <3>1
  <2> QED  BY <2>3, <2>4
<1> QED  BY <1>1, <1>6, <1>7 DEF FrameInv, NoGapInSession

\* A control frame in the queue is passed over.
LEMMA ControlFrames ==
    ASSUME LoopInv, FrameInv, NEW k \in {"commit", "interrupt", "disconnect"},
           inbox' = Append(inbox, Ctrl(k)), UNCHANGED <<sentAudio, appended, c2o>>
    PROVE  FrameInv'
<1>1. Ctrl(k) \in Frames /\ Ctrl(k).kind # "audio" /\ \A n : Ctrl(k) # Audio(n)
  BY FrameKinds DEF Frames
<1>2. /\ Len(inbox) \in Nat /\ Len(inbox') = Len(inbox) + 1
      /\ inbox'[Len(inbox) + 1] = Ctrl(k)
      /\ \A i \in 1..Len(inbox) : inbox'[i] = inbox[i]
      /\ \A n : Waits(n)' <=> Waits(n)
  BY <1>1, SentWaits
<1>3. FramesInOrder'
  <2>1. \A i \in 1..Len(inbox') : inbox'[i].kind = "audio" => i \in 1..Len(inbox) /\ inbox'[i] = inbox[i]
    BY <1>1, <1>2
  <2>2. \A i, j \in 1..Len(inbox') :
           i < j /\ inbox'[i].kind = "audio" /\ inbox'[j].kind = "audio" => inbox'[i].n < inbox'[j].n
    BY <2>1 DEF FrameInv, FramesInOrder
  <2> QED  BY <1>2, <2>2 DEF FrameInv, FramesInOrder
<1>4. NextWaits'
  BY <1>2 DEF FrameInv, NextWaits
<1> QED  BY <1>3, <1>4 DEF FrameInv, NoGapInSession

\* A frame taken from the head of the queue: every later one follows it.
LEMMA ReadWaits ==
    ASSUME LoopInv, FrameInv, inbox # <<>>, inbox' = Tail(inbox), sentAudio' = sentAudio
    PROVE  /\ FramesInOrder'
           /\ \A n : Waits(n) <=> Waits(n)' \/ Head(inbox) = Audio(n)
           /\ Head(inbox).kind = "audio" =>
                 /\ Head(inbox).n \in 1..sentAudio /\ Head(inbox) = Audio(Head(inbox).n)
                 /\ \A n \in 1..MaxAudio : Waits(n)' => Head(inbox).n < n
<1>1. /\ Len(inbox) \in Nat /\ Len(inbox) >= 1 /\ Head(inbox) = inbox[1] /\ Head(inbox) \in Frames
      /\ Len(inbox') = Len(inbox) - 1
      /\ \A i \in 1..(Len(inbox) - 1) : inbox'[i] = inbox[i + 1]
  BY TailFacts DEF LoopInv, TypeOK
<1>2. \A n : Waits(n)' => \E i \in 2..Len(inbox) : inbox[i] = Audio(n)
  <2>1. TAKE n
  <2>2. HAVE Waits(n)'
  <2>3. PICK i \in 1..Len(inbox') : inbox'[i] = Audio(n)
    BY <2>2 DEF Waits
  <2>4. i + 1 \in 2..Len(inbox) /\ inbox[i + 1] = Audio(n)
    BY <1>1, <2>3
  <2> QED  BY <2>4
<1>3. \A n : Waits(n) => Waits(n)' \/ Head(inbox) = Audio(n)
  <2>1. TAKE n
  <2>2. HAVE Waits(n)
  <2>3. PICK i \in 1..Len(inbox) : inbox[i] = Audio(n)
    BY <2>2 DEF Waits
  <2>4. CASE i = 1
    BY <1>1, <2>3, <2>4
  <2>5. CASE i # 1
    <3>1. i - 1 \in 1..Len(inbox') /\ inbox'[i - 1] = Audio(n)
      BY <1>1, <2>3, <2>5
    <3> QED  BY <3>1 DEF Waits
  <2> QED  BY <2>4, <2>5
<1>4. \A n : Waits(n) <=> Waits(n)' \/ Head(inbox) = Audio(n)
  <2>1. \A n : Waits(n)' => Waits(n)
    BY <1>1, <1>2 DEF Waits
  <2>2. \A n : Head(inbox) = Audio(n) => Waits(n)
    BY <1>1 DEF Waits
  <2> QED  BY <1>3, <2>1, <2>2
<1>5. ASSUME Head(inbox).kind = "audio"
      PROVE  /\ Head(inbox).n \in 1..sentAudio /\ Head(inbox) = Audio(Head(inbox).n)
             /\ \A n \in 1..MaxAudio : Waits(n)' => Head(inbox).n < n
  <2>1. Head(inbox).n \in 1..MaxAudio /\ Head(inbox) = Audio(Head(inbox).n)
    BY <1>1, <1>5, FrameKinds
  <2>2. Waits(Head(inbox).n)
    BY <1>4, <2>1
  <2>3. Head(inbox).n \in 1..sentAudio
    BY <2>1, <2>2 DEF FrameInv, FramesInOrder, LoopInv, TypeOK
  <2>4. \A n \in 1..MaxAudio : Waits(n)' => Head(inbox).n < n
    <3>1. TAKE n \in 1..MaxAudio
    <3>2. HAVE Waits(n)'
    <3>3. PICK i \in 2..Len(inbox) : inbox[i] = Audio(n)
      BY <1>2, <3>2
    <3>4. inbox[i].kind = "audio" /\ inbox[i].n = n
      BY <3>3, FrameKinds
    <3> QED  BY <1>1, <1>5, <3>4 DEF FrameInv, FramesInOrder
  <2> QED  BY <2>1, <2>3, <2>4
<1>6. FramesInOrder'
  <2>1. ASSUME NEW i \in 1..Len(inbox'), NEW j \in 1..Len(inbox'), i < j,
               inbox'[i].kind = "audio", inbox'[j].kind = "audio"
        PROVE  inbox'[i].n < inbox'[j].n
    <3>1. /\ i + 1 \in 1..Len(inbox) /\ j + 1 \in 1..Len(inbox) /\ i + 1 < j + 1
          /\ inbox'[i] = inbox[i + 1] /\ inbox'[j] = inbox[j + 1]
      BY <1>1, <2>1
    <3> QED  BY <2>1, <3>1 DEF FrameInv, FramesInOrder
  <2>2. ASSUME NEW n \in 1..(sentAudio' - 1), Waits(n)' PROVE Waits(n + 1)'
    <3>1. n \in 1..(sentAudio - 1) /\ n \in 1..MaxAudio /\ n + 1 \in 1..MaxAudio
      BY DEF LoopInv, TypeOK
    <3>2. Waits(n + 1)
      BY <1>4, <2>2, <3>1 DEF FrameInv, FramesInOrder
    <3>3. CASE Head(inbox) = Audio(n + 1)
      <4>1. Head(inbox).kind = "audio" /\ Head(inbox).n = n + 1
        BY <3>3, FrameKinds
      <4> QED  BY <1>5, <2>2, <3>1, <4>1
    <3> QED  BY <1>4, <3>2, <3>3
  <2>3. \A n \in 1..MaxAudio : Waits(n)' => n <= sentAudio'
    BY <1>4 DEF FrameInv, FramesInOrder
  <2> QED  BY <2>1, <2>2, <2>3 DEF FramesInOrder
<1> QED  BY <1>4, <1>5, <1>6

LEMMA ReadsFrames ==
    ASSUME LoopInv, FrameInv, NEW t \in {"current", "stale"}, ClientToOpenai(t)
    PROVE  FrameInv'
<1>1. /\ inbox # <<>> /\ inbox' = Tail(inbox) /\ sentAudio' = sentAudio /\ t \in c2o /\ t = "current"
  BY DEF ClientToOpenai, ReadDisconnect, ForwardAudio, ForwardAudioFails, ForwardCommit,
     ForwardInterrupt, DropCtrl, ReadFrame, clientVars, LoopInv, NoStaleTask
<1>2. /\ FramesInOrder'
      /\ \A n : Waits(n) <=> Waits(n)' \/ Head(inbox) = Audio(n)
      /\ Head(inbox).kind = "audio" =>
            /\ Head(inbox).n \in 1..sentAudio /\ Head(inbox) = Audio(Head(inbox).n)
            /\ \A n \in 1..MaxAudio : Waits(n)' => Head(inbox).n < n
  BY <1>1, ReadWaits
<1>3. CASE ReadDisconnect(t) \/ ForwardAudioFails(t)
  <2>1. "current" \notin c2o' /\ appended' = appended
    BY <1>1, <1>3 DEF ReadDisconnect, ForwardAudioFails
  <2> QED  BY <1>2, <2>1 DEF FrameInv, NextWaits, NoGapInSession
<1>4. CASE ForwardCommit(t) \/ ForwardInterrupt(t) \/ DropCtrl(t)
  <2>1. Head(inbox).kind # "audio" /\ UNCHANGED <<appended, c2o>>
    BY <1>4 DEF ForwardCommit, ForwardInterrupt, DropCtrl, ReadFrame
  <2>2. \A n : Waits(n) <=> Waits(n)'
    BY <1>2, <2>1, FrameKinds
  <2>3. NextWaits'
    BY <1>1, <2>1, <2>2 DEF FrameInv, NextWaits
  <2> QED  BY <1>2, <2>1, <2>3 DEF FrameInv, NoGapInSession
<1>5. CASE ForwardAudio(t)
  <2>1. PICK m : m = Head(inbox).n
    OBVIOUS
  <2>2. Head(inbox).kind = "audio" /\ appended' = Append(appended, m) /\ c2o' = c2o
    BY <1>5, <2>1 DEF ForwardAudio, ReadFrame
  <2>3. /\ sentAudio \in 0..MaxAudio /\ m \in 1..sentAudio /\ Head(inbox) = Audio(m) /\ Waits(m)
        /\ \A n \in 1..MaxAudio : Waits(n)' => m < n
    BY <1>2, <2>1, <2>2 DEF LoopInv, TypeOK
  <2>4. /\ Len(appended) \in Nat /\ Len(appended') = Len(appended) + 1
        /\ appended'[Len(appended) + 1] = m
        /\ \A i \in 1..Len(appended) : appended'[i] = appended[i]
    <3>1. m \in 1..MaxAudio /\ appended \in Seq(1..MaxAudio)
      BY <2>3 DEF LoopInv, TypeOK
    <3> QED  BY <2>2, <3>1, AppendProperties
  <2>5. NextWaits'
    <3>1. ASSUME m < sentAudio PROVE Waits(m + 1)'
      <4>1. m \in 1..(sentAudio - 1)
        BY <2>3, <3>1
      <4>2. Waits(m + 1)
        BY <2>3, <4>1 DEF FrameInv, FramesInOrder
      <4>3. Head(inbox) # Audio(m + 1)
        <5>1. Audio(m + 1).n = m + 1 /\ Audio(m).n = m /\ m # m + 1
          BY <2>3, FrameKinds
        <5> QED  BY <2>3, <5>1
      <4> QED  BY <1>2, <4>2, <4>3
    <3>2. appended'[Len(appended')] = m
      BY <2>4
    <3> QED  BY <1>1, <2>3, <3>1, <3>2 DEF NextWaits
  <2>6. ASSUME appended # <<>>, NEW last, last = appended[Len(appended)] PROVE m = last + 1
    <3>1. last \in Nat
      BY <2>6, ElementOfSeq, EmptySeq, LenProperties DEF LoopInv, TypeOK
    <3>2. last < m /\ (last < sentAudio => Waits(last + 1))
      <4>1. m \in 1..MaxAudio
        BY <2>3
      <4> QED  BY <1>1, <2>3, <2>6, <4>1 DEF FrameInv, NextWaits
    <3>3. Waits(last + 1) /\ last + 1 \in 1..MaxAudio /\ last + 1 <= m
      BY <2>3, <3>1, <3>2
    <3>4. CASE Head(inbox) = Audio(last + 1)
      <4>1. Audio(m).n = m /\ Audio(last + 1).n = last + 1
        BY FrameKinds
      <4> QED  BY <2>3, <3>4, <4>1
    <3>5. CASE Waits(last + 1)'
      <4>1. m < last + 1
        BY <2>3, <3>3, <3>5
      <4> QED  BY <2>3, <3>1, <3>3, <4>1
    <3>6. Head(inbox) = Audio(last + 1) \/ Waits(last + 1)'
      BY <1>2, <3>3
    <3> QED  BY <3>4, <3>5, <3>6
  <2>7. NoGapInSession'
    <3>1. ASSUME NEW i \in 1..(Len(appended') - 1) PROVE appended'[i + 1] = appended'[i] + 1
      <4>1. CASE i < Len(appended)
        BY <2>4, <4>1 DEF FrameInv, NoGapInSession
      <4>2. CASE i = Len(appended)
        <5>1. appended # <<>> /\ appended'[i] = appended[Len(appended)] /\ appended'[i + 1] = m
          <6>1. Len(<<>>) = 0
            OBVIOUS
          <6> QED  BY <2>4, <4>2, <6>1
        <5> QED  BY <2>6, <5>1
      <4> QED  BY <2>4, <4>1, <4>2
    <3> QED  BY <3>1 DEF NoGapInSession
  <2> QED  BY <1>2, <2>5, <2>7 DEF FrameInv
<1> QED  BY <1>3, <1>4, <1>5 DEF ClientToOpenai

LEMMA StepFrames == LoopInv /\ FrameInv /\ [Next]_vars => FrameInv'
<1> SUFFICES ASSUME LoopInv, FrameInv, [Next]_vars PROVE FrameInv'
  OBVIOUS
<1>1. CASE UNCHANGED vars
  BY <1>1, FrameFrame DEF vars, frameVars, clientVars
<1>2. ASSUME NEW k \in {"commit", "interrupt"}, ClientSendCtrl(k) PROVE FrameInv'
  BY <1>2, ControlFrames DEF ClientSendCtrl
<1>3. CASE ClientClose
  BY <1>3, ControlFrames DEF ClientClose
<1>4. CASE OaiDetectsTurn \/ OaiResponds \/ OaiDrops
  BY <1>4, FrameFrame DEF OaiDetectsTurn, OaiResponds, OaiDrops, frameVars, clientVars
<1>5. CASE ConnectFails \/ ConnectRaises \/ BackoffOver
  BY <1>5, FrameFrame DEF ConnectFails, ConnectRaises, BackoffOver, frameVars, clientVars
<1>6. CASE Connect
  <2>1. appended' = <<>> /\ Len(<<>>) = 0 /\ UNCHANGED <<inbox, sentAudio>>
    BY <1>6 DEF Connect, clientVars
  <2> QED  BY <2>1 DEF FrameInv, FramesInOrder, Waits, NextWaits, NoGapInSession
<1>7. CASE IterationEnds
  <2>1. c2o' = {} /\ UNCHANGED <<inbox, sentAudio, appended>>
    BY <1>7 DEF IterationEnds, clientVars
  <2> QED  BY <2>1 DEF FrameInv, FramesInOrder, Waits, NextWaits, NoGapInSession
<1>8. CASE OpenaiToClient
  BY <1>8, FrameFrame DEF OpenaiToClient, SendFails, ForwardDelta, ForwardDone, ForwardError,
     StreamEnds, frameVars, clientVars
<1> QED  BY <1>1, SendsFrames, <1>2, <1>3, <1>4, <1>5, <1>6, <1>7, <1>8, ReadsFrames DEF Next, Environment, Loop

\* On one OpenAI connection no audio frame is skipped, repeated or reordered,
\* however often the connection before it broke.
THEOREM NoGap == Spec => []NoGapInSession
<1>1. FrameInv => NoGapInSession
  BY DEF FrameInv
<1> QED  BY <1>1, InitFrames, StepFrames, LoopInvariant, PTL DEF Spec
=============================================================================
