-------------------------- MODULE StageAudio_proofs --------------------------
(***************************************************************************)
(* What the speaker's Stage records and what it plays to the others.  For  *)
(* any number of presses and lost connections: one connection at a time,   *)
(* no microphone left behind by a single press, and, while every setup is  *)
(* done before its release, turns that stay apart.  For any number of      *)
(* turns, chunks, retries and faults: a broadcast turn is played whole, at *)
(* most once by each path, and what was sent gets through.                 *)
(***************************************************************************)
EXTENDS PushToTalk, AudioBroadcast, FiniteSetTheorems, TLAPS

USE PttAssumption

Statuses == {"none", "waiting", "ready", "aborted", "gaveUp", "denied", "broken", "refused"}

\* Presses are numbered as they come, and nothing is known of those to come.
PressesCounted ==
    /\ held <= presses /\ cur <= presses /\ \A w \in closing : w <= presses
    /\ presses = 0 => ~processing
    /\ \A p \in P : p > presses => setup[p] = "none" /\ ws[p] = "none" /\ turn[p] = "none"

\* A connection that is up is the one the page knows.
UpIsCurrent == \A p \in P : ws[p] \in {"connecting", "open"} => cur = p

\* The microphone in the refs is of a setup that is done; one under way has its
\* stream, once granted, to itself.
HardwareInv ==
    /\ mic # 0 => setup[mic] = "ready"
    /\ \A p \in worklets : setup[p] = "ready"
    /\ \A p \in granted : setup[p] # "none" /\ (setup[p] = "waiting" => p \in micLive)

BaseInv == TypeOK /\ PressesCounted /\ UpIsCurrent /\ HardwareInv

\* A button that is down and was not refused.
Pressed == held # 0 /\ setup[held] # "refused"

\* While every setup is done before its release, what the shared refs hold is
\* of the press whose button is down.
RefsOfPress ==
    /\ worklets \subseteq {mic}
    /\ mic # 0 => mic = held /\ Pressed /\ pcm = {}
    /\ Pressed => cur \in {0, held} /\ turn[held] = "none" /\ ~processing /\ ~abort

\* A turn that is translated has the chunks to itself, and no release can make
\* a setup abort while it is.
TurnUnderWay ==
    cur # 0 /\ turn[cur] = "committed" =>
        pcm \subseteq {cur} /\ ~abort /\ ~processing /\ held = 0

Apart == RefsOfPress /\ TurnUnderWay /\ lost = {} /\ \A p \in P : heard[p] \subseteq {p} /\ said[p] \subseteq {p}

ApartInv == late = {} => Apart

\* A single press: what its setup holds, and which button state that means.
Alone ==
    /\ held # 0 => presses = 1
    /\ presses = 1 => /\ setup[1] # "refused"
                      /\ setup[1] = "waiting" => held = 1 \/ abort
                      /\ setup[1] = "ready" /\ micLive # {} => mic = 1 /\ held = 1
    /\ micLive # {} => /\ presses = 1 /\ micLive = {1} /\ 1 \in granted
                       /\ setup[1] \in {"waiting", "gaveUp", "ready"}

OnePress == presses <= 1 => Alone

-----------------------------------------------------------------------------
\* Types, numbers and the one connection.

\* What closes a WebSocket, and what is in the refs afterwards.
LEMMA ShutProps ==
    ASSUME BaseInv, NEW w \in Refs
    PROVE  /\ Shut(w) \in [P -> {"none", "connecting", "open", "closed"}]
           /\ \A p \in P : Shut(w)[p] = IF p = w THEN "closed" ELSE ws[p]
BY DEF BaseInv, TypeOK, Shut

LEMMA NotUp ==
    ASSUME BaseInv
    PROVE  \A p \in P : Shut(cur)[p] \notin {"connecting", "open"}
BY ShutProps DEF BaseInv, TypeOK, UpIsCurrent

LEMMA InitBase == Init => BaseInv
<1> SUFFICES ASSUME Init PROVE BaseInv
  OBVIOUS
<1>1. enabled \in BOOLEAN /\ recording \in BOOLEAN /\ abort \in BOOLEAN /\ processing \in BOOLEAN
  BY Zenon DEF Init
<1>2. TypeOK
  BY <1>1 DEF Init, TypeOK, P, Refs
<1>3. PressesCounted /\ UpIsCurrent /\ HardwareInv
  BY DEF Init, PressesCounted, UpIsCurrent, HardwareInv, P
<1> QED  BY <1>2, <1>3 DEF BaseInv

\* A step on the button or the refs that opens nothing: what is up stays that
\* of cur, or is closed with it.
LEMMA ShutKeeps ==
    ASSUME BaseInv, ws' = Shut(cur), cur' = 0
    PROVE  UpIsCurrent'
BY NotUp DEF UpIsCurrent

LEMMA SamePresses ==
    ASSUME BaseInv, UNCHANGED <<held, presses, setup, turn, processing, closing>>, cur' \in {0, cur},
           ws' = ws \/ ws' = Shut(cur)
    PROVE  PressesCounted'
<1>1. \A p \in P : ws'[p] = ws[p] \/ (p = cur /\ ws'[p] = "closed")
  BY ShutProps DEF BaseInv, TypeOK
<1> QED  BY <1>1 DEF BaseInv, TypeOK, PressesCounted, P, Refs

LEMMA ButtonBase ==
    ASSUME BaseInv, Press \/ PressRefused \/ ReleaseEarly \/ Deactivate \/ Activate \/ (\E c \in BOOLEAN : Release(c))
    PROVE  BaseInv'
<1> USE DEF button, hardware, sockets, turns, history
<1>0. TypeOK /\ PressesCounted /\ UpIsCurrent /\ HardwareInv
  BY DEF BaseInv
<1>a. cur \in Refs /\ \A p \in P : Shut(cur)[p] = IF p = cur THEN "closed" ELSE ws[p]
  BY ShutProps DEF BaseInv, TypeOK
<1>b. Shut(cur) \in [P -> {"none", "connecting", "open", "closed"}]
  BY <1>a, ShutProps
<1>c. \A p \in P : Shut(cur)[p] \notin {"connecting", "open"}
  BY NotUp
<1>1. CASE Press
  <2>1. presses \in Refs /\ presses' = presses + 1 /\ presses' \in P
    BY <1>0, <1>1 DEF Press, TypeOK, P, Refs
  <2>2. /\ setup' = [setup EXCEPT ![presses'] = "waiting"]
        /\ ws' = [Shut(cur) EXCEPT ![presses'] = "connecting"]
        /\ held' = presses' /\ cur' = presses' /\ abort' = FALSE /\ recording' = TRUE /\ ~processing
    BY <1>1 DEF Press
  <2>3. TypeOK'
    <3>1. setup' \in [P -> Statuses]
      BY <1>0, <2>1, <2>2 DEF Statuses, TypeOK
    <3>2. ws' \in [P -> {"none", "connecting", "open", "closed"}]
      BY <1>b, <2>1, <2>2
    <3>3. abort' \in BOOLEAN /\ recording' \in BOOLEAN
      BY <2>2
    <3> QED  BY <1>0, <1>1, <2>1, <2>2, <3>1, <3>2, <3>3 DEF Press, TypeOK, P, Refs
  <2>4. PressesCounted'
    BY <1>0, <1>1, <1>a, <1>b, <2>1, <2>2 DEF Press, TypeOK, PressesCounted, P, Refs
  <2>5. UpIsCurrent'
    BY <1>b, <1>c, <2>1, <2>2 DEF UpIsCurrent
  <2>6. HardwareInv'
    <3>1. setup[presses'] = "none"
      BY <1>0, <2>1 DEF PressesCounted, Refs
    <3>2. \A p \in P : setup'[p] = IF p = presses' THEN "waiting" ELSE setup[p]
      BY <1>0, <2>1, <2>2 DEF TypeOK
    <3>3. UNCHANGED <<granted, mic, micLive, worklets>>
      BY <1>1 DEF Press
    <3> QED  BY <1>0, <3>1, <3>2, <3>3 DEF HardwareInv, TypeOK, P, Refs
  <2> QED  BY <2>3, <2>4, <2>5, <2>6 DEF BaseInv
<1>2. CASE PressRefused
  <2>1. presses \in Refs /\ presses' = presses + 1 /\ presses' \in P
    BY <1>0, <1>2 DEF PressRefused, TypeOK, P, Refs
  <2>2. setup' = [setup EXCEPT ![presses'] = "refused"] /\ held' = presses' /\ UNCHANGED <<ws, cur, turn>>
    BY <1>2 DEF PressRefused
  <2>3. TypeOK'
    BY <1>0, <1>2, <2>1, <2>2 DEF PressRefused, TypeOK, P, Refs
  <2>4. PressesCounted'
    BY <1>0, <1>2, <2>1, <2>2 DEF PressRefused, TypeOK, PressesCounted, P, Refs
  <2>5. HardwareInv'
    <3>1. setup[presses'] = "none"
      BY <1>0, <2>1 DEF PressesCounted, Refs
    <3>2. \A p \in P : setup'[p] = IF p = presses' THEN "refused" ELSE setup[p]
      BY <1>0, <2>1, <2>2 DEF TypeOK
    <3>3. UNCHANGED <<granted, mic, micLive, worklets>>
      BY <1>2 DEF PressRefused
    <3> QED  BY <1>0, <3>1, <3>2, <3>3 DEF HardwareInv, TypeOK, P, Refs
  <2> QED  BY <1>0, <2>2, <2>3, <2>4, <2>5 DEF BaseInv, UpIsCurrent
<1>3. CASE ReleaseEarly
  <2>1. abort' \in BOOLEAN /\ recording' \in BOOLEAN
    BY <1>3 DEF ReleaseEarly
  <2>2. TypeOK'
    BY <1>0, <1>3, <2>1 DEF ReleaseEarly, TypeOK, Refs
  <2>3. PressesCounted'
    BY <1>0, <1>3 DEF ReleaseEarly, PressesCounted, TypeOK, Refs
  <2> QED  BY <1>0, <1>3, <2>2, <2>3 DEF ReleaseEarly, BaseInv, UpIsCurrent, HardwareInv
<1>4. CASE Deactivate
  <2>1. enabled' \in BOOLEAN /\ recording' \in BOOLEAN
    BY <1>4 DEF Deactivate
  <2>2. TypeOK'
    BY <1>0, <1>4, <1>b, <2>1 DEF Deactivate, TypeOK, Refs
  <2>3. PressesCounted'
    BY <1>4, SamePresses DEF Deactivate
  <2>4. HardwareInv'
    BY <1>0, <1>4 DEF Deactivate, HardwareInv, TypeOK, P
  <2> QED  BY <1>4, <2>2, <2>3, <2>4, ShutKeeps DEF Deactivate, BaseInv
<1>5. ASSUME NEW c \in BOOLEAN, Release(c) PROVE BaseInv'
  <2>1. recording' = FALSE /\ recording' \in BOOLEAN
    BY <1>5 DEF Release
  <2>2. /\ turn' \in [P -> {"none", "committed", "empty", "done"}]
        /\ \A p \in P : turn'[p] = turn[p] \/ (p = cur /\ turn'[p] = "committed")
    BY <1>0, <1>5 DEF Release, TypeOK
  <2>3. (ws' = ws /\ cur' = cur) \/ (ws' = Shut(cur) /\ cur' = 0)
    BY <1>5 DEF Release
  <2>4. TypeOK'
    BY <1>0, <1>5, <1>b, <2>1, <2>2, <2>3 DEF Release, TypeOK, Refs
  <2>5. PressesCounted'
    BY <1>0, <1>5, <1>a, <2>2, <2>3 DEF Release, PressesCounted, TypeOK, P, Refs
  <2>6. HardwareInv'
    BY <1>0, <1>5 DEF Release, HardwareInv, TypeOK, P
  <2>7. UpIsCurrent'
    BY <1>0, <2>3, ShutKeeps DEF UpIsCurrent
  <2> QED  BY <2>4, <2>5, <2>6, <2>7 DEF BaseInv
<1>6. CASE Activate
  <2>1. enabled' = TRUE /\ enabled' \in BOOLEAN
    BY <1>6 DEF Activate
  <2> QED  BY <1>0, <1>6, <2>1 DEF Activate, BaseInv, TypeOK, PressesCounted, UpIsCurrent, HardwareInv
<1> QED  BY <1>1, <1>2, <1>3, <1>4, <1>5, <1>6

\* Ready makes p a press that is under way.
LEMMA SetupBase ==
    ASSUME BaseInv, NEW p \in P, WsOpens(p) \/ MicGranted(p) \/ Resume(p)
    PROVE  BaseInv'
<1> USE DEF button, hardware, sockets, turns, history
<1>0. TypeOK /\ PressesCounted /\ UpIsCurrent /\ HardwareInv
  BY DEF BaseInv
<1>a. cur \in Refs /\ \A q \in P : Shut(cur)[q] = IF q = cur THEN "closed" ELSE ws[q]
  BY ShutProps DEF BaseInv, TypeOK
<1>b. Shut(cur) \in [P -> {"none", "connecting", "open", "closed"}]
  BY <1>a, ShutProps
<1>1. CASE WsOpens(p)
  <2>1. \A q \in P : ws'[q] = IF q = p THEN "open" ELSE ws[q]
    BY <1>0, <1>1 DEF WsOpens, TypeOK
  <2>2. TypeOK'
    BY <1>0, <1>1 DEF WsOpens, TypeOK
  <2>3. PressesCounted' /\ UpIsCurrent'
    BY <1>0, <1>1, <2>1 DEF WsOpens, PressesCounted, UpIsCurrent
  <2> QED  BY <1>0, <1>1, <2>2, <2>3 DEF WsOpens, BaseInv, HardwareInv
<1>2. CASE MicGranted(p)
  <2>1. TypeOK'
    BY <1>0, <1>2 DEF MicGranted, TypeOK
  <2>2. HardwareInv'
    BY <1>0, <1>2 DEF MicGranted, HardwareInv
  <2> QED  BY <1>0, <1>2, <2>1, <2>2 DEF MicGranted, BaseInv, PressesCounted, UpIsCurrent
<1>3. ASSUME NEW r \in {"aborted", "ready", "gaveUp", "denied", "broken"}, setup[p] = "waiting",
             setup' = [setup EXCEPT ![p] = r]
      PROVE  /\ setup' \in [P -> Statuses]
             /\ \A q \in P : setup'[q] = IF q = p THEN r ELSE setup[q]
             /\ p <= presses /\ p # mic /\ p \notin worklets /\ (p \in granted => p \in micLive)
  BY <1>0, <1>3 DEF Statuses, TypeOK, PressesCounted, HardwareInv, P, Refs
<1>4. ASSUME UNCHANGED <<held, presses, turn, processing, closing>>, cur' \in {0, cur}, ws' = ws \/ ws' = Shut(cur),
             \A q \in P : q > presses => setup'[q] = setup[q]
      PROVE  PressesCounted'
  BY <1>0, <1>4, <1>a DEF PressesCounted, TypeOK, P, Refs
<1>5. CASE SetupAborts(p)
  <2>1. /\ setup[p] = "waiting" /\ setup' = [setup EXCEPT ![p] = "aborted"] /\ micLive' = micLive \ {p}
        /\ ws' = Shut(cur) /\ cur' = 0 /\ UNCHANGED <<mic, worklets, granted>>
    BY <1>5 DEF SetupAborts, Ready
  <2>2. /\ setup' \in [P -> Statuses]
        /\ \A q \in P : setup'[q] = IF q = p THEN "aborted" ELSE setup[q]
        /\ p <= presses /\ p # mic /\ p \notin worklets
    BY <1>3, <2>1
  <2>3. recording' = FALSE /\ recording' \in BOOLEAN
    BY <1>5 DEF SetupAborts
  <2>4. lost' \subseteq P
    BY <1>0, <1>5 DEF SetupAborts, TypeOK
  <2>5. TypeOK'
    BY <1>0, <1>5, <1>b, <2>1, <2>2, <2>3, <2>4 DEF SetupAborts, TypeOK, Refs
  <2>6. PressesCounted'
    <3>1. \A q \in P : q > presses => setup'[q] = setup[q]
      BY <2>2, <1>0 DEF TypeOK, P, Refs
    <3> QED  BY <1>4, <1>5, <2>1, <3>1 DEF SetupAborts
  <2>7. HardwareInv'
    BY <1>0, <2>1, <2>2 DEF HardwareInv, TypeOK, P, Refs
  <2> QED  BY <2>1, <2>5, <2>6, <2>7, ShutKeeps DEF BaseInv
<1>6. CASE SetupDone(p)
  <2>1. /\ setup[p] = "waiting" /\ setup' = [setup EXCEPT ![p] = "ready"] /\ p \in granted
        /\ mic' = p /\ worklets' = worklets \cup {p} /\ UNCHANGED <<ws, cur, micLive, granted>>
    BY <1>6 DEF SetupDone, Ready
  <2>2. /\ setup' \in [P -> Statuses]
        /\ \A q \in P : setup'[q] = IF q = p THEN "ready" ELSE setup[q]
        /\ p <= presses /\ p \in micLive
    BY <1>3, <2>1
  <2>3. TypeOK'
    <3>1. late' \subseteq P
      BY <1>0, <1>6 DEF SetupDone, TypeOK
    <3>2. mic' \in Refs /\ worklets' \subseteq micLive
      BY <1>0, <2>1, <2>2 DEF TypeOK, P, Refs
    <3>3. UNCHANGED <<presses, held, enabled>>
      BY <1>6 DEF SetupDone
    <3> QED  BY <1>0, <1>6, <2>1, <2>2, <3>1, <3>2, <3>3 DEF SetupDone, TypeOK, Refs
  <2>4. PressesCounted'
    <3>1. \A q \in P : q > presses => setup'[q] = setup[q]
      BY <2>2, <1>0 DEF TypeOK, P, Refs
    <3> QED  BY <1>4, <1>6, <2>1, <3>1 DEF SetupDone
  <2>5. HardwareInv'
    BY <1>0, <2>1, <2>2 DEF HardwareInv, TypeOK, P, Refs
  <2> QED  BY <1>0, <2>1, <2>3, <2>4, <2>5 DEF BaseInv, UpIsCurrent
<1>7. CASE SetupFails(p)
  <2>1. PICK r \in {"gaveUp", "denied"} : setup' = [setup EXCEPT ![p] = r]
    BY <1>7 DEF SetupFails
  <2>2. /\ setup[p] = "waiting" /\ mic' = 0 /\ micLive' = micLive \ {mic} /\ worklets' = {}
        /\ ws' = Shut(cur) /\ cur' = 0 /\ UNCHANGED granted
    BY <1>7 DEF SetupFails, Cleared
  <2>3. /\ setup' \in [P -> Statuses]
        /\ \A q \in P : setup'[q] = IF q = p THEN r ELSE setup[q]
        /\ p <= presses
    BY <1>3, <2>1, <2>2
  <2>4. TypeOK'
    BY <1>0, <1>7, <1>b, <2>2, <2>3 DEF SetupFails, TypeOK, Refs
  <2>5. PressesCounted'
    <3>1. \A q \in P : q > presses => setup'[q] = setup[q]
      BY <2>3, <1>0 DEF TypeOK, P, Refs
    <3> QED  BY <1>4, <1>7, <2>2, <3>1 DEF SetupFails
  <2>6. HardwareInv'
    BY <1>0, <2>2, <2>3 DEF HardwareInv, TypeOK, P, Refs
  <2> QED  BY <2>2, <2>4, <2>5, <2>6, ShutKeeps DEF BaseInv
<1>8. CASE SetupBreaks(p)
  <2>1. /\ setup[p] = "waiting" /\ setup' = [setup EXCEPT ![p] = "broken"] /\ mic' = 0
        /\ micLive' = micLive \ {p} /\ worklets' = {} /\ pcm' = {}
        /\ ws' = Shut(cur) /\ cur' = 0 /\ UNCHANGED granted
    BY <1>8 DEF SetupBreaks, Ready, Cleared
  <2>2. /\ setup' \in [P -> Statuses]
        /\ \A q \in P : setup'[q] = IF q = p THEN "broken" ELSE setup[q]
        /\ p <= presses
    BY <1>3, <2>1
  <2>3. TypeOK'
    BY <1>0, <1>8, <1>b, <2>1, <2>2 DEF SetupBreaks, TypeOK, Refs, Statuses
  <2>4. PressesCounted'
    <3>1. \A q \in P : q > presses => setup'[q] = setup[q]
      BY <2>2, <1>0 DEF TypeOK, P, Refs
    <3> QED  BY <1>4, <1>8, <2>1, <3>1 DEF SetupBreaks
  <2>5. HardwareInv'
    BY <1>0, <2>1, <2>2 DEF HardwareInv, TypeOK, P, Refs
  <2> QED  BY <2>1, <2>3, <2>4, <2>5, ShutKeeps DEF BaseInv
<1> QED  BY <1>1, <1>2, <1>5, <1>6, <1>7, <1>8 DEF Resume

LEMMA RelayBase ==
    ASSUME BaseInv, NEW p \in P,
           WsDrops(p) \/ MicFrame(p) \/ AudioArrives(p) \/ TurnDone(p) \/ TurnEmpty(p)
             \/ ErrorArrives(p) \/ HandlerEnds(p) \/ HandlerFails(p)
    PROVE  BaseInv'
<1> USE DEF button, hardware, sockets, turns, history
<1>0. TypeOK /\ PressesCounted /\ UpIsCurrent /\ HardwareInv
  BY DEF BaseInv
<1>1. CASE WsDrops(p)
  <2>1. \A q \in P : ws'[q] = IF q = p THEN "closed" ELSE ws[q]
    BY <1>0, <1>1 DEF WsDrops, TypeOK
  <2>2. TypeOK'
    BY <1>0, <1>1 DEF WsDrops, TypeOK
  <2>3. PressesCounted' /\ UpIsCurrent'
    BY <1>0, <1>1, <2>1 DEF WsDrops, PressesCounted, UpIsCurrent
  <2> QED  BY <1>0, <1>1, <2>2, <2>3 DEF WsDrops, BaseInv, HardwareInv
<1>2. CASE MicFrame(p)
  <2>1. cur \in P
    BY <1>0, <1>2 DEF MicFrame, TypeOK, P, Refs
  <2>2. TypeOK'
    BY <1>0, <1>2, <2>1 DEF MicFrame, TypeOK
  <2> QED  BY <1>0, <1>2, <2>2 DEF MicFrame, BaseInv, PressesCounted, UpIsCurrent, HardwareInv
<1>3. CASE AudioArrives(p)
  BY <1>0, <1>3 DEF AudioArrives, BaseInv, TypeOK, PressesCounted, UpIsCurrent, HardwareInv
<1>4. CASE TurnDone(p)
  <2>1. turn[p] = "committed" /\ \A q \in P : turn'[q] = IF q = p THEN "done" ELSE turn[q]
    BY <1>0, <1>4 DEF TurnDone, TypeOK
  <2>2. handlers' \in [P -> Nat] /\ processing' \in BOOLEAN
    BY <1>0, <1>4 DEF TurnDone, TypeOK
  <2>3. TypeOK'
    BY <1>0, <1>4, <2>2 DEF TurnDone, TypeOK
  <2>4. PressesCounted'
    <3>1. ~ p > presses /\ presses # 0
      BY <1>0, <2>1 DEF PressesCounted, TypeOK, P, Refs
    <3> QED  BY <1>0, <1>4, <2>1, <3>1 DEF TurnDone, PressesCounted
  <2> QED  BY <1>0, <1>4, <2>3, <2>4 DEF TurnDone, BaseInv, UpIsCurrent, HardwareInv
<1>5. CASE TurnEmpty(p)
  <2>1. turn[p] = "committed" /\ \A q \in P : turn'[q] = IF q = p THEN "empty" ELSE turn[q]
    BY <1>0, <1>5 DEF TurnEmpty, TypeOK
  <2>2. TypeOK'
    BY <1>0, <1>5 DEF TurnEmpty, TypeOK
  <2>3. PressesCounted'
    BY <1>0, <1>5, <2>1 DEF TurnEmpty, PressesCounted
  <2> QED  BY <1>0, <1>5, <2>2, <2>3 DEF TurnEmpty, BaseInv, UpIsCurrent, HardwareInv
<1>6. CASE ErrorArrives(p)
  <2>1. processing' = FALSE /\ processing' \in BOOLEAN
    BY <1>6 DEF ErrorArrives
  <2>2. TypeOK'
    BY <1>0, <1>6, <2>1 DEF ErrorArrives, TypeOK
  <2> QED  BY <1>0, <1>6, <2>1, <2>2 DEF ErrorArrives, BaseInv, PressesCounted, UpIsCurrent, HardwareInv
<1>7. CASE HandlerEnds(p)
  <2>1. processing' = FALSE /\ processing' \in BOOLEAN
    BY <1>7 DEF HandlerEnds
  <2>2. handlers' \in [P -> Nat]
    BY <1>0, <1>7 DEF HandlerEnds, TypeOK
  <2>3. closing' \subseteq Refs
    BY <1>0, <1>7 DEF HandlerEnds, TypeOK
  <2>4. TypeOK'
    BY <1>0, <1>7, <2>1, <2>2, <2>3 DEF HandlerEnds, TypeOK
  <2> QED  BY <1>0, <1>7, <2>1, <2>4 DEF HandlerEnds, BaseInv, PressesCounted, UpIsCurrent, HardwareInv
<1>8. CASE HandlerFails(p)
  <2>1. handlers' \in [P -> Nat] /\ failed' \subseteq P
    BY <1>0, <1>8 DEF HandlerFails, TypeOK
  <2>2. TypeOK'
    BY <1>0, <1>8, <2>1 DEF HandlerFails, TypeOK
  <2> QED  BY <1>0, <1>8, <2>2 DEF HandlerFails, BaseInv, PressesCounted, UpIsCurrent, HardwareInv
<1> QED  BY <1>1, <1>2, <1>3, <1>4, <1>5, <1>6, <1>7, <1>8

LEMMA TimerBase == ASSUME BaseInv, NEW w \in Refs, CloseTimer(w) PROVE BaseInv'
<1> USE DEF button, hardware, sockets, turns, history
<1>0. TypeOK /\ PressesCounted /\ UpIsCurrent /\ HardwareInv
  BY DEF BaseInv
<1>1. /\ ws' \in [P -> {"none", "connecting", "open", "closed"}]
      /\ \A q \in P : ws'[q] = IF q = w THEN "closed" ELSE ws[q]
      /\ cur' = IF cur = w THEN 0 ELSE cur
  BY ShutProps DEF CloseTimer
<1>2. TypeOK'
  BY <1>0, <1>1 DEF CloseTimer, TypeOK, Refs
<1>3. PressesCounted'
  BY <1>0, <1>1 DEF CloseTimer, PressesCounted, TypeOK, P, Refs
<1>4. UpIsCurrent'
  BY <1>0, <1>1 DEF UpIsCurrent, P
<1> QED  BY <1>0, <1>2, <1>3, <1>4 DEF CloseTimer, BaseInv, HardwareInv

LEMMA StepBase == BaseInv /\ [Next]_vars => BaseInv'
<1> SUFFICES ASSUME BaseInv, [Next]_vars PROVE BaseInv'
  OBVIOUS
<1>1. CASE UNCHANGED vars
  BY <1>1 DEF vars, button, hardware, sockets, turns, history, BaseInv, TypeOK, PressesCounted,
     UpIsCurrent, HardwareInv
<1> QED  BY <1>1, ButtonBase, SetupBase, RelayBase, TimerBase DEF Next

\* WebSockets, microphones and the refs that hold them agree with what each press
\* is waiting for (Stage.jsx, startLocalRecording).
THEOREM BaseInvariant == Spec => []BaseInv
BY InitBase, StepBase, PTL DEF Spec

\* Every variable keeps its type, for any number of presses and drops.
THEOREM TypeCorrect == Spec => []TypeOK
<1>1. BaseInv => TypeOK
  BY DEF BaseInv
<1> QED  BY <1>1, BaseInvariant, PTL

LEMMA OneUp == BaseInv => OneConnection
<1> SUFFICES ASSUME BaseInv PROVE OneConnection
  OBVIOUS
<1> DEFINE up == {p \in P : ws[p] \in {"connecting", "open"}}
<1>1. up \subseteq {cur}
  BY DEF BaseInv, UpIsCurrent
<1>2. CASE up = {}
  <2>1. Cardinality({}) = 0
    BY FS_EmptySet
  <2> QED  BY <1>2, <2>1 DEF OneConnection
<1>3. CASE up = {cur}
  <2>1. Cardinality({cur}) = 1
    BY FS_Singleton
  <2> QED  BY <1>3, <2>1 DEF OneConnection
<1> QED  BY <1>1, <1>2, <1>3

-----------------------------------------------------------------------------
\* Turns stay apart while every setup is done before its release.

LEMMA InitApart == Init => ApartInv
BY DEF Init, ApartInv, Apart, RefsOfPress, Pressed, TurnUnderWay

LEMMA LateGrows == [Next]_vars => late \subseteq late'
<1> SUFFICES ASSUME [Next]_vars PROVE late \subseteq late'
  OBVIOUS
<1>1. ASSUME NEW p \in P, SetupDone(p) PROVE late \subseteq late'
  BY <1>1 DEF SetupDone
<1> QED
  BY <1>1 DEF Next, vars, button, hardware, sockets, turns, history, Press, PressRefused, ReleaseEarly,
     Deactivate, Activate, Release, WsOpens, WsDrops, MicGranted, MicFrame, Resume, SetupAborts, SetupBreaks, SetupFails, Cleared,
     AudioArrives, TurnDone, TurnEmpty, ErrorArrives, HandlerEnds, HandlerFails, CloseTimer

apartVars == <<worklets, mic, held, setup, pcm, cur, turn, processing, abort, lost, heard, said>>

LEMMA ApartFrame == ASSUME Apart, UNCHANGED apartVars PROVE Apart'
BY DEF apartVars, Apart, RefsOfPress, Pressed, TurnUnderWay

LEMMA ButtonApart ==
    ASSUME BaseInv, Apart, Press \/ PressRefused \/ ReleaseEarly \/ Deactivate \/ Activate \/ (\E c \in BOOLEAN : Release(c))
    PROVE  Apart'
<1> USE DEF button, hardware, sockets, turns, history
<1>0. /\ TypeOK /\ PressesCounted /\ UpIsCurrent /\ HardwareInv
      /\ RefsOfPress /\ TurnUnderWay /\ lost = {}
      /\ \A p \in P : heard[p] \subseteq {p} /\ said[p] \subseteq {p}
  BY DEF BaseInv, Apart
<1>a. /\ cur \in Refs /\ held \in Refs /\ presses \in Nat /\ worklets \subseteq P
      /\ mic = 0 => worklets = {}
  BY <1>0 DEF TypeOK, RefsOfPress, P, Refs
<1>1. CASE Press
  <2>1. presses' = presses + 1 /\ presses' \in P /\ held = 0 /\ ~processing
    BY <1>0, <1>1 DEF Press, TypeOK, P, Refs
  <2>2. setup'[presses'] = "waiting" /\ turn[presses'] = "none" /\ presses' # 0
    BY <1>0, <1>1, <1>a, <2>1 DEF Press, TypeOK, PressesCounted, P
  <2>3. mic = 0 /\ worklets = {}
    BY <1>0, <1>a, <2>1 DEF RefsOfPress, Pressed
  <2>4. /\ held' = presses' /\ cur' = presses' /\ abort' = FALSE
        /\ UNCHANGED <<mic, worklets, lost, heard, said, turn, processing>>
    BY <1>1 DEF Press
  <2>5. RefsOfPress'
    BY <2>1, <2>2, <2>3, <2>4 DEF RefsOfPress
  <2>6. TurnUnderWay'
    BY <2>2, <2>4 DEF TurnUnderWay
  <2> QED  BY <1>0, <2>4, <2>5, <2>6 DEF Apart
<1>2. CASE PressRefused
  <2>1. presses' = presses + 1 /\ presses' \in P /\ held = 0 /\ processing
    BY <1>0, <1>2 DEF PressRefused, TypeOK, P, Refs
  <2>2. held' = presses' /\ setup'[presses'] = "refused"
    BY <1>0, <1>2, <2>1 DEF PressRefused, TypeOK
  <2>3. mic = 0 /\ worklets = {}
    BY <1>0, <1>a, <2>1 DEF RefsOfPress, Pressed
  <2>4. UNCHANGED <<mic, worklets, lost, heard, said, turn, cur, pcm, abort, processing>>
    BY <1>2 DEF PressRefused
  <2>5. RefsOfPress'
    BY <2>2, <2>3, <2>4 DEF RefsOfPress, Pressed
  <2>6. TurnUnderWay'
    BY <1>0, <2>1, <2>4 DEF TurnUnderWay
  <2> QED  BY <1>0, <2>4, <2>5, <2>6 DEF Apart
<1>3. CASE ReleaseEarly
  <2>1. /\ held # 0 /\ mic = 0 /\ held' = 0
        /\ UNCHANGED <<mic, worklets, lost, heard, said, turn, cur, pcm>>
    BY <1>3 DEF ReleaseEarly
  <2>2. RefsOfPress'
    BY <1>a, <2>1 DEF RefsOfPress, Pressed
  <2>3. TurnUnderWay'
    BY <1>0, <2>1 DEF TurnUnderWay
  <2> QED  BY <1>0, <2>1, <2>2, <2>3 DEF Apart
<1>4. CASE Deactivate
  BY <1>0, <1>4 DEF Deactivate, Apart, RefsOfPress, Pressed, TurnUnderWay
<1>5. ASSUME NEW c \in BOOLEAN, Release(c) PROVE Apart'
  <2>1. /\ mic # 0 /\ held # 0 /\ held' = 0 /\ mic' = 0 /\ worklets' = worklets \ {mic}
        /\ UNCHANGED <<lost, heard, said, pcm, abort, processing>>
    BY <1>5 DEF Release
  <2>2. mic = held /\ pcm = {} /\ cur \in {0, held} /\ turn[held] = "none" /\ ~processing /\ ~abort
    BY <1>0, <2>1 DEF RefsOfPress
  <2>3. worklets' = {}
    BY <1>0, <2>1 DEF RefsOfPress
  <2>4. RefsOfPress'
    BY <2>1, <2>3 DEF RefsOfPress, Pressed
  <2>5. TurnUnderWay'
    BY <2>1, <2>2 DEF TurnUnderWay
  <2> QED  BY <1>0, <2>1, <2>4, <2>5 DEF Apart
<1>6. CASE Activate
  BY <1>6, ApartFrame DEF Activate, apartVars
<1> QED  BY <1>1, <1>2, <1>3, <1>4, <1>5, <1>6

\* The setup of a press that goes on leaves "refused" to the refused.
LEMMA SetupApart ==
    ASSUME BaseInv, Apart, NEW p \in P, WsOpens(p) \/ MicGranted(p) \/ Resume(p), late' = {}
    PROVE  Apart'
<1> USE DEF button, hardware, sockets, turns, history
<1>0. /\ TypeOK /\ PressesCounted /\ UpIsCurrent /\ HardwareInv
      /\ RefsOfPress /\ TurnUnderWay /\ lost = {}
      /\ \A q \in P : heard[q] \subseteq {q} /\ said[q] \subseteq {q}
  BY DEF BaseInv, Apart
<1>1. CASE WsOpens(p) \/ MicGranted(p)
  BY <1>1, ApartFrame DEF WsOpens, MicGranted, apartVars
<1>2. ASSUME NEW r \in {"aborted", "ready", "gaveUp", "denied", "broken"}, setup[p] = "waiting",
             setup' = [setup EXCEPT ![p] = r], held' = held
      PROVE  Pressed' <=> Pressed
  <2>1. held # 0 => held \in P
    BY <1>0 DEF TypeOK, P, Refs
  <2>2. \A q \in P : setup'[q] = IF q = p THEN r ELSE setup[q]
    BY <1>0, <1>2 DEF TypeOK
  <2> QED  BY <1>2, <2>1, <2>2 DEF Pressed
<1>3. CASE SetupAborts(p)
  <2>1. /\ abort /\ setup[p] = "waiting" /\ setup' = [setup EXCEPT ![p] = "aborted"] /\ cur' = 0
        /\ lost' = lost \cup {q \in P \ {p} : q = cur /\ Wanted(q)}
        /\ UNCHANGED <<held, mic, worklets, heard, said, pcm, turn, abort, processing>>
    BY <1>3 DEF SetupAborts, Ready
  <2>2. Pressed' <=> Pressed
    BY <1>2, <2>1
  <2>3. ASSUME NEW q \in P, q = cur, Wanted(q) PROVE FALSE
    <3>1. CASE turn[q] = "committed"
      BY <1>0, <2>1, <2>3, <3>1 DEF TurnUnderWay, P
    <3>2. CASE held = q /\ setup[q] \in {"waiting", "ready"}
      BY <1>0, <2>1, <3>2 DEF RefsOfPress, Pressed, P
    <3> QED  BY <2>3, <3>1, <3>2 DEF Wanted
  <2>4. lost' = {}
    BY <1>0, <2>1, <2>3
  <2>5. RefsOfPress'
    BY <1>0, <2>1, <2>2 DEF RefsOfPress
  <2> QED  BY <1>0, <2>1, <2>4, <2>5 DEF Apart, TurnUnderWay
<1>4. CASE SetupDone(p)
  <2>1. /\ ~abort /\ setup[p] = "waiting" /\ setup' = [setup EXCEPT ![p] = "ready"]
        /\ pcm' = {} /\ mic' = p /\ worklets' = worklets \cup {p}
        /\ UNCHANGED <<held, cur, lost, heard, said, turn, abort, processing>>
    BY <1>4 DEF SetupDone, Ready
  <2>2. held = p /\ p # 0
    BY <1>4 DEF SetupDone, P
  <2>3. Pressed /\ Pressed'
    BY <1>2, <2>1, <2>2 DEF Pressed
  <2>4. worklets \subseteq {p}
    BY <1>0, <2>2 DEF RefsOfPress, TypeOK, P
  <2>5. RefsOfPress'
    BY <1>0, <2>1, <2>2, <2>3, <2>4 DEF RefsOfPress
  <2>6. TurnUnderWay'
    BY <1>0, <2>1 DEF TurnUnderWay
  <2> QED  BY <1>0, <2>1, <2>5, <2>6 DEF Apart
<1>5. CASE SetupFails(p)
  <2>1. PICK r \in {"gaveUp", "denied"} : setup' = [setup EXCEPT ![p] = r]
    BY <1>5 DEF SetupFails
  <2>2. /\ setup[p] = "waiting" /\ cur' = 0 /\ mic' = 0 /\ worklets' = {}
        /\ UNCHANGED <<held, lost, heard, said, pcm, turn, abort, processing>>
    BY <1>5 DEF SetupFails, Cleared
  <2>3. Pressed' <=> Pressed
    BY <1>2, <2>1, <2>2
  <2>4. RefsOfPress'
    BY <1>0, <2>2, <2>3 DEF RefsOfPress
  <2> QED  BY <1>0, <2>2, <2>4 DEF Apart, TurnUnderWay
<1>6. CASE SetupBreaks(p)
  <2>1. /\ setup[p] = "waiting" /\ setup' = [setup EXCEPT ![p] = "broken"] /\ cur' = 0 /\ mic' = 0
        /\ worklets' = {} /\ pcm' = {}
        /\ UNCHANGED <<held, lost, heard, said, turn, abort, processing>>
    BY <1>6 DEF SetupBreaks, Ready, Cleared
  <2>2. Pressed' <=> Pressed
    BY <1>2, <2>1
  <2>3. RefsOfPress'
    BY <1>0, <2>1, <2>2 DEF RefsOfPress
  <2> QED  BY <1>0, <2>1, <2>3 DEF Apart, TurnUnderWay
<1> QED  BY <1>1, <1>3, <1>4, <1>5, <1>6 DEF Resume

LEMMA RelayApart ==
    ASSUME BaseInv, Apart, NEW p \in P,
           WsDrops(p) \/ MicFrame(p) \/ AudioArrives(p) \/ TurnDone(p) \/ TurnEmpty(p)
             \/ ErrorArrives(p) \/ HandlerEnds(p) \/ HandlerFails(p)
    PROVE  Apart'
<1> USE DEF button, hardware, sockets, turns, history
<1>0. /\ TypeOK /\ UpIsCurrent /\ RefsOfPress /\ TurnUnderWay /\ lost = {}
      /\ \A q \in P : heard[q] \subseteq {q} /\ said[q] \subseteq {q}
  BY DEF BaseInv, Apart
<1>1. CASE WsDrops(p)
  BY <1>1, ApartFrame DEF WsDrops, apartVars
<1>2. CASE MicFrame(p)
  <2>1. p \in worklets /\ cur # 0 /\ heard' = [heard EXCEPT ![cur] = @ \cup {p}]
    BY <1>2 DEF MicFrame
  <2>2. p = mic /\ mic # 0 /\ cur = p
    BY <1>0, <2>1 DEF RefsOfPress, P
  <2>3. \A q \in P : heard'[q] \subseteq {q}
    BY <1>0, <2>1, <2>2 DEF TypeOK
  <2> QED  BY <1>0, <1>2, <2>3 DEF MicFrame, Apart, RefsOfPress, Pressed, TurnUnderWay
<1>3. ASSUME ws[p] = "open", turn[p] = "committed"
      PROVE  cur = p /\ p # 0 /\ pcm \subseteq {p} /\ ~abort /\ ~processing /\ held = 0 /\ mic = 0 /\ ~Pressed
  BY <1>0, <1>3 DEF UpIsCurrent, RefsOfPress, TurnUnderWay, Pressed, P
<1>4. CASE AudioArrives(p)
  <2>1. ws[p] = "open" /\ turn[p] = "committed" /\ pcm' = pcm \cup {p}
    BY <1>4 DEF AudioArrives
  <2> QED  BY <1>0, <1>3, <1>4, <2>1 DEF AudioArrives, Apart, RefsOfPress, Pressed, TurnUnderWay
<1>5. CASE TurnDone(p)
  <2>1. /\ ws[p] = "open" /\ turn[p] = "committed" /\ pcm' = {}
        /\ said' = [said EXCEPT ![p] = pcm] /\ turn' = [turn EXCEPT ![p] = "done"]
    BY <1>5 DEF TurnDone
  <2>2. /\ cur = p /\ pcm \subseteq {p} /\ held = 0 /\ mic = 0
    BY <1>3, <2>1
  <2>3. turn'[p] = "done" /\ \A q \in P : said'[q] \subseteq {q}
    BY <1>0, <2>1, <2>2 DEF TypeOK
  <2> QED  BY <1>0, <1>5, <2>2, <2>3 DEF TurnDone, Apart, RefsOfPress, Pressed, TurnUnderWay
<1>6. CASE TurnEmpty(p)
  <2>1. ws[p] = "open" /\ turn[p] = "committed" /\ turn'[p] = "empty"
    BY <1>0, <1>6 DEF TurnEmpty, TypeOK
  <2>2. cur = p /\ held = 0 /\ mic = 0
    BY <1>3, <2>1
  <2> QED  BY <1>0, <1>6, <2>1, <2>2 DEF TurnEmpty, Apart, RefsOfPress, Pressed, TurnUnderWay
<1>7. CASE ErrorArrives(p)
  <2>1. ~processing'
    BY <1>7 DEF ErrorArrives
  <2> QED  BY <1>0, <1>7, <2>1 DEF ErrorArrives, Apart, RefsOfPress, Pressed, TurnUnderWay
<1>8. CASE HandlerEnds(p)
  <2>1. ~processing'
    BY <1>8 DEF HandlerEnds
  <2> QED  BY <1>0, <1>8, <2>1 DEF HandlerEnds, Apart, RefsOfPress, Pressed, TurnUnderWay
<1>9. CASE HandlerFails(p)
  BY <1>9, ApartFrame DEF HandlerFails, apartVars
<1> QED  BY <1>1, <1>2, <1>4, <1>5, <1>6, <1>7, <1>8, <1>9

LEMMA TimerApart == ASSUME BaseInv, Apart, NEW w \in Refs, CloseTimer(w) PROVE Apart'
<1>1. cur' \in {0, cur}
  BY DEF CloseTimer
<1> QED
  BY <1>1 DEF CloseTimer, button, hardware, history, Apart, RefsOfPress, Pressed, TurnUnderWay

LEMMA StepApart == BaseInv /\ ApartInv /\ [Next]_vars => ApartInv'
<1> SUFFICES ASSUME BaseInv, ApartInv, [Next]_vars, late' = {} PROVE Apart'
  BY DEF ApartInv
<1>1. Apart
  BY LateGrows DEF ApartInv
<1>2. CASE UNCHANGED vars
  BY <1>1, <1>2, ApartFrame DEF vars, apartVars, button, hardware, sockets, turns, history
<1> QED  BY <1>1, <1>2, ButtonApart, SetupApart, RelayApart, TimerApart DEF Next

\* While every setup is done before its release, the refs all presses share are
\* of the press whose button is down, or of the turn that is translated.
THEOREM ApartInvariant == Spec => []ApartInv
BY InitApart, StepApart, BaseInvariant, PTL DEF Spec

\* Only the press's own speech is sent to its session and only the audio of
\* its own translation forwarded with it, though all presses share the refs.
THEOREM TurnsApart == Spec => []TurnsStayApart
<1>1. ApartInv => TurnsStayApart
  BY DEF ApartInv, Apart, TurnsStayApart
<1> QED  BY <1>1, ApartInvariant, PTL

-----------------------------------------------------------------------------
\* A single press leaves no microphone behind.

LEMMA InitOne == Init => OnePress
BY DEF Init, OnePress, Alone

LEMMA PressesGrow == BaseInv /\ [Next]_vars => presses <= presses' /\ presses' \in Nat
<1> SUFFICES ASSUME BaseInv, [Next]_vars PROVE presses <= presses' /\ presses' \in Nat
  OBVIOUS
<1>1. presses \in Nat
  BY DEF BaseInv, TypeOK, Refs
<1>2. presses' = presses \/ presses' = presses + 1
  BY DEF Next, vars, button, hardware, sockets, turns, history, Press, PressRefused, ReleaseEarly,
     Deactivate, Activate, Release, WsOpens, WsDrops, MicGranted, MicFrame, Resume, SetupAborts, SetupDone, SetupBreaks,
     SetupFails, Cleared,
     AudioArrives, TurnDone, TurnEmpty, ErrorArrives, HandlerEnds, HandlerFails, CloseTimer
<1> QED  BY <1>1, <1>2

LEMMA StepOne == BaseInv /\ OnePress /\ [Next]_vars => OnePress'
<1> SUFFICES ASSUME BaseInv, OnePress, [Next]_vars, presses' <= 1 PROVE Alone'
  BY DEF OnePress
<1> USE DEF button, hardware, sockets, turns, history
<1>0. /\ TypeOK /\ PressesCounted /\ HardwareInv /\ Alone /\ presses \in Nat
      /\ micLive \subseteq P /\ mic \in Refs /\ granted \subseteq P
  BY PressesGrow DEF BaseInv, OnePress, TypeOK, Refs
\* A setup under way is that of the only press.
<1>a. ASSUME NEW p \in P, setup[p] # "none" PROVE p = 1 /\ presses = 1
  <2>1. p >= 1 /\ ~ p > presses /\ presses <= 1 /\ p \in Nat
    BY <1>0, <1>a, PressesGrow DEF PressesCounted, P
  <2> QED  BY <1>0, <2>1
<1>1. CASE Press
  <2>1. presses' = presses + 1 /\ held' = presses' /\ presses = 0 /\ presses' = 1 /\ 1 \in P
    BY <1>0, <1>1 DEF Press, P
  <2>2. setup'[1] = "waiting" /\ micLive' = {}
    BY <1>0, <1>1, <2>1 DEF Press, Alone, TypeOK
  <2> QED  BY <2>1, <2>2 DEF Alone
<1>2. CASE PressRefused
  <2>1. presses' = presses + 1 /\ processing
    BY <1>2 DEF PressRefused
  <2> QED  BY <1>0, <2>1 DEF PressesCounted
<1>3. CASE ReleaseEarly
  <2>1. held' = 0 /\ abort' /\ mic = 0 /\ UNCHANGED <<presses, setup, granted, mic, micLive>>
    BY <1>3 DEF ReleaseEarly
  <2>2. presses = 1 /\ setup[1] = "ready" => micLive = {}
    BY <1>0, <2>1 DEF Alone
  <2> QED  BY <1>0, <2>1, <2>2 DEF Alone
<1>4. CASE Deactivate
  <2>1. micLive' = micLive \ {mic} /\ UNCHANGED <<held, presses, setup, abort, granted>>
    BY <1>4 DEF Deactivate
  <2>2. presses = 1 /\ setup[1] = "ready" => micLive' = {}
    BY <1>0, <2>1 DEF Alone
  <2> QED  BY <1>0, <2>1, <2>2 DEF Alone
<1>5. ASSUME NEW c \in BOOLEAN, Release(c) PROVE Alone'
  <2>1. /\ held' = 0 /\ mic # 0 /\ micLive' = micLive \ {mic} /\ UNCHANGED <<presses, setup, abort, granted>>
    BY <1>5 DEF Release
  <2>2. setup[mic] = "ready" /\ mic = 1 /\ presses = 1
    BY <1>0, <1>a, <2>1 DEF HardwareInv, P, Refs
  <2>3. micLive' = {}
    BY <1>0, <2>1, <2>2 DEF Alone
  <2> QED  BY <1>0, <2>1, <2>2, <2>3 DEF Alone
<1>6. ASSUME NEW p \in P, MicGranted(p) PROVE Alone'
  <2>1. /\ setup[p] \in {"waiting", "gaveUp"} /\ granted' = granted \cup {p} /\ micLive' = micLive \cup {p}
        /\ UNCHANGED <<held, presses, setup, abort, mic>>
    BY <1>6 DEF MicGranted
  <2>2. p = 1 /\ presses = 1
    BY <1>a, <2>1
  <2>3. micLive' = {1} /\ 1 \in granted'
    BY <1>0, <2>1, <2>2 DEF Alone
  <2> QED  BY <1>0, <2>1, <2>2, <2>3 DEF Alone
<1>7. ASSUME NEW p \in P, NEW r \in {"aborted", "ready", "gaveUp", "denied", "broken"}, setup[p] = "waiting",
             setup' = [setup EXCEPT ![p] = r]
      PROVE  p = 1 /\ presses = 1 /\ setup'[1] = r
  BY <1>0, <1>7, <1>a DEF TypeOK
<1>8. ASSUME NEW p \in P, SetupAborts(p) PROVE Alone'
  <2>1. /\ setup[p] = "waiting" /\ setup' = [setup EXCEPT ![p] = "aborted"] /\ micLive' = micLive \ {p}
        /\ UNCHANGED <<held, presses>>
    BY <1>8 DEF SetupAborts, Ready
  <2>2. p = 1 /\ presses = 1 /\ setup'[1] = "aborted"
    BY <1>7, <2>1
  <2>3. micLive' = {}
    BY <1>0, <2>1, <2>2 DEF Alone
  <2> QED  BY <1>0, <2>1, <2>2, <2>3 DEF Alone
<1>9. ASSUME NEW p \in P, SetupDone(p) PROVE Alone'
  <2>1. /\ ~abort /\ setup[p] = "waiting" /\ setup' = [setup EXCEPT ![p] = "ready"] /\ mic' = p
        /\ UNCHANGED <<held, presses, abort, granted, micLive>>
    BY <1>9 DEF SetupDone, Ready
  <2>2. p = 1 /\ presses = 1 /\ setup'[1] = "ready"
    BY <1>7, <2>1
  <2>3. held = 1
    BY <1>0, <2>1, <2>2 DEF Alone
  <2> QED  BY <1>0, <2>1, <2>2, <2>3 DEF Alone
<1>10. ASSUME NEW p \in P, SetupFails(p) PROVE Alone'
  <2>1. /\ setup[p] = "waiting" /\ micLive' = micLive \ {mic} /\ UNCHANGED <<held, presses, abort, granted>>
        /\ \/ setup' = [setup EXCEPT ![p] = "gaveUp"]
           \/ p \notin granted /\ setup' = [setup EXCEPT ![p] = "denied"]
    BY <1>10 DEF SetupFails, Cleared
  <2>2. CASE setup' = [setup EXCEPT ![p] = "gaveUp"]
    <3>1. p = 1 /\ presses = 1 /\ setup'[1] = "gaveUp"
      BY <1>7, <2>1, <2>2
    <3> QED  BY <1>0, <2>1, <3>1 DEF Alone
  <2>3. CASE p \notin granted /\ setup' = [setup EXCEPT ![p] = "denied"]
    <3>1. p = 1 /\ presses = 1 /\ setup'[1] = "denied"
      BY <1>7, <2>1, <2>3
    <3>2. micLive' = {}
      BY <1>0, <2>1, <2>3, <3>1 DEF Alone
    <3> QED  BY <1>0, <2>1, <3>1, <3>2 DEF Alone
  <2> QED  BY <2>1, <2>2, <2>3
<1>11. ASSUME NEW p \in P, SetupBreaks(p) PROVE Alone'
  <2>1. /\ setup[p] = "waiting" /\ setup' = [setup EXCEPT ![p] = "broken"] /\ micLive' = micLive \ {p}
        /\ UNCHANGED <<held, presses>>
    BY <1>11 DEF SetupBreaks, Ready, Cleared
  <2>2. p = 1 /\ presses = 1 /\ setup'[1] = "broken"
    BY <1>7, <2>1
  <2>3. micLive' = {}
    BY <1>0, <2>1, <2>2 DEF Alone
  <2> QED  BY <1>0, <2>1, <2>2, <2>3 DEF Alone
<1>12. ASSUME UNCHANGED <<held, presses, setup, abort, granted, mic, micLive>> PROVE Alone'
  BY <1>0, <1>12 DEF Alone
<1>13. ASSUME NEW p \in P,
              WsOpens(p) \/ WsDrops(p) \/ MicFrame(p) \/ AudioArrives(p) \/ TurnDone(p) \/ TurnEmpty(p)
                \/ ErrorArrives(p) \/ HandlerEnds(p) \/ HandlerFails(p)
       PROVE  Alone'
  BY <1>12, <1>13 DEF WsOpens, WsDrops, MicFrame, AudioArrives, TurnDone, TurnEmpty, ErrorArrives, HandlerEnds,
     HandlerFails
<1>14. ASSUME NEW w \in Refs, CloseTimer(w) PROVE Alone'
  BY <1>12, <1>14 DEF CloseTimer
<1>15. CASE UNCHANGED vars
  BY <1>12, <1>15 DEF vars
<1>16. CASE Activate
  BY <1>12, <1>16 DEF Activate
<1> QED
  BY <1>1, <1>2, <1>3, <1>4, <1>5, <1>6, <1>8, <1>9, <1>10, <1>11, <1>13, <1>14, <1>15, <1>16 DEF Next, Resume

\* What the page holds open is one connection for the press that needs it, and
\* no microphone for none: whatever was pressed, released, lost, refused and broken off.
THEOREM NothingOpen == Spec => []NothingLeftOpen
<1>1. BaseInv /\ OnePress => SinglePressMicOff
  <2> SUFFICES ASSUME BaseInv, OnePress, held = 0, presses = 1, setup[1] \notin {"waiting", "gaveUp"}
               PROVE  micLive = {}
    BY DEF SinglePressMicOff
  <2> QED  BY DEF OnePress, Alone
<1>2. ApartInv => AbortSparesOthers
  BY DEF ApartInv, Apart, AbortSparesOthers
<1>3. BaseInv /\ OnePress /\ ApartInv => NothingLeftOpen
  BY <1>1, <1>2, OneUp DEF NothingLeftOpen
<1> QED  BY <1>3, BaseInvariant, ApartInvariant, InitOne, StepOne, PTL DEF Spec

-----------------------------------------------------------------------------
(* The broadcast of a translated turn. *)

HIDE PttAssumption

\* Turn m is past packet i: it is neither on its way nor will it be sent again.
After(m, i) ==
    step[m] >= i /\ \A k \in 1..Len(channel) : channel[k].id = m => channel[k].idx >= i

\* Packets of a turn are on their way in their order, repeated or not.
Wired ==
    /\ \A k \in 1..Len(channel) :
         /\ channel[k].idx <= step[channel[k].id]
         /\ channel[k].kind = "start" => channel[k].idx = 0
         /\ channel[k].kind = "chunk" => channel[k].idx \in 1..N
         /\ channel[k].kind = "end" => channel[k].idx = N + 1
    /\ \A k, l \in 1..Len(channel) :
         k < l /\ channel[k].id = channel[l].id => channel[k].idx <= channel[l].idx
    /\ \A m \in Msgs : phase[m] = "ok" => step[m] = N + 1

\* A turn being reassembled counts what it holds, does not get it again, and is not
\* whole once its end was handled.
Framed(m) ==
    m \in DOMAIN frames =>
      /\ frames[m].received = Cardinality(frames[m].got)
      /\ \A i \in frames[m].got : After(m, i)
      /\ frames[m].ended => After(m, N + 1) /\ frames[m].received < N
      /\ frames[m].streamPlayed => streams[m] >= 1
      /\ frames[m].old => m \in aged

\* What plays is past its start, so nothing reassembles it once more.
Once(m) ==
    /\ finals[m] + decoding[m] + streams[m] > 0 => After(m, 1)
    /\ finals[m] <= 1 /\ (finals[m] = 1 => m \notin DOMAIN frames)
    /\ decoding[m] + streams[m] <= 1
    /\ decoding[m] + streams[m] = 1 /\ m \in DOMAIN frames => frames[m].received = N

BroadcastInv ==
    /\ BroadcastTypes /\ Wired /\ gapped = {}
    /\ \A m \in Msgs : Framed(m) /\ Once(m)

\* Everything sent to a receiver that was there is on its way or was handled.
Arrives(m, j) ==
    \E k \in 1..Len(channel) : channel[k].id = m /\ channel[k].kind # "notice" /\ channel[k].idx = j
Noticed(m) == \E k \in 1..Len(channel) : channel[k].id = m /\ channel[k].kind = "notice"
Sent(m, j) == j < step[m] \/ (phase[m] = "ok" /\ j = N + 1)
Heard(m) == finals[m] + streams[m] >= 1
Handled(m, j) ==
    \/ Heard(m)
    \/ /\ m \in DOMAIN frames
       /\ j \in 1..N => j \in frames[m].got
       /\ j = N + 1 => frames[m].ended

Reaches(m) ==
    /\ m \notin missed \cup aged => \A j \in Steps : Sent(m, j) => Arrives(m, j) \/ Handled(m, j)
    /\ m \notin missed =>
         /\ Sent(m, 0) => Arrives(m, 0) \/ captions[m] >= 1
         /\ phase[m] = "noticed" => Noticed(m) \/ captions[m] >= 1
AllReach == \A m \in Msgs : Reaches(m)

-----------------------------------------------------------------------------
FrameFun == DOMAIN frames \subseteq Msgs /\ frames \in [DOMAIN frames -> Entries]

\* The types but those of the frames.
Counts ==
    /\ phase \in [Msgs -> {"idle", "sending", "ok", "notice", "noticed", "failed"}]
    /\ step \in [Msgs -> Steps] /\ tries \in [Msgs -> 0..(MaxTries - 1)]
    /\ faults \in 0..MaxFaults
    /\ channel \in Seq(Packets) /\ present \in BOOLEAN
    /\ missed \subseteq Msgs /\ gapped \subseteq Msgs /\ aged \subseteq Msgs
    /\ decoding \in [Msgs -> Nat]
    /\ captions \in [Msgs -> Nat] /\ streams \in [Msgs -> Nat] /\ finals \in [Msgs -> Nat]

LEMMA TypesAre ==
    /\ BroadcastTypes <=> Counts /\ FrameFun
    /\ Counts' /\ FrameFun' => BroadcastTypes'
<1>1. (\E S \in SUBSET Msgs : frames \in [S -> Entries]) <=> FrameFun
  BY DEF FrameFun
<1>2. FrameFun' => (\E S \in SUBSET Msgs : frames' \in [S -> Entries])
  BY DEF FrameFun
<1> QED  BY <1>1, <1>2 DEF BroadcastTypes, Counts

LEMMA OnChannel ==
    ASSUME Counts
    PROVE  /\ Len(channel) \in Nat
           /\ \A k \in 1..Len(channel) :
                channel[k] \in Packets /\ channel[k].id \in Msgs /\ channel[k].idx \in Steps
<1>1. channel \in Seq(Packets)  BY DEF Counts
<1>2. \A k \in 1..Len(channel) : channel[k] \in Packets  BY <1>1
<1> QED  BY <1>1, <1>2 DEF Packets

LEMMA PacketOf ==
    ASSUME Counts, NEW m \in Msgs
    PROVE  /\ Packet(m) \in Packets /\ Packet(m).id = m /\ Packet(m).idx = step[m]
           /\ step[m] \in Nat /\ step[m] <= N + 1
           /\ phase[m] = "notice" => Packet(m).kind = "notice"
           /\ phase[m] # "notice" => Packet(m).kind # "notice"
           /\ Packet(m).kind = "start" => step[m] = 0
           /\ Packet(m).kind = "chunk" => step[m] \in 1..N
           /\ Packet(m).kind = "end" => step[m] = N + 1
<1>1. step[m] \in 0..(N + 1) /\ N \in Nat  BY BroadcastAssumption DEF Counts, Steps
<1>2. Packet(m).id = m /\ Packet(m).idx = step[m]
      /\ Packet(m).kind = IF phase[m] = "notice" THEN "notice"
                          ELSE IF step[m] = 0 THEN "start"
                          ELSE IF step[m] <= N THEN "chunk" ELSE "end"
  BY DEF Packet
<1>3. Packet(m).kind \in {"start", "chunk", "end", "notice"}  BY <1>2
<1>4. Packet(m) \in Packets
  BY <1>1, <1>3 DEF Packet, Packets, Steps
<1> QED  BY <1>1, <1>2, <1>4

LEMMA Appended ==
    ASSUME NEW S, NEW q \in Seq(S), NEW e \in S
    PROVE  /\ Append(q, e) \in Seq(S) /\ Len(Append(q, e)) = Len(q) + 1 /\ Len(q) \in Nat
           /\ \A k \in 1..Len(q) : Append(q, e)[k] = q[k]
           /\ Append(q, e)[Len(q) + 1] = e
           /\ \A k \in 1..Len(Append(q, e)) : k \in 1..Len(q) \/ k = Len(q) + 1
OBVIOUS

LEMMA Advanced ==
    ASSUME NEW S, NEW q \in Seq(S), q # << >>
    PROVE  /\ Tail(q) \in Seq(S) /\ Len(Tail(q)) = Len(q) - 1 /\ Len(q) \in Nat /\ Len(q) >= 1
           /\ Head(q) = q[1] /\ Head(q) \in S
           /\ \A k \in 1..Len(Tail(q)) : Tail(q)[k] = q[k + 1] /\ k + 1 \in 1..Len(q) /\ k \in Nat
OBVIOUS

\* Turn m is past every chunk of g.
Past(m, g) == \A i \in g : After(m, i)

LEMMA Bumped ==
    ASSUME NEW S, NEW f \in [S -> Nat], NEW x \in S, NEW g, g = f \/ g = [f EXCEPT ![x] = @ + 1]
    PROVE  g \in [S -> Nat] /\ \A y \in S : y # x => g[y] = f[y]
OBVIOUS

\* What a step may do to the channel and to the packets to come.
Link ==
    /\ \/ channel' = channel \/ channel' = << >>
       \/ channel # << >> /\ channel' = Tail(channel)
       \/ \E m \in Msgs : channel' = Append(channel, Packet(m))
    /\ \A m \in Msgs : step'[m] \in Nat /\ step'[m] >= step[m]

LEMMA AfterStays ==
    ASSUME Counts, Link, NEW m \in Msgs, NEW i \in Nat, After(m, i)
    PROVE  After(m, i)'
<1>1. step'[m] >= i
  <2>1. step[m] \in Nat /\ step'[m] \in Nat /\ step'[m] >= step[m]
    BY BroadcastAssumption DEF Counts, Steps, Link
  <2> QED  BY <2>1 DEF After
<1>2. ASSUME NEW k \in 1..Len(channel'), channel'[k].id = m PROVE channel'[k].idx >= i
  <2>1. CASE channel' = channel  BY <1>2, <2>1 DEF After
  <2>2. CASE channel' = << >>  BY <1>2, <2>2
  <2>3. CASE channel # << >> /\ channel' = Tail(channel)
    <3>1. channel'[k] = channel[k + 1] /\ k + 1 \in 1..Len(channel)
      BY <2>3, Advanced DEF Counts
    <3> QED  BY <1>2, <3>1 DEF After
  <2>4. ASSUME NEW n \in Msgs, channel' = Append(channel, Packet(n)) PROVE channel'[k].idx >= i
    <3>1. Packet(n) \in Packets /\ Packet(n).id = n /\ Packet(n).idx = step[n]  BY PacketOf
    <3>2. \/ k \in 1..Len(channel) /\ channel'[k] = channel[k]
          \/ channel'[k] = Packet(n)
      BY <2>4, <3>1, Appended DEF Counts
    <3> QED  BY <1>2, <3>1, <3>2 DEF After
  <2> QED  BY <2>1, <2>2, <2>3, <2>4 DEF Link
<1> QED  BY <1>1, <1>2 DEF After

LEMMA WiredStays ==
    ASSUME Counts, Wired, Link, \A m \in Msgs : phase'[m] = "ok" => step'[m] = N + 1
    PROVE  Wired'
<1> DEFINE Fits(p) == /\ p.id \in Msgs /\ p.idx <= step'[p.id]
                      /\ p.kind = "start" => p.idx = 0
                      /\ p.kind = "chunk" => p.idx \in 1..N
                      /\ p.kind = "end" => p.idx = N + 1
<1>1. \A m \in Msgs : step[m] \in Nat /\ step'[m] \in Nat /\ step[m] <= step'[m]
  BY BroadcastAssumption DEF Counts, Steps, Link
<1>2. ASSUME NEW k \in 1..Len(channel) PROVE Fits(channel[k]) /\ channel[k].idx \in Nat
  <2>1. channel[k].id \in Msgs /\ channel[k].idx \in Nat  BY OnChannel, BroadcastAssumption DEF Steps
  <2>2. channel[k].idx <= step'[channel[k].id]  BY <1>1, <2>1 DEF Wired
  <2> QED  BY <2>1, <2>2 DEF Wired
<1>3. CASE channel' = channel  BY <1>2, <1>3 DEF Wired
<1>4. CASE channel' = << >>  BY <1>4 DEF Wired
<1>5. CASE channel # << >> /\ channel' = Tail(channel)
  <2>1. \A k \in 1..Len(channel') : channel'[k] = channel[k + 1] /\ k + 1 \in 1..Len(channel) /\ k \in Nat
    BY <1>5, Advanced DEF Counts
  <2>2. \A k \in 1..Len(channel') : Fits(channel'[k])  BY <1>2, <2>1
  <2>3. ASSUME NEW k \in 1..Len(channel'), NEW l \in 1..Len(channel'), k < l, channel'[k].id = channel'[l].id
        PROVE  channel'[k].idx <= channel'[l].idx
    <3>1. k + 1 < l + 1  BY <2>1, <2>3
    <3> QED  BY <2>1, <2>3, <3>1 DEF Wired
  <2> QED  BY <2>2, <2>3 DEF Wired
<1>6. ASSUME NEW m \in Msgs, channel' = Append(channel, Packet(m)) PROVE Wired'
  <2>1. PICK p \in Packets :
          /\ p = Packet(m) /\ p.id = m /\ p.idx = step[m]
          /\ p.kind = "start" => step[m] = 0
          /\ p.kind = "chunk" => step[m] \in 1..N
          /\ p.kind = "end" => step[m] = N + 1
    BY PacketOf
  <2>2. Fits(p)  BY <1>1, <2>1
  <2>3. /\ Len(channel') = Len(channel) + 1 /\ Len(channel) \in Nat
        /\ \A k \in 1..Len(channel) : channel'[k] = channel[k]
        /\ channel'[Len(channel) + 1] = p
        /\ \A k \in 1..Len(channel') : k \in 1..Len(channel) \/ k = Len(channel) + 1
    BY <1>6, <2>1, Appended DEF Counts
  <2>4. \A k \in 1..Len(channel') : Fits(channel'[k])  BY <1>2, <2>2, <2>3
  <2>5. ASSUME NEW k \in 1..Len(channel'), NEW l \in 1..Len(channel'), k < l, channel'[k].id = channel'[l].id
        PROVE  channel'[k].idx <= channel'[l].idx
    <3>1. k \in 1..Len(channel) /\ channel'[k] = channel[k]  BY <2>3, <2>5
    <3>2. CASE l \in 1..Len(channel)
      <4>1. channel'[l] = channel[l]  BY <2>3, <3>2
      <4> QED  BY <2>5, <3>1, <3>2, <4>1 DEF Wired
    <3>3. CASE l = Len(channel) + 1
      <4>1. channel'[l] = p /\ channel[k].id = m  BY <2>1, <2>3, <2>5, <3>1, <3>3
      <4>2. channel[k].idx <= step[m]  BY <3>1, <4>1 DEF Wired
      <4> QED  BY <2>1, <3>1, <4>1, <4>2
    <3> QED  BY <2>3, <3>2, <3>3
  <2> QED  BY <2>4, <2>5 DEF Wired
<1> QED  BY <1>3, <1>4, <1>5, <1>6 DEF Link

\* A turn whose frame and counters a step leaves alone.
LEMMA LeftAlone ==
    ASSUME BroadcastInv, Link, NEW m \in Msgs,
           m \in DOMAIN frames' => m \in DOMAIN frames /\ frames'[m] = frames[m],
           finals'[m] = finals[m], decoding'[m] = decoding[m], streams'[m] = streams[m],
           aged \subseteq aged'
    PROVE  Framed(m)' /\ Once(m)'
<1>1. Counts /\ FrameFun /\ Framed(m) /\ Once(m)  BY TypesAre DEF BroadcastInv
<1>2. ASSUME NEW i \in Nat, After(m, i) PROVE After(m, i)'  BY <1>1, <1>2, AfterStays
<1>3. Once(m)'  BY <1>1, <1>2 DEF Once
<1>4. ASSUME m \in DOMAIN frames, frames'[m] = frames[m] PROVE Framed(m)'
  <2>1. frames[m].got \subseteq Nat /\ N + 1 \in Nat
    BY <1>1, <1>4, BroadcastAssumption DEF FrameFun, Entries
  <2> QED  BY <1>1, <1>2, <1>4, <2>1 DEF Framed
<1>5. CASE m \notin DOMAIN frames'  BY <1>3, <1>5 DEF Framed
<1> QED  BY <1>3, <1>4, <1>5

-----------------------------------------------------------------------------
LEMMA InitBroadcast == BroadcastInit => BroadcastInv /\ AllReach
<1> SUFFICES ASSUME BroadcastInit PROVE BroadcastInv /\ AllReach
  OBVIOUS
<1>1. Counts /\ FrameFun
  BY BroadcastAssumption DEF BroadcastInit, Counts, FrameFun, Zero, Steps
<1>2. Wired /\ gapped = {}
  BY DEF BroadcastInit, Wired
<1>3. \A m \in Msgs : Framed(m) /\ Once(m)
  BY DEF BroadcastInit, Framed, Once, Zero
<1>4. AllReach
  BY BroadcastAssumption DEF BroadcastInit, AllReach, Reaches, Sent, Zero, Steps
<1> QED  BY <1>1, <1>2, <1>3, <1>4, TypesAre DEF BroadcastInv

LEMMA CountsStay ==
    ASSUME Counts, UNCHANGED receiver,
           phase' \in [Msgs -> {"idle", "sending", "ok", "notice", "noticed", "failed"}],
           step' \in [Msgs -> Steps], tries' \in [Msgs -> 0..(MaxTries - 1)], faults' \in 0..MaxFaults,
           channel' \in Seq(Packets), missed' \subseteq Msgs, present' \in BOOLEAN
    PROVE  Counts'
BY DEF Counts, receiver, played

\* The sender: what is published, and what it makes of it.
LEMMA SenderSteps ==
    ASSUME Counts, NEW m \in Msgs, BroadcastTurn(m) \/ Send(m)
    PROVE  /\ Link /\ UNCHANGED receiver /\ Counts'
           /\ channel' = channel \/ channel' = Append(channel, Packet(m))
           /\ \A n \in Msgs : n # m => phase'[n] = phase[n] /\ step'[n] = step[n]
           /\ phase[m] # "ok" /\ (phase'[m] = "ok" => step[m] = N + 1 /\ step'[m] = step[m])
<1> USE BroadcastAssumption
<1>1. /\ step \in [Msgs -> 0..(N + 1)] /\ N \in Nat /\ MaxTries \in Nat
      /\ channel \in Seq(Packets) /\ Packet(m) \in Packets
  BY PacketOf DEF Counts, Steps
<1>2. channel' \in Seq(Packets) /\ missed' \subseteq Msgs /\ present' \in BOOLEAN
      /\ (channel' = channel \/ channel' = Append(channel, Packet(m)))
  <2>1. /\ channel' = channel \/ channel' = Append(channel, Packet(m))
        /\ missed' = missed \/ missed' = missed \cup {m}
        /\ present' = present
    BY DEF BroadcastTurn, Send, PublishOk, PublishRaises, Deliver, link
  <2>2. missed \subseteq Msgs /\ present \in BOOLEAN  BY DEF Counts
  <2>3. Append(channel, Packet(m)) \in Seq(Packets)  BY <1>1
  <2> QED  BY <1>1, <2>1, <2>2, <2>3
<1>3. ASSUME step' \in [Msgs -> 0..(N + 1)], \A n \in Msgs : step'[n] >= step[n] PROVE Link
  <2>1. \A n \in Msgs : step'[n] \in Nat  BY <1>1, <1>3
  <2> QED  BY <1>2, <1>3, <2>1 DEF Link
<1>4. CASE BroadcastTurn(m)
  <2>1. /\ phase[m] = "idle" /\ phase' = [phase EXCEPT ![m] = "sending"]
        /\ step' = step /\ tries' = tries /\ faults' = faults /\ UNCHANGED receiver
    BY <1>4 DEF BroadcastTurn
  <2>2. Link  BY <1>1, <1>3, <2>1
  <2>3. phase' \in [Msgs -> {"idle", "sending", "ok", "notice", "noticed", "failed"}]
        /\ phase'[m] = "sending" /\ \A n \in Msgs : n # m => phase'[n] = phase[n]
    BY <2>1 DEF Counts
  <2>4. Counts'  BY <1>1, <1>2, <2>1, <2>3, CountsStay DEF Counts, Steps
  <2> QED  BY <1>2, <2>1, <2>2, <2>3, <2>4
<1>5. CASE PublishOk(m)
  <2>1. /\ \/ step' = [step EXCEPT ![m] = @ + 1] /\ phase' = phase /\ step[m] <= N
           \/ /\ step' = step /\ phase' = [phase EXCEPT ![m] = IF @ = "sending" THEN "ok" ELSE "noticed"]
              /\ (phase[m] = "sending" => ~(step[m] <= N))
        /\ phase[m] \in {"sending", "notice"}
        /\ tries' = [tries EXCEPT ![m] = 0] /\ UNCHANGED <<receiver, faults>>
    BY <1>5 DEF PublishOk
  <2>2. tries' \in [Msgs -> 0..(MaxTries - 1)]  BY <2>1 DEF Counts
  <2>3. CASE step' = [step EXCEPT ![m] = @ + 1] /\ phase' = phase /\ step[m] <= N
    <3>1. step' \in [Msgs -> 0..(N + 1)] /\ \A n \in Msgs : step'[n] >= step[n] /\ (n # m => step'[n] = step[n])
      BY <1>1, <2>3
    <3>2. Counts'  BY <1>1, <1>2, <2>1, <2>2, <2>3, <3>1, CountsStay DEF Counts, Steps
    <3> QED  BY <1>2, <1>3, <2>1, <2>3, <3>1, <3>2
  <2>4. CASE /\ step' = step /\ phase' = [phase EXCEPT ![m] = IF @ = "sending" THEN "ok" ELSE "noticed"]
             /\ (phase[m] = "sending" => ~(step[m] <= N))
    <3>1. phase'[m] = "ok" => step[m] = N + 1  BY <1>1, <2>1, <2>4 DEF Counts
    <3>2. phase' \in [Msgs -> {"idle", "sending", "ok", "notice", "noticed", "failed"}]
          /\ \A n \in Msgs : n # m => phase'[n] = phase[n]
      BY <2>4 DEF Counts
    <3>3. Link  BY <1>1, <1>3, <2>4
    <3>4. Counts'  BY <1>1, <1>2, <2>1, <2>2, <2>4, <3>2, CountsStay DEF Counts, Steps
    <3> QED  BY <1>2, <2>1, <2>4, <3>1, <3>2, <3>3, <3>4
  <2> QED  BY <2>1, <2>3, <2>4
<1>6. CASE PublishRaises(m)
  <2>1. /\ step' = step /\ UNCHANGED receiver /\ faults' \in 0..MaxFaults
        /\ phase[m] \in {"sending", "notice"}
        /\ \/ tries[m] + 1 < MaxTries /\ tries' = [tries EXCEPT ![m] = @ + 1] /\ phase' = phase
           \/ /\ tries' = [tries EXCEPT ![m] = 0]
              /\ phase' = [phase EXCEPT ![m] = IF @ = "sending" THEN "notice" ELSE "failed"]
    BY <1>6 DEF PublishRaises, AfterError, Counts
  <2>2. tries' \in [Msgs -> 0..(MaxTries - 1)]
    <3>1. tries \in [Msgs -> 0..(MaxTries - 1)] /\ 0 \in 0..(MaxTries - 1)  BY DEF Counts
    <3>2. CASE tries' = [tries EXCEPT ![m] = 0]  BY <3>1, <3>2
    <3>3. CASE tries[m] + 1 < MaxTries /\ tries' = [tries EXCEPT ![m] = @ + 1]
      <4>1. tries[m] + 1 \in 0..(MaxTries - 1)  BY <3>1, <3>3
      <4> QED  BY <3>1, <3>3, <4>1
    <3> QED  BY <2>1, <3>2, <3>3
  <2>3. /\ phase' \in [Msgs -> {"idle", "sending", "ok", "notice", "noticed", "failed"}]
        /\ phase'[m] # "ok" /\ \A n \in Msgs : n # m => phase'[n] = phase[n]
    BY <2>1 DEF Counts
  <2>4. Link  BY <1>1, <1>3, <2>1
  <2>5. Counts'  BY <1>1, <1>2, <2>1, <2>2, <2>3, CountsStay DEF Counts, Steps
  <2> QED  BY <1>2, <2>1, <2>3, <2>4, <2>5
<1> QED  BY <1>4, <1>5, <1>6 DEF Send

LEMMA SenderInv ==
    ASSUME BroadcastInv, NEW m \in Msgs, BroadcastTurn(m) \/ Send(m)
    PROVE  BroadcastInv'
<1>1. Counts /\ FrameFun /\ Wired  BY TypesAre DEF BroadcastInv
<1>2. Link /\ Counts' /\ UNCHANGED <<frames, finals, decoding, streams, aged, gapped>>
  BY <1>1, SenderSteps DEF receiver, played
<1>3. ASSUME NEW n \in Msgs, phase'[n] = "ok" PROVE step'[n] = N + 1
  BY <1>1, <1>3, SenderSteps DEF Wired
<1>4. Wired'  BY <1>1, <1>2, <1>3, WiredStays
<1>5. ASSUME NEW n \in Msgs PROVE Framed(n)' /\ Once(n)'  BY <1>2, LeftAlone
<1>6. FrameFun'  BY <1>1, <1>2 DEF FrameFun
<1> QED  BY <1>2, <1>4, <1>5, <1>6, TypesAre DEF BroadcastInv

LEMMA RoomInv == ASSUME BroadcastInv, ReceiverDrops \/ ReceiverBack PROVE BroadcastInv'
<1>1. Counts /\ FrameFun /\ Wired  BY TypesAre DEF BroadcastInv
<1>2. /\ UNCHANGED <<phase, step, tries, receiver>> /\ channel' \in {channel, << >>}
      /\ missed' \subseteq Msgs /\ present' \in BOOLEAN /\ faults' \in 0..MaxFaults
  <2>1. {channel[i].id : i \in DOMAIN channel} \subseteq Msgs
    <3>1. DOMAIN channel = 1..Len(channel)  BY <1>1 DEF Counts
    <3> QED  BY <1>1, <3>1, OnChannel
  <2>2. CASE ReceiverDrops
    <3>1. faults' \in 0..MaxFaults  BY <1>1, <2>2, BroadcastAssumption DEF ReceiverDrops, Counts
    <3>2. missed' \subseteq Msgs  BY <1>1, <2>1, <2>2 DEF ReceiverDrops, Counts
    <3> QED  BY <2>2, <3>1, <3>2 DEF ReceiverDrops, sender
  <2>3. CASE ReceiverBack
    BY <1>1, <2>3 DEF ReceiverBack, sender, Counts
  <2> QED  BY <2>2, <2>3
<1>3. Link  BY <1>1, <1>2, BroadcastAssumption DEF Link, Counts, Steps
<1>4. Counts'
  <2>0. << >> \in Seq(Packets)  OBVIOUS
  <2>1. channel' \in Seq(Packets)  BY <1>1, <1>2, <2>0 DEF Counts
  <2> QED  BY <1>1, <1>2, <2>1, CountsStay DEF Counts
<1>5. Wired'  BY <1>1, <1>2, <1>3, WiredStays DEF Wired
<1>6. ASSUME NEW n \in Msgs PROVE Framed(n)' /\ Once(n)'  BY <1>2, <1>3, LeftAlone DEF receiver, played
<1>7. FrameFun' /\ gapped' = {}  BY <1>1, <1>2 DEF FrameFun, receiver, played, BroadcastInv
<1> QED  BY <1>4, <1>5, <1>6, <1>7, TypesAre DEF BroadcastInv

-----------------------------------------------------------------------------
LEMMA Restricts ==
    ASSUME NEW S, NEW T, NEW f \in [S -> T], NEW K \in SUBSET S
    PROVE  Only(f, K) \in [K -> T] /\ \A x \in K : Only(f, K)[x] = f[x]
BY DEF Only

Clean == Only(frames, Kept)

LEMMA CleanIs ==
    ASSUME FrameFun
    PROVE  /\ Kept \subseteq DOMAIN frames /\ Clean \in [Kept -> Entries] /\ DOMAIN Clean = Kept
           /\ \A x \in Kept : Clean[x] = frames[x] /\ frames[x] \in Entries /\ ~frames[x].old
           /\ \A x \in DOMAIN frames : ~frames[x].old => x \in Kept
<1>1. Kept \in SUBSET DOMAIN frames /\ frames \in [DOMAIN frames -> Entries]  BY DEF Kept, FrameFun
<1>2. Clean \in [Kept -> Entries] /\ \A x \in Kept : Clean[x] = frames[x]  BY <1>1, Restricts DEF Clean
<1> QED  BY <1>1, <1>2 DEF Kept

\* A packet changes the frame of its turn; the others stay unless they grew old.
Reframed(m) ==
    \/ frames' = Clean
    \/ \E e \in Entries : frames' = With(Clean, m, e)
    \/ frames' = Only(Clean, DOMAIN Clean \ {m})

LEMMA OtherFrames ==
    ASSUME FrameFun, NEW m \in Msgs, Reframed(m)
    PROVE  /\ FrameFun'
           /\ \A n \in Msgs : n # m =>
                /\ n \in DOMAIN frames' => n \in DOMAIN frames /\ frames'[n] = frames[n]
                /\ n \in DOMAIN frames /\ ~frames[n].old => n \in DOMAIN frames' /\ frames'[n] = frames[n]
<1>1. /\ Kept \subseteq DOMAIN frames /\ DOMAIN frames \subseteq Msgs
      /\ Clean \in [Kept -> Entries] /\ DOMAIN Clean = Kept
      /\ \A x \in Kept : Clean[x] = frames[x]
      /\ \A x \in DOMAIN frames : ~frames[x].old => x \in Kept
  BY CleanIs DEF FrameFun
<1>2. CASE frames' = Clean
  BY <1>1, <1>2 DEF FrameFun
<1>3. ASSUME NEW e \in Entries, frames' = With(Clean, m, e)
      PROVE  /\ FrameFun'
             /\ \A n \in Msgs : n # m =>
                  /\ n \in DOMAIN frames' => n \in DOMAIN frames /\ frames'[n] = frames[n]
                  /\ n \in DOMAIN frames /\ ~frames[n].old => n \in DOMAIN frames' /\ frames'[n] = frames[n]
  <2>1. /\ frames' \in [Kept \cup {m} -> Entries] /\ \A x \in Kept : x # m => frames'[x] = Clean[x]
    BY <1>1, <1>3 DEF With
  <2>2. DOMAIN frames' = Kept \cup {m}  BY <2>1
  <2> QED  BY <1>1, <2>1, <2>2 DEF FrameFun
<1>4. CASE frames' = Only(Clean, DOMAIN Clean \ {m})
  <2>1. /\ frames' \in [Kept \ {m} -> Entries] /\ \A x \in Kept \ {m} : frames'[x] = Clean[x]
    BY <1>1, <1>4 DEF Only
  <2>2. DOMAIN frames' = Kept \ {m}  BY <2>1
  <2> QED  BY <1>1, <2>1, <2>2 DEF FrameFun
<1> QED  BY <1>2, <1>3, <1>4 DEF Reframed

\* The packet handled is the first of its turn.
LEMMA HeadOf ==
    ASSUME BroadcastInv, NEW kind, Next1(kind), NEW p, p = Head(channel)
    PROVE  /\ p \in Packets /\ p.id \in Msgs /\ p.idx \in Nat /\ p.kind = kind /\ p.idx <= step[p.id]
           /\ kind = "start" => p.idx = 0
           /\ kind = "chunk" => p.idx \in 1..N
           /\ kind = "end" => p.idx = N + 1
           /\ channel # << >> /\ p = channel[1] /\ 1 \in 1..Len(channel)
           /\ Link /\ After(p.id, p.idx) /\ After(p.id, p.idx)'
<1>1. Counts /\ Wired /\ channel \in Seq(Packets)  BY TypesAre DEF BroadcastInv, Counts
<1>2. channel # << >> /\ p.kind = kind /\ channel' = Tail(channel) /\ step' = step
  BY DEF Next1, sender
<1>3. p = channel[1] /\ p \in Packets /\ 1 \in 1..Len(channel) /\ Len(channel) \in Nat
  BY <1>1, <1>2, Advanced
<1>4. p.id \in Msgs /\ p.idx \in Nat  BY <1>3, BroadcastAssumption DEF Packets, Steps
<1>5. /\ p.idx <= step[p.id]
      /\ kind = "start" => p.idx = 0
      /\ kind = "chunk" => p.idx \in 1..N
      /\ kind = "end" => p.idx = N + 1
  BY <1>1, <1>2, <1>3 DEF Wired
<1>6. Link
  <2>1. \A m \in Msgs : step[m] \in Nat  BY <1>1, BroadcastAssumption DEF Counts, Steps
  <2> QED  BY <1>2, <2>1 DEF Link
<1>7. After(p.id, p.idx)
  <2>1. step[p.id] \in Nat  BY <1>1, <1>4, BroadcastAssumption DEF Counts, Steps
  <2>2. ASSUME NEW k \in 1..Len(channel), channel[k].id = p.id PROVE channel[k].idx >= p.idx
    <3>1. channel[k].idx \in Nat  BY <1>1, OnChannel, BroadcastAssumption DEF Steps
    <3>2. CASE k = 1  BY <1>3, <1>4, <3>2
    <3>3. CASE 1 < k  BY <1>1, <1>3, <1>4, <2>2, <3>1, <3>3 DEF Wired
    <3> QED  BY <3>2, <3>3
  <2> QED  BY <1>4, <1>5, <2>1, <2>2 DEF After
<1>8. After(p.id, p.idx)'  BY <1>1, <1>4, <1>6, <1>7, AfterStays
<1> QED  BY <1>2, <1>3, <1>4, <1>5, <1>6, <1>7, <1>8

LEMMA AfterDown ==
    ASSUME Counts, NEW m \in Msgs, NEW i \in Nat, NEW j \in Nat, j <= i
    PROVE  After(m, i) => After(m, j)
<1>1. step[m] \in Nat  BY BroadcastAssumption DEF Counts, Steps
<1>2. \A k \in 1..Len(channel) : channel[k].idx \in Nat
  BY OnChannel, BroadcastAssumption DEF Steps
<1> QED  BY <1>1, <1>2 DEF After

\* The types after a packet, and the order of those still to come.
LEMMA HandledTypes ==
    ASSUME BroadcastInv, NEW kind, Next1(kind), NEW m \in Msgs, Reframed(m),
           decoding' \in [Msgs -> Nat], captions' \in [Msgs -> Nat],
           streams' \in [Msgs -> Nat], finals' \in [Msgs -> Nat], gapped' \subseteq Msgs
    PROVE  BroadcastTypes' /\ Wired'
<1>1. Counts /\ FrameFun /\ Wired  BY TypesAre DEF BroadcastInv
<1>2. /\ channel # << >> /\ channel' = Tail(channel)
      /\ UNCHANGED <<phase, step, tries, present, missed, aged, faults>>
  BY DEF Next1, sender
<1>3. channel' \in Seq(Packets)  BY <1>1, <1>2, Advanced DEF Counts
<1>4. Counts'  BY <1>1, <1>2, <1>3 DEF Counts
<1>5. FrameFun'  BY <1>1, OtherFrames
<1>6. Link  BY HeadOf
<1>7. Wired'  BY <1>1, <1>2, <1>6, WiredStays DEF Wired
<1> QED  BY <1>4, <1>5, <1>7, TypesAre

\* What a frame holds.
LEMMA Holds ==
    ASSUME NEW g \in SUBSET (1..N)
    PROVE  /\ Cardinality(g) \in Nat /\ Cardinality(g) <= N
           /\ Cardinality(g) = N => g = 1..N
           /\ Cardinality(1..N) = N
           /\ \A i \in 1..N : Cardinality(g \cup {i}) = IF i \in g THEN Cardinality(g) ELSE Cardinality(g) + 1
<1>1. IsFiniteSet(1..N) /\ Cardinality(1..N) = N
  BY FS_Interval, BroadcastAssumption
<1>2. IsFiniteSet(g) /\ Cardinality(g) <= N /\ (Cardinality(g) = N => g = 1..N)
  BY <1>1, FS_Subset
<1>3. Cardinality(g) \in Nat  BY <1>2, FS_CardinalityType
<1>4. \A i \in 1..N : Cardinality(g \cup {i}) = IF i \in g THEN Cardinality(g) ELSE Cardinality(g) + 1
  BY <1>2, FS_AddElement
<1> QED  BY <1>1, <1>2, <1>3, <1>4

\* Before the start of a turn nothing of it was handled.
LEMMA NotBegun ==
    ASSUME BroadcastInv, NEW m \in Msgs, ~After(m, 1)
    PROVE  /\ finals[m] = 0 /\ decoding[m] = 0 /\ streams[m] = 0
           /\ m \in DOMAIN frames => frames[m].got = {} /\ ~frames[m].ended
<1>1. Counts /\ FrameFun /\ Framed(m) /\ Once(m) /\ N + 1 \in Nat /\ 1 <= N + 1
  BY TypesAre, BroadcastAssumption DEF BroadcastInv
<1>2. finals[m] \in Nat /\ decoding[m] \in Nat /\ streams[m] \in Nat  BY <1>1 DEF Counts
<1>3. finals[m] = 0 /\ decoding[m] = 0 /\ streams[m] = 0  BY <1>1, <1>2 DEF Once
<1>4. ASSUME m \in DOMAIN frames, NEW i \in frames[m].got PROVE FALSE
  <2>1. i \in 1..N  BY <1>1, <1>4 DEF FrameFun, Entries
  <2>2. i \in Nat /\ 1 <= i  BY <2>1
  <2>3. After(m, i)  BY <1>1, <1>4 DEF Framed
  <2> QED  BY <1>1, <2>2, <2>3, AfterDown
<1>5. ASSUME m \in DOMAIN frames, frames[m].ended PROVE FALSE
  <2>1. After(m, N + 1)  BY <1>1, <1>5 DEF Framed
  <2> QED  BY <1>1, <2>1, AfterDown
<1> QED  BY <1>3, <1>4, <1>5

LEMMA StartInv == ASSUME BroadcastInv, HandleStart PROVE BroadcastInv'
<1>1. PICK p : p = Head(channel)  OBVIOUS
<1>2. PICK e : e = [got |-> {}, received |-> 0, ended |-> FALSE, streamPlayed |-> FALSE, old |-> FALSE]  OBVIOUS
<1>3. e \in Entries /\ e.got = {} /\ e.received = 0 /\ ~e.ended /\ ~e.streamPlayed /\ ~e.old
  BY <1>2, BroadcastAssumption DEF Entries
<1>4. Next1("start") /\ frames' = With(Clean, p.id, e) /\ captions' = [captions EXCEPT ![p.id] = @ + 1]
      /\ UNCHANGED <<decoding, streams, finals, gapped>>
  BY <1>1, <1>2 DEF HandleStart, ShowCaption, Clean
<1>5. /\ p.id \in Msgs /\ p.idx = 0 /\ p = channel[1] /\ 1 \in 1..Len(channel) /\ Link
  BY <1>1, <1>4, HeadOf
<1>6. Counts /\ FrameFun  BY TypesAre DEF BroadcastInv
<1>7. Reframed(p.id) /\ aged' = aged  BY <1>3, <1>4 DEF Reframed, Next1
<1>8. BroadcastTypes' /\ Wired'
  <2>1. captions' \in [Msgs -> Nat]  BY <1>4, <1>5, <1>6 DEF Counts
  <2> QED  BY <1>4, <1>5, <1>6, <1>7, <2>1, HandledTypes DEF Counts
<1>9. ASSUME NEW n \in Msgs, n # p.id PROVE Framed(n)' /\ Once(n)'
  BY <1>4, <1>5, <1>6, <1>7, <1>9, OtherFrames, LeftAlone
<1>10. Framed(p.id)' /\ Once(p.id)'
  <2>1. ~After(p.id, 1)  BY <1>5 DEF After
  <2>2. finals[p.id] = 0 /\ decoding[p.id] = 0 /\ streams[p.id] = 0  BY <1>5, <2>1, NotBegun
  <2>3. frames'[p.id] = e
    BY <1>4 DEF With
  <2>4. Cardinality({}) = 0  BY FS_EmptySet
  <2>5. Framed(p.id)'  BY <1>3, <2>3, <2>4 DEF Framed
  <2> QED  BY <1>4, <2>2, <2>5 DEF Once
<1>11. gapped' = {}  BY <1>4 DEF BroadcastInv
<1> QED  BY <1>8, <1>9, <1>10, <1>11 DEF BroadcastInv

LEMMA NoticeInv == ASSUME BroadcastInv, HandleNotice PROVE BroadcastInv'
<1>1. PICK p : p = Head(channel)  OBVIOUS
<1>2. Next1("notice") /\ frames' = Clean /\ captions' = [captions EXCEPT ![p.id] = @ + 1]
      /\ UNCHANGED <<decoding, streams, finals, gapped>>
  BY <1>1 DEF HandleNotice, ShowCaption, Clean
<1>3. p.id \in Msgs /\ Link  BY <1>1, <1>2, HeadOf
<1>4. Counts /\ FrameFun  BY TypesAre DEF BroadcastInv
<1>5. Reframed(p.id) /\ aged' = aged  BY <1>2 DEF Reframed, Next1
<1>6. BroadcastTypes' /\ Wired'
  <2>1. captions' \in [Msgs -> Nat]  BY <1>2, <1>3, <1>4 DEF Counts
  <2> QED  BY <1>2, <1>3, <1>4, <1>5, <2>1, HandledTypes DEF Counts
<1>7. ASSUME NEW n \in Msgs PROVE Framed(n)' /\ Once(n)'
  <2>1. n \in DOMAIN frames' => n \in DOMAIN frames /\ frames'[n] = frames[n]
    BY <1>2, <1>4, CleanIs
  <2> QED  BY <1>2, <1>3, <1>5, <2>1, LeftAlone
<1> QED  BY <1>2, <1>6, <1>7 DEF BroadcastInv

LEMMA Accepted ==
    ASSUME NEW e \in Entries, e.received = Cardinality(e.got), NEW i \in 1..N, NEW f, f = Accept(e, i)
    PROVE  /\ f \in Entries /\ f.got = e.got \cup {i} /\ f.received = Cardinality(f.got)
           /\ f.ended = e.ended /\ f.streamPlayed = e.streamPlayed /\ f.old = e.old
           /\ i \in e.got => f = e
           /\ i \notin e.got => f # e /\ e.received < N
<1>1. e.got \in SUBSET (1..N) /\ e.received \in Nat /\ N \in Nat
  BY BroadcastAssumption DEF Entries
<1>2. CASE i \in e.got
  <2>1. f = e /\ e.got \cup {i} = e.got  BY <1>2 DEF Accept
  <2> QED  BY <1>2, <2>1
<1>3. CASE i \notin e.got
  <2>1. f = [e EXCEPT !.got = @ \cup {i}, !.received = @ + 1]  BY <1>3 DEF Accept
  <2>2. f.got = e.got \cup {i} /\ f.received = e.received + 1
        /\ f.ended = e.ended /\ f.streamPlayed = e.streamPlayed /\ f.old = e.old
    BY <2>1 DEF Entries
  <2>3. Cardinality(e.got \cup {i}) = Cardinality(e.got) + 1  BY <1>1, <1>3, Holds
  <2>4. Cardinality(e.got \cup {i}) <= N
    <3>1. e.got \cup {i} \in SUBSET (1..N)  BY <1>1
    <3> QED  BY <3>1, Holds
  <2>5. f \in Entries
    <3>1. f.received \in 0..N  BY <1>1, <2>2, <2>3, <2>4
    <3>2. f.got \in SUBSET (1..N)  BY <1>1, <2>2
    <3> QED  BY <2>1, <2>2, <3>1, <3>2 DEF Entries
  <2>6. e.received < N  BY <1>1, <2>3, <2>4
  <2> QED  BY <1>3, <2>2, <2>3, <2>5, <2>6
<1> QED  BY <1>2, <1>3

\* The frame of a turn that a packet leaves as e, or the play that ends it.
Closes(m, e) ==
    \/ frames'[m] = e /\ m \in DOMAIN frames' /\ UNCHANGED <<finals, gapped>> /\ (e.ended => ~Whole(e))
    \/ /\ m \notin DOMAIN frames' /\ Whole(e)
       /\ IF e.streamPlayed
          THEN UNCHANGED <<finals, gapped>>
          ELSE /\ finals' = [finals EXCEPT ![m] = @ + 1]
               /\ gapped' = IF e.got = 1..N THEN gapped ELSE gapped \cup {m}

LEMMA Closing ==
    ASSUME BroadcastInv, Counts', Link, NEW m \in Msgs, m \in DOMAIN frames, NEW e \in Entries,
           e.received = Cardinality(e.got), Past(m, e.got)',
           e.streamPlayed = frames[m].streamPlayed, streams' = streams,
           e.ended => After(m, N + 1)',
           aged' = aged, e.old => m \in aged,
           Whole(e) => decoding'[m] + streams[m] <= 1,
           ~Whole(e) => decoding'[m] + streams[m] = 0,
           Closes(m, e)
    PROVE  Framed(m)' /\ Once(m)' /\ gapped' = {}
<1>1. Counts /\ FrameFun /\ Framed(m) /\ Once(m) /\ gapped = {} /\ N \in Nat \ {0}
  BY TypesAre, BroadcastAssumption DEF BroadcastInv
<1>2. finals \in [Msgs -> Nat] /\ finals[m] = 0 /\ streams[m] \in Nat /\ decoding'[m] \in Nat
  <2>1. decoding' \in [Msgs -> Nat] /\ finals \in [Msgs -> Nat] /\ streams \in [Msgs -> Nat]
    BY <1>1 DEF Counts
  <2>2. finals[m] = 0  BY <1>1, <2>1 DEF Once
  <2> QED  BY <2>1, <2>2
<1>3. e.got \in SUBSET (1..N) /\ e.received \in 0..N /\ (Whole(e) <=> e.received = N)
  BY <1>1 DEF Entries, Whole
<1>4. Whole(e) => e.got = 1..N  BY <1>3, Holds
<1>5. Whole(e) => After(m, 1)'
  <2>1. Whole(e) => 1 \in e.got  BY <1>1, <1>4
  <2> QED  BY <2>1 DEF Past
<1>6. frames[m].streamPlayed => streams[m] >= 1  BY <1>1 DEF Framed
<1>7. CASE frames'[m] = e /\ m \in DOMAIN frames' /\ UNCHANGED <<finals, gapped>> /\ (e.ended => ~Whole(e))
  <2>1. Framed(m)'
    <3>1. e.ended => e.received < N  BY <1>1, <1>3, <1>7
    <3> QED  BY <1>6, <1>7, <3>1 DEF Framed, Past
  <2>2. Once(m)'
    <3>1. finals'[m] = 0 /\ streams'[m] = streams[m]  BY <1>2, <1>7
    <3>2. CASE Whole(e)  BY <1>2, <1>3, <1>5, <1>7, <3>1, <3>2 DEF Once
    <3>3. CASE ~Whole(e)  BY <1>2, <1>3, <1>7, <3>1, <3>3 DEF Once
    <3> QED  BY <3>2, <3>3
  <2> QED  BY <1>1, <1>7, <2>1, <2>2
<1>8. CASE /\ m \notin DOMAIN frames' /\ Whole(e)
           /\ IF e.streamPlayed
              THEN UNCHANGED <<finals, gapped>>
              ELSE /\ finals' = [finals EXCEPT ![m] = @ + 1]
                   /\ gapped' = IF e.got = 1..N THEN gapped ELSE gapped \cup {m}
  <2>1. Framed(m)'  BY <1>8 DEF Framed
  <2>2. gapped' = {} /\ finals'[m] \in {0, 1} /\ (finals'[m] = 0 => streams[m] >= 1)
    BY <1>1, <1>2, <1>4, <1>6, <1>8
  <2>3. Once(m)'  BY <1>2, <1>5, <1>8, <2>2 DEF Once
  <2> QED  BY <1>2, <2>1, <2>2, <2>3
<1> QED  BY <1>7, <1>8 DEF Closes

\* What the end or the last chunk makes of a frame.
LEMMA FinalizeIs ==
    ASSUME FrameFun, NEW m \in Kept, NEW e \in Entries, Finalize(Clean, m, e)
    PROVE  Reframed(m) /\ Closes(m, e)
<1>1. CASE ~Whole(e)
  <2>1. frames' = With(Clean, m, e) /\ UNCHANGED <<finals, gapped>>  BY <1>1 DEF Finalize
  <2>2. frames'[m] = e /\ m \in DOMAIN frames'  BY <2>1 DEF With
  <2> QED  BY <1>1, <2>1, <2>2 DEF Reframed, Closes
<1>2. CASE Whole(e)
  <2>1. /\ frames' = Only(Clean, DOMAIN Clean \ {m})
        /\ IF e.streamPlayed
           THEN UNCHANGED <<finals, gapped>>
           ELSE /\ finals' = [finals EXCEPT ![m] = @ + 1]
                /\ gapped' = IF e.got = 1..N THEN gapped ELSE gapped \cup {m}
    BY <1>2 DEF Finalize
  <2>2. m \notin DOMAIN frames'  BY <2>1 DEF Only
  <2> QED  BY <1>2, <2>1, <2>2 DEF Reframed, Closes
<1> QED  BY <1>1, <1>2

\* The entry a chunk makes of its frame.
LEMMA ChunkIs ==
    ASSUME BroadcastInv, HandleChunk, NEW p, p = Head(channel), p.id \in Kept
    PROVE  \E e \in Entries :
             /\ e.got = frames[p.id].got \cup {p.idx} /\ e.received = Cardinality(e.got)
             /\ e.ended = frames[p.id].ended /\ e.streamPlayed = frames[p.id].streamPlayed
             /\ e.old = frames[p.id].old
             /\ p.idx \in frames[p.id].got => e = frames[p.id] /\ decoding' = decoding
             /\ p.idx \notin frames[p.id].got =>
                  /\ frames[p.id].received < N
                  /\ decoding' = IF Whole(e) THEN [decoding EXCEPT ![p.id] = @ + 1] ELSE decoding
             /\ Reframed(p.id) /\ Closes(p.id, e)
<1>1. Next1("chunk")  BY DEF HandleChunk
<1>2. p.id \in Msgs /\ p.idx \in 1..N  BY <1>1, HeadOf
<1>3. FrameFun /\ Framed(p.id)  BY <1>2, TypesAre DEF BroadcastInv
<1>4. /\ p.id \in DOMAIN Clean /\ Clean[p.id] = frames[p.id] /\ frames[p.id] \in Entries
      /\ p.id \in DOMAIN frames
  BY <1>3, CleanIs
<1>5. PICK e : e = Accept(frames[p.id], p.idx)  OBVIOUS
<1>6. frames[p.id].received = Cardinality(frames[p.id].got)  BY <1>3, <1>4 DEF Framed
<1>7. /\ e \in Entries /\ e.got = frames[p.id].got \cup {p.idx} /\ e.received = Cardinality(e.got)
      /\ e.ended = frames[p.id].ended /\ e.streamPlayed = frames[p.id].streamPlayed /\ e.old = frames[p.id].old
      /\ p.idx \in frames[p.id].got => e = frames[p.id]
      /\ p.idx \notin frames[p.id].got => e # frames[p.id] /\ frames[p.id].received < N
  BY <1>2, <1>4, <1>5, <1>6, Accepted
<1>8. /\ decoding' = IF e # frames[p.id] /\ Whole(e) THEN [decoding EXCEPT ![p.id] = @ + 1] ELSE decoding
      /\ IF e.ended THEN Finalize(Clean, p.id, e) ELSE frames' = With(Clean, p.id, e) /\ UNCHANGED <<finals, gapped>>
  <2>1. Only(frames, Kept) = Clean  BY DEF Clean
  <2> QED  BY <1>4, <1>5, <2>1 DEF HandleChunk
<1>9. CASE e.ended
  BY <1>3, <1>7, <1>8, <1>9, FinalizeIs
<1>10. CASE ~e.ended
  <2>1. frames' = With(Clean, p.id, e) /\ UNCHANGED <<finals, gapped>>  BY <1>8, <1>10
  <2>2. frames'[p.id] = e /\ p.id \in DOMAIN frames'  BY <2>1 DEF With
  <2>3. Reframed(p.id)  BY <1>7, <2>1 DEF Reframed
  <2> QED  BY <1>7, <1>8, <1>10, <2>1, <2>2, <2>3 DEF Closes
<1> QED  BY <1>9, <1>10

LEMMA ChunkInv == ASSUME BroadcastInv, HandleChunk PROVE BroadcastInv'
<1>1. PICK p : p = Head(channel)  OBVIOUS
<1>2. Next1("chunk") /\ UNCHANGED <<captions, streams>>  BY DEF HandleChunk
<1>3. p.id \in Msgs /\ p.idx \in 1..N /\ Link /\ After(p.id, p.idx)'  BY <1>1, <1>2, HeadOf
<1>4. Counts /\ FrameFun /\ Framed(p.id) /\ Once(p.id)  BY <1>3, TypesAre DEF BroadcastInv
<1>5. aged' = aged  BY <1>2 DEF Next1
<1>6. CASE p.id \notin Kept
  <2>1. frames' = Clean /\ UNCHANGED <<decoding, finals, gapped>>
    <3>1. p.id \notin DOMAIN Clean /\ Only(frames, Kept) = Clean  BY <1>4, <1>6, CleanIs DEF Clean
    <3> QED  BY <1>1, <3>1 DEF HandleChunk
  <2>2. Reframed(p.id)  BY <2>1 DEF Reframed
  <2>3. BroadcastTypes' /\ Wired'  BY <1>2, <1>3, <1>4, <2>1, <2>2, HandledTypes DEF Counts
  <2>4. ASSUME NEW n \in Msgs PROVE Framed(n)' /\ Once(n)'
    <3>1. n \in DOMAIN frames' => n \in DOMAIN frames /\ frames'[n] = frames[n]  BY <1>4, <2>1, CleanIs
    <3> QED  BY <1>2, <1>3, <1>5, <2>1, <3>1, LeftAlone
  <2> QED  BY <2>1, <2>3, <2>4 DEF BroadcastInv
<1>7. CASE p.id \in Kept
  <2>1. PICK e \in Entries :
             /\ e.got = frames[p.id].got \cup {p.idx} /\ e.received = Cardinality(e.got)
             /\ e.ended = frames[p.id].ended /\ e.streamPlayed = frames[p.id].streamPlayed
             /\ e.old = frames[p.id].old
             /\ p.idx \in frames[p.id].got => e = frames[p.id] /\ decoding' = decoding
             /\ p.idx \notin frames[p.id].got =>
                  /\ frames[p.id].received < N
                  /\ decoding' = IF Whole(e) THEN [decoding EXCEPT ![p.id] = @ + 1] ELSE decoding
             /\ Reframed(p.id) /\ Closes(p.id, e)
    BY <1>1, <1>7, ChunkIs
  <2>2. /\ decoding' \in [Msgs -> Nat] /\ finals' \in [Msgs -> Nat] /\ gapped' \subseteq Msgs
        /\ \A n \in Msgs : n # p.id => decoding'[n] = decoding[n] /\ finals'[n] = finals[n]
    <3>1. decoding' = decoding \/ decoding' = [decoding EXCEPT ![p.id] = @ + 1]  BY <2>1
    <3>2. /\ finals' = finals \/ finals' = [finals EXCEPT ![p.id] = @ + 1]
          /\ gapped' = gapped \/ gapped' = gapped \cup {p.id}
      BY <2>1 DEF Closes
    <3>3. decoding \in [Msgs -> Nat] /\ finals \in [Msgs -> Nat] /\ gapped \subseteq Msgs  BY <1>4 DEF Counts
    <3>4. decoding' \in [Msgs -> Nat] /\ \A n \in Msgs : n # p.id => decoding'[n] = decoding[n]
      BY <1>3, <3>1, <3>3, Bumped
    <3>5. finals' \in [Msgs -> Nat] /\ \A n \in Msgs : n # p.id => finals'[n] = finals[n]
      BY <1>3, <3>2, <3>3, Bumped
    <3> QED  BY <1>3, <3>2, <3>3, <3>4, <3>5
  <2>3. BroadcastTypes' /\ Wired'  BY <1>2, <1>3, <1>4, <2>1, <2>2, HandledTypes DEF Counts
  <2>4. ASSUME NEW n \in Msgs, n # p.id PROVE Framed(n)' /\ Once(n)'
    BY <1>2, <1>3, <1>4, <1>5, <2>1, <2>2, <2>4, OtherFrames, LeftAlone
  <2>5. p.id \in DOMAIN frames /\ frames[p.id] \in Entries  BY <1>4, <1>7, CleanIs
  <2>6. /\ frames[p.id].received = Cardinality(frames[p.id].got) /\ frames[p.id].got \in SUBSET (1..N)
        /\ frames[p.id].received \in 0..N /\ N \in Nat
        /\ \A i \in frames[p.id].got : After(p.id, i)
    BY <1>4, <2>5, BroadcastAssumption DEF Framed, Entries
  <2>7. ASSUME NEW i \in e.got PROVE After(p.id, i)'
    <3>1. CASE i = p.idx  BY <1>3, <3>1
    <3>2. CASE i \in frames[p.id].got
      <4>1. i \in Nat /\ After(p.id, i)  BY <2>6, <3>2
      <4> QED  BY <1>3, <1>4, <4>1, AfterStays
    <3> QED  BY <2>1, <3>1, <3>2
  <2>8. e.ended => After(p.id, N + 1)'
    <3>1. e.ended => After(p.id, N + 1) /\ N + 1 \in Nat  BY <1>4, <2>1, <2>5, <2>6 DEF Framed
    <3> QED  BY <1>3, <1>4, <3>1, AfterStays
  <2>9. e.old => p.id \in aged  BY <1>4, <2>1, <2>5 DEF Framed
  <2>10. /\ Whole(e) => decoding'[p.id] + streams[p.id] <= 1
         /\ ~Whole(e) => decoding'[p.id] + streams[p.id] = 0
    <3>1. decoding[p.id] \in Nat /\ streams[p.id] \in Nat /\ decoding \in [Msgs -> Nat]
          /\ decoding[p.id] + streams[p.id] <= 1
          /\ (decoding[p.id] + streams[p.id] = 1 => frames[p.id].received = N)
      BY <1>3, <1>4, <2>5 DEF Counts, Once
    <3>2. CASE p.idx \in frames[p.id].got
      BY <2>1, <2>6, <3>1, <3>2 DEF Whole
    <3>3. CASE p.idx \notin frames[p.id].got
      <4>1. decoding[p.id] + streams[p.id] = 0  BY <2>1, <2>6, <3>1, <3>3
      <4>2. decoding'[p.id] = IF Whole(e) THEN decoding[p.id] + 1 ELSE decoding[p.id]
        BY <1>3, <2>1, <3>1, <3>3
      <4> QED  BY <3>1, <4>1, <4>2
    <3> QED  BY <3>2, <3>3
  <2>11. Counts'  BY <2>3 DEF BroadcastTypes, Counts
  <2>12. Framed(p.id)' /\ Once(p.id)' /\ gapped' = {}
    <3>1. Past(p.id, e.got)'  BY <2>7 DEF Past
    <3> QED  BY <1>2, <1>3, <1>5, <2>1, <2>5, <2>8, <2>9, <2>10, <2>11, <3>1, Closing
  <2> QED  BY <2>3, <2>4, <2>12 DEF BroadcastInv
<1> QED  BY <1>6, <1>7

\* The entry the end makes of its frame.
LEMMA EndIs ==
    ASSUME BroadcastInv, HandleEnd, NEW p, p = Head(channel), p.id \in Kept
    PROVE  \E e \in Entries :
             /\ e.got = frames[p.id].got /\ e.received = frames[p.id].received
             /\ e.ended /\ e.streamPlayed = frames[p.id].streamPlayed /\ e.old = frames[p.id].old
             /\ Reframed(p.id) /\ Closes(p.id, e)
<1>1. Next1("end")  BY DEF HandleEnd
<1>2. p.id \in Msgs  BY <1>1, HeadOf
<1>3. FrameFun  BY TypesAre DEF BroadcastInv
<1>4. p.id \in DOMAIN Clean /\ Clean[p.id] = frames[p.id] /\ frames[p.id] \in Entries
  BY <1>3, CleanIs
<1>5. PICK e : e = [frames[p.id] EXCEPT !.ended = TRUE]  OBVIOUS
<1>6. /\ e \in Entries /\ e.got = frames[p.id].got /\ e.received = frames[p.id].received
      /\ e.ended /\ e.streamPlayed = frames[p.id].streamPlayed /\ e.old = frames[p.id].old
  BY <1>4, <1>5 DEF Entries
<1>7. Finalize(Clean, p.id, e)
  <2>1. Only(frames, Kept) = Clean  BY DEF Clean
  <2> QED  BY <1>4, <1>5, <2>1 DEF HandleEnd
<1> QED  BY <1>3, <1>6, <1>7, FinalizeIs

LEMMA EndInv == ASSUME BroadcastInv, HandleEnd PROVE BroadcastInv'
<1>1. PICK p : p = Head(channel)  OBVIOUS
<1>2. Next1("end") /\ UNCHANGED <<decoding, captions, streams>>  BY DEF HandleEnd
<1>3. p.id \in Msgs /\ Link /\ After(p.id, N + 1)'  BY <1>1, <1>2, HeadOf
<1>4. Counts /\ FrameFun /\ Framed(p.id) /\ Once(p.id)  BY <1>3, TypesAre DEF BroadcastInv
<1>5. aged' = aged  BY <1>2 DEF Next1
<1>6. CASE p.id \notin Kept
  <2>1. frames' = Clean /\ UNCHANGED <<finals, gapped>>
    <3>1. p.id \notin DOMAIN Clean /\ Only(frames, Kept) = Clean  BY <1>4, <1>6, CleanIs DEF Clean
    <3> QED  BY <1>1, <3>1 DEF HandleEnd
  <2>2. Reframed(p.id)  BY <2>1 DEF Reframed
  <2>3. BroadcastTypes' /\ Wired'  BY <1>2, <1>3, <1>4, <2>1, <2>2, HandledTypes DEF Counts
  <2>4. ASSUME NEW n \in Msgs PROVE Framed(n)' /\ Once(n)'
    <3>1. n \in DOMAIN frames' => n \in DOMAIN frames /\ frames'[n] = frames[n]  BY <1>4, <2>1, CleanIs
    <3> QED  BY <1>2, <1>3, <1>5, <2>1, <3>1, LeftAlone
  <2> QED  BY <2>1, <2>3, <2>4 DEF BroadcastInv
<1>7. CASE p.id \in Kept
  <2>1. PICK e \in Entries :
             /\ e.got = frames[p.id].got /\ e.received = frames[p.id].received
             /\ e.ended /\ e.streamPlayed = frames[p.id].streamPlayed /\ e.old = frames[p.id].old
             /\ Reframed(p.id) /\ Closes(p.id, e)
    BY <1>1, <1>7, EndIs
  <2>2. /\ finals' \in [Msgs -> Nat] /\ gapped' \subseteq Msgs
        /\ \A n \in Msgs : n # p.id => finals'[n] = finals[n]
    <3>1. /\ finals' = finals \/ finals' = [finals EXCEPT ![p.id] = @ + 1]
          /\ gapped' = gapped \/ gapped' = gapped \cup {p.id}
      BY <2>1 DEF Closes
    <3>2. finals \in [Msgs -> Nat] /\ gapped \subseteq Msgs  BY <1>4 DEF Counts
    <3>3. finals' \in [Msgs -> Nat] /\ \A n \in Msgs : n # p.id => finals'[n] = finals[n]
      BY <1>3, <3>1, <3>2, Bumped
    <3> QED  BY <1>3, <3>1, <3>2, <3>3
  <2>3. BroadcastTypes' /\ Wired'  BY <1>2, <1>3, <1>4, <2>1, <2>2, HandledTypes DEF Counts
  <2>4. ASSUME NEW n \in Msgs, n # p.id PROVE Framed(n)' /\ Once(n)'
    BY <1>2, <1>3, <1>4, <1>5, <2>1, <2>2, <2>4, OtherFrames, LeftAlone
  <2>5. p.id \in DOMAIN frames /\ frames[p.id] \in Entries  BY <1>4, <1>7, CleanIs
  <2>6. /\ frames[p.id].received = Cardinality(frames[p.id].got) /\ frames[p.id].got \in SUBSET (1..N)
        /\ frames[p.id].received \in 0..N /\ N \in Nat
        /\ \A i \in frames[p.id].got : After(p.id, i)
        /\ e.old => p.id \in aged
    BY <1>4, <2>1, <2>5, BroadcastAssumption DEF Framed, Entries
  <2>7. Past(p.id, e.got)'
    <3>1. ASSUME NEW i \in e.got PROVE After(p.id, i)'
      <4>1. i \in Nat /\ After(p.id, i)  BY <2>1, <2>6
      <4> QED  BY <1>3, <1>4, <4>1, AfterStays
    <3> QED  BY <3>1 DEF Past
  <2>8. /\ Whole(e) => decoding'[p.id] + streams[p.id] <= 1
        /\ ~Whole(e) => decoding'[p.id] + streams[p.id] = 0
    <3>1. decoding[p.id] \in Nat /\ streams[p.id] \in Nat /\ decoding' = decoding
          /\ decoding[p.id] + streams[p.id] <= 1
          /\ (decoding[p.id] + streams[p.id] = 1 => frames[p.id].received = N)
      BY <1>2, <1>3, <1>4, <2>5 DEF Counts, Once
    <3> QED  BY <2>1, <2>6, <3>1 DEF Whole
  <2>9. Counts'  BY <2>3 DEF BroadcastTypes, Counts
  <2>10. Framed(p.id)' /\ Once(p.id)' /\ gapped' = {}
    BY <1>2, <1>3, <1>5, <2>1, <2>5, <2>6, <2>7, <2>8, <2>9, Closing
  <2> QED  BY <2>3, <2>4, <2>10 DEF BroadcastInv
<1> QED  BY <1>6, <1>7

\* The decoder's answer, and a frame that grows old.
LEMMA DecodeIs ==
    ASSUME Counts, FrameFun, NEW m \in Msgs, Decode(m)
    PROVE  /\ decoding[m] > 0 /\ decoding' \in [Msgs -> Nat] /\ decoding'[m] = decoding[m] - 1
           /\ streams' \in [Msgs -> Nat] /\ streams'[m] \in {streams[m], streams[m] + 1}
           /\ \A n \in Msgs : n # m => decoding'[n] = decoding[n] /\ streams'[n] = streams[n]
           /\ UNCHANGED <<phase, step, tries, channel, present, missed, captions, finals, gapped, aged, faults>>
           /\ DOMAIN frames' = DOMAIN frames /\ FrameFun'
           /\ \A n \in Msgs : n # m /\ n \in DOMAIN frames => frames'[n] = frames[n]
           /\ m \in DOMAIN frames =>
                /\ frames'[m].got = frames[m].got /\ frames'[m].received = frames[m].received
                /\ frames'[m].ended = frames[m].ended /\ frames'[m].old = frames[m].old
                /\ frames'[m].streamPlayed => frames[m].streamPlayed \/ streams'[m] = streams[m] + 1
<1>1. Counts /\ FrameFun  OBVIOUS
<1>2. /\ decoding[m] > 0 /\ decoding' = [decoding EXCEPT ![m] = @ - 1]
      /\ UNCHANGED <<phase, step, tries, channel, present, missed, captions, finals, gapped, aged, faults>>
      /\ \/ streams' = streams /\ frames' = frames
         \/ /\ streams' = [streams EXCEPT ![m] = @ + 1]
            /\ frames' = IF m \in DOMAIN frames THEN [frames EXCEPT ![m].streamPlayed = TRUE] ELSE frames
  BY DEF Decode, DecodeDone, DecodeFails, sender, link, played
<1>4. decoding \in [Msgs -> Nat] /\ streams \in [Msgs -> Nat] /\ finals \in [Msgs -> Nat]  BY <1>1 DEF Counts
<1>5. /\ decoding' \in [Msgs -> Nat] /\ decoding'[m] = decoding[m] - 1
      /\ \A n \in Msgs : n # m => decoding'[n] = decoding[n]
  BY <1>2, <1>4
<1>6. /\ streams' \in [Msgs -> Nat] /\ streams'[m] \in {streams[m], streams[m] + 1}
      /\ \A n \in Msgs : n # m => streams'[n] = streams[n]
  <2>1. CASE streams' = streams  BY <1>4, <2>1
  <2>2. CASE streams' = [streams EXCEPT ![m] = @ + 1]  BY <1>4, <2>2
  <2> QED  BY <1>2, <2>1, <2>2
<1>7. /\ DOMAIN frames' = DOMAIN frames /\ FrameFun'
      /\ \A n \in Msgs : n # m /\ n \in DOMAIN frames => frames'[n] = frames[n]
      /\ m \in DOMAIN frames =>
           /\ frames'[m].got = frames[m].got /\ frames'[m].received = frames[m].received
           /\ frames'[m].ended = frames[m].ended /\ frames'[m].old = frames[m].old
           /\ frames'[m].streamPlayed => frames[m].streamPlayed \/ streams'[m] = streams[m] + 1
  <2>1. CASE streams' = streams /\ frames' = frames  BY <1>1, <2>1 DEF FrameFun
  <2>2. CASE /\ streams' = [streams EXCEPT ![m] = @ + 1] /\ m \in DOMAIN frames
             /\ frames' = [frames EXCEPT ![m].streamPlayed = TRUE]
    <3>1. frames[m] \in Entries /\ streams'[m] = streams[m] + 1  BY <1>1, <1>4, <2>2 DEF FrameFun
    <3>2. frames'[m] = [frames[m] EXCEPT !.streamPlayed = TRUE]  BY <2>2
    <3>3. /\ frames'[m] \in Entries
          /\ frames'[m].got = frames[m].got /\ frames'[m].received = frames[m].received
          /\ frames'[m].ended = frames[m].ended /\ frames'[m].old = frames[m].old
      BY <3>1, <3>2 DEF Entries
    <3> QED  BY <1>1, <2>2, <3>1, <3>3 DEF FrameFun
  <2>3. CASE streams' = [streams EXCEPT ![m] = @ + 1] /\ m \notin DOMAIN frames /\ frames' = frames
    BY <1>1, <2>3 DEF FrameFun
  <2> QED  BY <1>2, <2>1, <2>2, <2>3
<1> QED  BY <1>2, <1>5, <1>6, <1>7

LEMMA DecodeInv == ASSUME BroadcastInv, NEW m \in Msgs, Decode(m) PROVE BroadcastInv'
<1>1. Counts /\ FrameFun /\ Wired /\ Framed(m) /\ Once(m)  BY TypesAre DEF BroadcastInv
<1>2. /\ decoding[m] > 0 /\ decoding' \in [Msgs -> Nat] /\ decoding'[m] = decoding[m] - 1
      /\ streams' \in [Msgs -> Nat] /\ streams'[m] \in {streams[m], streams[m] + 1}
      /\ \A n \in Msgs : n # m => decoding'[n] = decoding[n] /\ streams'[n] = streams[n]
      /\ UNCHANGED <<phase, step, tries, channel, present, missed, captions, finals, gapped, aged, faults>>
  BY <1>1, DecodeIs
<1>3. Link  BY <1>1, <1>2, BroadcastAssumption DEF Link, Counts, Steps
<1>4. decoding \in [Msgs -> Nat] /\ streams \in [Msgs -> Nat] /\ finals \in [Msgs -> Nat]  BY <1>1 DEF Counts
<1>5. /\ DOMAIN frames' = DOMAIN frames /\ FrameFun'
      /\ \A n \in Msgs : n # m /\ n \in DOMAIN frames => frames'[n] = frames[n]
      /\ m \in DOMAIN frames =>
           /\ frames'[m].got = frames[m].got /\ frames'[m].received = frames[m].received
           /\ frames'[m].ended = frames[m].ended /\ frames'[m].old = frames[m].old
           /\ frames'[m].streamPlayed => frames[m].streamPlayed \/ streams'[m] = streams[m] + 1
  BY <1>1, DecodeIs
<1>6. Counts'  BY <1>1, <1>2 DEF Counts
<1>7. Wired'  BY <1>1, <1>2, <1>3, WiredStays DEF Wired
<1>8. ASSUME NEW n \in Msgs, n # m PROVE Framed(n)' /\ Once(n)'
  BY <1>2, <1>3, <1>5, <1>8, LeftAlone
<1>9. ASSUME NEW i \in Nat PROVE After(m, i)' <=> After(m, i)  BY <1>2 DEF After
<1>10. Framed(m)'
  <2>1. ASSUME m \in DOMAIN frames PROVE Framed(m)'
    <3>1. frames[m].got \subseteq Nat /\ N + 1 \in Nat
      BY <1>1, <2>1, BroadcastAssumption DEF FrameFun, Entries
    <3>2. frames'[m].streamPlayed => streams'[m] >= 1
      BY <1>1, <1>2, <1>4, <1>5, <2>1 DEF Framed
    <3> QED  BY <1>1, <1>2, <1>5, <1>9, <2>1, <3>1, <3>2 DEF Framed
  <2> QED  BY <1>5, <2>1 DEF Framed
<1>11. Once(m)'
  <2>1. finals[m] + decoding[m] + streams[m] > 0  BY <1>2, <1>4
  <2>2. After(m, 1)'  BY <1>1, <1>9, <2>1 DEF Once
  <2>3. decoding'[m] + streams'[m] <= 1 /\ decoding[m] + streams[m] = 1  BY <1>1, <1>2, <1>4 DEF Once
  <2> QED  BY <1>1, <1>2, <1>5, <2>2, <2>3 DEF Once
<1> QED  BY <1>2, <1>5, <1>6, <1>7, <1>8, <1>10, <1>11, TypesAre DEF BroadcastInv

LEMMA AgeInv == ASSUME BroadcastInv, NEW m \in Msgs, FrameAges(m) PROVE BroadcastInv'
<1>1. Counts /\ FrameFun /\ Wired /\ Framed(m) /\ Once(m)  BY TypesAre DEF BroadcastInv
<1>2. /\ m \in DOMAIN frames /\ frames' = [frames EXCEPT ![m].old = TRUE] /\ aged' = aged \cup {m}
      /\ faults' \in 0..MaxFaults
      /\ UNCHANGED <<phase, step, tries, channel, present, missed, decoding, captions, streams, finals, gapped>>
  BY <1>1, BroadcastAssumption DEF FrameAges, sender, link, played, Counts
<1>3. Link  BY <1>1, <1>2, BroadcastAssumption DEF Link, Counts, Steps
<1>4. /\ frames'[m] \in Entries /\ frames'[m].got = frames[m].got /\ frames'[m].received = frames[m].received
      /\ frames'[m].ended = frames[m].ended /\ frames'[m].streamPlayed = frames[m].streamPlayed
  <2>1. frames[m] \in Entries  BY <1>1, <1>2 DEF FrameFun
  <2>2. frames'[m] = [frames[m] EXCEPT !.old = TRUE]  BY <1>2
  <2> QED  BY <2>1, <2>2 DEF Entries
<1>5. FrameFun' /\ DOMAIN frames' = DOMAIN frames /\ \A n \in DOMAIN frames : n # m => frames'[n] = frames[n]
  BY <1>1, <1>2, <1>4 DEF FrameFun
<1>6. Counts'  BY <1>1, <1>2 DEF Counts
<1>7. Wired'  BY <1>1, <1>2, <1>3, WiredStays DEF Wired
<1>8. ASSUME NEW n \in Msgs, n # m PROVE Framed(n)' /\ Once(n)'
  BY <1>2, <1>3, <1>5, <1>8, LeftAlone
<1>9. ASSUME NEW i \in Nat PROVE After(m, i)' <=> After(m, i)  BY <1>2 DEF After
<1>10. Framed(m)'
  <2>1. frames[m].got \subseteq Nat /\ N + 1 \in Nat
    BY <1>1, <1>2, BroadcastAssumption DEF FrameFun, Entries
  <2> QED  BY <1>1, <1>2, <1>4, <1>9, <2>1 DEF Framed
<1>11. Once(m)'  BY <1>1, <1>2, <1>4, <1>5, <1>9 DEF Once
<1> QED  BY <1>2, <1>5, <1>6, <1>7, <1>8, <1>10, <1>11, TypesAre DEF BroadcastInv

LEMMA StepInv == ASSUME BroadcastInv, [BroadcastNext]_broadcastVars PROVE BroadcastInv'
<1>1. CASE Receive  BY <1>1, StartInv, ChunkInv, EndInv, NoticeInv DEF Receive
<1>2. CASE ReceiverDrops \/ ReceiverBack  BY <1>2, RoomInv
<1>3. ASSUME NEW m \in Msgs, BroadcastTurn(m) \/ Send(m) PROVE BroadcastInv'  BY <1>3, SenderInv
<1>4. ASSUME NEW m \in Msgs, Decode(m) PROVE BroadcastInv'  BY <1>4, DecodeInv
<1>5. ASSUME NEW m \in Msgs, FrameAges(m) PROVE BroadcastInv'  BY <1>5, AgeInv
<1>6. CASE UNCHANGED broadcastVars
  <2>1. UNCHANGED <<phase, step, tries, channel, present, missed, frames, decoding, captions, streams,
                    finals, gapped, aged, faults>>
    BY <1>6 DEF broadcastVars, sender, link, receiver, played
  <2> QED  BY <2>1 DEF BroadcastInv, BroadcastTypes, Wired, Framed, Once, After
<1> QED  BY <1>1, <1>2, <1>3, <1>4, <1>5, <1>6 DEF BroadcastNext

\* A turn sent in chunks is played without a hole and at most once by each path,
\* whatever is sent twice, lost with a connection or interleaved with another turn.
THEOREM WholePlayed == BroadcastSpec => []PlayedWhole
<1>1. BroadcastInit => BroadcastInv  BY InitBroadcast
<1>2. BroadcastInv /\ [BroadcastNext]_broadcastVars => BroadcastInv'  BY StepInv
<1>3. BroadcastInv => PlayedWhole
  <2> SUFFICES ASSUME BroadcastInv PROVE PlayedWhole
    OBVIOUS
  <2>1. ASSUME NEW m \in Msgs PROVE finals[m] <= 1 /\ streams[m] <= 1
    <3>1. decoding[m] \in Nat /\ streams[m] \in Nat /\ Once(m)  BY TypesAre DEF BroadcastInv, Counts
    <3> QED  BY <3>1 DEF Once
  <2> QED  BY <2>1 DEF PlayedWhole, NoGapPlayed, FinalizedOnce, BroadcastInv
<1> QED  BY <1>1, <1>2, <1>3, PTL DEF BroadcastSpec

-----------------------------------------------------------------------------
\* What a send adds to the packets sent is on its way, to a receiver that is there.
LEMMA Sends ==
    ASSUME Counts, NEW m \in Msgs, BroadcastTurn(m) \/ Send(m), m \notin missed'
    PROVE  /\ m \notin missed
           /\ \A j \in Steps : Sent(m, j)' => Sent(m, j) \/ Arrives(m, j)'
           /\ phase'[m] = "noticed" => Noticed(m)'
<1>1. /\ step \in [Msgs -> 0..(N + 1)] /\ N \in Nat /\ channel \in Seq(Packets)
      /\ phase \in [Msgs -> {"idle", "sending", "ok", "notice", "noticed", "failed"}]
  BY BroadcastAssumption DEF Counts, Steps
<1>2. PICK p \in Packets :
        /\ p = Packet(m) /\ p.id = m /\ p.idx = step[m]
        /\ phase[m] = "notice" => p.kind = "notice"
        /\ phase[m] # "notice" => p.kind # "notice"
  BY PacketOf
<1>3. ASSUME channel' = Append(channel, p)
      PROVE  /\ phase[m] # "notice" => \A j \in Steps : j = step[m] => Arrives(m, j)'
             /\ phase[m] = "notice" => Noticed(m)'
  <2>1. PICK k : k = Len(channel) + 1  OBVIOUS
  <2>2. k \in 1..Len(channel') /\ channel'[k] = p  BY <1>1, <1>2, <1>3, <2>1, Appended
  <2> QED  BY <1>2, <2>2 DEF Arrives, Noticed
<1>4. CASE BroadcastTurn(m)
  <2>1. phase' = [phase EXCEPT ![m] = "sending"] /\ step' = step /\ missed' = missed
    BY <1>4 DEF BroadcastTurn, link
  <2>2. phase'[m] = "sending"  BY <1>1, <2>1
  <2> QED  BY <2>1, <2>2 DEF Sent
<1>5. CASE PublishOk(m)
  <2>1. Deliver(m)  BY <1>5 DEF PublishOk
  <2>2. channel' = Append(channel, p) /\ missed' = missed
    BY <1>2, <2>1 DEF Deliver
  <2>3. \/ /\ phase[m] = "sending" /\ step[m] <= N /\ step' = [step EXCEPT ![m] = @ + 1] /\ phase' = phase
        \/ /\ phase[m] = "sending" /\ ~(step[m] <= N) /\ step' = step /\ phase' = [phase EXCEPT ![m] = "ok"]
        \/ /\ phase[m] = "notice" /\ step' = step /\ phase' = [phase EXCEPT ![m] = "noticed"]
    BY <1>5 DEF PublishOk
  <2>4. CASE phase[m] = "sending" /\ step[m] <= N /\ step' = [step EXCEPT ![m] = @ + 1] /\ phase' = phase
    <3>1. step'[m] = step[m] + 1 /\ step[m] \in Nat  BY <1>1, <2>4
    <3>2. ASSUME NEW j \in Steps, Sent(m, j)' PROVE Sent(m, j) \/ j = step[m]
      BY <1>1, <2>4, <3>1, <3>2 DEF Sent, Steps
    <3> QED  BY <1>3, <2>2, <2>4, <3>2
  <2>5. CASE phase[m] = "sending" /\ ~(step[m] <= N) /\ step' = step /\ phase' = [phase EXCEPT ![m] = "ok"]
    <3>1. step[m] = N + 1 /\ phase'[m] = "ok"  BY <1>1, <2>5
    <3>2. ASSUME NEW j \in Steps, Sent(m, j)' PROVE Sent(m, j) \/ j = step[m]
      BY <2>5, <3>1, <3>2 DEF Sent
    <3> QED  BY <1>3, <2>2, <2>5, <3>1, <3>2
  <2>6. CASE phase[m] = "notice" /\ step' = step /\ phase' = [phase EXCEPT ![m] = "noticed"]
    <3>1. phase'[m] = "noticed"  BY <1>1, <2>6
    <3> QED  BY <1>3, <2>2, <2>6, <3>1 DEF Sent
  <2> QED  BY <2>3, <2>4, <2>5, <2>6
<1>6. CASE PublishRaises(m)
  <2>1. /\ step' = step /\ (missed' = missed \/ missed' = missed \cup {m})
        /\ \/ phase' = phase /\ phase[m] \in {"sending", "notice"}
           \/ phase' = [phase EXCEPT ![m] = IF @ = "sending" THEN "notice" ELSE "failed"]
    BY <1>6 DEF PublishRaises, AfterError, Deliver, link
  <2>2. phase'[m] # "noticed" /\ phase'[m] # "ok" /\ step' = step /\ m \notin missed
    BY <1>1, <1>6, <2>1 DEF PublishRaises
  <2> QED  BY <2>2 DEF Sent
<1> QED  BY <1>4, <1>5, <1>6 DEF Send

LEMMA SenderReach ==
    ASSUME BroadcastInv, AllReach, NEW m \in Msgs, BroadcastTurn(m) \/ Send(m)
    PROVE  AllReach'
<1>1. Counts /\ channel \in Seq(Packets)  BY TypesAre DEF BroadcastInv, Counts
<1>2. /\ UNCHANGED <<frames, captions, streams, finals, aged>>
      /\ channel' = channel \/ channel' = Append(channel, Packet(m))
      /\ \A n \in Msgs : n # m => phase'[n] = phase[n] /\ step'[n] = step[n]
  BY <1>1, SenderSteps DEF receiver, played
<1>3. missed \subseteq missed'
  BY DEF BroadcastTurn, Send, PublishOk, PublishRaises, Deliver, link
<1>4. \A k \in 1..Len(channel) : k \in 1..Len(channel') /\ channel'[k] = channel[k]
  <2>1. CASE channel' = channel  BY <2>1
  <2>2. CASE channel' = Append(channel, Packet(m))
    <3>1. Packet(m) \in Packets  BY <1>1, PacketOf
    <3> QED  BY <1>1, <2>2, <3>1, Appended
  <2> QED  BY <1>2, <2>1, <2>2
<1>5. ASSUME NEW n \in Msgs PROVE Reaches(n)'
  <2>1. /\ \A j \in Steps : Arrives(n, j) => Arrives(n, j)'
        /\ Noticed(n) => Noticed(n)'
    BY <1>4 DEF Arrives, Noticed
  <2>2. \A j \in Steps : Handled(n, j)' <=> Handled(n, j)
    BY <1>2 DEF Handled, Heard
  <2>3. n \notin missed' =>
          /\ n \notin missed
          /\ \A j \in Steps : Sent(n, j)' => Sent(n, j) \/ Arrives(n, j)'
          /\ phase'[n] = "noticed" => phase[n] = "noticed" \/ Noticed(n)'
    <3>1. CASE n = m  BY <1>1, <3>1, Sends
    <3>2. CASE n # m  BY <1>2, <1>3, <3>2 DEF Sent
    <3> QED  BY <3>1, <3>2
  <2>4. 0 \in Steps /\ Reaches(n)  BY BroadcastAssumption DEF Steps, AllReach
  <2> QED  BY <1>2, <2>1, <2>2, <2>3, <2>4 DEF Reaches
<1> QED  BY <1>5 DEF AllReach

LEMMA RoomReach == ASSUME BroadcastInv, AllReach, ReceiverDrops \/ ReceiverBack PROVE AllReach'
<1>1. Counts /\ channel \in Seq(Packets)  BY TypesAre DEF BroadcastInv, Counts
<1>2. UNCHANGED <<phase, step, frames, captions, streams, finals, aged>>
  BY DEF ReceiverDrops, ReceiverBack, sender, receiver, played
<1>3. ASSUME NEW n \in Msgs PROVE Reaches(n)'
  <2>1. Reaches(n) /\ 0 \in Steps  BY BroadcastAssumption DEF Steps, AllReach
  <2>2. /\ n \notin missed' => n \notin missed
        /\ \A j \in Steps : Arrives(n, j) => Arrives(n, j)' \/ n \in missed'
        /\ Noticed(n) => Noticed(n)' \/ n \in missed'
    <3>1. CASE ReceiverDrops
      <4>1. /\ missed' = missed \cup {channel[i].id : i \in DOMAIN channel} /\ DOMAIN channel = 1..Len(channel)
        BY <1>1, <3>1 DEF ReceiverDrops
      <4> QED  BY <4>1 DEF Arrives, Noticed
    <3>2. CASE ReceiverBack  BY <3>2 DEF ReceiverBack, Arrives, Noticed
    <3> QED  BY <3>1, <3>2
  <2>3. \A j \in Steps : (Handled(n, j)' <=> Handled(n, j)) /\ (Sent(n, j)' <=> Sent(n, j))
    BY <1>2 DEF Handled, Heard, Sent
  <2> QED  BY <1>2, <2>1, <2>2, <2>3 DEF Reaches
<1> QED  BY <1>3 DEF AllReach

LEMMA DecodeReach ==
    ASSUME BroadcastInv, AllReach, NEW m \in Msgs, Decode(m) \/ FrameAges(m)
    PROVE  AllReach'
<1>1. Counts /\ FrameFun  BY TypesAre DEF BroadcastInv
<1>2. /\ UNCHANGED <<phase, step, channel, missed, captions>> /\ aged \subseteq aged'
      /\ \A n \in Msgs \ aged' : Heard(n) => Heard(n)'
      /\ \A n \in Msgs \ aged' : n \in DOMAIN frames =>
           n \in DOMAIN frames' /\ frames'[n].got = frames[n].got /\ frames'[n].ended = frames[n].ended
  <2>1. CASE Decode(m)
    <3>1. /\ UNCHANGED <<phase, step, channel, missed, captions, finals, aged>>
          /\ DOMAIN frames' = DOMAIN frames
          /\ \A n \in Msgs : n # m /\ n \in DOMAIN frames => frames'[n] = frames[n]
          /\ m \in DOMAIN frames => frames'[m].got = frames[m].got /\ frames'[m].ended = frames[m].ended
      BY <1>1, <2>1, DecodeIs
    <3>2. ASSUME NEW n \in Msgs PROVE Heard(n) => Heard(n)'
      <4>1. streams[n] \in Nat /\ finals[n] \in Nat  BY <1>1 DEF Counts
      <4>2. streams'[n] \in {streams[n], streams[n] + 1}  BY <1>1, <2>1, DecodeIs
      <4> QED  BY <3>1, <4>1, <4>2 DEF Heard
    <3> QED  BY <3>1, <3>2
  <2>2. CASE FrameAges(m)
    <3>1. /\ UNCHANGED <<phase, step, channel, missed, captions, streams, finals>> /\ aged' = aged \cup {m}
          /\ frames' = [frames EXCEPT ![m].old = TRUE]
      BY <2>2 DEF FrameAges, sender, link, played
    <3> QED  BY <1>1, <3>1 DEF Heard, FrameFun
  <2> QED  BY <2>1, <2>2
<1>3. ASSUME NEW n \in Msgs PROVE Reaches(n)'
  <2>1. Reaches(n) /\ 0 \in Steps  BY BroadcastAssumption DEF Steps, AllReach
  <2>2. n \notin aged' => n \notin aged /\ \A j \in Steps : Handled(n, j) => Handled(n, j)'
    BY <1>2 DEF Handled
  <2>3. /\ \A j \in Steps : (Arrives(n, j)' <=> Arrives(n, j)) /\ (Sent(n, j)' <=> Sent(n, j))
        /\ Noticed(n)' <=> Noticed(n)
    BY <1>2 DEF Arrives, Noticed, Sent
  <2> QED  BY <1>2, <2>1, <2>2, <2>3 DEF Reaches
<1> QED  BY <1>3 DEF AllReach

\* The first packet is gone, the others are still on their way.
LEMMA HeadGone ==
    ASSUME Counts, NEW kind, Next1(kind), NEW p, p = Head(channel), NEW n \in Msgs
    PROVE  /\ \A j \in Steps : Arrives(n, j) => Arrives(n, j)' \/ (p.id = n /\ p.kind # "notice" /\ p.idx = j)
           /\ Noticed(n) => Noticed(n)' \/ (p.id = n /\ p.kind = "notice")
<1>1. /\ channel \in Seq(Packets) /\ channel # << >> /\ channel' = Tail(channel)
  BY DEF Counts, Next1
<1>2. p = channel[1] /\ Len(channel) \in Nat /\ Len(channel') = Len(channel) - 1  BY <1>1, Advanced
<1>3. ASSUME NEW k \in 1..Len(channel), k # 1
      PROVE  k - 1 \in 1..Len(channel') /\ channel'[k - 1] = channel[k]
  <2>1. k - 1 \in 1..Len(channel')  BY <1>2, <1>3
  <2>2. channel'[k - 1] = channel[(k - 1) + 1]  BY <1>1, <2>1, Advanced
  <2>3. (k - 1) + 1 = k  BY <1>2
  <2> QED  BY <2>1, <2>2, <2>3
<1>4. ASSUME NEW j \in Steps, Arrives(n, j)
      PROVE  Arrives(n, j)' \/ (p.id = n /\ p.kind # "notice" /\ p.idx = j)
  <2>1. PICK k \in 1..Len(channel) : channel[k].id = n /\ channel[k].kind # "notice" /\ channel[k].idx = j
    BY <1>4 DEF Arrives
  <2>2. CASE k = 1  BY <1>2, <2>1, <2>2
  <2>3. CASE k # 1  BY <1>3, <2>1, <2>3 DEF Arrives
  <2> QED  BY <2>2, <2>3
<1>5. ASSUME Noticed(n) PROVE Noticed(n)' \/ (p.id = n /\ p.kind = "notice")
  <2>1. PICK k \in 1..Len(channel) : channel[k].id = n /\ channel[k].kind = "notice"
    BY <1>5 DEF Noticed
  <2>2. CASE k = 1  BY <1>2, <2>1, <2>2
  <2>3. CASE k # 1  BY <1>3, <2>1, <2>3 DEF Noticed
  <2> QED  BY <2>2, <2>3
<1> QED  BY <1>4, <1>5

\* A handler keeps what got through, if its packet got through for its own turn.
LEMMA HandlerReach ==
    ASSUME BroadcastInv, AllReach, NEW kind, Next1(kind), NEW p, p = Head(channel), Reframed(p.id),
           \A n \in Msgs : n # p.id => finals'[n] = finals[n] /\ streams'[n] = streams[n],
           \A n \in Msgs : captions[n] >= 1 => captions'[n] >= 1,
           kind \in {"start", "notice"} => captions'[p.id] >= 1,
           p.id \notin aged =>
             /\ \A j \in Steps : Sent(p.id, j) /\ Handled(p.id, j) => Handled(p.id, j)'
             /\ kind # "notice" => Handled(p.id, p.idx)' \/ p.id \in missed
    PROVE  AllReach'
<1>1. Counts /\ FrameFun /\ p.id \in Msgs /\ p.kind = kind  BY HeadOf, TypesAre DEF BroadcastInv
<1>2. UNCHANGED <<phase, step, missed, aged>>  BY DEF Next1, sender
<1>3. ASSUME NEW n \in Msgs PROVE Reaches(n)'
  <2>1. Reaches(n) /\ 0 \in Steps  BY BroadcastAssumption DEF Steps, AllReach
  <2>2. \A j \in Steps : Sent(n, j)' <=> Sent(n, j)  BY <1>2 DEF Sent
  <2>3. /\ \A j \in Steps : Arrives(n, j) => Arrives(n, j)' \/ (p.id = n /\ kind # "notice" /\ p.idx = j)
        /\ Noticed(n) => Noticed(n)' \/ (p.id = n /\ kind = "notice")
    BY <1>1, HeadGone
  <2>4. ASSUME n \notin missed \cup aged, NEW j \in Steps, Sent(n, j) PROVE Arrives(n, j)' \/ Handled(n, j)'
    <3>1. CASE n = p.id
      BY <1>1, <2>1, <2>3, <2>4, <3>1 DEF Reaches
    <3>2. CASE n # p.id
      <4>1. Framed(n)  BY DEF BroadcastInv
      <4>2. n \in DOMAIN frames => n \in DOMAIN frames' /\ frames'[n] = frames[n]
        BY <1>1, <2>4, <3>2, <4>1, OtherFrames DEF Framed
      <4>3. Handled(n, j) => Handled(n, j)'  BY <3>2, <4>2 DEF Handled, Heard
      <4> QED  BY <2>1, <2>3, <2>4, <3>2, <4>3 DEF Reaches
    <3> QED  BY <3>1, <3>2
  <2>5. ASSUME n \notin missed
        PROVE  /\ Sent(n, 0) => Arrives(n, 0)' \/ captions'[n] >= 1
               /\ phase[n] = "noticed" => Noticed(n)' \/ captions'[n] >= 1
    <3>1. p.id = n /\ kind # "notice" /\ p.idx = 0 => kind = "start"
      <4>1. /\ kind = "chunk" => p.idx \in 1..N
            /\ kind = "end" => p.idx = N + 1
            /\ p \in Packets /\ p.kind = kind
        BY HeadOf
      <4>2. kind \in {"start", "chunk", "end", "notice"}  BY <4>1 DEF Packets
      <4> QED  BY <4>1, <4>2, BroadcastAssumption
    <3> QED  BY <2>1, <2>3, <2>5, <3>1 DEF Reaches
  <2> QED  BY <1>2, <2>1, <2>2, <2>4, <2>5 DEF Reaches
<1> QED  BY <1>3 DEF AllReach

LEMMA NoticeReach == ASSUME BroadcastInv, AllReach, HandleNotice PROVE AllReach'
<1>1. PICK p : p = Head(channel)  OBVIOUS
<1>2. Next1("notice") /\ frames' = Clean /\ captions' = [captions EXCEPT ![p.id] = @ + 1]
      /\ UNCHANGED <<streams, finals>>
  BY <1>1 DEF HandleNotice, ShowCaption, Clean
<1>3. p.id \in Msgs /\ Counts /\ FrameFun /\ Framed(p.id)  BY <1>1, <1>2, HeadOf, TypesAre DEF BroadcastInv
<1>4. (\A n \in Msgs : captions[n] >= 1 => captions'[n] >= 1) /\ captions'[p.id] >= 1
  BY <1>2, <1>3 DEF Counts
<1>5. Reframed(p.id)  BY <1>2 DEF Reframed
<1>6. ASSUME p.id \notin aged, NEW j \in Steps, Handled(p.id, j) PROVE Handled(p.id, j)'
  <2>1. p.id \in DOMAIN frames => p.id \in DOMAIN frames' /\ frames'[p.id] = frames[p.id]
    BY <1>2, <1>3, <1>6, CleanIs DEF Framed
  <2> QED  BY <1>2, <1>6, <2>1 DEF Handled, Heard
<1> QED  BY <1>1, <1>2, <1>4, <1>5, <1>6, HandlerReach

LEMMA StartReach == ASSUME BroadcastInv, AllReach, HandleStart PROVE AllReach'
<1>1. PICK p : p = Head(channel)  OBVIOUS
<1>2. PICK e : e = [got |-> {}, received |-> 0, ended |-> FALSE, streamPlayed |-> FALSE, old |-> FALSE]  OBVIOUS
<1>3. e \in Entries  BY <1>2, BroadcastAssumption DEF Entries
<1>4. Next1("start") /\ frames' = With(Clean, p.id, e) /\ captions' = [captions EXCEPT ![p.id] = @ + 1]
      /\ UNCHANGED <<streams, finals>>
  BY <1>1, <1>2 DEF HandleStart, ShowCaption, Clean
<1>5. p.id \in Msgs /\ p.idx = 0 /\ p = channel[1] /\ 1 \in 1..Len(channel)  BY <1>1, <1>4, HeadOf
<1>6. Counts  BY TypesAre DEF BroadcastInv
<1>7. (\A n \in Msgs : captions[n] >= 1 => captions'[n] >= 1) /\ captions'[p.id] >= 1
  BY <1>4, <1>5, <1>6 DEF Counts
<1>8. Reframed(p.id)  BY <1>3, <1>4 DEF Reframed
<1>9. Handled(p.id, 0)'
  <2>1. p.id \in DOMAIN frames'  BY <1>4 DEF With
  <2> QED  BY <2>1, BroadcastAssumption DEF Handled
<1>10. ASSUME NEW j \in Steps, Handled(p.id, j) PROVE Handled(p.id, j)'
  <2>1. ~After(p.id, 1)  BY <1>5 DEF After
  <2>2. /\ finals[p.id] = 0 /\ streams[p.id] = 0
        /\ p.id \in DOMAIN frames => frames[p.id].got = {} /\ ~frames[p.id].ended
    BY <1>5, <2>1, NotBegun
  <2>3. j = 0  BY <1>10, <2>2, BroadcastAssumption DEF Handled, Heard, Steps
  <2> QED  BY <1>9, <2>3
<1> QED  BY <1>1, <1>4, <1>5, <1>7, <1>8, <1>9, <1>10, HandlerReach

\* Whichever way a packet leaves its turn, the turn was heard or is held.
LEMMA Leaves ==
    ASSUME BroadcastInv, NEW m \in Msgs, m \in DOMAIN frames, NEW e \in Entries, Closes(m, e),
           e.streamPlayed = frames[m].streamPlayed, streams' = streams
    PROVE  /\ Heard(m) => Heard(m)'
           /\ Heard(m)' \/ (m \in DOMAIN frames' /\ frames'[m] = e)
           /\ \A n \in Msgs : n # m => finals'[n] = finals[n]
<1>1. finals \in [Msgs -> Nat] /\ streams[m] \in Nat /\ Framed(m)  BY TypesAre DEF BroadcastInv, Counts
<1>2. \/ UNCHANGED finals /\ m \in DOMAIN frames' /\ frames'[m] = e
      \/ UNCHANGED finals /\ streams[m] >= 1
      \/ finals' = [finals EXCEPT ![m] = @ + 1]
  BY <1>1 DEF Closes, Framed
<1>3. CASE UNCHANGED finals  BY <1>1, <1>2, <1>3 DEF Heard
<1>4. CASE finals' = [finals EXCEPT ![m] = @ + 1]
  <2>1. finals'[m] = finals[m] + 1 /\ finals[m] \in Nat /\ \A n \in Msgs : n # m => finals'[n] = finals[n]
    BY <1>1, <1>4
  <2> QED  BY <1>1, <2>1 DEF Heard
<1> QED  BY <1>2, <1>3, <1>4

\* A packet past the start finds its turn heard or held.
LEMMA Found ==
    ASSUME BroadcastInv, AllReach, NEW m \in Msgs, m \notin missed \cup aged,
           NEW i \in Nat, i >= 1, After(m, i)
    PROVE  Heard(m) \/ m \in Kept
<1>1. Counts /\ FrameFun /\ Framed(m) /\ Reaches(m) /\ 0 \in Steps
  BY TypesAre, BroadcastAssumption DEF BroadcastInv, AllReach, Steps
<1>2. step[m] \in Nat /\ step[m] >= i  BY <1>1, BroadcastAssumption DEF Counts, Steps, After
<1>3. Sent(m, 0)  BY <1>2 DEF Sent
<1>4. ~Arrives(m, 0)  BY DEF After, Arrives
<1>5. Handled(m, 0)  BY <1>1, <1>3, <1>4 DEF Reaches
<1> QED  BY <1>1, <1>5, CleanIs DEF Handled, Framed

LEMMA ChunkReach == ASSUME BroadcastInv, AllReach, HandleChunk PROVE AllReach'
<1>1. PICK p : p = Head(channel)  OBVIOUS
<1>2. Next1("chunk") /\ UNCHANGED <<captions, streams>>  BY DEF HandleChunk
<1>3. p.id \in Msgs /\ p.idx \in 1..N /\ p.idx \in Nat /\ p.idx >= 1 /\ After(p.id, p.idx)
  BY <1>1, <1>2, HeadOf
<1>4. FrameFun /\ Framed(p.id) /\ N \in Nat  BY <1>3, TypesAre, BroadcastAssumption DEF BroadcastInv
<1>5. CASE p.id \notin Kept
  <2>1. frames' = Clean /\ UNCHANGED finals
    <3>1. p.id \notin DOMAIN Clean /\ Only(frames, Kept) = Clean  BY <1>4, <1>5, CleanIs DEF Clean
    <3> QED  BY <1>1, <3>1 DEF HandleChunk
  <2>2. Reframed(p.id)  BY <2>1 DEF Reframed
  <2>3. p.id \notin missed \cup aged => Heard(p.id)'  BY <1>2, <1>3, <1>5, <2>1, Found DEF Heard
  <2>4. ASSUME p.id \notin aged, NEW j \in Steps, Handled(p.id, j) PROVE Handled(p.id, j)'
    BY <1>2, <1>4, <1>5, <2>1, <2>4, CleanIs DEF Handled, Heard, Framed
  <2> QED  BY <1>1, <1>2, <2>1, <2>2, <2>3, <2>4, HandlerReach DEF Handled
<1>6. CASE p.id \in Kept
  <2>1. PICK e \in Entries :
             /\ e.got = frames[p.id].got \cup {p.idx} /\ e.ended = frames[p.id].ended
             /\ e.streamPlayed = frames[p.id].streamPlayed /\ Reframed(p.id) /\ Closes(p.id, e)
    BY <1>1, <1>6, ChunkIs
  <2>2. p.id \in DOMAIN frames  BY <1>4, <1>6, CleanIs
  <2>3. /\ Heard(p.id) => Heard(p.id)'
        /\ Heard(p.id)' \/ (p.id \in DOMAIN frames' /\ frames'[p.id] = e)
        /\ \A n \in Msgs : n # p.id => finals'[n] = finals[n]
    BY <1>2, <1>3, <2>1, <2>2, Leaves
  <2>4. Handled(p.id, p.idx)'  BY <1>3, <1>4, <2>1, <2>3 DEF Handled
  <2>5. ASSUME NEW j \in Steps, Handled(p.id, j) PROVE Handled(p.id, j)'
    BY <2>1, <2>3, <2>5 DEF Handled
  <2> QED  BY <1>1, <1>2, <2>1, <2>3, <2>4, <2>5, HandlerReach
<1> QED  BY <1>5, <1>6

LEMMA EndReach == ASSUME BroadcastInv, AllReach, HandleEnd PROVE AllReach'
<1>1. PICK p : p = Head(channel)  OBVIOUS
<1>2. Next1("end") /\ UNCHANGED <<captions, streams>>  BY DEF HandleEnd
<1>3. p.id \in Msgs /\ p.idx = N + 1 /\ p.idx \in Nat /\ p.idx >= 1 /\ After(p.id, p.idx)
  BY <1>1, <1>2, HeadOf, BroadcastAssumption
<1>4. FrameFun /\ Framed(p.id) /\ N \in Nat  BY <1>3, TypesAre, BroadcastAssumption DEF BroadcastInv
<1>5. CASE p.id \notin Kept
  <2>1. frames' = Clean /\ UNCHANGED finals
    <3>1. p.id \notin DOMAIN Clean /\ Only(frames, Kept) = Clean  BY <1>4, <1>5, CleanIs DEF Clean
    <3> QED  BY <1>1, <3>1 DEF HandleEnd
  <2>2. Reframed(p.id)  BY <2>1 DEF Reframed
  <2>3. p.id \notin missed \cup aged => Heard(p.id)'  BY <1>2, <1>3, <1>5, <2>1, Found DEF Heard
  <2>4. ASSUME p.id \notin aged, NEW j \in Steps, Handled(p.id, j) PROVE Handled(p.id, j)'
    BY <1>2, <1>4, <1>5, <2>1, <2>4, CleanIs DEF Handled, Heard, Framed
  <2> QED  BY <1>1, <1>2, <2>1, <2>2, <2>3, <2>4, HandlerReach DEF Handled
<1>6. CASE p.id \in Kept
  <2>1. PICK e \in Entries :
             /\ e.got = frames[p.id].got /\ e.ended
             /\ e.streamPlayed = frames[p.id].streamPlayed /\ Reframed(p.id) /\ Closes(p.id, e)
    BY <1>1, <1>6, EndIs
  <2>2. p.id \in DOMAIN frames  BY <1>4, <1>6, CleanIs
  <2>3. /\ Heard(p.id) => Heard(p.id)'
        /\ Heard(p.id)' \/ (p.id \in DOMAIN frames' /\ frames'[p.id] = e)
        /\ \A n \in Msgs : n # p.id => finals'[n] = finals[n]
    BY <1>2, <1>3, <2>1, <2>2, Leaves
  <2>4. Handled(p.id, p.idx)'  BY <1>3, <1>4, <2>1, <2>3 DEF Handled
  <2>5. ASSUME NEW j \in Steps, Handled(p.id, j) PROVE Handled(p.id, j)'
    BY <2>1, <2>3, <2>5 DEF Handled
  <2> QED  BY <1>1, <1>2, <2>1, <2>3, <2>4, <2>5, HandlerReach
<1> QED  BY <1>5, <1>6

LEMMA StepReach == ASSUME BroadcastInv, AllReach, [BroadcastNext]_broadcastVars PROVE AllReach'
<1>1. CASE Receive  BY <1>1, StartReach, ChunkReach, EndReach, NoticeReach DEF Receive
<1>2. CASE ReceiverDrops \/ ReceiverBack  BY <1>2, RoomReach
<1>3. ASSUME NEW m \in Msgs, BroadcastTurn(m) \/ Send(m) PROVE AllReach'  BY <1>3, SenderReach
<1>4. ASSUME NEW m \in Msgs, Decode(m) \/ FrameAges(m) PROVE AllReach'  BY <1>4, DecodeReach
<1>5. CASE UNCHANGED broadcastVars
  <2>1. UNCHANGED <<phase, step, channel, missed, frames, captions, streams, finals, aged>>
    BY <1>5 DEF broadcastVars, sender, link, receiver, played
  <2> QED  BY <2>1 DEF AllReach, Reaches, Sent, Arrives, Noticed, Handled, Heard
<1> QED  BY <1>1, <1>2, <1>3, <1>4, <1>5 DEF BroadcastNext

\* A turn whose send returned ok was heard by a receiver that was there for all of it,
\* and every turn whose send is over was captioned by one that was there.
THEOREM GetsThrough == BroadcastSpec => []SentGetsThrough
<1>1. BroadcastInit => BroadcastInv /\ AllReach  BY InitBroadcast
<1>2. BroadcastInv /\ AllReach /\ [BroadcastNext]_broadcastVars => BroadcastInv' /\ AllReach'
  BY StepInv, StepReach
<1>3. BroadcastInv /\ AllReach => SentGetsThrough
  <2> SUFFICES ASSUME BroadcastInv, AllReach PROVE SentGetsThrough
    OBVIOUS
  <2>1. Counts /\ FrameFun /\ Wired /\ N \in Nat /\ 0 \in Steps /\ N + 1 \in Steps /\ 1..N \subseteq Steps
    BY TypesAre, BroadcastAssumption DEF BroadcastInv, Steps
  <2>2. ASSUME NEW m \in Msgs, Settled(m) PROVE ~Noticed(m) /\ \A j \in Steps : ~Arrives(m, j)
    <3>1. DOMAIN channel = 1..Len(channel)  BY <2>1 DEF Counts
    <3> QED  BY <2>2, <3>1 DEF Settled, Arrives, Noticed
  <2>3. ASSUME NEW m \in Msgs, phase[m] = "ok" PROVE \A j \in Steps : Sent(m, j)
    <3>1. step[m] = N + 1  BY <2>1, <2>3 DEF Wired
    <3> QED  BY <2>1, <2>3, <3>1 DEF Sent, Steps
  <2>4. ASSUME NEW m \in Msgs \ (missed \cup aged), phase[m] = "ok", Settled(m)
        PROVE  finals[m] + streams[m] >= 1
    <3>1. \A j \in Steps : Handled(m, j)
      BY <2>2, <2>3, <2>4 DEF AllReach, Reaches
    <3>2. ASSUME ~Heard(m) PROVE FALSE
      <4>1. m \in DOMAIN frames /\ frames[m].ended /\ 1..N \subseteq frames[m].got
        BY <2>1, <3>1, <3>2 DEF Handled
      <4>2. frames[m].got \in SUBSET (1..N) /\ Framed(m)
        BY <2>1, <4>1 DEF FrameFun, Entries, BroadcastInv
      <4>3. frames[m].got = 1..N  BY <4>1, <4>2
      <4>4. frames[m].received = N  BY <4>1, <4>2, <4>3, Holds DEF Framed
      <4> QED  BY <2>1, <4>1, <4>2, <4>4 DEF Framed
    <3> QED  BY <3>2 DEF Heard
  <2>5. ASSUME NEW m \in Msgs \ missed, phase[m] \in {"ok", "noticed"}, Settled(m)
        PROVE  captions[m] >= 1
    BY <2>1, <2>2, <2>3, <2>5 DEF AllReach, Reaches
  <2> QED  BY <2>4, <2>5 DEF SentGetsThrough, SentIsHeard, OverIsCaptioned
<1> QED  BY <1>1, <1>2, <1>3, PTL DEF BroadcastSpec
==============================================================================
