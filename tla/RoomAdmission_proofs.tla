------------------------- MODULE RoomAdmission_proofs -------------------------
(***************************************************************************)
(* For any number of rooms, requests in flight and uses: the plan is       *)
(* exceeded by less than one room per request, the count of an invitation  *)
(* stays within its limit, and joins that do not overlap are all counted.  *)
(***************************************************************************)
EXTENDS RoomAdmission, FiniteSetTheorems, TLAPS

\* Requests that have passed the room quota and may still insert.
Passed == {q \in Requests : req[q].at \in {"usage", "insert"}}
Joining(q, r) == req[q].at = "join" /\ req[q].room = r

\* QuotaOvershoot forgets the requests that already passed the check: what is
\* bounded is the rooms there are and those that may still come.
QuotaInv == Cardinality(Live) + Cardinality(Passed) <= MaxRooms + Cardinality(Requests) - 1

\* A stale count in flight is below the limit, so writing it back and one is
\* not above it; a join nobody raced still holds the count there is; and an
\* invitation that is not there yet has let nobody in.
JoinInv ==
    /\ \A q \in Requests : req[q].at = "join" => req[q].saw < MaxUses
    /\ \A r \in Rooms : invite[r] # None => invite[r] <= MaxUses
    /\ \A r \in Rooms : invite[r] = None /\ room[r] # "deleted" =>
         guests[r] = 0 /\ \A q \in Requests : ~Joining(q, r)
    /\ \A r \in Rooms : invite[r] # None /\ ~joinRaced[r] =>
         /\ guests[r] <= invite[r]
         /\ \A q \in Requests : Joining(q, r) => req[q].saw = invite[r]
         /\ \A p, q \in Requests : Joining(p, r) /\ Joining(q, r) => p = q

\* Until two users are let through to the code at once, who holds it is the one
\* user who was told so, and nobody is on the way to take it as well.
CodeInv == codeRaced \/
    /\ redeemed = (IF code = None THEN {} ELSE {code})
    /\ \A q \in Requests : req[q].at = "code" => code = None
    /\ \A p, q \in Requests : req[p].at = "code" /\ req[q].at = "code" => p = q

Inv == TypeOK /\ QuotaInv /\ JoinInv /\ CodeInv

USE AdmissionAssumption

LEMMA Counts ==
    /\ IsFiniteSet(Live) /\ IsFiniteSet(Passed)
    /\ Cardinality(Live) \in Nat /\ Cardinality(Passed) \in Nat
    /\ Cardinality(Passed) <= Cardinality(Requests)
    /\ Cardinality(Requests) \in Nat /\ Cardinality(Requests) >= 1
<1>1. Live \in SUBSET Rooms /\ Passed \in SUBSET Requests
  BY DEF Live, Passed
<1>2. Cardinality(Requests) # 0 /\ Cardinality(Requests) \in Nat
  BY FS_EmptySet, FS_CardinalityType
<1> QED  BY <1>1, <1>2, FS_Subset, FS_CardinalityType

LEMMA InitInv == Init => Inv
<1> SUFFICES ASSUME Init PROVE Inv
  OBVIOUS
<1>1. Live = {} /\ Passed = {}
  BY DEF Init, Live, Passed, Idle
<1>2. QuotaInv
  BY <1>1, Counts, FS_EmptySet DEF QuotaInv
<1>3. TypeOK
  <2>1. Idle \in Ops
    BY DEF Idle, Ops
  <2>2. joinRaced \in [Rooms -> BOOLEAN] /\ codeRaced \in BOOLEAN
    BY ZenonT(20) DEF Init
  <2> QED  BY <2>1, <2>2 DEF Init, TypeOK
<1>4. JoinInv
  BY DEF Init, JoinInv, Joining, Idle
<1>5. CodeInv
  BY DEF Init, CodeInv, Idle
<1> QED  BY <1>2, <1>3, <1>4, <1>5 DEF Inv

\* Types, step by step: each action replaces one request and writes its rows.
LEMMA StepType == TypeOK /\ [Next]_vars => TypeOK'
<1> SUFFICES ASSUME TypeOK, [Next]_vars PROVE TypeOK'
  OBVIOUS
<1> USE DEF TypeOK, Ops, Idle, Step, roomVars, inviteVars, codeVars
<1>1. ASSUME NEW q \in Requests,
             CheckSubscriptionActive(q) \/ CheckRoomQuota(q) \/ CheckUsageQuota(q)
      PROVE  TypeOK'
  BY <1>1 DEF CheckSubscriptionActive, CheckRoomQuota, CheckUsageQuota
<1>2. ASSUME NEW q \in Requests, CreateRoom(q) \/ Dies(q) PROVE TypeOK'
  BY <1>2 DEF CreateRoom, Dies
<1>3. ASSUME NEW r \in Rooms, EndRoom(r) \/ DeleteRoom(r) \/ CreateInvite(r) PROVE TypeOK'
  BY <1>3 DEF EndRoom, DeleteRoom, CreateInvite
<1>4. CASE CreateUsageRecord \/ SubscriptionChanges
  BY <1>4 DEF CreateUsageRecord, SubscriptionChanges
<1>5. ASSUME NEW q \in Requests, NEW r \in Rooms, ValidateInvite(q, r) PROVE TypeOK'
  <2>1. invite[r] \in Nat
    BY <1>5 DEF ValidateInvite
  <2> QED  BY <1>5, <2>1 DEF ValidateInvite
<1>6. ASSUME NEW q \in Requests, UseInvite(q) PROVE TypeOK'
  <2>1. req[q].room \in Rooms /\ req[q].saw + 1 \in Nat
    BY <1>6 DEF UseInvite
  <2> QED  BY <1>6, <2>1 DEF UseInvite
<1>7. ASSUME NEW q \in Requests, NEW u \in Users, ValidateDiscountCode(q, u) PROVE TypeOK'
  BY <1>7 DEF ValidateDiscountCode
<1>8. ASSUME NEW q \in Requests, MarkCodeUsed(q) PROVE TypeOK'
  <2>1. req[q].user \in Users
    BY <1>8 DEF MarkCodeUsed
  <2> QED  BY <1>8, <2>1 DEF MarkCodeUsed
<1>9. CASE UNCHANGED vars
  BY <1>9 DEF vars
<1> QED
  BY <1>1, <1>2, <1>3, <1>4, <1>5, <1>6, <1>7, <1>8, <1>9 DEF Next, Create, Join, Redeem

\* The check lets a request through only below the limit, and then no more than
\* all requests have passed; a room replaces the request that inserts it.
LEMMA StepQuota == TypeOK /\ QuotaInv /\ [Next]_vars => QuotaInv'
<1> SUFFICES ASSUME TypeOK, QuotaInv, [Next]_vars PROVE QuotaInv'
  OBVIOUS
<1> USE DEF QuotaInv
<1>0. /\ IsFiniteSet(Live') /\ IsFiniteSet(Passed')
      /\ Cardinality(Live') \in Nat /\ Cardinality(Passed') \in Nat
      /\ Cardinality(Passed') <= Cardinality(Requests)
  <2>1. Live' \in SUBSET Rooms /\ Passed' \in SUBSET Requests
    BY DEF Live, Passed
  <2> QED  BY <2>1, FS_Subset, FS_CardinalityType
<1>1. ASSUME Live' \subseteq Live, Passed' \subseteq Passed PROVE QuotaInv'
  <2>1. Cardinality(Live') <= Cardinality(Live) /\ Cardinality(Passed') <= Cardinality(Passed)
    BY <1>1, Counts, FS_Subset
  <2> QED  BY <1>0, <2>1, Counts
<1>2. ASSUME NEW q \in Requests, CheckRoomQuota(q), Cardinality(Live) < MaxRooms PROVE QuotaInv'
  <2>1. Live' = Live
    BY <1>2 DEF CheckRoomQuota, roomVars, Live
  <2> QED  BY <1>0, <1>2, <2>1, Counts
<1>3. ASSUME NEW q \in Requests, NEW r \in Rooms, NEW s \in {"pending", "active"},
             req[q].at = "insert", Step(q, Idle), room[r] = "absent",
             room' = [room EXCEPT ![r] = s]
      PROVE  QuotaInv'
  <2>1. Live' = Live \cup {r} /\ r \notin Live
    BY <1>3 DEF Live, TypeOK
  <2>2. Passed' = Passed \ {q} /\ q \in Passed
    BY <1>3 DEF Passed, Step, Idle, TypeOK
  <2>3. Cardinality(Live') = Cardinality(Live) + 1 /\ Cardinality(Passed') = Cardinality(Passed) - 1
    BY <2>1, <2>2, Counts, FS_AddElement, FS_RemoveElement
  <2> QED  BY <2>3, Counts
<1>4. ASSUME NEW q \in Requests, CheckRoomQuota(q) PROVE QuotaInv'
  <2>1. CASE Cardinality(Live) < MaxRooms
    BY <1>2, <1>4, <2>1
  <2>2. CASE ~(Cardinality(Live) < MaxRooms)
    <3>0. Cardinality(Live) >= MaxRooms
      BY <2>2, Counts
    <3>1. req' = [req EXCEPT ![q] = Idle] /\ Live' = Live
      BY <1>4, <3>0 DEF CheckRoomQuota, Step, roomVars, Live
    <3>2. Passed' \subseteq Passed
      BY <3>1 DEF Passed, TypeOK, Idle
    <3> QED  BY <1>1, <3>1, <3>2
  <2> QED  BY <2>1, <2>2
<1>5. ASSUME NEW q \in Requests, CreateRoom(q) PROVE QuotaInv'
  <2>1. CASE room' = room
    <3>1. Live' = Live /\ Passed' \subseteq Passed
      BY <1>5, <2>1 DEF CreateRoom, Step, Idle, Live, Passed, TypeOK
    <3> QED  BY <1>1, <3>1
  <2> QED  BY <1>3, <1>5, <2>1 DEF CreateRoom
<1>6. ASSUME NEW q \in Requests,
             CheckSubscriptionActive(q) \/ CheckUsageQuota(q) \/ UseInvite(q) \/ MarkCodeUsed(q)
               \/ Dies(q) \/ (\E r \in Rooms : ValidateInvite(q, r))
               \/ (\E u \in Users : ValidateDiscountCode(q, u))
      PROVE  QuotaInv'
  <2>1. Live' = Live
    BY <1>6 DEF CheckSubscriptionActive, CheckUsageQuota, UseInvite, MarkCodeUsed, Dies,
       ValidateInvite, ValidateDiscountCode, roomVars, Live
  <2>2. Passed' \subseteq Passed
    BY <1>6 DEF CheckSubscriptionActive, CheckUsageQuota, UseInvite, MarkCodeUsed, Dies,
       ValidateInvite, ValidateDiscountCode, Step, Idle, Passed, TypeOK
  <2> QED  BY <1>1, <2>1, <2>2
<1>7. CASE (\E r \in Rooms : EndRoom(r) \/ DeleteRoom(r) \/ CreateInvite(r))
             \/ CreateUsageRecord \/ SubscriptionChanges \/ UNCHANGED vars
  <2>1. Live' \subseteq Live /\ Passed' = Passed
    BY <1>7 DEF EndRoom, DeleteRoom, CreateInvite, CreateUsageRecord, SubscriptionChanges,
       vars, roomVars, Live, Passed, TypeOK
  <2> QED  BY <1>1, <2>1
<1> QED
  BY <1>4, <1>5, <1>6, <1>7 DEF Next, Create, Join, Redeem

\* Requests that are not joins, and rooms that come and end, leave what is said
\* of invitations alone.
LEMMA JoinFrame ==
    ASSUME TypeOK, JoinInv, UNCHANGED inviteVars,
           \A q \in Requests : req'[q].at = "join" => req'[q] = req[q],
           \A r \in Rooms : room[r] = "deleted" => room'[r] = "deleted"
    PROVE  JoinInv'
BY DEF TypeOK, JoinInv, Joining, inviteVars

LEMMA StepJoin == TypeOK /\ JoinInv /\ [Next]_vars => JoinInv'
<1> SUFFICES ASSUME TypeOK, JoinInv, [Next]_vars PROVE JoinInv'
  OBVIOUS
<1>1. ASSUME NEW q \in Requests,
             CheckSubscriptionActive(q) \/ CheckRoomQuota(q) \/ CheckUsageQuota(q)
               \/ CreateRoom(q) \/ MarkCodeUsed(q) \/ Dies(q)
               \/ (\E u \in Users : ValidateDiscountCode(q, u))
      PROVE  JoinInv'
  <2>1. UNCHANGED inviteVars /\ \A r \in Rooms : room[r] = "deleted" => room'[r] = "deleted"
    BY <1>1 DEF CheckSubscriptionActive, CheckRoomQuota, CheckUsageQuota, CreateRoom,
       MarkCodeUsed, Dies, ValidateDiscountCode, roomVars, TypeOK
  <2>2. \A p \in Requests : req'[p].at = "join" => req'[p] = req[p]
    BY <1>1 DEF CheckSubscriptionActive, CheckRoomQuota, CheckUsageQuota, CreateRoom,
       MarkCodeUsed, Dies, ValidateDiscountCode, Step, Idle, TypeOK
  <2> QED  BY <2>1, <2>2, JoinFrame
<1>2. CASE (\E r \in Rooms : EndRoom(r)) \/ CreateUsageRecord \/ SubscriptionChanges
             \/ UNCHANGED vars
  <2>1. /\ UNCHANGED <<inviteVars, req>>
        /\ \A r \in Rooms : room[r] = "deleted" => room'[r] = "deleted"
    BY <1>2 DEF EndRoom, Present, CreateUsageRecord, SubscriptionChanges, vars, roomVars, TypeOK
  <2> QED  BY <2>1, JoinFrame
<1>3. ASSUME NEW r \in Rooms, DeleteRoom(r) PROVE JoinInv'
  <2>1. /\ \A s \in Rooms : s # r => invite'[s] = invite[s] /\ room'[s] = room[s]
        /\ invite'[r] = None /\ room'[r] = "deleted" /\ UNCHANGED <<req, guests, joinRaced>>
    BY <1>3 DEF DeleteRoom, TypeOK
  <2> QED  BY <2>1 DEF JoinInv, Joining
<1>6. ASSUME NEW r \in Rooms, CreateInvite(r) PROVE JoinInv'
  <2>1. /\ \A s \in Rooms : s # r => invite'[s] = invite[s]
        /\ invite'[r] = 0 /\ invite[r] = None /\ room[r] # "deleted"
        /\ UNCHANGED <<room, req, guests, joinRaced>>
    BY <1>6 DEF CreateInvite, Present, TypeOK, roomVars
  <2> QED  BY <2>1 DEF JoinInv, Joining
<1>4. ASSUME NEW q \in Requests, NEW r \in Rooms, ValidateInvite(q, r) PROVE JoinInv'
  <2> DEFINE new == [at |-> "join", room |-> r, saw |-> invite[r]]
  <2>1. /\ req' = [req EXCEPT ![q] = new] /\ req[q].at = "idle"
        /\ invite[r] \in Nat /\ invite[r] < MaxUses
        /\ UNCHANGED <<room, invite, guests>>
        /\ joinRaced' = [joinRaced EXCEPT ![r] = @ \/ \E p \in Requests : Joining(p, r)]
    BY <1>4 DEF ValidateInvite, Step, Idle, TypeOK, roomVars, Joining
  <2>2. new.at = "join" /\ new.room = r /\ new.saw = invite[r]
    OBVIOUS
  <2> HIDE DEF new
  <2>3. \A p \in Requests, s \in Rooms : Joining(p, s)' <=> IF p = q THEN s = r ELSE Joining(p, s)
    BY <2>1, <2>2 DEF Joining, TypeOK
  <2>4. \A s \in Rooms : ~joinRaced'[s] =>
          ~joinRaced[s] /\ (s = r => \A p \in Requests : ~Joining(p, r))
    BY <2>1 DEF TypeOK
  <2>5. \A p \in Requests : p # q => req'[p] = req[p]
    BY <2>1 DEF TypeOK
  <2>6. req'[q].saw = invite[r] /\ req'[q] = new
    BY <2>1, <2>2 DEF TypeOK
  <2>7. /\ \A p \in Requests : req'[p].at = "join" => req'[p].saw < MaxUses
        /\ \A s \in Rooms : invite'[s] # None => invite'[s] <= MaxUses
    BY <2>1, <2>5, <2>6 DEF JoinInv
  <2>8. \A s \in Rooms : invite'[s] = None /\ room'[s] # "deleted" =>
          guests'[s] = 0 /\ \A p \in Requests : ~Joining(p, s)'
    BY <2>1, <2>3 DEF JoinInv
  <2>9. \A s \in Rooms : invite'[s] # None /\ ~joinRaced'[s] =>
          /\ guests'[s] <= invite'[s]
          /\ \A p \in Requests : Joining(p, s)' => req'[p].saw = invite'[s]
          /\ \A p, o \in Requests : Joining(p, s)' /\ Joining(o, s)' => p = o
    BY <2>1, <2>3, <2>4, <2>5, <2>6 DEF JoinInv
  <2> QED  BY <2>7, <2>8, <2>9 DEF JoinInv
<1>5. ASSUME NEW q \in Requests, UseInvite(q) PROVE JoinInv'
  <2>0. PICK r \in Rooms : r = req[q].room
    BY <1>5 DEF UseInvite, TypeOK, Ops
  <2>1. /\ req[q].at = "join" /\ r = req[q].room /\ req[q].saw \in Nat /\ req[q].saw < MaxUses
        /\ req' = [req EXCEPT ![q] = Idle] /\ UNCHANGED <<room, joinRaced>>
    BY <1>5, <2>0 DEF UseInvite, Step, TypeOK, Ops, JoinInv, roomVars
  <2>2. \A p \in Requests, s \in Rooms : Joining(p, s)' <=> p # q /\ Joining(p, s)
    BY <2>1 DEF Joining, TypeOK, Idle
  <2>3. \A p \in Requests : p # q => req'[p] = req[p]
    BY <2>1 DEF TypeOK
  <2>4. \A p \in Requests : req'[p].at = "join" => req'[p].saw < MaxUses
    BY <2>1, <2>3 DEF JoinInv, Idle, TypeOK
  <2>5. CASE invite[r] = None
    BY <1>5, <2>1, <2>2, <2>3, <2>4, <2>5 DEF UseInvite, JoinInv
  <2>6. CASE invite[r] # None
    <3>1. /\ invite' = [invite EXCEPT ![r] = req[q].saw + 1]
          /\ \A s \in Rooms : s # r => guests'[s] = guests[s] /\ invite'[s] = invite[s]
          /\ invite'[r] = req[q].saw + 1 /\ guests'[r] \in {guests[r], guests[r] + 1}
      BY <1>5, <2>1, <2>6 DEF UseInvite, TypeOK
    <3>2. Joining(q, r)
      BY <2>1 DEF Joining
    <3>3. guests[r] \in Nat /\ invite[r] \in Nat
      BY <2>1, <2>6 DEF TypeOK
    <3>4. ASSUME ~joinRaced[r]
          PROVE  guests'[r] <= invite'[r] /\ \A p \in Requests : ~Joining(p, r)'
      <4>1. guests[r] <= invite[r] /\ req[q].saw = invite[r]
        BY <2>1, <2>6, <3>2, <3>4 DEF JoinInv
      <4>2. \A p \in Requests : Joining(p, r) => p = q
        BY <2>1, <2>6, <3>2, <3>4 DEF JoinInv
      <4> QED  BY <2>1, <2>2, <3>1, <3>3, <4>1, <4>2
    <3>5. invite'[r] # None /\ invite'[r] <= MaxUses
      BY <2>1, <3>1
    <3>6. \A s \in Rooms : invite'[s] # None => invite'[s] <= MaxUses
      BY <3>1, <3>5 DEF JoinInv
    <3>7. \A s \in Rooms : invite'[s] = None /\ room'[s] # "deleted" =>
            guests'[s] = 0 /\ \A p \in Requests : ~Joining(p, s)'
      BY <2>1, <2>2, <3>1, <3>5 DEF JoinInv
    <3>8. ASSUME NEW s \in Rooms, invite'[s] # None, ~joinRaced'[s]
          PROVE  /\ guests'[s] <= invite'[s]
                 /\ \A p \in Requests : Joining(p, s)' => req'[p].saw = invite'[s]
                 /\ \A p, o \in Requests : Joining(p, s)' /\ Joining(o, s)' => p = o
      <4>1. CASE s = r
        BY <2>1, <3>4, <3>8, <4>1
      <4>2. CASE s # r
        BY <2>1, <2>2, <2>3, <3>1, <3>8, <4>2 DEF JoinInv
      <4> QED  BY <4>1, <4>2
    <3> QED  BY <2>4, <3>6, <3>7, <3>8 DEF JoinInv
  <2> QED  BY <2>5, <2>6
<1> QED
  BY <1>1, <1>2, <1>3, <1>4, <1>5, <1>6 DEF Next, Create, Join, Redeem

\* Whatever is not a redemption neither touches the code nor goes for it.
LEMMA CodeFrame ==
    ASSUME TypeOK, CodeInv, UNCHANGED codeVars,
           \A q \in Requests : req'[q].at = "code" => req[q].at = "code"
    PROVE  CodeInv'
BY DEF TypeOK, CodeInv, codeVars

LEMMA StepCode == TypeOK /\ CodeInv /\ [Next]_vars => CodeInv'
<1> SUFFICES ASSUME TypeOK, CodeInv, [Next]_vars PROVE CodeInv'
  OBVIOUS
<1>1. ASSUME NEW q \in Requests,
             CheckSubscriptionActive(q) \/ CheckRoomQuota(q) \/ CheckUsageQuota(q)
               \/ CreateRoom(q) \/ Dies(q) \/ UseInvite(q)
               \/ (\E r \in Rooms : ValidateInvite(q, r))
      PROVE  CodeInv'
  <2>1. UNCHANGED codeVars
    BY <1>1 DEF CheckSubscriptionActive, CheckRoomQuota, CheckUsageQuota, CreateRoom,
       Dies, UseInvite, ValidateInvite
  <2>2. \A p \in Requests : req'[p].at = "code" => req[p].at = "code"
    BY <1>1 DEF CheckSubscriptionActive, CheckRoomQuota, CheckUsageQuota, CreateRoom,
       Dies, UseInvite, ValidateInvite, Step, Idle, TypeOK
  <2> QED  BY <2>1, <2>2, CodeFrame
<1>2. CASE (\E r \in Rooms : EndRoom(r) \/ DeleteRoom(r) \/ CreateInvite(r))
             \/ CreateUsageRecord \/ SubscriptionChanges \/ UNCHANGED vars
  <2>1. UNCHANGED <<codeVars, req>>
    BY <1>2 DEF EndRoom, DeleteRoom, CreateInvite, CreateUsageRecord, SubscriptionChanges,
       vars, codeVars
  <2> QED  BY <2>1, CodeFrame
<1>3. ASSUME NEW q \in Requests, NEW u \in Users, ValidateDiscountCode(q, u) PROVE CodeInv'
  <2>1. /\ code = None /\ UNCHANGED <<code, redeemed>>
        /\ codeRaced' = (codeRaced \/ \E p \in Requests : req[p].at = "code")
        /\ \A p \in Requests : p # q => req'[p] = req[p]
    BY <1>3 DEF ValidateDiscountCode, Step, TypeOK
  <2>2. CASE codeRaced'
    BY <2>2 DEF CodeInv
  <2>3. CASE ~codeRaced'
    BY <2>1, <2>3 DEF CodeInv
  <2> QED  BY <2>2, <2>3
<1>4. ASSUME NEW q \in Requests, MarkCodeUsed(q) PROVE CodeInv'
  <2>1. /\ req[q].at = "code" /\ req[q].user \in Users /\ req[q].user # None
        /\ code' = req[q].user /\ redeemed' = redeemed \cup {req[q].user}
        /\ codeRaced' = codeRaced /\ req'[q] = Idle
        /\ \A p \in Requests : p # q => req'[p] = req[p]
    BY <1>4 DEF MarkCodeUsed, Step, TypeOK, Ops
  <2> QED  BY <2>1 DEF CodeInv, Idle
<1> QED
  BY <1>1, <1>2, <1>3, <1>4 DEF Next, Create, Join, Redeem

\* Rooms with the requests that may still add one stay within the overshoot, joins
\* under way hold counts not above the row's, and a code has one user.
THEOREM Invariant == Spec => []Inv
<1>1. Inv /\ [Next]_vars => Inv'
  BY StepType, StepQuota, StepJoin, StepCode DEF Inv
<1> QED  BY InitInv, <1>1, PTL DEF Spec

\* The rows and the requests keep the shape the code gives them.
THEOREM TypeCorrect == Spec => []TypeOK
<1>1. Inv => TypeOK  BY DEF Inv
<1> QED  BY <1>1, Invariant, PTL

\* quota_service.py 49-81 and room_service.py 36-127 overshoot the rooms of the
\* plan by less than the number of requests that can be in flight.
THEOREM QuotaBounded == Spec => []QuotaOvershoot
<1>1. Inv => QuotaOvershoot
  BY Counts DEF Inv, QuotaInv, QuotaOvershoot
<1> QED  BY <1>1, Invariant, PTL

\* invitation_service.py 25-56: use_count never passes max_uses, and it counts
\* every guest of an invitation whose joins did not overlap.
THEOREM JoinsCounted == Spec => []JoinsAreCounted
<1>1. Inv => JoinsAreCounted
  BY DEF Inv, TypeOK, JoinInv, JoinsAreCounted
<1> QED  BY <1>1, Invariant, PTL

\* api/v1/billing.py, the discount code: it is one user's unless two applied it
\* at the same moment, and the checkout takes it from that user.
THEOREM CodeIsOneUsers == Spec => []CodeOfOneUser
<1>1. Inv => CodeOfOneUser
  BY DEF Inv, CodeInv, CodeOfOneUser, CheckoutAccepts
<1> QED  BY <1>1, Invariant, PTL
=============================================================================
