----------------------------- MODULE RoomAdmission -----------------------------
(***************************************************************************)
(* What the API admits on a check: rooms against the plan of their         *)
(* organization, guests against the uses of an invitation, a discount code *)
(* against its single use.  Each handler reads, decides and writes in      *)
(* separate statements of a READ COMMITTED session and locks nothing, so   *)
(* requests that overlap decide on what none of them will find.            *)
(***************************************************************************)
EXTENDS Naturals, FiniteSets

CONSTANTS
    Requests,    \* HTTP requests in flight at a time
    Rooms, Users,
    None,
    MaxRooms,    \* the plan: rooms at a time
    MaxMinutes,  \* the plan: minutes a month
    MaxUses,     \* max_uses of an invitation
    Invited,     \* bound: rooms with an invitation
    MaxGuests    \* bound: guests of one invitation

ASSUME AdmissionAssumption ==
    /\ IsFiniteSet(Requests) /\ Requests # {} /\ IsFiniteSet(Rooms) /\ Invited \subseteq Rooms
    /\ MaxRooms \in Nat /\ MaxMinutes \in Nat /\ MaxUses \in Nat /\ MaxGuests \in Nat
    /\ None \notin Nat /\ None \notin Users

VARIABLES
    subscription, \* external: whether the billing lets rooms be created
    room,     \* status of each room, or that it is not there
    used,     \* minutes of the month's usage records
    req,      \* what each request has yet to do
    invite,   \* use_count of the room's invitation, or that there is none
    guests,   \* ghost: guests let in by that invitation
    joinRaced,\* ghost: two joins of the invitation overlapped
    code,     \* the discount code: who used it
    redeemed, \* ghost: users told that the code is theirs
    codeRaced \* ghost: two applications of the code overlapped

roomVars == <<subscription, room, used>>
inviteVars == <<invite, guests, joinRaced>>
codeVars == <<code, redeemed, codeRaced>>
vars == <<roomVars, req, inviteVars, codeVars>>

Idle == [at |-> "idle"]
Live == {r \in Rooms : room[r] \in {"pending", "active"}}
Present(r) == room[r] \notin {"absent", "deleted"}
Step(q, to) == req' = [req EXCEPT ![q] = to]

Init ==
    /\ subscription = "active" /\ used = 0
    /\ room = [r \in Rooms |-> "absent"] /\ req = [q \in Requests |-> Idle]
    /\ invite = [r \in Rooms |-> None] /\ guests = [r \in Rooms |-> 0]
    /\ joinRaced = [r \in Rooms |-> FALSE]
    /\ code = None /\ redeemed = {} /\ codeRaced = FALSE

(***************************************************************************)
(* create_room: three checks, then the insert.                             *)
(***************************************************************************)
CheckSubscriptionActive(q) ==
    /\ req[q] = Idle /\ subscription = "active"
    /\ Step(q, [at |-> "rooms"])
    /\ UNCHANGED <<roomVars, inviteVars, codeVars>>

\* Mutant: one room too many passes.
CheckRoomQuotaLate(q) ==
    /\ req[q].at = "rooms"
    /\ Step(q, IF Cardinality(Live) > MaxRooms THEN Idle ELSE [at |-> "usage"])
    /\ UNCHANGED <<roomVars, inviteVars, codeVars>>

CheckRoomQuota(q) ==
    /\ req[q].at = "rooms"
    /\ Step(q, IF Cardinality(Live) >= MaxRooms THEN Idle ELSE [at |-> "usage"])
    /\ UNCHANGED <<roomVars, inviteVars, codeVars>>

CheckUsageQuota(q) ==
    /\ req[q].at = "usage"
    /\ Step(q, IF used >= MaxMinutes THEN Idle ELSE [at |-> "insert"])
    /\ UNCHANGED <<roomVars, inviteVars, codeVars>>

\* A Talk Together room is active at once, any other pending; the commit may fail.
CreateRoom(q) ==
    /\ req[q].at = "insert" /\ Step(q, Idle)
    /\ \/ UNCHANGED room
       \/ \E r \in Rooms : /\ room[r] = "absent"
                           /\ \E s \in {"pending", "active"} : room' = [room EXCEPT ![r] = s]
    /\ UNCHANGED <<subscription, used, inviteVars, codeVars>>

\* Nothing else moves a room out of pending: expires_at is never read.
EndRoom(r) ==
    /\ Present(r) /\ room' = [room EXCEPT ![r] = "ended"]
    /\ UNCHANGED <<subscription, used, req, inviteVars, codeVars>>

\* The invitations of a room go with it.
DeleteRoom(r) ==
    /\ Present(r) /\ room' = [room EXCEPT ![r] = "deleted"]
    /\ invite' = [invite EXCEPT ![r] = None]
    /\ UNCHANGED <<subscription, used, req, guests, joinRaced, codeVars>>

CreateUsageRecord ==
    /\ used < MaxMinutes /\ used' = used + 1
    /\ UNCHANGED <<subscription, room, req, inviteVars, codeVars>>

SubscriptionChanges ==
    /\ subscription' \in {"active", "canceled"}
    /\ UNCHANGED <<room, used, req, inviteVars, codeVars>>

(***************************************************************************)
(* Invitations.                                                            *)
(***************************************************************************)
CreateInvite(r) ==
    /\ Present(r) /\ r \in Invited /\ invite[r] = None
    /\ invite' = [invite EXCEPT ![r] = 0]
    /\ UNCHANGED <<roomVars, req, guests, joinRaced, codeVars>>

\* Mutant: the limit itself is still accepted.
ValidateInviteLate(q, r) ==
    /\ req[q] = Idle /\ invite[r] # None /\ invite[r] <= MaxUses /\ guests[r] < MaxGuests
    /\ Step(q, [at |-> "join", room |-> r, saw |-> invite[r]])
    /\ joinRaced' = [joinRaced EXCEPT ![r] = @ \/ \E p \in Requests : req[p].at = "join" /\ req[p].room = r]
    /\ UNCHANGED <<roomVars, invite, guests, codeVars>>

ValidateInvite(q, r) ==
    /\ req[q] = Idle /\ invite[r] # None /\ invite[r] < MaxUses /\ guests[r] < MaxGuests
    /\ Step(q, [at |-> "join", room |-> r, saw |-> invite[r]])
    /\ joinRaced' = [joinRaced EXCEPT ![r] = @ \/ \E p \in Requests : req[p].at = "join" /\ req[p].room = r]
    /\ UNCHANGED <<roomVars, invite, guests, codeVars>>

\* The count is written as what was read and one.  The use is spent before the
\* tokens are made, so a failure there spends it on nobody; the room or the
\* invitation may be gone by now.
UseInvite(q) ==
    /\ req[q].at = "join" /\ Step(q, Idle)
    /\ LET r == req[q].room IN
         IF invite[r] = None
           THEN UNCHANGED <<invite, guests>>
           ELSE /\ invite' = [invite EXCEPT ![r] = req[q].saw + 1]
                /\ guests' \in {guests, [guests EXCEPT ![r] = @ + 1]}
    /\ UNCHANGED <<roomVars, joinRaced, codeVars>>

(***************************************************************************)
(* The discount code of the checkout page.                                 *)
(***************************************************************************)
\* Mutant: the code is not looked at.
ValidateDiscountCodeBlind(q, u) ==
    /\ req[q] = Idle
    /\ Step(q, [at |-> "code", user |-> u])
    /\ codeRaced' = (codeRaced \/ \E p \in Requests : req[p].at = "code")
    /\ UNCHANGED <<roomVars, inviteVars, code, redeemed>>

ValidateDiscountCode(q, u) ==
    /\ req[q] = Idle /\ code = None
    /\ Step(q, [at |-> "code", user |-> u])
    /\ codeRaced' = (codeRaced \/ \E p \in Requests : req[p].at = "code")
    /\ UNCHANGED <<roomVars, inviteVars, code, redeemed>>

MarkCodeUsed(q) ==
    /\ req[q].at = "code" /\ Step(q, Idle)
    /\ code' = req[q].user /\ redeemed' = redeemed \cup {req[q].user}
    /\ UNCHANGED <<roomVars, inviteVars, codeRaced>>

\* A request whose process or connection goes away before its last statement.
Dies(q) ==
    /\ req[q] # Idle /\ Step(q, Idle)
    /\ UNCHANGED <<roomVars, inviteVars, codeVars>>

\* The checkout takes a code that nobody used, or that this user did.
CheckoutAccepts(u) == code \in {None, u}

Create == \E q \in Requests : \/ CheckSubscriptionActive(q) \/ CheckRoomQuota(q)
                              \/ CheckUsageQuota(q) \/ CreateRoom(q)
Join == \E q \in Requests : UseInvite(q) \/ \E r \in Rooms : ValidateInvite(q, r)
Redeem == \E q \in Requests : MarkCodeUsed(q) \/ \E u \in Users : ValidateDiscountCode(q, u)
Next ==
    \/ Create \/ Join \/ Redeem
    \/ \E r \in Rooms : EndRoom(r) \/ DeleteRoom(r) \/ CreateInvite(r)
    \/ CreateUsageRecord \/ SubscriptionChanges
    \/ \E q \in Requests : Dies(q)

Spec == Init /\ [][Next]_vars

-----------------------------------------------------------------------------
Ops == [at : {"idle", "rooms", "usage", "insert"}]
         \cup [at : {"join"}, room : Rooms, saw : Nat]
         \cup [at : {"code"}, user : Users]

\* The rows and what each request carries between its statements.
TypeOK ==
    /\ subscription \in {"active", "canceled"} /\ used \in 0..MaxMinutes
    /\ room \in [Rooms -> {"absent", "pending", "active", "ended", "deleted"}]
    /\ req \in [Requests -> Ops]
    /\ invite \in [Rooms -> Nat \cup {None}] /\ guests \in [Rooms -> Nat]
    /\ joinRaced \in [Rooms -> BOOLEAN] /\ codeRaced \in BOOLEAN
    /\ code \in Users \cup {None} /\ redeemed \subseteq Users

\* Requests that overlap may exceed the rooms of the plan, but only by one for
\* each other request in flight; one at a time they never do.
QuotaOvershoot == Cardinality(Live) <= MaxRooms + Cardinality(Requests) - 1

\* The count of an invitation never passes its limit, whatever stale counts are
\* written, and as long as no two joins overlap every guest is counted.
JoinsAreCounted ==
    \A r \in Rooms : invite[r] # None =>
        /\ invite[r] <= MaxUses
        /\ joinRaced[r] \/ guests[r] <= invite[r]

\* Unless two users apply it at the same moment, a code is one user's, and the
\* checkout does not refuse it to the user who was told so.
CodeOfOneUser ==
    codeRaced \/ \A u \in redeemed : CheckoutAccepts(u) /\ redeemed = {u}
=============================================================================
