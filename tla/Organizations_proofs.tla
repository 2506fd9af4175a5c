------------------------ MODULE Organizations_proofs ------------------------
(***************************************************************************)
(* For any number of users and overlapping requests: as long as no         *)
(* transfer overlaps another handler and the owner's account stays, the    *)
(* organization has exactly one owner.                                     *)
(*                                                                         *)
(* The accounts, which share no state with it: for any number of codes and *)
(* logins of an address, the last code is the one that works, and one      *)
(* workspace is made.                                                      *)
(***************************************************************************)
EXTENDS Organizations, Accounts, TLAPS

AnyRole == Roles \cup {"owner", None}
Busies == [at : {"target", "write"}, op : {"role", "add", "remove", "leave", "transfer"},
           caller : Users, target : Users, new : AnyRole, as : AnyRole]

\* The rows and what each request has read have the shape the code gives them.
TypeOK ==
    /\ owner \in Users \cup {SiteAdmin, None} /\ role \in [Users -> AnyRole]
    /\ account \subseteq Users /\ excused \in BOOLEAN
    /\ req \in [Requests -> {Idle} \cup Busies]
    /\ \A q \in Requests : Busy(q) /\ req[q].op \in {"role", "add"} => req[q].new \in Roles

\* OneOwner says nothing of the requests under way.  What a request has yet to
\* write cannot touch the owner's row, because nobody became the owner since it
\* looked; only a transfer can, and it is alone and the owner's own.
OwnerInv ==
    /\ owner = None => \A u \in Users : role[u] = None
    /\ ~excused /\ owner # None =>
         owner \in Users /\ \A u \in Users : role[u] = "owner" <=> u = owner
    /\ ~excused => \A p, q \in Requests :
         Busy(p) /\ Busy(q) /\ req[p].op = "transfer" => p = q
    /\ ~excused => \A q \in Requests : Busy(q) =>
         /\ req[q].at = "write" /\ req[q].op # "add" => role[req[q].target] # "owner"
         /\ req[q].op = "transfer" /\ owner # None => req[q].caller = owner

Inv == TypeOK /\ OwnerInv

USE OrganizationsAssumption

LEMMA NotAnOwner == "owner" \notin Roles /\ Roles \subseteq AnyRole
BY DEF Roles, AnyRole

LEMMA IdleIsNotBusy == Idle \notin Busies
<1> SUFFICES ASSUME Idle \in Busies PROVE FALSE
  OBVIOUS
<1>1. DOMAIN Idle = {"at"} /\ DOMAIN Idle = {"at", "op", "caller", "target", "new", "as"}
  BY DEF Idle, Busies
<1> QED  BY <1>1

LEMMA InitInv == Init => Inv
<1> SUFFICES ASSUME Init PROVE Inv
  OBVIOUS
<1>1. \A q \in Requests : ~Busy(q)
  BY DEF Init, Busy
<1>2. TypeOK
  <2>1. excused \in BOOLEAN
    BY DEF Init
  <2> QED  BY <1>1, <2>1 DEF Init, TypeOK, AnyRole
<1>3. OwnerInv
  BY <1>1 DEF Init, OwnerInv
<1> QED  BY <1>2, <1>3 DEF Inv

\* A request that begins: alone if it or any other is a transfer, or excused.
LEMMA BeginInv ==
    ASSUME Inv, NEW q \in Requests, NEW op \in {"role", "add", "remove", "leave", "transfer"},
           NEW c \in Users, NEW t \in Users, NEW new \in AnyRole, Begin(q, op, c, t, new),
           op \in {"role", "add"} => new \in Roles, op = "transfer" => role[c] = "owner"
    PROVE  Inv'
<1> DEFINE r == [at |-> "target", op |-> op, caller |-> c, target |-> t, new |-> new, as |-> role[c]]
<1>1. r \in Busies
  BY DEF Busies, Inv, TypeOK
<1>2. /\ r.at = "target" /\ r.op = op /\ r.caller = c /\ r.new = new /\ r # Idle
      /\ req' = [req EXCEPT ![q] = r] /\ UNCHANGED <<owner, role, account>> /\ ~Busy(q)
  BY <1>1, IdleIsNotBusy DEF Begin
<1>3. excused' = (excused \/ Overlaps(q, op))
  BY DEF Begin
<1> HIDE DEF r
<1>4. \A p \in Requests : IF p = q THEN req'[p] = r /\ Busy(p)' ELSE req'[p] = req[p] /\ Busy(p)' = Busy(p)
  BY <1>2 DEF Inv, TypeOK, Busy
<1>5. TypeOK'
  <2>1. excused' \in BOOLEAN
    BY <1>3 DEF Inv, TypeOK
  <2>2. req' \in [Requests -> {Idle} \cup Busies]
    BY <1>1, <1>2 DEF Inv, TypeOK
  <2> QED
    BY <1>2, <1>4, <2>1, <2>2 DEF Inv, TypeOK
<1>6. OwnerInv'
  <2>1. ASSUME ~excused'
        PROVE  \A p, o \in Requests : Busy(p)' /\ Busy(o)' /\ req'[p].op = "transfer" => p = o
    <3>1. ~excused /\ \A p \in Requests \ {q} : Busy(p) => op # "transfer" /\ req[p].op # "transfer"
      BY <1>3, <2>1 DEF Overlaps
    <3> QED
      BY <1>2, <1>4, <3>1 DEF Inv, OwnerInv
  <2>2. ~excused' => ~excused
    BY <1>3
  <2>3. ~excused' => \A p \in Requests : Busy(p)' =>
          /\ req'[p].at = "write" /\ req'[p].op # "add" => role'[req'[p].target] # "owner"
          /\ req'[p].op = "transfer" /\ owner' # None => req'[p].caller = owner'
    BY <1>2, <1>4, <2>2 DEF Inv, OwnerInv
  <2> QED
    BY <1>2, <2>1, <2>2, <2>3 DEF Inv, OwnerInv
<1> QED  BY <1>5, <1>6 DEF Inv

\* A request that ends, or learns that it may write.
LEMMA HandleInv == ASSUME Inv, NEW q \in Requests, Handle(q) PROVE Inv'
<1>1. ASSUME req' = [req EXCEPT ![q] = Idle], UNCHANGED <<owner, role, account, excused>>
      PROVE  Inv'
  <2>1. \A p \in Requests : IF p = q THEN ~Busy(p)' ELSE req'[p] = req[p] /\ Busy(p)' = Busy(p)
    BY <1>1 DEF Inv, TypeOK, Busy
  <2>2. TypeOK'
    BY <1>1, <2>1 DEF Inv, TypeOK
  <2>3. OwnerInv'
    BY <1>1, <2>1 DEF Inv, OwnerInv
  <2> QED  BY <2>2, <2>3 DEF Inv
<1>2. ASSUME ReadTarget(q), Allowed(req[q]) PROVE Inv'
  <2> DEFINE r == [req[q] EXCEPT !.at = "write"]
  <2>1. /\ req[q] \in Busies /\ req' = [req EXCEPT ![q] = r] /\ Busy(q)
        /\ UNCHANGED <<owner, role, account, excused>>
    BY <1>2 DEF ReadTarget, Inv, TypeOK, Busy
  <2>2. /\ r \in Busies /\ r # Idle /\ r.op = req[q].op /\ r.caller = req[q].caller
        /\ r.target = req[q].target /\ r.new = req[q].new
    BY <2>1, IdleIsNotBusy DEF Busies
  <2>3. r.op # "add" => role[r.target] # "owner"
    BY <1>2, <2>1, <2>2 DEF Allowed, Busies
  <2> HIDE DEF r
  <2>4. \A p \in Requests : IF p = q THEN req'[p] = r /\ Busy(p)' ELSE req'[p] = req[p] /\ Busy(p)' = Busy(p)
    BY <2>1, <2>2 DEF Inv, TypeOK, Busy
  <2>5. TypeOK'
    <3>1. req' \in [Requests -> {Idle} \cup Busies]
      BY <2>1, <2>2 DEF Inv, TypeOK
    <3>2. \A p \in Requests : Busy(p)' /\ req'[p].op \in {"role", "add"} => req'[p].new \in Roles
      BY <2>1, <2>2, <2>4 DEF Inv, TypeOK
    <3> QED  BY <2>1, <3>1, <3>2 DEF Inv, TypeOK
  <2>6. OwnerInv'
    <3>1. ~excused' => \A p \in Requests : Busy(p)' =>
            /\ req'[p].at = "write" /\ req'[p].op # "add" => role'[req'[p].target] # "owner"
            /\ req'[p].op = "transfer" /\ owner' # None => req'[p].caller = owner'
      BY <2>1, <2>2, <2>3, <2>4 DEF Inv, OwnerInv
    <3>2. ~excused' => \A p, o \in Requests :
            Busy(p)' /\ Busy(o)' /\ req'[p].op = "transfer" => p = o
      BY <2>1, <2>2, <2>4 DEF Inv, OwnerInv
    <3> QED  BY <2>1, <3>1, <3>2 DEF Inv, OwnerInv
  <2> QED  BY <2>5, <2>6 DEF Inv
<1>3. CASE ReadTarget(q) /\ ~Allowed(req[q])
  BY <1>1, <1>3 DEF ReadTarget
<1>4. CASE Fails(q)
  BY <1>1, <1>4 DEF Fails, Done
<1> QED  BY <1>2, <1>3, <1>4 DEF Handle

\* A commit that writes another row than the owner's, and not to "owner".
LEMMA WriteInv ==
    ASSUME Inv, NEW q \in Requests, Done(q), UNCHANGED owner, NEW t \in Users,
           NEW new \in Roles \cup {None}, role' = [role EXCEPT ![t] = new],
           excused \/ role[t] # "owner", owner = None => new = None
    PROVE  Inv'
<1>1. /\ \A p \in Requests : IF p = q THEN ~Busy(p)' ELSE req'[p] = req[p] /\ Busy(p)' = Busy(p)
      /\ UNCHANGED <<account, excused>>
  BY DEF Done, Inv, TypeOK, Busy
<1>2. \A u \in Users : IF u = t THEN role'[u] = new /\ new # "owner" ELSE role'[u] = role[u]
  BY NotAnOwner DEF Inv, TypeOK
<1>3. TypeOK'
  <2>1. new \in AnyRole
    BY NotAnOwner DEF AnyRole
  <2> QED  BY <1>1, <2>1 DEF Inv, TypeOK, Done
<1>4. OwnerInv'
  <2>1. owner' = None => \A u \in Users : role'[u] = None
    BY <1>2 DEF Inv, OwnerInv
  <2>2. ~excused' /\ owner' # None =>
          owner' \in Users /\ \A u \in Users : role'[u] = "owner" <=> u = owner'
    BY <1>1, <1>2 DEF Inv, OwnerInv
  <2>3. \A p \in Requests : Busy(p)' => req'[p] = req[p] /\ Busy(p) /\ req[p].target \in Users
    BY <1>1 DEF Inv, TypeOK, Busies, Busy
  <2>4. ~excused' => \A p \in Requests : Busy(p)' =>
          /\ req'[p].at = "write" /\ req'[p].op # "add" => role'[req'[p].target] # "owner"
          /\ req'[p].op = "transfer" /\ owner' # None => req'[p].caller = owner'
    BY <1>1, <1>2, <2>3 DEF Inv, OwnerInv
  <2>5. ~excused' => \A p, o \in Requests :
          Busy(p)' /\ Busy(o)' /\ req'[p].op = "transfer" => p = o
    BY <1>1, <2>3 DEF Inv, OwnerInv
  <2> QED  BY <2>1, <2>2, <2>4, <2>5 DEF OwnerInv
<1> QED  BY <1>3, <1>4 DEF Inv

LEMMA CommitInv == ASSUME Inv, NEW q \in Requests, Commit(q) PROVE Inv'
<1>0. /\ Busy(q) /\ req[q] \in Busies /\ req[q].at = "write" /\ Done(q)
      /\ req[q].target \in Users /\ req[q].caller \in Users
      /\ req[q].op # "add" => excused \/ role[req[q].target] # "owner"
  BY DEF Commit, CommitRole, CommitAdd, CommitDelete, CommitTransfer, Writes, Busy,
     Inv, TypeOK, Busies, OwnerInv
<1>1. CASE CommitRole(q)
  <2>1. req[q].op = "role" /\ req[q].new \in Roles /\ owner # None
    BY <1>0, <1>1 DEF CommitRole, Writes, Present, Inv, TypeOK
  <2> QED  BY <1>0, <1>1, <2>1, WriteInv DEF CommitRole
<1>2. CASE CommitAdd(q)
  <2>1. req[q].op = "add" /\ req[q].new \in Roles /\ owner # None /\ role[req[q].target] # "owner"
    BY <1>0, <1>2 DEF CommitAdd, Writes, Inv, TypeOK
  <2> QED  BY <1>0, <1>2, <2>1, WriteInv DEF CommitAdd
<1>3. CASE CommitDelete(q)
  <2>1. req[q].op # "add"
    BY <1>0, <1>3 DEF CommitDelete, Writes
  <2> QED  BY <1>0, <1>3, <2>1, WriteInv DEF CommitDelete
<1>4. CASE CommitTransfer(q)
  <2>0. PICK c \in Users, t \in Users : c = req[q].caller /\ t = req[q].target
    BY <1>0
  <2>1. /\ req[q].op = "transfer" /\ owner # None /\ owner' = t
        /\ role' = [role EXCEPT ![c] = "admin", ![t] = "owner"]
        /\ UNCHANGED <<account, excused>>
    BY <1>0, <1>4, <2>0 DEF CommitTransfer, Writes, Present, Done
  <2>2. \A p \in Requests : IF p = q THEN ~Busy(p)' ELSE req'[p] = req[p] /\ Busy(p)' = Busy(p)
    BY <1>0 DEF Done, Inv, TypeOK, Busy
  <2>3. ~excused => /\ c = owner /\ t # c
                    /\ \A p \in Requests : ~Busy(p)'
    <3> SUFFICES ASSUME ~excused PROVE c = owner /\ t # c /\ \A p \in Requests : ~Busy(p)'
      OBVIOUS
    <3>1. c = owner /\ role[t] # "owner" /\ role[owner] = "owner"
      BY <1>0, <2>0, <2>1 DEF Inv, OwnerInv
    <3>2. \A p \in Requests : Busy(p) => p = q
      BY <1>0, <2>1 DEF Inv, OwnerInv
    <3> QED  BY <2>2, <3>1, <3>2
  <2>4. TypeOK'
    BY <1>0, <2>1, <2>2, NotAnOwner DEF Inv, TypeOK, Done, AnyRole, Roles
  <2>5. \A u \in Users : role'[u] = IF u = t THEN "owner" ELSE IF u = c THEN "admin" ELSE role[u]
    BY <2>1 DEF Inv, TypeOK
  <2>6. ~excused' => \A u \in Users : role'[u] = "owner" <=> u = owner'
    <3> SUFFICES ASSUME ~excused, NEW u \in Users PROVE role'[u] = "owner" <=> u = t
      BY <2>1
    <3>1. role[u] = "owner" <=> u = c
      BY <2>1, <2>3 DEF Inv, OwnerInv
    <3> QED  BY <2>3, <2>5, <3>1
  <2>7. OwnerInv'
    BY <2>1, <2>3, <2>6 DEF OwnerInv
  <2> QED  BY <2>4, <2>7 DEF Inv
<1> QED  BY <1>1, <1>2, <1>3, <1>4 DEF Commit

\* The whole organization goes, or a user who is not the owner of an organization
\* anybody still watches.
LEMMA AdminInv ==
    ASSUME Inv, DeleteOrganization \/ \E u \in Users : AdminDeleteUser(u) \/ AdminAssignOrg(u)
    PROVE  Inv'
<1>1. CASE DeleteOrganization
  <2>1. TypeOK'
    BY <1>1 DEF DeleteOrganization, Inv, TypeOK, AnyRole, Busy
  <2>2. \A u \in Users : role'[u] = None
    BY <1>1 DEF DeleteOrganization
  <2>3. \A q \in Requests : Busy(q) => req[q].target \in Users
    BY DEF Inv, TypeOK, Busies, Busy
  <2>4. owner' = None /\ UNCHANGED <<req, excused>>
    BY <1>1 DEF DeleteOrganization
  <2>5. OwnerInv'
    BY <2>2, <2>3, <2>4 DEF Inv, OwnerInv, Busy
  <2> QED  BY <2>1, <2>5 DEF Inv
<1>2. ASSUME NEW u \in Users, AdminDeleteUser(u) PROVE Inv'
  <2>1. /\ role' = [role EXCEPT ![u] = None] /\ UNCHANGED req
        /\ owner' = IF owner = u THEN SiteAdmin ELSE owner
        /\ ~excused' => ~excused /\ role[u] # "owner"
                         /\ \A q \in Requests : ~(Busy(q) /\ req[q].op = "transfer")
    BY <1>2 DEF AdminDeleteUser
  <2>2. TypeOK'
    <3>1. excused' \in BOOLEAN
      BY <1>2 DEF AdminDeleteUser, Inv, TypeOK
    <3> QED
      BY <1>2, <3>1 DEF AdminDeleteUser, Inv, TypeOK, AnyRole, Busy
  <2>3. \A v \in Users : role'[v] = IF v = u THEN None ELSE role[v]
    BY <2>1 DEF Inv, TypeOK
  <2>4. \A q \in Requests : Busy(q) => req[q].target \in Users
    BY DEF Inv, TypeOK, Busies, Busy
  <2>5. ~excused' /\ owner' # None => owner' = owner /\ owner # u
    BY <2>1 DEF Inv, OwnerInv
  <2>6. OwnerInv'
    BY <2>1, <2>3, <2>4, <2>5 DEF Inv, OwnerInv, Busy
  <2> QED  BY <2>2, <2>6 DEF Inv
<1>3. ASSUME NEW u \in Users, AdminAssignOrg(u) PROVE Inv'
  <2>1. /\ role' = [role EXCEPT ![u] = "member"] /\ owner # None /\ role[u] = None
        /\ UNCHANGED <<owner, account, req, excused>>
    BY <1>3 DEF AdminAssignOrg
  <2>2. TypeOK'
    BY <2>1, NotAnOwner DEF Inv, TypeOK, AnyRole, Roles, Busy
  <2>3. \A v \in Users : role'[v] = IF v = u THEN "member" ELSE role[v]
    BY <2>1 DEF Inv, TypeOK
  <2>4. \A q \in Requests : Busy(q) => req[q].target \in Users
    BY DEF Inv, TypeOK, Busies, Busy
  <2>5. OwnerInv'
    BY <2>1, <2>3, <2>4 DEF Inv, OwnerInv, Busy
  <2> QED  BY <2>2, <2>5 DEF Inv
<1> QED  BY <1>1, <1>2, <1>3

LEMMA StepInv == Inv /\ [Next]_vars => Inv'
<1> SUFFICES ASSUME Inv, [Next]_vars PROVE Inv'
  OBVIOUS
<1>1. ASSUME NEW q \in Requests, NEW c \in Users, NEW t \in Users, NEW new \in Roles,
             UpdateMemberRole(q, c, t, new) \/ AddMemberByEmail(q, c, t, new)
      PROVE  Inv'
  BY <1>1, BeginInv, NotAnOwner DEF UpdateMemberRole, AddMemberByEmail
<1>2. ASSUME NEW q \in Requests, NEW c \in Users, NEW t \in Users,
             RemoveMember(q, c, t) \/ TransferOwnership(q, c, t) \/ LeaveOrganization(q, c)
      PROVE  Inv'
  <2>1. None \in AnyRole /\ "owner" \in AnyRole
    BY DEF AnyRole
  <2> QED
    BY <1>2, <2>1, BeginInv DEF RemoveMember, TransferOwnership, LeaveOrganization
<1>3. CASE UNCHANGED vars
  <2>1. TypeOK'
    BY <1>3 DEF vars, Inv, TypeOK, Busy
  <2>2. OwnerInv'
    BY <1>3 DEF vars, Inv, OwnerInv, Busy
  <2> QED  BY <2>1, <2>2 DEF Inv
<1> QED
  BY <1>1, <1>2, <1>3, HandleInv, CommitInv, AdminInv DEF Next

\* One owner, and no request that may still write can make or unmake another.
THEOREM Invariant == Spec => []Inv
BY InitInv, StepInv, PTL DEF Spec

\* The rows and what each request has read keep the shape the code gives them.
THEOREM TypeCorrect == Spec => []TypeOK
<1>1. Inv => TypeOK  BY DEF Inv
<1> QED  BY <1>1, Invariant, PTL

\* organizations.py 510-813: exactly one member has the owner's role, the one
\* owner_id names, whatever other handlers overlap.
THEOREM OwnerUnique == Spec => []OneOwner
<1>1. Inv => OneOwner
  BY DEF Inv, TypeOK, OwnerInv, OneOwner
<1> QED  BY <1>1, Invariant, PTL

\* A row that appears is a request's that adds, or the site administrator's: the
\* other writes find their rows or fail.
LEMMA StepComesBack ==
    ASSUME Inv, [Next]_vars, NEW u \in Users, role[u] = None, role'[u] # None
    PROVE  AdminAssignOrg(u) \/ \E q \in Requests : req[q] # Idle /\ req[q].op = "add"
<1>1. ASSUME NEW q \in Requests, CommitRole(q) PROVE FALSE
  <2>1. role[req[q].target] # None /\ role' = [role EXCEPT ![req[q].target] = req[q].new]
    BY <1>1 DEF CommitRole, Present
  <2> QED  BY <2>1 DEF Inv, TypeOK
<1>2. ASSUME NEW q \in Requests, CommitAdd(q) PROVE req[q] # Idle /\ req[q].op = "add"
  BY <1>2 DEF CommitAdd, Writes
<1>3. ASSUME NEW q \in Requests, CommitDelete(q) PROVE FALSE
  BY <1>3 DEF CommitDelete, Inv, TypeOK
<1>4. ASSUME NEW q \in Requests, CommitTransfer(q) PROVE FALSE
  <2>1. /\ role[req[q].caller] # None /\ role[req[q].target] # None
        /\ role' = [role EXCEPT ![req[q].caller] = "admin", ![req[q].target] = "owner"]
    BY <1>4 DEF CommitTransfer, Present
  <2> QED  BY <2>1 DEF Inv, TypeOK
<1>5. ASSUME NEW v \in Users, AdminDeleteUser(v) PROVE FALSE
  BY <1>5 DEF AdminDeleteUser, Inv, TypeOK
<1>6. ASSUME NEW v \in Users, AdminAssignOrg(v) PROVE AdminAssignOrg(u)
  <2>1. u = v
    BY <1>6 DEF AdminAssignOrg, Inv, TypeOK
  <2> QED  BY <1>6, <2>1
<1>7. CASE DeleteOrganization
  BY <1>7 DEF DeleteOrganization
<1>8. ASSUME UNCHANGED role PROVE FALSE
  BY <1>8
<1>9. ASSUME NEW q \in Requests, Handle(q) PROVE UNCHANGED role
  BY <1>9 DEF Handle, ReadTarget, Fails
<1>10. ASSUME NEW q \in Requests, NEW c \in Users, NEW t \in Users,
              (\E new \in Roles : UpdateMemberRole(q, c, t, new) \/ AddMemberByEmail(q, c, t, new))
                \/ RemoveMember(q, c, t) \/ TransferOwnership(q, c, t) \/ LeaveOrganization(q, c)
       PROVE  UNCHANGED role
  BY <1>10 DEF UpdateMemberRole, AddMemberByEmail, RemoveMember, TransferOwnership,
     LeaveOrganization, Begin
<1>11. CASE UNCHANGED vars
  BY <1>8, <1>11 DEF vars
<1> QED
  BY <1>1, <1>2, <1>3, <1>4, <1>5, <1>6, <1>7, <1>8, <1>9, <1>10, <1>11 DEF Next, Commit

\* organizations.py 586-813: a member who was removed while a role change or a
\* transfer was under way is not brought back by its write.
THEOREM ComesBack == Spec => ComesBackByInvitation
<1>1. Inv /\ [Next]_vars =>
        [\A u \in Users : role[u] = None /\ role'[u] # None =>
           AdminAssignOrg(u) \/ \E q \in Requests : req[q] # Idle /\ req[q].op = "add"]_vars
  BY StepComesBack
<1> QED  BY <1>1, Invariant, PTL DEF Spec, ComesBackByInvitation

-----------------------------------------------------------------------------
\* Login codes and workspaces of one address.

HIDE OrganizationsAssumption

\* What a request for a code and a login are, by how far they got.
CodeRequests == {Unsent} \cup [at : {"commit"}, saw : SUBSET Codes]
            \cup [at : {"cache", "mail", "sent", "failed"}]
Finding == [at : {"fallback"}, code : Codes]
Erasing == [at : {"delete", "uncache"}, code : Codes, erased : BOOLEAN]
LoginStates == [at : {"idle", "user", "provision"}] \cup Finding \cup Erasing

AccountTypes ==
    /\ rows \subseteq Codes /\ cached \in Codes \cup {NoCode} /\ expired \subseteq Codes
    /\ send \in [Codes -> CodeRequests] /\ login \in [Logins -> LoginStates]
    /\ user \in {"none", "signedUp", "verified"} /\ workspaces \in Nat
    /\ clean \subseteq Codes /\ dead \subseteq Codes /\ crossed \in BOOLEAN

\* A code is asked for after all before it.
InTurn == \A c, d \in Codes : d < c /\ send[c] # Unsent => send[d] # Unsent

\* Only a code that was mailed can be typed; one whose row was erased has none.
TypedWasSent ==
    \A l \in Logins :
        /\ login[l].at \in {"fallback", "delete", "uncache"} => send[login[l].code].at = "sent"
        /\ login[l].at = "uncache" /\ login[l].erased => login[l].code \notin rows

DeadWasSent == \A c \in dead : send[c].at = "sent"

\* An undisturbed request that is the last one is alone, and what its DELETE saw is
\* all there is; once committed its row is the only one, or a login has found it.
NewestCode ==
    \A c \in clean :
        /\ send[c] # Unsent
        /\ (\A d \in Codes : d > c => send[d] = Unsent) =>
             /\ \A d \in Codes : Sending(d) => d = c
             /\ send[c].at = "commit" => rows \subseteq send[c].saw
             /\ send[c].at \in {"cache", "mail", "sent"} =>
                  rows = {c} \/ \E l \in Logins : Holds(l) /\ login[l].code = c

CodesInv == AccountTypes /\ InTurn /\ TypedWasSent /\ DeadWasSent /\ NewestCode /\ UsedCodeIsDead

\* Whoever makes the first workspace is alone.
OneProvisioning ==
    \/ crossed
    \/ /\ workspaces <= 1
       /\ \A k, l \in Logins : Provisioning(k) /\ Provisioning(l) => k = l
       /\ (\E l \in Logins : Provisioning(l)) => workspaces = 0

LEMMA InitAccounts == AccountInit => CodesInv /\ OneProvisioning
<1> SUFFICES ASSUME AccountInit PROVE CodesInv /\ OneProvisioning
  OBVIOUS
<1>1. NoLogin \in LoginStates /\ Unsent \in CodeRequests /\ NoLogin.at = "idle"
  BY DEF NoLogin, LoginStates, CodeRequests
<1>2. AccountTypes
  BY <1>1 DEF AccountInit, AccountTypes
<1>3. \A l \in Logins : login[l].at = "idle"
  BY <1>1 DEF AccountInit
<1>4. InTurn /\ TypedWasSent /\ DeadWasSent /\ NewestCode /\ UsedCodeIsDead
  BY <1>3 DEF AccountInit, InTurn, TypedWasSent, DeadWasSent, NewestCode, UsedCodeIsDead
<1> QED  BY <1>2, <1>3, <1>4 DEF AccountInit, CodesInv, OneProvisioning, Provisioning

\* Steps of requests.
LEMMA SendTypes ==
    ASSUME AccountTypes, NEW c \in Codes, NEW s \in CodeRequests, send' = [send EXCEPT ![c] = s]
    PROVE  send' \in [Codes -> CodeRequests] /\ send'[c] = s /\ \A d \in Codes \ {c} : send'[d] = send[d]
BY DEF AccountTypes

LEMMA RequestCodes ==
    ASSUME CodesInv, NEW c \in Codes, RequestOtp(c)
    PROVE  CodesInv'
<1> DEFINE s == [at |-> "commit", saw |-> rows]
<1>0. s \in CodeRequests /\ s # Unsent /\ s.at = "commit" /\ s.saw = rows
  BY DEF CodesInv, AccountTypes, CodeRequests, Unsent
<1>1. /\ send'[c] = s /\ send' \in [Codes -> CodeRequests] /\ send[c] = Unsent
      /\ \A d \in Codes \ {c} : send'[d] = send[d]
  BY <1>0, SendTypes DEF RequestOtp, CodesInv
<1>2. AccountTypes'
  BY <1>1 DEF RequestOtp, CodesInv, AccountTypes
<1>3. InTurn'
  BY <1>0, <1>1 DEF CodesInv, InTurn, RequestOtp, Codes
<1>4. TypedWasSent' /\ DeadWasSent' /\ UsedCodeIsDead'
  BY <1>1 DEF CodesInv, AccountTypes, RequestOtp, TypedWasSent, DeadWasSent, UsedCodeIsDead, Unsent, LoginStates, Finding, Erasing
<1>5. NewestCode'
  <2> SUFFICES ASSUME NEW d \in clean', \A e \in Codes : e > d => send'[e] = Unsent
               PROVE  d = c /\ clean' = clean \cup {c}
    BY <1>0, <1>1 DEF NewestCode, CodesInv, RequestOtp, Sending, AccountTypes
  <2>1. clean' = clean \cup {c}
    BY DEF RequestOtp
  <2>2. d \in clean => d < c
    BY <1>1 DEF CodesInv, NewestCode, InTurn, AccountTypes, Codes
  <2> QED  BY <1>0, <1>1, <2>1, <2>2
<1> QED  BY <1>2, <1>3, <1>4, <1>5 DEF CodesInv

\* A request goes on: it writes no code but its own, and no other is under way.
LEMMA AdvanceCodes ==
    ASSUME CodesInv, NEW c \in Codes, NEW x \in {"cache", "mail", "sent", "failed"}, Sending(c),
           send' = [send EXCEPT ![c] = [at |-> x]],
           UNCHANGED <<expired, login, user, workspaces, dead, crossed>>,
           rows' \subseteq rows \cup {c}, cached' \in {cached, c}, clean' \subseteq clean,
           c \in clean' /\ x # "failed" /\ (\A d \in Codes : d > c => send[d] = Unsent) =>
             rows' = {c} \/ \E l \in Logins : Holds(l) /\ login[l].code = c
    PROVE  CodesInv'
<1>1. /\ send' \in [Codes -> CodeRequests] /\ send'[c] = [at |-> x] /\ send'[c].at = x /\ send'[c] # Unsent
      /\ \A d \in Codes \ {c} : send'[d] = send[d]
      /\ send[c] # Unsent /\ send[c].at # "sent"
  <2>1. [at |-> x] \in CodeRequests /\ [at |-> x].at = x /\ Unsent.at = "unsent"
    BY DEF CodeRequests, Unsent
  <2>2. send[c] # Unsent /\ send[c].at # "sent" /\ [at |-> x] # Unsent
    BY <2>1 DEF Sending
  <2> QED  BY <2>1, <2>2, SendTypes DEF CodesInv
<1>2. AccountTypes'
  BY <1>1 DEF CodesInv, AccountTypes
<1>3. InTurn'
  BY <1>1 DEF CodesInv, InTurn
<1>4. TypedWasSent'
  <2> SUFFICES ASSUME NEW l \in Logins
               PROVE  /\ login[l].at \in {"fallback", "delete", "uncache"} => send'[login[l].code].at = "sent"
                      /\ login[l].at = "uncache" /\ login[l].erased => login[l].code \notin rows'
    BY DEF TypedWasSent
  <2>1. login[l].at \in {"fallback", "delete", "uncache"} =>
          login[l].code \in Codes \ {c} /\ send[login[l].code].at = "sent"
    BY <1>1 DEF CodesInv, TypedWasSent, AccountTypes, LoginStates, Finding, Erasing
  <2> QED  BY <1>1, <2>1 DEF CodesInv, TypedWasSent
<1>5. DeadWasSent' /\ UsedCodeIsDead'
  BY <1>1 DEF CodesInv, AccountTypes, DeadWasSent, UsedCodeIsDead
<1>6. NewestCode'
  <2> SUFFICES ASSUME NEW d \in clean'
               PROVE  /\ send'[d] # Unsent
                      /\ (\A e \in Codes : e > d => send'[e] = Unsent) =>
                           /\ \A e \in Codes : Sending(e)' => e = d
                           /\ send'[d].at = "commit" => rows' \subseteq send'[d].saw
                           /\ send'[d].at \in {"cache", "mail", "sent"} =>
                                rows' = {d} \/ \E l \in Logins : Holds(l) /\ login[l].code = d
    BY DEF NewestCode, Holds
  <2>0. d \in clean /\ d \in Codes /\ send[d] # Unsent
    BY DEF CodesInv, NewestCode, AccountTypes
  <2>1. send'[d] # Unsent
    BY <1>1, <2>0
  <2>2. ASSUME \A e \in Codes : e > d => send'[e] = Unsent
        PROVE  d = c /\ \A e \in Codes : (e > c => send[e] = Unsent) /\ (Sending(e) => e = c)
    BY <1>1, <2>0, <2>2 DEF CodesInv, NewestCode
  <2>3. \A e \in Codes : Sending(e)' => Sending(e)
    BY <1>1 DEF Sending
  <2> QED  BY <1>1, <2>1, <2>2, <2>3
<1> QED  BY <1>2, <1>3, <1>4, <1>5, <1>6 DEF CodesInv

LEMMA SendCodes ==
    ASSUME CodesInv, NEW c \in Codes, NEW ok \in BOOLEAN,
           CommitCode(c, ok) \/ CacheCode(c, ok) \/ SendOtpEmail(c, ok)
    PROVE  CodesInv'
<1>1. CASE CommitCode(c, ok)
  <2>1. Sending(c) /\ rows' \subseteq rows \cup {c} /\ clean' \subseteq clean
    BY <1>1 DEF CommitCode, Sending
  <2>2. c \in clean' /\ (\A d \in Codes : d > c => send[d] = Unsent) => rows' = {c}
    BY <1>1 DEF CommitCode, CodesInv, NewestCode
  <2> QED  BY <1>1, <2>1, <2>2, AdvanceCodes DEF CommitCode
<1>2. CASE CacheCode(c, ok)
  <2>1. Sending(c) /\ cached' \in {cached, c}
    BY <1>2 DEF CacheCode, Sending
  <2>2. c \in clean /\ (\A d \in Codes : d > c => send[d] = Unsent) =>
          rows = {c} \/ \E l \in Logins : Holds(l) /\ login[l].code = c
    BY <1>2 DEF CacheCode, CodesInv, NewestCode
  <2> QED  BY <1>2, <2>1, <2>2, AdvanceCodes DEF CacheCode
<1>3. CASE SendOtpEmail(c, ok)
  <2>1. Sending(c)
    BY <1>3 DEF SendOtpEmail, Sending
  <2>2. c \in clean /\ (\A d \in Codes : d > c => send[d] = Unsent) =>
          rows = {c} \/ \E l \in Logins : Holds(l) /\ login[l].code = c
    BY <1>3 DEF SendOtpEmail, CodesInv, NewestCode
  <2> QED  BY <1>3, <2>1, <2>2, AdvanceCodes DEF SendOtpEmail
<1> QED  BY <1>1, <1>2, <1>3

\* Time passes: a code is erased from Redis at most.
LEMMA TimeCodes ==
    ASSUME CodesInv, UNCHANGED <<rows, send, login, clean, dead, workspaces, crossed>>, cached' \in {cached, NoCode},
           expired' \subseteq Codes, user' \in {"none", "signedUp", "verified"}
    PROVE  CodesInv'
<1>1. AccountTypes' /\ InTurn' /\ TypedWasSent' /\ DeadWasSent' /\ UsedCodeIsDead'
  BY DEF CodesInv, AccountTypes, InTurn, TypedWasSent, DeadWasSent, UsedCodeIsDead, Codes, NoCode
<1>2. NewestCode'
  BY DEF CodesInv, NewestCode, Sending, Holds
<1> QED  BY <1>1, <1>2 DEF CodesInv

\* A login that holds no code moves on: it finds only a code that was sent.
LEMMA LoginCodes ==
    ASSUME CodesInv, NEW l \in Logins, NEW s \in LoginStates, login' = [login EXCEPT ![l] = s], ~Holds(l),
           UNCHANGED otp, user' \in {"none", "signedUp", "verified"}, workspaces' \in Nat, crossed' \in BOOLEAN,
           s.at # "uncache", s.at \in {"fallback", "delete"} => send[s.code].at = "sent"
    PROVE  CodesInv'
<1>1. login' \in [Logins -> LoginStates] /\ login'[l] = s /\ \A k \in Logins \ {l} : login'[k] = login[k]
  BY DEF CodesInv, AccountTypes
<1>2. AccountTypes' /\ InTurn' /\ DeadWasSent' /\ UsedCodeIsDead'
  BY <1>1 DEF CodesInv, AccountTypes, InTurn, DeadWasSent, UsedCodeIsDead, otp
<1>3. TypedWasSent'
  BY <1>1 DEF CodesInv, TypedWasSent, otp
<1>4. \A k \in Logins : Holds(k) => Holds(k)' /\ login'[k] = login[k]
  BY <1>1 DEF Holds
<1>5. NewestCode'
  <2>1. UNCHANGED <<rows, send, clean>>
    BY DEF otp
  <2> QED  BY <1>4, <2>1 DEF CodesInv, NewestCode, Sending
<1> QED  BY <1>2, <1>3, <1>5 DEF CodesInv

\* A login that found its code erases all there are; one sent meanwhile is disturbed.
LEMMA EraseCodes ==
    ASSUME CodesInv, NEW l \in Logins, NEW ok \in BOOLEAN, DeleteRow(l, ok) \/ DeleteKey(l, ok)
    PROVE  CodesInv'
<1> DEFINE c == login[l].code
<1>1. login[l] \in Erasing /\ c \in Codes /\ send[c].at = "sent"
  BY DEF DeleteRow, DeleteKey, CodesInv, AccountTypes, LoginStates, Finding, Erasing, TypedWasSent
<1>2. PICK s \in LoginStates : /\ login' = [login EXCEPT ![l] = s]
                               /\ DeleteRow(l, ok) => s = [at |-> "uncache", code |-> c, erased |-> ok]
                               /\ DeleteKey(l, ok) => s = [at |-> "user"]
  <2>1. [at |-> "uncache", code |-> c, erased |-> ok] \in LoginStates /\ [at |-> "user"] \in LoginStates
    BY <1>1 DEF LoginStates, Erasing
  <2> QED  BY <2>1 DEF DeleteRow, DeleteKey, At
<1>3. login' \in [Logins -> LoginStates] /\ login'[l] = s /\ \A k \in Logins \ {l} : login'[k] = login[k]
  BY <1>2 DEF CodesInv, AccountTypes
<1>4. AccountTypes' /\ InTurn'
  BY <1>1, <1>3 DEF CodesInv, AccountTypes, InTurn, DeleteRow, DeleteKey, NoCode
<1>5. send' = send /\ rows' \subseteq rows /\ cached' \in {cached, NoCode} /\ clean' \subseteq clean
  BY DEF DeleteRow, DeleteKey
<1>6. TypedWasSent'
  <2>1. s.at = "uncache" => s.code = c /\ (s.erased => rows' = {})
    BY <1>2 DEF DeleteRow, DeleteKey
  <2>2. s.at \notin {"fallback", "delete"}
    BY <1>2
  <2> QED  BY <1>1, <1>3, <1>5, <2>1, <2>2 DEF CodesInv, TypedWasSent
<1>7. DeadWasSent' /\ UsedCodeIsDead'
  <2>1. CASE dead' = dead
    BY <1>5, <2>1 DEF CodesInv, DeadWasSent, UsedCodeIsDead, AccountTypes, NoCode, Codes
  <2>2. CASE dead' # dead
    <3>1. cached' = NoCode /\ dead' = dead \cup {c} /\ c \notin rows
      BY <2>2 DEF DeleteRow, DeleteKey, CodesInv, TypedWasSent
    <3> QED  BY <1>1, <1>5, <3>1 DEF CodesInv, DeadWasSent, UsedCodeIsDead, AccountTypes, NoCode, Codes
  <2> QED  BY <2>1, <2>2
<1>8. NewestCode'
  <2>1. CASE DeleteRow(l, ok)
    <3>1. clean' \subseteq {c} /\ Holds(l)' /\ login'[l].code = c
      BY <1>2, <1>3, <2>1 DEF DeleteRow, Holds
    <3> QED  BY <1>1, <1>5, <3>1 DEF CodesInv, NewestCode, Sending
  <2>2. CASE DeleteKey(l, ok)
    <3>1. c \notin clean' /\ rows' = rows /\ \A k \in Logins \ {l} : Holds(k) => Holds(k)'
      BY <1>3, <2>2 DEF DeleteKey, Holds
    <3> QED  BY <1>3, <1>5, <3>1 DEF CodesInv, NewestCode, Sending
  <2> QED  BY <2>1, <2>2
<1> QED  BY <1>4, <1>6, <1>7, <1>8 DEF CodesInv

LEMMA StepCodes == CodesInv /\ [AccountNext]_accountVars => CodesInv'
<1> SUFFICES ASSUME CodesInv, [AccountNext]_accountVars PROVE CodesInv'
  OBVIOUS
<1>0. /\ [at |-> "idle"] \in LoginStates /\ [at |-> "user"] \in LoginStates /\ [at |-> "provision"] \in LoginStates
      /\ \A c \in Codes : [at |-> "fallback", code |-> c] \in LoginStates
      /\ \A c \in Codes : [at |-> "delete", code |-> c, erased |-> TRUE] \in LoginStates
      /\ NoLogin = [at |-> "idle"]
  BY DEF LoginStates, Finding, Erasing, NoLogin
<1>1. ASSUME NEW c \in Codes, RequestOtp(c) PROVE CodesInv'
  BY <1>1, RequestCodes
<1>2. ASSUME NEW c \in Codes, CodeExpires(c) PROVE CodesInv'
  BY <1>2, TimeCodes DEF CodeExpires, CodesInv, AccountTypes
<1>3. CASE KeyExpires
  BY <1>3, TimeCodes DEF KeyExpires, CodesInv, AccountTypes
<1>4. CASE Signup
  BY <1>4, TimeCodes DEF Signup, otp, CodesInv, AccountTypes
<1>5. ASSUME NEW l \in Logins, NEW c \in Codes, LookUp(l, c) PROVE CodesInv'
  <2>1. ~Holds(l) /\ send[c].at = "sent" /\ UNCHANGED <<otp, user, workspaces, crossed>>
    BY <1>0, <1>5 DEF LookUp, Holds
  <2>2. PICK s \in LoginStates :
          /\ login' = [login EXCEPT ![l] = s]
          /\ s \in {NoLogin, [at |-> "fallback", code |-> c], [at |-> "delete", code |-> c, erased |-> TRUE]}
    BY <1>0, <1>5 DEF LookUp, Compare, At
  <2>3. s.at # "uncache" /\ (s.at \in {"fallback", "delete"} => send[s.code].at = "sent")
    BY <1>0, <2>1, <2>2
  <2> QED  BY <2>1, <2>2, <2>3, LoginCodes DEF CodesInv, AccountTypes
<1>6. ASSUME NEW l \in Logins, LookUpRedis(l) PROVE CodesInv'
  <2> DEFINE c == login[l].code
  <2>1. ~Holds(l) /\ c \in Codes /\ send[c].at = "sent" /\ UNCHANGED <<otp, user, workspaces, crossed>>
    BY <1>6 DEF LookUpRedis, Holds, CodesInv, AccountTypes, LoginStates, Finding, Erasing, TypedWasSent
  <2>2. PICK s \in LoginStates : /\ login' = [login EXCEPT ![l] = s]
                                 /\ s \in {NoLogin, [at |-> "delete", code |-> c, erased |-> TRUE]}
    BY <1>0, <1>6, <2>1 DEF LookUpRedis, Compare, At
  <2>3. s.at # "uncache" /\ (s.at \in {"fallback", "delete"} => send[s.code].at = "sent")
    BY <1>0, <2>1, <2>2
  <2> QED  BY <2>1, <2>2, <2>3, LoginCodes DEF CodesInv, AccountTypes
<1>7. ASSUME NEW l \in Logins, NEW ok \in BOOLEAN,
             FindOrCreateUser(l) \/ VerifyEmail(l) \/ Login(l) \/ AutoProvisionWorkspace(l, ok)
      PROVE  CodesInv'
  <2>1. PICK s \in {NoLogin, [at |-> "provision"]} : login' = [login EXCEPT ![l] = s]
    BY <1>7 DEF FindOrCreateUser, VerifyEmail, Login, AutoProvisionWorkspace, ToProvision, At
  <2>2. UNCHANGED otp /\ user' \in {"none", "signedUp", "verified"} /\ workspaces' \in Nat
    BY <1>7 DEF FindOrCreateUser, VerifyEmail, Login, AutoProvisionWorkspace, CodesInv, AccountTypes
  <2>4. crossed' \in BOOLEAN
    <3>1. crossed \in BOOLEAN
      BY DEF CodesInv, AccountTypes
    <3> QED
      BY <1>7, <3>1, Zenon DEF FindOrCreateUser, VerifyEmail, Login, AutoProvisionWorkspace, ToProvision, Crosses
  <2>5. ~Holds(l)
    BY <1>0, <1>7 DEF FindOrCreateUser, VerifyEmail, Login, AutoProvisionWorkspace, Holds, Provisioning
  <2>3. s \in LoginStates /\ s.at \in {"idle", "provision"}
    BY <1>0
  <2> QED  BY <2>1, <2>2, <2>3, <2>4, <2>5, LoginCodes
<1>8. CASE UNCHANGED accountVars
  BY <1>8, TimeCodes DEF accountVars, CodesInv, AccountTypes
<1> QED  BY <1>1, <1>2, <1>3, <1>4, <1>5, <1>6, <1>7, <1>8, SendCodes, EraseCodes DEF AccountNext

\* Ten minutes, overlapping requests, failing stores and logins: of all codes sent
\* the last one is found, and a used one is in neither store (auth.py, request_otp
\* and login_otp).
THEOREM LastCode == AccountSpec => []OnlyLastCodeWorks
<1>1. CodesInv => OnlyLastCodeWorks
  BY DEF CodesInv, NewestCode, OnlyLastCodeWorks, LastCodeWorks
<1> QED  BY <1>1, InitAccounts, StepCodes, PTL DEF AccountSpec


\* A workspace is provisioned by one request at a time, and then there is none.
LEMMA StepProvisioning == AccountTypes /\ OneProvisioning /\ [AccountNext]_accountVars => OneProvisioning'
<1> SUFFICES ASSUME AccountTypes, OneProvisioning, [AccountNext]_accountVars PROVE OneProvisioning'
  OBVIOUS
<1>1. CASE UNCHANGED <<login, workspaces, crossed>>
  BY <1>1 DEF OneProvisioning, Provisioning
<1>2. ASSUME NEW l \in Logins, NEW s, At(l, s), s.at # "provision", UNCHANGED <<workspaces, crossed>>
      PROVE  OneProvisioning'
  <2>1. \A k \in Logins : Provisioning(k)' => Provisioning(k)
    BY <1>2 DEF At, Provisioning, AccountTypes
  <2> QED  BY <1>2, <2>1 DEF OneProvisioning
<1>3. ASSUME NEW l \in Logins, At(l, [at |-> "provision"]), UNCHANGED workspaces,
             crossed => crossed', crossed' \/ (workspaces = 0 /\ \A k \in Logins : ~Provisioning(k))
      PROVE  OneProvisioning'
  <2>1. \A k \in Logins : Provisioning(k)' => Provisioning(k) \/ k = l
    BY <1>3 DEF At, Provisioning, AccountTypes
  <2> QED  BY <1>3, <2>1 DEF OneProvisioning
<1>4. ASSUME NEW l \in Logins, ToProvision(l), UNCHANGED workspaces PROVE OneProvisioning'
  <2>1. (crossed => crossed') /\ (crossed' \/ (~(workspaces > 0) /\ \A k \in Logins : ~Provisioning(k)))
    BY <1>4 DEF ToProvision, Crosses
  <2>2. ~(workspaces > 0) => workspaces = 0
    BY DEF AccountTypes
  <2> QED  BY <1>3, <1>4, <2>1, <2>2 DEF ToProvision
<1>5. ASSUME NEW l \in Logins, Login(l) PROVE OneProvisioning'
  <2>1. (crossed => crossed') /\ (crossed' \/ \A k \in Logins : ~Provisioning(k))
    BY <1>5 DEF Login
  <2> QED  BY <1>3, <1>5, <2>1 DEF Login
<1>6. ASSUME NEW l \in Logins, NEW ok \in BOOLEAN, AutoProvisionWorkspace(l, ok) PROVE OneProvisioning'
  <2>1. \A k \in Logins : Provisioning(k)' => Provisioning(k) /\ k # l
    BY <1>6 DEF AutoProvisionWorkspace, At, Provisioning, AccountTypes, NoLogin
  <2>2. Provisioning(l) /\ crossed' = crossed /\ workspaces' \in {workspaces, workspaces + 1}
    BY <1>6 DEF AutoProvisionWorkspace
  <2> QED  BY <2>1, <2>2 DEF OneProvisioning
<1>7. ASSUME NEW l \in Logins, FindOrCreateUser(l) \/ VerifyEmail(l) PROVE OneProvisioning'
  <2>1. CASE ToProvision(l)
    BY <1>4, <1>7, <2>1 DEF FindOrCreateUser, VerifyEmail
  <2>2. CASE At(l, NoLogin) /\ crossed' = crossed
    BY <1>2, <1>7, <2>2 DEF FindOrCreateUser, VerifyEmail, NoLogin
  <2> QED  BY <1>7, <2>1, <2>2 DEF FindOrCreateUser, VerifyEmail
<1>8. ASSUME NEW l \in Logins, NEW c, LookUp(l, c) \/ LookUpRedis(l) PROVE OneProvisioning'
  <2>1. \E s : At(l, s) /\ s.at # "provision"
    BY <1>8 DEF LookUp, LookUpRedis, Compare, NoLogin
  <2> QED  BY <1>2, <1>8, <2>1 DEF LookUp, LookUpRedis
<1>9. ASSUME NEW l \in Logins, NEW ok, DeleteRow(l, ok) \/ DeleteKey(l, ok) PROVE OneProvisioning'
  BY <1>2, <1>9 DEF DeleteRow, DeleteKey
<1>10. CASE UNCHANGED accountVars
  BY <1>1, <1>10 DEF accountVars
<1>11. ASSUME NEW c, NEW ok, \/ RequestOtp(c) \/ CommitCode(c, ok) \/ CacheCode(c, ok) \/ SendOtpEmail(c, ok)
                            \/ CodeExpires(c) \/ KeyExpires \/ Signup
       PROVE  OneProvisioning'
  BY <1>1, <1>11 DEF RequestOtp, CommitCode, CacheCode, SendOtpEmail, CodeExpires, KeyExpires, Signup
<1> QED  BY <1>5, <1>6, <1>7, <1>8, <1>9, <1>10, <1>11 DEF AccountNext

\* Signing in and verifying the address make one workspace at most, unless two of
\* them overlap or the address is verified after a login (auth.py,
\* auto_provision_workspace and its callers).
THEOREM WorkspaceIsOne == AccountSpec => []OneWorkspace
<1>1. OneProvisioning => OneWorkspace
  BY DEF OneProvisioning, OneWorkspace
<1>2. CodesInv => AccountTypes
  BY DEF CodesInv
<1> QED  BY <1>1, <1>2, InitAccounts, StepCodes, StepProvisioning, PTL DEF AccountSpec
=============================================================================
