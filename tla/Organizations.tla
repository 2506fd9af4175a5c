----------------------------- MODULE Organizations -----------------------------
(***************************************************************************)
(* The members of one organization and who owns it: the rows of            *)
(* org_members and the owner_id of the organization, changed by handlers   *)
(* that read the caller's row, then the target's, then write and commit.   *)
(* Nothing is locked between the statements.                               *)
(***************************************************************************)
EXTENDS Naturals

CONSTANTS
    Users,
    Founder,   \* the user who creates the organization
    SiteAdmin, \* the administrator of the site, a member of no organization
    None,
    Requests   \* HTTP requests in flight at a time

ASSUME OrganizationsAssumption ==
    /\ Founder \in Users /\ SiteAdmin \notin Users
    /\ None \notin Users \cup {SiteAdmin} \cup {"owner", "admin", "member"}

VARIABLES
    owner,   \* owner_id, None once the organization is deleted
    role,    \* role of each user in org_members, None without a row
    account, \* users that exist
    req,     \* what each request has read
    excused  \* ghost: a transfer overlapped another handler, the site administrator
             \* deleted the owner's account, or made an organization that has no owner's row

vars == <<owner, role, account, req, excused>>

Idle == [at |-> "idle"]
Roles == {"admin", "member"}  \* manager, moderator and viewer count as member

\* create_organization and auto_provision_workspace: the creator is the owner.
\* admin_create_org sets owner_id and writes no member's row.
Init ==
    /\ owner = Founder
    /\ \E made \in {"owner", None} :
         /\ role = [u \in Users |-> IF u = Founder THEN made ELSE None]
         /\ excused = (made = None)
    /\ account = Users /\ req = [q \in Requests |-> Idle]

Busy(q) == req[q] # Idle
Overlaps(q, op) ==
    \E p \in Requests \ {q} : Busy(p) /\ (op = "transfer" \/ req[p].op = "transfer")

\* First statement: the caller's row.
Begin(q, op, c, t, new) ==
    /\ ~Busy(q) /\ c \in account /\ t \in account
    /\ req' = [req EXCEPT ![q] =
         [at |-> "target", op |-> op, caller |-> c, target |-> t, new |-> new, as |-> role[c]]]
    /\ excused' = (excused \/ Overlaps(q, op))
    /\ UNCHANGED <<owner, role, account>>

MayGrant(c, new) == role[c] \in {"owner", "admin"} /\ (new = "admin" => role[c] = "owner")

UpdateMemberRole(q, c, t, new) == MayGrant(c, new) /\ Begin(q, "role", c, t, new)
AddMemberByEmail(q, c, t, new) == MayGrant(c, new) /\ Begin(q, "add", c, t, new)
RemoveMember(q, c, t) == role[c] \in {"owner", "admin"} /\ Begin(q, "remove", c, t, None)
TransferOwnership(q, c, t) == role[c] = "owner" /\ Begin(q, "transfer", c, t, "owner")

LeaveOrganization(q, c) == role[c] \notin {None, "owner"} /\ Begin(q, "leave", c, c, None)

\* Second statement: the target's row, and the decision.
Allowed(r) ==
    LET was == role[r.target] IN
    CASE r.op = "add" -> was = None
      [] r.op = "remove" -> was \notin {None, "owner"} /\ ~(r.as = "admin" /\ was = "admin")
      [] OTHER -> was \notin {None, "owner"} /\ ~(was = "admin" /\ r.new = "admin")  \* nothing to write

ReadTarget(q) ==
    /\ req[q] # Idle /\ req[q].at = "target"
    /\ req' = [req EXCEPT ![q] = IF Allowed(req[q]) THEN [@ EXCEPT !.at = "write"] ELSE Idle]
    /\ UNCHANGED <<owner, role, account, excused>>

Writes(q, op) == req[q] # Idle /\ req[q].at = "write" /\ req[q].op \in op
Done(q) == req' = [req EXCEPT ![q] = Idle] /\ UNCHANGED <<account, excused>>
Present(u) == owner # None /\ role[u] # None

\* Rolled back: the process died, or a row to write was no longer there.
Fails(q) == Busy(q) /\ Done(q) /\ UNCHANGED <<owner, role>>

\* Mutant: the row is written whether it is there or not.
CommitRoleUpsert(q) ==
    /\ Writes(q, {"role"}) /\ owner # None /\ Done(q)
    /\ role' = [role EXCEPT ![req[q].target] = req[q].new]
    /\ UNCHANGED owner

CommitRole(q) ==
    /\ Writes(q, {"role"}) /\ Present(req[q].target) /\ Done(q)
    /\ role' = [role EXCEPT ![req[q].target] = req[q].new]
    /\ UNCHANGED owner

\* The primary key refuses a second row.
CommitAdd(q) ==
    /\ Writes(q, {"add"}) /\ owner # None /\ Done(q)
    /\ role[req[q].target] = None /\ req[q].target \in account
    /\ role' = [role EXCEPT ![req[q].target] = req[q].new]
    /\ UNCHANGED owner

\* Deleting a row that is gone already is no error.
CommitDelete(q) ==
    /\ Writes(q, {"remove", "leave"}) /\ Done(q)
    /\ role' = [role EXCEPT ![req[q].target] = None]
    /\ UNCHANGED owner

\* Mutant: the old owner keeps the role.
CommitTransferKeeps(q) ==
    LET r == req[q] IN
    /\ Writes(q, {"transfer"}) /\ Present(r.caller) /\ Present(r.target) /\ Done(q)
    /\ role' = [role EXCEPT ![r.target] = "owner"]
    /\ owner' = r.target

CommitTransfer(q) ==
    LET r == req[q] IN
    /\ Writes(q, {"transfer"}) /\ Present(r.caller) /\ Present(r.target) /\ Done(q)
    /\ role' = [role EXCEPT ![r.caller] = "admin", ![r.target] = "owner"]
    /\ owner' = r.target

\* By its owner or the site administrator; the rows of its members go with it.
DeleteOrganization ==
    /\ owner # None /\ owner' = None /\ role' = [u \in Users |-> None]
    /\ UNCHANGED <<account, req, excused>>

\* The site administrator's tools.  An owner's organization passes to the
\* administrator, who is no member of it.
AdminDeleteUser(u) ==
    /\ u \in account /\ account' = account \ {u}
    /\ role' = [role EXCEPT ![u] = None]
    /\ owner' = IF owner = u THEN SiteAdmin ELSE owner
    /\ excused' = (excused \/ role[u] = "owner" \/ \E q \in Requests : Busy(q) /\ req[q].op = "transfer")
    /\ UNCHANGED req

AdminAssignOrg(u) ==
    /\ owner # None /\ u \in account /\ role[u] = None
    /\ role' = [role EXCEPT ![u] = "member"]
    /\ UNCHANGED <<owner, account, req, excused>>

Handle(q) == ReadTarget(q) \/ Fails(q)
Commit(q) == CommitRole(q) \/ CommitAdd(q) \/ CommitDelete(q) \/ CommitTransfer(q)
Next ==
    \/ \E q \in Requests, c, t \in Users :
         \/ \E new \in Roles : UpdateMemberRole(q, c, t, new) \/ AddMemberByEmail(q, c, t, new)
         \/ RemoveMember(q, c, t) \/ TransferOwnership(q, c, t) \/ LeaveOrganization(q, c)
    \/ \E q \in Requests : Handle(q) \/ Commit(q)
    \/ DeleteOrganization
    \/ \E u \in Users : AdminDeleteUser(u) \/ AdminAssignOrg(u)

Spec == Init /\ [][Next]_vars

-----------------------------------------------------------------------------
\* As long as no transfer overlaps another handler and the owner's account is
\* not deleted, an organization that a user created has exactly one member with
\* the role of an owner, the one its owner_id names.
OneOwner == excused \/ owner = None \/ {u \in Users : role[u] = "owner"} = {owner}

\* Only being added makes somebody a member: a role change or a transfer that
\* finds its target removed in the meantime does not bring the member back.
ComesBackByInvitation ==
    [][\A u \in Users : role[u] = None /\ role'[u] # None =>
         AdminAssignOrg(u) \/ \E q \in Requests : req[q] # Idle /\ req[q].op = "add"]_vars
=============================================================================
