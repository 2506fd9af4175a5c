-------------------------------- MODULE Accounts --------------------------------
(***************************************************************************)
(* How one e-mail address gets into the system: login codes, kept in a     *)
(* table and in Redis, and the account with the workspace made for it.     *)
(* Requests of one person overlap (a second click, a second device); every *)
(* await between two statements lets another request in.                   *)
(*                                                                         *)
(* Codes are numbered in the order they are asked for; that two are the    *)
(* same by chance is left out.                                             *)
(***************************************************************************)
EXTENDS Naturals, FiniteSets

CONSTANTS MaxCodes, Logins

ASSUME AccountsAssumption == MaxCodes \in Nat /\ IsFiniteSet(Logins)

Codes == 1..MaxCodes
NoCode == 0

VARIABLES
    rows,       \* codes in the table otp_codes for the address
    cached,     \* value of the key otp:<email> in Redis
    expired,    \* codes older than ten minutes
    send,       \* per code: how far request_otp got, and the rows its DELETE saw
    login,      \* per login request: how far it got
    user,       \* "none", "signedUp" with a verification token, or "verified"
    workspaces, \* organizations provisioned for the user
    clean,      \* ghost: codes whose request wrote both stores undisturbed
    dead,       \* ghost: codes a login used and erased from both stores
    crossed     \* ghost: two provisionings overlapped, or the e-mail was verified
                \* after a login had made the workspace

otp == <<rows, cached, expired, send, clean, dead>>
accountVars == <<rows, cached, expired, send, login, user, workspaces, clean, dead, crossed>>

NoLogin == [at |-> "idle"]
Unsent == [at |-> "unsent"]
Sending(c) == send[c].at \notin {"unsent", "sent", "failed"}
Holds(l) == login[l].at \in {"delete", "uncache"}   \* found its code, has not erased it yet

AccountInit ==
    /\ rows = {} /\ cached = NoCode /\ expired = {}
    /\ send = [c \in Codes |-> Unsent] /\ login = [l \in Logins |-> NoLogin]
    /\ user = "none" /\ workspaces = 0
    /\ clean = {} /\ dead = {} /\ crossed = FALSE

-----------------------------------------------------------------------------
(* request_otp *)

\* The DELETE of one transaction does not see the row another is inserting.
RequestOtp(c) ==
    /\ send[c] = Unsent /\ \A d \in 1..(c - 1) : send[d] # Unsent
    /\ send' = [send EXCEPT ![c] = [at |-> "commit", saw |-> rows]]
    /\ clean' = IF \E d \in Codes : Sending(d) THEN {} ELSE clean \cup {c}
    /\ UNCHANGED <<rows, cached, expired, login, user, workspaces, dead, crossed>>

\* Mutant: the old rows stay.
CommitCodeBeside(c, ok) ==
    /\ send[c].at = "commit"
    /\ rows' = IF ok THEN rows \cup {c} ELSE rows
    /\ clean' = IF ok /\ ~\E l \in Logins : Holds(l) THEN clean ELSE clean \ {c}
    /\ send' = [send EXCEPT ![c] = [at |-> "cache"]]
    /\ UNCHANGED <<cached, expired, login, user, workspaces, dead, crossed>>

\* A failure is rolled back and the request goes on with Redis alone.
CommitCode(c, ok) ==
    /\ send[c].at = "commit"
    /\ rows' = IF ok THEN (rows \ send[c].saw) \cup {c} ELSE rows
    /\ clean' = IF ok /\ ~\E l \in Logins : Holds(l) THEN clean ELSE clean \ {c}
    /\ send' = [send EXCEPT ![c] = [at |-> "cache"]]
    /\ UNCHANGED <<cached, expired, login, user, workspaces, dead, crossed>>

CacheCode(c, ok) ==
    /\ send[c].at = "cache"
    /\ cached' = IF ok THEN c ELSE cached
    /\ send' = [send EXCEPT ![c] = [at |-> "mail"]]
    /\ UNCHANGED <<rows, expired, login, user, workspaces, clean, dead, crossed>>

SendOtpEmail(c, ok) ==
    /\ send[c].at = "mail"
    /\ send' = [send EXCEPT ![c] = [at |-> IF ok THEN "sent" ELSE "failed"]]
    /\ UNCHANGED <<rows, cached, expired, login, user, workspaces, clean, dead, crossed>>

\* Ten minutes pass; Redis drops its copy not before the row is expired.
CodeExpires(c) ==
    /\ send[c].at \in {"mail", "sent", "failed"} /\ expired' = expired \cup {c}
    /\ UNCHANGED <<rows, cached, send, login, user, workspaces, clean, dead, crossed>>

KeyExpires ==
    /\ cached \in expired /\ cached' = NoCode
    /\ UNCHANGED <<rows, expired, send, login, user, workspaces, clean, dead, crossed>>

-----------------------------------------------------------------------------
(* login_otp *)

At(l, where) == login' = [login EXCEPT ![l] = where]
Compare(l, stored, typed) ==
    At(l, IF stored = typed THEN [at |-> "delete", code |-> typed, erased |-> TRUE] ELSE NoLogin)

\* Any row of the address may be the one that is fetched; an expired one, none, or
\* an error leads to Redis.
LookUp(l, typed) ==
    /\ login[l] = NoLogin /\ send[typed].at = "sent"
    /\ \/ \E r \in rows \ expired : Compare(l, r, typed)
       \/ At(l, [at |-> "fallback", code |-> typed])
    /\ UNCHANGED <<otp, user, workspaces, crossed>>

LookUpRedis(l) ==
    /\ login[l].at = "fallback" /\ Compare(l, cached, login[l].code)
    /\ UNCHANGED <<otp, user, workspaces, crossed>>

\* Deletes whatever code the address has; failures are ignored.
DeleteRow(l, ok) ==
    /\ login[l].at = "delete" /\ rows' = (IF ok THEN {} ELSE rows)
    /\ At(l, [at |-> "uncache", code |-> login[l].code, erased |-> ok])
    /\ clean' = clean \cap {login[l].code}
    /\ UNCHANGED <<cached, expired, send, user, workspaces, dead, crossed>>

DeleteKey(l, ok) ==
    /\ login[l].at = "uncache" /\ cached' = (IF ok THEN NoCode ELSE cached)
    /\ dead' = IF ok /\ login[l].erased THEN dead \cup {login[l].code} ELSE dead
    /\ clean' = clean \ {login[l].code}
    /\ At(l, [at |-> "user"])
    /\ UNCHANGED <<rows, expired, send, user, workspaces, crossed>>

-----------------------------------------------------------------------------
(* Accounts and workspaces *)

Provisioning(l) == login[l].at = "provision"
Crosses == workspaces > 0 \/ \E l \in Logins : Provisioning(l)
ToProvision(l) ==
    /\ At(l, [at |-> "provision"]) /\ crossed' = (crossed \/ Crosses)

\* The address is unique: of two that create the user, one fails.
FindOrCreateUser(l) ==
    /\ login[l].at = "user"
    /\ IF user = "none" THEN user' = "verified" /\ ToProvision(l)
                        ELSE At(l, NoLogin) /\ UNCHANGED <<user, crossed>>
    /\ UNCHANGED <<otp, workspaces>>

Signup ==
    /\ user = "none" /\ user' = "signedUp"
    /\ UNCHANGED <<otp, login, workspaces, crossed>>

\* The workspace is made without asking whether there is one.
VerifyEmail(l) ==
    /\ login[l] = NoLogin /\ user = "signedUp" /\ user' = "verified"
    /\ ToProvision(l)
    /\ UNCHANGED <<otp, workspaces>>

\* Mutant: without looking for a membership.
LoginBlind(l) ==
    /\ login[l] = NoLogin /\ user # "none"
    /\ At(l, [at |-> "provision"])
    /\ crossed' = (crossed \/ \E k \in Logins : Provisioning(k))
    /\ UNCHANGED <<otp, user, workspaces>>

\* With the password, also before the e-mail is verified.
Login(l) ==
    /\ login[l] = NoLogin /\ user # "none" /\ workspaces = 0
    /\ At(l, [at |-> "provision"])
    /\ crossed' = (crossed \/ \E k \in Logins : Provisioning(k))
    /\ UNCHANGED <<otp, user, workspaces>>

\* A failure is logged and the login succeeds.
AutoProvisionWorkspace(l, ok) ==
    /\ Provisioning(l) /\ workspaces < Cardinality(Logins) + 1 /\ At(l, NoLogin)
    /\ workspaces' = IF ok THEN workspaces + 1 ELSE workspaces
    /\ UNCHANGED <<otp, user, crossed>>

-----------------------------------------------------------------------------
AccountNext ==
    \/ \E c \in Codes :
         \/ RequestOtp(c) \/ CodeExpires(c)
         \/ \E ok \in BOOLEAN : CommitCode(c, ok) \/ CacheCode(c, ok) \/ SendOtpEmail(c, ok)
    \/ KeyExpires \/ Signup
    \/ \E l \in Logins :
         \/ LookUpRedis(l) \/ FindOrCreateUser(l) \/ VerifyEmail(l) \/ Login(l)
         \/ \E c \in Codes : LookUp(l, c)
         \/ \E ok \in BOOLEAN : DeleteRow(l, ok) \/ DeleteKey(l, ok) \/ AutoProvisionWorkspace(l, ok)

AccountSpec == AccountInit /\ [][AccountNext]_accountVars

-----------------------------------------------------------------------------
\* The code somebody was sent last is the one the login finds, as long as its request
\* was alone, reached the database and crossed no login with an older code, which
\* would erase it (login_otp deletes by address, not by code).
LastCodeWorks ==
    \A c \in clean : send[c].at = "sent" /\ (\A d \in Codes : d > c => send[d] = Unsent)
        => rows = {c} \/ \E l \in Logins : Holds(l) /\ login[l].code = c

\* A code that was used and erased is not found again, in either store: nothing
\* still under way writes it once it can be typed.
UsedCodeIsDead == \A c \in dead : c \notin rows /\ cached # c

\* Together: of all codes sent the one that works is the last.
OnlyLastCodeWorks == LastCodeWorks /\ UsedCodeIsDead

\* Logins that do not overlap and a verification before the first login leave one
\* workspace.
OneWorkspace == crossed \/ workspaces <= 1
=============================================================================
