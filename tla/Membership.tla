------------------------------ MODULE Membership ------------------------------
(***************************************************************************)
(* Who belongs to one organisation: the members and their roles            *)
(* (app/api/org.py), the invites (app/api/invites.py) and their redemption *)
(* at signup (app/api/auth.py).                                            *)
(*                                                                         *)
(* Postgres runs at READ COMMITTED, so a request is a process: XRead and   *)
(* XSelect are its SELECTs with the checks made on them, XCommit is its    *)
(* flush and commit, with the constraints Postgres enforces.  Who may call *)
(* is decided by the role claim of an access token, not by the row.        *)
(***************************************************************************)
EXTENDS Naturals

CONSTANTS
    User,        \* ids of rows of users; an id is used for one row only
    Email,       \* e-mail addresses
    Invite,      \* ids of rows of invites, used once each
    Request,     \* HTTP requests that may be in progress at the same time
    RoleRequest, \* those of them that may change roles or remove members
    Founder,     \* the first user of the organisation ...
    FounderEmail,\* ... and the address it signed up with
    None         \* no user, address, invite or operation

ASSUME RoleRequestAssumption == RoleRequest \subseteq Request
ASSUME FounderAssumption == Founder \in User /\ FounderEmail \in Email
ASSUME NoneAssumption ==
    None \notin User \cup Email \cup Invite
                 \cup {"member", "create", "regenerate", "revoke", "redeem"}

VARIABLES
    role,    \* users.role, or that the row does not exist (yet, any more)
    email,   \* users.email
    other,   \* addresses registered in other organisations
    invites, \* the rows of invites
    claims,  \* the users holding an access token whose role claim is admin
    req      \* the requests in progress

vars == <<role, email, other, invites, claims, req>>
-----------------------------------------------------------------------------
Role == {"admin", "member"}

\* "gone" is a deleted row, "none" an id that is not used yet.
Invites == [state: {"none", "pending", "accepted", "gone"},
            email: Email \cup {None}, role: Role \cup {None}, expired: BOOLEAN]
NoInvite == [state |-> "none", email |-> None, role |-> None, expired |-> FALSE]

\* user, to: the member and its new role ("gone": removed); email, role,
\* invite: the invite to write, or the one that was loaded.
Requests == [op: {None, "member", "create", "regenerate", "revoke", "redeem"},
             at: {"idle", "count", "select", "write"},
             user: User \cup {None}, to: Role \cup {"gone", None},
             email: Email \cup {None}, role: Role \cup {None},
             invite: Invite \cup {None}]
Idle == [op |-> None, at |-> "idle", user |-> None, to |-> None,
         email |-> None, role |-> None, invite |-> None]

TypeOK ==
    /\ role \in [User -> Role \cup {"none", "gone"}]
    /\ email \in [User -> Email \cup {None}]
    /\ other \in SUBSET Email
    /\ invites \in [Invite -> Invites]
    /\ claims \in SUBSET User
    /\ req \in [Request -> Requests]

Member(u) == role[u] \in Role
Registered(e) == e \in other \/ \E u \in User : Member(u) /\ email[u] = e
Stored(i) == invites[i].state \in {"pending", "accepted"}
Usable(i) == invites[i].state = "pending" /\ ~invites[i].expired

Init ==
    /\ role = [u \in User |-> IF u = Founder THEN "admin" ELSE "none"]
    /\ email = [u \in User |-> IF u = Founder THEN FounderEmail ELSE None]
    /\ other = {}
    /\ invites = [i \in Invite |-> NoInvite]
    /\ claims = {}
    /\ req = [r \in Request |-> Idle]

Begin(r, request) == req[r] = Idle /\ req' = [req EXCEPT ![r] = request]
Goto(r, a) == req' = [req EXCEPT ![r].at = a]
Finish(r) == req' = [req EXCEPT ![r] = Idle]
At(r, o, a) == req[r].op = o /\ req[r].at = a

\* _require_admin: the caller's token says admin, whatever its row says now.
SomeoneMayManage == claims # {}
-----------------------------------------------------------------------------
\* Login, refresh and signup issue an access token with the row's role; it is
\* good until it expires, also after a demotion or a removal.
IssueToken(u) ==
    /\ role[u] = "admin"
    /\ claims' = claims \cup {u}
    /\ UNCHANGED <<role, email, other, invites, req>>

ExpireToken(u) ==
    /\ u \in claims
    /\ claims' = claims \ {u}
    /\ UNCHANGED <<role, email, other, invites, req>>

\* Which changes count the admins first.  Fault: only a removal does.
FaultNeedsCount(u, to) == role[u] = "admin" /\ to = "gone"
NeedsCount(u, to) == role[u] = "admin"

\* PATCH and DELETE /org/members/{u}.
MemberRead(r, u, to) ==
    /\ r \in RoleRequest
    /\ SomeoneMayManage
    /\ Member(u) /\ role[u] # to
    /\ Begin(r, [Idle EXCEPT !.op = "member", !.user = u, !.to = to,
                    !.at = IF NeedsCount(u, to) THEN "count" ELSE "write"])
    /\ UNCHANGED <<role, email, other, invites, claims>>

\* _ensure_not_last_admin: the count must be more than one.
CountAdmins(r) ==
    /\ At(r, "member", "count")
    /\ IF \E u, v \in User : u # v /\ role[u] = "admin" /\ role[v] = "admin"
       THEN Goto(r, "write") ELSE Finish(r)
    /\ UNCHANGED <<role, email, other, invites, claims>>

\* A row that is gone by now is not updated (StaleDataError), nor deleted.
MemberCommit(r) ==
    LET u == req[r].user
    IN  /\ At(r, "member", "write")
        /\ role' = IF Member(u) THEN [role EXCEPT ![u] = req[r].to] ELSE role
        /\ Finish(r)
        /\ UNCHANGED <<email, other, invites, claims>>
-----------------------------------------------------------------------------
\* POST /invites.
CreateInviteRead(r, e, x) ==
    /\ SomeoneMayManage
    /\ ~Registered(e)
    /\ Begin(r, [Idle EXCEPT !.op = "create", !.at = "select", !.email = e, !.role = x])
    /\ UNCHANGED <<role, email, other, invites, claims>>

CreateInviteSelect(r) ==
    /\ At(r, "create", "select")
    /\ IF \E i \in Invite : Usable(i) /\ invites[i].email = req[r].email
       THEN Finish(r) ELSE Goto(r, "write")
    /\ UNCHANGED <<role, email, other, invites, claims>>

\* The row the request r inserts into invites.  Fault: no expiry is set.
FaultNewInvite(r) == [state |-> "pending", email |-> req[r].email,
                      role |-> req[r].role, expired |-> None]
NewInvite(r) == [state |-> "pending", email |-> req[r].email,
                 role |-> req[r].role, expired |-> FALSE]

CreateInviteCommit(r) ==
    /\ At(r, "create", "write")
    /\ \E i \in Invite : /\ invites[i] = NoInvite
                         /\ invites' = [invites EXCEPT ![i] = NewInvite(r)]
    /\ Finish(r)
    /\ UNCHANGED <<role, email, other, claims>>

\* POST /invites/{i}/regenerate: delete the row, insert a fresh one.
RegenerateRead(r, i) ==
    /\ SomeoneMayManage
    /\ invites[i].state = "pending"
    /\ Begin(r, [Idle EXCEPT !.op = "regenerate", !.at = "write", !.invite = i,
                    !.email = invites[i].email, !.role = invites[i].role])
    /\ UNCHANGED <<role, email, other, invites, claims>>

RegenerateCommit(r) ==
    /\ At(r, "regenerate", "write")
    /\ \E j \in Invite :
         /\ invites[j] = NoInvite
         /\ invites' = [invites EXCEPT ![req[r].invite].state = "gone",
                                       ![j] = NewInvite(r)]
    /\ Finish(r)
    /\ UNCHANGED <<role, email, other, claims>>

\* DELETE /invites/{i}.
RevokeRead(r, i) ==
    /\ SomeoneMayManage
    /\ Stored(i)
    /\ Begin(r, [Idle EXCEPT !.op = "revoke", !.at = "write", !.invite = i])
    /\ UNCHANGED <<role, email, other, invites, claims>>

RevokeCommit(r) ==
    /\ At(r, "revoke", "write")
    /\ invites' = [invites EXCEPT ![req[r].invite].state = "gone"]
    /\ Finish(r)
    /\ UNCHANGED <<role, email, other, claims>>

\* POST /auth/signup with the token of invite i.
RedeemRead(r, i) ==
    /\ Usable(i)
    /\ Begin(r, [Idle EXCEPT !.op = "redeem", !.at = "write", !.invite = i,
                    !.email = invites[i].email, !.role = invites[i].role])
    /\ UNCHANGED <<role, email, other, invites, claims>>

\* The flush inserts the user, which users.email must allow, and updates the
\* invite, which must still be there.  Fault: a missing invite row is ignored.
FaultMayJoin(i, e) == ~Registered(e)
MayJoin(i, e) == ~Registered(e) /\ Stored(i)

RedeemCommit(r) ==
    LET i == req[r].invite
    IN  /\ At(r, "redeem", "write")
        /\ IF MayJoin(i, req[r].email)
           THEN \E u \in User :
                  /\ role[u] = "none"
                  /\ role' = [role EXCEPT ![u] = req[r].role]
                  /\ email' = [email EXCEPT ![u] = req[r].email]
                  /\ invites' = [invites EXCEPT ![i].state =
                                   IF Stored(i) THEN "accepted" ELSE @]
           ELSE UNCHANGED <<role, email, invites>>
        /\ Finish(r)
        /\ UNCHANGED <<other, claims>>

\* A signup without an invite makes another organisation.
SignUpElsewhere(e) ==
    /\ ~Registered(e)
    /\ other' = other \cup {e}
    /\ UNCHANGED <<role, email, invites, claims, req>>

\* expires_at passes.
Expire(i) ==
    /\ Usable(i)
    /\ invites' = [invites EXCEPT ![i].expired = TRUE]
    /\ UNCHANGED <<role, email, other, claims, req>>

\* The process dies, or a statement fails: the transaction rolls back.
Crash(r) ==
    /\ req[r] # Idle
    /\ Finish(r)
    /\ UNCHANGED <<role, email, other, invites, claims>>

Next ==
    \/ \E u \in User : IssueToken(u) \/ ExpireToken(u)
    \/ \E e \in Email : SignUpElsewhere(e)
    \/ \E i \in Invite : Expire(i)
    \/ \E r \in Request :
         \/ \E u \in User, to \in Role \cup {"gone"} : MemberRead(r, u, to)
         \/ \E e \in Email, x \in Role : CreateInviteRead(r, e, x)
         \/ \E i \in Invite : RegenerateRead(r, i) \/ RevokeRead(r, i) \/ RedeemRead(r, i)
         \/ CountAdmins(r) \/ MemberCommit(r)
         \/ CreateInviteSelect(r) \/ CreateInviteCommit(r)
         \/ RegenerateCommit(r) \/ RevokeCommit(r) \/ RedeemCommit(r)
         \/ Crash(r)

Spec == Init /\ [][Next]_vars
-----------------------------------------------------------------------------
\* The organisation always has an admin, also while invites are redeemed and
\* revoked at the same time as a member is demoted or removed.  With one role
\* change at a time between count and commit the guard of org.py is enough;
\* with two it is not.
AdminExists == \E u \in User : role[u] = "admin"

\* A user joins only in the step that marks an invite of that address and
\* role accepted, and only while that invite is stored: an invite revoked or
\* regenerated admits nobody, not even a signup that had already read it.
\* And no invite is marked accepted without its user.
JoinAcceptsInvite ==
    [][/\ \A u \in User : ~Member(u) /\ Member(u)' =>
            \E i \in Invite :
                /\ Stored(i) /\ invites'[i].state = "accepted"
                /\ invites[i].email = email'[u] /\ invites[i].role = role'[u]
       /\ \A i \in Invite :
            invites'[i].state = "accepted" /\ invites[i].state # "accepted" =>
                \E u \in User : /\ ~Member(u) /\ Member(u)'
                                /\ email'[u] = invites[i].email]_vars
=============================================================================
