------------------------------ MODULE Authority ------------------------------
(* What one user of an organisation may change, and for how long             *)
(* (app/api/deps.py, app/core/security.py, _require_owner_or_admin of        *)
(* app/api/projects.py and app/api/tickets.py, app/api/org.py). The role of  *)
(* a request is the claim of its access token, read from the users row when  *)
(* the token was issued; a project or ticket belongs to its creator until    *)
(* the creator's row goes (migration 0008).                                  *)
(*                                                                           *)
(* The user's requests read and later commit. Those of the other members are *)
(* whole: how requests of several members interleave is in Membership,       *)
(* SprintLifecycle and TicketTree.                                           *)
EXTENDS Naturals

CONSTANTS
    TokenLife,     \* access_token_expire_minutes
    AuthTime,      \* the longest from the read of the users row to the token
    RequestTime,   \* the longest from a token's check to the request's commit
    None

Me == "me"
Role == {"admin", "member"}
Creator == {Me, "other", None}

\* The longest that a role the user no longer has may be of use.
LastUse == AuthTime + TokenLife + RequestTime

VARIABLES
    role,          \* the role in the users row, "gone" without a row
    since,         \* time since that row changed or went; LastUse + 1: longer
    token,         \* claim |-> life left of the latest token with that role
    auth,          \* a login or refresh that has read the users row
    project,       \* None, or the row of a project
    ticket,        \* None, or the row of a ticket of that project
    req            \* a request of the user between its reads and its commit

vars == <<role, since, token, auth, project, ticket, req>>
user == <<role, since>>
rows == <<project, ticket>>

Idle == [at |-> "idle"]
ProjectOp == {"newProject", "editProject", "deleteProject", "restoreProject", "configure"}
TicketOp == {"newTicket", "editTicket", "moveTicket", "deleteTicket", "restoreTicket"}

\* hidden: time since deleted_at was set, or None; text: what edits change.
ProjectRow == [creator: Creator, hidden: (0 .. RequestTime + 1) \cup {None}, text: BOOLEAN]
TicketRow == [creator: Creator, live: BOOLEAN, text: BOOLEAN]

\* A token lives for at least one unit, and NULL is neither a row nor the user.
LifetimesOK ==
    /\ TokenLife \in Nat \ {0}
    /\ AuthTime \in Nat /\ RequestTime \in Nat
    /\ None \notin ProjectRow \cup TicketRow \cup {Me}

\* Type invariant.
TypeOK ==
    /\ role \in Role \cup {"gone"}
    /\ since \in 0 .. LastUse + 1
    /\ token \in [Role -> 0 .. TokenLife]
    /\ auth \in {Idle} \cup [at: {"issue"}, claim: Role, age: 0 .. AuthTime]
    /\ project \in {None} \cup ProjectRow
    /\ ticket \in {None} \cup TicketRow
    /\ req \in {Idle} \cup [at: {"commit"}, op: ProjectOp \cup TicketOp, claim: Role,
                            age: 0 .. RequestTime]

Init ==
    /\ role \in Role
    /\ since = LastUse + 1
    /\ token = [c \in Role |-> 0]
    /\ auth = Idle
    /\ project = None /\ ticket = None
    /\ req = Idle

-----------------------------------------------------------------------------
(* Tokens.                                                                 *)

\* A refresh that takes over the claim of the token it replaces.
FaultAuthRead ==
    /\ auth = Idle
    /\ \E c \in Role :
         /\ role = c \/ token[c] > 0
         /\ auth' = [at |-> "issue", claim |-> c, age |-> 0]
    /\ UNCHANGED <<user, token, rows, req>>

\* login, refresh, signup: the users row, for create_access_token.
AuthRead ==
    /\ auth = Idle /\ role # "gone"
    /\ auth' = [at |-> "issue", claim |-> role, age |-> 0]
    /\ UNCHANGED <<user, token, rows, req>>

\* _issue_token_pair, after the awaits of Redis: the response carries a token
\* with the role that was read.
AuthIssue ==
    /\ auth # Idle
    /\ token' = [token EXCEPT ![auth.claim] = TokenLife]
    /\ auth' = Idle
    /\ UNCHANGED <<user, rows, req>>

AuthFail ==
    /\ auth # Idle
    /\ auth' = Idle
    /\ UNCHANGED <<user, token, rows, req>>

\* update_member_role by another admin.
ChangeRole ==
    /\ role # "gone"
    /\ \E to \in Role \ {role} : role' = to
    /\ since' = 0
    /\ UNCHANGED <<token, auth, rows, req>>

\* ON DELETE SET NULL of migration 0008, on a row of either table.
Orphaned(row) == IF row # None /\ row.creator = Me THEN [row EXCEPT !.creator = None] ELSE row

\* The rows keep the id of the user.
FaultRemove ==
    /\ role # "gone"
    /\ role' = "gone" /\ since' = 0
    /\ UNCHANGED <<token, auth, rows, req>>

\* remove_member by another admin: access tokens are left to expire.
Remove ==
    /\ role # "gone"
    /\ role' = "gone" /\ since' = 0
    /\ project' = Orphaned(project) /\ ticket' = Orphaned(ticket)
    /\ UNCHANGED <<token, auth, req>>

-----------------------------------------------------------------------------
(* The checks of a handler, for a caller with the role c of its token.      *)

ProjectSeen == project # None /\ project.hidden = None
TicketSeen == ticket # None /\ ticket.live

\* _require_owner_or_admin: NULL is nobody's.
Owns(row, c) == row.creator = Me \/ c = "admin"

\* _get_project_or_404 with include_deleted=True for every restore.
FaultReaches(op) ==
    IF op \in {"restoreProject", "restoreTicket"} THEN project # None ELSE ProjectSeen

\* _get_project_or_404: only the restore of the project itself finds a
\* deleted one.
Reaches(op) == IF op = "restoreProject" THEN project # None ELSE ProjectSeen

Allowed(op, c) ==
    CASE op = "newProject" -> project = None
      [] op \in {"editProject", "deleteProject"} -> Reaches(op) /\ Owns(project, c)
      [] op = "restoreProject" -> Reaches(op) /\ Owns(project, c) /\ project.hidden # None
      [] op = "configure" -> Reaches(op) /\ c = "admin"
      [] op = "newTicket" -> Reaches(op) /\ ticket = None
      [] op = "moveTicket" -> Reaches(op) /\ TicketSeen
      [] op \in {"editTicket", "deleteTicket"} -> Reaches(op) /\ TicketSeen /\ Owns(ticket, c)
      [] op = "restoreTicket" ->
           Reaches(op) /\ ticket # None /\ Owns(ticket, c) /\ ~ticket.live

\* get_current_auth and the reads of the handler.
RequestRead ==
    \E op \in ProjectOp \cup TicketOp, c \in Role :
      /\ req = Idle
      /\ token[c] > 0
      /\ Allowed(op, c)
      /\ req' = [at |-> "commit", op |-> op, claim |-> c, age |-> 0]
      /\ UNCHANGED <<user, token, auth, rows>>

\* What a commit writes to the rows, by is the author of a new one.
WriteProject(op, by) ==
    CASE op = "newProject" -> [creator |-> by, hidden |-> None, text |-> FALSE]
      [] op \in {"editProject", "configure"} -> [project EXCEPT !.text = ~@]
      [] op = "deleteProject" -> [project EXCEPT !.hidden = 0]
      [] op = "restoreProject" -> [project EXCEPT !.hidden = None]
      [] OTHER -> project

WriteTicket(op, by) ==
    CASE op = "newTicket" -> [creator |-> by, live |-> TRUE, text |-> FALSE]
      [] op \in {"editTicket", "moveTicket"} -> [ticket EXCEPT !.text = ~@]
      [] op = "deleteTicket" -> [ticket EXCEPT !.live = FALSE]
      [] op = "restoreTicket" -> [ticket EXCEPT !.live = TRUE]
      [] OTHER -> ticket

\* The INSERTs reference the users row of their author. One project and one
\* ticket are followed.
Insertable(op) ==
    /\ op \in {"newProject", "newTicket"} => role # "gone"
    /\ op = "newProject" => project = None
    /\ op = "newTicket" => ticket = None

Commit ==
    /\ req # Idle /\ Insertable(req.op)
    /\ project' = WriteProject(req.op, Me) /\ ticket' = WriteTicket(req.op, Me)
    /\ req' = Idle
    /\ UNCHANGED <<user, token, auth>>

\* An error, a foreign key included, or a process that dies: a rollback.
Rollback ==
    /\ req # Idle
    /\ req' = Idle
    /\ UNCHANGED <<user, token, auth, rows>>

\* A whole request of an admin among the others.
OthersRequest ==
    \E op \in ProjectOp \cup TicketOp :
      /\ Allowed(op, "admin")
      /\ project' = WriteProject(op, "other") /\ ticket' = WriteTicket(op, "other")
      /\ UNCHANGED <<user, token, auth, req>>

-----------------------------------------------------------------------------
Less(n) == IF n = 0 THEN 0 ELSE n - 1
Older(n, end) == IF n = None \/ n > end THEN n ELSE n + 1

\* Time passes, but not past the time of a login or a request.
Tick ==
    /\ auth # Idle => auth.age < AuthTime
    /\ req # Idle => req.age < RequestTime
    /\ since' = Older(since, LastUse)
    /\ token' = [c \in Role |-> Less(token[c])]
    /\ auth' = IF auth = Idle THEN auth ELSE [auth EXCEPT !.age = @ + 1]
    /\ req' = IF req = Idle THEN req ELSE [req EXCEPT !.age = @ + 1]
    /\ project' = IF project = None THEN None
                  ELSE [project EXCEPT !.hidden = Older(@, RequestTime)]
    /\ UNCHANGED <<role, ticket>>

Next ==
    \/ AuthRead \/ AuthIssue \/ AuthFail
    \/ ChangeRole \/ Remove
    \/ RequestRead \/ Commit \/ Rollback \/ OthersRequest
    \/ Tick

Spec == Init /\ [][Next]_vars

-----------------------------------------------------------------------------
\* The rows a request of the user changes, as it commits.
Writes == req # Idle /\ req' = Idle /\ rows' # rows

\* With a role that the user has lost, or after its removal, a write commits
\* before a login that had read the old role, the life of its token and a
\* request that came at its end have taken their time, one after the other.
\* org.py:106-117, deps.py:21-57, auth.py:155-162.
StaleRoleEnds == [][Writes /\ req.claim # role => since < LastUse]_vars

\* A removed user is the creator of nothing, although requests that create
\* were under way when its row went. models.py:191-201, migration 0008.
CreatorExists ==
    role = "gone" => \A row \in {project, ticket} : row # None => row.creator # Me

\* The tickets of a deleted project are left alone as soon as the requests
\* that had seen it live are over. tickets.py:76-98 and :773-790.
Content(t) == IF t = None THEN None ELSE <<t.live, t.text>>
HiddenProjectIsStill ==
    [][Content(ticket)' # Content(ticket)
         => project.hidden = None \/ project.hidden <= RequestTime]_vars
=============================================================================
