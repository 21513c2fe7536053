------------------------------- MODULE Tenancy -------------------------------
(* Organisation and user settings of pooled connections (app/db/session.py,  *)
(* app/api/deps.py) under the row-level security policies of the migrations, *)
(* for the handlers' sequences of statements. A setting lasts for one       *)
(* transaction; a connection serves one transaction after another, of any    *)
(* organisation.                                                             *)
EXTENDS Naturals, Sequences

CONSTANTS
    User,        \* users; of different organisations
    OrgOf,       \* user |-> organisation
    Conn,        \* connections of the pool
    Request,     \* slots for requests and jobs in progress
    Kind,        \* the handlers in use
    Unset,       \* a setting that was never made on a connection
    Empty,       \* the text '' that a setting falls back to
    None

Org == {OrgOf[u] : u \in User}

\* Settings that stand for no organisation are none, and None is no connection.
SettingsOK ==
    /\ None \notin Conn
    /\ {Unset, Empty} \cap (Org \cup User) = {}
    /\ Kind \subseteq {"write", "sprint", "assign", "bell", "login", "signup", "job"}

VARIABLES
    conn,        \* connection |-> its two settings
    req          \* request |-> where its handler is and what it was told

vars == <<conn, req>>

\* The statements of the handlers, in order. "tenant" and "actor" set the
\* context, "rows" reads and "change" writes a table with a policy on org_id,
\* "notes" reads and "note" inserts notifications, "org" inserts an
\* organisation, "open" is any statement on a table without a policy.
Script(kind) ==
    CASE kind = "write" -> <<"tenant", "actor", "rows", "change", "commit">>
      [] kind = "sprint" -> <<"tenant", "actor", "rows", "change", "commit", "totals">>
      [] kind = "assign" -> <<"tenant", "actor", "rows", "change", "note", "commit">>
      [] kind = "bell" -> <<"tenant", "actor", "notes">>
      [] kind = "login" -> <<"open", "tenant", "rows">>
      [] kind = "signup" -> <<"tenant", "org", "change", "note", "commit", "open", "commit">>
      [] kind = "job" -> <<"tenant", "rows", "change", "commit">>

Idle == [at |-> "idle"]
Active ==
    [at: {"run"}, kind: Kind, user: User, step: 1 .. 8, conn: Conn \cup {None},
     saw: SUBSET (Org \cup User), blind: BOOLEAN]

\* Type invariant.
TypeOK ==
    /\ conn \in [Conn -> [tenant: Org \cup {Unset, Empty}, actor: User \cup {Unset, Empty}]]
    /\ req \in [Request -> {Idle} \cup Active]

Init ==
    /\ conn = [c \in Conn |-> [tenant |-> Unset, actor |-> Unset]]
    /\ req = [r \in Request |-> Idle]

-----------------------------------------------------------------------------
(* What the policies let through on a connection. NULLIF makes '' a NULL,    *)
(* and a comparison with NULL is not true.                                   *)

\* A policy that casts '' to uuid: an error for every statement.
FaultPolicyFails(c) == conn[c].tenant = Empty

\* Whether a policy's expression raises an error on this connection.
PolicyFails(c) == FALSE

Visible(c) == {o \in Org : conn[c].tenant = o}

VisibleNotes(c) == {u \in User : OrgOf[u] = conn[c].tenant /\ u = conn[c].actor}

\* The policy for INSERT looks at the organisation alone; the raw INSERT of
\* create_notification has no RETURNING.
MayInsertNote(c, o) == conn[c].tenant = o

-----------------------------------------------------------------------------
Running(r) == req[r].at = "run"
Ready(r) == Running(r) /\ req[r].step <= Len(Script(req[r].kind))
Statement(r) == Script(req[r].kind)[req[r].step]
Held == {req[r].conn : r \in {q \in Request : Running(q)}}
Home(r) == OrgOf[req[r].user]

\* A session takes a connection of the pool with the first statement of a
\* transaction and keeps it until the transaction ends.
Mine(r, c) ==
    IF req[r].conn # None THEN c = req[r].conn ELSE c \in Conn \ Held

\* What the policies say to the statement r is at, on connection c: an
\* INSERT's RETURNING must pass the SELECT policy as well.
Allowed(r, c) ==
    LET st == Statement(r)
    IN /\ st \in {"rows", "notes", "totals", "change", "org", "note"} => ~PolicyFails(c)
       /\ st \in {"change", "org"} => Home(r) \in Visible(c)
       /\ st = "note" => MayInsertNote(c, Home(r))

\* The next statement of r, with the connection it has then. saw is what this
\* one told the handler, and it was blind if it looked for rows and found none.
Told(r, c, told) ==
    [req[r] EXCEPT !.step = @ + 1, !.conn = c, !.saw = told, !.blind = FALSE]
Step(r, c, told) == req' = [req EXCEPT ![r] = Told(r, c, told)]
Finds(r, c, told) ==
    req' = [req EXCEPT ![r] = [Told(r, c, told) EXCEPT !.blind = told = {}]]

\* set_config(..., false): the setting belongs to the connection.
FaultAfter(setting) == {setting}

\* What a setting made with is_local = true becomes at the transaction's end.
After(setting) == IF setting \in {Unset, Empty} THEN {setting} ELSE {Unset, Empty}

Reset(c) ==
    \E t \in After(conn[c].tenant), a \in After(conn[c].actor) :
      conn' = [conn EXCEPT ![c] = [tenant |-> t, actor |-> a]]

\* A request comes in, or a job is delivered. Whose it is is known from the
\* access token, the lookup table, the job, or the new organisation's id.
Begin(r, kind, u) ==
    /\ req[r] = Idle
    /\ req' = [req EXCEPT ![r] =
         [at |-> "run", kind |-> kind, user |-> u, step |-> 1, conn |-> None,
          saw |-> {}, blind |-> FALSE]]
    /\ UNCHANGED conn

\* set_tenant_context
SetTenant(r, c) ==
    /\ Ready(r) /\ Mine(r, c) /\ Statement(r) = "tenant"
    /\ conn' = [conn EXCEPT ![c].tenant = Home(r)]
    /\ Step(r, c, {})

\* set_actor_context
SetActor(r, c) ==
    /\ Ready(r) /\ Mine(r, c) /\ Statement(r) = "actor"
    /\ conn' = [conn EXCEPT ![c].actor = req[r].user]
    /\ Step(r, c, {})

\* lookup tables and one-time tokens have no policy.
Open(r, c) ==
    /\ Ready(r) /\ Mine(r, c) /\ Statement(r) = "open"
    /\ Step(r, c, {})
    /\ UNCHANGED conn

\* SELECTs with a policy: of a table with an org_id, of the notifications.
Query(r, c) ==
    /\ Ready(r) /\ Mine(r, c) /\ Statement(r) \in {"rows", "notes"}
    /\ Allowed(r, c)
    /\ Finds(r, c, IF Statement(r) = "rows" THEN Visible(c) ELSE VisibleNotes(c))
    /\ UNCHANGED conn

\* INSERT, UPDATE and DELETE of rows of the own organisation, its own row
\* included; an INSERT's RETURNING must pass the SELECT policy.
Change(r, c) ==
    /\ Ready(r) /\ Mine(r, c) /\ Statement(r) \in {"change", "org"}
    /\ Allowed(r, c)
    /\ Step(r, c, {})
    /\ UNCHANGED conn

\* create_notification, for another user of the organisation.
Note(r, c) ==
    /\ Ready(r) /\ Mine(r, c) /\ Statement(r) = "note"
    /\ Allowed(r, c)
    /\ Step(r, c, {})
    /\ UNCHANGED conn

\* commit(): the transaction ends and its connection goes back.
Commit(r) ==
    /\ Ready(r) /\ Statement(r) = "commit"
    /\ Reset(req[r].conn)
    /\ Step(r, None, {})

\* _with_total_points after the commit: a new transaction on any connection.
Totals(r, c) ==
    /\ Ready(r) /\ Mine(r, c) /\ Statement(r) = "totals"
    /\ Allowed(r, c)
    /\ Finds(r, c, Visible(c))
    /\ UNCHANGED conn

\* The end of a handler, an error before it, or a rollback: the session is
\* closed.
Close(r) ==
    /\ Running(r)
    /\ IF req[r].conn = None THEN UNCHANGED conn ELSE Reset(req[r].conn)
    /\ req' = [req EXCEPT ![r] = Idle]

Next ==
    \E r \in Request :
      \/ \E kind \in Kind, u \in User : Begin(r, kind, u)
      \/ \E c \in Conn :
           \/ SetTenant(r, c) \/ SetActor(r, c) \/ Open(r, c) \/ Query(r, c)
           \/ Change(r, c) \/ Note(r, c) \/ Totals(r, c)
      \/ Commit(r) \/ Close(r)

Spec == Init /\ [][Next]_vars

-----------------------------------------------------------------------------
\* Whatever connection a transaction gets, and whoever had it before, a query
\* is told rows of the request's own organisation only, and notifications of
\* its own user only. session.py:18-55, deps.py:21-57.
OnlyOwnRows ==
    \A r \in Request :
      Running(r) => req[r].saw \subseteq {Home(r), req[r].user}

\* No statement of a handler is refused by a policy or fails in it, on a
\* connection with whatever history. migrations 0003, 0015 and 0016.
NothingRefused ==
    \A r \in Request, c \in Conn : Ready(r) /\ Mine(r, c) => Allowed(r, c)

\* The statement that r has run last.
Last(r) == Script(req[r].kind)[req[r].step - 1]

\* A query that looked for rows and was told none is the sprint handlers'
\* query for the totals, which comes after the commit: the context outlives
\* every other one. session.py:18-31, sprints.py:276-277.
ContextHolds == \A r \in Request : Running(r) /\ req[r].blind => Last(r) = "totals"

\* Both: no statement is refused, and the only one that can miss the rows it is
\* about is the totals query after the commit (TotalsSeeTickets).
StatementsSucceed == NothingRefused /\ ContextHolds

\* sprints.py:139-149 and schemas/sprint.py:40-52: the totals in a response are
\* computed from the sprint's current tickets.
TotalsSeeTickets ==
    \A r \in Request :
      Running(r) /\ req[r].step > 1 /\ Last(r) = "totals" => ~req[r].blind
=============================================================================
