-------------------------------- MODULE Rooms --------------------------------
(* WebSocket rooms of one user (app/api/ws.py, app/services/ws_tickets.py):  *)
(* a login buys an access token, a token a ticket, a ticket one handshake, a *)
(* handshake an open room, and each of them ends in its own time. A request  *)
(* checks what it needs first and acts later: its age counts up to the       *)
(* longest it may take, the lifetimes count down. Tick is the passing of one *)
(* unit of time.                                                             *)
EXTENDS Integers

CONSTANTS
    Grant,         \* logins and refreshes
    Ticket,        \* tickets from POST /auth/ws-ticket
    Socket,        \* WebSocket connections
    AuthTime,      \* the longest from the read of the users row to the token
    TokenLife,     \* access_token_expire_minutes
    TicketLife,    \* _TICKET_TTL_SECONDS
    RequestTime,   \* the longest from a token's check to the ticket's SET
    HandshakeTime, \* the longest from a ticket's GETDEL to the room's timer
    None

\* Lifetimes are at least one unit.
LifetimesOK ==
    /\ TokenLife \in Nat \ {0} /\ TicketLife \in Nat \ {0}
    /\ AuthTime \in Nat /\ RequestTime \in Nat /\ HandshakeTime \in Nat

VARIABLES
    login,         \* login |-> idle, or one that has read the users row
    token,         \* what is left of the user's latest access token
    removed,       \* time since the user was removed, or None
    hidden,        \* time since the project was deleted, or None while it is live
    ticket,        \* ticket |-> its request, then its key in Redis
    socket         \* socket |-> the connection

vars == <<login, token, removed, hidden, ticket, socket>>

\* The longest times the properties speak of: clocks stop beyond them.
RoomEnd == TokenLife + HandshakeTime
LastWord ==
    AuthTime + TokenLife + RequestTime + TicketLife + HandshakeTime + TokenLife

Room == {"project", "notifications"}
Idle == [at |-> "idle"]
\* trust is what is left of the life of the token behind it.
Key ==
    [at: {"new", "gone"}]
      \cup [at: {"asked"}, age: 0 .. RequestTime, trust: 0 .. TokenLife]
      \cup [at: {"stored"}, left: 1 .. TicketLife, trust: 0 .. TokenLife]
Connection ==
    [at: {"new", "closed"}]
      \cup [at: {"check", "accept"}, room: Room, ticket: Ticket, age: 0 .. HandshakeTime,
            trust: 0 .. TokenLife]
      \cup [at: {"open"}, room: Room, ticket: Ticket, left: 0 .. TokenLife,
            trust: 0 .. TokenLife]

\* Type invariant.
TypeOK ==
    /\ login \in [Grant -> {Idle} \cup [at: {"issue"}, age: 0 .. AuthTime]]
    /\ token \in 0 .. TokenLife
    /\ removed \in Nat \cup {None}
    /\ hidden \in Nat \cup {None}
    /\ ticket \in [Ticket -> Key]
    /\ socket \in [Socket -> Connection]

Init ==
    /\ login = [l \in Grant |-> Idle]
    /\ token = 0
    /\ removed = None
    /\ hidden = None
    /\ ticket = [k \in Ticket |-> [at |-> "new"]]
    /\ socket = [s \in Socket |-> [at |-> "new"]]

Issuing(l) == login[l].at = "issue"
Asked(k) == ticket[k].at = "asked"
Stored(k) == ticket[k].at = "stored"
Shaking(s) == socket[s].at \in {"check", "accept"}
Open(s) == socket[s].at = "open"

-----------------------------------------------------------------------------
\* login, refresh: the users row is there. The password check, or Redis, comes
\* after it.
AuthRead(l) ==
    /\ login[l] = Idle /\ removed = None
    /\ login' = [login EXCEPT ![l] = [at |-> "issue", age |-> 0]]
    /\ UNCHANGED <<token, removed, hidden, ticket, socket>>

\* _issue_token_pair, whatever became of the row.
AuthIssue(l) ==
    /\ Issuing(l)
    /\ token' = TokenLife
    /\ login' = [login EXCEPT ![l] = Idle]
    /\ UNCHANGED <<removed, hidden, ticket, socket>>

\* A wrong password, an error, or the end of the process.
AuthFail(l) ==
    /\ Issuing(l)
    /\ login' = [login EXCEPT ![l] = Idle]
    /\ UNCHANGED <<token, removed, hidden, ticket, socket>>

\* remove_member: access tokens and sockets are left alone.
RemoveUser ==
    /\ removed = None
    /\ removed' = 0
    /\ UNCHANGED <<login, token, hidden, ticket, socket>>

\* delete_project and restore_project.
DeleteProject ==
    /\ hidden = None
    /\ hidden' = 0
    /\ UNCHANGED <<login, token, removed, ticket, socket>>

RestoreProject ==
    /\ hidden # None
    /\ hidden' = None
    /\ UNCHANGED <<login, token, removed, ticket, socket>>

\* create_ws_ticket: get_current_auth looks at the token alone, and sets the
\* context of a transaction after that.
AskTicket(k) ==
    /\ token > 0
    /\ ticket[k].at = "new"
    /\ ticket' = [ticket EXCEPT ![k] = [at |-> "asked", age |-> 0, trust |-> token]]
    /\ UNCHANGED <<login, token, removed, hidden, socket>>

\* issue_ws_ticket: SET with an expiry. The token is not looked at again.
StoreTicket(k) ==
    /\ Asked(k)
    /\ ticket' = [ticket EXCEPT ![k] =
         [at |-> "stored", left |-> TicketLife, trust |-> @.trust]]
    /\ UNCHANGED <<login, token, removed, hidden, socket>>

\* The request fails before its SET.
AskFail(k) ==
    /\ Asked(k)
    /\ ticket' = [ticket EXCEPT ![k] = [at |-> "gone"]]
    /\ UNCHANGED <<login, token, removed, hidden, socket>>

\* _authenticate_handshake for an allowed origin: GETDEL. The notification
\* room has no further check.
Redeem(s, k, room) ==
    /\ socket[s].at = "new" /\ Stored(k)
    /\ ticket' = [ticket EXCEPT ![k] = [at |-> "gone"]]
    /\ socket' = [socket EXCEPT ![s] =
         [at |-> IF room = "project" THEN "check" ELSE "accept", room |-> room,
          ticket |-> k, age |-> 0, trust |-> ticket[k].trust]]
    /\ UNCHANGED <<login, token, removed, hidden>>

\* project_socket: the SELECT of the project, in a transaction of its own.
CheckProject(s) ==
    /\ socket[s].at = "check"
    /\ socket' = [socket EXCEPT ![s] =
         IF hidden = None THEN [@ EXCEPT !.at = "accept"] ELSE [at |-> "closed"]]
    /\ UNCHANGED <<login, token, removed, hidden, ticket>>

\* _run_room: accept, subscribe, and the deadline.
Accept(s) ==
    /\ socket[s].at = "accept"
    /\ socket' = [socket EXCEPT ![s] =
         [at |-> "open", room |-> @.room, ticket |-> @.ticket, left |-> TokenLife,
          trust |-> @.trust]]
    /\ UNCHANGED <<login, token, removed, hidden, ticket>>

\* An expiry task that a message of the room starts anew.
FaultExpire(s) ==
    /\ Open(s) /\ socket[s].left = 0
    /\ socket' = [socket EXCEPT ![s].left = TokenLife]
    /\ UNCHANGED <<login, token, removed, hidden, ticket>>

\* expiry_task: the room is closed and unsubscribed.
Expire(s) ==
    /\ Open(s) /\ socket[s].left = 0
    /\ socket' = [socket EXCEPT ![s] = [at |-> "closed"]]
    /\ UNCHANGED <<login, token, removed, hidden, ticket>>

\* The client leaves, a send fails, or the server process ends.
Disconnect(s) ==
    /\ Shaking(s) \/ Open(s)
    /\ socket' = [socket EXCEPT ![s] = [at |-> "closed"]]
    /\ UNCHANGED <<login, token, removed, hidden, ticket>>

Less(n) == IF n = 0 THEN 0 ELSE n - 1
\* The token behind a ticket or a connection gets older.
Wane(x) == [x EXCEPT !.trust = Less(@)]
Older(n) == IF n = None \/ n > LastWord THEN n ELSE n + 1

\* Time passes, but not past a deadline or beyond the time that a login, a
\* request for a ticket or a handshake takes.
Tick ==
    /\ \A l \in Grant : Issuing(l) => login[l].age < AuthTime
    /\ \A k \in Ticket : Asked(k) => ticket[k].age < RequestTime
    /\ \A s \in Socket : /\ Open(s) => socket[s].left > 0
                         /\ Shaking(s) => socket[s].age < HandshakeTime
    /\ login' = [l \in Grant |->
         IF Issuing(l) THEN [login[l] EXCEPT !.age = @ + 1] ELSE login[l]]
    /\ token' = Less(token)
    /\ removed' = Older(removed)
    /\ hidden' = Older(hidden)
    /\ ticket' = [k \in Ticket |->
         IF Asked(k) THEN [Wane(ticket[k]) EXCEPT !.age = @ + 1]
         ELSE IF ~Stored(k) THEN ticket[k]
         ELSE IF ticket[k].left = 1 THEN [at |-> "gone"]
         ELSE [Wane(ticket[k]) EXCEPT !.left = @ - 1]]
    /\ socket' = [s \in Socket |->
         IF Open(s) THEN [Wane(socket[s]) EXCEPT !.left = @ - 1]
         ELSE IF Shaking(s) THEN [Wane(socket[s]) EXCEPT !.age = @ + 1]
         ELSE socket[s]]

Next ==
    \/ RemoveUser \/ DeleteProject \/ RestoreProject \/ Tick
    \/ \E l \in Grant : AuthRead(l) \/ AuthIssue(l) \/ AuthFail(l)
    \/ \E k \in Ticket : AskTicket(k) \/ StoreTicket(k) \/ AskFail(k)
    \/ \E s \in Socket, k \in Ticket, room \in Room : Redeem(s, k, room)
    \/ \E s \in Socket : CheckProject(s) \/ Accept(s) \/ Expire(s) \/ Disconnect(s)

Spec == Init /\ [][Next]_vars

-----------------------------------------------------------------------------
\* A ticket gets one connection through: two handshakes that race with one
\* ticket do not both succeed. ws_tickets.py:45-53.
OneHandshakePerTicket ==
    \A s, q \in Socket :
      (Shaking(s) \/ Open(s)) /\ (Shaking(q) \/ Open(q)) /\ s # q
        => socket[s].ticket # socket[q].ticket

\* A removed user hears nothing any more once a login that had read the user's
\* row, its access token, a request for a ticket in the last moment of that
\* token, the ticket, a handshake and a room have run their time, one after
\* the other. Nothing takes them away earlier.
\* auth.py:293-298 and :338-350, deps.py:39-57, ws.py:95-124, org.py:92-117.
RemovedHearsNothing ==
    removed # None /\ removed > LastWord => \A s \in Socket : ~Open(s)

\* The room of a deleted project falls silent after a handshake that had seen
\* it live and a room's time. ws.py:208-225.
DeletedFallsSilent ==
    hidden # None /\ hidden > RoomEnd
      => \A s \in Socket : ~(Open(s) /\ socket[s].room = "project")

\* All three: one ticket opens one room, and no room outlives its reason for
\* longer than that.
RoomsSound == OneHandshakePerTicket /\ RemovedHearsNothing /\ DeletedFallsSilent

\* What ws.py:112-124 says: a room ends with the access token it was minted
\* from.
SocketWithinToken == \A s \in Socket : Open(s) /\ socket[s].left > 0 => socket[s].trust > 0
=============================================================================
