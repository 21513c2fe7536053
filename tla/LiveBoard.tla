----------------------------- MODULE LiveBoard -----------------------------
(***************************************************************************)
(* The live board of one project: PATCH requests that move tickets         *)
(* (app/api/tickets.py), the Redis channel they publish to                 *)
(* (app/services/ticket_events.py), the sockets that forward it            *)
(* (app/api/ws.py) and the pages that show the board and move tickets      *)
(* before the server has answered (page.tsx, handleDragEnd).               *)
(*                                                                         *)
(* A ticket is its column; the other fields an event carries (position,    *)
(* assignee, sprint) behave alike.  A page fetches once when it opens,     *)
(* and subscribes independently of that fetch.                             *)
(***************************************************************************)
EXTENDS Naturals, Sequences

CONSTANTS
    Tab,        \* open board pages
    Ticket,     \* tickets of the project
    Column,     \* its workflow states
    Request,    \* slots for PATCH requests in flight
    UserOf,     \* UserOf[tab]: the user signed in there
    MayMove,    \* MayMove[tab]: the tickets dragged on that page
    Handles,    \* Handles[r]: the tickets whose moves use slot r
    Live,       \* pages that get a connection ticket for their socket
    Default,    \* the column new tickets are in
    None,       \* no board, no page, no column
    MaxMoves,   \* bound on moves
    MaxLoads    \* bound on fetches after the first of each page

ASSUME SliceAssumption ==
    /\ MayMove \in [Tab -> SUBSET Ticket]
    /\ Handles \in [Request -> SUBSET Ticket]
    /\ Default \in Column

ASSUME NoneAssumption ==
    /\ None \notin Tab
    /\ None \notin Column
    /\ None \notin [Ticket -> Column]

VARIABLES
    column,     \* column[t]: tickets.workflow_state_id
    shown,      \* shown[p]: the board page p shows, None before its fetch
    load,       \* load[p]: the fetch of page p
    socket,     \* socket[p]: the WebSocket of page p
    inbox,      \* inbox[p]: events forwarded to p and not yet handled
    requests,   \* requests[r]: the PATCH in slot r
    missed,     \* missed[p]: history: an event passed the shown board by
    moves,      \* number of moves so far
    loads       \* number of fetches so far

vars == <<column, shown, load, socket, inbox, requests, missed, moves, loads>>

User == {UserOf[p] : p \in Tab}
Board == [Ticket -> Column]
Event == [ticket : Ticket, to : Column, by : User]

Idle == [step |-> "idle", page |-> None, by |-> None, ticket |-> None,
         to |-> None, loaded |-> None, previous |-> None]

Requests ==
    {Idle} \cup
    [step : {"sent", "read", "committed", "answered", "failed"},
     page : Tab \cup {None}, by : User, ticket : Ticket, to : Column,
     loaded : Column \cup {None}, previous : Board]

\* A fetch: nothing in flight, sent, or read by the server and on its way.
\* gap: history: an event passed the fetched board by.
NoLoad == [step |-> "none", board |-> None, gap |-> FALSE]
Loads == [step : {"none", "asked", "read"}, board : Board \cup {None},
          gap : BOOLEAN]

\* Every variable has its type; only a socket that is open has events.
TypeOK ==
    /\ column \in Board
    /\ shown \in [Tab -> Board \cup {None}]
    /\ load \in [Tab -> Loads]
    /\ \A p \in Tab : load[p].step = "read" <=> load[p].board # None
    /\ socket \in [Tab -> {"connecting", "open", "over"}]
    /\ inbox \in [Tab -> Seq(Event)]
    /\ \A p \in Tab : socket[p] # "open" => inbox[p] = <<>>
    /\ requests \in [Request -> Requests]
    /\ \A r \in Request :
           requests[r].step \in {"read", "committed"} => requests[r].loaded # None
    /\ missed \in [Tab -> BOOLEAN]
    /\ moves \in Nat
    /\ loads \in Nat

\* A page that just opened asks for its socket, unless it gets no ticket.
Opening(p) == IF p \in Live THEN "connecting" ELSE "over"

Init ==
    /\ column = [t \in Ticket |-> Default]
    /\ shown = [p \in Tab |-> None]
    /\ load = [p \in Tab |-> [NoLoad EXCEPT !.step = "asked"]]
    /\ socket = [p \in Tab |-> Opening(p)]
    /\ inbox = [p \in Tab |-> <<>>]
    /\ requests = [r \in Request |-> Idle]
    /\ missed = [p \in Tab |-> FALSE]
    /\ moves = 0
    /\ loads = 0

----------------------------------------------------------------------------
(* The page *)

\* handleDragEnd: the card moves at once, the board before the move is kept,
\* and the PATCH is sent.  A drop in the same column is sent too.
Move(r, p, t, c) ==
    /\ requests[r] = Idle
    /\ t \in MayMove[p] \cap Handles[r]
    /\ shown[p] # None
    /\ moves < MaxMoves
    /\ shown' = [shown EXCEPT ![p] = [@ EXCEPT ![t] = c]]
    /\ requests' = [requests EXCEPT ![r] =
           [step |-> "sent", page |-> p, by |-> UserOf[p], ticket |-> t,
            to |-> c, loaded |-> None, previous |-> shown[p]]]
    /\ moves' = moves + 1
    /\ UNCHANGED <<column, load, socket, inbox, missed, loads>>

\* The board a page shows once request q is answered: a refused move puts
\* the whole board kept at the drag back.
AfterReply(q, board) == IF q.step = "failed" THEN q.previous ELSE board

\* The answer arrives.  Nobody waits for it when the page was left.
Reply(r) ==
    LET q == requests[r] IN
    /\ q.step \in {"answered", "failed"}
    /\ shown' = IF q.page = None THEN shown
                ELSE [shown EXCEPT ![q.page] = AfterReply(q, @)]
    /\ requests' = [requests EXCEPT ![r] = Idle]
    /\ UNCHANGED <<column, load, socket, inbox, missed, moves, loads>>

\* load() again, as after creating a ticket on the page.
Reload(p) ==
    /\ load[p].step = "none"
    /\ loads < MaxLoads
    /\ load' = [load EXCEPT ![p] = [NoLoad EXCEPT !.step = "asked"]]
    /\ loads' = loads + 1
    /\ UNCHANGED <<column, shown, socket, inbox, requests, missed, moves>>

\* list_tickets reads the tickets.  An event that is lost for this page can
\* be followed by older ones still in its inbox.
LoadRead(p) ==
    /\ load[p].step = "asked"
    /\ load' = [load EXCEPT ![p] =
           [step |-> "read", board |-> column,
            gap |-> missed[p] /\ inbox[p] # <<>>]]
    /\ UNCHANGED <<column, shown, socket, inbox, requests, missed, moves, loads>>

\* The response replaces the board, whatever was applied to it meanwhile.
LoadReply(p) ==
    /\ load[p].step = "read"
    /\ shown' = [shown EXCEPT ![p] = load[p].board]
    /\ missed' = [missed EXCEPT ![p] = load[p].gap]
    /\ load' = [load EXCEPT ![p] = NoLoad]
    /\ UNCHANGED <<column, socket, inbox, requests, moves, loads>>

\* The fetch fails and is not repeated.
LoadFail(p) ==
    /\ load[p].step # "none"
    /\ load' = [load EXCEPT ![p] = NoLoad]
    /\ UNCHANGED <<column, shown, socket, inbox, requests, missed, moves, loads>>

\* The page is left and opened again: state and socket are new, and answers
\* to the requests of the old page are not heard.
Open(p) ==
    /\ loads < MaxLoads
    /\ shown' = [shown EXCEPT ![p] = None]
    /\ load' = [load EXCEPT ![p] = [NoLoad EXCEPT !.step = "asked"]]
    /\ socket' = [socket EXCEPT ![p] = Opening(p)]
    /\ inbox' = [inbox EXCEPT ![p] = <<>>]
    /\ requests' = [r \in Request |->
           IF requests[r].page = p THEN [requests[r] EXCEPT !.page = None]
                                   ELSE requests[r]]
    /\ missed' = [missed EXCEPT ![p] = FALSE]
    /\ loads' = loads + 1
    /\ UNCHANGED <<column, moves>>

\* onmessage: the event is spliced into the board, unless its user is the
\* one of this page or the board has not been fetched.  A fetch on its way
\* will overwrite it.
Receive(p) ==
    LET e == Head(inbox[p])
        mine == e.by = UserOf[p]
    IN
    /\ inbox[p] # <<>>
    /\ inbox' = [inbox EXCEPT ![p] = Tail(@)]
    /\ shown' = IF mine \/ shown[p] = None THEN shown
                ELSE [shown EXCEPT ![p] = [@ EXCEPT ![e.ticket] = e.to]]
    /\ load' = [load EXCEPT ![p].gap = @ \/ load[p].step = "read"]
    /\ UNCHANGED <<column, socket, requests, missed, moves, loads>>

----------------------------------------------------------------------------
(* The socket *)

\* The handshake succeeds and _run_room subscribes.
Subscribe(p) ==
    /\ socket[p] = "connecting"
    /\ socket' = [socket EXCEPT ![p] = "open"]
    /\ UNCHANGED <<column, shown, load, inbox, requests, missed, moves, loads>>

\* The handshake is refused, the connection breaks, or its time is up.  The
\* page opens no other socket.
Close(p) ==
    /\ socket[p] # "over"
    /\ socket' = [socket EXCEPT ![p] = "over"]
    /\ inbox' = [inbox EXCEPT ![p] = <<>>]
    /\ UNCHANGED <<column, shown, load, requests, missed, moves, loads>>

----------------------------------------------------------------------------
(* The server *)

\* update_ticket loads the ticket.
Read(r) ==
    /\ requests[r].step = "sent"
    /\ requests' = [requests EXCEPT ![r].step = "read",
                        ![r].loaded = column[requests[r].ticket]]
    /\ UNCHANGED <<column, shown, load, socket, inbox, missed, moves, loads>>

\* The request is refused, or its commit fails.
Refuse(r) ==
    /\ requests[r].step \in {"sent", "read"}
    /\ requests' = [requests EXCEPT ![r].step = "failed"]
    /\ UNCHANGED <<column, shown, load, socket, inbox, missed, moves, loads>>

\* The UPDATE sets the column only when it differs from the loaded one.
ColumnAfter(q) == IF q.to = q.loaded THEN column[q.ticket] ELSE q.to

Commit(r) ==
    LET q == requests[r] IN
    /\ q.step = "read"
    /\ column' = [column EXCEPT ![q.ticket] = ColumnAfter(q)]
    /\ requests' = [requests EXCEPT ![r].step = "committed"]
    /\ UNCHANGED <<shown, load, socket, inbox, missed, moves, loads>>

\* Fault: a later event overtakes the ones a socket has not forwarded.
FaultForwarded(p, e) == IF socket[p] = "open" THEN <<e>> \o inbox[p] ELSE inbox[p]

\* Fault: an event is dropped when the socket is busy with another.
FaultDropBusy(p, e) ==
    IF socket[p] = "open" /\ inbox[p] = <<>> THEN <<e>> ELSE inbox[p]

\* Redis passes a message on to the subscribers of the moment, in order.
Forwarded(p, e) == IF socket[p] = "open" THEN Append(inbox[p], e) ELSE inbox[p]

\* An event that page p did not get: the board it shows and the one on its
\* way to it lack the change.
PassedBy(Pages) ==
    /\ missed' = [p \in Tab |-> missed[p] \/ p \in Pages]
    /\ load' = [p \in Tab |->
           [load[p] EXCEPT !.gap = @ \/ (p \in Pages /\ load[p].step = "read")]]

\* publish_ticket_update, after the commit and outside its transaction.
Publish(r) ==
    LET q == requests[r]
        e == [ticket |-> q.ticket, to |-> q.to, by |-> q.by]
    IN
    /\ q.step = "committed"
    /\ inbox' = [p \in Tab |-> Forwarded(p, e)]
    /\ PassedBy({p \in Tab : socket[p] # "open"})
    /\ requests' = [requests EXCEPT ![r].step = "answered"]
    /\ UNCHANGED <<column, shown, socket, moves, loads>>

\* Publishing fails (Redis, or one of the publishes before it): the page is
\* told that a committed move failed.
PublishFail(r) ==
    /\ requests[r].step = "committed"
    /\ PassedBy(Tab)
    /\ requests' = [requests EXCEPT ![r].step = "failed"]
    /\ UNCHANGED <<column, shown, socket, inbox, moves, loads>>

\* The process of the request dies, or the response is lost: the fetch
\* rejects and the page neither keeps nor undoes anything.
Crash(r) ==
    /\ requests[r] # Idle
    /\ IF requests[r].step = "committed" THEN PassedBy(Tab)
       ELSE UNCHANGED <<missed, load>>
    /\ requests' = [requests EXCEPT ![r] = Idle]
    /\ UNCHANGED <<column, shown, socket, inbox, moves, loads>>

----------------------------------------------------------------------------
ServerStep(r) == Read(r) \/ Commit(r) \/ Publish(r) \/ Reply(r)
PageStep(p) == LoadRead(p) \/ LoadReply(p) \/ Receive(p)

Next ==
    \/ \E r \in Request, p \in Tab, t \in Ticket, c \in Column : Move(r, p, t, c)
    \/ \E r \in Request : ServerStep(r) \/ Refuse(r) \/ PublishFail(r) \/ Crash(r)
    \/ \E p \in Tab : \/ PageStep(p) \/ Reload(p) \/ LoadFail(p) \/ Open(p)
                      \/ Subscribe(p) \/ Close(p)

\* The event loops of the server and of the browser run what is ready.
\* Users, connections and failures are left to themselves.
Fairness ==
    /\ \A r \in Request : WF_vars(ServerStep(r))
    /\ \A p \in Tab : WF_vars(PageStep(p))

Spec == Init /\ [][Next]_vars
FairSpec == Spec /\ Fairness

----------------------------------------------------------------------------
(* Properties *)

\* A page whose user moves nothing, on any of the user's pages.
Follower == {p \in Tab : \A w \in Tab : UserOf[w] = UserOf[p] => MayMove[w] = {}}

\* A page with a board and a live socket that no event has passed by.
Following(p) ==
    /\ shown[p] # None
    /\ socket[p] = "open"
    /\ load[p].step # "read"
    /\ ~missed[p]

\* The last word on ticket t has been published and page p has handled it.
Settled(p, t) ==
    /\ \A r \in Request : requests[r].step = "committed" => requests[r].ticket # t
    /\ \A i \in DOMAIN inbox[p] : inbox[p][i].ticket # t

\* A following page shows a ticket where the database has it as soon as the
\* events of that ticket are handled: fetches, subscriptions and events in
\* any order lose nothing but what "missed" records.
FollowerCurrent ==
    \A p \in Follower, t \in Ticket :
        Following(p) /\ Settled(p, t) => shown[p][t] = column[t]

\* A page that keeps following ends up with the board of the database.
FollowerCatchesUp ==
    \A p \in Follower : <>[](Following(p) => shown[p] = column)

=============================================================================
