---------------------------- MODULE Notifications ----------------------------
(* Notifications of one recipient: the rows an assignment or an accepted     *)
(* invite writes in its own transaction, the events published after the      *)
(* commit, and the bell of the recipient's pages                             *)
(* (app/services/notifications.py, app/api/notifications.py, update_ticket,  *)
(* components/NotificationBell.tsx).                                         *)
EXTENDS Naturals, Sequences, FiniteSets
INSTANCE SequencesExt

CONSTANTS
    Note,        \* ids of notification rows
    Request,     \* slots for requests of the organisation's members
    Bell,        \* mounted bells of the recipient, one for each page
    PageSize,    \* rows in one response of GET /notifications
    None

Me == "recipient"
Holder == {Me, "other"}     \* "other": any other member, or nobody

VARIABLES
    member,      \* whether the recipient's users row exists
    assignee,    \* the assignee of a ticket
    log,         \* the notification rows in the order of created_at
    read,        \* those with read_at set
    req,         \* request |-> its step and what it holds
    bell         \* bell |-> what the page shows and what is on its way there

vars == <<member, assignee, log, read, req, bell>>

Rows == ToSet(log)
Unread == Rows \ read
Idle == [at |-> "idle"]
Item == [id: Note, read: BOOLEAN]

Held ==
    {Idle}
      \cup [at: {"assign"}, new: Holder, mine: BOOLEAN]
      \cup [at: {"blocked"}]
      \cup [at: {"publish"}, note: Note]

\* count and items are React state; socket and inbox the WebSocket; unread,
\* page, marked and sweeping the responses on their way back. sweeps says
\* whether "mark all read" is ever used on this page.
BellState ==
    [count: Nat, items: Seq(Item) \cup {None}, socket: {"none", "open", "closed"},
     inbox: Seq(Note), unread: Nat \cup {None}, page: Seq(Item) \cup {None},
     marked: Note \cup {None}, sweeping: BOOLEAN, mounted: BOOLEAN, sweeps: BOOLEAN]

\* Type invariant: rows, requests and the bells' state have the shape of
\* models.py:633-674 and NotificationBell.tsx:49-51.
TypeOK ==
    /\ member \in BOOLEAN
    /\ assignee \in Holder
    /\ Rows \subseteq Note /\ read \subseteq Rows
    /\ req \in [Request -> Held]
    /\ \A b \in Bell : bell[b] \in BellState

Init ==
    /\ member = TRUE
    /\ assignee = "other"
    /\ log = <<>>
    /\ read = {}
    /\ req = [r \in Request |-> Idle]
    /\ \E S \in SUBSET Bell :
         bell = [b \in Bell |->
           [count |-> 0, items |-> None, socket |-> "none", inbox |-> <<>>,
            unread |-> None, page |-> None, marked |-> None, sweeping |-> FALSE,
            mounted |-> FALSE, sweeps |-> b \in S]]

Database == <<member, assignee, log, read>>

-----------------------------------------------------------------------------
(* Requests of other members.                                              *)

\* update_ticket up to its flush, for an assignee other than the loaded one
\* (previous_assignee_id). mine: the request is the recipient's own.
AssignRead(r) ==
    \E n \in Holder, own \in BOOLEAN :
      /\ req[r] = Idle
      /\ n = Me => assignee # Me /\ member
      /\ own => n = Me
      /\ req' = [req EXCEPT ![r] = [at |-> "assign", new |-> n, mine |-> own]]
      /\ UNCHANGED <<Database, bell>>

\* The comparison with the caller, the wrong way round.
FaultNotifies(h) == h.new = Me /\ h.mine

\* Whether an assignment writes a notification for the recipient.
Notifies(h) == h.new = Me /\ ~h.mine

\* create_notification inside the caller's transaction, for a fresh row.
Insert(r) ==
    \E n \in Note \ Rows :
      /\ log' = Append(log, n)
      /\ req' = [req EXCEPT ![r] = [at |-> "publish", note |-> n]]

\* The event goes out before the row is committed.
FaultAssignPublishes(r) ==
    /\ req[r].at = "assign" /\ Notifies(req[r])
    /\ \E n \in Note \ Rows :
         /\ req' = [req EXCEPT ![r] = [at |-> "publish", note |-> n]]
    /\ UNCHANGED <<Database, bell>>

\* One transaction: the ticket's new assignee and the notification. The
\* foreign keys want the assignee and the recipient to be members.
AssignCommit(r) ==
    /\ req[r].at = "assign"
    /\ req[r].new = Me => member
    /\ assignee' = req[r].new
    /\ IF Notifies(req[r])
       THEN Insert(r)
       ELSE req' = [req EXCEPT ![r] = Idle] /\ UNCHANGED log
    /\ UNCHANGED <<member, read, bell>>

\* signup with an invite that the recipient sent: the new user and the
\* notification in one transaction, if the inviter still exists.
InvitedCommit(r) ==
    /\ req[r] = Idle /\ member
    /\ Insert(r)
    /\ UNCHANGED <<member, assignee, read, bell>>

\* remove_member of the recipient. ON DELETE SET NULL of the foreign key
\* (assignee_id, org_id) would set both columns, and org_id is NOT NULL: the
\* DELETE fails as long as a ticket is assigned. The rows of notifications go
\* with the user, and open sockets stay.
RemoveMember(r) ==
    /\ req[r] = Idle /\ member
    /\ IF assignee = Me
       THEN /\ req' = [req EXCEPT ![r] = [at |-> "blocked"]]
            /\ UNCHANGED Database
       ELSE /\ member' = FALSE
            /\ log' = <<>> /\ read' = {}
            /\ UNCHANGED <<assignee, req>>
    /\ UNCHANGED bell

\* publish_notification: to every socket subscribed to the user's channel.
Publish(r) ==
    /\ req[r].at = "publish"
    /\ bell' = [b \in Bell |->
         IF bell[b].socket = "open"
         THEN [bell[b] EXCEPT !.inbox = Append(@, req[r].note)]
         ELSE bell[b]]
    /\ req' = [req EXCEPT ![r] = Idle]
    /\ UNCHANGED Database

\* An error response, a rollback or a process that dies.
EndRequest(r) ==
    /\ req[r] # Idle
    /\ req' = [req EXCEPT ![r] = Idle]
    /\ UNCHANGED <<Database, bell>>

-----------------------------------------------------------------------------
(* The bell. A fetch is answered by the server in one transaction and       *)
(* received later; what happens on its way there might as well come first.  *)

Show(b, s) == bell' = [bell EXCEPT ![b] = s]
Page == LET newest == Reverse(log)
        IN [i \in 1 .. (IF Len(log) < PageSize THEN Len(log) ELSE PageSize) |->
              [id |-> newest[i], read |-> newest[i] \in read]]
MarkRead(items, S) ==
    IF items = None THEN None
    ELSE [i \in DOMAIN items |->
            IF items[i].id \in S THEN [items[i] EXCEPT !.read = TRUE] ELSE items[i]]

\* notifications_socket subscribes; _run_room closes it, and nothing reopens.
OpenSocket(b) ==
    /\ bell[b].socket = "none" /\ member
    /\ Show(b, [bell[b] EXCEPT !.socket = "open"])
    /\ UNCHANGED <<Database, req>>

CloseSocket(b) ==
    /\ bell[b].socket = "open"
    /\ Show(b, [bell[b] EXCEPT !.socket = "closed", !.inbox = <<>>])
    /\ UNCHANGED <<Database, req>>

\* onmessage: one more unread, and a new first item of a loaded list.
Receive(b) ==
    /\ bell[b].inbox # <<>>
    /\ LET s == bell[b]
           new == [id |-> Head(s.inbox), read |-> FALSE]
       IN Show(b, [s EXCEPT !.inbox = Tail(@), !.count = @ + 1,
                            !.items = IF @ = None THEN None ELSE <<new>> \o @])
    /\ UNCHANGED <<Database, req>>

\* unread_count, and loadUnreadCount when it comes back.
CountRead(b) ==
    /\ ~bell[b].mounted
    /\ Show(b, [bell[b] EXCEPT !.mounted = TRUE, !.unread = Cardinality(Unread)])
    /\ UNCHANGED <<Database, req>>

CountReply(b) ==
    /\ bell[b].unread # None
    /\ Show(b, [bell[b] EXCEPT !.unread = None, !.count = bell[b].unread])
    /\ UNCHANGED <<Database, req>>

\* handleToggle loads the list when none is there yet.
ListRead(b) ==
    /\ bell[b].items = None /\ bell[b].page = None
    /\ Show(b, [bell[b] EXCEPT !.page = Page])
    /\ UNCHANGED <<Database, req>>

ListReply(b) ==
    /\ bell[b].page # None
    /\ Show(b, [bell[b] EXCEPT !.page = None, !.items = bell[b].page])
    /\ UNCHANGED <<Database, req>>

\* handleMarkRead on an unread item; mark_read finds the row or answers 404,
\* which the page ignores.
MarkServer(b) ==
    /\ bell[b].items # None /\ bell[b].marked = None
    /\ \E i \in DOMAIN bell[b].items :
         /\ ~bell[b].items[i].read /\ bell[b].items[i].id \in Rows
         /\ read' = read \cup {bell[b].items[i].id}
         /\ Show(b, [bell[b] EXCEPT !.marked = bell[b].items[i].id])
    /\ UNCHANGED <<member, assignee, log, req>>

MarkReply(b) ==
    /\ bell[b].marked # None
    /\ LET s == bell[b]
       IN Show(b, [s EXCEPT !.items = MarkRead(@, {s.marked}), !.marked = None,
                            !.count = IF @ = 0 THEN 0 ELSE @ - 1])
    /\ UNCHANGED <<Database, req>>

\* handleMarkAllRead, mark_all_read: the page marks every item it shows by
\* then, those that arrived after the UPDATE included.
SweepServer(b) ==
    /\ bell[b].sweeps /\ ~bell[b].sweeping /\ bell[b].count > 0
    /\ read' = Rows
    /\ Show(b, [bell[b] EXCEPT !.sweeping = TRUE])
    /\ UNCHANGED <<member, assignee, log, req>>

SweepReply(b) ==
    /\ bell[b].sweeping
    /\ Show(b, [bell[b] EXCEPT !.sweeping = FALSE, !.count = 0,
                               !.items = MarkRead(@, Note)])
    /\ UNCHANGED <<Database, req>>

-----------------------------------------------------------------------------
RequestStep(r) ==
    \/ AssignRead(r) \/ AssignCommit(r) \/ InvitedCommit(r)
    \/ RemoveMember(r) \/ Publish(r) \/ EndRequest(r)

BellStep(b) ==
    \/ OpenSocket(b) \/ CloseSocket(b) \/ Receive(b) \/ CountRead(b) \/ CountReply(b)
    \/ ListRead(b) \/ ListReply(b) \/ MarkServer(b) \/ MarkReply(b)
    \/ SweepServer(b) \/ SweepReply(b)

Next == (\E r \in Request : RequestStep(r)) \/ (\E b \in Bell : BellStep(b))
Spec == Init /\ [][Next]_vars

-----------------------------------------------------------------------------
Heard(b) ==
    ToSet(bell[b].inbox)
      \cup (IF bell[b].items = None THEN {} ELSE {i.id : i \in ToSet(bell[b].items)})

\* Nobody is told of a notification that is not in the table, whatever fails
\* between the commit and the events; and a removed recipient has neither
\* notifications nor tickets, although assignments were under way.
\* services/notifications.py:20-29, migrations 0009 and 0016, org.py:92-117.
NoGhost ==
    /\ member =>
         /\ \A r \in Request : req[r].at = "publish" => req[r].note \in Rows
         /\ \A b \in Bell : Heard(b) \subseteq Rows
    /\ ~member => Rows = {} /\ assignee # Me

\* Whenever somebody else's request makes the recipient the assignee, its
\* notification is committed with it, whatever the assignee was by then.
\* services/notifications.py:20-26, tickets.py:660-693.
AssignedIsTold ==
    [][assignee # Me /\ assignee' = Me =>
         \/ \E r \in Request : req[r].at = "assign" /\ req[r].mine /\ req'[r] = Idle
         \/ Len(log') = Len(log) + 1]_vars

\* Where "mark all" is not used, an item shown as read is read in the table,
\* whatever two pages mark and the list and the events race each other.
\* NotificationBell.tsx:127-134, api/notifications.py:51-67.
ShownReadIsRead ==
    \A b \in Bell :
      member /\ ~bell[b].sweeps /\ bell[b].items # None
        => \A i \in ToSet(bell[b].items) : i.read => i.id \in read

\* Both: what a bell says is so in the table.
BellTellsTruth == NoGhost /\ ShownReadIsRead

\* What models.py:371-373 says of a member with assigned tickets.
RemovalNotBlocked == \A r \in Request : req[r].at # "blocked"
=============================================================================
