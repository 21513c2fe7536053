--------------------------------- MODULE Board ---------------------------------
(***************************************************************************)
(* The columns of one project's board (app/api/workflow_states.py) and the *)
(* tickets in them: which column a ticket is created in or moved to, and   *)
(* which number it gets from its organisation's counter                    *)
(* (app/api/tickets.py).                                                   *)
(*                                                                         *)
(* A request is a process, at READ COMMITTED: XRead is its SELECTs with    *)
(* the checks made on them, XCommit its flush and commit under the foreign *)
(* keys, and what is between them an UPDATE whose row locks it keeps until *)
(* it ends.                                                                *)
(***************************************************************************)
EXTENDS Naturals

CONSTANTS
    State,         \* ids of rows of workflow_states, used once each
    Ticket,        \* ids of rows of tickets, used once each
    Request,       \* HTTP requests that may be in progress at the same time
    ConfigRequest, \* those of them that may configure the columns
    Seeded,        \* the columns a new project has ...
    Backlog,       \* ... and the one of them that is its default
    None           \* no column, ticket or operation

ASSUME ConfigAssumption == ConfigRequest \subseteq Request
ASSUME SeededAssumption == Backlog \in Seeded /\ Seeded \subseteq State
ASSUME NoneAssumption ==
    None \notin State \cup Ticket \cup {"ticket", "move", "column", "remove"}

VARIABLES
    column,  \* is the row of workflow_states unused, stored or deleted?
    default, \* the columns with is_default
    place,   \* tickets.workflow_state_id, None for an id that is not used
    number,  \* tickets.ticket_number, 0 for an id that is not used
    counter, \* organizations.next_ticket_number
    req      \* the requests in progress

vars == <<column, default, place, number, counter, req>>
tables == <<column, default, place, number, counter>>
-----------------------------------------------------------------------------
\* state, ticket: the rows a request is about; number: the number it took;
\* flag: the is_default it writes; picked: the defaults its UPDATE found, and
\* cleared: the ones it locked and cleared.
Requests == [op: {None, "ticket", "move", "column", "remove"},
             at: {"idle", "number", "pick", "clear", "write"},
             state: State \cup {None}, ticket: Ticket \cup {None},
             number: Nat, flag: BOOLEAN,
             picked: SUBSET State, cleared: SUBSET State]
Idle == [op |-> None, at |-> "idle", state |-> None, ticket |-> None,
         number |-> 0, flag |-> FALSE, picked |-> {}, cleared |-> {}]

Columns == {s \in State : column[s] = "stored"}
Tickets == {t \in Ticket : place[t] # None}

TypeOK ==
    /\ column \in [State -> {"none", "stored", "gone"}]
    /\ default \in SUBSET Columns
    /\ place \in [Ticket -> State \cup {None}]
    /\ number \in [Ticket -> Nat]
    /\ counter \in Nat \ {0}
    /\ req \in [Request -> Requests]

Init ==
    /\ column = [s \in State |-> IF s \in Seeded THEN "stored" ELSE "none"]
    /\ default = {Backlog}
    /\ place = [t \in Ticket |-> None]
    /\ number = [t \in Ticket |-> 0]
    /\ counter = 1
    /\ req = [r \in Request |-> Idle]

Begin(r, request) == req[r] = Idle /\ req' = [req EXCEPT ![r] = request]
Finish(r) == req' = [req EXCEPT ![r] = Idle]
At(r, o, a) == req[r].op = o /\ req[r].at = a

\* The UPDATE of another request holds the lock on the row of s.
Locked(r, s) == \E q \in Request \ {r} : s \in req[q].cleared
-----------------------------------------------------------------------------
\* POST /tickets, in column s or, without one (None), in the default, of which
\* there must be exactly one.
CreateTicketRead(r, s) ==
    /\ \E c \in Columns :
         /\ IF s = None THEN default = {c} ELSE s = c
         /\ Begin(r, [Idle EXCEPT !.op = "ticket", !.at = "number", !.state = c])
    /\ UNCHANGED tables

\* _next_ticket_number increments the counter in one UPDATE: it waits for the
\* row lock of a creation that did, and reads what that one committed.
\* Fault: a SELECT of the counter before the UPDATE, which waits for nobody.
FaultCounterFree(r) == TRUE
CounterFree(r) == \A q \in Request \ {r} : ~At(q, "ticket", "write")

TakeNumber(r) ==
    /\ At(r, "ticket", "number")
    /\ CounterFree(r)
    /\ req' = [req EXCEPT ![r].at = "write", ![r].number = counter]
    /\ UNCHANGED tables

\* The INSERT needs its column; when it is gone the increment rolls back too.
CreateTicketCommit(r) ==
    /\ At(r, "ticket", "write")
    /\ IF req[r].state \in Columns
       THEN /\ \E t \in Ticket \ Tickets :
                 /\ place' = [place EXCEPT ![t] = req[r].state]
                 /\ number' = [number EXCEPT ![t] = req[r].number]
            /\ counter' = req[r].number + 1
       ELSE UNCHANGED <<place, number, counter>>
    /\ Finish(r)
    /\ UNCHANGED <<column, default>>

\* PATCH /tickets/{t} with a workflow_state_id that changes.
MoveRead(r, t, s) ==
    /\ t \in Tickets /\ s \in Columns /\ place[t] # s
    /\ Begin(r, [Idle EXCEPT !.op = "move", !.at = "write", !.state = s, !.ticket = t])
    /\ UNCHANGED tables

MoveCommit(r) ==
    /\ At(r, "move", "write")
    /\ place' = IF req[r].state \in Columns
                THEN [place EXCEPT ![req[r].ticket] = req[r].state] ELSE place
    /\ Finish(r)
    /\ UNCHANGED <<column, default, number, counter>>
-----------------------------------------------------------------------------
\* A column that becomes the default first clears the one there is.
FirstStage(flag) == IF flag THEN "pick" ELSE "write"

\* POST /workflow-states (s = None), PATCH /workflow-states/{s}.  A PATCH that
\* takes the default flag from a column without it writes nothing.
ColumnRead(r, s, flag) ==
    /\ r \in ConfigRequest
    /\ s # None => s \in Columns /\ (flag \/ s \in default)
    /\ Begin(r, [Idle EXCEPT !.op = "column", !.at = FirstStage(flag),
                             !.state = s, !.flag = flag])
    /\ UNCHANGED tables

\* _clear_existing_default: the rows the UPDATE finds when it starts; then it
\* waits for their locks and clears those that are defaults still.
ClearPick(r) ==
    /\ At(r, "column", "pick")
    /\ req' = [req EXCEPT ![r].at = "clear", ![r].picked = default]
    /\ UNCHANGED tables

ClearUpdate(r) ==
    /\ At(r, "column", "clear")
    /\ \A s \in req[r].picked : ~Locked(r, s)
    /\ req' = [req EXCEPT ![r].at = "write", ![r].cleared = req[r].picked \cap default]
    /\ UNCHANGED tables

\* A row that is gone by now is not updated (StaleDataError): all rolls back.
ColumnCommit(r) ==
    LET s == req[r].state
        Write(c) == IF req[r].flag THEN (default \ req[r].cleared) \cup {c}
                                   ELSE default \ {c}
    IN  /\ At(r, "column", "write")
        /\ \/ /\ s = None
              /\ \E c \in State : /\ column[c] = "none"
                                  /\ column' = [column EXCEPT ![c] = "stored"]
                                  /\ default' = Write(c)
           \/ /\ s # None /\ ~Locked(r, s)
              /\ default' = IF s \in Columns THEN Write(s) ELSE default
              /\ UNCHANGED column
        /\ Finish(r)
        /\ UNCHANGED <<place, number, counter>>

\* DELETE /workflow-states/{s}.
RemoveRead(r, s) ==
    /\ r \in ConfigRequest
    /\ s \in Columns
    /\ Begin(r, [Idle EXCEPT !.op = "remove", !.at = "write", !.state = s])
    /\ UNCHANGED tables

\* fk_tickets_workflow_state_project: ON DELETE RESTRICT.
Referenced(s) == \E t \in Ticket : place[t] = s

\* The flag is a column of the row.  Fault: it outlives the row.
FaultDefaultWithout(s) == default
DefaultWithout(s) == default \ {s}

RemoveCommit(r) ==
    LET s == req[r].state
    IN  /\ At(r, "remove", "write")
        /\ ~Locked(r, s)
        /\ IF Referenced(s)
           THEN UNCHANGED <<column, default>>
           ELSE column' = [column EXCEPT ![s] = "gone"] /\ default' = DefaultWithout(s)
        /\ Finish(r)
        /\ UNCHANGED <<place, number, counter>>

\* The process dies, or a statement fails: the transaction rolls back.
Crash(r) ==
    /\ req[r] # Idle
    /\ Finish(r)
    /\ UNCHANGED tables

Next == \E r \in Request :
    \/ \E s \in State \cup {None} : CreateTicketRead(r, s)
    \/ TakeNumber(r) \/ CreateTicketCommit(r)
    \/ \E t \in Ticket, s \in State : MoveRead(r, t, s)
    \/ MoveCommit(r)
    \/ \E s \in State \cup {None}, flag \in BOOLEAN : ColumnRead(r, s, flag)
    \/ ClearPick(r) \/ ClearUpdate(r) \/ ColumnCommit(r)
    \/ \E s \in State : RemoveRead(r, s)
    \/ RemoveCommit(r)
    \/ Crash(r)

Spec == Init /\ [][Next]_vars
-----------------------------------------------------------------------------
\* The tickets of an organisation are numbered 1, 2, 3, ... without a gap or a
\* number given twice, whatever creations overlap, fail or crash.
NumbersExact ==
    /\ {number[t] : t \in Tickets} = 1 .. counter - 1
    /\ \A t, u \in Tickets : number[t] = number[u] => t = u

\* No ticket is in a column that is gone, also when its column is deleted
\* while it is on its way there.
TicketColumnExists == \A t \in Tickets : place[t] \in Columns

\* At most one column is the default: with two, every creation without a
\* column fails.  Holds while no two requests are about to make a column
\* the default.
AtMostOneDefault == \A s, t \in default : s = t

\* The numbers, the columns and the default column are sound in every state,
\* whatever requests overlap, fail or crash, as long as no two are about to
\* make a column the default.  tickets.py:345-393, workflow_states.py:53-144.
BoardSound == NumbersExact /\ TicketColumnExists /\ AtMostOneDefault
=============================================================================
