----------------------------- MODULE TicketsProofs -----------------------------
(***************************************************************************)
(* Safety of Board for every set of columns, tickets and requests.  NumInv *)
(* is what the row lock on the counter gives to the creation that took a   *)
(* number; ClearInv what the UPDATE that cleared the default gives to a     *)
(* request that alone makes a column the default. The second part is about *)
(* TicketTree, the third about the two side by side, as they are checked.  *)
(***************************************************************************)
EXTENDS MCTickets, FiniteSetTheorems, WellFoundedInduction, TLAPS

USE DEF At, tables

\* What a request carries.
ArgInv == \A r \in Request :
    /\ req[r].op \in {"ticket", "move", "remove"} => req[r].state \in State
    /\ req[r].op = "move" => req[r].ticket \in Tickets
    /\ req[r].op \in {"column", "remove"} => r \in ConfigRequest

\* At most one creation holds the counter's row, and it took the number there.
NumInv == \A r \in Request :
    At(r, "ticket", "write") =>
        /\ req[r].number = counter
        /\ \A q \in Request : At(q, "ticket", "write") => q = r

IInv == TypeOK /\ ArgInv /\ NumInv /\ NumbersExact /\ TicketColumnExists

\* A request that is about to make a column the default, from its look at the
\* defaults there are to its commit.
Replacing(r) == At(r, "column", "clear") \/ (At(r, "column", "write") /\ req[r].flag)
ReplaceApart == \A r, q \in Request : Replacing(r) /\ Replacing(q) => r = q

\* What such a request takes the flag from includes every default there is.
ClearInv == \A r \in Request :
    /\ At(r, "column", "clear") => default \subseteq req[r].picked
    /\ At(r, "column", "write") /\ req[r].flag => default \subseteq req[r].cleared
-----------------------------------------------------------------------------
(* Requests, before and after a step changes their fields. *)

LEMMA IdleType == Idle \in Requests /\ Idle.op = None
BY DEF Idle, Requests

LEMMA NoneIsNoOp == None \notin {"ticket", "move", "column", "remove"}
BY NoneAssumption

LEMMA BeginType ==
    ASSUME TypeOK, NEW r \in Request, NEW q \in Requests, Begin(r, q)
    PROVE  /\ req' \in [Request -> Requests]
           /\ req'[r] = q
           /\ \A x \in Request \ {r} : req'[x] = req[x]
BY DEF TypeOK, Begin

LEMMA FinishType ==
    ASSUME TypeOK, NEW r \in Request, Finish(r)
    PROVE  /\ req' \in [Request -> Requests]
           /\ req'[r] = Idle
           /\ \A x \in Request \ {r} : req'[x] = req[x]
BY IdleType DEF TypeOK, Finish

LEMMA TakeNumberType ==
    ASSUME TypeOK, NEW r \in Request, TakeNumber(r)
    PROVE  /\ req' \in [Request -> Requests]
           /\ req'[r].op = req[r].op /\ req'[r].at = "write"
           /\ req'[r].state = req[r].state /\ req'[r].number = counter
           /\ \A x \in Request \ {r} : req'[x] = req[x]
<1>1. counter \in Nat
    BY DEF TypeOK
<1>2. ASSUME NEW q \in Requests
      PROVE  /\ [q EXCEPT !.at = "write", !.number = counter] \in Requests
             /\ [q EXCEPT !.at = "write", !.number = counter].op = q.op
             /\ [q EXCEPT !.at = "write", !.number = counter].at = "write"
             /\ [q EXCEPT !.at = "write", !.number = counter].state = q.state
             /\ [q EXCEPT !.at = "write", !.number = counter].number = counter
    BY <1>1 DEF Requests
<1>3. req' = [req EXCEPT ![r].at = "write", ![r].number = counter]
    BY DEF TakeNumber
<1> QED
    BY <1>2, <1>3 DEF TypeOK

LEMMA ClearPickType ==
    ASSUME TypeOK, NEW r \in Request, ClearPick(r)
    PROVE  /\ req' \in [Request -> Requests]
           /\ req'[r].op = req[r].op /\ req'[r].at = "clear"
           /\ req'[r].picked = default
           /\ \A x \in Request \ {r} : req'[x] = req[x]
<1>1. default \in SUBSET State
    BY DEF TypeOK, Columns
<1>2. ASSUME NEW q \in Requests
      PROVE  /\ [q EXCEPT !.at = "clear", !.picked = default] \in Requests
             /\ [q EXCEPT !.at = "clear", !.picked = default].op = q.op
             /\ [q EXCEPT !.at = "clear", !.picked = default].at = "clear"
             /\ [q EXCEPT !.at = "clear", !.picked = default].picked = default
    BY <1>1 DEF Requests
<1>3. req' = [req EXCEPT ![r].at = "clear", ![r].picked = default]
    BY DEF ClearPick
<1> QED
    BY <1>2, <1>3 DEF TypeOK

LEMMA ClearUpdateType ==
    ASSUME TypeOK, NEW r \in Request, ClearUpdate(r)
    PROVE  /\ req' \in [Request -> Requests]
           /\ req'[r].op = req[r].op /\ req'[r].at = "write"
           /\ req'[r].cleared = req[r].picked \cap default
           /\ \A x \in Request \ {r} : req'[x] = req[x]
<1> DEFINE C == req[r].picked \cap default
<1>1. C \in SUBSET State
    BY DEF TypeOK, Columns
<1> HIDE DEF C
<1>2. ASSUME NEW q \in Requests
      PROVE  /\ [q EXCEPT !.at = "write", !.cleared = C] \in Requests
             /\ [q EXCEPT !.at = "write", !.cleared = C].op = q.op
             /\ [q EXCEPT !.at = "write", !.cleared = C].at = "write"
             /\ [q EXCEPT !.at = "write", !.cleared = C].cleared = C
    BY <1>1 DEF Requests
<1>3. req' = [req EXCEPT ![r].at = "write", ![r].cleared = C]
    BY DEF ClearUpdate, C
<1> QED
    BY <1>2, <1>3 DEF TypeOK, C
-----------------------------------------------------------------------------
(* IInv is inductive. *)

LEMMA InitIInv == Init => IInv
<1> SUFFICES ASSUME Init PROVE IInv
    OBVIOUS
<1>1. TypeOK
    BY IdleType, SeededAssumption DEF Init, TypeOK, Columns
<1>2. Tickets = {}
    BY DEF Init, Tickets
<1>3. NumbersExact /\ TicketColumnExists
    BY <1>2 DEF Init, NumbersExact, TicketColumnExists
<1>4. ArgInv /\ NumInv
    BY IdleType, NoneIsNoOp DEF Init, ArgInv, NumInv
<1> QED
    BY <1>1, <1>3, <1>4 DEF IInv

\* A step that leaves the tables alone keeps IInv if the request it moves
\* carries what it should.
LEMMA QuietIInv ==
    ASSUME IInv, UNCHANGED tables, NEW r \in Request,
           req' \in [Request -> Requests],
           \A x \in Request \ {r} : req'[x] = req[x],
           req'[r].op \in {"ticket", "move", "remove"} => req'[r].state \in State,
           req'[r].op = "move" => req'[r].ticket \in Tickets,
           req'[r].op \in {"column", "remove"} => r \in ConfigRequest,
           ~(req'[r].op = "ticket" /\ req'[r].at = "write")
    PROVE  IInv'
<1>1. TypeOK' /\ NumbersExact' /\ TicketColumnExists' /\ Tickets' = Tickets
    BY DEF IInv, TypeOK, Columns, NumbersExact, TicketColumnExists, Tickets
<1>2. ArgInv'
    BY <1>1 DEF IInv, ArgInv
<1>3. NumInv'
    BY DEF IInv, NumInv
<1> QED
    BY <1>1, <1>2, <1>3 DEF IInv

\* The same for a step that ends its request after writing the tables.
LEMMA EndArgs ==
    ASSUME IInv, NEW r \in Request, Finish(r), Tickets \subseteq Tickets'
    PROVE  /\ ArgInv'
           /\ req' \in [Request -> Requests]
           /\ counter' = counter \/ At(r, "ticket", "write") => NumInv'
<1>1. /\ req' \in [Request -> Requests]
      /\ req'[r].op \notin {"ticket", "move", "column", "remove"}
      /\ \A x \in Request \ {r} : req'[x] = req[x]
    BY FinishType, IdleType, NoneIsNoOp DEF IInv
<1>2. ArgInv'
    BY <1>1 DEF IInv, ArgInv
<1>3. ASSUME counter' = counter \/ At(r, "ticket", "write") PROVE NumInv'
    BY <1>1, <1>3 DEF IInv, NumInv
<1> QED
    BY <1>1, <1>2, <1>3

\* A creation appends the number the counter stands at.
LEMMA CreateIInv ==
    ASSUME IInv, NEW r \in Request, CreateTicketCommit(r)
    PROVE  IInv'
<1>1. /\ At(r, "ticket", "write") /\ Finish(r)
      /\ UNCHANGED <<column, default>> /\ Columns' = Columns
    BY DEF CreateTicketCommit, Columns
<1>2. req[r].number = counter /\ counter \in Nat \ {0} /\ req[r].state \in State
    BY <1>1 DEF IInv, NumInv, TypeOK, ArgInv
<1>3. CASE req[r].state \notin Columns
  <2>1. UNCHANGED <<place, number, counter>>
      BY <1>3 DEF CreateTicketCommit
  <2>2. Tickets' = Tickets
      BY <2>1 DEF Tickets
  <2>3. /\ ArgInv' /\ req' \in [Request -> Requests]
        /\ counter' = counter \/ At(r, "ticket", "write") => NumInv'
      BY <1>1, <2>2, EndArgs
  <2>4. TypeOK' /\ NumbersExact' /\ TicketColumnExists'
      BY <1>1, <2>1, <2>2, <2>3
      DEF IInv, TypeOK, NumbersExact, TicketColumnExists, Columns
  <2> QED
      BY <1>1, <2>3, <2>4 DEF IInv
<1>4. CASE req[r].state \in Columns
  <2>1. PICK t \in Ticket \ Tickets :
            /\ place' = [place EXCEPT ![t] = req[r].state]
            /\ number' = [number EXCEPT ![t] = req[r].number]
      BY <1>4 DEF CreateTicketCommit
  <2>2. counter' = counter + 1
      BY <1>2, <1>4 DEF CreateTicketCommit
  <2>3. /\ number'[t] = counter /\ place'[t] \in Columns /\ place'[t] # None
        /\ \A u \in Ticket \ {t} : number'[u] = number[u] /\ place'[u] = place[u]
      BY <1>2, <1>4, <2>1, NoneAssumption DEF IInv, TypeOK
  <2>4. Tickets' = Tickets \cup {t}
      BY <2>3 DEF Tickets
  <2>5. /\ ArgInv' /\ req' \in [Request -> Requests]
        /\ counter' = counter \/ At(r, "ticket", "write") => NumInv'
      BY <1>1, <2>4, EndArgs
  <2>6. TypeOK'
      BY <1>1, <1>2, <2>1, <2>2, <2>5 DEF IInv, TypeOK, Columns
  <2>7. TicketColumnExists'
    <3>1. \A u \in Tickets : u # t /\ u \in Ticket /\ place[u] \in Columns
        BY DEF IInv, TicketColumnExists, Tickets
    <3> QED
        BY <1>1, <2>3, <2>4, <3>1 DEF TicketColumnExists
  <2>8. NumbersExact'
    <3>1. \A u \in Tickets : u \in Ticket \ {t} /\ number[u] \in 1 .. counter - 1
        BY DEF IInv, NumbersExact, Tickets
    <3>2. \A n \in 1 .. counter - 1 : \E u \in Tickets : number[u] = n
        BY DEF IInv, NumbersExact
    <3>3. \A u \in Tickets' : number'[u] \in 1 .. counter' - 1
      <4>1. counter \in 1 .. counter' - 1
          BY <1>2, <2>2
      <4>2. \A n \in 1 .. counter - 1 : n \in 1 .. counter' - 1
          BY <1>2, <2>2
      <4> QED
          BY <2>3, <2>4, <3>1, <4>1, <4>2
    <3>4. ASSUME NEW n \in 1 .. counter' - 1 PROVE \E u \in Tickets' : number'[u] = n
      <4>1. CASE n = counter
          BY <2>3, <2>4, <4>1
      <4>2. CASE n # counter
          BY <1>2, <2>2, <2>3, <2>4, <3>1, <3>2, <4>2
      <4> QED
          BY <4>1, <4>2
    <3>5. \A u, v \in Tickets' : number'[u] = number'[v] => u = v
        BY <1>2, <2>3, <2>4, <3>1 DEF IInv, NumbersExact
    <3> QED
        BY <3>3, <3>4, <3>5 DEF NumbersExact
  <2> QED
      BY <1>1, <2>5, <2>6, <2>7, <2>8 DEF IInv
<1> QED
    BY <1>3, <1>4

\* A move puts a ticket in a column that is still there.
LEMMA MoveIInv ==
    ASSUME IInv, NEW r \in Request, MoveCommit(r)
    PROVE  IInv'
<1>1. /\ Finish(r) /\ UNCHANGED <<column, default, number, counter>>
      /\ req[r].ticket \in Tickets /\ Columns' = Columns
    BY DEF MoveCommit, IInv, ArgInv, Columns
<1>2. /\ place' \in [Ticket -> State \cup {None}]
      /\ \A t \in Ticket : /\ place'[t] = None <=> place[t] = None
                           /\ place'[t] = place[t] \/ place'[t] \in Columns
  <2>1. CASE req[r].state \in Columns
    <3>1. place' = [place EXCEPT ![req[r].ticket] = req[r].state]
        BY <2>1 DEF MoveCommit
    <3>2. req[r].state \in State /\ req[r].state # None
        BY <2>1, NoneAssumption DEF Columns
    <3> QED
        BY <1>1, <2>1, <3>1, <3>2 DEF IInv, TypeOK, Tickets
  <2>2. CASE req[r].state \notin Columns
      BY <2>2 DEF MoveCommit, IInv, TypeOK
  <2> QED
      BY <2>1, <2>2
<1>3. Tickets' = Tickets
    BY <1>2 DEF Tickets
<1>4. ArgInv' /\ req' \in [Request -> Requests] /\ NumInv'
    BY <1>1, <1>3, EndArgs
<1>5. TypeOK' /\ NumbersExact'
    BY <1>1, <1>2, <1>3, <1>4 DEF IInv, TypeOK, Columns, NumbersExact
<1>6. TicketColumnExists'
    BY <1>1, <1>2, <1>3 DEF IInv, TicketColumnExists, Tickets
<1> QED
    BY <1>4, <1>5, <1>6 DEF IInv

\* A step on the columns keeps IInv if it removes no column with a ticket.
LEMMA ColumnsIInv ==
    ASSUME IInv, NEW r \in Request, Finish(r), UNCHANGED <<place, number, counter>>,
           column' \in [State -> {"none", "stored", "gone"}],
           default' \in SUBSET Columns',
           \A s \in Columns : s \in Columns' \/ ~Referenced(s)
    PROVE  IInv'
<1>1. Tickets' = Tickets
    BY DEF Tickets
<1>2. ArgInv' /\ req' \in [Request -> Requests] /\ NumInv'
    BY <1>1, EndArgs
<1>3. TypeOK' /\ NumbersExact'
    BY <1>1, <1>2 DEF IInv, TypeOK, NumbersExact
<1>4. TicketColumnExists'
    BY <1>1 DEF IInv, TicketColumnExists, Tickets, Referenced
<1> QED
    BY <1>2, <1>3, <1>4 DEF IInv

\* The steps on the columns, case by case.
LEMMA ColumnIInv ==
    ASSUME IInv, NEW r \in Request, ColumnCommit(r) \/ RemoveCommit(r)
    PROVE  IInv'
<1> DEFINE s == req[r].state
           Write(c) == IF req[r].flag THEN (default \ req[r].cleared) \cup {c}
                                      ELSE default \ {c}
<1>1. Finish(r) /\ UNCHANGED <<place, number, counter>>
    BY DEF ColumnCommit, RemoveCommit
<1>2. CASE ColumnCommit(r)
  <2>1. CASE s = None
    <3>1. PICK c \in State : /\ column[c] = "none"
                             /\ column' = [column EXCEPT ![c] = "stored"]
                             /\ default' = Write(c)
        BY <1>2, <2>1 DEF ColumnCommit
    <3>2. /\ column' \in [State -> {"none", "stored", "gone"}]
          /\ Columns' = Columns \cup {c}
        BY <3>1 DEF IInv, TypeOK, Columns
    <3>3. default' \in SUBSET Columns'
        BY <3>1, <3>2 DEF IInv, TypeOK
    <3> QED
        BY <1>1, <3>2, <3>3, ColumnsIInv
  <2>2. CASE s # None
    <3>1. UNCHANGED column /\ default' = IF s \in Columns THEN Write(s) ELSE default
        BY <1>2, <2>2 DEF ColumnCommit
    <3>2. Columns' = Columns /\ default' \in SUBSET Columns
        BY <3>1 DEF IInv, TypeOK, Columns
    <3> QED
        BY <1>1, <3>1, <3>2, ColumnsIInv DEF IInv, TypeOK
  <2> QED
      BY <2>1, <2>2
<1>3. CASE RemoveCommit(r)
  <2>1. CASE Referenced(s)
    <3>1. UNCHANGED <<column, default>> /\ Columns' = Columns
        BY <1>3, <2>1 DEF RemoveCommit, Columns
    <3> QED
        BY <1>1, <3>1, ColumnsIInv DEF IInv, TypeOK
  <2>2. CASE ~Referenced(s)
    <3>1. column' = [column EXCEPT ![s] = "gone"] /\ default' = default \ {s}
        BY <1>3, <2>2 DEF RemoveCommit, DefaultWithout
    <3>2. /\ column' \in [State -> {"none", "stored", "gone"}]
          /\ Columns' = Columns \ {s}
        BY <3>1 DEF IInv, TypeOK, Columns
    <3>3. default' \in SUBSET Columns'
        BY <3>1, <3>2 DEF IInv, TypeOK
    <3> QED
        BY <1>1, <2>2, <3>2, <3>3, ColumnsIInv
  <2> QED
      BY <2>1, <2>2
<1> QED
    BY <1>2, <1>3

\* Every step keeps IInv; one step of the proof per action of Next.
LEMMA NextIInv == IInv /\ [Next]_vars => IInv'
<1> SUFFICES ASSUME IInv, [Next]_vars PROVE IInv'
    OBVIOUS
<1>1. CASE UNCHANGED vars
    BY <1>1 DEF vars, IInv, TypeOK, ArgInv, NumInv, NumbersExact, TicketColumnExists,
                Columns, Tickets
<1>2. ASSUME NEW r \in Request, NEW s \in State \cup {None}, CreateTicketRead(r, s)
      PROVE IInv'
  <2>1. PICK c \in Columns :
            Begin(r, [Idle EXCEPT !.op = "ticket", !.at = "number", !.state = c])
      BY <1>2 DEF CreateTicketRead
  <2> DEFINE q == [Idle EXCEPT !.op = "ticket", !.at = "number", !.state = c]
  <2>2. c \in State /\ UNCHANGED tables
      BY <1>2 DEF CreateTicketRead, Columns
  <2>3. q \in Requests /\ q.op = "ticket" /\ q.at = "number" /\ q.state = c
      BY <2>2 DEF Idle, Requests
  <2>4. Begin(r, q)
      BY <2>1
  <2> HIDE DEF q
  <2> QED
      BY <2>2, <2>3, <2>4, BeginType, QuietIInv DEF IInv
<1>3. ASSUME NEW r \in Request, TakeNumber(r) PROVE IInv'
  <2>1. /\ req' \in [Request -> Requests]
        /\ req'[r].op = "ticket" /\ req'[r].at = "write"
        /\ req'[r].state = req[r].state /\ req'[r].number = counter
        /\ \A x \in Request \ {r} : req'[x] = req[x]
      BY <1>3, TakeNumberType DEF IInv, TakeNumber
  <2>2. /\ UNCHANGED tables
        /\ \A x \in Request \ {r} : ~At(x, "ticket", "write")
        /\ req[r].op = "ticket"
      BY <1>3 DEF TakeNumber, CounterFree
  <2>3. TypeOK' /\ NumbersExact' /\ TicketColumnExists' /\ Tickets' = Tickets
      BY <2>1, <2>2 DEF IInv, TypeOK, Columns, NumbersExact, TicketColumnExists, Tickets
  <2>4. ArgInv'
      BY <2>1, <2>2, <2>3 DEF IInv, ArgInv
  <2>5. NumInv'
      BY <2>1, <2>2 DEF NumInv
  <2> QED
      BY <2>3, <2>4, <2>5 DEF IInv
<1>4. ASSUME NEW r \in Request, CreateTicketCommit(r) PROVE IInv'
    BY <1>4, CreateIInv
<1>5. ASSUME NEW r \in Request, NEW t \in Ticket, NEW s \in State, MoveRead(r, t, s)
      PROVE IInv'
  <2> DEFINE q == [Idle EXCEPT !.op = "move", !.at = "write", !.state = s, !.ticket = t]
  <2>1. Begin(r, q) /\ UNCHANGED tables /\ t \in Tickets
      BY <1>5 DEF MoveRead
  <2>2. q \in Requests /\ q.op = "move" /\ q.state = s /\ q.ticket = t
      BY DEF Idle, Requests
  <2> HIDE DEF q
  <2> QED
      BY <2>1, <2>2, BeginType, QuietIInv DEF IInv
<1>6. ASSUME NEW r \in Request, MoveCommit(r) PROVE IInv'
    BY <1>6, MoveIInv
<1>7. ASSUME NEW r \in Request, NEW s \in State \cup {None}, NEW flag \in BOOLEAN,
             ColumnRead(r, s, flag)
      PROVE IInv'
  <2> DEFINE a == FirstStage(flag)
             q == [Idle EXCEPT !.op = "column", !.at = a, !.state = s, !.flag = flag]
  <2>1. Begin(r, q) /\ UNCHANGED tables /\ r \in ConfigRequest
      BY <1>7 DEF ColumnRead
  <2>2. a \in {"pick", "write"}
      BY DEF FirstStage
  <2> HIDE DEF a
  <2>3. q \in Requests /\ q.op = "column"
      BY <2>2 DEF Idle, Requests
  <2> HIDE DEF q
  <2> QED
      BY <2>1, <2>3, BeginType, QuietIInv DEF IInv
<1>8. ASSUME NEW r \in Request, ClearPick(r) \/ ClearUpdate(r) PROVE IInv'
  <2>1. /\ req' \in [Request -> Requests] /\ req'[r].op = req[r].op
        /\ \A x \in Request \ {r} : req'[x] = req[x]
      BY <1>8, ClearPickType, ClearUpdateType DEF IInv
  <2>2. req[r].op = "column" /\ UNCHANGED tables
      BY <1>8 DEF ClearPick, ClearUpdate
  <2>3. r \in ConfigRequest
      BY <2>2 DEF IInv, ArgInv
  <2> QED
      BY <2>1, <2>2, <2>3, QuietIInv
<1>9. ASSUME NEW r \in Request, ColumnCommit(r) \/ RemoveCommit(r) PROVE IInv'
    BY <1>9, ColumnIInv
<1>10. ASSUME NEW r \in Request, NEW s \in State, RemoveRead(r, s) PROVE IInv'
  <2> DEFINE q == [Idle EXCEPT !.op = "remove", !.at = "write", !.state = s]
  <2>1. Begin(r, q) /\ UNCHANGED tables /\ r \in ConfigRequest
      BY <1>10 DEF RemoveRead
  <2>2. q \in Requests /\ q.op = "remove" /\ q.state = s
      BY DEF Idle, Requests
  <2> HIDE DEF q
  <2> QED
      BY <2>1, <2>2, BeginType, QuietIInv DEF IInv
<1>11. ASSUME NEW r \in Request, Crash(r) PROVE IInv'
  <2>1. Finish(r) /\ UNCHANGED tables
      BY <1>11 DEF Crash
  <2> QED
      BY <2>1, FinishType, IdleType, NoneIsNoOp, QuietIInv DEF IInv
<1> QED
    BY <1>1, <1>2, <1>3, <1>4, <1>5, <1>6, <1>7, <1>8, <1>9, <1>10, <1>11 DEF Next

LEMMA SpecIInv == Spec => []IInv
BY InitIInv, NextIInv, PTL DEF Spec

\* The tables and the requests always have their types, and a column that is
\* the default is a column of the board.
THEOREM BoardTypes == Spec => []TypeOK
<1>1. IInv => TypeOK
    BY DEF IInv
<1> QED
    BY <1>1, SpecIInv, PTL

\* Ticket numbers are 1, 2, 3, ... without gaps or repetitions.
THEOREM NumbersExactHolds == Spec => []NumbersExact
<1>1. IInv => NumbersExact
    BY DEF IInv
<1> QED
    BY <1>1, SpecIInv, PTL

\* No ticket is ever in a column that is gone.
THEOREM TicketColumnExistsHolds == Spec => []TicketColumnExists
<1>1. IInv => TicketColumnExists
    BY DEF IInv
<1> QED
    BY <1>1, SpecIInv, PTL
-----------------------------------------------------------------------------
(* The default: replacements that do not overlap. *)

\* What the next lemmas show of each step.
OneDefault == AtMostOneDefault /\ ClearInv

\* A step that makes no column the default, and moves no request into a stage
\* that relies on the defaults.
LEMMA QuietDefault ==
    ASSUME OneDefault, default' \subseteq default, NEW r \in Request,
           \A x \in Request \ {r} : req'[x] = req[x],
           \/ req'[r].op # "column"
           \/ req'[r].at \notin {"clear", "write"}
           \/ req'[r].at = "write" /\ ~req'[r].flag
    PROVE  OneDefault'
BY DEF OneDefault, AtMostOneDefault, ClearInv, At

\* A step that ends the only request that replaces defaults may change them.
LEMMA ReplaceDefault ==
    ASSUME ReplaceApart, IInv, NEW r \in Request, Replacing(r), Finish(r),
           \A s, t \in default' : s = t
    PROVE  OneDefault'
<1>1. \A x \in Request \ {r} : ~Replacing(x)
    BY DEF ReplaceApart
<1>2. \A x \in Request : ~Replacing(x)'
    BY <1>1, FinishType, IdleType, NoneIsNoOp DEF IInv, Replacing, At
<1> QED
    BY <1>2 DEF OneDefault, AtMostOneDefault, ClearInv, Replacing

LEMMA NextOneDefault ==
    ASSUME ReplaceApart, IInv, OneDefault, [Next]_vars
    PROVE  OneDefault'
<1>1. CASE UNCHANGED vars
    BY <1>1 DEF vars, OneDefault, AtMostOneDefault, ClearInv
<1>2. ASSUME NEW r \in Request, Finish(r), default' \subseteq default PROVE OneDefault'
    BY <1>2, FinishType, IdleType, NoneIsNoOp, QuietDefault DEF IInv
<1>3. ASSUME NEW r \in Request, NEW q \in Requests, Begin(r, q), UNCHANGED default,
             q.op # "column" \/ q.at = "pick" \/ (q.at = "write" /\ ~q.flag)
      PROVE OneDefault'
    BY <1>3, BeginType, QuietDefault DEF IInv
<1>4. ASSUME NEW r \in Request, NEW s \in State \cup {None}, CreateTicketRead(r, s)
      PROVE OneDefault'
  <2>1. PICK c \in Columns :
            Begin(r, [Idle EXCEPT !.op = "ticket", !.at = "number", !.state = c])
      BY <1>4 DEF CreateTicketRead
  <2> DEFINE q == [Idle EXCEPT !.op = "ticket", !.at = "number", !.state = c]
  <2>2. c \in State /\ UNCHANGED default
      BY <1>4 DEF CreateTicketRead, Columns
  <2>3. q \in Requests /\ q.op = "ticket"
      BY <2>2 DEF Idle, Requests
  <2>4. Begin(r, q)
      BY <2>1
  <2> HIDE DEF q
  <2> QED
      BY <1>3, <2>2, <2>3, <2>4
<1>5. ASSUME NEW r \in Request, TakeNumber(r) PROVE OneDefault'
  <2>1. /\ UNCHANGED default /\ req'[r].op = "ticket"
        /\ \A x \in Request \ {r} : req'[x] = req[x]
      BY <1>5, TakeNumberType DEF TakeNumber, IInv
  <2> QED
      BY <2>1, QuietDefault
<1>6. ASSUME NEW r \in Request, NEW t \in Ticket, NEW s \in State, MoveRead(r, t, s)
      PROVE OneDefault'
  <2> DEFINE q == [Idle EXCEPT !.op = "move", !.at = "write", !.state = s, !.ticket = t]
  <2>1. Begin(r, q) /\ UNCHANGED default
      BY <1>6 DEF MoveRead
  <2>2. q \in Requests /\ q.op = "move"
      BY DEF Idle, Requests
  <2> HIDE DEF q
  <2> QED
      BY <1>3, <2>1, <2>2
<1>7. ASSUME NEW r \in Request, NEW s \in State \cup {None}, NEW flag \in BOOLEAN,
             ColumnRead(r, s, flag)
      PROVE OneDefault'
  <2> DEFINE a == FirstStage(flag)
             q == [Idle EXCEPT !.op = "column", !.at = a, !.state = s, !.flag = flag]
  <2>1. Begin(r, q) /\ UNCHANGED default
      BY <1>7 DEF ColumnRead
  <2>2. a = "pick" \/ (a = "write" /\ ~flag)
      BY DEF FirstStage
  <2> HIDE DEF a
  <2>3. q \in Requests /\ q.at = a /\ q.flag = flag
      BY <2>2 DEF Idle, Requests
  <2> HIDE DEF q
  <2> QED
      BY <1>3, <2>1, <2>2, <2>3
<1>8. ASSUME NEW r \in Request, ClearPick(r) PROVE OneDefault'
  <2>1. /\ UNCHANGED default /\ req'[r].at = "clear" /\ req'[r].picked = default
        /\ \A x \in Request \ {r} : req'[x] = req[x]
      BY <1>8, ClearPickType DEF ClearPick, IInv
  <2> QED
      BY <2>1 DEF OneDefault, AtMostOneDefault, ClearInv
<1>9. ASSUME NEW r \in Request, ClearUpdate(r) PROVE OneDefault'
  <2>1. /\ UNCHANGED default /\ req'[r].at = "write"
        /\ req'[r].cleared = req[r].picked \cap default
        /\ \A x \in Request \ {r} : req'[x] = req[x]
      BY <1>9, ClearUpdateType DEF ClearUpdate, IInv
  <2>2. default \subseteq req[r].picked
      BY <1>9 DEF ClearUpdate, OneDefault, ClearInv
  <2> QED
      BY <2>1, <2>2 DEF OneDefault, AtMostOneDefault, ClearInv
<1>10. ASSUME NEW r \in Request, ColumnCommit(r) PROVE OneDefault'
  <2>1. Finish(r) /\ At(r, "column", "write")
      BY <1>10 DEF ColumnCommit
  <2>2. req[r].flag => default \subseteq req[r].cleared
      BY <1>10 DEF ColumnCommit, OneDefault, ClearInv
  <2>3. PICK c : \/ default' = default
                 \/ default' = IF req[r].flag THEN (default \ req[r].cleared) \cup {c}
                                              ELSE default \ {c}
      BY <1>10 DEF ColumnCommit
  <2>4. CASE req[r].flag
    <3>1. \A s, t \in default' : s = t
        BY <2>2, <2>3, <2>4 DEF OneDefault, AtMostOneDefault
    <3> QED
        BY <2>1, <2>4, <3>1, ReplaceDefault DEF Replacing
  <2>5. CASE ~req[r].flag
      BY <1>2, <2>1, <2>3, <2>5
  <2> QED
      BY <2>4, <2>5
<1>11. ASSUME NEW r \in Request, NEW s \in State, RemoveRead(r, s) PROVE OneDefault'
  <2> DEFINE q == [Idle EXCEPT !.op = "remove", !.at = "write", !.state = s]
  <2>1. Begin(r, q) /\ UNCHANGED default
      BY <1>11 DEF RemoveRead
  <2>2. q \in Requests /\ q.op = "remove"
      BY DEF Idle, Requests
  <2> HIDE DEF q
  <2> QED
      BY <1>3, <2>1, <2>2
<1>12. ASSUME NEW r \in Request, RemoveCommit(r) PROVE OneDefault'
  <2>1. Finish(r) /\ default' \in {default, default \ {req[r].state}}
      BY <1>12 DEF RemoveCommit, DefaultWithout
  <2> QED
      BY <1>2, <2>1
<1>13. ASSUME NEW r \in Request, CreateTicketCommit(r) \/ MoveCommit(r) \/ Crash(r)
       PROVE OneDefault'
    BY <1>2, <1>13 DEF CreateTicketCommit, MoveCommit, Crash
<1> QED
    BY <1>1, <1>4, <1>5, <1>6, <1>7, <1>8, <1>9, <1>10, <1>11, <1>12, <1>13 DEF Next

\* While no two requests replace the default at once at most one column is it,
\* so the lookup of a ticket without a column never finds two.
THEOREM AtMostOneDefaultHolds == Spec /\ []ReplaceApart => []AtMostOneDefault
<1>1. Init => OneDefault
    BY IdleType, NoneIsNoOp DEF Init, OneDefault, AtMostOneDefault, ClearInv, At
<1>2. ReplaceApart /\ IInv /\ OneDefault /\ [Next]_vars => OneDefault'
    BY NextOneDefault
<1>3. OneDefault => AtMostOneDefault
    BY DEF OneDefault
<1> QED
    BY <1>1, <1>2, <1>3, SpecIInv, PTL DEF Spec

(* The three together.                                                      *)

\* Numbers, columns and the default column are sound in every reachable state
\* as long as no two requests replace the default at once.
THEOREM BoardSoundHolds == Spec /\ []ReplaceApart => []BoardSound
<1>1. NumbersExact /\ TicketColumnExists /\ AtMostOneDefault => BoardSound
    BY DEF BoardSound
<1> QED BY <1>1, NumbersExactHolds, TicketColumnExistsHolds, AtMostOneDefaultHolds, PTL
-----------------------------------------------------------------------------
(* TicketTree, for any number of tickets and requests: the parent rule of    *)
(* tickets whose type is left alone, and what a deletion leaves.            *)

\* A row that a subtask may hang under.
Fits(p) == Tree!Exists(p) /\ row[p].type \in {"story", "task"}

\* The parent rule in the rows, with the parent's existence.
RowsFit == \A t \in Node : Tree!Settled(t) /\ row[t].type = "subtask" => Fits(row[t].parent)

\* What the requests have checked still holds of parents of a settled type.
CreateFits(h) ==
    h.at = "create" /\ h.type = "subtask" /\ h.parent \notin Retype \cup {None}
      => Fits(h.parent)
PatchFits(h) ==
    h.at = "patch" =>
      /\ Tree!Exists(h.ticket)
      /\ h.type # Unset => h.ticket \in Retype
      /\ /\ h.ticket \notin Retype /\ row[h.ticket].type = "subtask"
         /\ h.parent \notin Retype \cup {None, Unset}
         => Fits(h.parent)
FlagFits(h) == h.at \in {"delete", "restore"} => Tree!Exists(h.ticket)
ReqsFit == \A r \in Editor : CreateFits(edit[r]) /\ PatchFits(edit[r]) /\ FlagFits(edit[r])

\* A deletion that nothing overtook is of a ticket that still has no live child.
AloneInv ==
    \A r \in Editor :
      edit[r].at = "delete" /\ r \notin overtaken => ~Tree!HasLiveChildren(edit[r].ticket)

TreeInv == Tree!TypeOK /\ RowsFit /\ ReqsFit /\ AloneInv

-----------------------------------------------------------------------------
(* The records of requests.                                                 *)

\* What a request holds at each step.
LEMMA HeldFields ==
    ASSUME NEW h \in Tree!Held
    PROVE  /\ h.at \in {"idle", "create", "patch", "delete", "restore"}
           /\ h.at = "create" => h.type \in Type /\ h.parent \in Node \cup {None}
           /\ h.at = "patch" => /\ h.ticket \in Node
                                /\ h.type \in Type \cup {Unset}
                                /\ h.parent \in Node \cup {None, Unset}
           /\ h.at \in {"delete", "restore"} => h.ticket \in Node
BY DEF Tree!Held, Tree!Idle

\* An idle request has checked nothing.
LEMMA IdleFits == CreateFits(Tree!Idle) /\ PatchFits(Tree!Idle) /\ FlagFits(Tree!Idle) /\ Tree!Idle \in Tree!Held
BY DEF CreateFits, PatchFits, FlagFits, Tree!Idle, Tree!Held

\* The initial state satisfies the invariant.
LEMMA TreeInitHolds == ASSUME Tree!InstanceOK, Tree!Init PROVE TreeInv
<1>1. Tree!TypeOK
  BY DEF Tree!Init, Tree!TypeOK, Tree!Held
<1>2. RowsFit
  BY DEF Tree!Init, RowsFit, Tree!Settled, Tree!Exists
<1>3. ReqsFit
  BY IdleFits DEF Tree!Init, ReqsFit
<1>4. AloneInv
  BY DEF Tree!Init, AloneInv, Tree!Idle
<1> QED
  BY <1>1, <1>2, <1>3, <1>4 DEF TreeInv

-----------------------------------------------------------------------------
(* Steps that leave the rows alone: what one request is about becomes h.    *)

\* The read steps and the ends of requests keep the invariant if what they
\* take along does.
LEMMA HoldKeeps ==
    ASSUME Tree!InstanceOK, TreeInv, NEW r \in Editor, NEW h \in Tree!Held,
           edit' = [edit EXCEPT ![r] = h], UNCHANGED row,
           overtaken' \subseteq Editor,
           overtaken \ {r} \subseteq overtaken',
           CreateFits(h), PatchFits(h), FlagFits(h),
           h.at = "delete" => ~Tree!HasLiveChildren(h.ticket)
    PROVE  TreeInv'
<1>1. /\ edit'[r] = h
      /\ \A q \in Editor : q # r => edit'[q] = edit[q]
  BY DEF TreeInv, Tree!TypeOK
<1>2. Tree!TypeOK'
  BY DEF TreeInv, Tree!TypeOK
<1>3. RowsFit'
  BY DEF TreeInv, RowsFit, Tree!Settled, Tree!Exists, Fits
<1>4. ASSUME NEW q \in Editor
      PROVE  CreateFits(edit[q])' /\ PatchFits(edit[q])' /\ FlagFits(edit[q])'
  <2>1. CASE q = r
    BY <1>1, <2>1 DEF CreateFits, PatchFits, FlagFits, Fits, Tree!Exists
  <2>2. CASE q # r
    BY <1>1, <2>2 DEF TreeInv, ReqsFit, CreateFits, PatchFits, FlagFits, Fits, Tree!Exists
  <2> QED
    BY <2>1, <2>2
<1>5. AloneInv'
  <2> SUFFICES ASSUME NEW q \in Editor, edit'[q].at = "delete", q \notin overtaken'
               PROVE  ~Tree!HasLiveChildren(edit[q].ticket)'
    BY DEF AloneInv
  <2>1. CASE q = r
    BY <1>1, <2>1 DEF Tree!HasLiveChildren, Tree!Live, Tree!Exists
  <2>2. CASE q # r
    BY <1>1, <2>2 DEF TreeInv, AloneInv, Tree!HasLiveChildren, Tree!Live, Tree!Exists
  <2> QED
    BY <2>1, <2>2
<1> QED
  BY <1>2, <1>3, <1>4, <1>5 DEF TreeInv, ReqsFit

\* The reads of the four handlers.
LEMMA ReadKeeps ==
    ASSUME Tree!InstanceOK, TreeInv, NEW r \in Editor,
           Tree!CreateRead(r) \/ Tree!PatchRead(r) \/ Tree!DeleteRead(r) \/ Tree!RestoreRead(r)
    PROVE  TreeInv'
<1>1. CASE Tree!CreateRead(r)
  <2>1. PICK ty \in Type, p \in Node \cup {None} :
           Tree!MayHang(ty, p) /\ Tree!Begin(r, [at |-> "create", type |-> ty, parent |-> p])
    BY <1>1 DEF Tree!CreateRead
  <2> DEFINE h == [at |-> "create", type |-> ty, parent |-> p]
  <2>2. h \in Tree!Held
    BY DEF Tree!Held
  <2>3. CreateFits(h) /\ PatchFits(h) /\ FlagFits(h)
    BY <2>1 DEF CreateFits, PatchFits, FlagFits, Tree!MayHang, Fits, Tree!Live
  <2> QED
    BY <2>1, <2>2, <2>3, HoldKeeps DEF Tree!Begin, TreeInv, Tree!TypeOK
<1>2. CASE Tree!PatchRead(r)
  <2>1. PICK t \in Node, ty \in Type \cup {Unset}, p \in Node \cup {None, Unset} :
           /\ Tree!Live(t)
           /\ ty # Unset => t \in Retype /\ ty # row[t].type
           /\ Tree!MayHang(IF ty = Unset THEN row[t].type ELSE ty,
                           IF p = Unset THEN row[t].parent ELSE p)
           /\ Tree!Begin(r, [at |-> "patch", ticket |-> t, type |-> ty, parent |-> p])
    BY <1>2 DEF Tree!PatchRead
  <2> DEFINE h == [at |-> "patch", ticket |-> t, type |-> ty, parent |-> p]
  <2>2. h \in Tree!Held
    BY DEF Tree!Held
  <2>3. CreateFits(h) /\ PatchFits(h) /\ FlagFits(h)
    BY <2>1 DEF CreateFits, PatchFits, FlagFits, Tree!MayHang, Fits, Tree!Live
  <2> QED
    BY <2>1, <2>2, <2>3, HoldKeeps DEF Tree!Begin, TreeInv, Tree!TypeOK
<1>3. CASE Tree!DeleteRead(r) \/ Tree!RestoreRead(r)
  <2>1. PICK t \in Node, op \in {"delete", "restore"} :
           /\ Tree!Exists(t)
           /\ op = "delete" => ~Tree!HasLiveChildren(t)
           /\ Tree!Begin(r, [at |-> op, ticket |-> t])
    BY <1>3 DEF Tree!DeleteRead, Tree!RestoreRead, Tree!Live
  <2> DEFINE h == [at |-> op, ticket |-> t]
  <2>2. h \in Tree!Held
    BY DEF Tree!Held
  <2>3. CreateFits(h) /\ PatchFits(h) /\ FlagFits(h)
    BY <2>1 DEF CreateFits, PatchFits, FlagFits
  <2> QED
    BY <2>1, <2>2, <2>3, HoldKeeps DEF Tree!Begin, TreeInv, Tree!TypeOK
<1> QED
  BY <1>1, <1>2, <1>3

\* A request that dies.
LEMMA AbortKeeps == ASSUME Tree!InstanceOK, TreeInv, NEW r \in Editor, Tree!Abort(r) PROVE TreeInv'
<1>1. /\ edit' = [edit EXCEPT ![r] = Tree!Idle] /\ UNCHANGED row
      /\ overtaken' = overtaken \ {r}
  BY DEF Tree!Abort
<1>2. Tree!Idle.at # "delete"
  BY DEF Tree!Idle
<1> QED
  BY <1>1, <1>2, IdleFits, HoldKeeps DEF TreeInv, Tree!TypeOK

-----------------------------------------------------------------------------
(* Commits.                                                                 *)

\* A commit writes one row, which exists from then on, and leaves every type
\* outside Retype alone.
Writes(r, t, new) ==
    /\ new \in Tree!Row
    /\ row' = [row EXCEPT ![t] = new]
    /\ Tree!Exists(t) /\ t \notin Retype => new.type = row[t].type
    /\ t \notin Retype /\ new.type = "subtask" /\ new.parent \notin Retype \cup {None}
         => Fits(new.parent)
    /\ Tree!End(r)

LEMMA WriteKeeps ==
    ASSUME Tree!InstanceOK, TreeInv, NEW r \in Editor, NEW t \in Node, NEW new, Writes(r, t, new)
    PROVE  TreeInv'
<1>1. /\ row'[t] = new /\ new \in Tree!Row /\ new # None
      /\ \A k \in Node : k # t => row'[k] = row[k]
  BY DEF TreeInv, Tree!TypeOK, Writes, Tree!InstanceOK
<1>2. /\ edit'[r] = Tree!Idle
      /\ \A q \in Editor : q # r => edit'[q] = edit[q]
      /\ overtaken' = {q \in Editor \ {r} : edit[q].at = "delete"}
  BY DEF TreeInv, Tree!TypeOK, Writes, Tree!End
<1>3. Tree!TypeOK'
  BY IdleFits DEF TreeInv, Tree!TypeOK, Writes, Tree!End
<1>4. \A k \in Node : Tree!Exists(k) => /\ Tree!Exists(k)'
                                        /\ k \notin Retype => row'[k].type = row[k].type
  BY <1>1 DEF Writes, Tree!Exists
<1>5. \A p \in Node : Fits(p) /\ p \notin Retype => Fits(p)'
  BY <1>4 DEF Fits
<1>6. RowsFit'
  <2> SUFFICES ASSUME NEW k \in Node, Tree!Settled(k)', row'[k].type = "subtask"
               PROVE  Fits(row[k].parent)'
    BY DEF RowsFit
  <2>1. row'[k].parent \in Node /\ row'[k].parent \notin Retype
    BY <1>3 DEF Tree!TypeOK, Tree!Settled, Tree!Exists, Tree!Row
  <2>2. Fits(row'[k].parent)
    <3>1. CASE k = t
      BY <1>1, <3>1 DEF Writes, Tree!Settled
    <3>2. CASE k # t
      BY <1>1, <3>2 DEF TreeInv, RowsFit, Tree!Settled, Tree!Exists
    <3> QED
      BY <3>1, <3>2
  <2>3. Fits(row[k].parent)'
    <3>1. \A p \in Node : (p \notin Retype /\ Fits(p)) => Fits(p)'
      BY <1>5
    <3> QED
      BY <2>1, <2>2, <3>1 DEF Fits, Tree!Exists
  <2> QED
    BY <2>3
<1>7. ReqsFit'
  <2> SUFFICES ASSUME NEW q \in Editor
               PROVE  CreateFits(edit[q])' /\ PatchFits(edit[q])' /\ FlagFits(edit[q])'
    BY DEF ReqsFit
  <2>1. CASE q = r
    BY <1>2, <2>1 DEF CreateFits, PatchFits, FlagFits, Tree!Idle
  <2>2. CASE q # r
    <3>1. edit'[q] = edit[q] /\ edit[q] \in Tree!Held
      BY <1>2, <2>2 DEF TreeInv, Tree!TypeOK
    <3>2. CreateFits(edit[q])'
      BY <1>5, <3>1, HeldFields DEF TreeInv, ReqsFit, CreateFits
    <3>3. PatchFits(edit[q])'
      BY <1>4, <1>5, <3>1, HeldFields DEF TreeInv, ReqsFit, PatchFits
    <3>4. FlagFits(edit[q])'
      BY <1>4, <3>1, HeldFields DEF TreeInv, ReqsFit, FlagFits
    <3> QED
      BY <3>2, <3>3, <3>4
  <2> QED
    BY <2>1, <2>2
<1>8. AloneInv'
  BY <1>2 DEF AloneInv, Tree!Idle
<1> QED
  BY <1>3, <1>6, <1>7, <1>8 DEF TreeInv

\* The commits of the four handlers.
LEMMA CommitKeeps ==
    ASSUME Tree!InstanceOK, TreeInv, NEW r \in Editor,
           Tree!CreateCommit(r) \/ Tree!PatchCommit(r) \/ Tree!FlagCommit(r)
    PROVE  TreeInv'
<1> DEFINE h == edit[r]
<1>0. h \in Tree!Held
  BY DEF TreeInv, Tree!TypeOK
<1>1. CASE Tree!CreateCommit(r)
  <2>1. PICK t \in Node :
           /\ ~Tree!Exists(t)
           /\ row' = [row EXCEPT ![t] = [type |-> h.type, parent |-> h.parent, live |-> TRUE]]
    BY <1>1 DEF Tree!CreateCommit
  <2>2. Writes(r, t, [type |-> h.type, parent |-> h.parent, live |-> TRUE])
    BY <1>0, <1>1, <2>1, HeldFields DEF TreeInv, ReqsFit, CreateFits, Tree!CreateCommit, Writes, Tree!Row
  <2> QED
    BY <2>2, WriteKeeps
<1>2. CASE Tree!PatchCommit(r)
  <2> DEFINE old == row[h.ticket]
             new == [old EXCEPT !.type = IF h.type = Unset THEN @ ELSE h.type,
                                !.parent = IF h.parent = Unset THEN @ ELSE h.parent]
  <2>1. /\ h.at = "patch" /\ h.ticket \in Node
        /\ h.type \in Type \cup {Unset} /\ h.parent \in Node \cup {None, Unset}
        /\ PatchFits(h)
    BY <1>0, <1>2, HeldFields DEF TreeInv, ReqsFit, Tree!PatchCommit
  <2>2. old \in Tree!Row
    BY <2>1 DEF TreeInv, Tree!TypeOK, PatchFits, Tree!Exists
  <2>3. /\ new \in Tree!Row
        /\ new.type = IF h.type = Unset THEN old.type ELSE h.type
        /\ new.parent = IF h.parent = Unset THEN old.parent ELSE h.parent
    BY <2>1, <2>2 DEF Tree!Row
  <2>4. row' = [row EXCEPT ![h.ticket] = new] /\ Tree!End(r)
    BY <1>2 DEF Tree!PatchCommit
  <2>5. h.ticket \notin Retype => new.type = old.type
    BY <2>1, <2>3 DEF PatchFits
  <2>6. h.ticket \notin Retype /\ new.type = "subtask" /\ new.parent \notin Retype \cup {None}
          => Fits(new.parent)
    BY <2>1, <2>3, <2>5 DEF TreeInv, RowsFit, Tree!Settled, PatchFits
  <2>7. Writes(r, h.ticket, new)
    BY <2>3, <2>4, <2>5, <2>6 DEF Writes
  <2> QED
    BY <2>1, <2>7, WriteKeeps
<1>3. CASE Tree!FlagCommit(r)
  <2> DEFINE old == row[h.ticket]
             new == [old EXCEPT !.live = h.at = "restore"]
  <2>1. h.ticket \in Node /\ FlagFits(h) /\ h.at \in {"delete", "restore"}
    BY <1>0, <1>3, HeldFields DEF TreeInv, ReqsFit, Tree!FlagCommit
  <2>2. old \in Tree!Row
    BY <2>1 DEF TreeInv, Tree!TypeOK, FlagFits, Tree!Exists
  <2>3. new \in Tree!Row /\ new.type = old.type /\ new.parent = old.parent
    BY <2>2 DEF Tree!Row
  <2>4. row' = [row EXCEPT ![h.ticket] = new] /\ Tree!End(r)
    BY <1>3 DEF Tree!FlagCommit
  <2>5. h.ticket \notin Retype /\ new.type = "subtask" /\ new.parent \notin Retype \cup {None}
          => Fits(new.parent)
    BY <2>1, <2>3 DEF TreeInv, RowsFit, Tree!Settled, FlagFits
  <2>6. Writes(r, h.ticket, new)
    BY <2>3, <2>4, <2>5 DEF Writes
  <2> QED
    BY <2>1, <2>6, WriteKeeps
<1> QED
  BY <1>1, <1>2, <1>3

-----------------------------------------------------------------------------
\* The invariant always holds.
LEMMA TreeNextKeeps == ASSUME Tree!InstanceOK, TreeInv, [Tree!Next]_Tree!vars PROVE TreeInv'
<1>1. CASE Tree!Next
  BY <1>1, ReadKeeps, CommitKeeps, AbortKeeps DEF Tree!Next
<1>2. CASE UNCHANGED Tree!vars
  BY <1>2
  DEF Tree!vars, TreeInv, Tree!TypeOK, RowsFit, ReqsFit, AloneInv, CreateFits, PatchFits, FlagFits, Fits,
      Tree!Settled, Tree!Exists, Tree!Live, Tree!HasLiveChildren
<1> QED
  BY <1>1, <1>2

\* The commit of a deletion that nothing overtook leaves no live child.
LEMMA TreeNoOrphan ==
    ASSUME TreeInv, [Tree!Next]_Tree!vars, NEW r \in Editor, NEW t \in Node,
           edit[r] = [at |-> "delete", ticket |-> t], r \notin overtaken,
           row'[t] # row[t], edit'[r] = Tree!Idle
    PROVE  ~Tree!HasLiveChildren(t)'
<1>1. PICK q \in Editor : Tree!CreateCommit(q) \/ Tree!PatchCommit(q) \/ Tree!FlagCommit(q)
  BY DEF Tree!Next, Tree!vars, Tree!Begin, Tree!Abort, Tree!CreateRead, Tree!PatchRead, Tree!DeleteRead, Tree!RestoreRead
<1>2. edit' = [edit EXCEPT ![q] = Tree!Idle]
  BY <1>1 DEF Tree!CreateCommit, Tree!PatchCommit, Tree!FlagCommit, Tree!End
<1>3. edit[r] # Tree!Idle
  BY DEF Tree!Idle
<1>4. q = r
  BY <1>2, <1>3 DEF TreeInv, Tree!TypeOK
<1>5. edit[q].at = "delete" /\ edit[q].ticket = t
  BY <1>4
<1>6. Tree!FlagCommit(q)
  BY <1>1, <1>5 DEF Tree!CreateCommit, Tree!PatchCommit
<1>7. row' = [row EXCEPT ![t].live = FALSE]
  BY <1>5, <1>6 DEF Tree!FlagCommit
<1>8. ~Tree!HasLiveChildren(t)
  BY <1>3 DEF TreeInv, AloneInv
<1>9. row[t] \in Tree!Row
  BY <1>5, <1>4 DEF TreeInv, Tree!TypeOK, ReqsFit, FlagFits, Tree!Exists
<1>10. /\ ~row'[t].live
       /\ \A k \in Node : k # t => row'[k] = row[k]
  BY <1>7, <1>9 DEF TreeInv, Tree!TypeOK, Tree!Row
<1> QED
  BY <1>8, <1>10 DEF Tree!HasLiveChildren, Tree!Live, Tree!Exists

-----------------------------------------------------------------------------
(* Ancestry: parents exist, and there are finitely many rows.               *)

There(p) == p # None => Tree!Exists(p)

\* A row's parent exists, as does one that a request is about to write; the
\* rows are as many as creations have committed.
AncestryInv ==
    /\ \A t \in Node : Tree!Exists(t) => There(row[t].parent)
    /\ \A r \in Editor : edit[r].at = "create" => There(edit[r].parent)
    /\ \A r \in Editor : edit[r].at = "patch" /\ edit[r].parent # Unset => There(edit[r].parent)
    /\ IsFiniteSet({t \in Node : Tree!Exists(t)})

LEMMA AncestryInit == Tree!Init => AncestryInv
<1> SUFFICES ASSUME Tree!Init PROVE AncestryInv
  OBVIOUS
<1>1. {t \in Node : Tree!Exists(t)} = {}
  BY DEF Tree!Init, Tree!Exists
<1> QED
  BY <1>1, FS_EmptySet DEF Tree!Init, AncestryInv, Tree!Exists, Tree!Idle

\* A request takes h along; the rows stay as they are.
LEMMA HoldAncestry ==
    ASSUME TreeInv, AncestryInv, NEW r \in Editor, NEW h \in Tree!Held,
           edit' = [edit EXCEPT ![r] = h], UNCHANGED row,
           h.at = "create" => There(h.parent),
           h.at = "patch" /\ h.parent # Unset => There(h.parent)
    PROVE  AncestryInv'
<1>1. edit'[r] = h /\ \A q \in Editor \ {r} : edit'[q] = edit[q]
  BY DEF TreeInv, Tree!TypeOK
<1>2. \A t : (Tree!Exists(t) <=> Tree!Exists(t)') /\ (There(t) <=> There(t)')
  BY DEF Tree!Exists, There
<1>3. {t \in Node : Tree!Exists(t)}' = {t \in Node : Tree!Exists(t)}
  BY <1>2
<1>4. \A q \in Editor :
        /\ edit'[q].at = "create" => There(edit'[q].parent)
        /\ edit'[q].at = "patch" /\ edit'[q].parent # Unset => There(edit'[q].parent)
  BY <1>1 DEF AncestryInv
<1>5. \A t \in Node : Tree!Exists(t) => There(row[t].parent)
  BY DEF AncestryInv
<1> QED
  BY <1>3, <1>4, <1>5 DEF AncestryInv, There, Tree!Exists

\* A commit writes one row, under a parent that exists.
LEMMA WriteAncestry ==
    ASSUME Tree!InstanceOK, TreeInv, AncestryInv, NEW r \in Editor, NEW t \in Node,
           NEW new \in Tree!Row, row' = [row EXCEPT ![t] = new], There(new.parent), Tree!End(r)
    PROVE  AncestryInv'
<1>1. row'[t] = new /\ new # None /\ \A k \in Node : k # t => row'[k] = row[k]
  BY DEF TreeInv, Tree!TypeOK, Tree!InstanceOK
<1>2. edit'[r] = Tree!Idle /\ \A q \in Editor \ {r} : edit'[q] = edit[q]
  BY DEF TreeInv, Tree!TypeOK, Tree!End
<1>3. \A k \in Node : Tree!Exists(k)' <=> (Tree!Exists(k) \/ k = t)
  BY <1>1 DEF Tree!Exists
<1>4. \A k \in Node \cup {None} : There(k) => There(k)'
  BY <1>3 DEF There, Tree!Exists
<1>5. {k \in Node : Tree!Exists(k)}' = {k \in Node : Tree!Exists(k)} \cup {t}
  BY <1>3
<1>6. IsFiniteSet({k \in Node : Tree!Exists(k)}')
  BY <1>5, FS_AddElement DEF AncestryInv
<1>7. ASSUME NEW k \in Node, Tree!Exists(k)' PROVE There(row[k].parent)'
  <2>1. CASE k = t
    <3>1. new.parent \in Node \cup {None}
      BY DEF Tree!Row
    <3> QED
      BY <1>1, <1>4, <2>1, <3>1 DEF There, Tree!Exists
  <2>2. CASE k # t
    <3>1. Tree!Exists(k) /\ row'[k] = row[k]
      BY <1>1, <1>3, <1>7, <2>2
    <3>2. row[k].parent \in Node \cup {None} /\ There(row[k].parent)
      BY <3>1 DEF TreeInv, Tree!TypeOK, Tree!Row, Tree!Exists, AncestryInv
    <3> QED
      BY <1>4, <3>1, <3>2 DEF There, Tree!Exists
  <2> QED
    BY <2>1, <2>2
<1>8. ASSUME NEW q \in Editor,
             edit'[q].at = "create" \/ (edit'[q].at = "patch" /\ edit'[q].parent # Unset)
      PROVE  There(edit[q].parent)'
  <2>1. q # r /\ edit'[q] = edit[q]
    BY <1>2, <1>8 DEF Tree!Idle
  <2>2. There(edit[q].parent)
    BY <1>8, <2>1 DEF AncestryInv
  <2>3. edit[q].parent \in Node \cup {None}
    BY <1>8, <2>1, HeldFields DEF TreeInv, Tree!TypeOK
  <2> QED
    BY <1>4, <2>1, <2>2, <2>3 DEF There, Tree!Exists
<1> QED
  BY <1>6, <1>7, <1>8 DEF AncestryInv

LEMMA AncestryKeeps ==
    ASSUME Tree!InstanceOK, TreeInv, AncestryInv, [Tree!Next]_Tree!vars
    PROVE  AncestryInv'
<1>1. ASSUME NEW r \in Editor, Tree!CreateRead(r) PROVE AncestryInv'
  <2>1. PICK ty \in Type, p \in Node \cup {None} :
           Tree!MayHang(ty, p) /\ Tree!Begin(r, [at |-> "create", type |-> ty, parent |-> p])
    BY <1>1 DEF Tree!CreateRead
  <2>2. [at |-> "create", type |-> ty, parent |-> p] \in Tree!Held
    BY DEF Tree!Held
  <2>3. There(p)
    BY <2>1 DEF Tree!MayHang, Tree!Live, There
  <2> QED
    BY <2>1, <2>2, <2>3, HoldAncestry DEF Tree!Begin
<1>2. ASSUME NEW r \in Editor, Tree!PatchRead(r) PROVE AncestryInv'
  <2>1. PICK t \in Node, ty \in Type \cup {Unset}, p \in Node \cup {None, Unset} :
           /\ Tree!MayHang(IF ty = Unset THEN row[t].type ELSE ty,
                           IF p = Unset THEN row[t].parent ELSE p)
           /\ Tree!Begin(r, [at |-> "patch", ticket |-> t, type |-> ty, parent |-> p])
    BY <1>2 DEF Tree!PatchRead
  <2>2. [at |-> "patch", ticket |-> t, type |-> ty, parent |-> p] \in Tree!Held
    BY DEF Tree!Held
  <2>3. p # Unset => There(p)
    BY <2>1 DEF Tree!MayHang, Tree!Live, There
  <2> QED
    BY <2>1, <2>2, <2>3, HoldAncestry DEF Tree!Begin
<1>3. ASSUME NEW r \in Editor, Tree!DeleteRead(r) \/ Tree!RestoreRead(r) PROVE AncestryInv'
  <2>1. PICK t \in Node, op \in {"delete", "restore"} :
           Tree!Begin(r, [at |-> op, ticket |-> t])
    BY <1>3 DEF Tree!DeleteRead, Tree!RestoreRead
  <2>2. [at |-> op, ticket |-> t] \in Tree!Held
    BY DEF Tree!Held
  <2> QED
    BY <2>1, <2>2, HoldAncestry DEF Tree!Begin
<1>4. ASSUME NEW r \in Editor, Tree!Abort(r) PROVE AncestryInv'
  <2>1. Tree!Idle \in Tree!Held /\ Tree!Idle.at = "idle"
    BY DEF Tree!Idle, Tree!Held
  <2> QED
    BY <1>4, <2>1, HoldAncestry DEF Tree!Abort
<1>5. ASSUME NEW r \in Editor, Tree!CreateCommit(r) PROVE AncestryInv'
  <2> DEFINE new == [type |-> edit[r].type, parent |-> edit[r].parent, live |-> TRUE]
  <2>1. PICK t \in Node : row' = [row EXCEPT ![t] = new]
    BY <1>5 DEF Tree!CreateCommit
  <2>2. edit[r] \in Tree!Held /\ edit[r].at = "create"
    BY <1>5 DEF TreeInv, Tree!TypeOK, Tree!CreateCommit
  <2>3. new \in Tree!Row
    BY <2>2, HeldFields DEF Tree!Row
  <2>4. There(new.parent)
    BY <2>2 DEF AncestryInv
  <2> QED
    BY <1>5, <2>1, <2>3, <2>4, WriteAncestry DEF Tree!CreateCommit
<1>6. ASSUME NEW r \in Editor, Tree!PatchCommit(r) PROVE AncestryInv'
  <2> DEFINE h == edit[r]
             old == row[h.ticket]
             new == [old EXCEPT !.type = IF h.type = Unset THEN @ ELSE h.type,
                                !.parent = IF h.parent = Unset THEN @ ELSE h.parent]
  <2>1. /\ h \in Tree!Held /\ h.at = "patch" /\ h.ticket \in Node
        /\ h.type \in Type \cup {Unset} /\ h.parent \in Node \cup {None, Unset}
        /\ Tree!Exists(h.ticket)
    BY <1>6, HeldFields DEF TreeInv, Tree!TypeOK, ReqsFit, PatchFits, Tree!PatchCommit
  <2>2. old \in Tree!Row
    BY <2>1 DEF TreeInv, Tree!TypeOK, Tree!Exists
  <2>3. /\ new \in Tree!Row
        /\ new.parent = IF h.parent = Unset THEN old.parent ELSE h.parent
    BY <2>1, <2>2 DEF Tree!Row
  <2>4. There(new.parent)
    BY <2>1, <2>3 DEF AncestryInv
  <2>5. row' = [row EXCEPT ![h.ticket] = new] /\ Tree!End(r)
    BY <1>6 DEF Tree!PatchCommit
  <2> QED
    BY <2>1, <2>3, <2>4, <2>5, WriteAncestry
<1>7. ASSUME NEW r \in Editor, Tree!FlagCommit(r) PROVE AncestryInv'
  <2> DEFINE h == edit[r]
             old == row[h.ticket]
             new == [old EXCEPT !.live = h.at = "restore"]
  <2>1. h \in Tree!Held /\ h.ticket \in Node /\ Tree!Exists(h.ticket)
    BY <1>7, HeldFields DEF TreeInv, Tree!TypeOK, ReqsFit, FlagFits, Tree!FlagCommit
  <2>2. old \in Tree!Row
    BY <2>1 DEF TreeInv, Tree!TypeOK, Tree!Exists
  <2>3. new \in Tree!Row /\ new.parent = old.parent
    BY <2>2 DEF Tree!Row
  <2>4. There(new.parent)
    BY <2>1, <2>3 DEF AncestryInv
  <2>5. row' = [row EXCEPT ![h.ticket] = new] /\ Tree!End(r)
    BY <1>7 DEF Tree!FlagCommit
  <2> QED
    BY <2>1, <2>3, <2>4, <2>5, WriteAncestry
<1>8. CASE UNCHANGED Tree!vars
  <2>1. {t \in Node : Tree!Exists(t)}' = {t \in Node : Tree!Exists(t)}
    BY <1>8 DEF Tree!vars, Tree!Exists
  <2> QED
    BY <1>8, <2>1 DEF Tree!vars, AncestryInv, There, Tree!Exists
<1> QED
  BY <1>1, <1>2, <1>3, <1>4, <1>5, <1>6, <1>7, <1>8 DEF Tree!Next

-----------------------------------------------------------------------------
(* The tree's response.                                                     *)

\* What is shown contains the roots and what hangs under it, before a step and
\* after it.
LEMMA ShownClosed ==
    /\ Tree!Roots \subseteq Tree!Shown /\ Tree!Children(Tree!Shown) \subseteq Tree!Shown
    /\ Tree!Roots' \subseteq Tree!Shown' /\ Tree!Children(Tree!Shown)' \subseteq Tree!Shown'
BY DEF Tree!Shown, Tree!Roots, Tree!Children

\* Nothing smaller does.
LEMMA ShownLeast ==
    ASSUME NEW S \in SUBSET Tree!Nodes, Tree!Roots \subseteq S, Tree!Children(S) \subseteq S
    PROVE  Tree!Shown \subseteq S
BY DEF Tree!Shown

LEMMA AboveClosed ==
    ASSUME NEW t \in Tree!Nodes
    PROVE  /\ t \in Tree!Above(t) /\ Tree!Above(t) \subseteq Tree!Nodes
           /\ \A a \in Tree!Above(t) :
                row[a].parent \in Tree!Nodes => row[a].parent \in Tree!Above(t)
BY DEF Tree!Above, Tree!Parents

LEMMA AboveLeast ==
    ASSUME NEW t \in Tree!Nodes, NEW S \in SUBSET Tree!Nodes, t \in S,
           \A a \in S : row[a].parent \in Tree!Nodes => row[a].parent \in S
    PROVE  Tree!Above(t) \subseteq S
BY DEF Tree!Above, Tree!Parents

\* The way up from t is t and the way up from its parent.
LEMMA AboveParent ==
    ASSUME NEW t \in Tree!Nodes
    PROVE  /\ row[t].parent \notin Tree!Nodes => Tree!Above(t) = {t}
           /\ row[t].parent \in Tree!Nodes
                => Tree!Above(t) = {t} \cup Tree!Above(row[t].parent)
<1>1. ASSUME row[t].parent \notin Tree!Nodes PROVE Tree!Above(t) = {t}
  <2>1. {t} \in SUBSET Tree!Nodes /\ \A a \in {t} : row[a].parent \notin Tree!Nodes
    BY <1>1
  <2>2. Tree!Above(t) \subseteq {t}
    BY <2>1, AboveLeast
  <2> QED
    BY <2>2, AboveClosed
<1>2. ASSUME row[t].parent \in Tree!Nodes
      PROVE  Tree!Above(t) = {t} \cup Tree!Above(row[t].parent)
  <2>1. Tree!Above(row[t].parent) \subseteq Tree!Above(t)
    BY <1>2, AboveClosed, AboveLeast
  <2> DEFINE S == {t} \cup Tree!Above(row[t].parent)
  <2>2. S \subseteq Tree!Nodes /\ \A a \in S : row[a].parent \in Tree!Nodes => row[a].parent \in S
    BY <1>2, AboveClosed
  <2>3. Tree!Above(t) \subseteq S
    BY <2>2, AboveLeast
  <2> QED
    BY <2>1, <2>3, AboveClosed
<1> QED
  BY <1>1, <1>2

\* No ticket with a cycle above it is reached from the roots.
LEMMA CycleHides ==
    ASSUME NEW t \in Tree!Shown, NEW a \in Tree!Above(t)
    PROVE  ~Tree!OnCycle(a)
<1> DEFINE S == {s \in Tree!Nodes : \A b \in Tree!Above(s) : ~Tree!OnCycle(b)}
<1>1. Tree!Roots \subseteq S
  BY AboveParent DEF Tree!Roots, Tree!OnCycle
<1>2. ASSUME NEW c \in Tree!Nodes, row[c].parent \in S PROVE c \in S
  <2>1. row[c].parent \in Tree!Nodes /\ \A b \in Tree!Above(row[c].parent) : ~Tree!OnCycle(b)
    BY <1>2
  <2>2. Tree!Above(c) = {c} \cup Tree!Above(row[c].parent)
    BY <2>1, AboveParent
  <2>3. ~Tree!OnCycle(c)
    BY <2>1 DEF Tree!OnCycle
  <2> QED
    BY <2>1, <2>2, <2>3
<1>3. Tree!Children(S) \subseteq S
  BY <1>2 DEF Tree!Children
<1>4. Tree!Shown \subseteq S
  BY <1>1, <1>3, ShownLeast
<1> QED
  BY <1>4

\* Going up from a ticket that is not reached never ends, so among finitely
\* many tickets it comes back to one.
LEMMA HiddenByCycle ==
    ASSUME IsFiniteSet(Tree!Nodes), NEW t \in Tree!Nodes, t \notin Tree!Shown
    PROVE  \E a \in Tree!Above(t) : Tree!OnCycle(a)
<1>1. ASSUME NEW a \in Tree!Nodes \ Tree!Shown
      PROVE  row[a].parent \in Tree!Nodes \ Tree!Shown
  BY ShownClosed DEF Tree!Roots, Tree!Children
<1>2. Tree!Above(t) \subseteq Tree!Nodes \ Tree!Shown
  BY <1>1, AboveLeast
<1> DEFINE ways == {Tree!Above(a) : a \in Tree!Above(t)}
<1>3. ways \subseteq FiniteSubsetsOf(Tree!Nodes) /\ ways # {}
  <2>1. \A a \in Tree!Above(t) : Tree!Above(a) \in SUBSET Tree!Nodes
    BY AboveClosed
  <2>2. \A W \in SUBSET Tree!Nodes : IsFiniteSet(W)
    BY FS_Subset
  <2> QED
    BY <2>1, <2>2, AboveClosed DEF FiniteSubsetsOf
<1>4. PICK W \in ways : \A V \in ways : <<V, W>> \notin StrictSubsetOrdering(Tree!Nodes)
  <2> HIDE DEF ways
  <2> QED
    BY <1>3, WFMin, FS_StrictSubsetOrderingWellFounded
<1>5. PICK a \in Tree!Above(t) : W = Tree!Above(a)
  OBVIOUS
<1> DEFINE p == row[a].parent
<1>6. a \in Tree!Nodes /\ p \in Tree!Nodes /\ p \in Tree!Above(t)
  BY <1>1, <1>2, AboveClosed
<1>7. Tree!Above(a) = {a} \cup Tree!Above(p)
  BY <1>6, AboveParent
<1>8. Tree!Above(p) = Tree!Above(a)
  <2>1. Tree!Above(p) \in SUBSET Tree!Nodes /\ Tree!Above(a) \in SUBSET Tree!Nodes
    BY <1>6, AboveClosed
  <2>2. <<Tree!Above(p), Tree!Above(a)>> \notin StrictSubsetOrdering(Tree!Nodes)
    BY <1>4, <1>5, <1>6
  <2> QED
    BY <1>7, <2>1, <2>2 DEF StrictSubsetOrdering
<1> QED
  BY <1>6, <1>8, AboveClosed DEF Tree!OnCycle

LEMMA ShowsRest == ASSUME AncestryInv PROVE Tree!TreeShowsRest
<1>1. Tree!Nodes \subseteq {t \in Node : Tree!Exists(t)}
  BY DEF Tree!Nodes, Tree!Live
<1>2. IsFiniteSet(Tree!Nodes)
  BY <1>1, FS_Subset DEF AncestryInv
<1> QED
  BY <1>2, CycleHides, HiddenByCycle DEF Tree!TreeShowsRest

\* A deletion hides nothing but the deleted ticket: what hung under it is a
\* root now.
LEMMA DeletionHidesOne ==
    ASSUME TreeInv, NEW t \in Node, Tree!Exists(t), row' = [row EXCEPT ![t].live = FALSE]
    PROVE  Tree!Shown \cap Tree!Nodes' \subseteq Tree!Shown'
<1>1. /\ \A k \in Node : k # t => row'[k] = row[k]
      /\ row'[t].parent = row[t].parent
      /\ ~row'[t].live
  BY DEF TreeInv, Tree!TypeOK, Tree!Row, Tree!Exists
<1>2. Tree!Nodes' = Tree!Nodes \ {t}
  BY <1>1 DEF Tree!Nodes, Tree!Live, Tree!Exists
<1> DEFINE S == (Tree!Shown' \cap Tree!Nodes) \cup ({t} \cap Tree!Nodes)
<1>3. ASSUME NEW k \in Tree!Nodes, row[k].parent \notin Tree!Nodes \/ row[k].parent \in S
      PROVE  k \in S
  <2>1. CASE k = t
    BY <2>1
  <2>2. CASE k # t
    <3>1. k \in Tree!Nodes' /\ row'[k].parent = row[k].parent
      BY <1>1, <1>2, <2>2 DEF Tree!Nodes
    <3>2. CASE row[k].parent \notin Tree!Nodes'
      BY <3>1, <3>2, ShownClosed DEF Tree!Roots
    <3>3. CASE row[k].parent \in Tree!Shown'
      BY <3>1, <3>3, ShownClosed DEF Tree!Children
    <3> QED
      BY <1>2, <1>3, <3>2, <3>3
  <2> QED
    BY <2>1, <2>2
<1>4. Tree!Shown \subseteq S
  <2>1. Tree!Roots \subseteq S
    BY <1>3 DEF Tree!Roots
  <2>2. Tree!Children(S) \subseteq S
    BY <1>3 DEF Tree!Children
  <2> HIDE DEF S
  <2>3. S \subseteq Tree!Nodes
    BY DEF S
  <2> QED
    BY <2>1, <2>2, <2>3, ShownLeast
<1> QED
  BY <1>2, <1>4

\* A creation hides nothing: no row had the new one for a parent.
LEMMA CreationHidesNone ==
    ASSUME Tree!InstanceOK, TreeInv, AncestryInv, NEW t \in Node, ~Tree!Exists(t),
           NEW new \in Tree!Row, new # None, row' = [row EXCEPT ![t] = new]
    PROVE  Tree!Shown \cap Tree!Nodes' \subseteq Tree!Shown'
<1>1. row'[t] = new /\ \A k \in Node : k # t => row'[k] = row[k]
  BY DEF TreeInv, Tree!TypeOK
<1>2. Tree!Nodes \subseteq Tree!Nodes' /\ Tree!Nodes' \subseteq Tree!Nodes \cup {t}
  BY <1>1 DEF Tree!Nodes, Tree!Live, Tree!Exists
<1>3. \A k \in Tree!Nodes : k # t /\ row[k].parent # t
  BY DEF Tree!Nodes, Tree!Live, AncestryInv, There, Tree!Exists, Tree!InstanceOK
<1> DEFINE S == Tree!Shown' \cap Tree!Nodes
<1>4. ASSUME NEW k \in Tree!Nodes, row[k].parent \notin Tree!Nodes \/ row[k].parent \in S
      PROVE  k \in S
  <2>1. k \in Tree!Nodes' /\ row'[k].parent = row[k].parent
    BY <1>1, <1>2, <1>3 DEF Tree!Nodes
  <2>2. CASE row[k].parent \notin Tree!Nodes
    BY <1>2, <1>3, <2>1, <2>2, ShownClosed DEF Tree!Roots
  <2>3. CASE row[k].parent \in Tree!Shown'
    BY <2>1, <2>3, ShownClosed DEF Tree!Children
  <2> QED
    BY <1>4, <2>2, <2>3
<1>5. Tree!Roots \subseteq S
  BY <1>4 DEF Tree!Roots
<1>6. Tree!Children(S) \subseteq S
  BY <1>4 DEF Tree!Children
<1> QED
  BY <1>5, <1>6, ShownLeast

\* What falls out of the tree does so by a PATCH or a restore.
LEMMA FallsOutBy ==
    ASSUME Tree!InstanceOK, TreeInv, AncestryInv, [Tree!Next]_Tree!vars, row' # row, Tree!FallsOut
    PROVE  \E r \in Editor : /\ edit[r].at \in {"patch", "restore"}
                             /\ row'[edit[r].ticket] # row[edit[r].ticket]
<1>1. PICK r \in Editor : Tree!CreateCommit(r) \/ Tree!PatchCommit(r) \/ Tree!FlagCommit(r)
  BY DEF Tree!Next, Tree!vars, Tree!Begin, Tree!Abort, Tree!CreateRead, Tree!PatchRead,
         Tree!DeleteRead, Tree!RestoreRead
<1>2. edit[r] \in Tree!Held
  BY DEF TreeInv, Tree!TypeOK
<1>3. ~Tree!CreateCommit(r)
  <2> SUFFICES ASSUME Tree!CreateCommit(r) PROVE FALSE
    OBVIOUS
  <2> DEFINE new == [type |-> edit[r].type, parent |-> edit[r].parent, live |-> TRUE]
  <2>1. PICK t \in Node : ~Tree!Exists(t) /\ row' = [row EXCEPT ![t] = new]
    BY DEF Tree!CreateCommit
  <2>2. new \in Tree!Row
    BY <1>2, HeldFields DEF Tree!Row, Tree!CreateCommit
  <2>3. new # None
    BY <2>2 DEF Tree!InstanceOK
  <2> QED
    BY <2>1, <2>2, <2>3, CreationHidesNone DEF Tree!FallsOut
<1>4. ~(Tree!FlagCommit(r) /\ edit[r].at = "delete")
  <2> SUFFICES ASSUME Tree!FlagCommit(r), edit[r].at = "delete" PROVE FALSE
    OBVIOUS
  <2>1. edit[r].ticket \in Node /\ Tree!Exists(edit[r].ticket)
    BY <1>2, HeldFields DEF TreeInv, ReqsFit, FlagFits
  <2>2. row' = [row EXCEPT ![edit[r].ticket].live = FALSE]
    BY DEF Tree!FlagCommit
  <2> QED
    BY <2>1, <2>2, DeletionHidesOne DEF Tree!FallsOut
<1>5. edit[r].at \in {"patch", "restore"}
  BY <1>1, <1>3, <1>4 DEF Tree!PatchCommit, Tree!FlagCommit
<1>6. /\ edit[r].ticket \in Node
      /\ \E new : row' = [row EXCEPT ![edit[r].ticket] = new]
  BY <1>1, <1>2, <1>3, <1>5, HeldFields DEF Tree!PatchCommit, Tree!FlagCommit
<1>7. row'[edit[r].ticket] # row[edit[r].ticket]
  BY <1>6 DEF TreeInv, Tree!TypeOK
<1> QED
  BY <1>5, <1>7

-----------------------------------------------------------------------------
(* The two side by side.                                                    *)

PartsNext == BoardMoves \/ TreeMoves
PartsInv == IInv /\ TreeInv /\ AncestryInv

\* A step of the two is a step, or none, of each.
LEMMA TreeSteps == [PartsNext]_allVars => [Next]_vars /\ [Tree!Next]_Tree!vars
BY DEF PartsNext, BoardMoves, TreeMoves, allVars, treeVars, Tree!vars

LEMMA PartsInvHolds == ASSUME Tree!InstanceOK PROVE PartsSpec => []PartsInv
<1>1. PartsInit => PartsInv
  BY InitIInv, TreeInitHolds, AncestryInit DEF PartsInit, PartsInv
<1>2. PartsInv /\ [PartsNext]_allVars => PartsInv'
  BY TreeSteps, NextIInv, TreeNextKeeps, AncestryKeeps DEF PartsInv
<1> QED
  BY <1>1, <1>2, PTL DEF PartsSpec, PartsNext

\* The variables of both modules always have their types.
THEOREM TicketsTypes == ASSUME Tree!InstanceOK PROVE PartsSpec => []TypesOK
<1>1. PartsInv => TypesOK
  BY DEF PartsInv, IInv, TreeInv, TypesOK
<1> QED
  BY <1>1, PartsInvHolds, PTL

\* For any number of tickets and requests, subtasks hang under stories and
\* tasks, as long as no PATCH changes the type of either: deletions, restores
\* and re-parenting between a check and its commit do no harm.
\* tickets.py:164-200, :338-393 and :626-695.
THEOREM SettledSubtaskRuleHolds ==
    ASSUME Tree!InstanceOK PROVE PartsSpec => []SettledSubtaskRule
<1>1. PartsInv => SettledSubtaskRule
  BY DEF PartsInv, TreeInv, RowsFit, SettledSubtaskRule, Tree!SettledSubtaskRule, Fits
<1> QED
  BY <1>1, PartsInvHolds, PTL

\* For any number of tickets and requests, a deletion that no other commit
\* overtook between its check and its own commit leaves no live ticket under
\* the deleted one. tickets.py:731-770.
THEOREM NoOrphanByDeleteHolds ==
    ASSUME Tree!InstanceOK PROVE PartsSpec => NoOrphanByDelete
<1>1. PartsInv /\ [PartsNext]_allVars
        => [\A r \in Editor, t \in Node :
              /\ edit[r] = [at |-> "delete", ticket |-> t]
              /\ r \notin overtaken
              /\ row'[t] # row[t] /\ edit'[r] = Tree!Idle
              => ~Tree!HasLiveChildren(t)']_Tree!vars
  BY TreeNoOrphan, TreeSteps DEF PartsInv
<1> QED
  BY <1>1, PartsInvHolds, PTL DEF PartsSpec, PartsNext, NoOrphanByDelete, Tree!NoOrphanByDelete

\* For any number of tickets and requests, every live ticket is in the tree
\* unless the way up from it ends in a cycle: a deleted parent hides none of
\* its children. tickets.py:558-581 and :792-797.
THEOREM TreeShowsRestHolds == ASSUME Tree!InstanceOK PROVE PartsSpec => []TreeShowsRest
<1>1. PartsInv => TreeShowsRest
  BY ShowsRest DEF PartsInv, TreeShowsRest
<1> QED
  BY <1>1, PartsInvHolds, PTL

\* For any number of tickets and requests, however they interleave, a ticket
\* falls out of the tree, still live, only when a PATCH re-parents or a restore
\* brings back a ticket. tickets.py:338-393 and :756-770.
THEOREM LostOnlyByReparentOrRestoreHolds ==
    ASSUME Tree!InstanceOK PROVE PartsSpec => LostOnlyByReparentOrRestore
<1>1. PartsInv /\ [PartsNext]_allVars
        => [row' # row /\ Tree!FallsOut =>
              \E r \in Editor : /\ edit[r].at \in {"patch", "restore"}
                                /\ row'[edit[r].ticket] # row[edit[r].ticket]]_Tree!vars
  BY FallsOutBy, TreeSteps DEF PartsInv
<1> QED
  BY <1>1, PartsInvHolds, PTL
  DEF PartsSpec, PartsNext, LostOnlyByReparentOrRestore, Tree!LostOnlyByReparentOrRestore
=============================================================================
