-------------------------- MODULE LiveBoardProofs --------------------------
(***************************************************************************)
(* Safety of LiveBoard for every set of pages, tickets, columns and        *)
(* requests.  Agrees is the heart of it: a board, with the events that are *)
(* still in the inbox of its page, says of a ticket what the database      *)
(* does.  It holds for the board that is shown and for the one that is on  *)
(* its way.                                                                *)
(***************************************************************************)
EXTENDS LiveBoard, TLAPS

\* Moves of the tickets in S do not overlap: from the read of a ticket to the
\* event of its move no other request is there.
Moving(r, t) == requests[r].step \in {"read", "committed"} /\ requests[r].ticket = t
MovesApart(S) ==
    \A t \in S : \A r, q \in Request : Moving(r, t) /\ Moving(q, t) => r = q

----------------------------------------------------------------------------
(* Types *)

LEMMA IdleType == Idle \in Requests /\ Idle.step = "idle"
BY DEF Idle, Requests

LEMMA LoadTypes ==
    /\ NoLoad \in Loads /\ NoLoad.step = "none" /\ NoLoad.board = None
    /\ LET a == [NoLoad EXCEPT !.step = "asked"]
       IN  a \in Loads /\ a.step = "asked" /\ a.board = None
BY DEF NoLoad, Loads

\* Only the board on its way is a board.
LEMMA BoardNotNone == \A b \in Board : b # None
BY NoneAssumption DEF Board

\* The fields of the requests and fetches that a step changes.
LEMMA StepOf ==
    ASSUME NEW q \in Requests \ {Idle},
           NEW a \in {"sent", "read", "committed", "answered", "failed"}
    PROVE  LET n == [q EXCEPT !.step = a]
           IN  /\ n \in Requests /\ n # Idle /\ n.step = a /\ n.page = q.page /\ n.by = q.by
               /\ n.ticket = q.ticket /\ n.to = q.to /\ n.loaded = q.loaded
               /\ n.previous = q.previous
<1>1. q \in [step : {"sent", "read", "committed", "answered", "failed"},
             page : Tab \cup {None}, by : User, ticket : Ticket, to : Column,
             loaded : Column \cup {None}, previous : Board]
    BY DEF Requests
<1> DEFINE n == [q EXCEPT !.step = a]
<1>2. /\ n.step = a /\ n.page = q.page /\ n.by = q.by
      /\ n.ticket = q.ticket /\ n.to = q.to /\ n.loaded = q.loaded
      /\ n.previous = q.previous
    BY <1>1
<1>3. n \in Requests
    BY <1>1 DEF Requests
<1>4. n # Idle
    BY <1>2 DEF Idle
<1> QED
    BY <1>2, <1>3, <1>4

LEMMA Fields ==
    ASSUME NEW q \in Requests, q.step # "idle"
    PROVE  /\ q # Idle
           /\ q.step \in {"sent", "read", "committed", "answered", "failed"}
           /\ q.page \in Tab \cup {None} /\ q.by \in User /\ q.ticket \in Ticket
           /\ q.to \in Column /\ q.loaded \in Column \cup {None} /\ q.previous \in Board
BY DEF Requests, Idle

LEMMA GapType ==
    ASSUME NEW l \in Loads, NEW g \in BOOLEAN
    PROVE  LET n == [l EXCEPT !.gap = g]
           IN  n \in Loads /\ n.step = l.step /\ n.board = l.board /\ n.gap = g
BY DEF Loads

----------------------------------------------------------------------------
(* A board and the events still to be applied to it *)

Agrees(b, q, c, t) ==
    /\ \A i \in DOMAIN q :
           q[i].ticket = t /\ (\A j \in DOMAIN q : j > i => q[j].ticket # t) => q[i].to = c
    /\ (\A i \in DOMAIN q : q[i].ticket # t) /\ b # None => b[t] = c

LEMMA AgreesEmpty == ASSUME NEW b, NEW t PROVE Agrees(b, <<>>, b[t], t)
BY DEF Agrees

\* A newer board agrees when the events did.
LEMMA AgreesFresh ==
    ASSUME NEW b, NEW d, NEW q, NEW t, Agrees(b, q, d[t], t)
    PROVE  Agrees(d, q, d[t], t)
BY DEF Agrees

LEMMA AgreesAppend ==
    ASSUME NEW b, NEW q \in Seq(Event), NEW c, NEW t, NEW e \in Event,
           e.ticket = t => e.to = c,
           e.ticket # t => Agrees(b, q, c, t)
    PROVE  Agrees(b, Append(q, e), c, t)
<1> DEFINE a == Append(q, e)
<1>1. /\ a \in Seq(Event) /\ Len(a) = Len(q) + 1 /\ a[Len(q) + 1] = e
      /\ \A i \in 1 .. Len(q) : a[i] = q[i]
      /\ Len(q) \in Nat
    OBVIOUS
<1>2. DOMAIN a = 1 .. Len(q) + 1 /\ DOMAIN q = 1 .. Len(q)
    OBVIOUS
<1> HIDE DEF a
<1>3. CASE e.ticket = t
  <2>1. \A i \in DOMAIN a :
            a[i].ticket = t /\ (\A j \in DOMAIN a : j > i => a[j].ticket # t) => a[i] = e
    BY <1>1, <1>2, <1>3
  <2> QED
    BY <1>1, <1>2, <1>3, <2>1 DEF Agrees, a
<1>4. CASE e.ticket # t
  <2>1. ASSUME NEW i \in DOMAIN a, a[i].ticket = t,
               \A j \in DOMAIN a : j > i => a[j].ticket # t
        PROVE  a[i].to = c
    <3>1. i \in DOMAIN q /\ a[i] = q[i]
      BY <1>1, <1>2, <1>4, <2>1
    <3>2. \A j \in DOMAIN q : j > i => q[j].ticket # t
      BY <1>1, <1>2, <2>1
    <3> QED
      BY <1>4, <2>1, <3>1, <3>2 DEF Agrees
  <2>2. (\A i \in DOMAIN a : a[i].ticket # t) => \A i \in DOMAIN q : q[i].ticket # t
    BY <1>1, <1>2
  <2>3. Agrees(b, a, c, t)
    BY <1>4, <2>1, <2>2 DEF Agrees
  <2> QED
    BY <2>3 DEF a
<1> QED
    BY <1>3, <1>4

\* Handling the first event.
LEMMA AgreesTail ==
    ASSUME NEW b, NEW d, NEW q \in Seq(Event), NEW c, NEW t, q # <<>>,
           Agrees(b, q, c, t),
           \/ d = None
           \/ Head(q).ticket = t /\ d[t] = Head(q).to
           \/ Head(q).ticket # t /\ b # None /\ d[t] = b[t]
    PROVE  Agrees(d, Tail(q), c, t)
<1> DEFINE a == Tail(q)
<1>1. /\ a \in Seq(Event) /\ Len(a) = Len(q) - 1 /\ Len(q) \in Nat \ {0}
      /\ \A i \in 1 .. Len(a) : a[i] = q[i + 1]
      /\ Head(q) = q[1]
    OBVIOUS
<1>2. DOMAIN a = 1 .. Len(q) - 1 /\ DOMAIN q = 1 .. Len(q)
    BY <1>1
<1> HIDE DEF a
<1>3. ASSUME NEW i \in DOMAIN a, a[i].ticket = t,
             \A j \in DOMAIN a : j > i => a[j].ticket # t
      PROVE  a[i].to = c
  <2>1. i + 1 \in DOMAIN q /\ a[i] = q[i + 1]
    BY <1>1, <1>2
  <2>2. ASSUME NEW j \in DOMAIN q, j > i + 1 PROVE q[j].ticket # t
    <3>1. j - 1 \in DOMAIN a /\ j - 1 > i /\ a[j - 1] = q[j]
      BY <1>1, <1>2, <2>2
    <3> QED
      BY <1>3, <3>1
  <2> QED
    BY <1>3, <2>1, <2>2 DEF Agrees
<1>4. ASSUME \A i \in DOMAIN a : a[i].ticket # t, d # None PROVE d[t] = c
  <2>1. \A j \in DOMAIN q : j > 1 => q[j].ticket # t
    <3> SUFFICES ASSUME NEW j \in DOMAIN q, j > 1 PROVE q[j].ticket # t
      OBVIOUS
    <3>1. j - 1 \in DOMAIN a /\ a[j - 1] = q[j]
      BY <1>1, <1>2
    <3> QED
      BY <1>4, <3>1
  <2>2. 1 \in DOMAIN q
    BY <1>1, <1>2
  <2>3. CASE q[1].ticket = t
    BY <1>1, <1>4, <2>1, <2>2, <2>3 DEF Agrees
  <2>4. CASE q[1].ticket # t
    <3>1. \A j \in DOMAIN q : q[j].ticket # t
      BY <1>2, <2>1, <2>4
    <3> QED
      BY <1>1, <1>4, <2>4, <3>1 DEF Agrees
  <2> QED
    BY <2>3, <2>4
<1>5. Agrees(d, a, c, t)
    BY <1>3, <1>4 DEF Agrees
<1> QED
    BY <1>5 DEF a

----------------------------------------------------------------------------
(* The invariant *)

\* Somebody who moves tickets.
Mover(u) == \E w \in Tab : UserOf[w] = u /\ MayMove[w] # {}

\* A request q while the tickets are in the columns c.  For a ticket in S the
\* column it loaded, and the one it committed, are where the ticket is.
ReqOk(S, q, c) ==
    /\ q \in Requests
    /\ q.step # "idle" =>
         /\ Mover(q.by)
         /\ q.page # None => MayMove[q.page] # {}
    /\ q.step \in {"read", "committed"} => q.loaded # None
    /\ q.step = "read" /\ q.ticket \in S => q.loaded = c[q.ticket]
    /\ q.step = "committed" /\ q.ticket \in S => c[q.ticket] = q.to

ReqsOk(S) ==
    /\ column \in Board
    /\ requests \in [Request -> Requests]
    /\ \A r \in Request : ReqOk(S, requests[r], column)

PagesOk ==
    /\ shown \in [Tab -> Board \cup {None}]
    /\ load \in [Tab -> Loads]
    /\ \A p \in Tab : load[p].step = "read" <=> load[p].board # None
    /\ socket \in [Tab -> {"connecting", "open", "over"}]
    /\ inbox \in [Tab -> Seq(Event)]
    /\ \A p \in Tab : socket[p] # "open" => inbox[p] = <<>>
    /\ \A p \in Tab : \A i \in DOMAIN inbox[p] : Mover(inbox[p][i].by)
    /\ missed \in [Tab -> BOOLEAN]
    /\ moves \in Nat /\ loads \in Nat

\* The tickets whose last change is committed and not published.
Pending == {t \in Ticket : \E r \in Request :
                requests[r].step = "committed" /\ requests[r].ticket = t}

\* What page p tells of the tickets that are in T.
Tells(sh, ld, mi, q, c, T) ==
    \A t \in T :
        /\ ~mi => Agrees(sh, q, c[t], t)
        /\ ld.step = "read" /\ ~ld.gap => Agrees(ld.board, q, c[t], t)

TellsOk(S) ==
    \A p \in Follower : socket[p] # "over" =>
        Tells(shown[p], load[p], missed[p], inbox[p], column, S \ Pending)

Inv(S) == ReqsOk(S) /\ PagesOk /\ TellsOk(S)

LEMMA FollowerIsNoMover ==
    ASSUME NEW p \in Follower
    PROVE  p \in Tab /\ MayMove[p] = {} /\ ~Mover(UserOf[p])
BY DEF Follower, Mover

LEMMA InvTypes == ASSUME NEW S \in SUBSET Ticket, Inv(S) PROVE TypeOK
<1>2. \A r \in Request : requests[r].step \in {"read", "committed"} => requests[r].loaded # None
    BY DEF Inv, ReqsOk, ReqOk
<1> QED
    BY <1>2 DEF Inv, ReqsOk, PagesOk, TypeOK

LEMMA InitInv == ASSUME NEW S \in SUBSET Ticket, Init PROVE Inv(S)
<1>1. column \in Board
    BY SliceAssumption DEF Init, Board
<1>2. \A r \in Request : requests[r] = Idle
    BY DEF Init
<1>3. ReqsOk(S)
    BY <1>1, <1>2, IdleType DEF Init, ReqsOk, ReqOk
<1>4. /\ load \in [Tab -> Loads]
      /\ \A p \in Tab : load[p].step = "asked" /\ load[p].board = None
    BY LoadTypes DEF Init
<1>6. \A p \in Tab : shown[p] = None /\ inbox[p] = <<>>
    BY DEF Init
<1>8. \A p \in Tab : \A i \in DOMAIN inbox[p] : Mover(inbox[p][i].by)
    BY <1>6
<1>9. /\ shown \in [Tab -> Board \cup {None}] /\ inbox \in [Tab -> Seq(Event)]
      /\ missed \in [Tab -> BOOLEAN] /\ moves \in Nat /\ loads \in Nat
    BY DEF Init
<1>10. socket \in [Tab -> {"connecting", "open", "over"}]
    BY DEF Init, Opening
<1>5. PagesOk
    BY <1>4, <1>6, <1>8, <1>9, <1>10 DEF PagesOk
<1>7. TellsOk(S)
    BY <1>4, <1>6, FollowerIsNoMover DEF TellsOk, Tells, Agrees
<1> QED
    BY <1>3, <1>5, <1>7 DEF Inv

----------------------------------------------------------------------------
(* Steps of the pages *)

\* A step of the page p that leaves the tickets alone, and of the requests
\* what they are about.
LEMMA PageTells ==
    ASSUME NEW S \in SUBSET Ticket, Inv(S), NEW p \in Tab, UNCHANGED column,
           \A r \in Request : /\ requests'[r].step = requests[r].step
                              /\ requests'[r].ticket = requests[r].ticket,
           \A x \in Tab \ {p} :
               /\ shown'[x] = shown[x] /\ load'[x] = load[x] /\ socket'[x] = socket[x]
               /\ inbox'[x] = inbox[x] /\ missed'[x] = missed[x],
           p \in Follower /\ socket'[p] # "over" =>
               Tells(shown'[p], load'[p], missed'[p], inbox'[p], column, S \ Pending)
    PROVE  TellsOk(S)'
<1>1. Pending' = Pending /\ column' = column
    BY DEF Pending
<1>2. SUFFICES ASSUME NEW x \in Follower, socket'[x] # "over"
               PROVE  Tells(shown'[x], load'[x], missed'[x], inbox'[x], column, S \ Pending)
    BY <1>1 DEF TellsOk
<1>3. CASE x = p
    BY <1>2, <1>3
<1>4. CASE x # p
    BY <1>2, <1>4, FollowerIsNoMover DEF Inv, TellsOk
<1> QED
    BY <1>3, <1>4

LEMMA PageReqs ==
    ASSUME NEW S \in SUBSET Ticket, Inv(S), UNCHANGED <<column, requests>>
    PROVE  ReqsOk(S)'
BY DEF Inv, ReqsOk

LEMMA AskStep ==
    ASSUME NEW S \in SUBSET Ticket, Inv(S), NEW p \in Tab, Reload(p) PROVE Inv(S)'
<1> DEFINE l == [NoLoad EXCEPT !.step = "asked"]
<1>1. /\ load' = [load EXCEPT ![p] = l]
      /\ l \in Loads /\ l.step = "asked" /\ l.board = None
    BY LoadTypes DEF Reload
<1> HIDE DEF l
<1>0. loads \in Nat => loads + 1 \in Nat
    OBVIOUS
<1>2. PagesOk'
    BY <1>0, <1>1 DEF Inv, PagesOk, Reload
<1>3. load'[p] = l /\ \A x \in Tab \ {p} : load'[x] = load[x]
    BY <1>1 DEF Inv, PagesOk
<1>4. TellsOk(S)'
    BY <1>1, <1>3, PageTells DEF Reload, Tells, Inv, TellsOk
<1> QED
    BY <1>2, <1>4, PageReqs DEF Inv, Reload

LEMMA LoadReadStep ==
    ASSUME NEW S \in SUBSET Ticket, Inv(S), NEW p \in Tab, LoadRead(p) PROVE Inv(S)'
<1> DEFINE l == [step |-> "read", board |-> column,
                 gap |-> missed[p] /\ inbox[p] # <<>>]
<1>1. /\ load' = [load EXCEPT ![p] = l]
      /\ l \in Loads /\ l.step = "read" /\ l.board = column /\ column # None
      /\ l.gap = (missed[p] /\ inbox[p] # <<>>)
    BY BoardNotNone DEF LoadRead, Inv, ReqsOk, Loads
<1> HIDE DEF l
<1>2. PagesOk'
    BY <1>1 DEF Inv, PagesOk, LoadRead
<1>3. load'[p] = l /\ \A x \in Tab \ {p} : load'[x] = load[x]
    BY <1>1 DEF Inv, PagesOk
<1>4. ASSUME p \in Follower, socket[p] # "over"
      PROVE  Tells(shown[p], l, missed[p], inbox[p], column, S \ Pending)
  <2> SUFFICES ASSUME NEW t \in S \ Pending
               PROVE  /\ ~missed[p] => Agrees(shown[p], inbox[p], column[t], t)
                      /\ ~l.gap => Agrees(column, inbox[p], column[t], t)
    BY <1>1 DEF Tells
  <2>1. ~missed[p] => Agrees(shown[p], inbox[p], column[t], t)
    BY <1>4 DEF Inv, TellsOk, Tells
  <2>2. CASE ~missed[p]
    BY <2>1, <2>2, AgreesFresh
  <2>3. CASE inbox[p] = <<>>
    BY <2>1, <2>3, AgreesEmpty
  <2> QED
    BY <1>1, <2>1, <2>2, <2>3 DEF Inv, PagesOk
<1>5. TellsOk(S)'
    BY <1>3, <1>4, PageTells DEF LoadRead
<1> QED
    BY <1>2, <1>5, PageReqs DEF Inv, LoadRead

LEMMA LoadEndStep ==
    ASSUME NEW S \in SUBSET Ticket, Inv(S), NEW p \in Tab, LoadReply(p) \/ LoadFail(p)
    PROVE  Inv(S)'
<1>1. /\ load' = [load EXCEPT ![p] = NoLoad]
      /\ NoLoad \in Loads /\ NoLoad.step = "none" /\ NoLoad.board = None
    BY LoadTypes DEF LoadReply, LoadFail
<1>2. load'[p] = NoLoad /\ \A x \in Tab \ {p} : load'[x] = load[x]
    BY <1>1 DEF Inv, PagesOk
<1>3. CASE LoadFail(p)
  <2>1. PagesOk'
    BY <1>1, <1>3 DEF Inv, PagesOk, LoadFail
  <2>2. TellsOk(S)'
    BY <1>1, <1>2, <1>3, PageTells DEF LoadFail, Tells, Inv, TellsOk
  <2> QED
    BY <1>3, <2>1, <2>2, PageReqs DEF Inv, LoadFail
<1>4. CASE LoadReply(p)
  <2>0. load[p] \in Loads /\ load[p].board \in Board \cup {None} /\ load[p].gap \in BOOLEAN
    BY DEF Inv, PagesOk, Loads
  <2>1. PagesOk'
    BY <1>1, <1>4, <2>0 DEF Inv, PagesOk, LoadReply
  <2>2. /\ shown'[p] = load[p].board /\ missed'[p] = load[p].gap
        /\ \A x \in Tab \ {p} : shown'[x] = shown[x] /\ missed'[x] = missed[x]
    BY <1>4 DEF Inv, PagesOk, LoadReply
  <2>3. ASSUME p \in Follower, socket[p] # "over"
        PROVE  Tells(load[p].board, NoLoad, load[p].gap, inbox[p], column, S \ Pending)
    BY <1>1, <1>4, <2>3 DEF Inv, TellsOk, Tells, LoadReply
  <2>4. TellsOk(S)'
    BY <1>2, <1>4, <2>2, <2>3, PageTells DEF LoadReply
  <2> QED
    BY <1>4, <2>1, <2>4, PageReqs DEF Inv, LoadReply
<1> QED
    BY <1>3, <1>4

LEMMA OpenStep ==
    ASSUME NEW S \in SUBSET Ticket, Inv(S), NEW p \in Tab, Open(p) PROVE Inv(S)'
<1> DEFINE l == [NoLoad EXCEPT !.step = "asked"]
<1>1. /\ load' = [load EXCEPT ![p] = l]
      /\ l \in Loads /\ l.step = "asked" /\ l.board = None
    BY LoadTypes DEF Open
<1> HIDE DEF l
<1>2. load'[p] = l /\ \A x \in Tab \ {p} : load'[x] = load[x]
    BY <1>1 DEF Inv, PagesOk
<1>3. ASSUME NEW r \in Request
      PROVE  /\ requests'[r] \in Requests
             /\ requests'[r].step = requests[r].step
             /\ requests'[r].ticket = requests[r].ticket
             /\ ReqOk(S, requests'[r], column)
  <2> DEFINE q == requests[r]
  <2>1. q \in Requests /\ ReqOk(S, q, column)
    BY DEF Inv, ReqsOk
  <2>2. CASE q.page # p
    <3>1. requests'[r] = q
      BY <2>2 DEF Open
    <3> QED
      BY <2>1, <3>1
  <2>3. CASE q.page = p
    <3>1. requests'[r] = [q EXCEPT !.page = None]
      BY <2>3 DEF Open
    <3>2. q \in [step : {"sent", "read", "committed", "answered", "failed"},
                 page : Tab \cup {None}, by : User, ticket : Ticket, to : Column,
                 loaded : Column \cup {None}, previous : Board]
      BY <2>1, <2>3, NoneAssumption DEF Requests, Idle
    <3> HIDE DEF q
    <3>3. /\ requests'[r] \in Requests
          /\ requests'[r].step = q.step /\ requests'[r].ticket = q.ticket
          /\ requests'[r].page = None /\ requests'[r].by = q.by
          /\ requests'[r].loaded = q.loaded /\ requests'[r].to = q.to
      BY <3>1, <3>2 DEF Requests
    <3>4. ReqOk(S, requests'[r], column)
      BY <2>1, <3>3 DEF ReqOk
    <3> QED
      BY <3>3, <3>4 DEF q
  <2> QED
    BY <2>2, <2>3
<1>4. ReqsOk(S)'
  <2>1. requests' \in [Request -> Requests]
    BY <1>3 DEF Open
  <2> QED
    BY <1>3, <2>1 DEF Inv, ReqsOk, Open
<1>5. /\ shown'[p] = None /\ missed'[p] = FALSE /\ inbox'[p] = <<>>
      /\ socket'[p] \in {"connecting", "over"}
      /\ \A x \in Tab \ {p} : /\ shown'[x] = shown[x] /\ missed'[x] = missed[x]
                              /\ inbox'[x] = inbox[x] /\ socket'[x] = socket[x]
    BY DEF Inv, PagesOk, Open, Opening
<1>6. PagesOk'
  <2>1. /\ shown' \in [Tab -> Board \cup {None}] /\ missed' \in [Tab -> BOOLEAN]
        /\ inbox' \in [Tab -> Seq(Event)] /\ load' \in [Tab -> Loads]
        /\ socket' \in [Tab -> {"connecting", "open", "over"}]
    <3>1. <<>> \in Seq(Event)
      OBVIOUS
    <3>2. Opening(p) \in {"connecting", "open", "over"}
      BY DEF Opening
    <3>3. inbox' \in [Tab -> Seq(Event)] /\ load' \in [Tab -> Loads]
      BY <1>1, <3>1 DEF Inv, PagesOk, Open
    <3> QED
      BY <3>2, <3>3 DEF Inv, PagesOk, Open
  <2>2. moves' \in Nat /\ loads' \in Nat
    BY DEF Inv, PagesOk, Open
  <2>3. \A x \in Tab : /\ load'[x].step = "read" <=> load'[x].board # None
                       /\ socket'[x] # "open" => inbox'[x] = <<>>
                       /\ \A i \in DOMAIN inbox'[x] : Mover(inbox'[x][i].by)
    BY <1>1, <1>2, <1>5 DEF Inv, PagesOk
  <2> QED
    BY <2>1, <2>2, <2>3 DEF PagesOk
<1>7. Tells(None, l, FALSE, <<>>, column, S \ Pending)
    BY <1>1 DEF Tells, Agrees
<1>8. TellsOk(S)'
    BY <1>2, <1>3, <1>5, <1>7, PageTells DEF Open
<1> QED
    BY <1>4, <1>6, <1>8 DEF Inv

LEMMA SocketStep ==
    ASSUME NEW S \in SUBSET Ticket, Inv(S), NEW p \in Tab, Subscribe(p) \/ Close(p)
    PROVE  Inv(S)'
<1>1. PagesOk'
  <2>1. /\ inbox' \in [Tab -> Seq(Event)]
        /\ socket' \in [Tab -> {"connecting", "open", "over"}]
    <3>1. <<>> \in Seq(Event)
      OBVIOUS
    <3> QED
      BY <3>1 DEF Inv, PagesOk, Subscribe, Close
  <2>2. \A x \in Tab : /\ socket'[x] # "open" => inbox'[x] = <<>>
                       /\ inbox'[x] = inbox[x] \/ inbox'[x] = <<>>
    BY DEF Inv, PagesOk, Subscribe, Close
  <2>3. \A x \in Tab : \A i \in DOMAIN inbox'[x] : Mover(inbox'[x][i].by)
    <3> SUFFICES ASSUME NEW x \in Tab, NEW i \in DOMAIN inbox'[x]
                 PROVE  Mover(inbox'[x][i].by)
      OBVIOUS
    <3>1. CASE inbox'[x] = inbox[x]
      BY <3>1 DEF Inv, PagesOk
    <3>2. CASE inbox'[x] = <<>>
      BY <3>2
    <3> QED
      BY <2>2, <3>1, <3>2
  <2>4. UNCHANGED <<shown, load, missed, moves, loads>>
    BY DEF Subscribe, Close
  <2> QED
    BY <2>1, <2>2, <2>3, <2>4 DEF Inv, PagesOk
<1>2. TellsOk(S)'
  <2>1. CASE Subscribe(p)
    <3>1. p \in Follower =>
              Tells(shown[p], load[p], missed[p], inbox[p], column, S \ Pending)
      BY <2>1 DEF Inv, TellsOk, Subscribe
    <3> QED
      BY <2>1, <3>1, PageTells DEF Subscribe, Inv, PagesOk
  <2>2. CASE Close(p)
    <3>1. socket'[p] = "over"
      BY <2>2 DEF Close, Inv, PagesOk
    <3> QED
      BY <2>2, <3>1, PageTells DEF Close, Inv, PagesOk
  <2> QED
    BY <2>1, <2>2
<1> QED
    BY <1>1, <1>2, PageReqs DEF Inv, Subscribe, Close

LEMMA ReceiveStep ==
    ASSUME NEW S \in SUBSET Ticket, Inv(S), NEW p \in Tab, Receive(p) PROVE Inv(S)'
<1> DEFINE e == Head(inbox[p])
           l == [load[p] EXCEPT !.gap = @ \/ load[p].step = "read"]
<1>1. /\ inbox[p] \in Seq(Event) /\ inbox[p] # <<>>
      /\ e \in Event /\ Mover(e.by)
      /\ e.ticket \in Ticket /\ e.to \in Column
  <2>1. /\ inbox[p] \in Seq(Event) /\ inbox[p] # <<>>
        /\ \A i \in DOMAIN inbox[p] : Mover(inbox[p][i].by)
    BY DEF Receive, Inv, PagesOk
  <2>2. e \in Event /\ 1 \in DOMAIN inbox[p] /\ e = inbox[p][1]
    BY <2>1
  <2>3. e.ticket \in Ticket /\ e.to \in Column
    BY <2>2 DEF Event
  <2> QED
    BY <2>1, <2>2, <2>3
<1>2. /\ Tail(inbox[p]) \in Seq(Event)
      /\ \A i \in DOMAIN Tail(inbox[p]) : Mover(Tail(inbox[p])[i].by)
  <2>1. /\ Tail(inbox[p]) \in Seq(Event)
        /\ \A i \in DOMAIN Tail(inbox[p]) :
               i + 1 \in DOMAIN inbox[p] /\ Tail(inbox[p])[i] = inbox[p][i + 1]
    BY <1>1
  <2> QED
    BY <2>1 DEF Inv, PagesOk
<1>3. /\ load[p] \in Loads /\ l \in Loads /\ load' = [load EXCEPT ![p] = l]
      /\ l.step = load[p].step /\ l.board = load[p].board
      /\ l.step = "read" => l.gap
    BY DEF Receive, Inv, PagesOk, Loads
<1> HIDE DEF l
<1>4. /\ inbox' = [inbox EXCEPT ![p] = Tail(inbox[p])]
      /\ shown' \in [Tab -> Board \cup {None}]
      /\ \A x \in Tab \ {p} : shown'[x] = shown[x]
      /\ shown[p] = None => shown'[p] = None
      /\ shown[p] # None /\ ~Mover(UserOf[p]) =>
             shown'[p] = [shown[p] EXCEPT ![e.ticket] = e.to]
  <2>1. shown \in [Tab -> Board \cup {None}]
    BY DEF Inv, PagesOk
  <2>2. shown[p] # None => [shown[p] EXCEPT ![e.ticket] = e.to] \in Board
    BY <1>1, <2>1 DEF Board
  <2>3. e.by = UserOf[p] => Mover(UserOf[p])
    BY <1>1
  <2> HIDE DEF e
  <2> QED
    BY <2>1, <2>2, <2>3 DEF Receive, e
<1> HIDE DEF e
<1>5. /\ load'[p] = l /\ inbox'[p] = Tail(inbox[p])
      /\ \A x \in Tab \ {p} : load'[x] = load[x] /\ inbox'[x] = inbox[x]
    BY <1>3, <1>4 DEF Inv, PagesOk
<1>6. PagesOk'
  <2>1. load' \in [Tab -> Loads] /\ inbox' \in [Tab -> Seq(Event)]
    BY <1>2, <1>3, <1>4 DEF Inv, PagesOk
  <2>2. \A x \in Tab : /\ load'[x].step = "read" <=> load'[x].board # None
                       /\ socket[x] # "open" => inbox'[x] = <<>>
    BY <1>1, <1>3, <1>5 DEF Inv, PagesOk
  <2>3. \A x \in Tab : \A i \in DOMAIN inbox'[x] : Mover(inbox'[x][i].by)
    BY <1>2, <1>5 DEF Inv, PagesOk
  <2> QED
    BY <1>4, <2>1, <2>2, <2>3 DEF PagesOk, Inv, Receive
<1>7. ASSUME p \in Follower, socket[p] # "over"
      PROVE  Tells(shown'[p], l, missed[p], Tail(inbox[p]), column, S \ Pending)
  <2> SUFFICES ASSUME NEW t \in S \ Pending, ~missed[p]
               PROVE  Agrees(shown'[p], Tail(inbox[p]), column[t], t)
    BY <1>3 DEF Tells
  <2>1. Agrees(shown[p], inbox[p], column[t], t)
    BY <1>7 DEF Inv, TellsOk, Tells
  <2>2. \/ shown'[p] = None
        \/ e.ticket = t /\ shown'[p][t] = e.to
        \/ e.ticket # t /\ shown[p] # None /\ shown'[p][t] = shown[p][t]
    <3>1. CASE shown[p] = None
      BY <1>4, <3>1
    <3>2. CASE shown[p] # None
      <4>1. shown[p] \in [Ticket -> Column]
        BY <3>2 DEF Inv, PagesOk, Board
      <4>2. shown'[p] = [shown[p] EXCEPT ![e.ticket] = e.to]
        BY <1>4, <1>7, <3>2, FollowerIsNoMover
      <4> QED
        BY <1>1, <3>2, <4>1, <4>2
    <3> QED
      BY <3>1, <3>2
  <2> QED
    BY <1>1, <2>1, <2>2, AgreesTail DEF e
<1>8. TellsOk(S)'
  <2>1. UNCHANGED <<column, requests, socket, missed>>
    BY DEF Receive
  <2> QED
    BY <1>4, <1>5, <1>7, <2>1, PageTells
<1> QED
    BY <1>6, <1>8, PageReqs DEF Inv, Receive

----------------------------------------------------------------------------
(* Steps of the requests *)

LEMMA RequestStep ==
    ASSUME NEW S \in SUBSET Ticket, Inv(S),
           NEW r \in Request, NEW q, ReqOk(S, q, column),
           requests' = [requests EXCEPT ![r] = q], UNCHANGED column
    PROVE  /\ ReqsOk(S)'
           /\ \A t \in Pending :
                  t \in Pending' \/ (requests[r].step = "committed" /\ requests[r].ticket = t)
<1>1. q \in Requests
    BY DEF ReqOk
<1>2. /\ requests' \in [Request -> Requests] /\ requests'[r] = q
      /\ \A x \in Request \ {r} : requests'[x] = requests[x]
    BY <1>1 DEF Inv, ReqsOk
<1>3. ReqsOk(S)'
    BY <1>2 DEF Inv, ReqsOk
<1>4. ASSUME NEW t \in Pending,
             ~(requests[r].step = "committed" /\ requests[r].ticket = t)
      PROVE  t \in Pending'
  <2>1. PICK x \in Request : requests[x].step = "committed" /\ requests[x].ticket = t
    BY DEF Pending
  <2>2. requests'[x] = requests[x] /\ t \in Ticket
    BY <1>2, <1>4, <2>1 DEF Pending
  <2> QED
    BY <2>1, <2>2 DEF Pending
<1> QED
    BY <1>3, <1>4

\* A step that changes nothing of what followers see.
LEMMA KeepTells ==
    ASSUME NEW S \in SUBSET Ticket, Inv(S),
           UNCHANGED column, Pending \subseteq Pending',
           \A x \in Follower :
               /\ shown'[x] = shown[x] /\ load'[x] = load[x] /\ socket'[x] = socket[x]
               /\ inbox'[x] = inbox[x] /\ missed'[x] = missed[x]
    PROVE  TellsOk(S)'
<1> SUFFICES ASSUME NEW x \in Follower, socket'[x] # "over"
             PROVE  Tells(shown'[x], load'[x], missed'[x], inbox'[x], column', S \ Pending')
    BY DEF TellsOk
<1>1. Tells(shown[x], load[x], missed[x], inbox[x], column, S \ Pending)
    BY DEF Inv, TellsOk
<1>2. Tells(shown[x], load[x], missed[x], inbox[x], column, S \ Pending')
    BY <1>1 DEF Tells
<1> QED
    BY <1>2

LEMMA MoveStep ==
    ASSUME NEW S \in SUBSET Ticket, Inv(S),
           NEW r \in Request, NEW p \in Tab, NEW t \in Ticket, NEW c \in Column,
           Move(r, p, t, c)
    PROVE  Inv(S)'
<1> DEFINE q == [step |-> "sent", page |-> p, by |-> UserOf[p], ticket |-> t,
                 to |-> c, loaded |-> None, previous |-> shown[p]]
<1>1. shown[p] \in Board /\ MayMove[p] # {}
    BY DEF Move, Inv, PagesOk
<1>2. ReqOk(S, q, column)
  <2>1. q \in Requests
    BY <1>1 DEF Requests, User
  <2> QED
    BY <1>1, <2>1 DEF ReqOk, Mover
<1>3. requests' = [requests EXCEPT ![r] = q] /\ requests[r].step # "committed"
    BY IdleType DEF Move
<1> HIDE DEF q
<1>4. ReqsOk(S)' /\ Pending \subseteq Pending'
    BY <1>2, <1>3, RequestStep DEF Move
<1>5. shown' = [shown EXCEPT ![p] = [shown[p] EXCEPT ![t] = c]]
    BY DEF Move
<1>6. [shown[p] EXCEPT ![t] = c] \in Board
    BY <1>1 DEF Board
<1>7. PagesOk'
  <2>1. moves' \in Nat
    BY DEF Move, Inv, PagesOk
  <2>2. shown' \in [Tab -> Board \cup {None}]
    BY <1>5, <1>6 DEF Inv, PagesOk
  <2> QED
    BY <2>1, <2>2 DEF Inv, PagesOk, Move
<1>8. TellsOk(S)'
  <2>1. \A x \in Follower : x # p
    BY <1>1, FollowerIsNoMover
  <2>2. \A x \in Follower : shown'[x] = shown[x]
    BY <1>5, <2>1, FollowerIsNoMover DEF Inv, PagesOk
  <2> QED
    BY <1>4, <2>2, KeepTells DEF Move
<1> QED
    BY <1>4, <1>7, <1>8 DEF Inv

LEMMA IdleOk == ASSUME NEW S, NEW c PROVE ReqOk(S, Idle, c)
BY IdleType DEF ReqOk

LEMMA ReplyStep ==
    ASSUME NEW S \in SUBSET Ticket, Inv(S), NEW r \in Request, Reply(r) PROVE Inv(S)'
<1> DEFINE q == requests[r]
<1>1. /\ q \in Requests /\ q.step \in {"answered", "failed"}
      /\ q.page \in Tab \cup {None} /\ q.previous \in Board
      /\ q.page # None => MayMove[q.page] # {}
    BY Fields DEF Reply, Inv, ReqsOk, ReqOk
<1>2. ReqsOk(S)' /\ Pending \subseteq Pending'
    BY <1>1, IdleOk, RequestStep DEF Reply
<1>3. /\ shown' \in [Tab -> Board \cup {None}]
      /\ \A x \in Tab : x # q.page => shown'[x] = shown[x]
    BY <1>1 DEF Reply, AfterReply, Inv, PagesOk
<1>4. PagesOk'
    BY <1>3 DEF Inv, PagesOk, Reply
<1>5. \A x \in Follower : x \in Tab /\ x # q.page
    BY <1>1, FollowerIsNoMover, NoneAssumption
<1>6. TellsOk(S)'
    BY <1>2, <1>3, <1>5, KeepTells DEF Reply
<1> QED
    BY <1>2, <1>4, <1>6 DEF Inv

LEMMA QuietStep ==
    ASSUME NEW S \in SUBSET Ticket, Inv(S),
           NEW r \in Request, NEW q, ReqOk(S, q, column),
           requests' = [requests EXCEPT ![r] = q], requests[r].step # "committed",
           UNCHANGED <<column, shown, load, socket, inbox, missed, moves, loads>>
    PROVE  Inv(S)'
<1>1. ReqsOk(S)' /\ Pending \subseteq Pending'
    BY RequestStep
<1>2. TellsOk(S)'
    BY <1>1, KeepTells
<1> QED
    BY <1>1, <1>2 DEF Inv, PagesOk

LEMMA ReadStep ==
    ASSUME NEW S \in SUBSET Ticket, Inv(S), NEW r \in Request, Read(r) PROVE Inv(S)'
<1> DEFINE q == requests[r]
           n == [q EXCEPT !.step = "read", !.loaded = column[q.ticket]]
<1>1. /\ ReqOk(S, q, column) /\ q \in Requests /\ q.step = "sent" /\ q.ticket \in Ticket
    BY Fields DEF Read, Inv, ReqsOk, ReqOk
<1>2. q \in [step : {"sent", "read", "committed", "answered", "failed"},
             page : Tab \cup {None}, by : User, ticket : Ticket, to : Column,
             loaded : Column \cup {None}, previous : Board]
    BY <1>1 DEF Requests, Idle
<1>3. column[q.ticket] \in Column
    BY <1>1 DEF Inv, ReqsOk, Board
<1>4. requests' = [requests EXCEPT ![r] = n]
    BY DEF Read
<1> HIDE DEF q
<1>5. /\ n \in Requests /\ n.step = "read" /\ n.loaded = column[q.ticket]
      /\ n.page = q.page /\ n.by = q.by /\ n.ticket = q.ticket
    BY <1>2, <1>3 DEF Requests
<1> HIDE DEF n
<1>6. ReqOk(S, n, column)
    BY <1>1, <1>3, <1>5, NoneAssumption DEF ReqOk
<1> QED
    BY <1>1, <1>4, <1>6, QuietStep DEF Read, q

LEMMA RefuseStep ==
    ASSUME NEW S \in SUBSET Ticket, Inv(S), NEW r \in Request, Refuse(r) PROVE Inv(S)'
<1> DEFINE q == requests[r]
           n == [q EXCEPT !.step = "failed"]
<1>1. ReqOk(S, q, column) /\ q \in Requests \ {Idle} /\ q.step \in {"sent", "read"}
    BY Fields DEF Refuse, Inv, ReqsOk, ReqOk
<1>2. requests' = [requests EXCEPT ![r] = n]
    BY DEF Refuse
<1> HIDE DEF q
<1>3. /\ n \in Requests /\ n.step = "failed"
      /\ n.page = q.page /\ n.by = q.by /\ n.ticket = q.ticket
    BY <1>1, StepOf
<1> HIDE DEF n
<1>4. ReqOk(S, n, column)
    BY <1>1, <1>3 DEF ReqOk
<1> QED
    BY <1>1, <1>2, <1>4, QuietStep DEF Refuse, q

\* The ticket of slot r moves to its column; if it is in S, no other request
\* has read it or has to tell of it.
LEMMA CommitStep ==
    ASSUME NEW S \in SUBSET Ticket, MovesApart(S), Inv(S), NEW r \in Request, Commit(r)
    PROVE  Inv(S)'
<1> DEFINE q == requests[r]
           n == [q EXCEPT !.step = "committed"]
           t == q.ticket
<1>1. /\ ReqOk(S, q, column) /\ q \in Requests \ {Idle} /\ q.step = "read"
      /\ t \in Ticket /\ q.to \in Column /\ q.loaded # None
      /\ t \in S => q.loaded = column[t]
    BY Fields DEF Commit, Inv, ReqsOk, ReqOk
<1>2. /\ requests' = [requests EXCEPT ![r] = n]
      /\ column' = [column EXCEPT ![t] = ColumnAfter(q)]
    BY DEF Commit
<1>3. ColumnAfter(q) \in Column /\ (t \in S => ColumnAfter(q) = q.to)
    BY <1>1 DEF ColumnAfter, Inv, ReqsOk, Board
<1>15. \A x \in Request \ {r} : ~(t \in S /\ Moving(x, t))
    BY <1>1 DEF MovesApart, Moving
<1> HIDE DEF q
<1>4. /\ n \in Requests /\ n.step = "committed"
      /\ n.page = q.page /\ n.by = q.by /\ n.ticket = t /\ n.to = q.to
      /\ n.loaded = q.loaded
    BY <1>1, StepOf
<1> HIDE DEF n, t
<1>5. /\ column' \in Board /\ (t \in S => column'[t] = q.to)
      /\ \A x \in Ticket \ {t} : column'[x] = column[x]
    BY <1>1, <1>2, <1>3 DEF Inv, ReqsOk, Board
<1>6. /\ requests' \in [Request -> Requests] /\ requests'[r] = n
      /\ \A x \in Request \ {r} : requests'[x] = requests[x]
    BY <1>2, <1>4 DEF Inv, ReqsOk
<1>8. ReqOk(S, n, column')
    BY <1>1, <1>4, <1>5 DEF ReqOk, t
<1>9. ASSUME NEW x \in Request \ {r} PROVE ReqOk(S, requests[x], column')
  <2>1. ReqOk(S, requests[x], column) /\ requests[x] \in Requests
    BY DEF Inv, ReqsOk
  <2>2. ASSUME requests[x].ticket \in S, requests[x].step \in {"read", "committed"}
        PROVE  column'[requests[x].ticket] = column[requests[x].ticket]
    <3>1. requests[x].ticket # t
      BY <1>15, <2>2 DEF Moving
    <3> QED
      BY <1>5, <2>2, <3>1
  <2> QED
    BY <2>1, <2>2 DEF ReqOk
<1>10. ReqsOk(S)'
    BY <1>5, <1>6, <1>8, <1>9 DEF ReqsOk
<1>11. \A x \in S \ Pending' : x \in S \ Pending /\ x # t
  <2>1. \A y \in Request : requests[y].step = "committed" => y # r
    BY <1>1 DEF q
  <2>2. Pending \subseteq Pending'
    BY <1>6, <2>1 DEF Pending
  <2>3. t \in Pending'
    BY <1>1, <1>4, <1>6 DEF Pending
  <2> QED
    BY <2>2, <2>3
<1>12. UNCHANGED <<shown, load, socket, inbox, missed, moves, loads>>
    BY DEF Commit
<1>13. PagesOk'
    BY <1>12 DEF Inv, PagesOk
<1>14. TellsOk(S)'
  <2> SUFFICES ASSUME NEW x \in Follower, socket[x] # "over"
               PROVE  Tells(shown[x], load[x], missed[x], inbox[x], column', S \ Pending')
    BY <1>12 DEF TellsOk
  <2>1. Tells(shown[x], load[x], missed[x], inbox[x], column, S \ Pending)
    BY DEF Inv, TellsOk
  <2> QED
    BY <1>5, <1>11, <2>1 DEF Tells
<1> QED
    BY <1>10, <1>13, <1>14 DEF Inv

LEMMA AppendEvents ==
    ASSUME NEW q \in Seq(Event), NEW e \in Event
    PROVE  /\ Append(q, e) \in Seq(Event)
           /\ \A i \in DOMAIN Append(q, e) :
                  Append(q, e)[i] = e \/ (i \in DOMAIN q /\ Append(q, e)[i] = q[i])
<1>1. /\ Append(q, e) \in Seq(Event) /\ Len(Append(q, e)) = Len(q) + 1
      /\ Append(q, e)[Len(q) + 1] = e /\ Len(q) \in Nat
      /\ \A i \in 1 .. Len(q) : Append(q, e)[i] = q[i]
    OBVIOUS
<1>2. DOMAIN Append(q, e) = 1 .. Len(q) + 1 /\ DOMAIN q = 1 .. Len(q)
    OBVIOUS
<1> QED
    BY <1>1, <1>2

LEMMA PassedByPages ==
    ASSUME NEW S \in SUBSET Ticket, Inv(S), NEW P \in SUBSET Tab, PassedBy(P)
    PROVE  /\ missed' \in [Tab -> BOOLEAN] /\ load' \in [Tab -> Loads]
           /\ \A p \in Tab : /\ load'[p].step = load[p].step
                             /\ load'[p].board = load[p].board
                             /\ missed'[p] = (missed[p] \/ p \in P)
                             /\ load'[p].gap = (load[p].gap \/ (p \in P /\ load[p].step = "read"))
<1>1. \A p \in Tab : load[p] \in Loads
    BY DEF Inv, PagesOk
<1>2. ASSUME NEW p \in Tab
      PROVE  /\ load'[p] = [load[p] EXCEPT !.gap = @ \/ (p \in P /\ load[p].step = "read")]
             /\ load'[p] \in Loads
             /\ load'[p].step = load[p].step
             /\ load'[p].board = load[p].board
             /\ load'[p].gap = (load[p].gap \/ (p \in P /\ load[p].step = "read"))
  <2>1. load'[p] = [load[p] EXCEPT !.gap = @ \/ (p \in P /\ load[p].step = "read")]
    BY DEF PassedBy
  <2>2. load[p] \in Loads /\ (load[p].gap \/ (p \in P /\ load[p].step = "read")) \in BOOLEAN
    BY <1>1 DEF Loads
  <2> QED
    BY <2>1, <2>2 DEF Loads
<1>3. load' \in [Tab -> Loads]
    BY <1>2 DEF PassedBy
<1>4. missed' \in [Tab -> BOOLEAN] /\ \A p \in Tab : missed'[p] = (missed[p] \/ p \in P)
    BY DEF PassedBy, Inv, PagesOk
<1> QED
    BY <1>2, <1>3, <1>4

\* An event is lost for every page: nothing is claimed of the boards there are.
LEMMA AllPassed ==
    ASSUME NEW S \in SUBSET Ticket, Inv(S), PassedBy(Tab),
           UNCHANGED <<column, shown, socket, inbox, moves, loads>>, ReqsOk(S)'
    PROVE  Inv(S)'
<1>1. /\ missed' \in [Tab -> BOOLEAN] /\ load' \in [Tab -> Loads]
      /\ \A p \in Tab : /\ load'[p].step = load[p].step
                        /\ load'[p].board = load[p].board
                        /\ missed'[p]
                        /\ load'[p].step = "read" => load'[p].gap
    BY PassedByPages
<1>2. PagesOk'
    BY <1>1 DEF Inv, PagesOk
<1>3. TellsOk(S)'
    BY <1>1, FollowerIsNoMover DEF TellsOk, Tells
<1> QED
    BY <1>2, <1>3 DEF Inv

LEMMA PublishFailStep ==
    ASSUME NEW S \in SUBSET Ticket, Inv(S), NEW r \in Request, PublishFail(r)
    PROVE  Inv(S)'
<1> DEFINE q == requests[r]
           n == [q EXCEPT !.step = "failed"]
<1>1. ReqOk(S, q, column) /\ q \in Requests \ {Idle} /\ q.step = "committed"
    BY Fields DEF PublishFail, Inv, ReqsOk, ReqOk
<1>2. requests' = [requests EXCEPT ![r] = n]
    BY DEF PublishFail
<1> HIDE DEF q
<1>3. /\ n \in Requests /\ n.step = "failed"
      /\ n.page = q.page /\ n.by = q.by /\ n.ticket = q.ticket
    BY <1>1, StepOf
<1> HIDE DEF n
<1>4. ReqOk(S, n, column)
    BY <1>1, <1>3 DEF ReqOk
<1>5. ReqsOk(S)'
    BY <1>2, <1>4, RequestStep DEF PublishFail
<1> QED
    BY <1>5, AllPassed DEF PublishFail

LEMMA CrashStep ==
    ASSUME NEW S \in SUBSET Ticket, Inv(S), NEW r \in Request, Crash(r) PROVE Inv(S)'
<1>1. requests' = [requests EXCEPT ![r] = Idle] /\ ReqOk(S, Idle, column)
    BY IdleOk DEF Crash
<1>2. CASE requests[r].step = "committed"
    BY <1>1, <1>2, RequestStep, AllPassed DEF Crash
<1>3. CASE requests[r].step # "committed"
    BY <1>1, <1>3, QuietStep DEF Crash
<1> QED
    BY <1>2, <1>3

\* The event carries the column that was committed, and comes last.
LEMMA PublishStep ==
    ASSUME NEW S \in SUBSET Ticket, Inv(S), NEW r \in Request, Publish(r) PROVE Inv(S)'
<1> DEFINE q == requests[r]
           n == [q EXCEPT !.step = "answered"]
           t == q.ticket
           e == [ticket |-> q.ticket, to |-> q.to, by |-> q.by]
           P == {p \in Tab : socket[p] # "open"}
<1>1. /\ ReqOk(S, q, column) /\ q \in Requests \ {Idle} /\ q.step = "committed"
      /\ t \in Ticket /\ q.to \in Column /\ q.by \in User
      /\ Mover(q.by) /\ (t \in S => column[t] = q.to)
    BY Fields DEF Publish, Inv, ReqsOk, ReqOk
<1>2. e \in Event /\ e.ticket = t /\ (t \in S => e.to = column[t]) /\ Mover(e.by)
    BY <1>1 DEF Event
<1>3. /\ requests' = [requests EXCEPT ![r] = n]
      /\ inbox' = [p \in Tab |-> Forwarded(p, e)]
      /\ PassedBy(P)
    BY DEF Publish
<1> HIDE DEF e, q
<1>4. /\ n \in Requests /\ n.step = "answered"
      /\ n.page = q.page /\ n.by = q.by /\ n.ticket = q.ticket
    BY <1>1, StepOf
<1> HIDE DEF n, t
<1>5. ReqOk(S, n, column)
    BY <1>1, <1>4 DEF ReqOk
<1>6. ReqsOk(S)' /\ \A x \in Pending : x \in Pending' \/ x = t
    BY <1>3, <1>5, RequestStep DEF Publish, q, t
<1>7. /\ missed' \in [Tab -> BOOLEAN] /\ load' \in [Tab -> Loads]
      /\ \A p \in Tab : /\ load'[p].step = load[p].step
                        /\ load'[p].board = load[p].board
                        /\ missed'[p] = (missed[p] \/ p \in P)
                        /\ load'[p].gap = (load[p].gap \/ (p \in P /\ load[p].step = "read"))
    BY <1>3, PassedByPages
<1>8. ASSUME NEW p \in Tab
      PROVE  /\ inbox'[p] \in Seq(Event)
             /\ p \in P => inbox'[p] = <<>>
             /\ p \notin P => inbox'[p] = Append(inbox[p], e)
             /\ \A i \in DOMAIN inbox'[p] : Mover(inbox'[p][i].by)
  <2>1. inbox'[p] = Forwarded(p, e)
    BY <1>3
  <2>2. inbox[p] \in Seq(Event)
    BY DEF Inv, PagesOk
  <2>3. CASE p \in P
    <3>1. inbox'[p] = inbox[p] /\ inbox[p] = <<>>
      BY <2>1, <2>3 DEF Forwarded, Inv, PagesOk
    <3> QED
      BY <2>2, <2>3, <3>1
  <2>4. CASE p \notin P
    <3>1. inbox'[p] = Append(inbox[p], e)
      BY <2>1, <2>4 DEF Forwarded
    <3>2. /\ Append(inbox[p], e) \in Seq(Event)
          /\ \A i \in DOMAIN Append(inbox[p], e) :
                 Append(inbox[p], e)[i] = e
                   \/ (i \in DOMAIN inbox[p] /\ Append(inbox[p], e)[i] = inbox[p][i])
      BY <1>2, <2>2, AppendEvents
    <3>3. \A i \in DOMAIN inbox[p] : Mover(inbox[p][i].by)
      BY DEF Inv, PagesOk
    <3> QED
      BY <1>2, <2>4, <3>1, <3>2, <3>3
  <2> QED
    BY <2>3, <2>4
<1>9. UNCHANGED <<column, shown, socket, moves, loads>>
    BY DEF Publish
<1>10. PagesOk'
  <2>1. inbox' \in [Tab -> Seq(Event)]
    BY <1>3, <1>8
  <2>2. \A p \in Tab : socket[p] # "open" => inbox'[p] = <<>>
    BY <1>8
  <2> QED
    BY <1>7, <1>8, <1>9, <2>1, <2>2 DEF Inv, PagesOk
<1>11. TellsOk(S)'
  <2> SUFFICES ASSUME NEW p \in Follower, socket[p] # "over"
               PROVE  Tells(shown[p], load'[p], missed'[p], inbox'[p], column, S \ Pending')
    BY <1>9 DEF TellsOk
  <2>0. p \in Tab
    BY FollowerIsNoMover
  <2>1. CASE p \in P
    BY <1>7, <2>0, <2>1 DEF Tells
  <2>2. CASE p \notin P
    <3>1. Tells(shown[p], load[p], missed[p], inbox[p], column, S \ Pending)
      BY DEF Inv, TellsOk
    <3>2. inbox'[p] = Append(inbox[p], e) /\ inbox[p] \in Seq(Event)
      BY <1>8, <2>0, <2>2 DEF Inv, PagesOk
    <3>3. ASSUME NEW x \in S \ Pending', NEW b,
                 x # t => Agrees(b, inbox[p], column[x], x)
          PROVE  Agrees(b, inbox'[p], column[x], x)
      <4>1. e.ticket = x => e.to = column[x]
        BY <1>2
      <4>2. e.ticket # x => Agrees(b, inbox[p], column[x], x)
        BY <1>2, <3>3
      <4> QED
        BY <1>2, <3>2, <4>1, <4>2, AgreesAppend
    <3> SUFFICES ASSUME NEW x \in S \ Pending'
                 PROVE  /\ ~missed'[p] => Agrees(shown[p], inbox'[p], column[x], x)
                        /\ load'[p].step = "read" /\ ~load'[p].gap =>
                               Agrees(load'[p].board, inbox'[p], column[x], x)
      BY DEF Tells
    <3>4. x # t => x \in S \ Pending
      BY <1>6
    <3>5. ~missed'[p] => Agrees(shown[p], inbox'[p], column[x], x)
      BY <1>7, <2>0, <2>2, <3>1, <3>3, <3>4 DEF Tells
    <3>6. load'[p].step = "read" /\ ~load'[p].gap =>
              Agrees(load'[p].board, inbox'[p], column[x], x)
      BY <1>7, <2>0, <2>2, <3>1, <3>3, <3>4 DEF Tells
    <3> QED
      BY <3>5, <3>6
  <2> QED
    BY <2>1, <2>2
<1> QED
    BY <1>6, <1>10, <1>11 DEF Inv

LEMMA NextInv ==
    ASSUME NEW S \in SUBSET Ticket, MovesApart(S), Inv(S), [Next]_vars PROVE Inv(S)'
<1>1. ASSUME NEW r \in Request,
             \/ \E p \in Tab, t \in Ticket, c \in Column : Move(r, p, t, c)
             \/ ServerStep(r) \/ Refuse(r) \/ PublishFail(r) \/ Crash(r)
      PROVE  Inv(S)'
    BY <1>1, MoveStep, ReadStep, CommitStep, PublishStep, ReplyStep, RefuseStep,
       PublishFailStep, CrashStep DEF ServerStep
<1>2. ASSUME NEW p \in Tab,
             \/ PageStep(p) \/ Reload(p) \/ LoadFail(p) \/ Open(p)
             \/ Subscribe(p) \/ Close(p)
      PROVE  Inv(S)'
    BY <1>2, LoadReadStep, LoadEndStep, ReceiveStep, AskStep, OpenStep, SocketStep
       DEF PageStep
<1>3. CASE UNCHANGED vars
  <2>1. ReqsOk(S)' /\ PagesOk'
    BY <1>3 DEF vars, Inv, ReqsOk, PagesOk
  <2>2. TellsOk(S)'
    BY <1>3, KeepTells DEF vars, Pending
  <2> QED
    BY <2>1, <2>2 DEF Inv
<1> QED
    BY <1>1, <1>2, <1>3 DEF Next

\* Every state of the live board is well typed, and a socket that is not
\* open has no events, however moves of a ticket overlap.
THEOREM LiveBoardTypes == Spec => []TypeOK
<1>1. Init => Inv({})
    BY InitInv
<1>2. Inv({}) /\ [Next]_vars => Inv({})'
    BY NextInv DEF MovesApart
<1>3. Inv({}) => TypeOK
    BY InvTypes
<1> QED
    BY <1>1, <1>2, <1>3, PTL DEF Spec

\* What the pages that follow show of the tickets in S.
CurrentIn(S) ==
    \A p \in Follower, t \in S : Following(p) /\ Settled(p, t) => shown[p][t] = column[t]

LEMMA InvCurrent == ASSUME NEW S \in SUBSET Ticket, Inv(S) PROVE CurrentIn(S)
<1> SUFFICES ASSUME NEW p \in Follower, NEW t \in S, Following(p), Settled(p, t)
             PROVE  shown[p][t] = column[t]
    BY DEF CurrentIn
<1>1. t \notin Pending
    BY DEF Settled, Pending
<1>2. Agrees(shown[p], inbox[p], column[t], t)
    BY <1>1 DEF Following, Inv, TellsOk, Tells
<1> QED
    BY <1>2 DEF Agrees, Settled, Following

\* page.tsx and ws.py: a ticket whose moves do not overlap is shown where the
\* database has it by each page that follows, as soon as its events are
\* handled, for any number of pages, tickets and requests and however the
\* moves of the other tickets overlap.
THEOREM FollowersAreCurrentIn ==
    ASSUME NEW S \in SUBSET Ticket PROVE Spec /\ []MovesApart(S) => []CurrentIn(S)
<1>1. Init => Inv(S)
    BY InitInv
<1>2. MovesApart(S) /\ Inv(S) /\ [Next]_vars => Inv(S)'
    BY NextInv
<1>3. Inv(S) => CurrentIn(S)
    BY InvCurrent
<1> QED
    BY <1>1, <1>2, <1>3, PTL DEF Spec

\* The same of all tickets at once.
THEOREM FollowerCurrentHolds == Spec /\ []MovesApart(Ticket) => []FollowerCurrent
<1>1. Init => Inv(Ticket)
    BY InitInv
<1>2. MovesApart(Ticket) /\ Inv(Ticket) /\ [Next]_vars => Inv(Ticket)'
    BY NextInv
<1>3. Inv(Ticket) => FollowerCurrent
    BY InvCurrent DEF CurrentIn, FollowerCurrent
<1> QED
    BY <1>1, <1>2, <1>3, PTL DEF Spec

=============================================================================
