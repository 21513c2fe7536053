---------------------------- MODULE MembersProofs ----------------------------
(***************************************************************************)
(* Safety of Membership for every set of users, invites and requests, and  *)
(* of the bells of Notifications for any number of them, as MCMembers      *)
(* puts the two side by side.                                              *)
(* RowInv and LoadedInv say what a request may rely on about the rows it   *)
(* loaded; Spare is what the count of _ensure_not_last_admin establishes   *)
(* and what a second role change at the same time would destroy; BellsInv  *)
(* says what may be on its way to a page.                                  *)
(***************************************************************************)
EXTENDS MCMembers, Integers, Sequences, FiniteSetTheorems, TLAPS

-----------------------------------------------------------------------------
(* Membership                                                               *)

USE DEF At, Member, Stored, Usable, Role

\* What a request carries.
ArgInv == \A r \in Request :
    /\ req[r].op = "member" =>
         r \in RoleRequest /\ req[r].user \in User /\ req[r].to \in Role \cup {"gone"}
    /\ req[r].op \in {"create", "regenerate", "redeem"} =>
         req[r].email \in Email /\ req[r].role \in Role

\* A row of invites that was ever inserted has an address and a role.
RowInv == \A i \in Invite :
    invites[i].state # "none" => invites[i].email \in Email /\ invites[i].role \in Role

\* The row a request loaded was inserted, and its address and role never change.
LoadedInv == \A r \in Request :
    req[r].op \in {"regenerate", "revoke", "redeem"} =>
        /\ req[r].invite \in Invite
        /\ invites[req[r].invite].state # "none"
        /\ req[r].op = "redeem" =>
             /\ req[r].email = invites[req[r].invite].email
             /\ req[r].role = invites[req[r].invite].role

IInv == TypeOK /\ ArgInv /\ RowInv /\ LoadedInv

\* A change that is about to be committed leaves another admin.
Spare == \A r \in Request :
    At(r, "member", "write") /\ role[req[r].user] = "admin" =>
        \E v \in User \ {req[r].user} : role[v] = "admin"
-----------------------------------------------------------------------------
\* Records: a request before and after its fields change, and the rows of invites.
LEMMA IdleType == /\ Idle \in Requests
                  /\ Idle.op = None /\ Idle.at = "idle"
                  /\ Idle.op \notin {"member", "create", "regenerate", "revoke", "redeem"}
BY NoneAssumption DEF Idle, Requests

LEMMA BeginType ==
    ASSUME TypeOK, NEW r \in Request, NEW q \in Requests, Begin(r, q)
    PROVE  /\ req' \in [Request -> Requests]
           /\ req'[r] = q
           /\ \A x \in Request \ {r} : req'[x] = req[x]
BY DEF TypeOK, Begin

LEMMA FinishType ==
    ASSUME TypeOK, NEW r \in Request, Finish(r)
    PROVE  /\ req' \in [Request -> Requests]
           /\ req'[r] = Idle
           /\ \A x \in Request \ {r} : req'[x] = req[x]
BY IdleType DEF TypeOK, Finish

\* A request that moves on keeps its operation and its arguments.
LEMMA GotoType ==
    ASSUME TypeOK, NEW r \in Request, NEW a \in {"idle", "count", "select", "write"},
           Goto(r, a)
    PROVE  /\ req' \in [Request -> Requests]
           /\ req'[r].op = req[r].op /\ req'[r].at = a
           /\ req'[r].user = req[r].user /\ req'[r].to = req[r].to
           /\ req'[r].email = req[r].email /\ req'[r].role = req[r].role
           /\ req'[r].invite = req[r].invite
           /\ \A x \in Request \ {r} : req'[x] = req[x]
<1>1. ASSUME NEW q \in Requests
      PROVE  LET n == [q EXCEPT !.at = a]
             IN  /\ n \in Requests
                 /\ n.op = q.op /\ n.at = a /\ n.user = q.user /\ n.to = q.to
                 /\ n.email = q.email /\ n.role = q.role /\ n.invite = q.invite
    BY DEF Requests
<1>2. req[r] \in Requests /\ req' = [req EXCEPT ![r] = [req[r] EXCEPT !.at = a]]
    BY DEF TypeOK, Goto
<1> QED
    BY <1>1, <1>2 DEF TypeOK

LEMMA NewInviteType ==
    ASSUME IInv, NEW r \in Request, req[r].op \in {"create", "regenerate"}
    PROVE  /\ NewInvite(r) \in Invites /\ NewInvite(r).state = "pending"
           /\ NewInvite(r).email \in Email /\ NewInvite(r).role \in Role
<1>1. req[r].email \in Email /\ req[r].role \in Role
    BY DEF IInv, ArgInv
<1> QED
    BY <1>1 DEF NewInvite, Invites

\* What a step may do to the rows of invites: they stay rows, and a row that
\* was inserted keeps its address and role.
RowsKept == /\ invites' \in [Invite -> Invites]
            /\ \A i \in Invite : invites[i].state # "none" =>
                 /\ invites'[i].state # "none"
                 /\ invites'[i].email = invites[i].email
                 /\ invites'[i].role = invites[i].role

\* Each of the steps that write a row of invites keeps the others.
SetTo(i, s) == invites' = [invites EXCEPT ![i].state = s]
Replace(i, j, n) == invites' = [invites EXCEPT ![i].state = "gone", ![j] = n]

LEMMA SetState ==
    ASSUME TypeOK, RowInv, NEW i \in Invite, invites[i].state # "none",
           NEW s \in {"pending", "accepted", "gone"},
           SetTo(i, s)
    PROVE  /\ RowsKept /\ RowInv'
           /\ \A j \in Invite \ {i} : invites'[j] = invites[j]
           /\ invites'[i].state = s
<1>1. invites \in [Invite -> Invites]
    BY DEF TypeOK
<1>2. ASSUME NEW q \in Invites
      PROVE  /\ [q EXCEPT !.state = s] \in Invites
             /\ [q EXCEPT !.state = s].state = s
             /\ [q EXCEPT !.state = s].email = q.email
             /\ [q EXCEPT !.state = s].role = q.role
    BY DEF Invites
<1>3. /\ invites' \in [Invite -> Invites]
      /\ invites'[i].state = s
      /\ invites'[i].email = invites[i].email /\ invites'[i].role = invites[i].role
      /\ \A j \in Invite \ {i} : invites'[j] = invites[j]
    BY <1>1, <1>2 DEF SetTo
<1> QED
    BY <1>1, <1>3 DEF RowsKept, RowInv

LEMMA InsertRow ==
    ASSUME TypeOK, RowInv, NEW j \in Invite, invites[j] = NoInvite,
           NEW n \in Invites, n.state = "pending", n.email \in Email, n.role \in Role,
           invites' = [invites EXCEPT ![j] = n]
    PROVE  /\ RowsKept /\ RowInv'
           /\ \A i \in Invite \ {j} : invites'[i] = invites[i]
           /\ invites'[j].state = "pending"
<1>1. invites \in [Invite -> Invites]
    BY DEF TypeOK
<1>2. invites[j].state = "none"
    BY DEF NoInvite
<1> QED
    BY <1>1, <1>2 DEF RowsKept, RowInv

LEMMA ReplaceRow ==
    ASSUME TypeOK, RowInv, NEW i \in Invite, invites[i].state # "none",
           NEW j \in Invite, invites[j] = NoInvite,
           NEW n \in Invites, n.state = "pending", n.email \in Email, n.role \in Role,
           Replace(i, j, n)
    PROVE  /\ RowsKept /\ RowInv'
           /\ \A k \in Invite \ {i, j} : invites'[k] = invites[k]
           /\ invites'[i].state = "gone" /\ invites'[j].state = "pending"
<1>1. invites \in [Invite -> Invites]
    BY DEF TypeOK
<1>2. invites[j].state = "none" /\ i # j
    BY DEF NoInvite
<1>3. ASSUME NEW q \in Invites
      PROVE  /\ [q EXCEPT !.state = "gone"] \in Invites
             /\ [q EXCEPT !.state = "gone"].state = "gone"
             /\ [q EXCEPT !.state = "gone"].email = q.email
             /\ [q EXCEPT !.state = "gone"].role = q.role
    BY DEF Invites
<1>4. /\ invites' \in [Invite -> Invites]
      /\ invites'[i].state = "gone" /\ invites'[j] = n
      /\ invites'[i].email = invites[i].email /\ invites'[i].role = invites[i].role
      /\ \A k \in Invite \ {i, j} : invites'[k] = invites[k]
    BY <1>1, <1>2, <1>3 DEF Replace
<1> QED
    BY <1>1, <1>2, <1>4 DEF RowsKept, RowInv

LEMMA SameRows == ASSUME IInv, UNCHANGED invites PROVE RowsKept /\ RowInv'
BY DEF IInv, TypeOK, RowInv, RowsKept
-----------------------------------------------------------------------------
(* IInv is inductive. *)

\* A step of r that ends it or moves it on keeps what every request relies on.
LEMMA StepArgs ==
    ASSUME IInv, RowsKept, NEW r \in Request,
           \A x \in Request \ {r} : req'[x] = req[x],
           \/ req'[r] = Idle
           \/ /\ req'[r].op = req[r].op
              /\ req'[r].user = req[r].user /\ req'[r].to = req[r].to
              /\ req'[r].email = req[r].email /\ req'[r].role = req[r].role
              /\ req'[r].invite = req[r].invite
    PROVE  ArgInv' /\ LoadedInv'
<1>1. ArgInv'
  <2> SUFFICES ASSUME NEW x \in Request
               PROVE  /\ req'[x].op = "member" =>
                           /\ x \in RoleRequest /\ req'[x].user \in User
                           /\ req'[x].to \in Role \cup {"gone"}
                      /\ req'[x].op \in {"create", "regenerate", "redeem"} =>
                           req'[x].email \in Email /\ req'[x].role \in Role
      BY DEF ArgInv
  <2>1. CASE req'[x] = Idle
      BY <2>1, IdleType
  <2>2. CASE req'[x] # Idle
      BY <2>2 DEF IInv, ArgInv
  <2> QED
      BY <2>1, <2>2
<1>2. LoadedInv'
  <2> SUFFICES ASSUME NEW x \in Request,
                      req'[x].op \in {"regenerate", "revoke", "redeem"}
               PROVE  /\ req'[x].invite \in Invite
                      /\ invites'[req'[x].invite].state # "none"
                      /\ req'[x].op = "redeem" =>
                           /\ req'[x].email = invites'[req'[x].invite].email
                           /\ req'[x].role = invites'[req'[x].invite].role
      BY DEF LoadedInv
  <2>1. req'[x] # Idle
      BY IdleType
  <2>2. /\ req[x].op = req'[x].op /\ req[x].invite = req'[x].invite
        /\ req[x].email = req'[x].email /\ req[x].role = req'[x].role
      BY <2>1
  <2>3. /\ req[x].invite \in Invite
        /\ invites[req[x].invite].state # "none"
        /\ req[x].op = "redeem" =>
             /\ req[x].email = invites[req[x].invite].email
             /\ req[x].role = invites[req[x].invite].role
      BY <2>2 DEF IInv, LoadedInv
  <2> QED
      BY <2>2, <2>3 DEF RowsKept
<1> QED
    BY <1>1, <1>2

\* So does a read step, which starts a request whose arguments are in order.
LEMMA BeginArgs ==
    ASSUME IInv, NEW r \in Request, NEW q \in Requests, Begin(r, q),
           UNCHANGED <<role, email, other, invites, claims>>,
           q.op = "member" =>
               r \in RoleRequest /\ q.user \in User /\ q.to \in Role \cup {"gone"},
           q.op \in {"create", "regenerate", "redeem"} => q.email \in Email /\ q.role \in Role,
           q.op \in {"regenerate", "revoke", "redeem"} =>
               q.invite \in Invite /\ invites[q.invite].state # "none",
           q.op = "redeem" =>
               q.email = invites[q.invite].email /\ q.role = invites[q.invite].role
    PROVE  IInv'
<1>1. /\ req' \in [Request -> Requests] /\ req'[r] = q
      /\ \A x \in Request \ {r} : req'[x] = req[x]
    BY BeginType DEF IInv
<1>2. TypeOK'
    BY <1>1 DEF IInv, TypeOK
<1>3. ArgInv'
    BY <1>1 DEF IInv, ArgInv
<1>4. LoadedInv'
    BY <1>1 DEF IInv, LoadedInv
<1> QED
    BY <1>2, <1>3, <1>4, SameRows DEF IInv

\* A step that ends r and leaves the tables alone.
LEMMA FinishIInv ==
    ASSUME IInv, NEW r \in Request, Finish(r),
           UNCHANGED <<role, email, other, invites, claims>>
    PROVE  IInv'
<1>1. /\ req' \in [Request -> Requests] /\ req'[r] = Idle
      /\ \A x \in Request \ {r} : req'[x] = req[x]
    BY FinishType DEF IInv
<1> QED
    BY <1>1, SameRows, StepArgs DEF IInv, TypeOK

LEMMA GotoIInv ==
    ASSUME IInv, NEW r \in Request, NEW a \in {"idle", "count", "select", "write"}, Goto(r, a),
           UNCHANGED <<role, email, other, invites, claims>>
    PROVE  IInv'
<1>1. /\ req' \in [Request -> Requests]
      /\ req'[r].op = req[r].op
      /\ req'[r].user = req[r].user /\ req'[r].to = req[r].to
      /\ req'[r].email = req[r].email /\ req'[r].role = req[r].role
      /\ req'[r].invite = req[r].invite
      /\ \A x \in Request \ {r} : req'[x] = req[x]
    BY GotoType DEF IInv
<1>2. ArgInv' /\ LoadedInv'
    BY <1>1, SameRows, StepArgs
<1> QED
    BY <1>1, <1>2, SameRows DEF IInv, TypeOK

\* The step that ends r after writing rows of invites.
LEMMA InviteIInv ==
    ASSUME IInv, NEW r \in Request, Finish(r), RowsKept, RowInv',
           UNCHANGED <<role, email, other, claims>>
    PROVE  IInv'
<1>1. /\ req' \in [Request -> Requests] /\ req'[r] = Idle
      /\ \A x \in Request \ {r} : req'[x] = req[x]
    BY FinishType DEF IInv
<1> QED
    BY <1>1, StepArgs DEF IInv, TypeOK, RowsKept

\* What the redemption does, for the proofs that use it: r ends, and either
\* nothing else changes or a new member joins and its invite is accepted.
LEMMA RedeemEffect ==
    ASSUME IInv, NEW r \in Request, RedeemCommit(r)
    PROVE  /\ Finish(r) /\ UNCHANGED <<other, claims>>
           /\ \/ UNCHANGED <<role, email, invites>>
              \/ \E u \in User, i \in Invite :
                   /\ Stored(i) /\ role[u] = "none"
                   /\ req[r].role \in Role /\ req[r].email \in Email
                   /\ invites[i].email = req[r].email /\ invites[i].role = req[r].role
                   /\ role' = [role EXCEPT ![u] = req[r].role]
                   /\ email' = [email EXCEPT ![u] = req[r].email]
                   /\ RowsKept /\ RowInv'
                   /\ invites'[i].state = "accepted"
                   /\ \A j \in Invite \ {i} : invites'[j] = invites[j]
<1> DEFINE i == req[r].invite
<1>1. /\ req[r].op = "redeem" /\ Finish(r) /\ UNCHANGED <<other, claims>>
    BY DEF RedeemCommit
<1>2. CASE ~MayJoin(i, req[r].email)
    BY <1>1, <1>2 DEF RedeemCommit
<1>3. CASE MayJoin(i, req[r].email)
  <2>1. /\ i \in Invite /\ invites[i].state # "none" /\ Stored(i)
        /\ req[r].role \in Role /\ req[r].email \in Email
        /\ invites[i].email = req[r].email /\ invites[i].role = req[r].role
      BY <1>1, <1>3 DEF IInv, LoadedInv, ArgInv, MayJoin
  <2>2. PICK u \in User :
            /\ role[u] = "none"
            /\ role' = [role EXCEPT ![u] = req[r].role]
            /\ email' = [email EXCEPT ![u] = req[r].email]
            /\ invites' = [invites EXCEPT ![i].state = IF Stored(i) THEN "accepted" ELSE @]
      BY <1>3 DEF RedeemCommit
  <2>3. SetTo(i, "accepted")
      BY <2>1, <2>2 DEF SetTo
  <2>4. /\ RowsKept /\ RowInv' /\ invites'[i].state = "accepted"
        /\ \A j \in Invite \ {i} : invites'[j] = invites[j]
      BY <2>1, <2>3, SetState DEF IInv
  <2> HIDE DEF i
  <2> QED
      BY <1>1, <2>1, <2>2, <2>4
<1> QED
    BY <1>2, <1>3

\* The two steps that write an invite row carry a row that is well-formed.
LEMMA CreateEffect ==
    ASSUME IInv, NEW r \in Request, CreateInviteCommit(r)
    PROVE  /\ Finish(r) /\ RowsKept /\ RowInv'
           /\ \A i \in Invite : invites'[i] = invites[i] \/ invites'[i].state = "pending"
<1>1. /\ NewInvite(r) \in Invites /\ NewInvite(r).state = "pending"
      /\ NewInvite(r).email \in Email /\ NewInvite(r).role \in Role
    BY NewInviteType DEF CreateInviteCommit
<1>2. PICK j \in Invite : /\ invites[j] = NoInvite
                          /\ invites' = [invites EXCEPT ![j] = NewInvite(r)]
    BY DEF CreateInviteCommit
<1>3. /\ RowsKept /\ RowInv'
      /\ \A i \in Invite \ {j} : invites'[i] = invites[i]
      /\ invites'[j].state = "pending"
    BY <1>1, <1>2, InsertRow DEF IInv
<1> QED
    BY <1>3 DEF CreateInviteCommit

LEMMA RegenerateEffect ==
    ASSUME IInv, NEW r \in Request, RegenerateCommit(r)
    PROVE  /\ Finish(r) /\ RowsKept /\ RowInv'
           /\ \A i \in Invite : \/ invites'[i] = invites[i]
                                \/ invites'[i].state \in {"gone", "pending"}
<1>1. /\ NewInvite(r) \in Invites /\ NewInvite(r).state = "pending"
      /\ NewInvite(r).email \in Email /\ NewInvite(r).role \in Role
    BY NewInviteType DEF RegenerateCommit
<1>2. PICK j \in Invite : /\ invites[j] = NoInvite
                          /\ Replace(req[r].invite, j, NewInvite(r))
    BY DEF RegenerateCommit, Replace
<1>3. req[r].invite \in Invite /\ invites[req[r].invite].state # "none"
    BY DEF RegenerateCommit, IInv, LoadedInv
<1>4. /\ RowsKept /\ RowInv'
      /\ \A k \in Invite \ {req[r].invite, j} : invites'[k] = invites[k]
      /\ invites'[req[r].invite].state = "gone" /\ invites'[j].state = "pending"
    BY <1>1, <1>2, <1>3, ReplaceRow DEF IInv
<1> QED
    BY <1>4 DEF RegenerateCommit

LEMMA RevokeEffect ==
    ASSUME IInv, NEW r \in Request, RevokeCommit(r)
    PROVE  /\ Finish(r) /\ RowsKept /\ RowInv'
           /\ \A i \in Invite : invites'[i] = invites[i] \/ invites'[i].state = "gone"
<1>1. req[r].invite \in Invite /\ invites[req[r].invite].state # "none"
    BY DEF RevokeCommit, IInv, LoadedInv
<1>2. SetTo(req[r].invite, "gone")
    BY DEF RevokeCommit, SetTo
<1> QED
    BY <1>1, <1>2, SetState DEF RevokeCommit, IInv

LEMMA ExpireEffect ==
    ASSUME IInv, NEW i \in Invite, Expire(i)
    PROVE  /\ RowsKept /\ RowInv'
           /\ \A j \in Invite : invites'[j].state = invites[j].state
<1>1. ASSUME NEW q \in Invites
      PROVE  /\ [q EXCEPT !.expired = TRUE] \in Invites
             /\ [q EXCEPT !.expired = TRUE].state = q.state
             /\ [q EXCEPT !.expired = TRUE].email = q.email
             /\ [q EXCEPT !.expired = TRUE].role = q.role
    BY DEF Invites
<1>2. /\ invites' \in [Invite -> Invites]
      /\ \A j \in Invite : /\ invites'[j].state = invites[j].state
                           /\ invites'[j].email = invites[j].email
                           /\ invites'[j].role = invites[j].role
    BY <1>1 DEF IInv, TypeOK, Expire
<1> QED
    BY <1>2 DEF IInv, RowsKept, RowInv

LEMMA InitIInv == Init => IInv
<1> SUFFICES ASSUME Init PROVE IInv
    OBVIOUS
<1>1. TypeOK
    BY IdleType, FounderAssumption DEF Init, TypeOK, Invites, NoInvite
<1>2. RowInv
    BY DEF Init, RowInv, NoInvite
<1> QED
    BY <1>1, <1>2, IdleType DEF Init, IInv, ArgInv, LoadedInv

\* Every step keeps IInv; one step of the proof per action of Next.
LEMMA NextIInv == IInv /\ [Next]_vars => IInv'
<1> SUFFICES ASSUME IInv, [Next]_vars PROVE IInv'
    OBVIOUS
<1>1. CASE UNCHANGED vars
    BY <1>1 DEF IInv, TypeOK, ArgInv, RowInv, LoadedInv, vars
<1>2. ASSUME NEW u \in User, IssueToken(u) \/ ExpireToken(u) PROVE IInv'
    BY <1>2 DEF IInv, TypeOK, ArgInv, RowInv, LoadedInv, IssueToken, ExpireToken
<1>3. ASSUME NEW e \in Email, SignUpElsewhere(e) PROVE IInv'
    BY <1>3 DEF IInv, TypeOK, ArgInv, RowInv, LoadedInv, SignUpElsewhere
<1>4. ASSUME NEW i \in Invite, Expire(i) PROVE IInv'
  <2>1. RowsKept /\ RowInv' /\ UNCHANGED <<role, email, other, claims, req>>
      BY <1>4, ExpireEffect DEF Expire
  <2>2. TypeOK' /\ ArgInv'
      BY <2>1 DEF IInv, TypeOK, ArgInv, RowsKept
  <2>3. LoadedInv'
      BY <2>1 DEF IInv, LoadedInv, RowsKept
  <2> QED
      BY <2>1, <2>2, <2>3 DEF IInv
<1>5. ASSUME NEW r \in Request, NEW u \in User, NEW to \in Role \cup {"gone"},
             MemberRead(r, u, to)
      PROVE IInv'
  <2> DEFINE a == IF NeedsCount(u, to) THEN "count" ELSE "write"
             q == [Idle EXCEPT !.op = "member", !.user = u, !.to = to, !.at = a]
  <2>1. a \in {"count", "write"}
      OBVIOUS
  <2>2. /\ r \in RoleRequest /\ Begin(r, q)
        /\ UNCHANGED <<role, email, other, invites, claims>>
      BY <1>5 DEF MemberRead
  <2> HIDE DEF a
  <2>3. q \in Requests /\ q.op = "member" /\ q.user = u /\ q.to = to
      BY <2>1 DEF Idle, Requests
  <2> HIDE DEF q
  <2> QED
      BY <2>2, <2>3, BeginArgs
<1>6. ASSUME NEW r \in Request, NEW e \in Email, NEW x \in Role, CreateInviteRead(r, e, x)
      PROVE IInv'
  <2> DEFINE q == [Idle EXCEPT !.op = "create", !.at = "select", !.email = e, !.role = x]
  <2>1. Begin(r, q) /\ UNCHANGED <<role, email, other, invites, claims>>
      BY <1>6 DEF CreateInviteRead
  <2>2. q \in Requests /\ q.op = "create" /\ q.email = e /\ q.role = x
      BY DEF Idle, Requests
  <2> HIDE DEF q
  <2> QED
      BY <2>1, <2>2, BeginArgs
<1>7. ASSUME NEW r \in Request, NEW i \in Invite, RegenerateRead(r, i) \/ RedeemRead(r, i)
      PROVE IInv'
  <2>1. invites[i].email \in Email /\ invites[i].role \in Role /\ invites[i].state # "none"
      BY <1>7 DEF IInv, RowInv, RegenerateRead, RedeemRead
  <2>2. PICK o \in {"regenerate", "redeem"} :
            /\ Begin(r, [Idle EXCEPT !.op = o, !.at = "write", !.invite = i,
                            !.email = invites[i].email, !.role = invites[i].role])
            /\ UNCHANGED <<role, email, other, invites, claims>>
      BY <1>7 DEF RegenerateRead, RedeemRead
  <2> DEFINE q == [Idle EXCEPT !.op = o, !.at = "write", !.invite = i,
                            !.email = invites[i].email, !.role = invites[i].role]
  <2>3. /\ q \in Requests /\ q.op = o /\ q.invite = i
        /\ q.email = invites[i].email /\ q.role = invites[i].role
      BY <2>1 DEF Idle, Requests
  <2>4. Begin(r, q)
      BY <2>2
  <2> HIDE DEF q
  <2> QED
      BY <2>1, <2>2, <2>3, <2>4, BeginArgs
<1>8. ASSUME NEW r \in Request, NEW i \in Invite, RevokeRead(r, i) PROVE IInv'
  <2> DEFINE q == [Idle EXCEPT !.op = "revoke", !.at = "write", !.invite = i]
  <2>1. /\ Begin(r, q) /\ UNCHANGED <<role, email, other, invites, claims>>
        /\ invites[i].state # "none"
      BY <1>8 DEF RevokeRead
  <2>2. q \in Requests /\ q.op = "revoke" /\ q.invite = i
      BY DEF Idle, Requests
  <2> HIDE DEF q
  <2> QED
      BY <2>1, <2>2, BeginArgs
<1>9. ASSUME NEW r \in Request, CountAdmins(r) \/ CreateInviteSelect(r) \/ Crash(r)
      PROVE IInv'
  <2>1. /\ UNCHANGED <<role, email, other, invites, claims>>
        /\ Finish(r) \/ Goto(r, "write")
      BY <1>9 DEF CountAdmins, CreateInviteSelect, Crash
  <2> QED
      BY <2>1, FinishIInv, GotoIInv
<1>10. ASSUME NEW r \in Request, MemberCommit(r) PROVE IInv'
  <2>1. req[r].to \in Role \cup {"gone"} /\ req[r].user \in User
      BY <1>10 DEF IInv, ArgInv, MemberCommit
  <2>2. /\ role' = IF Member(req[r].user) THEN [role EXCEPT ![req[r].user] = req[r].to]
                   ELSE role
        /\ Finish(r) /\ UNCHANGED <<email, other, invites, claims>>
      BY <1>10 DEF MemberCommit
  <2>3. /\ req' \in [Request -> Requests] /\ req'[r] = Idle
        /\ \A x \in Request \ {r} : req'[x] = req[x]
      BY <2>2, FinishType DEF IInv
  <2>4. RowsKept /\ RowInv'
      BY <2>2, SameRows
  <2>5. ArgInv' /\ LoadedInv'
      BY <2>3, <2>4, StepArgs
  <2>6. TypeOK'
      BY <2>1, <2>2, <2>3 DEF IInv, TypeOK
  <2> QED
      BY <2>4, <2>5, <2>6 DEF IInv
<1>11. ASSUME NEW r \in Request,
              CreateInviteCommit(r) \/ RegenerateCommit(r) \/ RevokeCommit(r)
       PROVE IInv'
  <2>1. Finish(r) /\ RowsKept /\ RowInv'
      BY <1>11, CreateEffect, RegenerateEffect, RevokeEffect
  <2>2. UNCHANGED <<role, email, other, claims>>
      BY <1>11 DEF CreateInviteCommit, RegenerateCommit, RevokeCommit
  <2> QED
      BY <2>1, <2>2, InviteIInv
<1>12. ASSUME NEW r \in Request, RedeemCommit(r) PROVE IInv'
  <2>1. /\ req' \in [Request -> Requests] /\ req'[r] = Idle
        /\ \A x \in Request \ {r} : req'[x] = req[x]
      BY <1>12, RedeemEffect, FinishType DEF IInv
  <2>2. /\ RowsKept /\ RowInv' /\ UNCHANGED <<other, claims>>
        /\ role' \in [User -> Role \cup {"none", "gone"}]
        /\ email' \in [User -> Email \cup {None}]
      BY <1>12, RedeemEffect, SameRows DEF IInv, TypeOK
  <2>3. ArgInv' /\ LoadedInv'
      BY <2>1, <2>2, StepArgs
  <2> QED
      BY <2>1, <2>2, <2>3 DEF IInv, TypeOK, RowsKept
<1> QED
    BY <1>1, <1>2, <1>3, <1>4, <1>5, <1>6, <1>7, <1>8, <1>9, <1>10, <1>11, <1>12 DEF Next

\* The tables and the requests always have their types.
THEOREM MembershipTypes == Spec => []TypeOK
<1>1. Spec => []IInv
    BY InitIInv, NextIInv, PTL DEF Spec
<1>2. IInv => TypeOK
    BY DEF IInv
<1> QED
    BY <1>1, <1>2, PTL
-----------------------------------------------------------------------------
(* The last admin: role changes whose checks and commits do not overlap. *)

\* No two changes of roles are past their checks and before their commits.
ChangesApart ==
    \A r, q \in Request : At(r, "member", "write") /\ At(q, "member", "write") => r = q

\* The count establishes Spare and nothing else may undo it meanwhile.
LEMMA NextSpare ==
    ASSUME ChangesApart, IInv, AdminExists, Spare, [Next]_vars
    PROVE  AdminExists' /\ Spare'
<1> USE DEF AdminExists, Spare
<1>1. CASE UNCHANGED vars
    BY <1>1 DEF vars
<1>2. ASSUME UNCHANGED <<role, req>> PROVE AdminExists' /\ Spare'
    BY <1>2
<1>3. ASSUME NEW r \in Request, UNCHANGED role,
             \A x \in Request \ {r} : req'[x] = req[x],
             ~(req'[r].op = "member" /\ req'[r].at = "write")
      PROVE AdminExists' /\ Spare'
    BY <1>3
<1>4. ASSUME NEW r \in Request, Finish(r), UNCHANGED role PROVE AdminExists' /\ Spare'
    BY <1>3, <1>4, FinishType, IdleType DEF IInv
<1>5. ASSUME NEW r \in Request, NEW u \in User, NEW to \in Role \cup {"gone"},
             MemberRead(r, u, to)
      PROVE AdminExists' /\ Spare'
  <2> DEFINE a == IF NeedsCount(u, to) THEN "count" ELSE "write"
             q == [Idle EXCEPT !.op = "member", !.user = u, !.to = to, !.at = a]
  <2>1. a \in {"count", "write"} /\ (a = "write" => role[u] # "admin")
      BY DEF NeedsCount
  <2>2. Begin(r, q) /\ UNCHANGED role
      BY <1>5 DEF MemberRead
  <2> HIDE DEF a
  <2>3. q \in Requests /\ q.at = a /\ q.user = u
      BY <2>1 DEF Idle, Requests
  <2> HIDE DEF q
  <2>4. req'[r] = q /\ \A x \in Request \ {r} : req'[x] = req[x]
      BY <2>2, <2>3, BeginType DEF IInv
  <2> QED
      BY <2>1, <2>2, <2>3, <2>4
<1>6. ASSUME NEW r \in Request, CountAdmins(r) PROVE AdminExists' /\ Spare'
  <2>1. CASE \E u, v \in User : u # v /\ role[u] = "admin" /\ role[v] = "admin"
    <3>1. Goto(r, "write") /\ UNCHANGED role
        BY <1>6, <2>1 DEF CountAdmins
    <3>2. \A x \in Request \ {r} : req'[x] = req[x]
        BY <3>1, GotoType DEF IInv
    <3> QED
        BY <2>1, <3>1, <3>2
  <2>2. CASE ~ \E u, v \in User : u # v /\ role[u] = "admin" /\ role[v] = "admin"
      BY <1>4, <1>6, <2>2 DEF CountAdmins
  <2> QED
      BY <2>1, <2>2
<1>7. ASSUME NEW r \in Request, CreateInviteSelect(r) PROVE AdminExists' /\ Spare'
  <2>1. CASE Finish(r)
      BY <1>4, <1>7, <2>1 DEF CreateInviteSelect
  <2>2. CASE Goto(r, "write")
    <3>1. /\ req'[r].op = req[r].op
          /\ \A x \in Request \ {r} : req'[x] = req[x]
        BY <2>2, GotoType DEF IInv
    <3>2. req[r].op = "create" /\ UNCHANGED role
        BY <1>7 DEF CreateInviteSelect
    <3> QED
        BY <1>3, <3>1, <3>2
  <2> QED
      BY <1>7, <2>1, <2>2 DEF CreateInviteSelect
<1>8. ASSUME NEW r \in Request, MemberCommit(r) PROVE AdminExists' /\ Spare'
  <2>1. /\ role' = IF Member(req[r].user) THEN [role EXCEPT ![req[r].user] = req[r].to]
                   ELSE role
        /\ req[r].op = "member" /\ req[r].at = "write" /\ Finish(r)
      BY <1>8 DEF MemberCommit
  <2>2. req[r].user \in User
      BY <2>1 DEF IInv, ArgInv
  <2>3. \A v \in User \ {req[r].user} : role'[v] = role[v]
      BY <2>1, <2>2 DEF IInv, TypeOK
  <2>4. AdminExists'
    <3>1. CASE role[req[r].user] = "admin"
        BY <2>1, <2>3, <3>1
    <3>2. CASE role[req[r].user] # "admin"
        BY <2>3, <3>2
    <3> QED
        BY <3>1, <3>2
  <2>5. /\ req'[r].op # "member"
        /\ \A x \in Request \ {r} : req'[x] = req[x]
      BY <2>1, FinishType, IdleType DEF IInv
  <2>6. \A x \in Request \ {r} : ~At(x, "member", "write")
      BY <2>1 DEF ChangesApart, At
  <2>7. Spare'
      BY <2>5, <2>6 DEF At
  <2> QED
      BY <2>4, <2>7
<1>9. ASSUME NEW r \in Request, RedeemCommit(r) PROVE AdminExists' /\ Spare'
  <2>1. Finish(r)
      BY <1>9 DEF RedeemCommit
  <2>2. /\ req'[r].op # "member"
        /\ \A x \in Request \ {r} : req'[x] = req[x]
      BY <2>1, FinishType, IdleType DEF IInv
  <2>3. CASE UNCHANGED role
      BY <1>4, <2>1, <2>3
  <2>4. CASE \E u \in User : role[u] = "none" /\ role' = [role EXCEPT ![u] = req[r].role]
    <3>1. PICK u \in User : role[u] = "none" /\ role' = [role EXCEPT ![u] = req[r].role]
        BY <2>4
    <3>2. \A v \in User \ {u} : role'[v] = role[v]
        BY <3>1 DEF IInv, TypeOK
    <3>3. AdminExists'
        BY <3>1, <3>2
    <3>4. ASSUME NEW x \in Request \ {r}, req[x].op = "member", req[x].at = "write",
                 role'[req[x].user] = "admin"
          PROVE  \E v \in User \ {req[x].user} : role'[v] = "admin"
      <4>1. CASE req[x].user = u
          BY <3>1, <3>2, <4>1
      <4>2. CASE req[x].user # u
        <5>1. req[x].user \in User
            BY <3>4 DEF IInv, ArgInv
        <5> QED
            BY <3>1, <3>2, <3>4, <4>2, <5>1
      <4> QED
          BY <4>1, <4>2
    <3> QED
        BY <2>2, <3>3, <3>4
  <2> QED
      BY <1>9, <2>3, <2>4, RedeemEffect
<1>10. ASSUME NEW r \in Request, NEW e \in Email, NEW x \in Role, CreateInviteRead(r, e, x)
       PROVE AdminExists' /\ Spare'
  <2> DEFINE q == [Idle EXCEPT !.op = "create", !.at = "select", !.email = e, !.role = x]
  <2>1. Begin(r, q) /\ UNCHANGED role
      BY <1>10 DEF CreateInviteRead
  <2>2. q \in Requests /\ q.op = "create"
      BY DEF Idle, Requests
  <2> HIDE DEF q
  <2> QED
      BY <1>3, <2>1, <2>2, BeginType DEF IInv
<1>11. ASSUME NEW r \in Request, NEW i \in Invite, RegenerateRead(r, i) \/ RedeemRead(r, i)
       PROVE AdminExists' /\ Spare'
  <2>1. invites[i].email \in Email /\ invites[i].role \in Role
      BY <1>11 DEF IInv, RowInv, RegenerateRead, RedeemRead
  <2>2. PICK o \in {"regenerate", "redeem"} :
            /\ Begin(r, [Idle EXCEPT !.op = o, !.at = "write", !.invite = i,
                            !.email = invites[i].email, !.role = invites[i].role])
            /\ UNCHANGED role
      BY <1>11 DEF RegenerateRead, RedeemRead
  <2> DEFINE q == [Idle EXCEPT !.op = o, !.at = "write", !.invite = i,
                            !.email = invites[i].email, !.role = invites[i].role]
  <2>3. q \in Requests /\ q.op = o
      BY <2>1 DEF Idle, Requests
  <2>4. Begin(r, q)
      BY <2>2
  <2> HIDE DEF q
  <2> QED
      BY <1>3, <2>2, <2>3, <2>4, BeginType DEF IInv
<1>12. ASSUME NEW r \in Request, NEW i \in Invite, RevokeRead(r, i)
       PROVE AdminExists' /\ Spare'
  <2> DEFINE q == [Idle EXCEPT !.op = "revoke", !.at = "write", !.invite = i]
  <2>1. Begin(r, q) /\ UNCHANGED role
      BY <1>12 DEF RevokeRead
  <2>2. q \in Requests /\ q.op = "revoke"
      BY DEF Idle, Requests
  <2> HIDE DEF q
  <2> QED
      BY <1>3, <2>1, <2>2, BeginType DEF IInv
<1>13. ASSUME NEW u \in User, IssueToken(u) \/ ExpireToken(u) PROVE AdminExists' /\ Spare'
    BY <1>2, <1>13 DEF IssueToken, ExpireToken
<1>14. ASSUME NEW e \in Email, SignUpElsewhere(e) PROVE AdminExists' /\ Spare'
    BY <1>2, <1>14 DEF SignUpElsewhere
<1>15. ASSUME NEW i \in Invite, Expire(i) PROVE AdminExists' /\ Spare'
    BY <1>2, <1>15 DEF Expire
<1>16. ASSUME NEW r \in Request,
              \/ CreateInviteCommit(r) \/ RegenerateCommit(r) \/ RevokeCommit(r) \/ Crash(r)
       PROVE AdminExists' /\ Spare'
    BY <1>4, <1>16 DEF CreateInviteCommit, RegenerateCommit, RevokeCommit, Crash
<1> QED
    BY <1>1, <1>5, <1>6, <1>7, <1>8, <1>9, <1>10, <1>11, <1>12, <1>13, <1>14, <1>15,
       <1>16 DEF Next

\* The organisation always has an admin as long as no role change is checked
\* while another one waits for its commit, whatever invites, signups, tokens
\* and crashes happen around them.
THEOREM AdminExistsHolds == Spec /\ []ChangesApart => []AdminExists
<1>1. Spec => []IInv
    BY InitIInv, NextIInv, PTL DEF Spec
<1>2. Init => AdminExists /\ Spare
    BY IdleType, FounderAssumption DEF Init, AdminExists, Spare
<1>3. ChangesApart /\ IInv /\ AdminExists /\ Spare /\ [Next]_vars => AdminExists' /\ Spare'
    BY NextSpare
<1> QED
    BY <1>1, <1>2, <1>3, PTL DEF Spec
-----------------------------------------------------------------------------
\* Nobody joins without an invite of the address and role that is stored when
\* it is accepted, and no invite is accepted without its user.
THEOREM JoinAcceptsInviteHolds == Spec => JoinAcceptsInvite
<1> DEFINE Joins == \A u \in User : ~Member(u) /\ Member(u)' =>
                        \E i \in Invite :
                            /\ Stored(i) /\ invites'[i].state = "accepted"
                            /\ invites[i].email = email'[u] /\ invites[i].role = role'[u]
           Accepts == \A i \in Invite :
                        invites'[i].state = "accepted" /\ invites[i].state # "accepted" =>
                            \E u \in User : /\ ~Member(u) /\ Member(u)'
                                            /\ email'[u] = invites[i].email
<1>1. ASSUME IInv, [Next]_vars PROVE Joins /\ Accepts
  <2>1. ASSUME UNCHANGED role,
               \A i \in Invite : \/ invites'[i].state = invites[i].state
                                 \/ invites'[i].state \in {"pending", "gone"}
        PROVE Joins /\ Accepts
      BY <2>1
  <2>2. CASE UNCHANGED <<role, invites>>
      BY <2>1, <2>2
  <2>3. ASSUME NEW i \in Invite, Expire(i) PROVE Joins /\ Accepts
      BY <1>1, <2>1, <2>3, ExpireEffect DEF Expire
  <2>4. ASSUME NEW r \in Request, CreateInviteCommit(r) PROVE Joins /\ Accepts
      BY <1>1, <2>1, <2>4, CreateEffect DEF CreateInviteCommit
  <2>5. ASSUME NEW r \in Request, RegenerateCommit(r) PROVE Joins /\ Accepts
      BY <1>1, <2>1, <2>5, RegenerateEffect DEF RegenerateCommit
  <2>6. ASSUME NEW r \in Request, RevokeCommit(r) PROVE Joins /\ Accepts
      BY <1>1, <2>1, <2>6, RevokeEffect DEF RevokeCommit
  <2>7. ASSUME NEW r \in Request, MemberCommit(r) PROVE Joins /\ Accepts
    <3>1. /\ role' = IF Member(req[r].user) THEN [role EXCEPT ![req[r].user] = req[r].to]
                     ELSE role
          /\ UNCHANGED invites
        BY <2>7 DEF MemberCommit
    <3>2. \A u \in User : Member(u)' => Member(u)
        BY <1>1, <3>1 DEF IInv, TypeOK
    <3> QED
        BY <3>1, <3>2
  <2>8. ASSUME NEW r \in Request, RedeemCommit(r) PROVE Joins /\ Accepts
    <3>1. CASE UNCHANGED <<role, email, invites>>
        BY <2>2, <3>1
    <3>2. CASE ~UNCHANGED <<role, email, invites>>
      <4>1. PICK u \in User, i \in Invite :
              /\ Stored(i) /\ role[u] = "none"
              /\ req[r].role \in Role /\ req[r].email \in Email
              /\ invites[i].email = req[r].email /\ invites[i].role = req[r].role
              /\ role' = [role EXCEPT ![u] = req[r].role]
              /\ email' = [email EXCEPT ![u] = req[r].email]
              /\ invites'[i].state = "accepted"
              /\ \A j \in Invite \ {i} : invites'[j] = invites[j]
          BY <1>1, <2>8, <3>2, RedeemEffect
      <4>2. /\ role'[u] = req[r].role /\ email'[u] = req[r].email
            /\ \A v \in User \ {u} : role'[v] = role[v]
          BY <1>1, <4>1 DEF IInv, TypeOK
      <4> QED
          BY <4>1, <4>2
    <3> QED
        BY <3>1, <3>2
  <2> QED
      BY <1>1, <2>2, <2>3, <2>4, <2>5, <2>6, <2>7, <2>8
      DEF Next, vars, IssueToken, ExpireToken, SignUpElsewhere, MemberRead, CountAdmins,
          CreateInviteRead, CreateInviteSelect, RegenerateRead, RevokeRead, RedeemRead, Crash
<1>2. Spec => []IInv
    BY InitIInv, NextIInv, PTL DEF Spec
<1> QED
    BY <1>1, <1>2, PTL DEF Spec, JoinAcceptsInvite


-----------------------------------------------------------------------------
(* Notifications                                                            *)

HIDE DEF At, Member, Stored, Usable, Role

\* What a bell holds, for the ids R of the rows and those read, D: every item
\* is a row, and one shown or marked as read is read where nothing is swept.
BellOk(s, R, D) ==
    /\ \A i \in DOMAIN s.inbox : s.inbox[i] \in R
    /\ s.items # None =>
         \A i \in DOMAIN s.items :
           /\ s.items[i].id \in R
           /\ s.items[i].read => s.sweeps \/ s.items[i].id \in D
    /\ s.page # None =>
         \A i \in DOMAIN s.page :
           /\ s.page[i].id \in R
           /\ s.page[i].read => s.page[i].id \in D
    /\ s.marked # None => s.marked \in D
    /\ s.sweeping => s.sweeps

BellsInv ==
    /\ Bells!TypeOK /\ log \in Seq(Note) /\ bell \in [Bell -> Bells!BellState]
    /\ member => /\ \A r \in Sender : work[r].at = "publish" => work[r].note \in Bells!Rows
                 /\ \A b \in Bell : BellOk(bell[b], Bells!Rows, read)
    /\ ~member => log = <<>> /\ assignee # Bells!Me

-----------------------------------------------------------------------------
(* Rows and the state of a bell.                                            *)

\* What the log says of the rows, as it grows and when it is lost.
LEMMA LogRows ==
    ASSUME NEW s \in Seq(Note)
    PROVE  /\ Bells!ToSet(s) \subseteq Note
           /\ \A i \in DOMAIN s : s[i] \in Bells!ToSet(s)
           /\ \A n \in Note : /\ Append(s, n) \in Seq(Note)
                              /\ Bells!ToSet(Append(s, n)) = Bells!ToSet(s) \cup {n}
                              /\ Len(Append(s, n)) = Len(s) + 1
           /\ Bells!ToSet(<< >>) = {}
<1>1. ASSUME NEW n \in Note PROVE Bells!ToSet(Append(s, n)) = Bells!ToSet(s) \cup {n}
  <2>1. /\ DOMAIN s = 1 .. Len(s) /\ DOMAIN Append(s, n) = 1 .. Len(s) + 1
        /\ Append(s, n)[Len(s) + 1] = n
        /\ \A i \in 1 .. Len(s) : Append(s, n)[i] = s[i]
    OBVIOUS
  <2>2. /\ Len(s) + 1 \in 1 .. Len(s) + 1
        /\ \A i \in 1 .. Len(s) + 1 : i \in 1 .. Len(s) \/ i = Len(s) + 1
        /\ \A i \in 1 .. Len(s) : i \in 1 .. Len(s) + 1
    OBVIOUS
  <2> QED
    BY <2>1, <2>2 DEF Bells!ToSet
<1> QED
  BY <1>1 DEF Bells!ToSet

\* Rows are finitely many, so that counting the unread ones gives a number.
LEMMA UnreadCount == ASSUME log \in Seq(Note) PROVE Bells!Cardinality(Bells!Unread) \in Nat
<1>1. log \in Seq(Bells!Rows)
  BY LogRows DEF Bells!Rows
<1>2. \A n \in Bells!Rows : \E i \in 1 .. Len(log) : log[i] = n
  BY DEF Bells!Rows, Bells!ToSet
<1>3. IsFiniteSet(Bells!Rows)
  BY <1>1, <1>2 DEF IsFiniteSet
<1>4. IsFiniteSet(Bells!Unread)
  BY <1>3, FS_Subset DEF Bells!Unread
<1>5. Bells!Cardinality(Bells!Unread) = Cardinality(Bells!Unread)
  BY DEF Bells!Cardinality, Cardinality
<1> QED
  BY <1>4, <1>5, FS_CardinalityType

\* The fields of a bell.
LEMMA BellFields ==
    ASSUME NEW s \in Bells!BellState
    PROVE  /\ s.count \in Nat /\ s.inbox \in Seq(Note)
           /\ s.items \in Seq(Bells!Item) \cup {None} /\ s.page \in Seq(Bells!Item) \cup {None}
           /\ s.unread \in Nat \cup {None} /\ s.marked \in Note \cup {None}
           /\ s.sweeping \in BOOLEAN /\ s.sweeps \in BOOLEAN
BY DEF Bells!BellState

\* Marking items leaves a list of the same ids, and marks those of S.
LEMMA MarkReadType ==
    ASSUME NEW items \in Seq(Bells!Item) \cup {None}, NEW S
    PROVE  LET m == Bells!MarkRead(items, S)
           IN  /\ m \in Seq(Bells!Item) \cup {None}
               /\ m # None => /\ items # None /\ DOMAIN m = DOMAIN items
                              /\ \A i \in DOMAIN m :
                                   /\ m[i].id = items[i].id
                                   /\ m[i].read => items[i].read \/ items[i].id \in S
<1>1. CASE items = None
  BY <1>1 DEF Bells!MarkRead
<1>2. CASE items # None
  <2> DEFINE marked(i) == IF items[i].id \in S THEN [items[i] EXCEPT !.read = TRUE] ELSE items[i]
             m == Bells!MarkRead(items, S)
  <2>1. m = [i \in DOMAIN items |-> marked(i)]
    BY <1>2 DEF Bells!MarkRead
  <2>2. items \in Seq(Bells!Item)
    BY <1>2
  <2>3. \A i \in DOMAIN items : items[i] \in Bells!Item
    BY <2>2
  <2>4. ASSUME NEW i \in DOMAIN items
        PROVE  /\ marked(i) \in Bells!Item /\ marked(i).id = items[i].id
               /\ marked(i).read => items[i].read \/ items[i].id \in S
    BY <2>3 DEF Bells!Item
  <2> HIDE DEF marked
  <2>5. m \in Seq(Bells!Item)
    BY <2>1, <2>2, <2>4
  <2> QED
    BY <1>2, <2>1, <2>4, <2>5
<1> QED
  BY <1>1, <1>2

\* A response of GET /notifications shows rows as they are.
LEMMA PageType ==
    ASSUME PageSize \in Nat, log \in Seq(Note)
    PROVE  /\ Bells!Page \in Seq(Bells!Item)
           /\ \A i \in DOMAIN Bells!Page :
                /\ Bells!Page[i].id \in Bells!Rows
                /\ Bells!Page[i].read => Bells!Page[i].id \in read
<1> DEFINE n == IF Len(log) < PageSize THEN Len(log) ELSE PageSize
           at(i) == Bells!Reverse(log)[i]
<1>1. n \in Nat /\ n <= Len(log)
  OBVIOUS
<1>2. Bells!Page = [i \in 1 .. n |-> [id |-> at(i), read |-> at(i) \in read]]
  BY DEF Bells!Page
<1>3. ASSUME NEW i \in 1 .. n PROVE at(i) \in Bells!Rows /\ at(i) \in Note
  <2>1. Len(log) - i + 1 \in DOMAIN log /\ i \in 1 .. Len(log)
    BY <1>1
  <2>2. at(i) = log[Len(log) - i + 1]
    BY <2>1 DEF Bells!Reverse
  <2> QED
    BY <2>1, <2>2, LogRows DEF Bells!Rows
<1> HIDE DEF n, at
<1>4. ASSUME NEW i \in 1 .. n
      PROVE  /\ [id |-> at(i), read |-> at(i) \in read] \in Bells!Item
             /\ [id |-> at(i), read |-> at(i) \in read].read => at(i) \in read
  <2>1. (at(i) \in read) \in BOOLEAN
    OBVIOUS
  <2>2. [id |-> at(i), read |-> at(i) \in read] \in Bells!Item
    BY <1>3, <2>1, Zenon DEF Bells!Item
  <2> QED
    BY <2>2
<1> QED
  BY <1>1, <1>2, <1>3, <1>4

-----------------------------------------------------------------------------
(* The steps of requests and bells.                                         *)

LEMMA BellsInitHolds == ASSUME Bells!Init PROVE BellsInv
<1>1. log = << >> /\ Bells!Rows = {} /\ read = {} /\ member
  <2>1. Bells!ToSet(<< >>) = {}
    BY DEF Bells!ToSet
  <2> QED
    BY <2>1 DEF Bells!Init, Bells!Rows
<1>2. PICK S \in SUBSET Bell :
         bell = [b \in Bell |->
           [count |-> 0, items |-> None, socket |-> "none", inbox |-> << >>,
            unread |-> None, page |-> None, marked |-> None, sweeping |-> FALSE,
            mounted |-> FALSE, sweeps |-> b \in S]]
  BY DEF Bells!Init
<1>3. ASSUME NEW b \in Bell
      PROVE  bell[b] \in Bells!BellState /\ BellOk(bell[b], Bells!Rows, read)
  <2> DEFINE s == bell[b]
  <2>1. /\ s = [count |-> 0, items |-> None, socket |-> "none", inbox |-> << >>,
                unread |-> None, page |-> None, marked |-> None, sweeping |-> FALSE,
                mounted |-> FALSE, sweeps |-> b \in S]
        /\ (b \in S) \in BOOLEAN
    BY <1>2
  <2>2. << >> \in Seq(Note) /\ 0 \in Nat
    OBVIOUS
  <2>3. s \in Bells!BellState
    BY <2>1, <2>2 DEF Bells!BellState
  <2>4. /\ s.items = None /\ s.page = None /\ s.marked = None /\ s.inbox = << >>
        /\ ~s.sweeping
    BY <2>1
  <2> QED
    BY <2>3, <2>4 DEF BellOk
<1>4. bell \in [Bell -> Bells!BellState]
  BY <1>2, <1>3
<1>5. Bells!TypeOK
  BY <1>1, <1>4 DEF Bells!Init, Bells!TypeOK, Bells!Held, Bells!Holder
<1>6. \A r \in Sender : work[r].at # "publish"
  BY DEF Bells!Init, Bells!Idle
<1> QED
  BY <1>1, <1>3, <1>4, <1>5, <1>6 DEF BellsInv

\* A row or a mark more does not make a bell wrong.
LEMMA BellStays ==
    ASSUME NEW s, NEW R, NEW R2, NEW D, NEW D2,
           R \subseteq R2, D \subseteq D2, BellOk(s, R, D)
    PROVE  BellOk(s, R2, D2)
BY DEF BellOk

\* One bell changes, and perhaps what is read.
LEMMA ShowKeeps ==
    ASSUME BellsInv, NEW b \in Bell, NEW s \in Bells!BellState, Bells!Show(b, s),
           UNCHANGED <<member, assignee, log, work>>,
           read \subseteq read', read' \subseteq Bells!Rows,
           member => BellOk(s, Bells!Rows, read')
    PROVE  BellsInv'
<1>1. bell' = [bell EXCEPT ![b] = s]
  BY DEF Bells!Show
<1>2. Bells!Rows' = Bells!Rows
  BY DEF Bells!Rows
<1>3. /\ bell' \in [Bell -> Bells!BellState]
      /\ bell'[b] = s /\ \A c \in Bell \ {b} : bell'[c] = bell[c]
  BY <1>1 DEF BellsInv
<1>4. Bells!TypeOK'
  BY <1>2, <1>3 DEF BellsInv, Bells!TypeOK
<1>5. ASSUME member PROVE \A c \in Bell : BellOk(bell'[c], Bells!Rows, read')
  BY <1>3, <1>5, BellStays DEF BellsInv
<1> QED
  BY <1>2, <1>3, <1>4, <1>5 DEF BellsInv

\* Nothing is read anew: the cases in which the bell stays right at once.
LEMMA SameReadKeeps ==
    ASSUME BellsInv, NEW b \in Bell, NEW s \in Bells!BellState, Bells!Show(b, s),
           UNCHANGED <<Bells!Database, work>>,
           member => BellOk(s, Bells!Rows, read)
    PROVE  BellsInv'
<1>1. UNCHANGED <<member, assignee, log, work>> /\ read' = read
  BY DEF Bells!Database
<1>2. read \subseteq Bells!Rows
  BY DEF BellsInv, Bells!TypeOK
<1> QED
  BY <1>1, <1>2, ShowKeeps

LEMMA SocketKeeps ==
    ASSUME BellsInv, NEW b \in Bell,
           Bells!OpenSocket(b) \/ Bells!CloseSocket(b) \/ Bells!Receive(b)
    PROVE  BellsInv'
<1> DEFINE s == bell[b]
<1>0. s \in Bells!BellState /\ (member => BellOk(s, Bells!Rows, read))
  BY DEF BellsInv
<1>1. CASE Bells!OpenSocket(b)
  <2> DEFINE n == [s EXCEPT !.socket = "open"]
  <2>1. /\ n \in Bells!BellState
        /\ n.inbox = s.inbox /\ n.items = s.items /\ n.page = s.page
        /\ n.marked = s.marked /\ n.sweeping = s.sweeping /\ n.sweeps = s.sweeps
    BY <1>0 DEF Bells!BellState
  <2>2. member => BellOk(n, Bells!Rows, read)
    BY <1>0, <2>1 DEF BellOk
  <2>3. Bells!Show(b, n) /\ UNCHANGED <<Bells!Database, work>>
    BY <1>1 DEF Bells!OpenSocket
  <2> HIDE DEF n
  <2> QED
    BY <2>1, <2>2, <2>3, SameReadKeeps
<1>2. CASE Bells!CloseSocket(b)
  <2> DEFINE n == [s EXCEPT !.socket = "closed", !.inbox = << >>]
  <2>1. << >> \in Seq(Note)
    OBVIOUS
  <2>2. /\ n \in Bells!BellState
        /\ n.inbox = << >> /\ n.items = s.items /\ n.page = s.page
        /\ n.marked = s.marked /\ n.sweeping = s.sweeping /\ n.sweeps = s.sweeps
    BY <1>0, <2>1 DEF Bells!BellState
  <2>3. member => BellOk(n, Bells!Rows, read)
    BY <1>0, <2>2 DEF BellOk
  <2>4. Bells!Show(b, n) /\ UNCHANGED <<Bells!Database, work>>
    BY <1>2 DEF Bells!CloseSocket
  <2> HIDE DEF n
  <2> QED
    BY <2>2, <2>3, <2>4, SameReadKeeps
<1>3. CASE Bells!Receive(b)
  <2> DEFINE new == [id |-> Head(s.inbox), read |-> FALSE]
             items == IF s.items = None THEN None ELSE <<new>> \o s.items
             n == [s EXCEPT !.inbox = Tail(s.inbox), !.count = s.count + 1, !.items = items]
  <2>1. s.inbox # << >> /\ Bells!Show(b, n) /\ UNCHANGED <<Bells!Database, work>>
    BY <1>3 DEF Bells!Receive
  <2>2. /\ s.count + 1 \in Nat
        /\ Tail(s.inbox) \in Seq(Note) /\ Head(s.inbox) \in Note
        /\ Head(s.inbox) = s.inbox[1] /\ 1 \in DOMAIN s.inbox
        /\ \A i \in DOMAIN Tail(s.inbox) :
             i + 1 \in DOMAIN s.inbox /\ Tail(s.inbox)[i] = s.inbox[i + 1]
    BY <1>0, <2>1, BellFields
  <2>3. new \in Bells!Item
    BY <2>2 DEF Bells!Item
  <2>4. ASSUME s.items # None
        PROVE  /\ items \in Seq(Bells!Item)
               /\ \A i \in DOMAIN items : \/ items[i] = new
                                          \/ i - 1 \in DOMAIN s.items /\ items[i] = s.items[i - 1]
    <3>1. s.items \in Seq(Bells!Item)
      BY <1>0, <2>4, BellFields
    <3>2. items = <<new>> \o s.items
      BY <2>4
    <3> HIDE DEF new
    <3>3. /\ <<new>> \o s.items \in Seq(Bells!Item)
          /\ \A i \in DOMAIN (<<new>> \o s.items) :
               IF i = 1 THEN (<<new>> \o s.items)[i] = new
               ELSE i - 1 \in DOMAIN s.items /\ (<<new>> \o s.items)[i] = s.items[i - 1]
      BY <2>3, <3>1
    <3> QED
      BY <3>2, <3>3
  <2>5. /\ items \in Seq(Bells!Item) \cup {None}
        /\ items # None =>
             /\ s.items # None
             /\ \A i \in DOMAIN items : \/ items[i] = new
                                        \/ i - 1 \in DOMAIN s.items /\ items[i] = s.items[i - 1]
    <3>1. CASE s.items = None
      BY <3>1
    <3> QED
      BY <2>4, <3>1
  <2>6. new.id = s.inbox[1] /\ ~new.read
    BY <2>2
  <2> HIDE DEF items, new
  <2>7. /\ n \in Bells!BellState
        /\ n.inbox = Tail(s.inbox) /\ n.items = items /\ n.page = s.page
        /\ n.marked = s.marked /\ n.sweeping = s.sweeping /\ n.sweeps = s.sweeps
    BY <1>0, <2>2, <2>5 DEF Bells!BellState
  <2> HIDE DEF n
  <2>8. ASSUME member PROVE BellOk(n, Bells!Rows, read)
    <3>1. BellOk(s, Bells!Rows, read)
      BY <1>0, <2>8
    <3>2. \A i \in DOMAIN n.inbox : n.inbox[i] \in Bells!Rows
      BY <2>2, <2>7, <3>1 DEF BellOk
    <3>3. n.items # None =>
            \A i \in DOMAIN n.items :
              /\ n.items[i].id \in Bells!Rows
              /\ n.items[i].read => n.sweeps \/ n.items[i].id \in read
      BY <2>2, <2>5, <2>6, <2>7, <3>1 DEF BellOk
    <3> QED
      BY <2>7, <3>1, <3>2, <3>3 DEF BellOk
  <2> QED
    BY <2>1, <2>7, <2>8, SameReadKeeps
<1> QED
  BY <1>1, <1>2, <1>3

\* The responses on their way to the page.
LEMMA FetchKeeps ==
    ASSUME PageSize \in Nat, BellsInv, NEW b \in Bell,
           Bells!CountRead(b) \/ Bells!CountReply(b) \/ Bells!ListRead(b) \/ Bells!ListReply(b)
    PROVE  BellsInv'
<1> DEFINE s == bell[b]
<1>0. s \in Bells!BellState /\ (member => BellOk(s, Bells!Rows, read)) /\ log \in Seq(Note)
  BY DEF BellsInv
<1>1. CASE Bells!CountRead(b)
  <2> DEFINE u == Bells!Cardinality(Bells!Unread)
             n == [s EXCEPT !.mounted = TRUE, !.unread = u]
  <2>1. u \in Nat
    BY <1>0, UnreadCount
  <2>2. Bells!Show(b, n) /\ UNCHANGED <<Bells!Database, work>>
    BY <1>1 DEF Bells!CountRead
  <2> HIDE DEF u
  <2>3. /\ n \in Bells!BellState
        /\ n.inbox = s.inbox /\ n.items = s.items /\ n.page = s.page
        /\ n.marked = s.marked /\ n.sweeping = s.sweeping /\ n.sweeps = s.sweeps
    BY <1>0, <2>1 DEF Bells!BellState
  <2>4. member => BellOk(n, Bells!Rows, read)
    BY <1>0, <2>3 DEF BellOk
  <2> HIDE DEF n
  <2> QED
    BY <2>2, <2>3, <2>4, SameReadKeeps
<1>2. CASE Bells!CountReply(b)
  <2> DEFINE n == [s EXCEPT !.unread = None, !.count = s.unread]
  <2>1. s.unread # None /\ Bells!Show(b, n) /\ UNCHANGED <<Bells!Database, work>>
    BY <1>2 DEF Bells!CountReply
  <2>2. s.unread \in Nat
    BY <1>0, <2>1, BellFields
  <2>3. /\ n \in Bells!BellState
        /\ n.inbox = s.inbox /\ n.items = s.items /\ n.page = s.page
        /\ n.marked = s.marked /\ n.sweeping = s.sweeping /\ n.sweeps = s.sweeps
    BY <1>0, <2>2 DEF Bells!BellState
  <2>4. member => BellOk(n, Bells!Rows, read)
    BY <1>0, <2>3 DEF BellOk
  <2> HIDE DEF n
  <2> QED
    BY <2>1, <2>3, <2>4, SameReadKeeps
<1>3. CASE Bells!ListRead(b)
  <2> DEFINE p == Bells!Page
             n == [s EXCEPT !.page = p]
  <2>1. Bells!Show(b, n) /\ UNCHANGED <<Bells!Database, work>>
    BY <1>3 DEF Bells!ListRead
  <2>2. /\ p \in Seq(Bells!Item)
        /\ \A i \in DOMAIN p : /\ p[i].id \in Bells!Rows
                               /\ p[i].read => p[i].id \in read
    BY <1>0, PageType
  <2> HIDE DEF p
  <2>3. /\ n \in Bells!BellState
        /\ n.inbox = s.inbox /\ n.items = s.items /\ n.page = p
        /\ n.marked = s.marked /\ n.sweeping = s.sweeping /\ n.sweeps = s.sweeps
    BY <1>0, <2>2 DEF Bells!BellState
  <2> HIDE DEF n
  <2>4. member => BellOk(n, Bells!Rows, read)
    BY <1>0, <2>2, <2>3 DEF BellOk
  <2> QED
    BY <2>1, <2>3, <2>4, SameReadKeeps
<1>4. CASE Bells!ListReply(b)
  <2> DEFINE n == [s EXCEPT !.page = None, !.items = s.page]
  <2>1. s.page # None /\ Bells!Show(b, n) /\ UNCHANGED <<Bells!Database, work>>
    BY <1>4 DEF Bells!ListReply
  <2>2. s.page \in Seq(Bells!Item) \cup {None}
    BY <1>0, BellFields
  <2>3. /\ n \in Bells!BellState
        /\ n.inbox = s.inbox /\ n.items = s.page /\ n.page = None
        /\ n.marked = s.marked /\ n.sweeping = s.sweeping /\ n.sweeps = s.sweeps
    BY <1>0, <2>2 DEF Bells!BellState
  <2> HIDE DEF n
  <2>4. member => BellOk(n, Bells!Rows, read)
    BY <1>0, <2>1, <2>3 DEF BellOk
  <2> QED
    BY <2>1, <2>3, <2>4, SameReadKeeps
<1> QED
  BY <1>1, <1>2, <1>3, <1>4

\* Marking one item: the row first, the page when the answer comes.
LEMMA MarkKeeps ==
    ASSUME BellsInv, NEW b \in Bell, Bells!MarkServer(b) \/ Bells!MarkReply(b)
    PROVE  BellsInv'
<1> DEFINE s == bell[b]
<1>0. s \in Bells!BellState /\ (member => BellOk(s, Bells!Rows, read)) /\ read \subseteq Bells!Rows
      /\ Bells!Rows \subseteq Note
  BY DEF BellsInv, Bells!TypeOK
<1>1. CASE Bells!MarkServer(b)
  <2>1. PICK i \in DOMAIN s.items :
          /\ s.items[i].id \in Bells!Rows
          /\ read' = read \cup {s.items[i].id}
          /\ Bells!Show(b, [s EXCEPT !.marked = s.items[i].id])
          /\ UNCHANGED <<member, assignee, log, work>>
    BY <1>1 DEF Bells!MarkServer
  <2> DEFINE k == s.items[i].id
             n == [s EXCEPT !.marked = k]
  <2>2. k \in Bells!Rows /\ k \in Note /\ read' = read \cup {k} /\ Bells!Show(b, n)
    BY <1>0, <2>1
  <2> HIDE DEF k
  <2>3. /\ n \in Bells!BellState
        /\ n.inbox = s.inbox /\ n.items = s.items /\ n.page = s.page
        /\ n.marked = k /\ n.sweeping = s.sweeping /\ n.sweeps = s.sweeps
    BY <1>0, <2>2 DEF Bells!BellState
  <2>4. read \subseteq read' /\ read' \subseteq Bells!Rows /\ k \in read'
    BY <1>0, <2>2
  <2> HIDE DEF n
  <2>5. member => BellOk(s, Bells!Rows, read')
    BY <1>0, <2>4, BellStays
  <2>6. member => BellOk(n, Bells!Rows, read')
    BY <2>3, <2>4, <2>5 DEF BellOk
  <2> QED
    BY <2>1, <2>2, <2>3, <2>4, <2>6, ShowKeeps
<1>2. CASE Bells!MarkReply(b)
  <2> DEFINE m == Bells!MarkRead(s.items, {s.marked})
             c == IF s.count = 0 THEN 0 ELSE s.count - 1
             n == [s EXCEPT !.items = m, !.marked = None, !.count = c]
  <2>1. s.marked # None /\ Bells!Show(b, n) /\ UNCHANGED <<Bells!Database, work>>
    BY <1>2 DEF Bells!MarkReply
  <2>2. /\ m \in Seq(Bells!Item) \cup {None}
        /\ m # None => /\ s.items # None /\ DOMAIN m = DOMAIN s.items
                       /\ \A i \in DOMAIN m :
                            /\ m[i].id = s.items[i].id
                            /\ m[i].read => s.items[i].read \/ s.items[i].id \in {s.marked}
    BY <1>0, BellFields, MarkReadType
  <2>3. c \in Nat
    BY <1>0, BellFields
  <2> HIDE DEF m, c
  <2>4. /\ n \in Bells!BellState
        /\ n.inbox = s.inbox /\ n.items = m /\ n.page = s.page
        /\ n.marked = None /\ n.sweeping = s.sweeping /\ n.sweeps = s.sweeps
    BY <1>0, <2>2, <2>3 DEF Bells!BellState
  <2> HIDE DEF n
  <2>5. ASSUME member PROVE BellOk(n, Bells!Rows, read)
    <3>1. BellOk(s, Bells!Rows, read) /\ s.marked \in read
      BY <1>0, <2>1, <2>5 DEF BellOk
    <3>2. n.items # None =>
            \A i \in DOMAIN n.items :
              /\ n.items[i].id \in Bells!Rows
              /\ n.items[i].read => n.sweeps \/ n.items[i].id \in read
      BY <2>2, <2>4, <3>1 DEF BellOk
    <3> QED
      BY <2>4, <3>1, <3>2 DEF BellOk
  <2> QED
    BY <2>1, <2>4, <2>5, SameReadKeeps
<1> QED
  BY <1>1, <1>2

\* Marking all, on the pages where that is done.
LEMMA SweepKeeps ==
    ASSUME BellsInv, NEW b \in Bell, Bells!SweepServer(b) \/ Bells!SweepReply(b)
    PROVE  BellsInv'
<1> DEFINE s == bell[b]
<1>0. s \in Bells!BellState /\ (member => BellOk(s, Bells!Rows, read)) /\ read \subseteq Bells!Rows
  BY DEF BellsInv, Bells!TypeOK
<1>1. CASE Bells!SweepServer(b)
  <2> DEFINE n == [s EXCEPT !.sweeping = TRUE]
  <2>1. /\ s.sweeps /\ read' = Bells!Rows /\ Bells!Show(b, n)
        /\ UNCHANGED <<member, assignee, log, work>>
    BY <1>1 DEF Bells!SweepServer
  <2>2. /\ n \in Bells!BellState
        /\ n.inbox = s.inbox /\ n.items = s.items /\ n.page = s.page
        /\ n.marked = s.marked /\ n.sweeps = s.sweeps
    BY <1>0 DEF Bells!BellState
  <2> HIDE DEF n
  <2>3. member => BellOk(s, Bells!Rows, read')
    BY <1>0, <2>1, BellStays
  <2>4. member => BellOk(n, Bells!Rows, read')
    BY <2>1, <2>2, <2>3 DEF BellOk
  <2> QED
    BY <1>0, <2>1, <2>2, <2>4, ShowKeeps
<1>2. CASE Bells!SweepReply(b)
  <2> DEFINE m == Bells!MarkRead(s.items, Note)
             n == [s EXCEPT !.sweeping = FALSE, !.count = 0, !.items = m]
  <2>1. s.sweeping /\ Bells!Show(b, n) /\ UNCHANGED <<Bells!Database, work>>
    BY <1>2 DEF Bells!SweepReply
  <2>2. /\ m \in Seq(Bells!Item) \cup {None}
        /\ m # None => /\ s.items # None /\ DOMAIN m = DOMAIN s.items
                       /\ \A i \in DOMAIN m : m[i].id = s.items[i].id
    BY <1>0, BellFields, MarkReadType
  <2> HIDE DEF m
  <2>3. /\ n \in Bells!BellState
        /\ n.inbox = s.inbox /\ n.items = m /\ n.page = s.page
        /\ n.marked = s.marked /\ ~n.sweeping /\ n.sweeps = s.sweeps
    BY <1>0, <2>2 DEF Bells!BellState
  <2> HIDE DEF n
  <2>4. member => BellOk(n, Bells!Rows, read)
    BY <1>0, <2>1, <2>2, <2>3 DEF BellOk
  <2> QED
    BY <2>1, <2>3, <2>4, SameReadKeeps
<1> QED
  BY <1>1, <1>2

\* What a request takes along.
LEMMA HeldTypes ==
    /\ Bells!Idle \in Bells!Held /\ Bells!Idle.at = "idle"
    /\ \A h \in Bells!Holder, m \in BOOLEAN : [at |-> "assign", new |-> h, mine |-> m] \in Bells!Held
    /\ [at |-> "blocked"] \in Bells!Held
    /\ \A n \in Note : [at |-> "publish", note |-> n] \in Bells!Held
    /\ \A q \in Bells!Held : /\ q.at = "assign" => q.new \in Bells!Holder
                             /\ q.at = "publish" => q.note \in Note
BY DEF Bells!Held, Bells!Idle

\* A request moves on without a new row.
LEMMA RequestMoves ==
    ASSUME BellsInv, NEW r \in Sender, NEW q \in Bells!Held, q.at # "publish",
           work' = [work EXCEPT ![r] = q], UNCHANGED <<member, log, read, bell>>,
           assignee' \in Bells!Holder, assignee' = Bells!Me => member \/ assignee = Bells!Me
    PROVE  BellsInv'
<1>1. Bells!Rows' = Bells!Rows
  BY DEF Bells!Rows
<1>2. work'[r] = q /\ \A p \in Sender \ {r} : work'[p] = work[p]
  BY DEF BellsInv, Bells!TypeOK
<1>3. Bells!TypeOK'
  BY <1>1 DEF BellsInv, Bells!TypeOK
<1> QED
  BY <1>1, <1>2, <1>3 DEF BellsInv

\* A new row, of a member, and its event to come.
LEMMA InsertKeeps ==
    ASSUME BellsInv, NEW r \in Sender, Bells!Insert(r), member,
           assignee' \in Bells!Holder, UNCHANGED <<member, read, bell>>
    PROVE  BellsInv'
<1>1. PICK n \in Note : /\ log' = Append(log, n)
                        /\ work' = [work EXCEPT ![r] = [at |-> "publish", note |-> n]]
  BY DEF Bells!Insert
<1>2. log' \in Seq(Note) /\ Bells!Rows' = Bells!Rows \cup {n} /\ Bells!Rows' \subseteq Note
  BY <1>1, LogRows DEF Bells!Rows, BellsInv, Bells!TypeOK
<1>3. /\ work'[r] = [at |-> "publish", note |-> n]
      /\ \A p \in Sender \ {r} : work'[p] = work[p]
      /\ [at |-> "publish", note |-> n] \in Bells!Held
  BY <1>1, HeldTypes DEF BellsInv, Bells!TypeOK
<1>4. Bells!TypeOK'
  BY <1>1, <1>2, <1>3 DEF BellsInv, Bells!TypeOK
<1>5. \A b \in Bell : BellOk(bell[b], Bells!Rows', read)
  BY <1>2, BellStays DEF BellsInv
<1>6. \A p \in Sender : work'[p].at = "publish" => work'[p].note \in Bells!Rows'
  BY <1>2, <1>3 DEF BellsInv
<1> QED
  BY <1>2, <1>4, <1>5, <1>6 DEF BellsInv

LEMMA AssignKeeps ==
    ASSUME BellsInv, NEW r \in Sender,
           Bells!AssignRead(r) \/ Bells!AssignCommit(r) \/ Bells!InvitedCommit(r)
    PROVE  BellsInv'
<1>0. assignee \in Bells!Holder /\ work[r] \in Bells!Held
  BY DEF BellsInv, Bells!TypeOK
<1>1. CASE Bells!AssignRead(r)
  <2>1. PICK h \in Bells!Holder, m \in BOOLEAN :
          work' = [work EXCEPT ![r] = [at |-> "assign", new |-> h, mine |-> m]]
          /\ UNCHANGED <<member, assignee, log, read, bell>>
    BY <1>1 DEF Bells!AssignRead, Bells!Database
  <2> DEFINE q == [at |-> "assign", new |-> h, mine |-> m]
  <2>2. q \in Bells!Held /\ q.at # "publish"
    BY HeldTypes
  <2> HIDE DEF q
  <2> QED
    BY <1>0, <2>1, <2>2, RequestMoves DEF q
<1>2. CASE Bells!AssignCommit(r)
  <2>1. /\ work[r].at = "assign" /\ (work[r].new = Bells!Me => member)
        /\ assignee' = work[r].new /\ UNCHANGED <<member, read, bell>>
        /\ assignee' \in Bells!Holder
    BY <1>0, <1>2, HeldTypes DEF Bells!AssignCommit
  <2>2. CASE Bells!Notifies(work[r])
    BY <1>2, <2>1, <2>2, InsertKeeps DEF Bells!AssignCommit, Bells!Notifies
  <2>3. CASE ~Bells!Notifies(work[r])
    <3>1. work' = [work EXCEPT ![r] = Bells!Idle] /\ UNCHANGED log
      BY <1>2, <2>3 DEF Bells!AssignCommit
    <3> QED
      BY <2>1, <3>1, HeldTypes, RequestMoves
  <2> QED
    BY <2>2, <2>3
<1>3. CASE Bells!InvitedCommit(r)
  BY <1>0, <1>3, InsertKeeps DEF Bells!InvitedCommit
<1> QED
  BY <1>1, <1>2, <1>3

LEMMA RemovalKeeps == ASSUME BellsInv, NEW r \in Sender, Bells!RemoveMember(r) PROVE BellsInv'
<1>1. CASE assignee = Bells!Me
  <2>1. /\ work' = [work EXCEPT ![r] = [at |-> "blocked"]]
        /\ UNCHANGED <<member, assignee, log, read, bell>>
    BY <1>1 DEF Bells!RemoveMember, Bells!Database
  <2>2. assignee \in Bells!Holder
    BY DEF BellsInv, Bells!TypeOK
  <2> QED
    BY <2>1, <2>2, HeldTypes, RequestMoves
<1>2. CASE assignee # Bells!Me
  <2>1. /\ member' = FALSE /\ log' = << >> /\ read' = {}
        /\ UNCHANGED <<assignee, work, bell>>
    BY <1>2 DEF Bells!RemoveMember
  <2>2. Bells!Rows' = {} /\ log' \in Seq(Note)
    <3>1. Bells!ToSet(<< >>) = {}
      BY DEF Bells!ToSet
    <3> QED
      BY <2>1, <3>1 DEF Bells!Rows
  <2>3. Bells!TypeOK'
    BY <2>1, <2>2 DEF BellsInv, Bells!TypeOK
  <2> QED
    BY <1>2, <2>1, <2>2, <2>3 DEF BellsInv
<1> QED
  BY <1>1, <1>2

\* The event reaches the sockets that are open; its row is in the table.
LEMMA PublishKeeps == ASSUME BellsInv, NEW r \in Sender, Bells!Publish(r) PROVE BellsInv'
<1>1. /\ work[r].at = "publish" /\ work' = [work EXCEPT ![r] = Bells!Idle]
      /\ UNCHANGED <<member, assignee, log, read>>
  BY DEF Bells!Publish, Bells!Database
<1>2. work[r].note \in Note /\ (member => work[r].note \in Bells!Rows)
  BY <1>1, HeldTypes DEF BellsInv, Bells!TypeOK
<1>3. ASSUME NEW b \in Bell
      PROVE  /\ bell'[b] \in Bells!BellState
             /\ member => BellOk(bell'[b], Bells!Rows, read)
  <2> DEFINE s == bell[b]
             n == [s EXCEPT !.inbox = Append(s.inbox, work[r].note)]
  <2>1. s \in Bells!BellState /\ (member => BellOk(s, Bells!Rows, read))
    BY DEF BellsInv
  <2>2. bell'[b] = n \/ bell'[b] = s
    BY DEF Bells!Publish
  <2>3. /\ Append(s.inbox, work[r].note) \in Seq(Note)
        /\ \A i \in DOMAIN Append(s.inbox, work[r].note) :
             \/ i \in DOMAIN s.inbox /\ Append(s.inbox, work[r].note)[i] = s.inbox[i]
             \/ Append(s.inbox, work[r].note)[i] = work[r].note
    <3>1. s.inbox \in Seq(Note)
      BY <2>1, BellFields
    <3> QED
      BY <1>2, <3>1
  <2>4. /\ n \in Bells!BellState
        /\ n.inbox = Append(s.inbox, work[r].note) /\ n.items = s.items /\ n.page = s.page
        /\ n.marked = s.marked /\ n.sweeping = s.sweeping /\ n.sweeps = s.sweeps
    BY <2>1, <2>3 DEF Bells!BellState
  <2> HIDE DEF n
  <2>5. member => BellOk(n, Bells!Rows, read)
    BY <1>2, <2>1, <2>3, <2>4 DEF BellOk
  <2> QED
    BY <2>1, <2>2, <2>4, <2>5
<1>4. bell' \in [Bell -> Bells!BellState]
  <2>1. bell' = [b \in Bell |-> bell'[b]]
    BY DEF Bells!Publish
  <2> QED
    BY <1>3, <2>1
<1>5. Bells!Rows' = Bells!Rows
  BY <1>1 DEF Bells!Rows
<1>6. \A p \in Sender : work'[p] = Bells!Idle \/ work'[p] = work[p]
  BY <1>1 DEF BellsInv, Bells!TypeOK
<1>7. Bells!TypeOK'
  BY <1>1, <1>3, <1>5, HeldTypes DEF BellsInv, Bells!TypeOK
<1> QED
  BY <1>1, <1>3, <1>4, <1>5, <1>6, <1>7, HeldTypes DEF BellsInv

LEMMA EndKeeps == ASSUME BellsInv, NEW r \in Sender, Bells!EndRequest(r) PROVE BellsInv'
<1>1. work' = [work EXCEPT ![r] = Bells!Idle] /\ UNCHANGED <<member, assignee, log, read, bell>>
  BY DEF Bells!EndRequest, Bells!Database
<1>2. assignee \in Bells!Holder
  BY DEF BellsInv, Bells!TypeOK
<1> QED
  BY <1>1, <1>2, HeldTypes, RequestMoves

\* Every step keeps the invariant.
LEMMA BellsNextKeeps ==
    ASSUME PageSize \in Nat, BellsInv, [Bells!Next]_Bells!vars PROVE BellsInv'
<1>1. CASE Bells!Next
  BY <1>1, AssignKeeps, RemovalKeeps, PublishKeeps, EndKeeps, SocketKeeps, FetchKeeps, MarkKeeps,
     SweepKeeps
  DEF Bells!Next, Bells!RequestStep, Bells!BellStep
<1>2. CASE UNCHANGED Bells!vars
  BY <1>2 DEF Bells!vars, BellsInv, Bells!TypeOK, Bells!Rows
<1> QED
  BY <1>1, <1>2

\* The invariant says what BellTellsTruth says.
LEMMA BellsInvSound == ASSUME BellsInv PROVE Bells!BellTellsTruth
<1>1. ASSUME member, NEW b \in Bell PROVE Bells!Heard(b) \subseteq Bells!Rows
  <2>1. BellOk(bell[b], Bells!Rows, read)
    BY <1>1 DEF BellsInv
  <2> QED
    BY <2>1 DEF BellOk, Bells!Heard, Bells!ToSet
<1>2. ASSUME ~member PROVE Bells!Rows = {}
  BY <1>2 DEF BellsInv, Bells!Rows, Bells!ToSet
<1>3. Bells!NoGhost
  BY <1>1, <1>2 DEF Bells!NoGhost, BellsInv
<1>4. Bells!ShownReadIsRead
  <2> SUFFICES ASSUME NEW b \in Bell, member, ~bell[b].sweeps, bell[b].items # None,
                      NEW i \in Bells!ToSet(bell[b].items), i.read
               PROVE  i.id \in read
    BY DEF Bells!ShownReadIsRead
  <2>1. BellOk(bell[b], Bells!Rows, read)
    BY DEF BellsInv
  <2> QED
    BY <2>1 DEF BellOk, Bells!ToSet
<1> QED
  BY <1>3, <1>4 DEF Bells!BellTellsTruth

\* The commit that makes the recipient the assignee.
LEMMA AssignedTold ==
    ASSUME BellsInv, [Bells!Next]_Bells!vars, assignee # Bells!Me, assignee' = Bells!Me
    PROVE  \/ \E r \in Sender : work[r].at = "assign" /\ work[r].mine /\ work'[r] = Bells!Idle
           \/ Len(log') = Len(log) + 1
<1>1. PICK r \in Sender : Bells!AssignCommit(r)
  BY DEF Bells!Next, Bells!RequestStep, Bells!BellStep, Bells!vars, Bells!Database,
         Bells!AssignRead, Bells!InvitedCommit, Bells!RemoveMember, Bells!Publish,
         Bells!EndRequest, Bells!OpenSocket, Bells!CloseSocket, Bells!Receive,
         Bells!CountRead, Bells!CountReply, Bells!ListRead, Bells!ListReply,
         Bells!MarkServer, Bells!MarkReply, Bells!SweepServer, Bells!SweepReply
<1>2. work[r].at = "assign" /\ work[r].new = Bells!Me
  BY <1>1 DEF Bells!AssignCommit
<1>3. CASE Bells!Notifies(work[r])
  <2>1. PICK n \in Note : log' = Append(log, n)
    BY <1>1, <1>3 DEF Bells!AssignCommit, Bells!Insert
  <2> QED
    BY <2>1, LogRows DEF BellsInv
<1>4. CASE ~Bells!Notifies(work[r])
  <2>1. work[r].mine
    BY <1>2, <1>4 DEF Bells!Notifies
  <2>2. work'[r] = Bells!Idle
    BY <1>1, <1>4 DEF Bells!AssignCommit, BellsInv, Bells!TypeOK
  <2> QED
    BY <1>2, <2>1, <2>2
<1> QED
  BY <1>3, <1>4

-----------------------------------------------------------------------------
(* The two side by side: an execution runs one of them.                     *)

PartsNext == MembersMove \/ BellsMove
PartsInv ==
    /\ IInv
    /\ part = "bells" => BellsInv

\* A step of the two is a step of one part and none of the other.
LEMMA PartsMove ==
    ASSUME [PartsNext]_allVars
    PROVE  /\ [Next]_vars /\ part' = part
           /\ part = "bells" => [Bells!Next]_Bells!vars
           /\ part # "bells" => UNCHANGED Bells!vars
BY DEF PartsNext, MembersMove, BellsMove, allVars, bellVars, vars, Bells!vars

LEMMA PartsInvHolds == ASSUME PageSize \in Nat PROVE PartsSpec => []PartsInv
<1>1. PartsInit => PartsInv
  BY InitIInv, BellsInitHolds DEF PartsInit, PartsInv
<1>2. PartsInv /\ [PartsNext]_allVars => PartsInv'
  BY PartsMove, NextIInv, BellsNextKeeps DEF PartsInv
<1> QED
  BY <1>1, <1>2, PTL DEF PartsSpec, PartsNext

\* The variables of both modules always have their types.
THEOREM MembersTypes == ASSUME PageSize \in Nat PROVE PartsSpec => []TypesOK
<1>1. PartsInv => TypesOK
  BY DEF PartsInv, IInv, BellsInv, TypesOK
<1> QED
  BY <1>1, PartsInvHolds, PTL

\* For any number of requests and pages, whatever order events, responses and
\* reconnections arrive in: what is about to be published, what is on its way to
\* a page and what the page lists are rows of the table; a removed recipient has
\* neither rows nor tickets; and a page on which "mark all" is not used shows as
\* read only what is read in the table.
\* services/notifications.py:20-29, NotificationBell.tsx:70-134.
THEOREM BellTellsTruthHolds ==
    ASSUME PageSize \in Nat PROVE PartsSpec => []BellTellsTruth
<1>1. PartsInv => BellTellsTruth
  BY BellsInvSound DEF PartsInv, BellTellsTruth
<1> QED
  BY <1>1, PartsInvHolds, PTL

\* For any number of requests, whenever somebody else's request makes the
\* recipient the assignee, the same commit inserts a notification, whoever the
\* assignee was when the request read the ticket.
\* services/notifications.py:20-26, tickets.py:660-693.
THEOREM AssignedIsToldHolds ==
    ASSUME PageSize \in Nat PROVE PartsSpec => AssignedIsTold
<1>1. PartsInv /\ [PartsNext]_allVars
        => [assignee # Bells!Me /\ assignee' = Bells!Me =>
              \/ \E r \in Sender : work[r].at = "assign" /\ work[r].mine /\ work'[r] = Bells!Idle
              \/ Len(log') = Len(log) + 1]_Bells!vars
  BY AssignedTold, PartsMove DEF PartsInv
<1> QED
  BY <1>1, PartsInvHolds, PTL DEF PartsSpec, PartsNext, AssignedIsTold, Bells!AssignedIsTold
=============================================================================
