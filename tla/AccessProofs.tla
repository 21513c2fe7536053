---------------------------- MODULE AccessProofs ----------------------------
(***************************************************************************)
(* Safety of the parts of MCAccess for every value of the constants:       *)
(* Sessions, Verification, Rooms, Tenancy and Authority, each with its     *)
(* inductive invariant. The last section puts them together for PartsSpec. *)
(***************************************************************************)
EXTENDS MCAccess, Integers, Sequences, TLAPS

-----------------------------------------------------------------------------
(* Sessions                                                                 *)

\* Covered is what makes a revocation complete: a live token in the hands of a
\* client is in the index, or the index lost it to a deletion. ReqOk says what
\* each request may rely on between its calls to Redis.
Covered == handed \cap live \subseteq index \cup dropped

ReqOk(q) ==
    /\ q.at \in {"popped", "check"} /\ q.old # None => q.old \in issued \ live
    /\ q.at \in {"got", "deleted", "stored", "added", "kept"} => q.token \in issued
    /\ q.at \in {"added", "kept"} /\ q.token \in live => q.token \in index \cup dropped
    /\ q.at = "deleted" => q.token \notin live
    /\ q.at \in {"revoke", "members", "killed", "done"} => q.before \subseteq handed
    /\ q.at \in {"members", "killed"} => q.read \subseteq issued
    /\ q.at = "members" => q.before \cap live \subseteq q.read \cup dropped
    /\ q.at = "killed" => q.read \cap live = {}
    /\ q.at \in {"killed", "done"} => q.before \cap live \subseteq dropped
    /\ q.late => ~row /\ q.at \notin {"found", "stored", "added", "kept"}

IInv == TypeOK /\ Covered /\ \A r \in Request : ReqOk(req[r])

\* What every step keeps for the requests that do not take it.
Mono ==
    /\ row' => row
    /\ issued \subseteq issued' /\ handed \subseteq handed' /\ dropped \subseteq dropped'
    /\ live' \cap issued \subseteq live
    /\ live' \cap (index \cup dropped) \subseteq index' \cup dropped'

At == {"idle", "popped", "check", "found", "stored", "added", "kept", "got",
       "deleted", "link", "revoke", "members", "killed", "done"}

----------------------------------------------------------------------------
(* Records of requests *)

LEMMA IdleType ==
    /\ Idle \in Requests
    /\ Idle.at = "idle" /\ Idle.late = FALSE /\ Idle.old = None
BY DEF Idle, Requests

\* A request moves on and keeps its fields.
LEMMA MoveOn ==
    ASSUME NEW q \in Requests, NEW a \in At
    PROVE  LET n == [q EXCEPT !.at = a]
           IN  /\ n \in Requests /\ n.at = a
               /\ n.token = q.token /\ n.old = q.old /\ n.link = q.link
               /\ n.read = q.read /\ n.before = q.before /\ n.late = q.late
BY DEF Requests, At

LEMMA MoveOnReq ==
    ASSUME TypeOK, NEW r \in Request, NEW a \in At,
           req' = [req EXCEPT ![r].at = a]
    PROVE  /\ req' \in [Request -> Requests]
           /\ req'[r].at = a /\ req'[r].token = req[r].token
           /\ req'[r].old = req[r].old /\ req'[r].read = req[r].read
           /\ req'[r].before = req[r].before /\ req'[r].late = req[r].late
           /\ \A x \in Request \ {r} : req'[x] = req[x]
<1>1. req[r] \in Requests /\ req' = [req EXCEPT ![r] = [req[r] EXCEPT !.at = a]]
    BY DEF TypeOK
<1> QED
    BY <1>1, MoveOn DEF TypeOK

LEMMA ReplaceReq ==
    ASSUME TypeOK, NEW r \in Request, NEW q \in Requests,
           req' = [req EXCEPT ![r] = q]
    PROVE  /\ req' \in [Request -> Requests]
           /\ req'[r] = q
           /\ \A x \in Request \ {r} : req'[x] = req[x]
BY DEF TypeOK

----------------------------------------------------------------------------
(* IInv is inductive *)

\* A request that does not take the step keeps what it relies on.
LEMMA KeepOk ==
    ASSUME TypeOK, Mono, NEW x \in Request, req'[x] = req[x], ReqOk(req[x])
    PROVE  ReqOk(req[x])'
<1> DEFINE q == req[x]
<1>0. q \in Requests /\ q' = q
    BY DEF TypeOK
<1>1. /\ q.at \in {"popped", "check"} /\ q.old # None => q.old \in issued' \ live'
      /\ q.at \in {"got", "deleted", "stored", "added", "kept"} => q.token \in issued'
      /\ q.at = "deleted" => q.token \notin live'
    BY DEF ReqOk, Mono
<1>2. q.at \in {"added", "kept"} /\ q.token \in live' => q.token \in index' \cup dropped'
    BY DEF ReqOk, Mono
<1>3. /\ q.at \in {"revoke", "members", "killed", "done"} => q.before \subseteq handed'
      /\ q.at \in {"members", "killed"} => q.read \subseteq issued'
    BY DEF ReqOk, Mono
<1>4. q.at = "members" => q.before \cap live' \subseteq q.read \cup dropped'
    BY DEF ReqOk, Mono, TypeOK
<1>5. q.at = "killed" => q.read \cap live' = {}
    BY DEF ReqOk, Mono
<1>6. q.at \in {"killed", "done"} => q.before \cap live' \subseteq dropped'
    BY DEF ReqOk, Mono, TypeOK
<1>7. q.late => ~row' /\ q.at \notin {"found", "stored", "added", "kept"}
    BY DEF ReqOk, Mono
<1> HIDE DEF q
<1>8. ReqOk(q)'
    BY <1>0, <1>1, <1>2, <1>3, <1>4, <1>5, <1>6, <1>7 DEF ReqOk
<1> QED
    BY <1>8 DEF q

\* It is enough to look at the request that takes the step.
LEMMA StepOk ==
    ASSUME IInv, Mono, NEW r \in Request,
           \A x \in Request \ {r} : req'[x] = req[x],
           req'[r] = Idle \/ ReqOk(req[r])'
    PROVE  \A x \in Request : ReqOk(req[x])'
<1> SUFFICES ASSUME NEW x \in Request PROVE ReqOk(req[x])'
    OBVIOUS
<1>1. CASE x = r /\ req'[r] = Idle
    BY <1>1, IdleType DEF ReqOk
<1>2. CASE x # r
    BY <1>2, KeepOk DEF IInv
<1> QED
    BY <1>1, <1>2

LEMMA InitIInv == Init => IInv
BY IdleType DEF Init, IInv, TypeOK, Covered, ReqOk

LEMMA BeginIInv ==
    ASSUME IInv, NEW r \in Request, NEW q \in Requests,
           req' = [req EXCEPT ![r] = q], ReqOk(req[r])', Mono, Covered',
           live' \subseteq live, row' \in BOOLEAN,
           links' \in [Link -> {"none", "live", "used"}],
           UNCHANGED <<userSet, history>>
    PROVE  IInv'
<1>1. /\ req' \in [Request -> Requests] /\ req'[r] = q
      /\ \A x \in Request \ {r} : req'[x] = req[x]
    BY ReplaceReq DEF IInv
<1>2. TypeOK'
    BY <1>1 DEF IInv, TypeOK, userSet, history
<1> QED
    BY <1>1, <1>2, StepOk DEF IInv

LEMMA LoginStep == ASSUME IInv, NEW r \in Request, Login(r) PROVE IInv'
<1> DEFINE q == [Idle EXCEPT !.op = "login", !.at = "found"]
<1>1. q \in Requests /\ q.at = "found" /\ q.late = FALSE
    BY DEF Idle, Requests, Op
<1>2. req' = [req EXCEPT ![r] = q]
    BY DEF Login
<1> HIDE DEF q
<1>3. req'[r] = q
    BY <1>1, <1>2, ReplaceReq DEF IInv
<1>4. Mono /\ Covered'
    BY DEF Login, Mono, userSet, history, IInv, Covered
<1>5. ReqOk(req[r])'
    BY <1>1, <1>3 DEF ReqOk
<1> QED
    BY <1>1, <1>2, <1>4, <1>5, BeginIInv DEF Login, IInv, TypeOK

LEMMA PopStep ==
    ASSUME IInv, NEW r \in Request, NEW t \in Token, RefreshPop(r, t) PROVE IInv'
<1> DEFINE q == [Idle EXCEPT !.op = "refresh", !.at = "popped", !.old = t,
                             !.late = ~row]
<1>1. /\ q \in Requests /\ q.at = "popped" /\ q.old = t /\ q.late = ~row
    BY DEF Idle, Requests, Op, IInv, TypeOK
<1>2. req' = [req EXCEPT ![r] = q]
    BY DEF RefreshPop
<1> HIDE DEF q
<1>3. req'[r] = q
    BY <1>1, <1>2, ReplaceReq DEF IInv
<1>4. /\ Mono /\ Covered' /\ live' \subseteq live
      /\ t \in issued' \ live'
    BY DEF RefreshPop, Taken, Mono, userSet, history, IInv, Covered, TypeOK
<1>5. ReqOk(req[r])'
    BY <1>1, <1>3, <1>4 DEF ReqOk, RefreshPop
<1> QED
    BY <1>1, <1>2, <1>4, <1>5, BeginIInv DEF RefreshPop, IInv, TypeOK

LEMMA LogoutGetStep ==
    ASSUME IInv, NEW r \in Request, NEW t \in Token, LogoutGet(r, t) PROVE IInv'
<1> DEFINE q == [Idle EXCEPT !.op = "logout", !.at = "got", !.token = t]
<1>1. /\ q \in Requests /\ q.at = "got" /\ q.token = t /\ q.late = FALSE
    BY DEF Idle, Requests, Op
<1>2. req' = [req EXCEPT ![r] = q]
    BY DEF LogoutGet
<1> HIDE DEF q
<1>3. req'[r] = q
    BY <1>1, <1>2, ReplaceReq DEF IInv
<1>4. Mono /\ Covered' /\ t \in issued'
    BY DEF LogoutGet, Mono, userSet, history, IInv, Covered, TypeOK
<1>5. ReqOk(req[r])'
    BY <1>1, <1>3, <1>4 DEF ReqOk
<1> QED
    BY <1>1, <1>2, <1>4, <1>5, BeginIInv DEF LogoutGet, IInv, TypeOK

LEMMA ResetReadStep ==
    ASSUME IInv, NEW r \in Request, NEW l \in Link, ResetRead(r, l) PROVE IInv'
<1> DEFINE q == [Idle EXCEPT !.op = "reset", !.at = "link", !.link = l]
<1>1. /\ q \in Requests /\ q.at = "link" /\ q.late = FALSE
    BY DEF Idle, Requests, Op
<1>2. req' = [req EXCEPT ![r] = q]
    BY DEF ResetRead
<1> HIDE DEF q
<1>3. req'[r] = q
    BY <1>1, <1>2, ReplaceReq DEF IInv
<1>4. Mono /\ Covered'
    BY DEF ResetRead, Mono, userSet, history, IInv, Covered
<1>5. ReqOk(req[r])'
    BY <1>1, <1>3 DEF ReqOk
<1> QED
    BY <1>1, <1>2, <1>4, <1>5, BeginIInv DEF ResetRead, IInv, TypeOK

LEMMA LinksType ==
    ASSUME TypeOK, NEW L PROVE LinksWithout(L) \in [Link -> {"none", "live", "used"}]
BY DEF TypeOK, LinksWithout

LEMMA RemoveStep == ASSUME IInv, NEW r \in Request, RemoveCommit(r) PROVE IInv'
<1> DEFINE q == [Idle EXCEPT !.op = "remove", !.at = "revoke", !.before = handed]
<1>1. /\ q \in Requests /\ q.at = "revoke" /\ q.before = handed /\ q.late = FALSE
    BY DEF Idle, Requests, Op, IInv, TypeOK
<1>2. req' = [req EXCEPT ![r] = q]
    BY DEF RemoveCommit
<1> HIDE DEF q
<1>3. req'[r] = q
    BY <1>1, <1>2, ReplaceReq DEF IInv
<1>4. Mono /\ Covered'
    BY DEF RemoveCommit, Mono, userSet, history, IInv, Covered
<1>5. ReqOk(req[r])'
    BY <1>1, <1>3 DEF ReqOk, RemoveCommit, history
<1>6. links' \in [Link -> {"none", "live", "used"}]
    BY LinksType DEF RemoveCommit, IInv
<1> QED
    BY <1>1, <1>2, <1>4, <1>5, <1>6, BeginIInv DEF RemoveCommit

\* The end of a request that changes no table.
LEMMA EndIInv ==
    ASSUME IInv, NEW r \in Request, req' = [req EXCEPT ![r] = Idle],
           UNCHANGED <<row, live, userSet, links, history>>
    PROVE  IInv'
<1>1. /\ req' \in [Request -> Requests] /\ req'[r] = Idle
      /\ \A x \in Request \ {r} : req'[x] = req[x]
    BY ReplaceReq, IdleType DEF IInv
<1>2. Mono /\ Covered'
    BY DEF Mono, userSet, history, IInv, Covered
<1>3. TypeOK'
    BY <1>1 DEF IInv, TypeOK, userSet, history
<1> QED
    BY <1>1, <1>2, <1>3, StepOk DEF IInv

----------------------------------------------------------------------------
(* Steps of a request that go on *)

\* The tables have their types after the step.
Tables ==
    /\ row \in BOOLEAN
    /\ live \in SUBSET issued
    /\ index \in SUBSET issued
    /\ timed \in BOOLEAN
    /\ outlived \in SUBSET issued
    /\ links \in [Link -> {"none", "live", "used"}]
    /\ issued \in SUBSET Token
    /\ handed \in SUBSET issued
    /\ from \in [Token -> Token \cup {None}]
    /\ dropped \in SUBSET issued

LEMMA ReplaceIInv ==
    ASSUME IInv, NEW r \in Request, NEW q \in Requests,
           req' = [req EXCEPT ![r] = q],
           Tables', Mono, Covered', ReqOk(req[r])'
    PROVE  IInv'
<1>1. /\ req' \in [Request -> Requests] /\ req'[r] = q
      /\ \A x \in Request \ {r} : req'[x] = req[x]
    BY ReplaceReq DEF IInv
<1>2. TypeOK'
    BY <1>1 DEF TypeOK, Tables
<1> QED
    BY <1>1, <1>2, StepOk DEF IInv

LEMMA MoveIInv ==
    ASSUME IInv, NEW r \in Request, NEW a \in At,
           req' = [req EXCEPT ![r].at = a],
           Tables', Mono, Covered', ReqOk(req[r])'
    PROVE  IInv'
<1>1. /\ req' \in [Request -> Requests]
      /\ \A x \in Request \ {r} : req'[x] = req[x]
    BY MoveOnReq DEF IInv
<1>2. TypeOK'
    BY <1>1 DEF TypeOK, Tables
<1> QED
    BY <1>1, <1>2, StepOk DEF IInv

\* A step that only moves a request on.
LEMMA QuietIInv ==
    ASSUME IInv, NEW r \in Request, NEW a \in At,
           req' = [req EXCEPT ![r].at = a], ReqOk(req[r])',
           UNCHANGED <<row, live, userSet, links, history>>
    PROVE  IInv'
<1>1. Mono /\ Covered'
    BY DEF Mono, userSet, history, IInv, Covered
<1>2. Tables'
    BY DEF Tables, userSet, history, IInv, TypeOK
<1> QED
    BY <1>1, <1>2, MoveIInv

LEMMA UnindexStep ==
    ASSUME IInv, NEW r \in Request, RefreshUnindex(r) PROVE IInv'
<1>1. /\ req'[r].at = "check" /\ req'[r].old = req[r].old
      /\ req'[r].late = req[r].late
    BY MoveOnReq DEF RefreshUnindex, At, IInv
<1>2. ReqOk(req[r]) /\ req[r].old \notin live
    BY NoneAssumption DEF RefreshUnindex, IInv, ReqOk, TypeOK
<1>3. Mono /\ Covered'
    BY <1>2 DEF RefreshUnindex, IndexBecomes, history, IInv, Mono, Covered
<1>4. Tables'
    BY DEF RefreshUnindex, IndexBecomes, history, IInv, TypeOK, Tables
<1>5. ReqOk(req[r])'
    BY <1>1, <1>2 DEF ReqOk, RefreshUnindex, history
<1> QED
    BY <1>3, <1>4, <1>5, MoveIInv DEF RefreshUnindex, At

\* The row has gone: a refresh that started after the removal stops here.
LEMMA CheckStep ==
    ASSUME IInv, NEW r \in Request, RefreshCheck(r) PROVE IInv'
<1>1. CASE row
  <2>1. req[r] \in Requests /\ ReqOk(req[r])
    BY DEF IInv, TypeOK
  <2>2. req' = [req EXCEPT ![r].at = "found"]
    BY <1>1 DEF RefreshCheck, MayRefresh
  <2>3. req'[r].at = "found" /\ req'[r].late = req[r].late
    BY <2>2, MoveOnReq DEF IInv, At
  <2>4. ReqOk(req[r])'
    BY <1>1, <2>1, <2>3 DEF ReqOk
  <2> QED
    BY <2>2, <2>4, QuietIInv DEF RefreshCheck, At
<1>2. CASE ~row
    BY <1>2, EndIInv DEF RefreshCheck, MayRefresh
<1> QED
    BY <1>1, <1>2

LEMMA StoreStep ==
    ASSUME IInv, NEW r \in Request, NEW t \in Token, StoreKey(r, t) PROVE IInv'
<1> DEFINE q == [req[r] EXCEPT !.at = "stored", !.token = t]
<1>1. req[r] \in Requests /\ ReqOk(req[r])
    BY DEF IInv, TypeOK
<1>2. q \in Requests /\ q.at = "stored" /\ q.token = t /\ q.late = req[r].late
    BY <1>1 DEF Requests
<1>3. req' = [req EXCEPT ![r] = q]
    BY DEF StoreKey
<1> HIDE DEF q
<1>4. req'[r] = q
    BY <1>2, <1>3, ReplaceReq DEF IInv
<1>5. Tables'
    BY <1>1 DEF StoreKey, userSet, IInv, TypeOK, Tables, Requests
<1>6. Mono /\ Covered'
    BY DEF StoreKey, userSet, IInv, TypeOK, Mono, Covered
<1>7. ReqOk(req[r])'
    BY <1>1, <1>2, <1>4 DEF ReqOk, StoreKey
<1> QED
    BY <1>2, <1>3, <1>5, <1>6, <1>7, ReplaceIInv

LEMMA AddStep ==
    ASSUME IInv, NEW r \in Request, AddToIndex(r) PROVE IInv'
<1>1. /\ req'[r].at = "added" /\ req'[r].token = req[r].token
      /\ req'[r].late = req[r].late
    BY MoveOnReq DEF AddToIndex, At, IInv
<1>2. ReqOk(req[r]) /\ req[r].token \in issued
    BY DEF AddToIndex, IInv, ReqOk
<1>3. Mono /\ Covered'
    BY DEF AddToIndex, IndexBecomes, history, IInv, Mono, Covered
<1>4. Tables'
    BY <1>2 DEF AddToIndex, IndexBecomes, history, IInv, TypeOK, Tables
<1>5. ReqOk(req[r])'
    BY <1>1, <1>2 DEF ReqOk, AddToIndex, IndexBecomes, history
<1> QED
    BY <1>3, <1>4, <1>5, MoveIInv DEF AddToIndex, At

LEMMA KeepStep ==
    ASSUME IInv, NEW r \in Request, KeepIndex(r) PROVE IInv'
<1>1. /\ req'[r].at = "kept" /\ req'[r].token = req[r].token
      /\ req'[r].late = req[r].late
    BY MoveOnReq DEF KeepIndex, At, IInv
<1>2. ReqOk(req[r])
    BY DEF IInv
<1>3. Mono /\ Covered'
    BY DEF KeepIndex, history, IInv, Mono, Covered
<1>4. Tables'
    BY DEF KeepIndex, history, IInv, TypeOK, Tables
<1>5. ReqOk(req[r])'
    BY <1>1, <1>2 DEF ReqOk, KeepIndex, history
<1> QED
    BY <1>3, <1>4, <1>5, MoveIInv DEF KeepIndex, At

\* The token reaches the client when it is in the index, dead, or dropped.
LEMMA HandStep ==
    ASSUME IInv, NEW r \in Request, Hand(r) PROVE IInv'
<1>1. /\ req' \in [Request -> Requests] /\ req'[r] = Idle
      /\ \A x \in Request \ {r} : req'[x] = req[x]
    BY ReplaceReq, IdleType DEF IInv, Hand
<1>2. /\ req[r].token \in issued
      /\ req[r].token \in live => req[r].token \in index \cup dropped
    BY DEF Hand, IInv, ReqOk
<1>3. Mono /\ Covered'
    BY <1>2 DEF Hand, userSet, IInv, Mono, Covered
<1>4. TypeOK'
    BY <1>1, <1>2 DEF Hand, userSet, IInv, TypeOK
<1> QED
    BY <1>1, <1>3, <1>4, StepOk DEF IInv

LEMMA DeleteStep ==
    ASSUME IInv, NEW r \in Request, LogoutDelete(r) PROVE IInv'
<1>1. /\ req'[r].at = "deleted" /\ req'[r].token = req[r].token
      /\ req'[r].late = req[r].late
    BY MoveOnReq DEF LogoutDelete, At, IInv
<1>2. ReqOk(req[r])
    BY DEF IInv
<1>3. Mono /\ Covered'
    BY DEF LogoutDelete, userSet, history, IInv, Mono, Covered
<1>4. Tables'
    BY DEF LogoutDelete, userSet, history, IInv, TypeOK, Tables
<1>5. ReqOk(req[r])'
    BY <1>1, <1>2 DEF ReqOk, LogoutDelete, history
<1> QED
    BY <1>3, <1>4, <1>5, MoveIInv DEF LogoutDelete, At

\* The key went first, so what leaves the index is dead.
LEMMA LogoutUnindexStep ==
    ASSUME IInv, NEW r \in Request, LogoutUnindex(r) PROVE IInv'
<1>1. /\ req' \in [Request -> Requests] /\ req'[r] = Idle
      /\ \A x \in Request \ {r} : req'[x] = req[x]
    BY ReplaceReq, IdleType DEF IInv, LogoutUnindex
<1>2. req[r].token \notin live
    BY DEF LogoutUnindex, IInv, ReqOk
<1>3. Mono /\ Covered'
    BY <1>2 DEF LogoutUnindex, IndexBecomes, history, IInv, Mono, Covered
<1>4. TypeOK'
    BY <1>1 DEF LogoutUnindex, IndexBecomes, history, IInv, TypeOK
<1> QED
    BY <1>1, <1>3, <1>4, StepOk DEF IInv

----------------------------------------------------------------------------
(* The revocation *)

LEMMA ResetCommitStep ==
    ASSUME IInv, NEW r \in Request, ResetCommit(r) PROVE IInv'
<1> DEFINE q == [req[r] EXCEPT !.at = "revoke", !.before = handed]
<1>1. req[r] \in Requests /\ ReqOk(req[r])
    BY DEF IInv, TypeOK
<1>2. q \in Requests /\ q.at = "revoke" /\ q.before = handed /\ q.late = req[r].late
    BY <1>1 DEF Requests, IInv, TypeOK
<1>3. req' = [req EXCEPT ![r] = q]
    BY DEF ResetCommit
<1> HIDE DEF q
<1>4. req'[r] = q
    BY <1>2, <1>3, ReplaceReq DEF IInv
<1>5. links' \in [Link -> {"none", "live", "used"}]
    BY LinksType DEF ResetCommit, IInv
<1>6. Tables'
    BY <1>5 DEF ResetCommit, userSet, history, IInv, TypeOK, Tables
<1>7. Mono /\ Covered'
    BY DEF ResetCommit, userSet, history, IInv, Mono, Covered
<1>8. ReqOk(req[r])'
    BY <1>1, <1>2, <1>4 DEF ReqOk, ResetCommit, history
<1> QED
    BY <1>2, <1>3, <1>6, <1>7, <1>8, ReplaceIInv

\* SMEMBERS returns every live token that a client held at the commit, but
\* those that the index has lost: this is Covered.
LEMMA RevokeReadStep ==
    ASSUME IInv, NEW r \in Request, RevokeRead(r) PROVE IInv'
<1> DEFINE q == [req[r] EXCEPT !.at = "members", !.read = index]
<1>1. req[r] \in Requests /\ ReqOk(req[r])
    BY DEF IInv, TypeOK
<1>2. /\ q \in Requests /\ q.at = "members" /\ q.read = index
      /\ q.before = req[r].before /\ q.late = req[r].late
    BY <1>1 DEF Requests, IInv, TypeOK
<1>3. req' = [req EXCEPT ![r] = q]
    BY DEF RevokeRead
<1> HIDE DEF q
<1>4. req'[r] = q
    BY <1>2, <1>3, ReplaceReq DEF IInv
<1>5. Tables'
    BY DEF RevokeRead, userSet, history, IInv, TypeOK, Tables
<1>6. Mono /\ Covered'
    BY DEF RevokeRead, userSet, history, IInv, Mono, Covered
<1>7. req[r].before \cap live \subseteq index \cup dropped /\ index \subseteq issued
    BY <1>1 DEF RevokeRead, ReqOk, IInv, Covered, TypeOK
<1>8. ReqOk(req[r])'
    BY <1>1, <1>2, <1>4, <1>7 DEF ReqOk, RevokeRead, userSet, history
<1> QED
    BY <1>2, <1>3, <1>5, <1>6, <1>8, ReplaceIInv

LEMMA RevokeKeysStep ==
    ASSUME IInv, NEW r \in Request, RevokeKeys(r) PROVE IInv'
<1>1. /\ req'[r].at = "killed" /\ req'[r].read = req[r].read
      /\ req'[r].before = req[r].before /\ req'[r].late = req[r].late
    BY MoveOnReq DEF RevokeKeys, At, IInv
<1>2. ReqOk(req[r])
    BY DEF IInv
<1>3. Mono /\ Covered'
    BY DEF RevokeKeys, userSet, history, IInv, Mono, Covered
<1>4. Tables'
    BY DEF RevokeKeys, userSet, history, IInv, TypeOK, Tables
<1>5. req[r].before \cap live' \subseteq dropped
    BY <1>2 DEF ReqOk, RevokeKeys
<1>6. ReqOk(req[r])'
    BY <1>1, <1>2, <1>5 DEF ReqOk, RevokeKeys, history
<1> QED
    BY <1>3, <1>4, <1>6, MoveIInv DEF RevokeKeys, At

\* What the set holds by now and SMEMBERS did not return is dropped; what
\* it returned is dead.
LEMMA RevokeIndexStep ==
    ASSUME IInv, NEW r \in Request, RevokeIndex(r) PROVE IInv'
<1>1. /\ req'[r].at = "done"
      /\ req'[r].before = req[r].before /\ req'[r].late = req[r].late
    BY MoveOnReq DEF RevokeIndex, At, IInv
<1>2. ReqOk(req[r]) /\ req[r].read \cap live = {}
    BY DEF IInv, RevokeIndex, ReqOk
<1>3. Mono /\ Covered'
    BY <1>2 DEF RevokeIndex, IndexBecomes, IInv, Mono, Covered
<1>4. Tables'
    BY DEF RevokeIndex, IndexBecomes, IInv, TypeOK, Tables
<1>5. ReqOk(req[r])'
    BY <1>1, <1>2 DEF ReqOk, RevokeIndex
<1> QED
    BY <1>3, <1>4, <1>5, MoveIInv DEF RevokeIndex, At

----------------------------------------------------------------------------
(* Steps of no request *)

\* A step that leaves the requests alone.
LEMMA OtherIInv ==
    ASSUME IInv, UNCHANGED req, Tables', Mono, Covered'
    PROVE  IInv'
<1>1. TypeOK'
    BY DEF IInv, TypeOK, Tables
<1>2. \A x \in Request : ReqOk(req[x])'
    BY KeepOk DEF IInv
<1> QED
    BY <1>1, <1>2 DEF IInv

LEMMA LinkSteps ==
    ASSUME IInv, NEW l \in Link, RequestLink(l) \/ ExpireLink(l) PROVE IInv'
<1>1. Mono /\ Covered'
    BY DEF RequestLink, ExpireLink, userSet, history, Mono, IInv, Covered
<1>2. Tables'
    BY DEF RequestLink, ExpireLink, userSet, history, IInv, TypeOK, Tables
<1> QED
    BY <1>1, <1>2, OtherIInv DEF RequestLink, ExpireLink

LEMMA ExpireSteps ==
    ASSUME IInv, (\E t \in Token : ExpireKey(t)) \/ ExpireIndex PROVE IInv'
<1>1. Mono /\ Covered'
    BY DEF ExpireKey, ExpireIndex, IndexBecomes, userSet, history, Mono, IInv, Covered
<1>2. Tables'
    BY DEF ExpireKey, ExpireIndex, IndexBecomes, userSet, history, IInv, TypeOK, Tables
<1> QED
    BY <1>1, <1>2, OtherIInv DEF ExpireKey, ExpireIndex

LEMMA StutterIInv == ASSUME IInv, UNCHANGED vars PROVE IInv'
BY DEF vars, userSet, history, IInv, TypeOK, Covered, ReqOk

----------------------------------------------------------------------------
LEMMA NextIInv == IInv /\ [Next]_vars => IInv'
<1> SUFFICES ASSUME IInv, [Next]_vars PROVE IInv'
    OBVIOUS
<1>1. ASSUME NEW r \in Request,
             \/ Login(r) \/ RefreshUnindex(r) \/ RefreshCheck(r)
             \/ AddToIndex(r) \/ KeepIndex(r) \/ Hand(r)
      PROVE  IInv'
    BY <1>1, LoginStep, UnindexStep, CheckStep, AddStep, KeepStep, HandStep
<1>2. ASSUME NEW r \in Request, LogoutDelete(r) \/ LogoutUnindex(r)
      PROVE  IInv'
    BY <1>2, DeleteStep, LogoutUnindexStep
<1>3. ASSUME NEW r \in Request,
             \/ ResetCommit(r) \/ RemoveCommit(r) \/ RevokeRead(r)
             \/ RevokeKeys(r) \/ RevokeIndex(r)
      PROVE  IInv'
    BY <1>3, ResetCommitStep, RemoveStep, RevokeReadStep, RevokeKeysStep,
       RevokeIndexStep
<1>4. ASSUME NEW r \in Request, Revoked(r) \/ Crash(r)
      PROVE  IInv'
    BY <1>4, EndIInv DEF Revoked, Crash
<1>5. ASSUME NEW r \in Request, NEW t \in Token,
             RefreshPop(r, t) \/ StoreKey(r, t) \/ LogoutGet(r, t)
      PROVE  IInv'
    BY <1>5, PopStep, StoreStep, LogoutGetStep
<1>6. ASSUME NEW r \in Request, NEW l \in Link, ResetRead(r, l)
      PROVE  IInv'
    BY <1>6, ResetReadStep
<1>7. ASSUME NEW l \in Link, RequestLink(l) \/ ExpireLink(l)
      PROVE  IInv'
    BY <1>7, LinkSteps
<1>8. CASE (\E t \in Token : ExpireKey(t)) \/ ExpireIndex
    BY <1>8, ExpireSteps
<1>9. CASE UNCHANGED vars
    BY <1>9, StutterIInv
<1> QED
    BY <1>1, <1>2, <1>3, <1>4, <1>5, <1>6, <1>7, <1>8, <1>9 DEF Next

THEOREM AlwaysIInv == Spec => []IInv
BY InitIInv, NextIInv, PTL DEF Spec

\* Every reachable state of the sessions is well typed, whatever the numbers
\* of tokens, links and concurrent requests.
THEOREM SessionTypes == Spec => []TypeOK
<1>1. IInv => TypeOK
    BY DEF IInv
<1> QED
    BY <1>1, AlwaysIInv, PTL

\* refresh_tokens.py, revoke_all_refresh_tokens_for_user: when it returns,
\* what the clients held when the reset or the removal committed is dead,
\* or was lost by the index to another deletion of it.
THEOREM RevocationKillsHolds == Spec => []RevocationKills
<1>1. IInv => RevocationKills
    BY DEF IInv, RevocationKills, ReqOk
<1> QED
    BY <1>1, AlwaysIInv, PTL

\* auth.py, refresh: no token is issued to a user whose row was gone when
\* the refresh started.
THEOREM RemovedGetsNothingHolds == Spec => []RemovedGetsNothing
<1>1. IInv => RemovedGetsNothing
    BY DEF IInv, RemovedGetsNothing, ReqOk
<1> QED
    BY <1>1, AlwaysIInv, PTL

----------------------------------------------------------------------------
(* A token is replaced once *)

\* This refresh has taken its token and has not replaced it yet.
Rotating(q) == q.at \in {"popped", "check", "found"} /\ q.old # None

Once ==
    /\ \A t \in Token : from[t] # None => t \in issued /\ from[t] \in issued \ live
    /\ \A t, u \in Token : from[t] = from[u] /\ from[t] # None => t = u
    /\ \A r \in Request : Rotating(req[r]) =>
           req[r].old \in issued \ live /\ \A t \in Token : from[t] # req[r].old
    /\ \A r, s \in Request :
           Rotating(req[r]) /\ Rotating(req[s]) /\ req[r].old = req[s].old => r = s

\* A step that neither takes a token nor replaces one.
Calm ==
    /\ from' = from /\ issued' = issued /\ live' \subseteq live
    /\ \A x \in Request : Rotating(req[x])' =>
           Rotating(req[x]) /\ req'[x].old = req[x].old

LEMMA CalmOnce == ASSUME Once, Calm PROVE Once'
BY DEF Once, Calm

LEMMA InitOnce == Init => Once
BY IdleType DEF Init, Once, Rotating

\* The request moves on: it is rotating only if it was.
LEMMA MoveCalm ==
    ASSUME TypeOK, NEW r \in Request, NEW a \in At,
           req' = [req EXCEPT ![r].at = a],
           a \in {"popped", "check", "found"} => req[r].at \in {"popped", "check", "found"},
           from' = from, issued' = issued, live' \subseteq live
    PROVE  Calm
BY MoveOnReq DEF Calm, Rotating

\* The request is replaced by one that rotates nothing.
LEMMA ReplaceCalm ==
    ASSUME TypeOK, NEW r \in Request, NEW q \in Requests, ~Rotating(q),
           req' = [req EXCEPT ![r] = q],
           from' = from, issued' = issued, live' \subseteq live
    PROVE  Calm
<1>1. req'[r] = q /\ \A x \in Request \ {r} : req'[x] = req[x]
    BY ReplaceReq
<1> QED
    BY <1>1 DEF Calm, Rotating

LEMMA OtherCalm ==
    ASSUME req' = req, from' = from, issued' = issued, live' \subseteq live
    PROVE  Calm
BY DEF Calm, Rotating

\* What another request has taken, or replaced, is dead; this one is live.
LEMMA PopOnce ==
    ASSUME IInv, Once, NEW r \in Request, NEW t \in Token, RefreshPop(r, t)
    PROVE  Once'
<1> DEFINE q == [Idle EXCEPT !.op = "refresh", !.at = "popped", !.old = t,
                             !.late = ~row]
<1>1. q \in Requests /\ q.old = t
    BY DEF Idle, Requests, Op, IInv, TypeOK
<1>2. req' = [req EXCEPT ![r] = q]
    BY DEF RefreshPop
<1> HIDE DEF q
<1>3. req'[r] = q /\ \A x \in Request \ {r} : req'[x] = req[x]
    BY <1>1, <1>2, ReplaceReq DEF IInv
<1>4. /\ from' = from /\ issued' = issued /\ live' \subseteq live
      /\ t \in live /\ t \in issued \ live'
    BY DEF RefreshPop, Taken, history, IInv, TypeOK
<1>5. \A x \in Request : Rotating(req[x])' =>
          req'[x].old \in issued' \ live' /\ \A u \in Token : from'[u] # req'[x].old
  <2> SUFFICES ASSUME NEW x \in Request, Rotating(req[x])'
               PROVE  req'[x].old \in issued' \ live'
                      /\ \A u \in Token : from'[u] # req'[x].old
    OBVIOUS
  <2>1. CASE x = r
    BY <1>1, <1>3, <1>4, <2>1, NoneAssumption DEF Once
  <2>2. CASE x # r
    BY <1>3, <1>4, <2>2 DEF Once, Rotating
  <2> QED
    BY <2>1, <2>2
<1>6. \A x, y \in Request :
          Rotating(req[x])' /\ Rotating(req[y])' /\ req'[x].old = req'[y].old => x = y
  <2>1. \A x \in Request \ {r} : Rotating(req[x])' => req'[x].old # t
    BY <1>3, <1>4 DEF Once, Rotating
  <2>2. \A x, y \in Request \ {r} :
            Rotating(req[x])' /\ Rotating(req[y])' /\ req'[x].old = req'[y].old => x = y
    BY <1>3 DEF Once, Rotating
  <2> QED
    BY <1>1, <1>3, <2>1, <2>2
<1> QED
    BY <1>4, <1>5, <1>6 DEF Once

\* The new token replaces what only this request had taken.
LEMMA StoreOnce ==
    ASSUME IInv, Once, NEW r \in Request, NEW t \in Token, StoreKey(r, t)
    PROVE  Once'
<1> DEFINE q == [req[r] EXCEPT !.at = "stored", !.token = t]
<1>1. req[r] \in Requests
    BY DEF IInv, TypeOK
<1>2. q \in Requests /\ q.at = "stored"
    BY <1>1 DEF Requests
<1>3. req' = [req EXCEPT ![r] = q]
    BY DEF StoreKey
<1> HIDE DEF q
<1>4. ~Rotating(req[r])' /\ \A x \in Request \ {r} : req'[x] = req[x]
    BY <1>2, <1>3, ReplaceReq DEF IInv, Rotating
<1>5. /\ t \notin issued /\ from[t] = None
      /\ from' = [from EXCEPT ![t] = req[r].old] /\ from \in [Token -> Token \cup {None}]
      /\ issued' = issued \cup {t} /\ live' = live \cup {t}
    BY DEF StoreKey, Once, IInv, TypeOK
<1>6. req[r].old # None => Rotating(req[r])
    BY DEF StoreKey, Rotating
<1>7. /\ from'[t] = req[r].old
      /\ \A u \in Token \ {t} : from'[u] = from[u]
    BY <1>5
<1>8. \A u \in Token : from'[u] # None => u \in issued' /\ from'[u] \in issued' \ live'
    BY <1>5, <1>6, <1>7 DEF Once
<1>9. \A u, v \in Token : from'[u] = from'[v] /\ from'[u] # None => u = v
    BY <1>6, <1>7 DEF Once
<1>10. \A x \in Request : Rotating(req[x])' =>
           req'[x].old \in issued' \ live' /\ \A u \in Token : from'[u] # req'[x].old
  <2> SUFFICES ASSUME NEW x \in Request \ {r}, Rotating(req[x])'
               PROVE  req'[x].old \in issued' \ live'
                      /\ \A u \in Token : from'[u] # req'[x].old
    BY <1>4
  <2>1. req'[x] = req[x] /\ Rotating(req[x]) /\ req[x].old # None
    BY <1>4 DEF Rotating
  <2>2. req[x].old # req[r].old
    BY <1>6, <2>1 DEF Once
  <2> QED
    BY <1>5, <1>7, <2>1, <2>2 DEF Once
<1>11. \A x, y \in Request :
           Rotating(req[x])' /\ Rotating(req[y])' /\ req'[x].old = req'[y].old => x = y
    BY <1>4 DEF Once, Rotating
<1> QED
    BY <1>8, <1>9, <1>10, <1>11 DEF Once

LEMMA BeginCalm ==
    ASSUME IInv, NEW r \in Request, Login(r) \/ RemoveCommit(r) PROVE Calm
<1>1. CASE Login(r)
  <2> DEFINE q == [Idle EXCEPT !.op = "login", !.at = "found"]
  <2>1. q \in Requests /\ ~Rotating(q)
      BY DEF Idle, Requests, Op, Rotating
  <2> QED
      BY <1>1, <2>1, ReplaceCalm DEF Login, history, IInv
<1>2. CASE RemoveCommit(r)
  <2> DEFINE q == [Idle EXCEPT !.op = "remove", !.at = "revoke", !.before = handed]
  <2>1. q \in Requests /\ ~Rotating(q)
      BY DEF Idle, Requests, Op, Rotating, IInv, TypeOK
  <2> QED
      BY <1>2, <2>1, ReplaceCalm DEF RemoveCommit, history, IInv
<1> QED
    BY <1>1, <1>2

LEMMA BeginOtherCalm ==
    ASSUME IInv, NEW r \in Request,
           \/ \E t \in Token : LogoutGet(r, t)
           \/ \E l \in Link : ResetRead(r, l)
    PROVE  Calm
<1>1. ASSUME NEW t \in Token, LogoutGet(r, t) PROVE Calm
  <2> DEFINE q == [Idle EXCEPT !.op = "logout", !.at = "got", !.token = t]
  <2>1. q \in Requests /\ ~Rotating(q)
      BY DEF Idle, Requests, Op, Rotating
  <2> QED
      BY <1>1, <2>1, ReplaceCalm DEF LogoutGet, history, IInv
<1>2. ASSUME NEW l \in Link, ResetRead(r, l) PROVE Calm
  <2> DEFINE q == [Idle EXCEPT !.op = "reset", !.at = "link", !.link = l]
  <2>1. q \in Requests /\ ~Rotating(q)
      BY DEF Idle, Requests, Op, Rotating
  <2> QED
      BY <1>2, <2>1, ReplaceCalm DEF ResetRead, history, IInv
<1> QED
    BY <1>1, <1>2

LEMMA EndCalm ==
    ASSUME IInv, NEW r \in Request, req' = [req EXCEPT ![r] = Idle],
           from' = from, issued' = issued, live' \subseteq live
    PROVE  Calm
BY IdleType, ReplaceCalm DEF IInv, Rotating

LEMMA RefreshCalm ==
    ASSUME IInv, NEW r \in Request,
           \/ RefreshUnindex(r) \/ RefreshCheck(r)
           \/ AddToIndex(r) \/ KeepIndex(r) \/ Hand(r)
    PROVE  Calm
<1>1. CASE RefreshUnindex(r)
    BY <1>1, MoveCalm DEF RefreshUnindex, history, At, IInv
<1>2. CASE RefreshCheck(r) /\ row
    BY <1>2, MoveCalm DEF RefreshCheck, MayRefresh, history, At, IInv
<1>3. CASE RefreshCheck(r) /\ ~row
    BY <1>3, EndCalm DEF RefreshCheck, MayRefresh, history
<1>4. CASE AddToIndex(r)
    BY <1>4, MoveCalm DEF AddToIndex, history, At, IInv
<1>5. CASE KeepIndex(r)
    BY <1>5, MoveCalm DEF KeepIndex, history, At, IInv
<1>6. CASE Hand(r)
    BY <1>6, EndCalm DEF Hand
<1> QED
    BY <1>1, <1>2, <1>3, <1>4, <1>5, <1>6

LEMMA LogoutCalm ==
    ASSUME IInv, NEW r \in Request,
           LogoutDelete(r) \/ LogoutUnindex(r) \/ Revoked(r) \/ Crash(r)
    PROVE  Calm
<1>1. CASE LogoutDelete(r)
    BY <1>1, MoveCalm DEF LogoutDelete, history, At, IInv
<1>2. CASE LogoutUnindex(r) \/ Revoked(r) \/ Crash(r)
    BY <1>2, EndCalm DEF LogoutUnindex, Revoked, Crash, history
<1> QED
    BY <1>1, <1>2

LEMMA RevokeCalm ==
    ASSUME IInv, NEW r \in Request,
           ResetCommit(r) \/ RevokeRead(r) \/ RevokeKeys(r) \/ RevokeIndex(r)
    PROVE  Calm
<1>0. req[r] \in Requests
    BY DEF IInv, TypeOK
<1>1. CASE ResetCommit(r)
  <2> DEFINE q == [req[r] EXCEPT !.at = "revoke", !.before = handed]
  <2>1. q \in Requests /\ ~Rotating(q)
      BY <1>0 DEF Requests, Rotating, IInv, TypeOK
  <2>2. req' = [req EXCEPT ![r] = q]
      BY <1>1 DEF ResetCommit
  <2> QED
      BY <1>1, <2>1, <2>2, ReplaceCalm DEF ResetCommit, history, IInv
<1>2. CASE RevokeRead(r)
  <2> DEFINE q == [req[r] EXCEPT !.at = "members", !.read = index]
  <2>1. q \in Requests /\ ~Rotating(q)
      BY <1>0 DEF Requests, Rotating, IInv, TypeOK
  <2>2. req' = [req EXCEPT ![r] = q]
      BY <1>2 DEF RevokeRead
  <2> QED
      BY <1>2, <2>1, <2>2, ReplaceCalm DEF RevokeRead, history, IInv
<1>3. CASE RevokeKeys(r)
    BY <1>3, MoveCalm DEF RevokeKeys, history, At, IInv
<1>4. CASE RevokeIndex(r)
    BY <1>4, MoveCalm DEF RevokeIndex, At, IInv
<1> QED
    BY <1>1, <1>2, <1>3, <1>4

LEMMA TablesCalm ==
    ASSUME \/ \E l \in Link : RequestLink(l) \/ ExpireLink(l)
           \/ \E t \in Token : ExpireKey(t)
           \/ ExpireIndex
           \/ UNCHANGED vars
    PROVE  Calm
BY OtherCalm DEF RequestLink, ExpireLink, ExpireKey, ExpireIndex, vars, history

LEMMA NextOnce == IInv /\ Once /\ [Next]_vars => Once'
<1> SUFFICES ASSUME IInv, Once, [Next]_vars PROVE Once'
    OBVIOUS
<1>1. ASSUME NEW r \in Request, NEW t \in Token, RefreshPop(r, t) \/ StoreKey(r, t)
      PROVE  Once'
    BY <1>1, PopOnce, StoreOnce
<1>2. ASSUME NEW r \in Request,
             \/ Login(r) \/ RefreshUnindex(r) \/ RefreshCheck(r)
             \/ AddToIndex(r) \/ KeepIndex(r) \/ Hand(r)
             \/ LogoutDelete(r) \/ LogoutUnindex(r)
             \/ ResetCommit(r) \/ RemoveCommit(r)
             \/ RevokeRead(r) \/ RevokeKeys(r) \/ RevokeIndex(r) \/ Revoked(r)
             \/ Crash(r)
      PROVE  Calm
    BY <1>2, BeginCalm, RefreshCalm, LogoutCalm, RevokeCalm
<1>3. ASSUME NEW r \in Request,
             \/ \E t \in Token : LogoutGet(r, t)
             \/ \E l \in Link : ResetRead(r, l)
      PROVE  Calm
    BY <1>3, BeginOtherCalm
<1> QED
    BY <1>1, <1>2, <1>3, TablesCalm, CalmOnce DEF Next

\* refresh_tokens.py, pop_refresh_token: a refresh token is exchanged for at
\* most one new token, however many refreshes and logouts present it at the
\* same time.
THEOREM RotatedOnceHolds == Spec => []RotatedOnce
<1>1. IInv /\ Once => RotatedOnce
    BY DEF IInv, TypeOK, Once, RotatedOnce
<1> QED
    BY <1>1, AlwaysIInv, InitOnce, NextOnce, PTL DEF Spec

-----------------------------------------------------------------------------
(* Verification                                                             *)


\* No two requests have swept the links there were and are about to insert.
InsertsApart ==
    \A q, r \in Sender :
      confirming[q].at = "insert" /\ confirming[r].at = "insert" => q = r

\* No two links are live.
OneLive == \A j, k \in Token : mailed[j] = "live" /\ mailed[k] = "live" => j = k

\* A request that is about to insert a link has swept the live ones.
Swept ==
    \A r \in Sender :
      confirming[r].at = "insert" => Mail!Is("live") \subseteq confirming[r].swept

\* There are no links before there is a user.
Blank == user = "none" => \A k \in Token : mailed[k] = "none"

\* A user who is not verified and has spent a link has one that is not spent.
Followed ==
    user = "unverified" /\ (\E k \in Token : mailed[k] = "used")
      => \E k \in Token : mailed[k] \in {"live", "expired"}

MailInv == Mail!TypeOK /\ OneLive /\ Swept /\ Blank /\ Followed

-----------------------------------------------------------------------------
\* What a request holds.
MailHeld == [at: {"idle", "issue"}] \cup [at: {"insert"}, swept: SUBSET Token]
              \cup [at: {"verify"}, link: Token]

\* The fields of what a request holds, and the records the steps build.
LEMMA MailHeldFields ==
    /\ \A h \in MailHeld : /\ h.at \in {"idle", "issue", "insert", "verify"}
                           /\ h.at = "insert" => h.swept \in SUBSET Token
                           /\ h.at = "verify" => h.link \in Token
    /\ [at |-> "idle"] \in MailHeld /\ [at |-> "issue"] \in MailHeld
    /\ \A S \in SUBSET Token : [at |-> "insert", swept |-> S] \in MailHeld
    /\ \A k \in Token : [at |-> "verify", link |-> k] \in MailHeld
BY DEF MailHeld

\* The initial state satisfies the invariant.
LEMMA MailInitHolds == ASSUME Mail!Init PROVE MailInv
<1>1. Mail!TypeOK
  BY DEF Mail!Init, Mail!TypeOK
<1>2. OneLive /\ Blank /\ Followed
  BY DEF Mail!Init, OneLive, Blank, Followed
<1>3. Swept
  BY DEF Mail!Init, Swept
<1> QED
  BY <1>1, <1>2, <1>3 DEF MailInv

\* A step that leaves user and links alone keeps the invariant if what the
\* request takes along fits.
LEMMA MailGotoKeeps ==
    ASSUME MailInv, NEW r \in Sender, NEW h \in MailHeld, Mail!Goto(r, h), UNCHANGED <<user, mailed>>,
           h.at = "insert" => Mail!Is("live") \subseteq h.swept
    PROVE  MailInv'
<1>1. confirming'[r] = h /\ \A q \in Sender : q # r => confirming'[q] = confirming[q]
  BY DEF Mail!Goto, MailInv, Mail!TypeOK
<1>2. Mail!TypeOK'
  BY DEF MailInv, Mail!TypeOK, Mail!Goto, MailHeld
<1>3. OneLive' /\ Blank' /\ Followed'
  BY DEF MailInv, OneLive, Blank, Followed
<1>4. Mail!Is("live")' = Mail!Is("live")
  BY DEF Mail!Is
<1>5. Swept'
  BY <1>1, <1>4 DEF MailInv, Swept
<1> QED
  BY <1>2, <1>3, <1>5 DEF MailInv

\* A step that makes no link live keeps what requests have swept.
LEMMA SweptStays ==
    ASSUME MailInv, NEW r \in Sender,
           \A q \in Sender : q # r => confirming'[q] = confirming[q],
           confirming'[r] = confirming[r] \/ confirming'[r].at \in {"idle", "verify"},
           \A k \in Token : mailed'[k] = "live" => mailed[k] = "live"
    PROVE  Swept'
<1>1. Mail!Is("live")' \subseteq Mail!Is("live")
  BY DEF Mail!Is
<1> QED
  BY <1>1 DEF MailInv, Swept

-----------------------------------------------------------------------------
\* The steps that only take something along.
LEMMA MailGotoSteps ==
    ASSUME MailInv, NEW r \in Sender,
           Mail!Resend(r) \/ Mail!Invalidate(r) \/ Mail!VerifyRead(r) \/ Mail!Crash(r)
    PROVE  MailInv'
<1>1. CASE Mail!Resend(r)
  BY <1>1, MailGotoKeeps, MailHeldFields DEF Mail!Resend
<1>2. CASE Mail!Invalidate(r)
  <2>1. Mail!Unused \in SUBSET Token /\ Mail!Is("live") \subseteq Mail!Unused
    BY DEF Mail!Unused, Mail!Is
  <2> QED
    BY <1>2, <2>1, MailGotoKeeps, MailHeldFields DEF Mail!Invalidate
<1>3. CASE Mail!VerifyRead(r)
  <2>1. PICK k \in Token : Mail!Goto(r, [at |-> "verify", link |-> k])
    BY <1>3 DEF Mail!VerifyRead, Mail!Is
  <2> QED
    BY <1>3, <2>1, MailGotoKeeps, MailHeldFields DEF Mail!VerifyRead
<1>4. CASE Mail!Crash(r)
  BY <1>4, MailGotoKeeps, MailHeldFields DEF Mail!Crash
<1> QED
  BY <1>1, <1>2, <1>3, <1>4

\* The two ways to sign up.
LEMMA MailSignupKeeps ==
    ASSUME MailInv, NEW r \in Sender, Mail!Signup(r) \/ Mail!SignupInvited(r) PROVE MailInv'
<1>1. \A k \in Token : mailed'[k] = "none"
  BY DEF Mail!Signup, Mail!SignupInvited, MailInv, Blank
<1>2. OneLive' /\ Blank' /\ Followed'
  BY <1>1 DEF OneLive, Blank, Followed
<1>3. CASE Mail!Signup(r)
  <2>1. confirming'[r] = [at |-> "issue"] /\ \A q \in Sender : q # r => confirming'[q] = confirming[q]
    BY <1>3 DEF Mail!Signup, Mail!Goto, MailInv, Mail!TypeOK
  <2>2. Mail!TypeOK'
    BY <1>3 DEF Mail!Signup, Mail!Goto, MailInv, Mail!TypeOK
  <2>3. Mail!Is("live")' = {}
    BY <1>1 DEF Mail!Is
  <2>4. Swept'
    BY <1>3, <2>1, <2>3 DEF Mail!Signup, MailInv, Swept
  <2> QED
    BY <1>2, <2>2, <2>4 DEF MailInv
<1>4. CASE Mail!SignupInvited(r)
  <2>1. Mail!TypeOK'
    BY <1>4 DEF Mail!SignupInvited, MailInv, Mail!TypeOK
  <2>2. Swept'
    BY <1>4, SweptStays DEF Mail!SignupInvited
  <2> QED
    BY <1>2, <2>1, <2>2 DEF MailInv
<1> QED
  BY <1>3, <1>4

\* The commit of a new link: what was live is swept, and nobody else is
\* about to insert another.
LEMMA MailIssueKeeps ==
    ASSUME InsertsApart, MailInv, NEW r \in Sender, Mail!Issue(r) PROVE MailInv'
<1>1. PICK k \in Mail!Is("none") :
         mailed' = [j \in Token |->
           IF j = k THEN "live" ELSE IF j \in confirming[r].swept THEN "used" ELSE mailed[j]]
  BY DEF Mail!Issue
<1>2. k \in Token
  BY DEF Mail!Is
<1>3. confirming' = [confirming EXCEPT ![r] = [at |-> "idle"]] /\ user' = user /\ Mail!Exists
  BY DEF Mail!Issue, Mail!Goto
<1>4. /\ confirming[r].at = "insert"
      /\ \A j \in Token : mailed[j] = "live" => j \in confirming[r].swept
  BY DEF Mail!Issue, MailInv, Swept, Mail!Is
<1>5. \A j \in Token : mailed'[j] = "live" => j = k
  BY <1>1, <1>4
<1>6. mailed'[k] = "live"
  BY <1>1, <1>2
<1>7. Mail!TypeOK'
  <2>1. mailed' \in [Token -> {"none", "live", "expired", "used"}]
    BY <1>1 DEF MailInv, Mail!TypeOK
  <2> QED
    BY <1>3, <2>1 DEF MailInv, Mail!TypeOK
<1>8. OneLive' /\ Followed'
  BY <1>2, <1>5, <1>6 DEF OneLive, Followed
<1>9. Blank'
  BY <1>3 DEF Mail!Exists, Blank
<1>10. Swept'
  <2>1. \A q \in Sender \ {r} : confirming[q].at # "insert"
    BY <1>4 DEF InsertsApart
  <2>2. \A q \in Sender : confirming'[q].at # "insert"
    BY <1>3, <2>1 DEF MailInv, Mail!TypeOK
  <2> QED
    BY <2>2 DEF Swept
<1> QED
  BY <1>7, <1>8, <1>9, <1>10 DEF MailInv

\* The commit of a confirmation: the user is verified.
LEMMA MailVerifyKeeps == ASSUME MailInv, NEW r \in Sender, Mail!VerifyCommit(r) PROVE MailInv'
<1>1. /\ confirming'[r] = [at |-> "idle"]
      /\ \A q \in Sender : q # r => confirming'[q] = confirming[q]
  BY DEF Mail!VerifyCommit, Mail!Goto, MailInv, Mail!TypeOK
<1>2. \A k \in Token : mailed'[k] = "used" \/ mailed'[k] = mailed[k]
  BY DEF Mail!VerifyCommit, MailInv, Mail!TypeOK
<1>3. Mail!TypeOK'
  BY <1>1 DEF Mail!VerifyCommit, Mail!Goto, MailInv, Mail!TypeOK
<1>4. OneLive'
  BY <1>2 DEF MailInv, OneLive
<1>5. Blank' /\ Followed'
  BY DEF Mail!VerifyCommit, Blank, Followed
<1>6. Swept'
  BY <1>1, <1>2, SweptStays
<1> QED
  BY <1>3, <1>4, <1>5, <1>6 DEF MailInv

\* The removal of the user.
LEMMA MailRemoveKeeps == ASSUME MailInv, Mail!RemoveUser PROVE MailInv'
<1>1. \A k \in Token : mailed'[k] \in {"none", "used"}
  BY DEF Mail!RemoveUser
<1>2. Mail!TypeOK'
  BY DEF Mail!RemoveUser, MailInv, Mail!TypeOK
<1>3. OneLive' /\ Blank' /\ Followed'
  BY <1>1 DEF Mail!RemoveUser, OneLive, Blank, Followed
<1>4. Mail!Is("live")' = {}
  BY <1>1 DEF Mail!Is
<1>5. Swept'
  BY <1>4 DEF Mail!RemoveUser, MailInv, Swept
<1> QED
  BY <1>2, <1>3, <1>5 DEF MailInv

\* The expiry of a link: it is still not spent.
LEMMA MailExpireKeeps == ASSUME MailInv, NEW k \in Token, Mail!Expire(k) PROVE MailInv'
<1>1. mailed'[k] = "expired" /\ \A j \in Token : j # k => mailed'[j] = mailed[j]
  BY DEF Mail!Expire, MailInv, Mail!TypeOK
<1>2. Mail!TypeOK'
  BY DEF Mail!Expire, MailInv, Mail!TypeOK
<1>3. OneLive' /\ Blank' /\ Followed'
  BY <1>1 DEF Mail!Expire, MailInv, OneLive, Blank, Followed
<1>4. Mail!Is("live")' \subseteq Mail!Is("live")
  BY <1>1 DEF Mail!Is
<1>5. Swept'
  BY <1>4 DEF Mail!Expire, MailInv, Swept
<1> QED
  BY <1>2, <1>3, <1>5 DEF MailInv

\* Every step keeps the invariant.
LEMMA MailNextKeeps == ASSUME InsertsApart, MailInv, [Mail!Next]_Mail!vars PROVE MailInv'
<1>1. CASE Mail!Next
  BY <1>1, MailGotoSteps, MailSignupKeeps, MailIssueKeeps, MailVerifyKeeps, MailRemoveKeeps, MailExpireKeeps DEF Mail!Next
<1>2. CASE UNCHANGED Mail!vars
  BY <1>2 DEF Mail!vars, MailInv, Mail!TypeOK, OneLive, Swept, Blank, Followed, Mail!Is
<1> QED
  BY <1>1, <1>2

\* The invariant says what LinksSound says.
LEMMA MailInvSound == ASSUME MailInv PROVE Mail!LinksSound
<1>1. Mail!OneLiveLink
  BY DEF MailInv, OneLive, Mail!OneLiveLink, Mail!Is
<1>2. Mail!NeverStranded
  BY DEF MailInv, Followed, Mail!NeverStranded, Mail!Unused, Mail!Is
<1> QED
  BY <1>1, <1>2 DEF Mail!LinksSound

-----------------------------------------------------------------------------
(* Rooms                                                                    *)

\* The last moments of a token and of a ticket after a removal.
TokenDue == GrantTime + TokenLife
TicketDue == TokenDue + AskTime + TicketLife

\* A redeemed ticket stays redeemed.
TicketSpent ==
    \A s \in Socket : Room!Shaking(s) \/ Room!Open(s) => ticket[socket[s].ticket].at = "gone"

\* A login past its read was there at the removal. What is left of each right
\* of a removed user follows from the one before it.
GrantEnds == removed # None => \A l \in Grant : Room!Issuing(l) => removed <= login[l].age
TokenEnds == removed # None /\ token > 0 => removed + token <= TokenDue
AskEnds ==
    removed # None => \A k \in Request : Room!Asked(k) => removed <= TokenDue + ticket[k].age
TicketEnds ==
    removed # None => \A k \in Request : Room!Stored(k) => removed + ticket[k].left <= TicketDue
ShakeEnds ==
    removed # None => \A s \in Socket : Room!Shaking(s) => removed <= TicketDue + socket[s].age
RoomEnds ==
    removed # None => \A s \in Socket : Room!Open(s) => removed + socket[s].left <= Room!LastWord

\* The same for a deleted project: only a handshake past its check goes on.
AcceptEnds ==
    hidden # None =>
      \A s \in Socket : socket[s].at = "accept" /\ socket[s].room = "project"
                          => hidden <= socket[s].age
ProjectEnds ==
    hidden # None =>
      \A s \in Socket : Room!Open(s) /\ socket[s].room = "project"
                          => hidden + socket[s].left <= Room!RoomEnd

RoomInv ==
    /\ Room!TypeOK
    /\ TicketSpent /\ Room!OneHandshakePerTicket
    /\ GrantEnds /\ TokenEnds /\ AskEnds /\ TicketEnds /\ ShakeEnds /\ RoomEnds
    /\ AcceptEnds /\ ProjectEnds

-----------------------------------------------------------------------------
(* What a connection holds at each step, and what the times are.            *)

LEMMA RoomTimes ==
    ASSUME Room!LifetimesOK
    PROVE  /\ TokenLife \in Nat /\ TokenLife > 0
           /\ TicketLife \in Nat /\ TicketLife > 0
           /\ GrantTime \in Nat /\ AskTime \in Nat /\ HandshakeTime \in Nat
           /\ TokenDue \in Nat /\ TokenDue = GrantTime + TokenLife
           /\ TicketDue \in Nat /\ TicketDue = TokenDue + AskTime + TicketLife
           /\ Room!RoomEnd \in Nat /\ Room!LastWord \in Nat
           /\ Room!LastWord = TicketDue + HandshakeTime + TokenLife
           /\ Room!RoomEnd <= Room!LastWord
BY DEF Room!LifetimesOK, TokenDue, TicketDue, Room!RoomEnd, Room!LastWord

LEMMA SocketHolds ==
    ASSUME Room!LifetimesOK, Room!TypeOK, NEW s \in Socket
    PROVE  /\ socket[s] \in Room!Connection
           /\ Room!Shaking(s) => /\ socket[s].age \in 0 .. HandshakeTime
                                 /\ socket[s].trust \in 0 .. TokenLife
                                 /\ socket[s].room \in Room!Room /\ socket[s].ticket \in Request
           /\ Room!Open(s) => /\ socket[s].left \in 0 .. TokenLife
                              /\ socket[s].trust \in 0 .. TokenLife
                              /\ socket[s].room \in Room!Room /\ socket[s].ticket \in Request
BY DEF Room!TypeOK, Room!Connection, Room!Shaking, Room!Open

LEMMA TicketHolds ==
    ASSUME Room!LifetimesOK, Room!TypeOK, NEW k \in Request
    PROVE  /\ Room!Stored(k) => /\ ticket[k].left \in 1 .. TicketLife
                                /\ ticket[k].trust \in 0 .. TokenLife
           /\ Room!Asked(k) => /\ ticket[k].age \in 0 .. AskTime
                               /\ ticket[k].trust \in 0 .. TokenLife
BY DEF Room!TypeOK, Room!Key, Room!Stored, Room!Asked

LEMMA GrantHolds ==
    ASSUME Room!LifetimesOK, Room!TypeOK, NEW l \in Grant, Room!Issuing(l)
    PROVE  login[l].at = "issue" /\ login[l].age \in 0 .. GrantTime
BY DEF Room!TypeOK, Room!Issuing, Room!Idle

\* The initial state satisfies the invariant.
LEMMA RoomInitHolds == ASSUME Room!LifetimesOK, Room!Init PROVE RoomInv
<1>1. Room!TypeOK
  BY RoomTimes DEF Room!Init, Room!TypeOK, Room!Key, Room!Connection
<1>2. \A s \in Socket : ~Room!Shaking(s) /\ ~Room!Open(s)
  BY DEF Room!Init, Room!Shaking, Room!Open
<1> QED
  BY <1>1, <1>2
  DEF Room!Init, RoomInv, TicketSpent, Room!OneHandshakePerTicket, GrantEnds, TokenEnds, AskEnds,
      TicketEnds, ShakeEnds, RoomEnds, AcceptEnds, ProjectEnds, Room!Shaking

\* A login or a refresh: only the read needs the user, and the token follows
\* within its time.
LEMMA GrantKeeps ==
    ASSUME Room!LifetimesOK, RoomInv, NEW l \in Grant,
           Room!AuthRead(l) \/ Room!AuthIssue(l) \/ Room!AuthFail(l)
    PROVE  RoomInv'
<1> USE RoomTimes
<1>1. UNCHANGED <<removed, hidden, ticket, socket>>
  BY DEF Room!AuthRead, Room!AuthIssue, Room!AuthFail
<1>2. Room!TypeOK'
  BY DEF RoomInv, Room!TypeOK, Room!AuthRead, Room!AuthIssue, Room!AuthFail
<1>3. \A m \in Grant :
        Room!Issuing(m)' => removed = None \/ (Room!Issuing(m) /\ login'[m] = login[m])
  BY DEF RoomInv, Room!TypeOK, Room!AuthRead, Room!AuthIssue, Room!AuthFail, Room!Issuing, Room!Idle
<1>4. GrantEnds'
  BY <1>1, <1>3 DEF RoomInv, GrantEnds
<1>5. TokenEnds'
  <2>1. CASE Room!AuthIssue(l)
    <3>1. Room!Issuing(l) /\ token' = TokenLife /\ removed' = removed
      BY <2>1 DEF Room!AuthIssue
    <3>2. removed # None => removed <= GrantTime
      BY <3>1, GrantHolds DEF RoomInv, Room!TypeOK, GrantEnds
    <3> QED
      BY <3>1, <3>2 DEF RoomInv, Room!TypeOK, TokenEnds
  <2>2. CASE token' = token
    BY <1>1, <2>2 DEF RoomInv, TokenEnds
  <2> QED
    BY <2>1, <2>2 DEF Room!AuthRead, Room!AuthFail
<1> QED
  BY <1>1, <1>2, <1>4, <1>5
  DEF RoomInv, TicketSpent, Room!OneHandshakePerTicket, AskEnds, TicketEnds, ShakeEnds,
      RoomEnds, AcceptEnds, ProjectEnds, Room!Shaking, Room!Open, Room!Stored, Room!Asked

LEMMA RemoveUserKeeps == ASSUME Room!LifetimesOK, RoomInv, Room!RemoveUser PROVE RoomInv'
<1> USE RoomTimes
<1>1. Room!TypeOK'
  BY DEF RoomInv, Room!TypeOK, Room!RemoveUser
<1>2. TokenEnds'
  BY DEF RoomInv, Room!TypeOK, Room!RemoveUser, TokenEnds
<1>3. TicketEnds' /\ AskEnds'
  BY TicketHolds DEF RoomInv, Room!RemoveUser, TicketEnds, AskEnds, Room!Stored, Room!Asked
<1>5. GrantEnds'
  BY GrantHolds DEF RoomInv, Room!RemoveUser, GrantEnds, Room!Issuing
<1>4. ShakeEnds' /\ RoomEnds'
  BY SocketHolds DEF RoomInv, Room!RemoveUser, ShakeEnds, RoomEnds, Room!Shaking, Room!Open
<1> QED
  BY <1>1, <1>2, <1>3, <1>4, <1>5
  DEF RoomInv, Room!RemoveUser, TicketSpent, Room!OneHandshakePerTicket, AcceptEnds, ProjectEnds,
      Room!Shaking, Room!Open

LEMMA ProjectFlagKeeps ==
    ASSUME Room!LifetimesOK, RoomInv, Room!DeleteProject \/ Room!RestoreProject PROVE RoomInv'
<1> USE RoomTimes
<1>1. Room!TypeOK'
  BY DEF RoomInv, Room!TypeOK, Room!DeleteProject, Room!RestoreProject
<1>2. AcceptEnds' /\ ProjectEnds'
  BY SocketHolds
  DEF RoomInv, Room!DeleteProject, Room!RestoreProject, AcceptEnds, ProjectEnds, Room!Shaking, Room!Open, Room!RoomEnd
<1> QED
  BY <1>1, <1>2
  DEF RoomInv, Room!DeleteProject, Room!RestoreProject, TicketSpent, Room!OneHandshakePerTicket,
      GrantEnds, TokenEnds, AskEnds, TicketEnds, ShakeEnds, RoomEnds,
      Room!Shaking, Room!Open, Room!Stored, Room!Asked, Room!Issuing

-----------------------------------------------------------------------------
(* A step of one ticket or one socket.                                      *)

\* A request for a ticket: only its start needs the token, and the ticket
\* follows within its time.
LEMMA TicketKeeps ==
    ASSUME Room!LifetimesOK, RoomInv, NEW k \in Request,
           Room!AskTicket(k) \/ Room!StoreTicket(k) \/ Room!AskFail(k)
    PROVE  RoomInv'
<1> USE RoomTimes
<1>1. UNCHANGED <<login, token, removed, hidden, socket>>
  BY DEF Room!AskTicket, Room!StoreTicket, Room!AskFail
<1>2. \A j \in Request : j # k => ticket'[j] = ticket[j]
  BY DEF RoomInv, Room!TypeOK, Room!AskTicket, Room!StoreTicket, Room!AskFail
<1>3. ticket[k].at # "gone"
  BY DEF Room!AskTicket, Room!StoreTicket, Room!AskFail, Room!Asked
<1>4. \/ /\ token > 0 /\ ~Room!Stored(k)'
         /\ ticket'[k] = [at |-> "asked", age |-> 0, trust |-> token]
      \/ /\ Room!Asked(k) /\ ~Room!Asked(k)'
         /\ ticket'[k] = [at |-> "stored", left |-> TicketLife, trust |-> ticket[k].trust]
      \/ ticket'[k] = [at |-> "gone"]
  BY DEF RoomInv, Room!TypeOK, Room!AskTicket, Room!StoreTicket, Room!AskFail, Room!Asked, Room!Stored
<1>5. Room!TypeOK'
  <2>1. ticket'[k] \in Room!Key
    BY <1>4, TicketHolds DEF RoomInv, Room!TypeOK, Room!Key
  <2>2. ticket' = [ticket EXCEPT ![k] = ticket'[k]]
    BY DEF RoomInv, Room!TypeOK, Room!AskTicket, Room!StoreTicket, Room!AskFail
  <2>3. ticket' \in [Request -> Room!Key]
    BY <2>1, <2>2 DEF RoomInv, Room!TypeOK
  <2> QED
    BY <1>1, <2>3 DEF RoomInv, Room!TypeOK
<1>6. TicketSpent'
  BY <1>1, <1>2, <1>3, SocketHolds DEF RoomInv, TicketSpent, Room!Shaking, Room!Open
<1>7. AskEnds'
  <2>1. Room!Asked(k)' /\ removed # None => removed <= TokenDue + ticket'[k].age
    BY <1>4 DEF RoomInv, Room!TypeOK, TokenEnds, Room!Asked
  <2> QED
    BY <1>1, <1>2, <2>1 DEF RoomInv, AskEnds, Room!Asked
<1>8. TicketEnds'
  <2>1. Room!Stored(k)' /\ removed # None => removed + ticket'[k].left <= TicketDue
    BY <1>4, TicketHolds DEF RoomInv, Room!TypeOK, AskEnds, Room!Stored
  <2> QED
    BY <1>1, <1>2, <2>1 DEF RoomInv, TicketEnds, Room!Stored
<1> QED
  BY <1>1, <1>5, <1>6, <1>7, <1>8
  DEF RoomInv, Room!OneHandshakePerTicket, GrantEnds, TokenEnds, ShakeEnds, RoomEnds,
      AcceptEnds, ProjectEnds, Room!Shaking, Room!Open, Room!Issuing

\* The connection of a socket that begins its handshake.
LEMMA RedeemKeeps ==
    ASSUME Room!LifetimesOK, RoomInv,
           NEW s \in Socket, NEW k \in Request, NEW room \in Room!Room, Room!Redeem(s, k, room)
    PROVE  RoomInv'
<1> USE RoomTimes
<1> DEFINE new == [at |-> IF room = "project" THEN "check" ELSE "accept", room |-> room,
                   ticket |-> k, age |-> 0, trust |-> ticket[k].trust]
<1>1. /\ socket' = [socket EXCEPT ![s] = new]
      /\ ticket' = [ticket EXCEPT ![k] = [at |-> "gone"]]
      /\ Room!Stored(k) /\ UNCHANGED <<login, token, removed, hidden>>
  BY DEF Room!Redeem
<1>2. /\ ticket[k].left \in 1 .. TicketLife
      /\ ticket[k].trust \in 0 .. TokenLife
  BY <1>1, TicketHolds DEF RoomInv
<1>3. new \in Room!Connection
  BY <1>2 DEF Room!Connection
<1>4. /\ socket'[s] = new /\ \A q \in Socket : q # s => socket'[q] = socket[q]
      /\ ticket'[k] = [at |-> "gone"]
      /\ \A j \in Request : j # k => ticket'[j] = ticket[j]
  BY <1>1 DEF RoomInv, Room!TypeOK
<1>5. Room!TypeOK'
  BY <1>1, <1>3 DEF RoomInv, Room!TypeOK, Room!Key
<1>6. \A q \in Socket : Room!Shaking(q) \/ Room!Open(q) => socket[q].ticket # k
  BY <1>1 DEF RoomInv, TicketSpent, Room!Stored
<1>7. TicketSpent' /\ Room!OneHandshakePerTicket'
  BY <1>4, <1>6, SocketHolds DEF RoomInv, TicketSpent, Room!OneHandshakePerTicket, Room!Shaking, Room!Open
<1>8. TicketEnds' /\ AskEnds'
  BY <1>1, <1>4 DEF RoomInv, TicketEnds, AskEnds, Room!Stored, Room!Asked
<1>9. removed # None => removed <= TicketDue
  BY <1>1, <1>2 DEF RoomInv, Room!TypeOK, TicketEnds, Room!Stored
<1>10. ShakeEnds' /\ RoomEnds'
  BY <1>1, <1>4, <1>9 DEF RoomInv, ShakeEnds, RoomEnds, Room!Shaking, Room!Open
<1>11. AcceptEnds' /\ ProjectEnds'
  BY <1>1, <1>4 DEF RoomInv, AcceptEnds, ProjectEnds, Room!Open
<1>12. TokenEnds' /\ GrantEnds'
  BY <1>1 DEF RoomInv, TokenEnds, GrantEnds, Room!Issuing
<1> QED
  BY <1>5, <1>7, <1>8, <1>10, <1>11, <1>12 DEF RoomInv

\* The steps that only change one socket: what it may become.
Closes(s) == socket'[s] = [at |-> "closed"]
Passes(s) ==
    /\ socket[s].at = "check" /\ hidden = None
    /\ socket'[s] = [socket[s] EXCEPT !.at = "accept"]
Opens(s) ==
    /\ socket[s].at = "accept"
    /\ socket'[s] = [at |-> "open", room |-> socket[s].room, ticket |-> socket[s].ticket,
                     left |-> TokenLife, trust |-> socket[s].trust]

LEMMA OneSocketKeeps ==
    ASSUME Room!LifetimesOK, RoomInv, NEW s \in Socket,
           Room!CheckProject(s) \/ Room!Accept(s) \/ Room!Expire(s) \/ Room!Disconnect(s)
    PROVE  RoomInv'
<1> USE RoomTimes
<1>1. /\ Closes(s) \/ Passes(s) \/ Opens(s)
      /\ \A q \in Socket : q # s => socket'[q] = socket[q]
      /\ DOMAIN socket' = Socket /\ socket' = [q \in Socket |-> socket'[q]]
      /\ UNCHANGED <<login, token, removed, hidden, ticket>>
  BY DEF RoomInv, Room!TypeOK, Room!CheckProject, Room!Accept, Room!Expire, Room!Disconnect, Closes, Passes, Opens
<1>2. socket[s] \in Room!Connection
  BY DEF RoomInv, Room!TypeOK
<1>3. socket'[s] \in Room!Connection
  BY <1>1, <1>2 DEF Closes, Passes, Opens, Room!Connection
<1>4. Room!TypeOK'
  BY <1>1, <1>3 DEF RoomInv, Room!TypeOK
<1>5. /\ Room!Shaking(s)' => Room!Shaking(s) /\ socket'[s].age = socket[s].age
      /\ Room!Open(s)' => socket[s].at = "accept" /\ socket'[s].left = TokenLife
      /\ Room!Shaking(s)' \/ Room!Open(s)' => /\ Room!Shaking(s)
                                              /\ socket'[s].room = socket[s].room
                                              /\ socket'[s].ticket = socket[s].ticket
      /\ socket'[s].at = "accept" => hidden = None
  BY <1>1, <1>2 DEF Closes, Passes, Opens, Room!Shaking, Room!Open, Room!Connection
<1>6. \A q \in Socket \ {s} : /\ Room!Shaking(q)' = Room!Shaking(q)
                              /\ Room!Open(q)' = Room!Open(q)
  BY <1>1 DEF Room!Shaking, Room!Open
<1>7. TicketSpent' /\ Room!OneHandshakePerTicket'
  BY <1>1, <1>5, <1>6 DEF RoomInv, TicketSpent, Room!OneHandshakePerTicket
<1>8. ShakeEnds'
  BY <1>1, <1>5, <1>6 DEF RoomInv, ShakeEnds
<1>9. RoomEnds'
  BY <1>1, <1>5, <1>6, SocketHolds DEF RoomInv, Room!TypeOK, ShakeEnds, RoomEnds
<1>10. AcceptEnds'
  BY <1>1, <1>5 DEF RoomInv, AcceptEnds
<1>11. ProjectEnds'
  BY <1>1, <1>5, <1>6, SocketHolds DEF RoomInv, Room!TypeOK, AcceptEnds, ProjectEnds, Room!RoomEnd
<1>12. GrantEnds' /\ TokenEnds' /\ AskEnds' /\ TicketEnds'
  BY <1>1 DEF RoomInv, GrantEnds, TokenEnds, AskEnds, TicketEnds, Room!Stored, Room!Asked, Room!Issuing
<1> QED
  BY <1>4, <1>7, <1>8, <1>9, <1>10, <1>11, <1>12 DEF RoomInv

-----------------------------------------------------------------------------
(* The passing of time.                                                     *)

\* What one unit takes from each clock.
LEMMA TickMoves ==
    ASSUME Room!LifetimesOK, RoomInv, Room!Tick
    PROVE  /\ token' = Room!Less(token)
           /\ removed' = Room!Older(removed) /\ hidden' = Room!Older(hidden)
           /\ \A l \in Grant : Room!Issuing(l)' => Room!Issuing(l) /\ login'[l].age = login[l].age + 1
           /\ \A k \in Request : Room!Asked(k)' => Room!Asked(k) /\ ticket'[k].age = ticket[k].age + 1
           /\ \A k \in Request : Room!Stored(k)' => Room!Stored(k) /\ ticket'[k].left = ticket[k].left - 1
           /\ \A k \in Request : ticket[k].at = "gone" => ticket'[k].at = "gone"
           /\ \A s \in Socket :
                /\ socket'[s].at = socket[s].at
                /\ Room!Shaking(s)' = Room!Shaking(s) /\ Room!Open(s)' = Room!Open(s)
                /\ Room!Shaking(s) => socket'[s].age = socket[s].age + 1
                /\ Room!Open(s) => socket'[s].left = socket[s].left - 1
                /\ Room!Shaking(s) \/ Room!Open(s) => /\ socket'[s].room = socket[s].room
                                                      /\ socket'[s].ticket = socket[s].ticket
<1> USE RoomTimes
<1>1. /\ token' = Room!Less(token)
      /\ removed' = Room!Older(removed) /\ hidden' = Room!Older(hidden)
  BY DEF Room!Tick
<1>2. ASSUME NEW k \in Request
      PROVE  /\ Room!Asked(k)' => Room!Asked(k) /\ ticket'[k].age = ticket[k].age + 1
             /\ Room!Stored(k)' => Room!Stored(k) /\ ticket'[k].left = ticket[k].left - 1
             /\ ticket[k].at = "gone" => ticket'[k].at = "gone"
  <2>1. ticket[k] \in Room!Key
    BY DEF RoomInv, Room!TypeOK
  <2>2. ticket'[k] = IF Room!Asked(k) THEN [Room!Wane(ticket[k]) EXCEPT !.age = @ + 1]
                     ELSE IF ~Room!Stored(k) THEN ticket[k]
                     ELSE IF ticket[k].left = 1 THEN [at |-> "gone"]
                     ELSE [Room!Wane(ticket[k]) EXCEPT !.left = @ - 1]
    BY DEF Room!Tick
  <2> QED
    BY <2>1, <2>2 DEF Room!Stored, Room!Asked, Room!Key, Room!Wane
<1>4. ASSUME NEW l \in Grant
      PROVE  Room!Issuing(l)' => Room!Issuing(l) /\ login'[l].age = login[l].age + 1
  <2>1. Room!Issuing(l) => "age" \in DOMAIN login[l]
    BY DEF RoomInv, Room!TypeOK, Room!Issuing, Room!Idle
  <2>2. login'[l] = IF Room!Issuing(l) THEN [login[l] EXCEPT !.age = @ + 1] ELSE login[l]
    BY DEF Room!Tick
  <2> QED
    BY <2>1, <2>2 DEF Room!Issuing
<1>3. ASSUME NEW s \in Socket
      PROVE  /\ socket'[s].at = socket[s].at
             /\ Room!Shaking(s)' = Room!Shaking(s) /\ Room!Open(s)' = Room!Open(s)
             /\ Room!Shaking(s) => socket'[s].age = socket[s].age + 1
             /\ Room!Open(s) => socket'[s].left = socket[s].left - 1
             /\ Room!Shaking(s) \/ Room!Open(s) => /\ socket'[s].room = socket[s].room
                                                   /\ socket'[s].ticket = socket[s].ticket
  <2>1. socket[s] \in Room!Connection
    BY DEF RoomInv, Room!TypeOK
  <2>2. socket'[s] =
          IF Room!Open(s) THEN [Room!Wane(socket[s]) EXCEPT !.left = @ - 1]
          ELSE IF Room!Shaking(s) THEN [Room!Wane(socket[s]) EXCEPT !.age = @ + 1]
          ELSE socket[s]
    BY DEF Room!Tick
  <2> QED
    BY <2>1, <2>2 DEF Room!Shaking, Room!Open, Room!Connection, Room!Wane
<1> QED
  BY <1>1, <1>2, <1>3, <1>4

\* Time passes within the types: no clock goes past its end.
LEMMA TickTypes == ASSUME Room!LifetimesOK, RoomInv, Room!Tick PROVE Room!TypeOK'
<1> USE RoomTimes
<1>1. token' \in 0 .. TokenLife
  BY TickMoves DEF RoomInv, Room!TypeOK, Room!Less
<1>2. removed' \in Nat \cup {None} /\ hidden' \in Nat \cup {None}
  BY TickMoves DEF RoomInv, Room!TypeOK, Room!Older
<1>3. ticket' \in [Request -> Room!Key]
  <2> SUFFICES ASSUME NEW k \in Request
               PROVE  (IF Room!Asked(k) THEN [Room!Wane(ticket[k]) EXCEPT !.age = @ + 1]
                       ELSE IF ~Room!Stored(k) THEN ticket[k]
                       ELSE IF ticket[k].left = 1 THEN [at |-> "gone"]
                       ELSE [Room!Wane(ticket[k]) EXCEPT !.left = @ - 1]) \in Room!Key
    BY DEF Room!Tick
  <2>1. ticket[k] \in Room!Key
    BY DEF RoomInv, Room!TypeOK
  <2>3. CASE Room!Asked(k)
    <3>1. ticket[k].age < AskTime
      BY <2>3 DEF Room!Tick
    <3>2. PICK a \in 0 .. AskTime, u \in 0 .. TokenLife :
             ticket[k] = [at |-> "asked", age |-> a, trust |-> u]
      BY <2>1, <2>3 DEF Room!Asked, Room!Key
    <3>3. a + 1 \in 0 .. AskTime /\ Room!Less(u) \in 0 .. TokenLife
      BY <3>1, <3>2 DEF Room!Less
    <3> DEFINE aged == Room!Wane(ticket[k])
    <3>0. aged = [at |-> "asked", age |-> a, trust |-> Room!Less(u)]
      BY <3>2 DEF Room!Wane
    <3> HIDE DEF aged
    <3>4. [aged EXCEPT !.age = @ + 1] = [at |-> "asked", age |-> a + 1, trust |-> Room!Less(u)]
      BY <3>0
    <3>5. \A i \in 0 .. AskTime, j \in 0 .. TokenLife :
            [at |-> "asked", age |-> i, trust |-> j] \in Room!Key
      BY DEF Room!Key
    <3>6. [Room!Wane(ticket[k]) EXCEPT !.age = @ + 1] \in Room!Key
      BY <3>3, <3>4, <3>5 DEF aged
    <3> QED
      BY <2>3, <3>6
  <2>2. CASE Room!Stored(k) /\ ticket[k].left # 1
    <3>1. PICK l \in 1 .. TicketLife, u \in 0 .. TokenLife :
             ticket[k] = [at |-> "stored", left |-> l, trust |-> u]
      BY <2>1, <2>2 DEF Room!Stored, Room!Key
    <3>2. l - 1 \in 1 .. TicketLife /\ Room!Less(u) \in 0 .. TokenLife
      BY <2>2, <3>1 DEF Room!Less
    <3> DEFINE aged == Room!Wane(ticket[k])
    <3>0. aged = [at |-> "stored", left |-> l, trust |-> Room!Less(u)]
      BY <3>1 DEF Room!Wane
    <3> HIDE DEF aged
    <3>3. [aged EXCEPT !.left = @ - 1]
            = [at |-> "stored", left |-> l - 1, trust |-> Room!Less(u)]
      BY <3>0
    <3>4. \A i \in 1 .. TicketLife, j \in 0 .. TokenLife :
            [at |-> "stored", left |-> i, trust |-> j] \in Room!Key
      BY DEF Room!Key
    <3>5. [Room!Wane(ticket[k]) EXCEPT !.left = @ - 1] \in Room!Key
      BY <3>2, <3>3, <3>4 DEF aged
    <3> QED
      BY <2>2, <3>5 DEF Room!Stored, Room!Asked
  <2> QED
    BY <2>1, <2>2, <2>3 DEF Room!Stored, Room!Key
<1>4. socket' \in [Socket -> Room!Connection]
  <2> SUFFICES ASSUME NEW s \in Socket
               PROVE  (IF Room!Open(s) THEN [Room!Wane(socket[s]) EXCEPT !.left = @ - 1]
                       ELSE IF Room!Shaking(s) THEN [Room!Wane(socket[s]) EXCEPT !.age = @ + 1]
                       ELSE socket[s]) \in Room!Connection
    BY DEF Room!Tick
  <2>1. socket[s] \in Room!Connection
    BY DEF RoomInv, Room!TypeOK
  <2>2. CASE Room!Open(s)
    <3>1. socket[s].left > 0
      BY <2>2 DEF Room!Tick
    <3>2. PICK m \in Room!Room, k \in Request, l \in 0 .. TokenLife, u \in 0 .. TokenLife :
             socket[s] = [at |-> "open", room |-> m, ticket |-> k, left |-> l, trust |-> u]
      BY <2>1, <2>2 DEF Room!Open, Room!Connection
    <3>3. l - 1 \in 0 .. TokenLife /\ Room!Less(u) \in 0 .. TokenLife
      BY <3>1, <3>2 DEF Room!Less
    <3> DEFINE aged == Room!Wane(socket[s])
    <3>0. aged = [at |-> "open", room |-> m, ticket |-> k, left |-> l, trust |-> Room!Less(u)]
      BY <3>2 DEF Room!Wane
    <3> HIDE DEF aged
    <3>4. [aged EXCEPT !.left = @ - 1]
            = [at |-> "open", room |-> m, ticket |-> k, left |-> l - 1, trust |-> Room!Less(u)]
      BY <3>0
    <3>5. \A i \in 0 .. TokenLife, j \in 0 .. TokenLife :
            [at |-> "open", room |-> m, ticket |-> k, left |-> i, trust |-> j] \in Room!Connection
      BY DEF Room!Connection
    <3>6. [Room!Wane(socket[s]) EXCEPT !.left = @ - 1] \in Room!Connection
      BY <3>3, <3>4, <3>5 DEF aged
    <3> QED
      BY <2>2, <3>6
  <2>3. CASE Room!Shaking(s) /\ ~Room!Open(s)
    <3>1. socket[s].age < HandshakeTime
      BY <2>3 DEF Room!Tick
    <3>2. PICK w \in {"check", "accept"}, m \in Room!Room, k \in Request,
               a \in 0 .. HandshakeTime, u \in 0 .. TokenLife :
             socket[s] = [at |-> w, room |-> m, ticket |-> k, age |-> a, trust |-> u]
      BY <2>1, <2>3 DEF Room!Shaking, Room!Connection
    <3>3. a + 1 \in 0 .. HandshakeTime /\ Room!Less(u) \in 0 .. TokenLife
      BY <3>1, <3>2 DEF Room!Less
    <3> DEFINE aged == Room!Wane(socket[s])
    <3>0. aged = [at |-> w, room |-> m, ticket |-> k, age |-> a, trust |-> Room!Less(u)]
      BY <3>2 DEF Room!Wane
    <3> HIDE DEF aged
    <3>4. [aged EXCEPT !.age = @ + 1]
            = [at |-> w, room |-> m, ticket |-> k, age |-> a + 1, trust |-> Room!Less(u)]
      BY <3>0
    <3>5. \A i \in 0 .. HandshakeTime, j \in 0 .. TokenLife :
            [at |-> w, room |-> m, ticket |-> k, age |-> i, trust |-> j] \in Room!Connection
      BY DEF Room!Connection
    <3>6. [Room!Wane(socket[s]) EXCEPT !.age = @ + 1] \in Room!Connection
      BY <3>3, <3>4, <3>5 DEF aged
    <3> QED
      BY <2>3, <3>6
  <2> QED
    BY <2>1, <2>2, <2>3
<1>5. login' \in [Grant -> {Room!Idle} \cup [at: {"issue"}, age: 0 .. GrantTime]]
  <2> SUFFICES ASSUME NEW l \in Grant
               PROVE  (IF Room!Issuing(l) THEN [login[l] EXCEPT !.age = @ + 1] ELSE login[l])
                        \in {Room!Idle} \cup [at: {"issue"}, age: 0 .. GrantTime]
    BY DEF Room!Tick
  <2>1. login[l] \in {Room!Idle} \cup [at: {"issue"}, age: 0 .. GrantTime]
    BY DEF RoomInv, Room!TypeOK
  <2>2. CASE Room!Issuing(l)
    <3>1. login[l].age < GrantTime
      BY <2>2 DEF Room!Tick
    <3>2. login[l] \in [at: {"issue"}, age: 0 .. GrantTime]
      BY <2>1, <2>2 DEF Room!Issuing, Room!Idle
    <3> QED
      BY <2>2, <3>1, <3>2
  <2> QED
    BY <2>1, <2>2
<1> QED
  BY <1>1, <1>2, <1>3, <1>4, <1>5 DEF Room!TypeOK

\* What is left of a right goes down as the time since its end goes up.
LEMMA TickKeeps == ASSUME Room!LifetimesOK, RoomInv, Room!Tick PROVE RoomInv'
<1> USE RoomTimes
<1>1. Room!TypeOK'
  BY TickTypes
<1>2. /\ removed' # None => removed # None /\ removed \in Nat /\ removed' <= removed + 1
      /\ hidden' # None => hidden # None /\ hidden \in Nat /\ hidden' <= hidden + 1
  BY TickMoves DEF RoomInv, Room!TypeOK, Room!Older
<1>3. /\ removed' # None => removed' \in Nat
      /\ hidden' # None => hidden' \in Nat
  BY <1>1 DEF Room!TypeOK
<1>4. TicketSpent' /\ Room!OneHandshakePerTicket'
  BY TickMoves, SocketHolds DEF RoomInv, TicketSpent, Room!OneHandshakePerTicket
<1>5. TokenEnds'
  BY <1>2, <1>3, TickMoves DEF RoomInv, Room!TypeOK, TokenEnds, Room!Less
<1>6. TicketEnds' /\ AskEnds'
  BY <1>2, <1>3, TickMoves, TicketHolds DEF RoomInv, TicketEnds, AskEnds
<1>11. GrantEnds'
  BY <1>2, <1>3, TickMoves, GrantHolds DEF RoomInv, GrantEnds
<1>7. ShakeEnds'
  BY <1>2, <1>3, TickMoves, SocketHolds DEF RoomInv, ShakeEnds
<1>8. RoomEnds'
  BY <1>2, <1>3, TickMoves, SocketHolds DEF RoomInv, RoomEnds
<1>9. AcceptEnds'
  BY <1>2, <1>3, TickMoves, SocketHolds DEF RoomInv, AcceptEnds, Room!Shaking
<1>10. ProjectEnds'
  BY <1>2, <1>3, TickMoves, SocketHolds DEF RoomInv, ProjectEnds
<1> QED
  BY <1>1, <1>4, <1>5, <1>6, <1>7, <1>8, <1>9, <1>10, <1>11 DEF RoomInv

-----------------------------------------------------------------------------
\* The invariant always holds.
LEMMA RoomNextKeeps == ASSUME Room!LifetimesOK, RoomInv, [Room!Next]_Room!vars PROVE RoomInv'
<1>1. CASE Room!Next
  BY <1>1, GrantKeeps, RemoveUserKeeps, ProjectFlagKeeps, TickKeeps,
     TicketKeeps, RedeemKeeps, OneSocketKeeps
  DEF Room!Next
<1>2. CASE UNCHANGED Room!vars
  BY <1>2
  DEF Room!vars, RoomInv, Room!TypeOK, TicketSpent, Room!OneHandshakePerTicket, GrantEnds, TokenEnds,
      AskEnds, TicketEnds, ShakeEnds, RoomEnds, AcceptEnds, ProjectEnds,
      Room!Shaking, Room!Open, Room!Stored, Room!Asked, Room!Issuing
<1> QED
  BY <1>1, <1>2

\* What the invariant says once the times are over.
LEMMA RoomInvSound == ASSUME Room!LifetimesOK, RoomInv PROVE Room!RoomsSound
<1> USE RoomTimes
<1>1. Room!RemovedHearsNothing
  BY SocketHolds DEF RoomInv, Room!TypeOK, RoomEnds, Room!RemovedHearsNothing
<1>2. Room!DeletedFallsSilent
  BY SocketHolds DEF RoomInv, Room!TypeOK, ProjectEnds, Room!DeletedFallsSilent
<1> QED
  BY <1>1, <1>2 DEF RoomInv, Room!RoomsSound

-----------------------------------------------------------------------------
(* Tenancy                                                                  *)

\* Statement n of a script has a statement before it, in its transaction, that
\* made the setting.
Made(kind, n, setting) ==
    \E m \in 1 .. n - 1 :
      /\ Tenant!Script(kind)[m] = setting
      /\ \A j \in m .. n - 1 : Tenant!Script(kind)[j] # "commit"

StepOf(r) == handler[r].step
MadeBy(r, setting) == Made(handler[r].kind, StepOf(r), setting)
Has(r) == Tenant!Running(r) /\ handler[r].conn # None

\* No two transactions share a connection.
Exclusive ==
    \A r, q \in Request :
      Has(r) /\ Has(q) /\ r # q => handler[r].conn # handler[q].conn

\* A connection in the pool stands for nobody.
PoolClean ==
    \A c \in Conn :
      c \notin Tenant!Held => conn[c].tenant \in {Unset, Empty} /\ conn[c].actor \in {Unset, Empty}

\* A connection in use has no settings but those of its transaction.
HeldOwn ==
    \A r \in Request :
      Has(r) => /\ conn[handler[r].conn].tenant \in {Unset, Empty, Tenant!Home(r)}
                /\ conn[handler[r].conn].actor \in {Unset, Empty, handler[r].user}

\* What a transaction has set is set on the connection it still has.
ContextKept ==
    \A r \in Request :
      Tenant!Running(r) =>
        /\ MadeBy(r, "tenant") => Has(r) /\ conn[handler[r].conn].tenant = Tenant!Home(r)
        /\ MadeBy(r, "actor") => Has(r) /\ conn[handler[r].conn].actor = handler[r].user

TenantInv ==
    /\ Tenant!TypeOK
    /\ Exclusive /\ PoolClean /\ HeldOwn /\ ContextKept
    /\ Tenant!OnlyOwnRows /\ Tenant!ContextHolds

-----------------------------------------------------------------------------
(* The scripts of the handlers.                                             *)

HandlerKind == {"write", "sprint", "assign", "bell", "login", "signup", "job"}

\* Every statement about rows comes after its context in the same transaction,
\* the recomputation of the totals excepted.
LEMMA ContextFirst ==
    ASSUME NEW kind \in HandlerKind, NEW n \in 1 .. Len(Tenant!Script(kind))
    PROVE  /\ n \in 1 .. 7
           /\ Tenant!Script(kind)[n] \in {"rows", "notes", "change", "org", "note"}
                => Made(kind, n, "tenant")
           /\ Tenant!Script(kind)[n] = "notes" => Made(kind, n, "actor")
<1>1. CASE kind \in {"write", "sprint", "assign", "bell"}
  <2>1. /\ Tenant!Script(kind)[1] = "tenant" /\ Tenant!Script(kind)[2] = "actor"
        /\ Len(Tenant!Script(kind)) \in {3, 5, 6}
        /\ Tenant!Script(kind)[3] # "commit"
    BY <1>1 DEF Tenant!Script
  <2>2. Tenant!Script(kind)[n] \in {"rows", "notes", "change", "org", "note"}
          => n > 2 /\ \A j \in 1 .. n - 1 : Tenant!Script(kind)[j] # "commit"
    BY <1>1 DEF Tenant!Script
  <2> QED
    BY <2>1, <2>2 DEF Made
<1>2. CASE kind = "login"
  <2>1. /\ Len(Tenant!Script(kind)) = 3
        /\ Tenant!Script(kind)[1] = "open" /\ Tenant!Script(kind)[2] = "tenant"
        /\ Tenant!Script(kind)[3] = "rows"
    BY <1>2 DEF Tenant!Script
  <2> QED
    BY <2>1 DEF Made
<1>3. CASE kind \in {"signup", "job"}
  <2>1. /\ Tenant!Script(kind)[1] = "tenant"
        /\ Len(Tenant!Script(kind)) \in {4, 7}
    BY <1>3 DEF Tenant!Script
  <2>2. Tenant!Script(kind)[n] \in {"rows", "notes", "change", "org", "note"}
          => n > 1 /\ \A j \in 1 .. n - 1 : Tenant!Script(kind)[j] # "commit"
    BY <1>3 DEF Tenant!Script
  <2>3. Tenant!Script(kind)[n] # "notes"
    BY <1>3 DEF Tenant!Script
  <2> QED
    BY <2>1, <2>2, <2>3 DEF Made
<1> QED
  BY <1>1, <1>2, <1>3 DEF HandlerKind

\* What one statement does to the settings made, whatever the script.
LEMMA MadeNext ==
    ASSUME NEW kind, NEW n \in Nat \ {0}, NEW setting \in {"tenant", "actor"}
    PROVE  /\ ~Made(kind, 1, setting)
           /\ Made(kind, n + 1, setting)
                => /\ Tenant!Script(kind)[n] # "commit"
                   /\ Tenant!Script(kind)[n] = setting \/ Made(kind, n, setting)
<1>1. ~Made(kind, 1, setting)
  BY DEF Made
<1>2. ASSUME Made(kind, n + 1, setting)
      PROVE  /\ Tenant!Script(kind)[n] # "commit"
             /\ Tenant!Script(kind)[n] = setting \/ Made(kind, n, setting)
  <2>1. PICK m \in 1 .. n :
          /\ Tenant!Script(kind)[m] = setting
          /\ \A j \in m .. n : Tenant!Script(kind)[j] # "commit"
    BY <1>2 DEF Made
  <2>2. CASE m = n
    BY <2>1, <2>2
  <2>3. CASE m # n
    <3>1. m \in 1 .. n - 1 /\ \A j \in m .. n - 1 : j \in m .. n
      BY <2>3
    <3> QED
      BY <2>1, <3>1 DEF Made
  <2> QED
    BY <2>2, <2>3
<1> QED
  BY <1>1, <1>2

-----------------------------------------------------------------------------
(* What a step of one request does to what the others rely on.              *)

\* The fields of a request in progress, and the settings of a connection.
LEMMA TenantFields ==
    ASSUME Tenant!SettingsOK, Tenant!TypeOK
    PROVE  /\ \A r \in Request :
                Tenant!Running(r) => /\ handler[r] \in Tenant!Active
                                     /\ handler[r].kind \in HandlerKind
                                     /\ handler[r].user \in User
                                     /\ StepOf(r) \in 1 .. 8
                                     /\ handler[r].conn \in Conn \cup {None}
                                     /\ Tenant!Home(r) \in Tenant!Org
           /\ \A r \in Request : Has(r) => handler[r].conn \in Conn
           /\ DOMAIN conn = Conn /\ DOMAIN handler = Request
<1>1. ASSUME NEW r \in Request, Tenant!Running(r) PROVE handler[r] \in Tenant!Active
  BY <1>1 DEF Tenant!TypeOK, Tenant!Running, Tenant!Idle
<1>2. ASSUME NEW q \in Tenant!Active
      PROVE  /\ q.kind \in HandlerKind /\ q.user \in User /\ q.step \in 1 .. 8
             /\ q.conn \in Conn \cup {None}
  BY DEF Tenant!Active, Tenant!SettingsOK, HandlerKind
<1>3. DOMAIN conn = Conn /\ DOMAIN handler = Request
  BY DEF Tenant!TypeOK
<1> QED
  BY <1>1, <1>2, <1>3 DEF StepOf, Has, Tenant!Home, Tenant!Org

\* The connection a request works on, as the invariant has it.
LEMMA Takes ==
    ASSUME Tenant!SettingsOK, TenantInv,
           NEW r \in Request, NEW c \in Conn, Tenant!Running(r), Tenant!Mine(r, c)
    PROVE  /\ c # None
           /\ Has(r) => c = handler[r].conn
           /\ conn[c].tenant \in {Unset, Empty, Tenant!Home(r)}
           /\ conn[c].actor \in {Unset, Empty, handler[r].user}
           /\ MadeBy(r, "tenant") => conn[c].tenant = Tenant!Home(r)
           /\ MadeBy(r, "actor") => conn[c].actor = handler[r].user
           /\ \A q \in Request \ {r} : Has(q) => handler[q].conn # c
<1>1. c # None
  BY DEF Tenant!SettingsOK
<1>2. Has(r) => c = handler[r].conn
  BY DEF Has, Tenant!Mine
<1>3. ~Has(r) => c \notin Tenant!Held
  BY DEF Has, Tenant!Mine
<1>4. /\ conn[c].tenant \in {Unset, Empty, Tenant!Home(r)}
      /\ conn[c].actor \in {Unset, Empty, handler[r].user}
  BY <1>2, <1>3 DEF TenantInv, PoolClean, HeldOwn
<1>5. /\ MadeBy(r, "tenant") => conn[c].tenant = Tenant!Home(r)
      /\ MadeBy(r, "actor") => conn[c].actor = handler[r].user
  BY <1>2 DEF TenantInv, ContextKept
<1>6. \A q \in Request \ {r} : Has(q) => handler[q].conn # c
  BY <1>2, <1>3 DEF TenantInv, Exclusive, Tenant!Held, Has
<1> QED
  BY <1>1, <1>2, <1>4, <1>5, <1>6

\* A statement other than a commit, on connection c.
LEMMA StatementKeeps ==
    ASSUME Tenant!SettingsOK, TenantInv,
           NEW r \in Request, NEW c \in Conn, Tenant!Ready(r), Tenant!Mine(r, c),
           NEW new \in Tenant!Active, handler' = [handler EXCEPT ![r] = new],
           new.kind = handler[r].kind, new.user = handler[r].user,
           new.step = StepOf(r) + 1, new.conn = c,
           new.saw \subseteq {Tenant!Home(r), handler[r].user},
           new.blind => Tenant!Statement(r) = "totals",
           conn' \in [Conn -> [tenant: Tenant!Org \cup {Unset, Empty}, actor: User \cup {Unset, Empty}]],
           \A d \in Conn \ {c} : conn'[d] = conn[d],
           conn'[c].tenant = IF Tenant!Statement(r) = "tenant" THEN Tenant!Home(r) ELSE conn[c].tenant,
           conn'[c].actor = IF Tenant!Statement(r) = "actor" THEN handler[r].user ELSE conn[c].actor
    PROVE  TenantInv'
<1> USE TenantFields DEF TenantInv
<1>1. Tenant!Running(r)
  BY DEF Tenant!Ready
<1> DEFINE t == conn'[c].tenant
           a == conn'[c].actor
<1>2. \A d \in Conn \ {c} : conn'[d] = conn[d]
  OBVIOUS
<1>3. handler'[r] = new /\ \A q \in Request \ {r} : handler'[q] = handler[q]
  BY DEF Tenant!TypeOK
<1>4. /\ \A q \in Request \ {r} : /\ Tenant!Running(q)' = Tenant!Running(q)
                                  /\ Has(q)' = Has(q)
                                  /\ Tenant!Home(q)' = Tenant!Home(q)
                                  /\ MadeBy(q, "tenant")' = MadeBy(q, "tenant")
                                  /\ MadeBy(q, "actor")' = MadeBy(q, "actor")
      /\ new.at = "run" /\ Tenant!Running(r)'
      /\ Tenant!Home(r)' = Tenant!Home(r)
  BY <1>1, <1>3
  DEF Tenant!Running, Has, Tenant!Home, MadeBy, StepOf, Made, Tenant!Active
<1>5. Has(r)' /\ handler'[r].conn = c
  BY <1>3, <1>4, Takes, <1>1 DEF Has
<1>6. Tenant!TypeOK'
  BY DEF Tenant!TypeOK
<1>7. Exclusive'
  BY <1>1, <1>3, <1>4, <1>5, Takes DEF Exclusive
<1>8. PoolClean'
  <2>1. \A d \in Conn : d \notin Tenant!Held' => d # c /\ d \notin Tenant!Held
    BY <1>1, <1>3, <1>4, <1>5, Takes DEF Tenant!Held, Has, Tenant!SettingsOK
  <2> QED
    BY <1>2, <2>1 DEF PoolClean
<1>9. HeldOwn'
  <2>1. t \in {Unset, Empty, Tenant!Home(r)} /\ a \in {Unset, Empty, handler[r].user}
    BY <1>1, Takes
  <2>2. \A q \in Request \ {r} : Has(q) => conn'[handler[q].conn] = conn[handler[q].conn]
    BY <1>1, <1>2, Takes
  <2> QED
    BY <1>2, <1>3, <1>4, <1>5, <2>1, <2>2 DEF HeldOwn
<1>10. ContextKept'
  <2>1. \A q \in Request \ {r} : Has(q) => conn'[handler[q].conn] = conn[handler[q].conn]
    BY <1>1, <1>2, Takes
  <2>2. /\ MadeBy(r, "tenant")' => Tenant!Statement(r) = "tenant" \/ MadeBy(r, "tenant")
        /\ MadeBy(r, "actor")' => Tenant!Statement(r) = "actor" \/ MadeBy(r, "actor")
    BY <1>1, <1>3, MadeNext DEF MadeBy, StepOf, Tenant!Statement
  <2>3. /\ MadeBy(r, "tenant")' => t = Tenant!Home(r)
        /\ MadeBy(r, "actor")' => a = handler[r].user
    BY <1>1, <2>2, Takes
  <2>4. ASSUME NEW q \in Request, Tenant!Running(q)'
        PROVE  /\ MadeBy(q, "tenant")' => Has(q)' /\ conn'[handler'[q].conn].tenant = Tenant!Home(q)'
               /\ MadeBy(q, "actor")' => Has(q)' /\ conn'[handler'[q].conn].actor = handler'[q].user
    <3>1. CASE q = r
      BY <1>2, <1>3, <1>4, <1>5, <2>3, <3>1
    <3>2. CASE q # r
      BY <1>3, <1>4, <2>1, <2>4, <3>2 DEF ContextKept
    <3> QED
      BY <3>1, <3>2
  <2> QED
    BY <2>4 DEF ContextKept
<1>11. Tenant!OnlyOwnRows'
  BY <1>3, <1>4 DEF Tenant!OnlyOwnRows
<1>12. Tenant!ContextHolds'
  <2>1. Tenant!Last(r)' = Tenant!Statement(r)
    BY <1>1, <1>3 DEF Tenant!Last, Tenant!Statement, StepOf
  <2>2. \A q \in Request \ {r} : Tenant!Last(q)' = Tenant!Last(q)
    BY <1>3 DEF Tenant!Last
  <2> QED
    BY <1>3, <1>4, <2>1, <2>2 DEF Tenant!ContextHolds
<1> QED
  BY <1>6, <1>7, <1>8, <1>9, <1>10, <1>11, <1>12

\* A request that begins, commits or closes has no connection afterwards; the
\* one it had is clean.
LEMMA ReleaseKeeps ==
    ASSUME Tenant!SettingsOK, TenantInv,
           NEW r \in Request,
           NEW new \in Tenant!Active \cup {Tenant!Idle}, handler' = [handler EXCEPT ![r] = new],
           new.at = "run" => /\ new.conn = None /\ new.saw = {} /\ ~new.blind
                             /\ ~Made(new.kind, new.step, "tenant")
                             /\ ~Made(new.kind, new.step, "actor"),
           conn' \in [Conn -> [tenant: Tenant!Org \cup {Unset, Empty}, actor: User \cup {Unset, Empty}]],
           \A d \in Conn :
             IF Has(r) /\ d = handler[r].conn
               THEN conn'[d].tenant \in {Unset, Empty} /\ conn'[d].actor \in {Unset, Empty}
               ELSE conn'[d] = conn[d]
    PROVE  TenantInv'
<1> USE TenantFields DEF TenantInv
<1>1. handler'[r] = new /\ \A q \in Request \ {r} : handler'[q] = handler[q]
  BY DEF Tenant!TypeOK
<1>2. /\ \A q \in Request \ {r} : /\ Tenant!Running(q)' = Tenant!Running(q)
                                  /\ Has(q)' = Has(q)
                                  /\ Tenant!Home(q)' = Tenant!Home(q)
                                  /\ MadeBy(q, "tenant")' = MadeBy(q, "tenant")
                                  /\ MadeBy(q, "actor")' = MadeBy(q, "actor")
      /\ ~Has(r)'
  BY <1>1 DEF Tenant!Running, Has, Tenant!Home, MadeBy, StepOf, Made
<1>3. Tenant!Running(r)' => ~MadeBy(r, "tenant")' /\ ~MadeBy(r, "actor")'
  BY <1>1 DEF Tenant!Running, MadeBy, StepOf, Made
<1>4. \A q \in Request \ {r} : Has(q) => conn'[handler[q].conn] = conn[handler[q].conn]
  BY DEF Exclusive
<1>5. Tenant!TypeOK'
  BY DEF Tenant!TypeOK
<1>6. Exclusive'
  BY <1>1, <1>2 DEF Exclusive
<1>7. PoolClean'
  <2>1. \A d \in Conn : d \in Tenant!Held => d \in Tenant!Held' \/ (Has(r) /\ d = handler[r].conn)
    BY <1>1, <1>2 DEF Tenant!Held, Has, Tenant!SettingsOK
  <2> QED
    BY <2>1 DEF PoolClean
<1>8. HeldOwn'
  BY <1>1, <1>2, <1>4 DEF HeldOwn
<1>9. ContextKept'
  BY <1>1, <1>2, <1>3, <1>4 DEF ContextKept
<1>10. Tenant!OnlyOwnRows' /\ Tenant!ContextHolds'
  BY <1>1, <1>2 DEF Tenant!OnlyOwnRows, Tenant!ContextHolds, Tenant!Running, Tenant!Last
<1> QED
  BY <1>5, <1>6, <1>7, <1>8, <1>9, <1>10

-----------------------------------------------------------------------------
(* The statements.                                                          *)

\* The initial state satisfies the invariant.
LEMMA TenantInitHolds == ASSUME Tenant!SettingsOK, Tenant!Init PROVE TenantInv
<1>1. Tenant!TypeOK
  BY DEF Tenant!Init, Tenant!TypeOK
<1>2. \A r \in Request : ~Tenant!Running(r)
  BY DEF Tenant!Init, Tenant!Running, Tenant!Idle
<1>3. PoolClean
  BY DEF Tenant!Init, PoolClean
<1> QED
  BY <1>1, <1>2, <1>3
  DEF TenantInv, Exclusive, HeldOwn, ContextKept, Has, Tenant!OnlyOwnRows, Tenant!ContextHolds

\* The request after a statement or a commit.
LEMMA ToldFields ==
    ASSUME Tenant!SettingsOK, TenantInv, NEW r \in Request, Tenant!Ready(r),
           NEW c \in Conn \cup {None}, NEW saw \in SUBSET (Tenant!Org \cup User)
    PROVE  LET new == Tenant!Told(r, c, saw)
           IN  /\ StepOf(r) \in 1 .. 7 /\ new \in Tenant!Active
               /\ new.kind = handler[r].kind /\ new.user = handler[r].user
               /\ new.step = StepOf(r) + 1 /\ new.conn = c /\ new.saw = saw /\ ~new.blind
<1>1. Tenant!Running(r) /\ handler[r].kind \in HandlerKind /\ handler[r] \in Tenant!Active
  BY TenantFields DEF TenantInv, Tenant!Ready
<1>2. StepOf(r) \in 1 .. Len(Tenant!Script(handler[r].kind))
  BY <1>1, TenantFields DEF TenantInv, Tenant!Ready, StepOf
<1>3. StepOf(r) \in 1 .. 7
  BY <1>1, <1>2, ContextFirst
<1>4. handler[r].step + 1 \in 1 .. 8 /\ StepOf(r) + 1 = handler[r].step + 1
  BY <1>3 DEF StepOf
<1> DEFINE new == Tenant!Told(r, c, saw)
<1>5. new \in Tenant!Active
  BY <1>1, <1>4 DEF Tenant!Told, Tenant!Active
<1>6. /\ new.kind = handler[r].kind /\ new.user = handler[r].user
      /\ new.step = StepOf(r) + 1 /\ new.conn = c /\ new.saw = saw /\ ~new.blind
  BY <1>1, <1>4 DEF Tenant!Told, Tenant!Active
<1> QED
  BY <1>3, <1>5, <1>6

\* The request after a query that was told saw.
LEMMA FoundFields ==
    ASSUME Tenant!SettingsOK, TenantInv, NEW r \in Request, Tenant!Ready(r),
           NEW c \in Conn, NEW saw \in SUBSET (Tenant!Org \cup User), NEW b \in BOOLEAN
    PROVE  LET new == [Tenant!Told(r, c, saw) EXCEPT !.blind = b]
           IN  /\ new \in Tenant!Active
               /\ new.kind = handler[r].kind /\ new.user = handler[r].user
               /\ new.step = StepOf(r) + 1 /\ new.conn = c /\ new.saw = saw /\ new.blind = b
<1> DEFINE q == Tenant!Told(r, c, saw)
<1>1. /\ q \in Tenant!Active /\ q.kind = handler[r].kind /\ q.user = handler[r].user
      /\ q.step = StepOf(r) + 1 /\ q.conn = c /\ q.saw = saw
  BY ToldFields
<1> HIDE DEF q
<1>2. [q EXCEPT !.blind = b] \in Tenant!Active
  BY <1>1 DEF Tenant!Active
<1>3. LET n == [q EXCEPT !.blind = b]
      IN  /\ n.kind = q.kind /\ n.user = q.user /\ n.step = q.step /\ n.conn = q.conn
          /\ n.saw = q.saw /\ n.blind = b
  BY <1>1, <1>2 DEF Tenant!Active
<1> QED
  BY <1>1, <1>2, <1>3 DEF q

\* Setting the organisation or the user of the transaction.
LEMMA SetKeeps ==
    ASSUME Tenant!SettingsOK, TenantInv, NEW r \in Request, NEW c \in Conn,
           Tenant!SetTenant(r, c) \/ Tenant!SetActor(r, c)
    PROVE  TenantInv'
<1> DEFINE new == Tenant!Told(r, c, {})
           t == IF Tenant!Statement(r) = "tenant" THEN Tenant!Home(r) ELSE conn[c].tenant
           a == IF Tenant!Statement(r) = "actor" THEN handler[r].user ELSE conn[c].actor
<1>1. Tenant!Ready(r) /\ Tenant!Mine(r, c) /\ Tenant!Running(r)
  BY DEF Tenant!SetTenant, Tenant!SetActor, Tenant!Ready
<1>2. handler[r] \in Tenant!Active /\ handler[r].user \in User /\ Tenant!Home(r) \in Tenant!Org
  BY <1>1, TenantFields DEF TenantInv
<1>3. handler' = [handler EXCEPT ![r] = new]
  BY DEF Tenant!SetTenant, Tenant!SetActor, Tenant!Step
<1>4. /\ conn' \in [Conn -> [tenant: Tenant!Org \cup {Unset, Empty}, actor: User \cup {Unset, Empty}]]
      /\ \A d \in Conn \ {c} : conn'[d] = conn[d]
      /\ conn'[c].tenant = t /\ conn'[c].actor = a
  BY <1>2 DEF Tenant!SetTenant, Tenant!SetActor, TenantInv, Tenant!TypeOK
<1>5. /\ new \in Tenant!Active
      /\ new.kind = handler[r].kind /\ new.user = handler[r].user
      /\ new.step = StepOf(r) + 1 /\ new.conn = c /\ new.saw = {} /\ ~new.blind
  BY <1>1, ToldFields
<1> HIDE DEF new, t, a
<1> QED
  BY <1>1, <1>3, <1>4, <1>5, StatementKeeps DEF t, a

\* A statement that is neither changes no setting.
LEMMA PlainKeeps ==
    ASSUME Tenant!SettingsOK, TenantInv, NEW r \in Request, NEW c \in Conn,
           Tenant!Ready(r), Tenant!Mine(r, c), Tenant!Statement(r) \notin {"tenant", "actor"},
           NEW new \in Tenant!Active,
           new.kind = handler[r].kind, new.user = handler[r].user,
           new.step = StepOf(r) + 1, new.conn = c,
           new.saw \subseteq {Tenant!Home(r), handler[r].user},
           new.blind => Tenant!Statement(r) = "totals",
           handler' = [handler EXCEPT ![r] = new],
           UNCHANGED conn
    PROVE  TenantInv'
<1>1. conn \in [Conn -> [tenant: Tenant!Org \cup {Unset, Empty}, actor: User \cup {Unset, Empty}]]
  BY DEF TenantInv, Tenant!TypeOK
<1> QED
  BY <1>1, StatementKeeps

\* The settings a statement about rows finds.
LEMMA ContextSet ==
    ASSUME Tenant!SettingsOK, TenantInv, NEW r \in Request, NEW c \in Conn,
           Tenant!Ready(r), Tenant!Mine(r, c)
    PROVE  /\ Tenant!Statement(r) \in {"rows", "notes", "change", "org", "note"}
                => conn[c].tenant = Tenant!Home(r)
           /\ Tenant!Statement(r) = "notes" => conn[c].actor = handler[r].user
<1>1. Tenant!Running(r) /\ handler[r].kind \in HandlerKind
  BY TenantFields DEF TenantInv, Tenant!Ready
<1>2. StepOf(r) \in 1 .. Len(Tenant!Script(handler[r].kind))
  BY <1>1, TenantFields DEF TenantInv, Tenant!Ready, StepOf, Tenant!Script, HandlerKind
<1> QED
  BY <1>1, <1>2, ContextFirst, Takes DEF MadeBy, StepOf, Tenant!Statement

\* Every other statement before a commit.
LEMMA OtherStatementKeeps ==
    ASSUME Tenant!SettingsOK, TenantInv, NEW r \in Request, NEW c \in Conn,
           \/ Tenant!Open(r, c) \/ Tenant!Query(r, c) \/ Tenant!Change(r, c)
           \/ Tenant!Note(r, c) \/ Tenant!Totals(r, c)
    PROVE  TenantInv'
<1>1. Tenant!Ready(r) /\ Tenant!Mine(r, c) /\ Tenant!Running(r) /\ UNCHANGED conn
  BY DEF Tenant!Open, Tenant!Query, Tenant!Change, Tenant!Note, Tenant!Totals, Tenant!Ready
<1>2. handler[r].user \in User /\ Tenant!Home(r) \in Tenant!Org
  BY <1>1, TenantFields DEF TenantInv
<1>3. CASE Tenant!Open(r, c) \/ Tenant!Change(r, c) \/ Tenant!Note(r, c)
  <2> DEFINE new == Tenant!Told(r, c, {})
  <2>1. handler' = [handler EXCEPT ![r] = new]
    BY <1>3 DEF Tenant!Open, Tenant!Change, Tenant!Note, Tenant!Step
  <2>2. Tenant!Statement(r) \notin {"tenant", "actor"}
    BY <1>3 DEF Tenant!Open, Tenant!Change, Tenant!Note
  <2>3. /\ new \in Tenant!Active
        /\ new.kind = handler[r].kind /\ new.user = handler[r].user
        /\ new.step = StepOf(r) + 1 /\ new.conn = c /\ new.saw = {} /\ ~new.blind
    BY <1>1, ToldFields
  <2> HIDE DEF new
  <2> QED
    BY <1>1, <2>1, <2>2, <2>3, PlainKeeps
<1>4. CASE Tenant!Query(r, c) \/ Tenant!Totals(r, c)
  <2> DEFINE told == IF Tenant!Statement(r) = "notes" THEN Tenant!VisibleNotes(c) ELSE Tenant!Visible(c)
             new == [Tenant!Told(r, c, told) EXCEPT !.blind = told = {}]
  <2>1. Tenant!Statement(r) \in {"rows", "notes", "totals"}
    BY <1>4 DEF Tenant!Query, Tenant!Totals
  <2>2. conn[c].tenant \in {Unset, Empty, Tenant!Home(r)}
    BY <1>1, Takes
  <2>3. /\ Tenant!Statement(r) # "totals" => conn[c].tenant = Tenant!Home(r)
        /\ Tenant!Statement(r) = "notes" => conn[c].actor = handler[r].user
    BY <1>1, <2>1, ContextSet
  <2>4. told \subseteq {Tenant!Home(r), handler[r].user} /\ told \subseteq Tenant!Org \cup User
    <3>1. Tenant!Visible(c) \subseteq {Tenant!Home(r)} /\ Tenant!Visible(c) \subseteq Tenant!Org
      BY <2>2 DEF Tenant!Visible, Tenant!SettingsOK
    <3>2. Tenant!Statement(r) = "notes"
            => Tenant!VisibleNotes(c) \subseteq {handler[r].user} /\ Tenant!VisibleNotes(c) \subseteq User
      BY <2>3 DEF Tenant!VisibleNotes
    <3> QED
      BY <3>1, <3>2
  <2>5. told = {} => Tenant!Statement(r) = "totals"
    BY <1>2, <2>1, <2>3 DEF Tenant!Visible, Tenant!VisibleNotes, Tenant!Home
  <2>6. handler' = [handler EXCEPT ![r] = new]
    BY <1>4 DEF Tenant!Query, Tenant!Totals, Tenant!Finds
  <2> HIDE DEF told
  <2>7. /\ new \in Tenant!Active
        /\ new.kind = handler[r].kind /\ new.user = handler[r].user
        /\ new.step = StepOf(r) + 1 /\ new.conn = c /\ new.saw = told
        /\ new.blind = (told = {})
    <3> DEFINE b == told = {}
    <3>1. b \in BOOLEAN
      OBVIOUS
    <3> HIDE DEF b
    <3>2. LET n == [Tenant!Told(r, c, told) EXCEPT !.blind = b]
          IN  /\ n \in Tenant!Active
              /\ n.kind = handler[r].kind /\ n.user = handler[r].user
              /\ n.step = StepOf(r) + 1 /\ n.conn = c /\ n.saw = told /\ n.blind = b
      BY <1>1, <2>4, <3>1, FoundFields
    <3> QED
      BY <3>2 DEF b
  <2> HIDE DEF new
  <2>8. Tenant!Statement(r) \notin {"tenant", "actor"}
    BY <2>1
  <2> QED
    BY <1>1, <2>4, <2>5, <2>6, <2>7, <2>8, PlainKeeps
<1> QED
  BY <1>3, <1>4

\* The end of a transaction clears the settings of its connection.
LEMMA ResetCleans ==
    ASSUME TenantInv, NEW d, Tenant!Reset(d)
    PROVE  /\ conn' \in [Conn -> [tenant: Tenant!Org \cup {Unset, Empty}, actor: User \cup {Unset, Empty}]]
           /\ d \in Conn => conn'[d].tenant \in {Unset, Empty} /\ conn'[d].actor \in {Unset, Empty}
           /\ \A c \in Conn : c # d => conn'[c] = conn[c]
<1>1. PICK t \in Tenant!After(conn[d].tenant), a \in Tenant!After(conn[d].actor) :
         conn' = [conn EXCEPT ![d] = [tenant |-> t, actor |-> a]]
  BY DEF Tenant!Reset
<1>2. t \in {Unset, Empty} /\ a \in {Unset, Empty}
  BY DEF Tenant!After
<1> QED
  BY <1>1, <1>2 DEF TenantInv, Tenant!TypeOK

\* The start of a request, its commits, and its end.
LEMMA EndsKeep ==
    ASSUME Tenant!SettingsOK, TenantInv, NEW r \in Request,
           \/ \E kind \in Kind, u \in User : Tenant!Begin(r, kind, u)
           \/ Tenant!Commit(r) \/ Tenant!Close(r)
    PROVE  TenantInv'
<1>1. CASE \E kind \in Kind, u \in User : Tenant!Begin(r, kind, u)
  <2>1. PICK kind \in Kind, u \in User : Tenant!Begin(r, kind, u)
    BY <1>1
  <2> DEFINE new == [at |-> "run", kind |-> kind, user |-> u, step |-> 1, conn |-> None,
                     saw |-> {}, blind |-> FALSE]
  <2>2. new \in Tenant!Active
    BY DEF Tenant!Active
  <2>3. ~Made(new.kind, new.step, "tenant") /\ ~Made(new.kind, new.step, "actor")
    BY MadeNext
  <2>4. handler' = [handler EXCEPT ![r] = new] /\ UNCHANGED conn /\ ~Has(r)
    BY <2>1 DEF Tenant!Begin, Has, Tenant!Running, Tenant!Idle
  <2>5. new.conn = None /\ new.saw = {} /\ ~new.blind
    OBVIOUS
  <2>6. conn \in [Conn -> [tenant: Tenant!Org \cup {Unset, Empty}, actor: User \cup {Unset, Empty}]]
    BY DEF TenantInv, Tenant!TypeOK
  <2> HIDE DEF new
  <2> QED
    BY <2>2, <2>3, <2>4, <2>5, <2>6, ReleaseKeeps
<1>2. CASE Tenant!Commit(r)
  <2> DEFINE new == Tenant!Told(r, None, {})
  <2>1. Tenant!Ready(r) /\ Tenant!Running(r) /\ Tenant!Statement(r) = "commit"
    BY <1>2 DEF Tenant!Commit, Tenant!Ready
  <2>3. handler' = [handler EXCEPT ![r] = new]
    BY <1>2 DEF Tenant!Commit, Tenant!Step
  <2>4. /\ StepOf(r) \in 1 .. 7 /\ new \in Tenant!Active
        /\ new.kind = handler[r].kind
        /\ new.step = StepOf(r) + 1 /\ new.conn = None /\ new.saw = {} /\ ~new.blind
    BY <2>1, ToldFields
  <2> HIDE DEF new
  <2>5. ~Made(new.kind, new.step, "tenant") /\ ~Made(new.kind, new.step, "actor")
    BY <2>1, <2>4, MadeNext DEF Tenant!Statement, StepOf
  <2>6. Tenant!Reset(handler[r].conn)
    BY <1>2 DEF Tenant!Commit
  <2>7. /\ Has(r) => handler[r].conn \in Conn
        /\ ~Has(r) => handler[r].conn \notin Conn
    BY <2>1, TenantFields DEF TenantInv, Has, Tenant!SettingsOK
  <2>8. \A d \in Conn :
          IF Has(r) /\ d = handler[r].conn
            THEN conn'[d].tenant \in {Unset, Empty} /\ conn'[d].actor \in {Unset, Empty}
            ELSE conn'[d] = conn[d]
    BY <2>6, <2>7, ResetCleans
  <2>9. conn' \in [Conn -> [tenant: Tenant!Org \cup {Unset, Empty}, actor: User \cup {Unset, Empty}]]
    BY <2>6, ResetCleans
  <2> QED
    BY <2>3, <2>4, <2>5, <2>8, <2>9, ReleaseKeeps
<1>3. CASE Tenant!Close(r)
  <2>1. /\ Tenant!Running(r) /\ handler' = [handler EXCEPT ![r] = Tenant!Idle]
        /\ Tenant!Idle.at # "run"
    BY <1>3 DEF Tenant!Close, Tenant!Idle
  <2>2. CASE handler[r].conn = None
    <3>1. UNCHANGED conn /\ ~Has(r)
      BY <1>3, <2>2 DEF Tenant!Close, Has
    <3>2. conn \in [Conn -> [tenant: Tenant!Org \cup {Unset, Empty}, actor: User \cup {Unset, Empty}]]
      BY DEF TenantInv, Tenant!TypeOK
    <3> QED
      BY <2>1, <3>1, <3>2, ReleaseKeeps
  <2>3. CASE handler[r].conn # None
    <3>1. Tenant!Reset(handler[r].conn) /\ Has(r)
      BY <1>3, <2>1, <2>3 DEF Tenant!Close, Has
    <3>2. handler[r].conn \in Conn
      BY <3>1, TenantFields DEF TenantInv
    <3>3. \A d \in Conn :
            IF Has(r) /\ d = handler[r].conn
              THEN conn'[d].tenant \in {Unset, Empty} /\ conn'[d].actor \in {Unset, Empty}
              ELSE conn'[d] = conn[d]
      BY <3>1, <3>2, ResetCleans
    <3>4. conn' \in [Conn -> [tenant: Tenant!Org \cup {Unset, Empty}, actor: User \cup {Unset, Empty}]]
      BY <3>1, ResetCleans
    <3> QED
      BY <2>1, <3>3, <3>4, ReleaseKeeps
  <2> QED
    BY <2>2, <2>3
<1> QED
  BY <1>1, <1>2, <1>3

\* Every step keeps the invariant.
LEMMA TenantNextKeeps == ASSUME Tenant!SettingsOK, TenantInv, [Tenant!Next]_Tenant!vars PROVE TenantInv'
<1>1. CASE Tenant!Next
  BY <1>1, SetKeeps, OtherStatementKeeps, EndsKeep DEF Tenant!Next
<1>2. CASE UNCHANGED Tenant!vars
  BY <1>2
  DEF Tenant!vars, TenantInv, Tenant!TypeOK, Exclusive, PoolClean, HeldOwn, ContextKept, Has, MadeBy, Tenant!Last,
      Made, StepOf, Tenant!Running, Tenant!Held, Tenant!Home, Tenant!OnlyOwnRows, Tenant!ContextHolds
<1> QED
  BY <1>1, <1>2

\* A statement about rows is made on a connection with its context, so that
\* the policies let it through.
LEMMA TenantInvSound == ASSUME Tenant!SettingsOK, TenantInv PROVE Tenant!StatementsSucceed
<1>1. ASSUME NEW r \in Request, NEW c \in Conn, Tenant!Ready(r), Tenant!Mine(r, c)
      PROVE  Tenant!Allowed(r, c)
  <2>1. /\ Tenant!Statement(r) \in {"change", "org", "note"} => conn[c].tenant = Tenant!Home(r)
        /\ Tenant!Home(r) \in Tenant!Org
    BY <1>1, ContextSet, TenantFields DEF TenantInv, Tenant!Ready
  <2> QED
    BY <2>1 DEF Tenant!Allowed, Tenant!Visible, Tenant!MayInsertNote, Tenant!PolicyFails
<1> QED
  BY <1>1 DEF TenantInv, Tenant!StatementsSucceed, Tenant!NothingRefused

-----------------------------------------------------------------------------
(* Authority                                                                *)

\* With a role that the user no longer has: a login that is under way, a token,
\* and a request under way are no older than their times allow.
AuthAge == auth # Mine!Idle /\ auth.claim # role => since <= auth.age
TokenAge ==
    \A c \in Mine!Role : c # role /\ claim[c] > 0 => since + claim[c] <= AuthTime + ClaimLife
WorkAge ==
    work # Mine!Idle /\ work.claim # role => since < AuthTime + ClaimLife + work.age

\* A request that changes a row has read it, and rows are kept.
RowsThere ==
    work # Mine!Idle =>
      /\ work.op # "newProject" => project # None
      /\ work.op \in Mine!TicketOp \ {"newTicket"} => task # None

\* A request about a ticket has seen its project live since it began.
SeenLive ==
    work # Mine!Idle /\ work.op \in Mine!TicketOp
      => project.hidden = None \/ project.hidden <= work.age

MineInv ==
    /\ Mine!TypeOK
    /\ AuthAge /\ TokenAge /\ WorkAge
    /\ RowsThere /\ SeenLive
    /\ Mine!CreatorExists

-----------------------------------------------------------------------------
(* The lifetimes, and what records of logins, requests and rows hold.       *)

LEMMA MineTimes ==
    ASSUME Mine!LifetimesOK
    PROVE  /\ ClaimLife \in Nat /\ ClaimLife > 0
           /\ AuthTime \in Nat /\ RequestTime \in Nat
           /\ Mine!LastUse = AuthTime + ClaimLife + RequestTime /\ Mine!LastUse \in Nat
           /\ None \notin Mine!ProjectRow /\ None \notin Mine!TicketRow /\ None # Mine!Me
BY DEF Mine!LifetimesOK, Mine!LastUse

LEMMA MineFields ==
    ASSUME Mine!TypeOK
    PROVE  /\ role \in Mine!Role \cup {"gone"} /\ since \in 0 .. Mine!LastUse + 1
           /\ \A c \in Mine!Role : claim[c] \in 0 .. ClaimLife
           /\ auth # Mine!Idle => auth.claim \in Mine!Role /\ auth.age \in 0 .. AuthTime
           /\ work # Mine!Idle => /\ work.op \in Mine!ProjectOp \cup Mine!TicketOp
                                  /\ work.claim \in Mine!Role
                                  /\ work.age \in 0 .. RequestTime
           /\ project # None => project \in Mine!ProjectRow
           /\ task # None => task \in Mine!TicketRow
BY DEF Mine!TypeOK

\* The rows that an operation writes keep their creator, and only the deletion
\* of the project hides it.
LEMMA ProjectWritten ==
    ASSUME Mine!LifetimesOK, Mine!TypeOK,
           NEW op \in Mine!ProjectOp \cup Mine!TicketOp, NEW by \in {Mine!Me, "other"},
           op # "newProject" => project # None
    PROVE  LET p == Mine!WriteProject(op, by)
           IN  /\ p \in Mine!ProjectRow /\ p # None
               /\ p.creator = IF op = "newProject" THEN by ELSE project.creator
               /\ op \in {"newProject", "restoreProject"} => p.hidden = None
               /\ op = "deleteProject" => p.hidden = 0
               /\ op \notin {"newProject", "restoreProject", "deleteProject"}
                    => p.hidden = project.hidden
<1> DEFINE p == Mine!WriteProject(op, by)
<1>1. 0 \in (0 .. RequestTime + 1) \cup {None} /\ None \in (0 .. RequestTime + 1) \cup {None}
  BY MineTimes
<1>2. CASE op = "newProject"
  <2>1. p = [creator |-> by, hidden |-> None, text |-> FALSE]
    BY <1>2 DEF Mine!WriteProject
  <2>2. by \in Mine!Creator /\ FALSE \in BOOLEAN
    BY DEF Mine!Creator
  <2>3. p \in Mine!ProjectRow
    BY <1>1, <2>1, <2>2 DEF Mine!ProjectRow
  <2>4. p.creator = by /\ p.hidden = None
    BY <2>1
  <2> QED
    BY <1>2, <2>3, <2>4, MineTimes
<1>3. CASE op # "newProject"
  <2>1. project \in Mine!ProjectRow
    BY <1>3, MineFields
  <2>2. CASE op \in {"editProject", "configure"}
    <3>1. p = [project EXCEPT !.text = ~@]
      BY <2>2 DEF Mine!WriteProject
    <3>2. p \in Mine!ProjectRow /\ p.creator = project.creator /\ p.hidden = project.hidden
      BY <2>1, <3>1 DEF Mine!ProjectRow
    <3> QED
      BY <1>3, <2>2, <3>2, MineTimes
  <2>3. CASE op = "deleteProject"
    <3>1. p = [project EXCEPT !.hidden = 0]
      BY <2>3 DEF Mine!WriteProject
    <3>2. p \in Mine!ProjectRow /\ p.creator = project.creator /\ p.hidden = 0
      BY <1>1, <2>1, <3>1 DEF Mine!ProjectRow
    <3> QED
      BY <1>3, <2>3, <3>2, MineTimes
  <2>4. CASE op = "restoreProject"
    <3>1. p = [project EXCEPT !.hidden = None]
      BY <2>4 DEF Mine!WriteProject
    <3>2. p \in Mine!ProjectRow /\ p.creator = project.creator /\ p.hidden = None
      BY <1>1, <2>1, <3>1 DEF Mine!ProjectRow
    <3> QED
      BY <1>3, <2>4, <3>2, MineTimes
  <2>5. CASE op \in Mine!TicketOp
    BY <1>3, <2>1, <2>5, MineTimes DEF Mine!WriteProject, Mine!TicketOp
  <2> QED
    BY <1>3, <2>2, <2>3, <2>4, <2>5 DEF Mine!ProjectOp
<1> QED
  BY <1>2, <1>3

LEMMA TicketWritten ==
    ASSUME Mine!LifetimesOK, Mine!TypeOK,
           NEW op \in Mine!ProjectOp \cup Mine!TicketOp, NEW by \in {Mine!Me, "other"},
           op \in Mine!TicketOp \ {"newTicket"} => task # None
    PROVE  LET t == Mine!WriteTicket(op, by)
           IN  /\ t \in {None} \cup Mine!TicketRow
               /\ op \in Mine!TicketOp \/ task # None => t # None
               /\ t # None => t.creator = IF op = "newTicket" THEN by ELSE task.creator
               /\ op \in Mine!ProjectOp => t = task
<1> DEFINE t == Mine!WriteTicket(op, by)
<1>1. CASE op = "newTicket"
  <2>1. t = [creator |-> by, live |-> TRUE, text |-> FALSE]
    BY <1>1 DEF Mine!WriteTicket
  <2>2. by \in Mine!Creator
    BY DEF Mine!Creator
  <2>3. t \in Mine!TicketRow
    BY <2>1, <2>2 DEF Mine!TicketRow
  <2>4. t.creator = by
    BY <2>1
  <2> QED
    BY <1>1, <2>3, <2>4, MineTimes DEF Mine!ProjectOp
<1>2. CASE op \in Mine!ProjectOp
  BY <1>2 DEF Mine!WriteTicket, Mine!ProjectOp, Mine!TypeOK, Mine!TicketOp
<1>3. CASE op \in Mine!TicketOp \ {"newTicket"}
  <2>1. task \in Mine!TicketRow
    BY <1>3, MineFields
  <2>2. CASE op \in {"editTicket", "moveTicket"}
    <3>1. t = [task EXCEPT !.text = ~@]
      BY <2>2 DEF Mine!WriteTicket
    <3>2. t \in Mine!TicketRow /\ t.creator = task.creator
      BY <2>1, <3>1 DEF Mine!TicketRow
    <3> QED
      BY <1>3, <3>2, MineTimes DEF Mine!ProjectOp, Mine!TicketOp
  <2>3. CASE op \in {"deleteTicket", "restoreTicket"}
    <3>1. t = [task EXCEPT !.live = FALSE] \/ t = [task EXCEPT !.live = TRUE]
      BY <2>3 DEF Mine!WriteTicket
    <3>2. t \in Mine!TicketRow /\ t.creator = task.creator
      BY <2>1, <3>1 DEF Mine!TicketRow
    <3> QED
      BY <1>3, <3>2, MineTimes DEF Mine!ProjectOp, Mine!TicketOp
  <2> QED
    BY <1>3, <2>2, <2>3 DEF Mine!TicketOp
<1> QED
  BY <1>1, <1>2, <1>3

\* The removal of the user takes its name off a row and leaves the rest.
LEMMA OrphanedRows ==
    ASSUME Mine!LifetimesOK
    PROVE  /\ Mine!Orphaned(None) = None
           /\ \A p \in Mine!ProjectRow :
                LET q == Mine!Orphaned(p)
                IN  /\ q \in Mine!ProjectRow /\ q # None /\ q.hidden = p.hidden
                    /\ q.creator # Mine!Me
           /\ \A t \in Mine!TicketRow :
                LET q == Mine!Orphaned(t)
                IN  /\ q \in Mine!TicketRow /\ q # None
                    /\ q.live = t.live /\ q.text = t.text
                    /\ q.creator # Mine!Me
<1>1. Mine!Orphaned(None) = None
  BY DEF Mine!Orphaned
<1>2. ASSUME NEW p \in Mine!ProjectRow
      PROVE  LET q == Mine!Orphaned(p)
             IN  /\ q \in Mine!ProjectRow /\ q # None /\ q.hidden = p.hidden
                 /\ q.creator # Mine!Me
  <2>1. CASE p.creator = Mine!Me
    <3>1. Mine!Orphaned(p) = [p EXCEPT !.creator = None]
      BY <2>1, MineTimes DEF Mine!Orphaned
    <3>2. None \in Mine!Creator
      BY DEF Mine!Creator
    <3> QED
      BY <3>1, <3>2, MineTimes DEF Mine!ProjectRow
  <2>2. CASE p.creator # Mine!Me
    BY <2>2, MineTimes DEF Mine!Orphaned
  <2> QED
    BY <2>1, <2>2
<1>3. ASSUME NEW t \in Mine!TicketRow
      PROVE  LET q == Mine!Orphaned(t)
             IN  /\ q \in Mine!TicketRow /\ q # None
                 /\ q.live = t.live /\ q.text = t.text
                 /\ q.creator # Mine!Me
  <2>1. CASE t.creator = Mine!Me
    <3>1. Mine!Orphaned(t) = [t EXCEPT !.creator = None]
      BY <2>1, MineTimes DEF Mine!Orphaned
    <3>2. None \in Mine!Creator
      BY DEF Mine!Creator
    <3> QED
      BY <3>1, <3>2, MineTimes DEF Mine!TicketRow
  <2>2. CASE t.creator # Mine!Me
    BY <2>2, MineTimes DEF Mine!Orphaned
  <2> QED
    BY <2>1, <2>2
<1> QED
  BY <1>1, <1>2, <1>3

-----------------------------------------------------------------------------
(* The steps.                                                               *)

\* The initial state satisfies the invariant.
LEMMA MineInitHolds == ASSUME Mine!LifetimesOK, Mine!Init PROVE MineInv
<1>1. Mine!TypeOK
  BY MineTimes DEF Mine!Init, Mine!TypeOK
<1> QED
  BY <1>1
  DEF MineInv, Mine!Init, AuthAge, TokenAge, WorkAge, RowsThere, SeenLive, Mine!CreatorExists,
      Mine!Role

\* Logins and refreshes.
LEMMA AuthKeeps ==
    ASSUME Mine!LifetimesOK, MineInv, Mine!AuthRead \/ Mine!AuthIssue \/ Mine!AuthFail
    PROVE  MineInv'
<1> USE MineTimes, MineFields DEF MineInv
<1>1. UNCHANGED <<role, since, project, task, work>>
  BY DEF Mine!AuthRead, Mine!AuthIssue, Mine!AuthFail, Mine!user, Mine!rows
<1>2. CASE Mine!AuthRead
  <2>1. /\ auth' = [at |-> "issue", claim |-> role, age |-> 0] /\ claim' = claim
        /\ role \in Mine!Role
    BY <1>2 DEF Mine!AuthRead
  <2>2. 0 \in 0 .. AuthTime
    OBVIOUS
  <2>3. auth' \in [at: {"issue"}, claim: Mine!Role, age: 0 .. AuthTime]
    BY <2>1, <2>2
  <2>4. Mine!TypeOK' /\ AuthAge' /\ TokenAge'
    BY <1>1, <2>1, <2>3 DEF Mine!TypeOK, AuthAge, TokenAge
  <2> QED
    BY <1>1, <2>4 DEF WorkAge, RowsThere, SeenLive, Mine!CreatorExists
<1>3. CASE Mine!AuthIssue
  <2>1. /\ auth # Mine!Idle /\ auth' = Mine!Idle
        /\ claim' = [claim EXCEPT ![auth.claim] = ClaimLife]
    BY <1>3 DEF Mine!AuthIssue
  <2>2. Mine!TypeOK' /\ AuthAge'
    BY <1>1, <2>1 DEF Mine!TypeOK, AuthAge
  <2>3. /\ claim'[auth.claim] = ClaimLife
        /\ \A c \in Mine!Role \ {auth.claim} : claim'[c] = claim[c]
    BY <2>1 DEF Mine!TypeOK
  <2>4. auth.claim # role => since <= AuthTime
    BY <2>1 DEF AuthAge
  <2>5. TokenAge'
    BY <1>1, <2>3, <2>4 DEF TokenAge
  <2> QED
    BY <1>1, <2>2, <2>5 DEF WorkAge, RowsThere, SeenLive, Mine!CreatorExists
<1>4. CASE Mine!AuthFail
  <2>1. auth' = Mine!Idle /\ claim' = claim
    BY <1>4 DEF Mine!AuthFail
  <2> QED
    BY <1>1, <2>1
    DEF Mine!TypeOK, AuthAge, TokenAge, WorkAge, RowsThere, SeenLive, Mine!CreatorExists
<1> QED
  BY <1>2, <1>3, <1>4

\* A change of the role makes every claim of the old one new.
LEMMA RoleGoes ==
    ASSUME Mine!LifetimesOK, MineInv, UNCHANGED <<claim, auth, work>>,
           since' = 0, role' \in Mine!Role \cup {"gone"}
    PROVE  AuthAge' /\ TokenAge' /\ WorkAge'
BY MineTimes, MineFields DEF MineInv, AuthAge, TokenAge, WorkAge

LEMMA ChangeRoleKeeps == ASSUME Mine!LifetimesOK, MineInv, Mine!ChangeRole PROVE MineInv'
<1>1. /\ role' \in Mine!Role /\ since' = 0
      /\ UNCHANGED <<claim, auth, work, project, task>>
  BY DEF Mine!ChangeRole, Mine!rows
<1>2. Mine!TypeOK'
  BY <1>1, MineTimes DEF MineInv, Mine!TypeOK
<1>3. role' # "gone"
  BY <1>1 DEF Mine!Role
<1> QED
  BY <1>1, <1>2, <1>3, RoleGoes DEF MineInv, RowsThere, SeenLive, Mine!CreatorExists

LEMMA RemoveMineKeeps == ASSUME Mine!LifetimesOK, MineInv, Mine!Remove PROVE MineInv'
<1> USE MineFields, MineTimes DEF MineInv
<1>1. /\ role' = "gone" /\ since' = 0 /\ UNCHANGED <<claim, auth, work>>
      /\ project' = Mine!Orphaned(project) /\ task' = Mine!Orphaned(task)
  BY DEF Mine!Remove
<1>2. /\ project = None => project' = None
      /\ project # None => /\ project' \in Mine!ProjectRow /\ project' # None
                           /\ project'.hidden = project.hidden /\ project'.creator # Mine!Me
  BY <1>1, OrphanedRows
<1>3. /\ task = None => task' = None
      /\ task # None => /\ task' \in Mine!TicketRow /\ task' # None /\ task'.creator # Mine!Me
  BY <1>1, OrphanedRows
<1>4. Mine!TypeOK'
  BY <1>1, <1>2, <1>3 DEF Mine!TypeOK
<1>5. RowsThere' /\ SeenLive'
  BY <1>1, <1>2, <1>3 DEF RowsThere, SeenLive, Mine!TicketOp
<1>6. Mine!CreatorExists'
  BY <1>2, <1>3 DEF Mine!CreatorExists
<1> QED
  BY <1>1, <1>4, <1>5, <1>6, RoleGoes

\* What the checks of a handler have seen.
LEMMA AllowedSees ==
    ASSUME NEW op \in Mine!ProjectOp \cup Mine!TicketOp, NEW c, Mine!Allowed(op, c)
    PROVE  /\ op # "newProject" => project # None
           /\ op = "newProject" => project = None
           /\ op \in Mine!TicketOp => project.hidden = None
           /\ op \in Mine!TicketOp \ {"newTicket"} => task # None
           /\ op = "newTicket" => task = None
BY DEF Mine!Allowed, Mine!Reaches, Mine!ProjectSeen, Mine!TicketSeen, Mine!ProjectOp, Mine!TicketOp

LEMMA RequestReadKeeps == ASSUME Mine!LifetimesOK, MineInv, Mine!RequestRead PROVE MineInv'
<1> USE MineFields, MineTimes DEF MineInv
<1>1. PICK op \in Mine!ProjectOp \cup Mine!TicketOp, c \in Mine!Role :
        /\ claim[c] > 0 /\ Mine!Allowed(op, c)
        /\ work' = [at |-> "commit", op |-> op, claim |-> c, age |-> 0]
        /\ UNCHANGED <<role, since, claim, auth, project, task>>
  BY DEF Mine!RequestRead, Mine!user, Mine!rows
<1>2. 0 \in 0 .. RequestTime
  OBVIOUS
<1>3. work' \in [at: {"commit"}, op: Mine!ProjectOp \cup Mine!TicketOp, claim: Mine!Role,
                 age: 0 .. RequestTime]
  BY <1>1, <1>2
<1>4. Mine!TypeOK'
  BY <1>1, <1>3 DEF Mine!TypeOK
<1>5. WorkAge'
  BY <1>1 DEF TokenAge, WorkAge
<1>6. RowsThere' /\ SeenLive'
  BY <1>1, AllowedSees DEF RowsThere, SeenLive
<1> QED
  BY <1>1, <1>4, <1>5, <1>6 DEF AuthAge, TokenAge, Mine!CreatorExists

\* A commit, of the user or of an admin: by is the author of a new row.
LEMMA WriteKeeps ==
    ASSUME Mine!LifetimesOK, MineInv,
           NEW op \in Mine!ProjectOp \cup Mine!TicketOp, NEW by \in {Mine!Me, "other"},
           op # "newProject" => project # None,
           op \in Mine!TicketOp \ {"newTicket"} => task # None,
           role = "gone" => op \notin {"newProject", "newTicket"} \/ by = "other",
           project' = Mine!WriteProject(op, by), task' = Mine!WriteTicket(op, by),
           work' = Mine!Idle \/ work' = work,
           UNCHANGED <<role, since, claim, auth>>
    PROVE  MineInv'
<1> USE MineFields, MineTimes DEF MineInv
<1>1. /\ project' \in Mine!ProjectRow /\ project' # None
      /\ project'.creator = IF op = "newProject" THEN by ELSE project.creator
      /\ project'.hidden \in {None, 0, project.hidden}
  BY ProjectWritten
<1>2. /\ task' \in {None} \cup Mine!TicketRow
      /\ task # None => task' # None
      /\ task' # None => task'.creator = IF op = "newTicket" THEN by ELSE task.creator
      /\ task' # None /\ op # "newTicket" => task # None
  BY TicketWritten DEF Mine!TicketOp
<1>3. Mine!TypeOK'
  BY <1>1, <1>2 DEF Mine!TypeOK
<1>4. RowsThere' /\ SeenLive'
  BY <1>1, <1>2 DEF RowsThere, SeenLive
<1>5. Mine!CreatorExists'
  <2>1. ASSUME role = "gone"
        PROVE  project'.creator # Mine!Me /\ (task' # None => task'.creator # Mine!Me)
    <3>1. Mine!Me # "other"
      BY DEF Mine!Me
    <3> QED
      BY <1>1, <1>2, <2>1, <3>1 DEF Mine!CreatorExists
  <2> QED
    BY <2>1 DEF Mine!CreatorExists
<1>6. AuthAge' /\ TokenAge' /\ WorkAge'
  BY DEF AuthAge, TokenAge, WorkAge
<1> QED
  BY <1>3, <1>4, <1>5, <1>6

LEMMA CommitMineKeeps == ASSUME Mine!LifetimesOK, MineInv, Mine!Commit PROVE MineInv'
<1>1. /\ work # Mine!Idle /\ work' = Mine!Idle
      /\ project' = Mine!WriteProject(work.op, Mine!Me)
      /\ task' = Mine!WriteTicket(work.op, Mine!Me)
      /\ UNCHANGED <<role, since, claim, auth>>
      /\ work.op \in {"newProject", "newTicket"} => role # "gone"
  BY DEF Mine!Commit, Mine!Insertable, Mine!user
<1>2. work.op \in Mine!ProjectOp \cup Mine!TicketOp
  BY <1>1, MineFields DEF MineInv
<1> QED
  BY <1>1, <1>2, WriteKeeps DEF MineInv, RowsThere

LEMMA OthersKeep == ASSUME Mine!LifetimesOK, MineInv, Mine!OthersRequest PROVE MineInv'
<1>1. PICK op \in Mine!ProjectOp \cup Mine!TicketOp :
        /\ Mine!Allowed(op, "admin")
        /\ project' = Mine!WriteProject(op, "other") /\ task' = Mine!WriteTicket(op, "other")
        /\ UNCHANGED <<role, since, claim, auth, work>>
  BY DEF Mine!OthersRequest, Mine!user
<1> QED
  BY <1>1, AllowedSees, WriteKeeps

LEMMA RollbackKeeps == ASSUME Mine!LifetimesOK, MineInv, Mine!Rollback PROVE MineInv'
<1>1. work' = Mine!Idle /\ UNCHANGED <<role, since, claim, auth, project, task>>
  BY DEF Mine!Rollback, Mine!user, Mine!rows
<1> QED
  BY <1>1
  DEF MineInv, Mine!TypeOK, AuthAge, TokenAge, WorkAge, RowsThere, SeenLive, Mine!CreatorExists

\* Time passes: what is left of a claim goes down as the age of the change
\* goes up, and a deleted project gets no older than a request does.
LEMMA MineTickKeeps == ASSUME Mine!LifetimesOK, MineInv, Mine!Tick PROVE MineInv'
<1> USE MineFields, MineTimes DEF MineInv
<1>1. /\ auth # Mine!Idle => auth.age < AuthTime
      /\ work # Mine!Idle => work.age < RequestTime
      /\ since' = Mine!Older(since, Mine!LastUse)
      /\ claim' = [c \in Mine!Role |-> Mine!Less(claim[c])]
      /\ auth' = IF auth = Mine!Idle THEN auth ELSE [auth EXCEPT !.age = @ + 1]
      /\ work' = IF work = Mine!Idle THEN work ELSE [work EXCEPT !.age = @ + 1]
      /\ project' = IF project = None THEN None
                    ELSE [project EXCEPT !.hidden = Mine!Older(@, RequestTime)]
      /\ role' = role /\ task' = task
  BY DEF Mine!Tick
<1>2. since' \in 0 .. Mine!LastUse + 1 /\ since' <= since + 1
  BY <1>1 DEF Mine!Older
<1>3. /\ claim' \in [Mine!Role -> 0 .. ClaimLife]
      /\ \A c \in Mine!Role : claim'[c] > 0 => claim'[c] = claim[c] - 1
  BY <1>1 DEF Mine!Less
<1>4. /\ auth = Mine!Idle => auth' = Mine!Idle
      /\ auth # Mine!Idle =>
           /\ auth' \in [at: {"issue"}, claim: Mine!Role, age: 0 .. AuthTime]
           /\ auth'.claim = auth.claim /\ auth'.age = auth.age + 1
  <2>1. CASE auth # Mine!Idle
    <3>1. auth \in [at: {"issue"}, claim: Mine!Role, age: 0 .. AuthTime]
      BY <2>1 DEF Mine!TypeOK
    <3>2. auth.age + 1 \in 0 .. AuthTime
      BY <1>1, <2>1
    <3> QED
      BY <1>1, <2>1, <3>1, <3>2
  <2> QED
    BY <1>1, <2>1
<1>5. /\ work = Mine!Idle => work' = Mine!Idle
      /\ work # Mine!Idle =>
           /\ work' \in [at: {"commit"}, op: Mine!ProjectOp \cup Mine!TicketOp,
                         claim: Mine!Role, age: 0 .. RequestTime]
           /\ work'.claim = work.claim /\ work'.op = work.op /\ work'.age = work.age + 1
  <2>1. CASE work # Mine!Idle
    <3>1. work \in [at: {"commit"}, op: Mine!ProjectOp \cup Mine!TicketOp,
                    claim: Mine!Role, age: 0 .. RequestTime]
      BY <2>1 DEF Mine!TypeOK
    <3>2. work.age + 1 \in 0 .. RequestTime
      BY <1>1, <2>1
    <3> QED
      BY <1>1, <2>1, <3>1, <3>2
  <2> QED
    BY <1>1, <2>1
<1>6. /\ project = None => project' = None
      /\ project # None =>
           /\ project' \in Mine!ProjectRow
           /\ project'.creator = project.creator
           /\ project'.hidden = Mine!Older(project.hidden, RequestTime)
  <2>1. CASE project # None
    <3>1. project \in Mine!ProjectRow
      BY <2>1
    <3>2. project.hidden \in (0 .. RequestTime + 1) \cup {None}
      BY <3>1 DEF Mine!ProjectRow
    <3>3. Mine!Older(project.hidden, RequestTime) \in (0 .. RequestTime + 1) \cup {None}
      BY <3>2 DEF Mine!Older
    <3>4. project' = [project EXCEPT !.hidden = Mine!Older(project.hidden, RequestTime)]
      BY <1>1, <2>1
    <3> QED
      BY <2>1, <3>1, <3>3, <3>4 DEF Mine!ProjectRow
  <2> QED
    BY <1>1, <2>1
<1>7. Mine!TypeOK'
  BY <1>1, <1>2, <1>3, <1>4, <1>5, <1>6 DEF Mine!TypeOK
<1>8. AuthAge'
  BY <1>1, <1>2, <1>4, <1>7 DEF AuthAge
<1>9. TokenAge'
  BY <1>1, <1>2, <1>3 DEF TokenAge
<1>10. WorkAge'
  BY <1>1, <1>2, <1>5, <1>7 DEF WorkAge
<1>11. RowsThere'
  BY <1>1, <1>5, <1>6 DEF RowsThere
<1>12. SeenLive'
  <2> SUFFICES ASSUME work' # Mine!Idle, work'.op \in Mine!TicketOp
               PROVE  project'.hidden = None \/ project'.hidden <= work'.age
    BY DEF SeenLive
  <2>1. work # Mine!Idle /\ work.op \in Mine!TicketOp /\ work'.age = work.age + 1
    BY <1>5
  <2>2. project # None
    BY <2>1 DEF RowsThere, Mine!TicketOp
  <2>3. project.hidden = None \/ project.hidden <= work.age
    BY <2>1 DEF SeenLive
  <2>4. project.hidden \in (0 .. RequestTime + 1) \cup {None}
    BY <2>2 DEF Mine!ProjectRow
  <2>5. project'.hidden = Mine!Older(project.hidden, RequestTime)
    BY <1>6, <2>2
  <2> QED
    BY <2>1, <2>3, <2>4, <2>5 DEF Mine!Older
<1>13. Mine!CreatorExists'
  BY <1>1, <1>6 DEF Mine!CreatorExists
<1> QED
  BY <1>7, <1>8, <1>9, <1>10, <1>11, <1>12, <1>13

\* Every step keeps the invariant.
LEMMA MineNextKeeps == ASSUME Mine!LifetimesOK, MineInv, [Mine!Next]_Mine!vars PROVE MineInv'
<1>1. CASE Mine!Next
  BY <1>1, AuthKeeps, ChangeRoleKeeps, RemoveMineKeeps, RequestReadKeeps, CommitMineKeeps,
     OthersKeep, RollbackKeeps, MineTickKeeps
  DEF Mine!Next
<1>2. CASE UNCHANGED Mine!vars
  BY <1>2
  DEF Mine!vars, MineInv, Mine!TypeOK, AuthAge, TokenAge, WorkAge, RowsThere, SeenLive,
      Mine!CreatorExists
<1> QED
  BY <1>1, <1>2

\* A write with a lost role is in time.
LEMMA WritesInTime ==
    ASSUME Mine!LifetimesOK, MineInv, Mine!Writes, work.claim # role PROVE since < Mine!LastUse
BY MineTimes, MineFields DEF MineInv, Mine!Writes, WorkAge

\* A step that changes a ticket has seen the project live, or is a request
\* that began when it was.
LEMMA TicketChange ==
    ASSUME Mine!LifetimesOK, MineInv, [Mine!Next]_Mine!vars,
           Mine!Content(task)' # Mine!Content(task)
    PROVE  project.hidden = None \/ project.hidden <= RequestTime
<1> USE MineFields, MineTimes DEF MineInv
<1>1. task' # task
  BY DEF Mine!Content
<1>2. CASE Mine!Commit
  <2>1. /\ work # Mine!Idle /\ task' = Mine!WriteTicket(work.op, Mine!Me)
        /\ work.op \in Mine!ProjectOp \cup Mine!TicketOp
        /\ work.age \in 0 .. RequestTime
    BY <1>2 DEF Mine!Commit
  <2>2. work.op \in Mine!TicketOp
    BY <1>1, <2>1, TicketWritten DEF RowsThere
  <2>3. project # None
    BY <2>1, <2>2 DEF RowsThere, Mine!TicketOp
  <2>4. project.hidden \in (0 .. RequestTime + 1) \cup {None}
    BY <2>3 DEF Mine!ProjectRow
  <2> QED
    BY <2>1, <2>2, <2>4 DEF SeenLive
<1>3. CASE Mine!OthersRequest
  <2>1. PICK op \in Mine!ProjectOp \cup Mine!TicketOp :
          Mine!Allowed(op, "admin") /\ task' = Mine!WriteTicket(op, "other")
    BY <1>3 DEF Mine!OthersRequest
  <2>2. op \in Mine!TicketOp
    BY <1>1, <2>1, AllowedSees, TicketWritten
  <2> QED
    BY <2>1, <2>2, AllowedSees
<1>4. CASE Mine!Remove
  <2>1. task' = Mine!Orphaned(task)
    BY <1>4 DEF Mine!Remove
  <2>2. Mine!Content(task)' = Mine!Content(task)
    <3>1. CASE task = None
      BY <2>1, <3>1, OrphanedRows DEF Mine!Content
    <3>2. CASE task # None
      <4>1. task \in Mine!TicketRow
        BY <3>2
      <4>2. task' # None /\ task'.live = task.live /\ task'.text = task.text
        BY <2>1, <4>1, OrphanedRows
      <4> QED
        BY <3>2, <4>2 DEF Mine!Content
    <3> QED
      BY <3>1, <3>2
  <2> QED
    BY <2>2
<1>5. CASE Mine!AuthRead \/ Mine!AuthIssue \/ Mine!AuthFail \/ Mine!ChangeRole
             \/ Mine!RequestRead \/ Mine!Rollback \/ Mine!Tick
  BY <1>1, <1>5
  DEF Mine!AuthRead, Mine!AuthIssue, Mine!AuthFail, Mine!ChangeRole, Mine!RequestRead,
      Mine!Rollback, Mine!Tick, Mine!rows
<1>6. CASE UNCHANGED Mine!vars
  BY <1>1, <1>6 DEF Mine!vars
<1> QED
  BY <1>2, <1>3, <1>4, <1>5, <1>6 DEF Mine!Next

-----------------------------------------------------------------------------
(* The parts together.                                                      *)

PartsNext == SessionsMove \/ MailMoves \/ RoomsMove \/ TenancyMoves \/ MineMoves

\* An execution takes the steps of its part; the other variables stay None.
LEMMA PartsMove ==
    ASSUME [PartsNext]_allVars
    PROVE  /\ part' = part
           /\ [Next]_vars
           /\ part = "mail" => [Mail!Next]_Mail!vars
           /\ part = "rooms" => [Room!Next]_Room!vars
           /\ part = "tenancy" => [Tenant!Next]_Tenant!vars
           /\ part = "mine" => [Mine!Next]_Mine!vars
           /\ part # "mine" => UNCHANGED Mine!vars
BY DEF PartsNext, SessionsMove, MailMoves, RoomsMove, TenancyMoves, MineMoves,
       allVars, mailVars, roomVars, tenantVars, mineVars,
       Mail!vars, Room!vars, Tenant!vars, Mine!vars

LEMMA PartsBegin ==
    ASSUME PartsInit
    PROVE  /\ Init
           /\ part = "mail" => Mail!Init
           /\ part = "rooms" => Room!Init
           /\ part = "tenancy" => Tenant!Init
           /\ part = "mine" => Mine!Init
BY DEF PartsInit

\* What always holds of the parts other than Sessions.
LEMMA MailAlways ==
    PartsSpec /\ [](part = "mail" => InsertsApart) => [](part = "mail" => MailInv)
<1>1. PartsInit => (part = "mail" => MailInv)
  BY PartsBegin, MailInitHolds
<1>2. (part = "mail" => InsertsApart) /\ (part = "mail" => MailInv) /\ [PartsNext]_allVars
        => (part = "mail" => MailInv)'
  BY PartsMove, MailNextKeeps
<1> QED
  BY <1>1, <1>2, PTL DEF PartsSpec, PartsNext

LEMMA RoomsAlways ==
    ASSUME Room!LifetimesOK PROVE PartsSpec => [](part = "rooms" => RoomInv)
<1>1. PartsInit => (part = "rooms" => RoomInv)
  BY PartsBegin, RoomInitHolds
<1>2. (part = "rooms" => RoomInv) /\ [PartsNext]_allVars => (part = "rooms" => RoomInv)'
  BY PartsMove, RoomNextKeeps
<1> QED
  BY <1>1, <1>2, PTL DEF PartsSpec, PartsNext

LEMMA TenancyAlways ==
    ASSUME Tenant!SettingsOK PROVE PartsSpec => [](part = "tenancy" => TenantInv)
<1>1. PartsInit => (part = "tenancy" => TenantInv)
  BY PartsBegin, TenantInitHolds
<1>2. (part = "tenancy" => TenantInv) /\ [PartsNext]_allVars => (part = "tenancy" => TenantInv)'
  BY PartsMove, TenantNextKeeps
<1> QED
  BY <1>1, <1>2, PTL DEF PartsSpec, PartsNext

LEMMA MineAlways ==
    ASSUME Mine!LifetimesOK PROVE PartsSpec => [](part = "mine" => MineInv)
<1>1. PartsInit => (part = "mine" => MineInv)
  BY PartsBegin, MineInitHolds
<1>2. (part = "mine" => MineInv) /\ [PartsNext]_allVars => (part = "mine" => MineInv)'
  BY PartsMove, MineNextKeeps
<1> QED
  BY <1>1, <1>2, PTL DEF PartsSpec, PartsNext

\* The types of Verification alone, however many requests issue links.
LEMMA MailTypesKept ==
    ASSUME Mail!TypeOK, [Mail!Next]_Mail!vars PROVE Mail!TypeOK'
<1>1. CASE Mail!RemoveUser \/ \E k \in Token : Mail!Expire(k)
  BY <1>1 DEF Mail!RemoveUser, Mail!Expire, Mail!TypeOK
<1>2. ASSUME NEW r \in Sender,
             Mail!Signup(r) \/ Mail!SignupInvited(r) \/ Mail!Resend(r) \/ Mail!Crash(r)
      PROVE  Mail!TypeOK'
  BY <1>2
  DEF Mail!Signup, Mail!SignupInvited, Mail!Resend, Mail!Crash, Mail!Goto, Mail!TypeOK
<1>3. ASSUME NEW r \in Sender, Mail!Invalidate(r) \/ Mail!VerifyRead(r) PROVE Mail!TypeOK'
  <2>1. PICK h \in MailHeld : Mail!Goto(r, h) /\ UNCHANGED <<user, mailed>>
    <3>1. Mail!Unused \in SUBSET Token /\ Mail!Is("live") \subseteq Token
      BY DEF Mail!Unused, Mail!Is
    <3> QED
      BY <1>3, <3>1, MailHeldFields DEF Mail!Invalidate, Mail!VerifyRead
  <2> QED
    BY <2>1 DEF MailHeld, Mail!Goto, Mail!TypeOK
<1>4. ASSUME NEW r \in Sender, Mail!Issue(r) PROVE Mail!TypeOK'
  <2>1. mailed' \in [Token -> {"none", "live", "expired", "used"}]
    BY <1>4 DEF Mail!Issue, Mail!TypeOK
  <2> QED
    BY <1>4, <2>1 DEF Mail!Issue, Mail!Goto, Mail!TypeOK
<1>5. ASSUME NEW r \in Sender, Mail!VerifyCommit(r) PROVE Mail!TypeOK'
  BY <1>5 DEF Mail!VerifyCommit, Mail!Goto, Mail!TypeOK
<1>6. CASE UNCHANGED Mail!vars
  BY <1>6 DEF Mail!vars, Mail!TypeOK
<1> QED
  BY <1>1, <1>2, <1>3, <1>4, <1>5, <1>6 DEF Mail!Next

LEMMA MailTypesAlways == PartsSpec => [](part = "mail" => Mail!TypeOK)
<1>1. PartsInit => (part = "mail" => Mail!TypeOK)
  BY PartsBegin, MailInitHolds DEF MailInv
<1>2. (part = "mail" => Mail!TypeOK) /\ [PartsNext]_allVars => (part = "mail" => Mail!TypeOK)'
  BY PartsMove, MailTypesKept
<1> QED
  BY <1>1, <1>2, PTL DEF PartsSpec, PartsNext

\* Links that go are followed by others however requests overlap.
LEMMA FollowedKept ==
    ASSUME Mail!TypeOK, Blank, Followed, [Mail!Next]_Mail!vars PROVE Blank' /\ Followed'
<1>1. ASSUME UNCHANGED <<user, mailed>> PROVE Blank' /\ Followed'
  BY <1>1 DEF Blank, Followed
<1>2. ASSUME NEW r \in Sender, Mail!Signup(r) \/ Mail!SignupInvited(r) PROVE Blank' /\ Followed'
  <2>1. user' # "none" /\ \A k \in Token : mailed'[k] = "none"
    BY <1>2 DEF Mail!Signup, Mail!SignupInvited, Blank
  <2> QED
    BY <2>1 DEF Blank, Followed
<1>3. ASSUME NEW r \in Sender, Mail!Issue(r) PROVE Blank' /\ Followed'
  <2>1. PICK k \in Mail!Is("none") :
           mailed' = [j \in Token |->
             IF j = k THEN "live" ELSE IF j \in confirming[r].swept THEN "used" ELSE mailed[j]]
    BY <1>3 DEF Mail!Issue
  <2>2. k \in Token /\ mailed'[k] = "live"
    BY <2>1 DEF Mail!Is
  <2>3. user' # "none"
    BY <1>3 DEF Mail!Issue, Mail!Exists
  <2> QED
    BY <2>2, <2>3 DEF Blank, Followed
<1>4. ASSUME NEW r \in Sender, Mail!VerifyCommit(r) PROVE Blank' /\ Followed'
  BY <1>4 DEF Mail!VerifyCommit, Blank, Followed
<1>5. ASSUME Mail!RemoveUser PROVE Blank' /\ Followed'
  BY <1>5 DEF Mail!RemoveUser, Blank, Followed
<1>6. ASSUME NEW k \in Token, Mail!Expire(k) PROVE Blank' /\ Followed'
  <2>1. /\ user' = user /\ mailed[k] = "live" /\ mailed'[k] = "expired"
        /\ \A j \in Token : j # k => mailed'[j] = mailed[j]
    BY <1>6 DEF Mail!Expire, Mail!TypeOK
  <2> QED
    BY <2>1 DEF Blank, Followed
<1>7. ASSUME NEW r \in Sender,
             Mail!Resend(r) \/ Mail!Invalidate(r) \/ Mail!VerifyRead(r) \/ Mail!Crash(r)
      PROVE  Blank' /\ Followed'
  BY <1>1, <1>7 DEF Mail!Resend, Mail!Invalidate, Mail!VerifyRead, Mail!Crash
<1> QED
  BY <1>1, <1>2, <1>3, <1>4, <1>5, <1>6, <1>7 DEF Mail!Next, Mail!vars

LEMMA FollowedAlways ==
    PartsSpec => [](part = "mail" => Mail!TypeOK /\ Blank /\ Followed)
<1>1. PartsInit => (part = "mail" => Mail!TypeOK /\ Blank /\ Followed)
  BY PartsBegin, MailInitHolds DEF MailInv
<1>2. /\ part = "mail" => Mail!TypeOK /\ Blank /\ Followed
      /\ [PartsNext]_allVars
      => (part = "mail" => Mail!TypeOK /\ Blank /\ Followed)'
  BY PartsMove, MailTypesKept, FollowedKept
<1> QED
  BY <1>1, <1>2, PTL DEF PartsSpec, PartsNext

LEMMA SessionsAlways == PartsSpec => []IInv
<1>1. PartsInit => IInv
  BY PartsBegin, InitIInv
<1>2. IInv /\ [PartsNext]_allVars => IInv'
  BY PartsMove, NextIInv
<1> QED
  BY <1>1, <1>2, PTL DEF PartsSpec, PartsNext

\* Every part keeps its types.
THEOREM AccessTypes ==
    ASSUME Mail!IssuersOK, Room!LifetimesOK, Tenant!SettingsOK, Mine!LifetimesOK
    PROVE  PartsSpec => []TypesOK
<1>1. IInv /\ (part = "mail" => Mail!TypeOK) /\ (part = "rooms" => RoomInv)
        /\ (part = "tenancy" => TenantInv) /\ (part = "mine" => MineInv) => TypesOK
  BY DEF IInv, RoomInv, TenantInv, MineInv, TypesOK
<1> QED
  BY <1>1, SessionsAlways, MailTypesAlways, RoomsAlways, TenancyAlways, MineAlways, PTL

\* A user has at most one live link and keeps one until the address is
\* confirmed: _issue_verification_token and verify_email of auth.py, whatever
\* comes between their statements but the sweep of a second link.
THEOREM LinksSoundHolds ==
    PartsSpec /\ [](part = "mail" => InsertsApart) => []LinksSound
<1>1. (part = "mail" => MailInv) => LinksSound
  BY MailInvSound DEF LinksSound
<1> QED
  BY <1>1, MailAlways, PTL

\* However sweeps, inserts and confirmations overlap, a user who is not
\* verified and whose links were spent has one that was not: the second half
\* of LinksSound needs no condition. auth.py:165-183 and :519-525.
THEOREM NeverStrandedHolds == PartsSpec => [](part = "mail" => Mail!NeverStranded)
<1>1. (part = "mail" => Mail!TypeOK /\ Blank /\ Followed)
        => (part = "mail" => Mail!NeverStranded)
  BY DEF Followed, Mail!NeverStranded, Mail!Unused, Mail!Is
<1> QED
  BY <1>1, FollowedAlways, PTL

\* A ticket opens one room, and neither a removed user nor the watchers of a
\* deleted project have one beyond the lifetimes: ws.py and ws_tickets.py, for
\* all lifetimes.
THEOREM RoomsSoundHolds == ASSUME Room!LifetimesOK PROVE PartsSpec => []RoomsSound
<1>1. (part = "rooms" => RoomInv) => RoomsSound
  BY RoomInvSound DEF RoomsSound
<1> QED
  BY <1>1, RoomsAlways, PTL

\* No query is told a row of another organisation or a notification of
\* another user, on a pooled connection with whatever history: session.py and
\* the policies of migrations 0003, 0015 and 0016.
THEOREM OnlyOwnRowsHolds == ASSUME Tenant!SettingsOK PROVE PartsSpec => []OnlyOwnRows
<1>1. (part = "tenancy" => TenantInv) => OnlyOwnRows
  BY DEF TenantInv, OnlyOwnRows
<1> QED
  BY <1>1, TenancyAlways, PTL

\* No statement of a handler is refused or finds nothing for lack of its
\* context.
THEOREM StatementsSucceedHolds == ASSUME Tenant!SettingsOK PROVE PartsSpec => []StatementsSucceed
<1>1. (part = "tenancy" => TenantInv) => StatementsSucceed
  BY TenantInvSound DEF StatementsSucceed
<1> QED
  BY <1>1, TenancyAlways, PTL

\* A write with a role that the user has lost commits within the time of a
\* login, the life of a token and the time of a request: deps.py and org.py.
THEOREM StaleRoleEndsHolds == ASSUME Mine!LifetimesOK PROVE PartsSpec => StaleRoleEnds
<1>1. (part = "mine" => MineInv) /\ [PartsNext]_allVars
        => [Mine!Writes /\ work.claim # role => since < Mine!LastUse]_(Mine!vars)
  BY PartsMove, WritesInTime
<1> QED
  BY <1>1, MineAlways, PTL DEF PartsSpec, PartsNext, StaleRoleEnds, Mine!StaleRoleEnds

\* A removed user is the creator of no row, although its requests go on.
THEOREM CreatorExistsHolds == ASSUME Mine!LifetimesOK PROVE PartsSpec => []CreatorExists
<1>1. PartsInit => (part # "mine" => project = None /\ task = None)
  BY DEF PartsInit
<1>2. (part # "mine" => project = None /\ task = None) /\ [PartsNext]_allVars
        => (part # "mine" => project = None /\ task = None)'
  BY PartsMove DEF Mine!vars
<1>3. (part = "mine" => MineInv) /\ (part # "mine" => project = None /\ task = None)
        => CreatorExists
  BY DEF MineInv, CreatorExists, Mine!CreatorExists
<1> QED
  BY <1>1, <1>2, <1>3, MineAlways, PTL DEF PartsSpec, PartsNext

\* The tickets of a deleted project change only while requests that had seen
\* the project live go on: tickets.py.
THEOREM HiddenProjectIsStillHolds ==
    ASSUME Mine!LifetimesOK PROVE PartsSpec => HiddenProjectIsStill
<1>1. (part = "mine" => MineInv) /\ [PartsNext]_allVars
        => [Mine!Content(task)' # Mine!Content(task)
              => project.hidden = None \/ project.hidden <= RequestTime]_(Mine!vars)
  BY PartsMove, TicketChange
<1> QED
  BY <1>1, MineAlways, PTL
  DEF PartsSpec, PartsNext, HiddenProjectIsStill, Mine!HiddenProjectIsStill
=============================================================================
