------------------------ MODULE SprintLifecycleProofs ------------------------
(***************************************************************************)
(* Safety of SprintLifecycle for every set of sprints, tickets, requests   *)
(* and workers.  LockInv is the strengthening the step proofs need: what a *)
(* request that holds row locks may rely on until it commits.  SnapInv is  *)
(* what holds besides where no other request is about to write the tickets *)
(* of a sprint while a completion of it is between its SELECT and commit.  *)
(***************************************************************************)
EXTENDS SprintLifecycle, TLAPS

USE DEF At, UnchangedTables, UnchangedQueue, sprintTable, ticketTable

LEMMA InitTypeOK == Init => TypeOK
BY NoneAssumption DEF Init, TypeOK, Requests, Stage,
   Retro, Status, Idle, Jobs, NoJob

LEMMA BeginTypeOK ==
    ASSUME TypeOK, NEW r \in Request, NEW o, NEW a \in Stage,
           NEW s \in Sprint \cup {None}, NEW T \in SUBSET Ticket,
           Begin(r, o, a, s, T), UNCHANGED <<sprintTable, ticketTable, retroQueue, inHand>>
    PROVE  TypeOK'
BY DEF TypeOK, Begin, Idle, Requests

\* Requests and jobs stay well-formed when a step changes some of their fields.
LEMMA IdleType == Idle \in Requests
BY DEF Requests, Idle, Stage

LEMMA JobTypes ==
    /\ NoJob \in Jobs
    /\ \A s \in Sprint, l \in Retro :
          [sprint |-> s, loaded |-> l, written |-> FALSE] \in Jobs
    /\ \A j \in Jobs : [j EXCEPT !.written = TRUE] \in Jobs
BY DEF Jobs, NoJob, Retro

LEMMA GotoType ==
    ASSUME TypeOK, NEW r \in Request, NEW a \in Stage, Goto(r, a)
    PROVE  /\ req' \in [Request -> Requests]
           /\ req'[r].at = a /\ req'[r].op = req[r].op
           /\ req'[r].sprint = req[r].sprint
           /\ \A x \in Request \ {r} : req'[x] = req[x]
<1>1. ASSUME NEW q \in Requests
      PROVE  /\ [q EXCEPT !.at = a] \in Requests
             /\ [q EXCEPT !.at = a].at = a
             /\ [q EXCEPT !.at = a].op = q.op
             /\ [q EXCEPT !.at = a].sprint = q.sprint
    BY DEF Requests
<1> QED
    BY <1>1 DEF TypeOK, Goto

LEMMA FinishType ==
    ASSUME TypeOK, NEW r \in Request, Finish(r)
    PROVE  /\ req' \in [Request -> Requests]
           /\ req'[r] = Idle
           /\ \A x \in Request \ {r} : req'[x] = req[x]
BY IdleType DEF TypeOK, Finish

\* The three steps of complete_sprint that change several fields of a request.
LEMMA CompleteTypes ==
    ASSUME TypeOK, NEW r \in Request, NEW a \in Stage,
           NEW P \in SUBSET Ticket, NEW H \in SUBSET Ticket,
           \/ req' = [req EXCEPT ![r].at = a, ![r].picked = P]
           \/ req' = [req EXCEPT ![r].at = a, ![r].hit = H]
           \/ req' = [req EXCEPT ![r].at = a, ![r].picked = P, ![r].hit = H]
    PROVE  /\ req' \in [Request -> Requests]
           /\ req'[r].at = a /\ req'[r].op = req[r].op
           /\ req'[r].sprint = req[r].sprint
           /\ req'[r].hit \in {req[r].hit, H}
           /\ \A x \in Request \ {r} : req'[x] = req[x]
<1>1. ASSUME NEW q \in Requests, NEW n,
             \/ n = [q EXCEPT !.at = a, !.picked = P]
             \/ n = [q EXCEPT !.at = a, !.hit = H]
             \/ n = [q EXCEPT !.at = a, !.picked = P, !.hit = H]
      PROVE  /\ n \in Requests
             /\ n.at = a /\ n.op = q.op /\ n.sprint = q.sprint
             /\ n.hit \in {q.hit, H}
  <2>1. CASE n = [q EXCEPT !.at = a, !.picked = P]
      BY <2>1 DEF Requests
  <2>2. CASE n = [q EXCEPT !.at = a, !.hit = H]
      BY <2>2 DEF Requests
  <2>3. CASE n = [q EXCEPT !.at = a, !.picked = P, !.hit = H]
      BY <2>3 DEF Requests
  <2> QED
      BY <1>1, <2>1, <2>2, <2>3
<1>2. CASE req' = [req EXCEPT ![r].at = a, ![r].picked = P]
    BY <1>1, <1>2 DEF TypeOK
<1>3. CASE req' = [req EXCEPT ![r].at = a, ![r].hit = H]
    BY <1>1, <1>3 DEF TypeOK
<1>4. CASE req' = [req EXCEPT ![r].at = a, ![r].picked = P, ![r].hit = H]
    BY <1>1, <1>4 DEF TypeOK
<1> QED
    BY <1>2, <1>3, <1>4

LEMMA CommitMove ==
    ASSUME TypeOK, NEW r \in Request, CompleteCommit(r)
    PROVE  /\ req' \in [Request -> Requests]
           /\ req'[r].at = "publish" /\ req'[r].op = "complete"
           /\ req'[r].sprint = req[r].sprint
           /\ \A x \in Request \ {r} : req'[x] = req[x]
<1>1. /\ {} \in SUBSET Ticket /\ "publish" \in Stage
      /\ req' = [req EXCEPT ![r].at = "publish", ![r].picked = {}, ![r].hit = {}]
    BY DEF CompleteCommit, Stage
<1>2. /\ req' \in [Request -> Requests]
      /\ req'[r].at = "publish" /\ req'[r].op = req[r].op
      /\ req'[r].sprint = req[r].sprint
      /\ \A x \in Request \ {r} : req'[x] = req[x]
    BY <1>1, CompleteTypes
<1>3. req[r].op = "complete"
    BY DEF CompleteCommit
<1> QED
    BY <1>2, <1>3

LEMMA PatchReadType ==
    ASSUME TypeOK, NEW r \in Request, NEW t \in Ticket,
           NEW s \in Sprint \cup {None}, NEW d \in BOOLEAN, PatchRead(r, t, s, d)
    PROVE  /\ req' \in [Request -> Requests]
           /\ req'[r].op = "patch" /\ req'[r].at = "write"
           /\ \A x \in Request \ {r} : req'[x] = req[x]
<1> DEFINE dirty == (IF s # sprintId[t] THEN {"sprint"} ELSE {})
                      \cup (IF d # done[t] THEN {"done"} ELSE {})
           to == IF "sprint" \in dirty THEN s ELSE None
           col == "done" \in dirty /\ d
           q == [Idle EXCEPT !.op = "patch", !.at = "write", !.tickets = {t},
                             !.dirty = dirty, !.sprint = to, !.done = col]
<1>1. /\ dirty \in SUBSET {"sprint", "done"}
      /\ to \in Sprint \cup {None} /\ col \in BOOLEAN
    OBVIOUS
<1>2. /\ "patch" \in Ops /\ req' = [req EXCEPT ![r] = q]
    BY DEF PatchRead
<1> HIDE DEF dirty, to, col
<1>3. q \in Requests /\ q.op = "patch" /\ q.at = "write"
    BY <1>1, <1>2 DEF Idle, Requests, Stage
<1> QED
    BY <1>2, <1>3 DEF TypeOK

LEMMA NextTypeOK == TypeOK /\ [Next]_vars => TypeOK'
<1> SUFFICES ASSUME TypeOK, [Next]_vars PROVE TypeOK'
    OBVIOUS
<1>1. CASE UNCHANGED vars
    BY <1>1 DEF TypeOK, vars
<1>2. ASSUME NEW s \in Sprint, CreateSprint(s) PROVE TypeOK'
    BY <1>2 DEF TypeOK, CreateSprint, Status
<1>3. ASSUME NEW r \in Request, NEW s \in Sprint, StartRead(r, s) PROVE TypeOK'
    BY <1>3, BeginTypeOK DEF StartRead, Stage
<1>4. ASSUME NEW r \in Request, NEW s \in Sprint, CompleteRead(r, s) PROVE TypeOK'
    BY <1>4, BeginTypeOK DEF CompleteRead, Stage
<1>5. ASSUME NEW r \in Request, NEW s \in Sprint, RegenerateRead(r, s) PROVE TypeOK'
    BY <1>5, BeginTypeOK DEF RegenerateRead, Stage
<1>6. ASSUME NEW r \in Request, NEW s \in Sprint, RemoveSprintRead(r, s) PROVE TypeOK'
    BY <1>6, BeginTypeOK DEF RemoveSprintRead, Stage
<1>7. ASSUME NEW r \in Request, NEW s \in Sprint, NEW T \in SUBSET Ticket,
             AssignRead(r, s, T)
      PROVE TypeOK'
    BY <1>7, BeginTypeOK DEF AssignRead, Stage
<1>8. ASSUME NEW r \in Request, NEW s \in Sprint \cup {None}, CreateTicketRead(r, s)
      PROVE TypeOK'
    BY <1>8, BeginTypeOK DEF CreateTicketRead, Stage
<1>9. ASSUME NEW r \in Request, NEW t \in Ticket, TrashRead(r, t) \/ RestoreRead(r, t)
      PROVE TypeOK'
    BY <1>9, BeginTypeOK DEF TrashRead, RestoreRead, Stage
<1>10. ASSUME NEW r \in Request, NEW t \in Ticket, NEW s \in Sprint \cup {None},
              NEW d \in BOOLEAN, PatchRead(r, t, s, d)
       PROVE TypeOK'
  <2>1. UnchangedTables /\ UnchangedQueue
      BY <1>10 DEF PatchRead
  <2> QED
      BY <1>10, <2>1, PatchReadType DEF TypeOK
<1>11. ASSUME NEW r \in Request, RequestStep(r) PROVE TypeOK'
  <2>1. CASE StartCommit(r)
      BY <2>1, FinishType DEF TypeOK, StartCommit, Status
  <2>2. CASE CompleteSelect(r)
    <3>1. Unfinished(req[r].sprint) \in SUBSET Ticket
        BY DEF Unfinished
    <3> QED
        BY <2>2, <3>1, CompleteTypes DEF TypeOK, CompleteSelect, Stage
  <2>3. CASE CompleteUpdate(r)
    <3>1. Unfinished(req[r].sprint) \in SUBSET Ticket
        BY DEF Unfinished
    <3> QED
        BY <2>3, <3>1, CompleteTypes, FinishType DEF TypeOK, CompleteUpdate, Stage
  <2>4. CASE CompleteCommit(r)
    <3>1. req' \in [Request -> Requests]
        BY <2>4, CommitMove
    <3>2. req[r].picked \in SUBSET Ticket
        BY DEF TypeOK, Requests
    <3> QED
        BY <2>4, <3>1, <3>2 DEF TypeOK, CompleteCommit, WriteCompleted, Status, Retro
  <2>5. CASE RegenerateCommit(r)
      BY <2>5, GotoType, FinishType DEF TypeOK, RegenerateCommit, Retro, Stage
  <2>6. CASE Publish(r)
    <3>1. retroQueue' \in [Sprint -> Nat]
      <4>1. retroQueue' = [retroQueue EXCEPT ![req[r].sprint]
                                        = retroQueue[req[r].sprint] + 1]
          BY <2>6 DEF Publish
      <4>2. \A x \in Sprint : retroQueue[x] + 1 \in Nat
          BY DEF TypeOK
      <4> QED
          BY <4>1, <4>2 DEF TypeOK
    <3>2. req' \in [Request -> Requests] /\ UnchangedTables /\ UNCHANGED inHand
        BY <2>6, FinishType DEF Publish
    <3> QED
        BY <3>1, <3>2 DEF TypeOK
  <2>7. CASE RemoveSprintSelect(r) \/ AssignSelect(r)
      BY <2>7, GotoType, FinishType
         DEF TypeOK, RemoveSprintSelect, AssignSelect, Stage
  <2>8. CASE RemoveSprintCommit(r)
      BY <2>8, FinishType DEF TypeOK, RemoveSprintCommit, Status
  <2>9. CASE AssignCommit(r)
    <3>1. req[r].sprint \in Sprint \cup {None}
        BY DEF TypeOK, Requests
    <3> QED
        BY <2>9, <3>1, FinishType DEF TypeOK, AssignCommit
  <2>10. CASE CreateTicketCommit(r)
    <3>1. req[r].sprint \in Sprint \cup {None}
        BY DEF TypeOK, Requests
    <3> QED
        BY <2>10, <3>1, FinishType DEF TypeOK, CreateTicketCommit
  <2>11. CASE PatchCommit(r)
    <3>1. req[r].sprint \in Sprint \cup {None} /\ req[r].done \in BOOLEAN
        BY DEF TypeOK, Requests
    <3> QED
        BY <2>11, <3>1, FinishType DEF TypeOK, PatchCommit
  <2>12. CASE TrashOrRestoreCommit(r)
      BY <2>12, FinishType DEF TypeOK, TrashOrRestoreCommit
  <2>13. QED
      BY <1>11, <2>1, <2>2, <2>3, <2>4, <2>5, <2>6, <2>7, <2>8, <2>9, <2>10,
         <2>11, <2>12 DEF RequestStep
<1>12. ASSUME NEW r \in Request, Crash(r) PROVE TypeOK'
    BY <1>12, FinishType DEF TypeOK, Crash
<1>13. ASSUME NEW w \in Worker, NEW s \in Sprint, WorkerTake(w, s) PROVE TypeOK'
    BY <1>13, JobTypes DEF TypeOK, WorkerTake
<1>14. ASSUME NEW w \in Worker, NEW result \in {"completed", "failed"},
              WorkerWrite(w, result)
       PROVE TypeOK'
  <2>1. inHand' \in [Worker -> Jobs]
      BY <1>14, JobTypes DEF TypeOK, WorkerWrite
  <2> QED
      BY <1>14, <2>1 DEF TypeOK, WorkerWrite, Retro
<1>15. ASSUME NEW w \in Worker, WorkerAck(w) \/ WorkerRequeue(w) PROVE TypeOK'
    BY <1>15, JobTypes DEF TypeOK, WorkerAck, WorkerRequeue
<1> QED
    BY <1>1, <1>2, <1>3, <1>4, <1>5, <1>6, <1>7, <1>8, <1>9, <1>10, <1>11,
       <1>12, <1>13, <1>14, <1>15 DEF Next, WorkerStep

\* Every variable keeps its type: what each table and each request in progress
\* may hold, for any sprints, tickets, requests and consumers.
THEOREM SprintTypes == Spec => []TypeOK
BY InitTypeOK, NextTypeOK, PTL DEF Spec
-----------------------------------------------------------------------------
\* Which steps can change a column: every other step leaves it alone.
SprintWriters ==
    \/ UNCHANGED sprintTable
    \/ \E s \in Sprint : CreateSprint(s)
    \/ \E r \in Request :
         StartCommit(r) \/ CompleteCommit(r) \/ RegenerateCommit(r)
           \/ RemoveSprintCommit(r)
    \/ \E w \in Worker, result \in {"completed", "failed"} : WorkerWrite(w, result)

PlanWriters ==
    \/ UNCHANGED ticketTable
    \/ \E r \in Request :
         CompleteCommit(r) \/ AssignCommit(r) \/ CreateTicketCommit(r)
           \/ PatchCommit(r) \/ TrashOrRestoreCommit(r)

LEMMA Writers == ASSUME [Next]_vars PROVE SprintWriters /\ PlanWriters
<1>1. ASSUME NEW r \in Request, RequestStep(r) PROVE SprintWriters /\ PlanWriters
  <2>1. CASE StartCommit(r) \/ RegenerateCommit(r) \/ RemoveSprintCommit(r)
      BY <2>1 DEF SprintWriters, PlanWriters, StartCommit, RegenerateCommit,
                  RemoveSprintCommit
  <2>2. CASE CompleteCommit(r)
      BY <2>2 DEF SprintWriters, PlanWriters
  <2>3. CASE AssignCommit(r) \/ CreateTicketCommit(r) \/ PatchCommit(r)
      BY <2>3 DEF SprintWriters, PlanWriters, AssignCommit, CreateTicketCommit,
                  PatchCommit
  <2>4. CASE \/ CompleteSelect(r) \/ CompleteUpdate(r) \/ Publish(r)
             \/ RemoveSprintSelect(r) \/ AssignSelect(r) \/ TrashOrRestoreCommit(r)
      BY <2>4 DEF SprintWriters, PlanWriters, CompleteSelect, CompleteUpdate,
                  Publish, RemoveSprintSelect, AssignSelect, TrashOrRestoreCommit
  <2> QED
      BY <1>1, <2>1, <2>2, <2>3, <2>4 DEF RequestStep
<1>2. ASSUME NEW w \in Worker, WorkerStep(w) \/ WorkerRequeue(w)
      PROVE  SprintWriters /\ PlanWriters
  <2>1. CASE (\E s \in Sprint : WorkerTake(w, s)) \/ WorkerAck(w) \/ WorkerRequeue(w)
      BY <2>1 DEF WorkerTake, WorkerAck, WorkerRequeue, SprintWriters, PlanWriters
  <2>2. CASE \E result \in {"completed", "failed"} : WorkerWrite(w, result)
      BY <2>2 DEF WorkerWrite, SprintWriters, PlanWriters
  <2> QED
      BY <1>2, <2>1, <2>2 DEF WorkerStep
<1>3. ASSUME NEW r \in Request, NEW s \in Sprint,
             \/ StartRead(r, s) \/ CompleteRead(r, s) \/ RegenerateRead(r, s)
             \/ RemoveSprintRead(r, s)
             \/ \E T \in SUBSET Ticket : AssignRead(r, s, T)
      PROVE  SprintWriters /\ PlanWriters
    BY <1>3 DEF StartRead, CompleteRead, RegenerateRead, RemoveSprintRead,
                AssignRead, SprintWriters, PlanWriters
<1>4. ASSUME NEW r \in Request,
             \/ \E s \in Sprint \cup {None} : CreateTicketRead(r, s)
             \/ \E t \in Ticket : TrashRead(r, t) \/ RestoreRead(r, t)
             \/ Crash(r)
      PROVE  SprintWriters /\ PlanWriters
    BY <1>4 DEF CreateTicketRead, TrashRead, RestoreRead, Crash,
                SprintWriters, PlanWriters
<1>5. ASSUME NEW r \in Request, NEW t \in Ticket, NEW s \in Sprint \cup {None},
             NEW d \in BOOLEAN, PatchRead(r, t, s, d)
      PROVE  SprintWriters /\ PlanWriters
    BY <1>5 DEF PatchRead, SprintWriters, PlanWriters
<1>6. ASSUME NEW s \in Sprint, CreateSprint(s) PROVE SprintWriters /\ PlanWriters
    BY <1>6 DEF CreateSprint, SprintWriters, PlanWriters
<1>7. CASE UNCHANGED vars
    BY <1>7 DEF vars, SprintWriters, PlanWriters
<1> QED
    BY <1>1, <1>2, <1>3, <1>4, <1>5, <1>6, <1>7 DEF Next

SafeInv == OneActive /\ CompletedHasRetro /\ TicketSprintExists

LEMMA InitSafe == Init => SafeInv
BY NoneAssumption DEF Init, SafeInv, OneActive, CompletedHasRetro, TicketSprintExists

LEMMA StepSafe == TypeOK /\ SafeInv /\ [Next]_vars => SafeInv'
<1> SUFFICES ASSUME TypeOK, SafeInv, [Next]_vars PROVE SafeInv'
    OBVIOUS
<1>1. SprintWriters /\ PlanWriters
    BY Writers
<1>2. OneActive'
  <2>1. ASSUME NEW r \in Request, StartCommit(r) PROVE OneActive'
      BY <2>1 DEF TypeOK, SafeInv, OneActive, StartCommit, MayActivate, OtherActive
  <2>2. ASSUME NEW r \in Request, CompleteCommit(r) PROVE OneActive'
      BY <2>2 DEF TypeOK, SafeInv, OneActive, CompleteCommit, WriteCompleted
  <2>3. ASSUME NEW r \in Request, RemoveSprintCommit(r) PROVE OneActive'
      BY <2>3 DEF TypeOK, SafeInv, OneActive, RemoveSprintCommit
  <2>4. ASSUME NEW s \in Sprint, CreateSprint(s) PROVE OneActive'
      BY <2>4 DEF TypeOK, SafeInv, OneActive, CreateSprint
  <2>5. CASE UNCHANGED status
      BY <2>5 DEF SafeInv, OneActive
  <2> QED
      BY <1>1, <2>1, <2>2, <2>3, <2>4, <2>5
         DEF SprintWriters, RegenerateCommit, WorkerWrite
<1>3. CompletedHasRetro'
  <2>1. ASSUME NEW r \in Request, CompleteCommit(r) PROVE CompletedHasRetro'
    <3>1. req[r].picked # None
        BY NoneAssumption DEF TypeOK, Requests
    <3> QED
        BY <2>1, <3>1, NoneAssumption
           DEF TypeOK, SafeInv, CompletedHasRetro, CompleteCommit, WriteCompleted
  <2>2. ASSUME NEW r \in Request, StartCommit(r) \/ RemoveSprintCommit(r)
        PROVE  CompletedHasRetro'
      BY <2>2 DEF TypeOK, SafeInv, CompletedHasRetro, StartCommit, RemoveSprintCommit
  <2>3. ASSUME NEW r \in Request, RegenerateCommit(r) PROVE CompletedHasRetro'
      BY <2>3, NoneAssumption
         DEF TypeOK, SafeInv, CompletedHasRetro, RegenerateCommit
  <2>4. ASSUME NEW w \in Worker, NEW result \in {"completed", "failed"},
               WorkerWrite(w, result)
        PROVE  CompletedHasRetro'
      BY <2>4, NoneAssumption DEF TypeOK, SafeInv, CompletedHasRetro, WorkerWrite
  <2>5. ASSUME NEW s \in Sprint, CreateSprint(s) PROVE CompletedHasRetro'
      BY <2>5 DEF TypeOK, SafeInv, CompletedHasRetro, CreateSprint
  <2>6. CASE UNCHANGED sprintTable
      BY <2>6 DEF SafeInv, CompletedHasRetro
  <2> QED
      BY <1>1, <2>1, <2>2, <2>3, <2>4, <2>5, <2>6 DEF SprintWriters
<1>4. TicketSprintExists'
  <2>1. ASSUME NEW r \in Request, CompleteCommit(r) PROVE TicketSprintExists'
      BY <2>1 DEF TypeOK, SafeInv, TicketSprintExists, CompleteCommit,
                  WriteCompleted, Exists
  <2>2. ASSUME NEW r \in Request,
               AssignCommit(r) \/ CreateTicketCommit(r) \/ PatchCommit(r)
        PROVE  TicketSprintExists'
      BY <2>2 DEF TypeOK, SafeInv, TicketSprintExists, AssignCommit,
                  CreateTicketCommit, PatchCommit, Exists
  <2>3. ASSUME NEW r \in Request, StartCommit(r) PROVE TicketSprintExists'
      BY <2>3 DEF TypeOK, SafeInv, TicketSprintExists, StartCommit, Exists
  <2>4. ASSUME NEW r \in Request, RemoveSprintCommit(r) PROVE TicketSprintExists'
      BY <2>4 DEF TypeOK, SafeInv, TicketSprintExists, RemoveSprintCommit,
                  Referenced, Exists
  <2>5. ASSUME NEW s \in Sprint, CreateSprint(s) PROVE TicketSprintExists'
      BY <2>5 DEF TypeOK, SafeInv, TicketSprintExists, CreateSprint, Exists
  <2>6. CASE UNCHANGED <<status, sprintId>>
      BY <2>6 DEF SafeInv, TicketSprintExists, Exists
  <2> QED
      BY <1>1, <2>1, <2>2, <2>3, <2>4, <2>5, <2>6
         DEF SprintWriters, PlanWriters, RegenerateCommit, WorkerWrite,
             TrashOrRestoreCommit
<1> QED
    BY <1>2, <1>3, <1>4 DEF SafeInv

\* At most one sprint of the project is active, for any number of concurrent
\* requests: only start_sprint's commit makes one, under the unique index.
THEOREM OneActiveHolds == Spec => []OneActive
<1>1. SafeInv => OneActive
    BY DEF SafeInv
<1> QED
    BY InitTypeOK, NextTypeOK, InitSafe, StepSafe, <1>1, PTL DEF Spec

\* A completed sprint has its retro status and its snapshot in every state.
THEOREM CompletedHasRetroHolds == Spec => []CompletedHasRetro
<1>1. SafeInv => CompletedHasRetro
    BY DEF SafeInv
<1> QED
    BY InitTypeOK, NextTypeOK, InitSafe, StepSafe, <1>1, PTL DEF Spec

\* No interleaving of deletes, assigns and patches leaves a ticket pointing at
\* a sprint that is gone.
THEOREM TicketSprintExistsHolds == Spec => []TicketSprintExists
<1>1. SafeInv => TicketSprintExists
    BY DEF SafeInv
<1> QED
    BY InitTypeOK, NextTypeOK, InitSafe, StepSafe, <1>1, PTL DEF Spec

\* The sprints of a project implement ActiveSlot: start_sprint fills the place
\* only when it is empty, completing or deleting the active sprint empties it.
THEOREM SlotRefinement == Spec => SlotSpec
<1>1. Init => Slot!Init
    BY DEF Init, Slot!Init
<1>2. TypeOK /\ SafeInv /\ [Next]_vars
        => [Slot!Next]_({s \in Sprint : status[s] = "active"})
  <2> DEFINE H == {s \in Sprint : status[s] = "active"}
  <2> SUFFICES ASSUME TypeOK, SafeInv, [Next]_vars
               PROVE  Slot!Next \/ H' = H
      OBVIOUS
  <2>1. ASSUME NEW r \in Request, StartCommit(r) PROVE Slot!Next \/ H' = H
    <3> DEFINE s == req[r].sprint
    <3>1. CASE s \in Sprint /\ MayActivate(s) /\ status[s] # "active"
      <4>1. H = {} /\ H' = {s}
          BY <2>1, <3>1 DEF TypeOK, StartCommit, MayActivate, OtherActive
      <4> QED
          BY <3>1, <4>1 DEF Slot!Next, Slot!Take
    <3>2. CASE ~(s \in Sprint /\ MayActivate(s) /\ status[s] # "active")
        BY <2>1, <3>2 DEF TypeOK, StartCommit
    <3> QED
        BY <3>1, <3>2
  <2>2. ASSUME NEW r \in Request, CompleteCommit(r) \/ RemoveSprintCommit(r)
        PROVE  Slot!Next \/ H' = H
    <3> DEFINE s == req[r].sprint
    <3>1. \/ status' = [status EXCEPT ![s] = "completed"]
          \/ status' = [status EXCEPT ![s] = "deleted"]
          \/ UNCHANGED status
        BY <2>2 DEF CompleteCommit, WriteCompleted, RemoveSprintCommit
    <3>2. CASE s \in H
      <4>1. H = {s}
          BY <3>2 DEF SafeInv, OneActive
      <4>2. H' = {} \/ H' = H
          BY <3>1, <4>1 DEF TypeOK
      <4> QED
          BY <4>1, <4>2 DEF Slot!Next, Slot!Leave
    <3>3. CASE s \notin H
        BY <3>1, <3>3 DEF TypeOK
    <3> QED
        BY <3>2, <3>3
  <2>3. ASSUME NEW s \in Sprint, CreateSprint(s) PROVE H' = H
      BY <2>3 DEF TypeOK, CreateSprint
  <2>4. CASE UNCHANGED status
      BY <2>4
  <2> QED
      BY Writers, <2>1, <2>2, <2>3, <2>4
         DEF SprintWriters, RegenerateCommit, WorkerWrite
<1> QED
    BY InitTypeOK, NextTypeOK, InitSafe, StepSafe, <1>1, <1>2, PTL
       DEF Spec, SlotSpec, Slot!Spec
-----------------------------------------------------------------------------
\* How a step moves a request: all steps but these three end it, begin it, or
\* take it to its next SELECT or write.
RequestMove(r) ==
    /\ \A x \in Request \ {r} : req'[x] = req[x]
    /\ \/ req'[r] = Idle
       \/ /\ req'[r].at \in {"select", "write"}
          /\ \/ req'[r].op = req[r].op /\ req'[r].sprint = req[r].sprint
             \/ req'[r].op \in {"complete", "regenerate"} => req'[r].sprint \in Sprint
       \/ CompleteUpdate(r) \/ CompleteCommit(r) \/ RegenerateCommit(r)

LEMMA BeginMove ==
    ASSUME TypeOK, NEW r \in Request, NEW o, NEW a \in {"select", "write"},
           NEW s \in Sprint \cup {None}, NEW T \in SUBSET Ticket,
           Begin(r, o, a, s, T), o \in {"complete", "regenerate"} => s \in Sprint
    PROVE  RequestMove(r)
BY DEF Begin, TypeOK, Idle, RequestMove

LEMMA Moves ==
    ASSUME TypeOK, [Next]_vars
    PROVE  UNCHANGED req \/ \E r \in Request : RequestMove(r)
<1>1. ASSUME NEW r \in Request, NEW s \in Sprint,
             \/ StartRead(r, s) \/ CompleteRead(r, s) \/ RegenerateRead(r, s)
             \/ RemoveSprintRead(r, s)
             \/ \E T \in SUBSET Ticket : AssignRead(r, s, T)
      PROVE  RequestMove(r)
  <2>1. PICK o \in {"start", "complete", "regenerate", "removeSprint", "assign"},
             a \in {"select", "write"}, T \in SUBSET Ticket : Begin(r, o, a, s, T)
      BY <1>1 DEF StartRead, CompleteRead, RegenerateRead, RemoveSprintRead, AssignRead
  <2> QED
      BY <2>1, BeginMove
<1>2. ASSUME NEW r \in Request,
             \/ \E s \in Sprint \cup {None} : CreateTicketRead(r, s)
             \/ \E t \in Ticket : TrashRead(r, t) \/ RestoreRead(r, t)
      PROVE  RequestMove(r)
  <2>1. PICK o \in {"create", "trash", "restore"}, s \in Sprint \cup {None},
             T \in SUBSET Ticket : Begin(r, o, "write", s, T)
    <3>1. CASE \E s \in Sprint \cup {None} : CreateTicketRead(r, s)
        BY <3>1 DEF CreateTicketRead
    <3>2. CASE \E t \in Ticket : TrashRead(r, t) \/ RestoreRead(r, t)
        BY <3>2 DEF TrashRead, RestoreRead
    <3> QED
        BY <1>2, <3>1, <3>2
  <2> QED
      BY <2>1, BeginMove
<1>3. ASSUME NEW r \in Request, NEW t \in Ticket, NEW s \in Sprint \cup {None},
             NEW d \in BOOLEAN, PatchRead(r, t, s, d)
      PROVE  RequestMove(r)
    BY <1>3, PatchReadType DEF RequestMove
<1>4. ASSUME NEW r \in Request, RequestStep(r) PROVE RequestMove(r)
  <2>1. CASE \/ StartCommit(r) \/ Publish(r) \/ RemoveSprintCommit(r)
             \/ AssignCommit(r) \/ CreateTicketCommit(r) \/ PatchCommit(r)
             \/ TrashOrRestoreCommit(r)
    <3>1. Finish(r)
        BY <2>1 DEF StartCommit, Publish, RemoveSprintCommit, AssignCommit,
                    CreateTicketCommit, PatchCommit, TrashOrRestoreCommit
    <3> QED
        BY <3>1, FinishType DEF RequestMove
  <2>2. CASE RemoveSprintSelect(r) \/ AssignSelect(r)
    <3>1. Finish(r) \/ Goto(r, "write")
        BY <2>2 DEF RemoveSprintSelect, AssignSelect
    <3> QED
        BY <3>1, FinishType, GotoType DEF RequestMove, Stage
  <2>3. CASE CompleteSelect(r)
    <3>1. /\ Unfinished(req[r].sprint) \in SUBSET Ticket
          /\ req' = [req EXCEPT ![r].at = "write",
                                ![r].picked = Unfinished(req[r].sprint)]
        BY <2>3 DEF Unfinished, CompleteSelect
    <3> QED
        BY <3>1, CompleteTypes DEF RequestMove, Stage
  <2>4. CASE CompleteUpdate(r)
    <3>1. Unfinished(req[r].sprint) \in SUBSET Ticket
        BY DEF Unfinished
    <3> QED
        BY <2>4, <3>1, CompleteTypes, FinishType DEF CompleteUpdate, RequestMove, Stage
  <2>5. CASE CompleteCommit(r)
    BY <2>5, CommitMove DEF RequestMove
  <2>6. CASE RegenerateCommit(r)
    <3>1. Finish(r) \/ Goto(r, "publish")
        BY <2>6 DEF RegenerateCommit
    <3> QED
        BY <2>6, <3>1, FinishType, GotoType DEF RequestMove, Stage
  <2> QED
      BY <1>4, <2>1, <2>2, <2>3, <2>4, <2>5, <2>6 DEF RequestStep
<1>5. ASSUME NEW r \in Request, Crash(r) PROVE RequestMove(r)
    BY <1>5, FinishType DEF Crash, RequestMove
<1>6. ASSUME NEW w \in Worker, WorkerStep(w) \/ WorkerRequeue(w) PROVE UNCHANGED req
    BY <1>6 DEF WorkerStep, WorkerTake, WorkerWrite, WorkerAck, WorkerRequeue
<1>7. ASSUME NEW s \in Sprint, CreateSprint(s) PROVE UNCHANGED req
    BY <1>7 DEF CreateSprint
<1>8. CASE UNCHANGED vars
    BY <1>8 DEF vars
<1> QED
    BY <1>1, <1>2, <1>3, <1>4, <1>5, <1>6, <1>7, <1>8 DEF Next

\* A request to complete a sprint, or to write its retro again, names it.
ArgInv ==
    \A r \in Request :
        /\ req[r].op \in {"complete", "regenerate"} => req[r].sprint \in Sprint
        /\ req[r].at \in {"locked", "publish"}
             => req[r].op \in {"complete", "regenerate"}

\* While complete_sprint holds its locks the sprint cannot go, the rows it
\* matched still match, and nobody else has locked the same sprint row.
LockInv ==
    \A r \in Request : req[r].at = "locked" =>
        /\ Exists(req[r].sprint)
        /\ req[r].hit \subseteq Unfinished(req[r].sprint)
        /\ \A x \in Request : req[x].at = "locked" /\ req[x].sprint = req[r].sprint
                                => x = r

\* A sprint with a retro job anywhere on its way to a consumer has a retro
\* status: the job was published after the commit that wrote it.
JobInv ==
    /\ \A s \in Sprint : retroQueue[s] > 0 => retro[s] # None
    /\ \A r \in Request : req[r].at = "publish" => retro[req[r].sprint] # None
    /\ \A w \in Worker : inHand[w].sprint \in Sprint => retro[inHand[w].sprint] # None

LEMMA InitInv == Init => ArgInv /\ LockInv /\ JobInv
BY NoneAssumption DEF Init, ArgInv, LockInv, JobInv, Idle, NoJob, AllOps

LEMMA StepArg == ASSUME TypeOK, ArgInv, [Next]_vars PROVE ArgInv'
<1>1. CASE UNCHANGED req
    BY <1>1 DEF ArgInv
<1>2. ASSUME NEW r \in Request, RequestMove(r) PROVE ArgInv'
  <2>1. CASE CompleteUpdate(r) \/ CompleteCommit(r) \/ RegenerateCommit(r)
    <3>1. /\ req'[r] = Idle \/ (req'[r].op = req[r].op /\ req'[r].sprint = req[r].sprint)
          /\ req[r].op \in {"complete", "regenerate"}
      <4>1. CASE CompleteUpdate(r)
        <5>1. Unfinished(req[r].sprint) \in SUBSET Ticket
            BY DEF Unfinished
        <5> QED
            BY <4>1, <5>1, CompleteTypes, FinishType DEF CompleteUpdate, Stage
      <4>2. CASE CompleteCommit(r)
          BY <4>2, CommitMove DEF CompleteCommit
      <4>3. CASE RegenerateCommit(r)
        <5>1. Finish(r) \/ Goto(r, "publish")
            BY <4>3 DEF RegenerateCommit
        <5> QED
            BY <4>3, <5>1, FinishType, GotoType DEF RegenerateCommit, Stage
      <4> QED
          BY <2>1, <4>1, <4>2, <4>3
    <3> QED
        BY <1>2, <3>1, NoneAssumption DEF RequestMove, ArgInv, Idle, AllOps
  <2>2. CASE ~(CompleteUpdate(r) \/ CompleteCommit(r) \/ RegenerateCommit(r))
      BY <1>2, <2>2, OpsAssumption, NoneAssumption DEF RequestMove, ArgInv, Idle, AllOps
  <2> QED
      BY <2>1, <2>2
<1> QED
    BY Moves, <1>1, <1>2

\* A request that holds locks after a step held them before, or just took them.
LEMMA Lockers ==
    ASSUME TypeOK, [Next]_vars, NEW x \in Request, req'[x].at = "locked"
    PROVE  \/ req'[x] = req[x] /\ ~CompleteCommit(x)
           \/ /\ CompleteUpdate(x) /\ ~LockedSprint(req[x].sprint)
              /\ Exists(req[x].sprint)
              /\ req'[x].sprint = req[x].sprint /\ req[x].op = "complete"
              /\ req'[x].hit \subseteq Unfinished(req[x].sprint)
              /\ \A y \in Request \ {x} : req'[y] = req[y]
<1>1. ASSUME CompleteCommit(x) PROVE FALSE
    BY <1>1, CommitMove
<1>2. CASE CompleteUpdate(x)
  <2>1. /\ ~LockedSprint(req[x].sprint) /\ req[x].op = "complete"
        /\ Unfinished(req[x].sprint) \in SUBSET Ticket
      BY <1>2 DEF CompleteUpdate, Unfinished
  <2>2. CASE Exists(req[x].sprint)
    <3>1. req' = [req EXCEPT ![x].at = "locked", ![x].hit = Unfinished(req[x].sprint)]
        BY <1>2, <2>2 DEF CompleteUpdate
    <3>2. req'[x].hit = Unfinished(req[x].sprint)
      <4>1. ASSUME NEW q \in Requests, NEW H
            PROVE  [q EXCEPT !.at = "locked", !.hit = H].hit = H
          BY DEF Requests
      <4> QED
          BY <3>1, <4>1 DEF TypeOK
    <3> QED
        BY <1>2, <2>1, <2>2, <3>1, <3>2, CompleteTypes DEF Stage
  <2>3. CASE ~Exists(req[x].sprint)
    <3>1. Finish(x)
        BY <1>2, <2>3 DEF CompleteUpdate
    <3> QED
        BY <3>1, FinishType DEF Idle
  <2> QED
      BY <2>2, <2>3
<1>3. ASSUME RegenerateCommit(x) PROVE FALSE
  <2>1. Finish(x) \/ Goto(x, "publish")
      BY <1>3 DEF RegenerateCommit
  <2> QED
      BY <2>1, FinishType, GotoType DEF Idle, Stage
<1>4. CASE UNCHANGED req
    BY <1>1, <1>4
<1>5. ASSUME NEW r \in Request, RequestMove(r) PROVE req'[x] = req[x] \/ CompleteUpdate(x)
    BY <1>1, <1>3, <1>5 DEF RequestMove, Idle
<1> QED
    BY Moves, <1>1, <1>2, <1>4, <1>5

\* Nobody changes a sprint row or a ticket row that x has locked.
LEMMA LocksHold ==
    ASSUME TypeOK, ArgInv, LockInv, [Next]_vars,
           NEW x \in Request, req[x].at = "locked", ~CompleteCommit(x)
    PROVE  /\ status'[req[x].sprint] = status[req[x].sprint]
           /\ \A t \in req[x].hit :
                 life'[t] = "live" /\ sprintId'[t] = req[x].sprint /\ ~done'[t]
<1> DEFINE s == req[x].sprint
<1>1. /\ s \in Sprint /\ Exists(s) /\ LockedSprint(s)
      /\ \A t \in req[x].hit : t \in Ticket /\ LockedTicket(t) /\ Live(t)
                                 /\ sprintId[t] = s /\ ~done[t]
    BY DEF ArgInv, LockInv, LockedSprint, LockedTicket, Unfinished
<1>2. ASSUME NEW y \in Request, CompleteCommit(y) PROVE req[y].sprint # s
    BY <1>2 DEF CompleteCommit, LockInv
<1>3. status'[s] = status[s]
  <2>1. ASSUME NEW y \in Request, CompleteCommit(y) PROVE status'[s] = status[s]
      BY <1>1, <1>2, <2>1 DEF CompleteCommit, WriteCompleted, TypeOK
  <2>2. ASSUME NEW y \in Request, StartCommit(y) \/ RemoveSprintCommit(y)
        PROVE  status'[s] = status[s]
      BY <1>1, <2>2 DEF StartCommit, RemoveSprintCommit, TypeOK
  <2>3. ASSUME NEW z \in Sprint, CreateSprint(z) PROVE status'[s] = status[s]
      BY <1>1, <2>3 DEF CreateSprint, TypeOK, Exists
  <2> QED
      BY Writers, <2>1, <2>2, <2>3 DEF SprintWriters, RegenerateCommit, WorkerWrite
<1>4. ASSUME NEW t \in req[x].hit
      PROVE  life'[t] = life[t] /\ sprintId'[t] = sprintId[t] /\ done'[t] = done[t]
  <2>1. ASSUME NEW y \in Request, CompleteCommit(y)
        PROVE  life'[t] = life[t] /\ sprintId'[t] = sprintId[t] /\ done'[t] = done[t]
    <3>1. t \notin req[y].hit
      <4>1. req[y].at = "locked"
          BY <2>1 DEF CompleteCommit
      <4> QED
          BY <1>1, <1>2, <2>1, <4>1 DEF LockInv, Unfinished
    <3> QED
        BY <1>1, <2>1, <3>1 DEF CompleteCommit
  <2>2. ASSUME NEW y \in Request, AssignCommit(y)
        PROVE  life'[t] = life[t] /\ sprintId'[t] = sprintId[t] /\ done'[t] = done[t]
      BY <1>1, <2>2 DEF AssignCommit
  <2>3. ASSUME NEW y \in Request, CreateTicketCommit(y)
        PROVE  life'[t] = life[t] /\ sprintId'[t] = sprintId[t] /\ done'[t] = done[t]
      BY <1>1, <2>3 DEF CreateTicketCommit, Live, TypeOK
  <2>4. ASSUME NEW y \in Request, PatchCommit(y)
        PROVE  life'[t] = life[t] /\ sprintId'[t] = sprintId[t] /\ done'[t] = done[t]
      BY <1>1, <2>4 DEF PatchCommit, TypeOK
  <2>5. ASSUME NEW y \in Request, TrashOrRestoreCommit(y)
        PROVE  life'[t] = life[t] /\ sprintId'[t] = sprintId[t] /\ done'[t] = done[t]
      BY <1>1, <2>5 DEF TrashOrRestoreCommit, TypeOK
  <2> QED
      BY Writers, <2>1, <2>2, <2>3, <2>4, <2>5 DEF PlanWriters
<1> QED
    BY <1>1, <1>3, <1>4 DEF Live

LEMMA StepLock == ASSUME TypeOK, ArgInv, LockInv, [Next]_vars PROVE LockInv'
<1> SUFFICES ASSUME NEW r \in Request, req'[r].at = "locked"
             PROVE  /\ status'[req'[r].sprint] \in {"planned", "active", "completed"}
                    /\ \A t \in req'[r].hit :
                         /\ t \in Ticket /\ life'[t] = "live"
                         /\ sprintId'[t] = req'[r].sprint /\ ~done'[t]
                    /\ \A x \in Request :
                         req'[x].at = "locked" /\ req'[x].sprint = req'[r].sprint => x = r
    BY DEF LockInv, Unfinished, Exists, Live
<1>1. CASE req'[r] = req[r] /\ ~CompleteCommit(r)
  <2>1. \A t \in req[r].hit : t \in Ticket
      BY <1>1 DEF LockInv, Unfinished
  <2>2. ASSUME NEW x \in Request, req'[x].at = "locked", req'[x].sprint = req'[r].sprint
        PROVE  x = r
      BY <1>1, <2>2, Lockers DEF LockInv, LockedSprint
  <2>3. Exists(req[r].sprint)
      BY <1>1 DEF LockInv
  <2> QED
      BY <1>1, <2>1, <2>2, <2>3, LocksHold DEF Exists
<1>2. CASE ~(req'[r] = req[r] /\ ~CompleteCommit(r))
  <2>1. /\ CompleteUpdate(r) /\ ~LockedSprint(req[r].sprint) /\ Exists(req[r].sprint)
        /\ req'[r].sprint = req[r].sprint
        /\ req'[r].hit \subseteq Unfinished(req[r].sprint)
        /\ \A y \in Request \ {r} : req'[y] = req[y]
      BY <1>2, Lockers
  <2>2. UNCHANGED <<sprintTable, ticketTable>>
      BY <2>1 DEF CompleteUpdate
  <2>3. ASSUME NEW x \in Request, req'[x].at = "locked", req'[x].sprint = req'[r].sprint
        PROVE  x = r
      BY <2>1, <2>3 DEF LockedSprint
  <2> QED
      BY <2>1, <2>2, <2>3 DEF Exists, Live, Unfinished
<1> QED
    BY <1>1, <1>2

\* Completing a sprint takes off it only live tickets that are unfinished at
\* that moment, whatever other requests did since its SELECT.
THEOREM FinishedWorkStaysHolds == Spec => FinishedWorkStays
<1> DEFINE Keep == \A t \in Ticket :
              sprintId'[t] # sprintId[t] /\ sprintTable' # sprintTable =>
                 /\ Live(t) /\ ~done[t]
                 /\ sprintId'[t] = None
                 /\ status'[sprintId[t]] = "completed"
<1>1. TypeOK /\ ArgInv /\ LockInv /\ [Next]_vars => [Keep]_vars
  <2> SUFFICES ASSUME TypeOK, ArgInv, LockInv, [Next]_vars, NEW t \in Ticket,
                      sprintId'[t] # sprintId[t], sprintTable' # sprintTable
               PROVE  /\ Live(t) /\ ~done[t]
                      /\ sprintId'[t] = None
                      /\ status'[sprintId[t]] = "completed"
      OBVIOUS
  <2>1. PICK r \in Request : CompleteCommit(r)
      BY Writers DEF PlanWriters, AssignCommit, CreateTicketCommit, PatchCommit,
                     TrashOrRestoreCommit
  <2>2. t \in req[r].hit /\ sprintId'[t] = None
      BY <2>1 DEF CompleteCommit
  <2>3. req[r].at = "locked" /\ req[r].op = "complete"
      BY <2>1 DEF CompleteCommit
  <2>4. Live(t) /\ ~done[t] /\ sprintId[t] = req[r].sprint /\ req[r].sprint \in Sprint
      BY <2>2, <2>3 DEF LockInv, ArgInv, Unfinished
  <2> QED
      BY <2>1, <2>2, <2>4 DEF CompleteCommit, WriteCompleted, TypeOK
<1>2. TypeOK /\ ArgInv /\ [Next]_vars => ArgInv'
    BY StepArg
<1>3. TypeOK /\ ArgInv /\ LockInv /\ [Next]_vars => LockInv'
    BY StepLock
<1> QED
    BY InitTypeOK, NextTypeOK, InitInv, <1>1, <1>2, <1>3, PTL DEF Spec, FinishedWorkStays

LEMMA RetroStays ==
    ASSUME TypeOK, [Next]_vars, NEW s \in Sprint, retro[s] # None
    PROVE  retro'[s] # None
<1>1. ASSUME NEW r \in Request, CompleteCommit(r) PROVE retro'[s] # None
    BY <1>1, NoneAssumption DEF CompleteCommit, WriteCompleted, TypeOK
<1>2. ASSUME NEW r \in Request, RegenerateCommit(r) PROVE retro'[s] # None
    BY <1>2, NoneAssumption DEF RegenerateCommit, TypeOK
<1>3. ASSUME NEW w \in Worker, NEW result \in {"completed", "failed"},
             WorkerWrite(w, result)
      PROVE  retro'[s] # None
    BY <1>3, NoneAssumption DEF WorkerWrite, TypeOK
<1> QED
    BY Writers, <1>1, <1>2, <1>3
       DEF SprintWriters, CreateSprint, StartCommit, RemoveSprintCommit

\* The retro queue and the consumers' hands, like Writers.
LEMMA QueueWriters ==
    ASSUME [Next]_vars
    PROVE  \/ UNCHANGED <<retroQueue, inHand>>
           \/ \E r \in Request : Publish(r)
           \/ \E w \in Worker : WorkerStep(w) \/ WorkerRequeue(w)
<1>1. ASSUME NEW r \in Request, RequestStep(r) PROVE UNCHANGED <<retroQueue, inHand>> \/ Publish(r)
    BY <1>1 DEF RequestStep, StartCommit, CompleteSelect, CompleteUpdate,
                CompleteCommit, RegenerateCommit, RemoveSprintSelect,
                RemoveSprintCommit, AssignSelect, AssignCommit,
                CreateTicketCommit, PatchCommit, TrashOrRestoreCommit
<1>2. ASSUME NEW r \in Request, NEW s1 \in Sprint,
             \/ StartRead(r, s1) \/ CompleteRead(r, s1) \/ RegenerateRead(r, s1)
             \/ RemoveSprintRead(r, s1)
             \/ \E T \in SUBSET Ticket : AssignRead(r, s1, T)
      PROVE  UNCHANGED <<retroQueue, inHand>>
    BY <1>2 DEF StartRead, CompleteRead, RegenerateRead, RemoveSprintRead, AssignRead
<1>3. ASSUME NEW r \in Request,
             \/ \E s1 \in Sprint \cup {None} : CreateTicketRead(r, s1)
             \/ \E t \in Ticket : TrashRead(r, t) \/ RestoreRead(r, t)
             \/ Crash(r)
      PROVE  UNCHANGED <<retroQueue, inHand>>
    BY <1>3 DEF CreateTicketRead, TrashRead, RestoreRead, Crash
<1>4. ASSUME NEW r \in Request, NEW t \in Ticket, NEW s1 \in Sprint \cup {None},
             NEW d \in BOOLEAN, PatchRead(r, t, s1, d)
      PROVE  UNCHANGED <<retroQueue, inHand>>
    BY <1>4 DEF PatchRead
<1>5. ASSUME NEW s1 \in Sprint, CreateSprint(s1) PROVE UNCHANGED <<retroQueue, inHand>>
    BY <1>5 DEF CreateSprint
<1>6. CASE UNCHANGED vars
    BY <1>6 DEF vars
<1> QED
    BY <1>1, <1>2, <1>3, <1>4, <1>5, <1>6 DEF Next, WorkerStep

\* Jobs enter the queue by Publish, and come back to it from a consumer.
LEMMA StepQueued ==
    ASSUME TypeOK, ArgInv, JobInv, [Next]_vars, NEW s \in Sprint, retroQueue'[s] > 0
    PROVE  retro[s] # None
<1>1. CASE retroQueue[s] > 0
    BY <1>1 DEF JobInv
<1>2. CASE UNCHANGED retroQueue
    BY <1>1, <1>2
<1>3. ASSUME NEW r \in Request, Publish(r) PROVE retro[s] # None
  <2>1. req[r].sprint = s \/ retroQueue'[s] = retroQueue[s]
      BY <1>3 DEF Publish, TypeOK
  <2> QED
      BY <1>1, <1>3, <2>1 DEF Publish, JobInv
<1>4. ASSUME NEW w \in Worker,
             \/ WorkerRequeue(w)
             \/ \E result \in {"completed", "failed"} : WorkerWrite(w, result)
      PROVE  retro[s] # None
  <2>1. inHand[w].sprint = s \/ retroQueue'[s] = retroQueue[s]
      BY <1>4 DEF WorkerRequeue, WorkerWrite, TypeOK
  <2> QED
      BY <1>1, <2>1 DEF JobInv
<1>5. ASSUME NEW w \in Worker, NEW z \in Sprint, WorkerTake(w, z)
      PROVE  retro[s] # None
  <2>1. CASE z = s
      BY <1>5, <2>1 DEF WorkerTake, JobInv
  <2>2. CASE z # s
      BY <1>1, <1>5, <2>2 DEF WorkerTake, TypeOK
  <2> QED
      BY <2>1, <2>2
<1>6. \/ UNCHANGED retroQueue
      \/ \E r \in Request : Publish(r)
      \/ \E w \in Worker :
           \/ WorkerRequeue(w)
           \/ \E result \in {"completed", "failed"} : WorkerWrite(w, result)
           \/ \E z \in Sprint : WorkerTake(w, z)
    BY QueueWriters DEF WorkerStep, WorkerAck
<1> QED
    BY <1>2, <1>3, <1>4, <1>5, <1>6

LEMMA StepJob == ASSUME TypeOK, ArgInv, JobInv, [Next]_vars PROVE JobInv'
<1>1. ASSUME NEW s \in Sprint, retroQueue'[s] > 0 PROVE retro'[s] # None
    BY <1>1, StepQueued, RetroStays
<1>2. ASSUME NEW r \in Request, req'[r].at = "publish"
      PROVE  retro'[req'[r].sprint] # None
  <2>1. CASE req'[r] = req[r] /\ ~CompleteCommit(r) /\ ~RegenerateCommit(r)
    <3>1. req[r].sprint \in Sprint /\ retro[req[r].sprint] # None
        BY <1>2, <2>1 DEF JobInv, ArgInv
    <3> QED
        BY <2>1, <3>1, RetroStays
  <2>2. CASE CompleteCommit(r)
    <3>1. req[r].sprint \in Sprint
        BY <2>2 DEF CompleteCommit, ArgInv
    <3>2. retro'[req[r].sprint] = "pending"
        BY <2>2, <3>1 DEF CompleteCommit, WriteCompleted, TypeOK
    <3> QED
        BY <2>2, <3>2, CommitMove, NoneAssumption
  <2>3. CASE RegenerateCommit(r)
    <3>1. req[r].sprint \in Sprint
        BY <2>3 DEF RegenerateCommit, ArgInv
    <3>2. CASE Exists(req[r].sprint)
      <4>1. retro'[req[r].sprint] = "pending"
          BY <2>3, <3>1, <3>2 DEF RegenerateCommit, TypeOK
      <4>2. Goto(r, "publish")
          BY <2>3, <3>2 DEF RegenerateCommit
      <4> QED
          BY <4>1, <4>2, GotoType, NoneAssumption DEF Stage
    <3>3. CASE ~Exists(req[r].sprint)
      <4>1. Finish(r)
          BY <2>3, <3>3 DEF RegenerateCommit
      <4> QED
          BY <1>2, <4>1, FinishType DEF Idle
    <3> QED
        BY <3>2, <3>3
  <2>4. ASSUME ~CompleteCommit(r), ~RegenerateCommit(r) PROVE req'[r] = req[r]
    <3>1. CASE CompleteUpdate(r)
      <4>1. Unfinished(req[r].sprint) \in SUBSET Ticket
          BY DEF Unfinished
      <4>2. \/ Finish(r)
            \/ req' = [req EXCEPT ![r].at = "locked", ![r].hit = Unfinished(req[r].sprint)]
          BY <3>1 DEF CompleteUpdate
      <4>3. req'[r] = Idle \/ req'[r].at = "locked"
          BY <4>1, <4>2, CompleteTypes, FinishType DEF Stage
      <4> QED
          BY <1>2, <4>3 DEF Idle
    <3>2. CASE ~CompleteUpdate(r)
        BY <1>2, <2>4, <3>2, Moves DEF RequestMove, Idle
    <3> QED
        BY <3>1, <3>2
  <2> QED
      BY <2>1, <2>2, <2>3, <2>4
<1>3. ASSUME NEW w \in Worker, inHand'[w].sprint \in Sprint
      PROVE  retro'[inHand'[w].sprint] # None
  <2> DEFINE s == inHand'[w].sprint
  <2>1. inHand[w].sprint = s \/ \E z \in Sprint : WorkerTake(w, z) /\ z = s
    <3>1. ASSUME NEW v \in Worker, NEW z \in Sprint, WorkerTake(v, z)
          PROVE  inHand[w].sprint = s \/ (v = w /\ z = s)
        BY <3>1 DEF WorkerTake, TypeOK
    <3>2. ASSUME NEW v \in Worker, NEW result \in {"completed", "failed"},
                 WorkerWrite(v, result)
          PROVE  inHand[w].sprint = s
      <4>1. \A j \in Jobs : [j EXCEPT !.written = TRUE].sprint = j.sprint
          BY DEF Jobs
      <4>2. NoJob.sprint \notin Sprint
          BY NoneAssumption DEF NoJob
      <4>3. \/ inHand' = [inHand EXCEPT ![v].written = TRUE]
            \/ inHand' = [inHand EXCEPT ![v] = NoJob]
          BY <3>2 DEF WorkerWrite
      <4>4. \/ inHand'[w] = inHand[w]
            \/ inHand'[w] = [inHand[w] EXCEPT !.written = TRUE]
            \/ inHand'[w] = NoJob
          BY <4>3 DEF TypeOK
      <4> QED
          BY <1>3, <4>1, <4>2, <4>4 DEF TypeOK
    <3>3. ASSUME NEW v \in Worker, WorkerAck(v) \/ WorkerRequeue(v)
          PROVE  inHand[w].sprint = s
        BY <1>3, <3>3, NoneAssumption DEF WorkerAck, WorkerRequeue, TypeOK, NoJob
    <3>4. CASE UNCHANGED inHand
        BY <3>4
    <3>5. \/ UNCHANGED inHand
          \/ \E v \in Worker :
               \/ \E z \in Sprint : WorkerTake(v, z)
               \/ \E result \in {"completed", "failed"} : WorkerWrite(v, result)
               \/ WorkerAck(v) \/ WorkerRequeue(v)
        BY QueueWriters DEF WorkerStep, Publish
    <3> QED
        BY <3>1, <3>2, <3>3, <3>4, <3>5
  <2>2. retro[s] # None
    <3>1. CASE inHand[w].sprint = s
        BY <1>3, <3>1 DEF JobInv
    <3>2. CASE \E z \in Sprint : WorkerTake(w, z) /\ z = s
        BY <3>2 DEF WorkerTake, JobInv
    <3> QED
        BY <2>1, <3>1, <3>2
  <2> QED
      BY <1>3, <2>2, RetroStays
<1> QED
    BY <1>1, <1>2, <1>3 DEF JobInv

\* A job in the queue belongs to a sprint that has a retro status: it was
\* published after the commit it follows.
THEOREM JobAfterCommitHolds == Spec => []JobAfterCommit
<1>1. JobInv => JobAfterCommit
    BY DEF JobInv, JobAfterCommit
<1>2. TypeOK /\ ArgInv /\ [Next]_vars => ArgInv'
    BY StepArg
<1>3. TypeOK /\ ArgInv /\ JobInv /\ [Next]_vars => JobInv'
    BY StepJob
<1> QED
    BY InitTypeOK, NextTypeOK, InitInv, <1>1, <1>2, <1>3, PTL DEF Spec

(* The three conditions on the rows, together.                              *)

\* Sprints, tickets and retro jobs agree in every reachable state.
THEOREM RowsAgreeHolds == Spec => []RowsAgree
<1>1. CompletedHasRetro /\ TicketSprintExists /\ JobAfterCommit => RowsAgree
    BY DEF RowsAgree
<1> QED BY <1>1, CompletedHasRetroHolds, TicketSprintExistsHolds, JobAfterCommitHolds, PTL

-----------------------------------------------------------------------------
(* What a completion wrote down is what it returned, if nobody else writes   *)
(* to the sprint's tickets between its SELECT and its commit.                *)

InWindow(r) == req[r].op = "complete" /\ req[r].at \in {"write", "locked"}

TicketOps == {"assign", "create", "patch", "trash", "restore"}

\* Request q is about to write a ticket of sprint s or one that goes into it,
\* or completes s, too.
Touches(q, s) ==
    /\ InWindow(q) \/ (req[q].op \in TicketOps /\ req[q].at = "write")
    /\ req[q].sprint = s \/ \E t \in req[q].tickets : sprintId[t] = s

CompletesAlone ==
    \A r, q \in Request : r # q /\ InWindow(r) => ~Touches(q, req[r].sprint)

\* What a completion has found is what is still there when it writes.
SnapInv == \A r \in Request : req[r].op = "complete" =>
    /\ req[r].at \in {"write", "locked"} => req[r].picked = Unfinished(req[r].sprint)
    /\ req[r].at = "locked" => req[r].hit = Unfinished(req[r].sprint)

\* Only the two steps of complete_sprint make a request one that writes.
LEMMA Picks ==
    ASSUME TypeOK, [Next]_vars, NEW x \in Request,
           req'[x].op = "complete", req'[x].at \in {"write", "locked"}
    PROVE  req'[x] = req[x] \/ CompleteSelect(x) \/ CompleteUpdate(x)
<1>1. ASSUME NEW r \in Request, NEW o, NEW a, NEW s, NEW T, Begin(r, o, a, s, T),
             o # "complete" \/ a = "select"
      PROVE  req'[x] = req[x]
    BY <1>1 DEF Begin, TypeOK, Idle
<1>2. ASSUME NEW r \in Request, Finish(r) PROVE req'[x] = req[x]
    BY <1>2, FinishType, NoneAssumption DEF Idle, AllOps
<1>3. ASSUME NEW r \in Request, NEW a \in Stage, Goto(r, a), req[r].op # "complete"
      PROVE  req'[x] = req[x]
    BY <1>3, GotoType
<1>4. ASSUME NEW r \in Request, NEW s \in Sprint,
             \/ StartRead(r, s) \/ CompleteRead(r, s) \/ RegenerateRead(r, s)
             \/ RemoveSprintRead(r, s)
             \/ \E T \in SUBSET Ticket : AssignRead(r, s, T)
      PROVE  req'[x] = req[x]
    BY <1>1, <1>4 DEF StartRead, CompleteRead, RegenerateRead, RemoveSprintRead, AssignRead
<1>5. ASSUME NEW r \in Request,
             \/ \E s \in Sprint \cup {None} : CreateTicketRead(r, s)
             \/ \E t \in Ticket : TrashRead(r, t) \/ RestoreRead(r, t)
      PROVE  req'[x] = req[x]
    BY <1>1, <1>5 DEF CreateTicketRead, TrashRead, RestoreRead
<1>6. ASSUME NEW r \in Request, NEW t \in Ticket, NEW s \in Sprint \cup {None},
             NEW d \in BOOLEAN, PatchRead(r, t, s, d)
      PROVE  req'[x] = req[x]
    BY <1>6, PatchReadType
<1>7. ASSUME NEW r \in Request, RequestStep(r)
      PROVE  req'[x] = req[x] \/ CompleteSelect(x) \/ CompleteUpdate(x)
  <2>1. CASE \/ StartCommit(r) \/ Publish(r) \/ RemoveSprintCommit(r)
             \/ AssignCommit(r) \/ CreateTicketCommit(r) \/ PatchCommit(r)
             \/ TrashOrRestoreCommit(r)
      BY <1>2, <2>1 DEF StartCommit, Publish, RemoveSprintCommit, AssignCommit,
                        CreateTicketCommit, PatchCommit, TrashOrRestoreCommit
  <2>2. CASE RemoveSprintSelect(r) \/ AssignSelect(r) \/ RegenerateCommit(r)
    <3>1. Finish(r) \/ \E a \in Stage : Goto(r, a) /\ req[r].op # "complete"
        BY <2>2 DEF RemoveSprintSelect, AssignSelect, RegenerateCommit, Stage
    <3> QED
        BY <1>2, <1>3, <3>1
  <2>3. CASE CompleteSelect(r)
    <3>1. x # r => req'[x] = req[x]
        BY <2>3 DEF CompleteSelect, TypeOK
    <3> QED
        BY <2>3, <3>1
  <2>4. CASE CompleteUpdate(r)
    <3>1. x # r => req'[x] = req[x]
        BY <2>4 DEF CompleteUpdate, Finish, TypeOK
    <3> QED
        BY <2>4, <3>1
  <2>5. CASE CompleteCommit(r)
      BY <2>5, CommitMove
  <2> QED
      BY <1>7, <2>1, <2>2, <2>3, <2>4, <2>5 DEF RequestStep
<1>8. ASSUME NEW r \in Request, Crash(r) PROVE req'[x] = req[x]
    BY <1>2, <1>8 DEF Crash
<1>9. ASSUME NEW w \in Worker, WorkerStep(w) \/ WorkerRequeue(w) PROVE req'[x] = req[x]
    BY <1>9 DEF WorkerStep, WorkerTake, WorkerWrite, WorkerAck, WorkerRequeue
<1>10. ASSUME NEW s \in Sprint, CreateSprint(s) PROVE req'[x] = req[x]
    BY <1>10 DEF CreateSprint
<1>11. CASE UNCHANGED vars
    BY <1>11 DEF vars
<1> QED
    BY <1>4, <1>5, <1>6, <1>7, <1>8, <1>9, <1>10, <1>11 DEF Next

\* A request that does not touch a sprint leaves its unfinished tickets alone.
LEMMA OthersLeave ==
    ASSUME TypeOK, LockInv, NEW s \in Sprint, NEW q \in Request, ~Touches(q, s),
           \/ CompleteCommit(q) \/ AssignCommit(q) \/ CreateTicketCommit(q)
           \/ PatchCommit(q) \/ TrashOrRestoreCommit(q)
    PROVE  Unfinished(s)' = Unfinished(s)
<1>1. CASE CompleteCommit(q)
  <2>1. req[q].sprint # s
      BY <1>1 DEF CompleteCommit, At, InWindow, Touches
  <2>2. \A t \in req[q].hit : sprintId[t] # s
      BY <1>1, <2>1 DEF CompleteCommit, At, LockInv, Unfinished
  <2>3. /\ sprintId' = [t \in Ticket |-> IF t \in req[q].hit THEN None ELSE sprintId[t]]
        /\ UNCHANGED <<life, done>>
      BY <1>1 DEF CompleteCommit
  <2> QED
      BY <2>2, <2>3, NoneAssumption DEF Unfinished, Live
<1>2. ASSUME ~CompleteCommit(q)
      PROVE  req[q].sprint # s /\ \A t \in req[q].tickets : sprintId[t] # s
    BY <1>2 DEF AssignCommit, CreateTicketCommit, PatchCommit, TrashOrRestoreCommit, At,
               TicketOps, Touches
<1>3. CASE AssignCommit(q)
  <2>1. ~CompleteCommit(q)
      BY <1>3 DEF AssignCommit, CompleteCommit, At
  <2>2. \A t \in Ticket : sprintId'[t] = s <=> sprintId[t] = s
      BY <1>2, <1>3, <2>1 DEF AssignCommit
  <2> QED
      BY <1>3, <2>2 DEF AssignCommit, Unfinished, Live
<1>4. CASE CreateTicketCommit(q)
  <2>1. ~CompleteCommit(q)
      BY <1>4 DEF CreateTicketCommit, CompleteCommit, At
  <2>2. CASE UNCHANGED <<life, sprintId>>
      BY <1>4, <2>2 DEF CreateTicketCommit, Unfinished, Live
  <2>3. CASE \E t \in Ticket : /\ life[t] = "none"
                               /\ life' = [life EXCEPT ![t] = "live"]
                               /\ sprintId' = [sprintId EXCEPT ![t] = req[q].sprint]
    <3>1. PICK t \in Ticket : /\ life[t] = "none"
                              /\ life' = [life EXCEPT ![t] = "live"]
                              /\ sprintId' = [sprintId EXCEPT ![t] = req[q].sprint]
        BY <2>3
    <3>2. t \notin Unfinished(s) /\ sprintId'[t] # s
        BY <1>2, <2>1, <3>1 DEF Unfinished, Live, TypeOK
    <3>3. \A x \in Ticket \ {t} : sprintId'[x] = sprintId[x] /\ life'[x] = life[x]
        BY <3>1 DEF TypeOK
    <3>4. UNCHANGED done
        BY <1>4 DEF CreateTicketCommit
    <3> QED
        BY <3>2, <3>3, <3>4 DEF Unfinished, Live
  <2> QED
      BY <1>4, <2>2, <2>3 DEF CreateTicketCommit
<1>5. CASE PatchCommit(q)
  <2>1. ~CompleteCommit(q)
      BY <1>5 DEF PatchCommit, CompleteCommit, At
  <2>2. CASE UNCHANGED <<sprintId, done>>
      BY <1>5, <2>2 DEF PatchCommit, Unfinished, Live
  <2>3. CASE ~UNCHANGED <<sprintId, done>>
    <3>1. PICK t \in req[q].tickets :
            /\ sprintId' = [sprintId EXCEPT
                 ![t] = IF "sprint" \in req[q].dirty THEN req[q].sprint ELSE @]
            /\ done' = [done EXCEPT ![t] = IF "done" \in req[q].dirty THEN req[q].done ELSE @]
        BY <1>5, <2>3 DEF PatchCommit
    <3>2. t \in Ticket
        BY DEF TypeOK, Requests
    <3>3. sprintId[t] # s /\ sprintId'[t] # s
        BY <1>2, <2>1, <3>1, <3>2 DEF TypeOK
    <3>4. \A x \in Ticket \ {t} : sprintId'[x] = sprintId[x] /\ done'[x] = done[x]
        BY <3>1 DEF TypeOK
    <3>5. UNCHANGED life
        BY <1>5 DEF PatchCommit
    <3> QED
        BY <3>3, <3>4, <3>5 DEF Unfinished, Live
  <2> QED
      BY <2>2, <2>3
<1>6. CASE TrashOrRestoreCommit(q)
  <2>1. ~CompleteCommit(q)
      BY <1>6 DEF TrashOrRestoreCommit, CompleteCommit, At
  <2>2. PICK t \in req[q].tickets :
          life' = [life EXCEPT ![t] = IF req[q].op = "trash" THEN "deleted" ELSE "live"]
      BY <1>6 DEF TrashOrRestoreCommit
  <2>3. sprintId[t] # s
      BY <1>2, <2>1
  <2>4. \A x \in Ticket \ {t} : life'[x] = life[x]
      BY <2>2 DEF TypeOK
  <2>5. UNCHANGED <<sprintId, done>>
      BY <1>6 DEF TrashOrRestoreCommit
  <2> QED
      BY <2>3, <2>4, <2>5 DEF Unfinished, Live
<1> QED
    BY <1>1, <1>3, <1>4, <1>5, <1>6

LEMMA StepSnap ==
    ASSUME CompletesAlone, TypeOK, ArgInv, LockInv, SnapInv, [Next]_vars
    PROVE  SnapInv'
<1> SUFFICES ASSUME NEW r \in Request, req'[r].op = "complete",
                    req'[r].at \in {"write", "locked"}
             PROVE  /\ req'[r].picked = Unfinished(req[r].sprint)'
                    /\ req'[r].at = "locked" => req'[r].hit = Unfinished(req[r].sprint)'
    BY DEF SnapInv
<1>1. ASSUME NEW q \in Request,
             CompleteCommit(q) \/ AssignCommit(q) \/ CreateTicketCommit(q)
               \/ PatchCommit(q) \/ TrashOrRestoreCommit(q)
      PROVE  q # r
  <2>1. CASE CompleteCommit(q)
      BY <2>1, CommitMove
  <2>2. CASE ~CompleteCommit(q)
    <3>1. Finish(q)
        BY <1>1, <2>2 DEF AssignCommit, CreateTicketCommit, PatchCommit, TrashOrRestoreCommit
    <3> QED
        BY <3>1, FinishType, NoneAssumption DEF Idle, AllOps
  <2> QED
      BY <2>1, <2>2
<1>2. ASSUME InWindow(r), req'[r].sprint = req[r].sprint
      PROVE  Unfinished(req[r].sprint)' = Unfinished(req[r].sprint)
  <2>1. PICK s \in Sprint : s = req[r].sprint
      BY <1>2 DEF InWindow, ArgInv
  <2>2. CASE UNCHANGED ticketTable
      BY <1>2, <2>2 DEF Unfinished, Live, ticketTable
  <2>3. ASSUME NEW q \in Request,
               CompleteCommit(q) \/ AssignCommit(q) \/ CreateTicketCommit(q)
                 \/ PatchCommit(q) \/ TrashOrRestoreCommit(q)
        PROVE  Unfinished(s)' = Unfinished(s)
    <3>1. ~Touches(q, s)
        BY <1>1, <1>2, <2>1, <2>3 DEF CompletesAlone
    <3> QED
        BY <2>3, <3>1, OthersLeave
  <2>4. Unfinished(s)' = Unfinished(s) => Unfinished(req[r].sprint)' = Unfinished(req[r].sprint)
      BY <1>2, <2>1 DEF Unfinished
  <2> QED
      BY <2>2, <2>3, <2>4, Writers DEF PlanWriters
<1>3. CASE req'[r] = req[r]
    BY <1>2, <1>3 DEF SnapInv, InWindow
<1>4. CASE CompleteSelect(r)
  <2>1. req' = [req EXCEPT ![r].at = "write", ![r].picked = Unfinished(req[r].sprint)]
      BY <1>4 DEF CompleteSelect
  <2>2. ASSUME NEW q \in Requests, NEW P
        PROVE  LET n == [q EXCEPT !.at = "write", !.picked = P]
               IN n.at = "write" /\ n.picked = P /\ n.sprint = q.sprint
      BY DEF Requests
  <2>3. /\ req'[r].at = "write" /\ req'[r].picked = Unfinished(req[r].sprint)
        /\ req'[r].sprint = req[r].sprint
      BY <2>1, <2>2 DEF TypeOK
  <2>4. Unfinished(req[r].sprint)' = Unfinished(req[r].sprint)
      BY <1>4, <2>3 DEF CompleteSelect, UnchangedTables, ticketTable, Unfinished, Live
  <2> QED
      BY <2>3, <2>4
<1>5. CASE CompleteUpdate(r)
  <2>1. ~Finish(r)
      BY FinishType, NoneAssumption DEF Idle, AllOps
  <2>2. req' = [req EXCEPT ![r].at = "locked", ![r].hit = Unfinished(req[r].sprint)]
      BY <1>5, <2>1 DEF CompleteUpdate
  <2>3. ASSUME NEW q \in Requests, NEW H
        PROVE  LET n == [q EXCEPT !.at = "locked", !.hit = H]
               IN n.hit = H /\ n.picked = q.picked /\ n.sprint = q.sprint
      BY DEF Requests
  <2>4. /\ req'[r].hit = Unfinished(req[r].sprint) /\ req'[r].picked = req[r].picked
        /\ req'[r].sprint = req[r].sprint
      BY <2>2, <2>3 DEF TypeOK
  <2>5. req[r].picked = Unfinished(req[r].sprint) /\ InWindow(r)
      BY <1>5 DEF CompleteUpdate, At, SnapInv, InWindow
  <2> QED
      BY <1>2, <2>4, <2>5
<1> QED
    BY <1>3, <1>4, <1>5, Picks

\* For any number of sprints, tickets, requests and consumers, as long as no
\* other request is about to write the tickets of a sprint, or to complete it,
\* between the SELECT and the commit of its completion: the snapshot lists
\* exactly the tickets that complete_sprint takes off the sprint, and the live
\* ones it leaves are finished. sprints.py:429-447.
THEOREM SnapshotIsReturnedHolds == Spec /\ []CompletesAlone => SnapshotIsReturned
<1>1. Init => SnapInv
    BY NoneAssumption DEF Init, SnapInv, Idle, AllOps
<1>2. ASSUME TypeOK, ArgInv, SnapInv, [Next]_vars, NEW s \in Sprint,
             status'[s] = "completed", status[s] = "active"
      PROVE  /\ returned'[s] = {t \in Ticket : sprintId[t] = s /\ sprintId'[t] # s}
             /\ \A t \in Ticket : Live(t) /\ sprintId'[t] = s => done[t]
  <2>1. PICK r \in Request : CompleteCommit(r) /\ req[r].sprint = s
    <3>1. ASSUME NEW z \in Sprint, CreateSprint(z) PROVE FALSE
        BY <1>2, <3>1 DEF CreateSprint, TypeOK
    <3>2. ASSUME NEW r \in Request, StartCommit(r) \/ RemoveSprintCommit(r) PROVE FALSE
        BY <1>2, <3>2 DEF StartCommit, RemoveSprintCommit, TypeOK
    <3>3. ASSUME NEW r \in Request, CompleteCommit(r) PROVE req[r].sprint = s
        BY <1>2, <3>3 DEF CompleteCommit, WriteCompleted, TypeOK
    <3> QED
        BY <1>2, <3>1, <3>2, <3>3, Writers DEF SprintWriters, RegenerateCommit, WorkerWrite
  <2>2. req[r].picked = Unfinished(s) /\ req[r].hit = Unfinished(s)
      BY <1>2, <2>1 DEF CompleteCommit, SnapInv
  <2>3. /\ returned'[s] = Unfinished(s)
        /\ sprintId' = [t \in Ticket |-> IF t \in Unfinished(s) THEN None ELSE sprintId[t]]
      BY <1>2, <2>1, <2>2 DEF CompleteCommit, WriteCompleted, TypeOK
  <2> QED
      BY <1>2, <2>3, NoneAssumption DEF Unfinished
<1>3. TypeOK /\ ArgInv /\ SnapInv /\ [Next]_vars
        => [\A s \in Sprint : status'[s] = "completed" /\ status[s] = "active" =>
              /\ returned'[s] = {t \in Ticket : sprintId[t] = s /\ sprintId'[t] # s}
              /\ \A t \in Ticket : Live(t) /\ sprintId'[t] = s => done[t]]_vars
    BY <1>2
<1>4. TypeOK /\ ArgInv /\ [Next]_vars => ArgInv'
    BY StepArg
<1>5. CompletesAlone /\ TypeOK /\ ArgInv /\ LockInv /\ SnapInv /\ [Next]_vars => SnapInv'
    BY StepSnap
<1>6. TypeOK /\ ArgInv /\ LockInv /\ [Next]_vars => LockInv'
    BY StepLock
<1> QED
    BY InitTypeOK, NextTypeOK, InitInv, <1>1, <1>3, <1>4, <1>5, <1>6, PTL
    DEF Spec, SnapshotIsReturned
=============================================================================
