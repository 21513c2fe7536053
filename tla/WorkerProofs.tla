---------------------------- MODULE WorkerProofs ----------------------------
(***************************************************************************)
(* What requests never take back unless two of them read the same row, for *)
(* any number of sprints, tickets, texts, categories and consumers: the    *)
(* parts of MCWorker, each with its inductive invariant.                   *)
(***************************************************************************)
EXTENDS MCWorker, SprintLifecycleProofs

PartsNext == RetroMoves \/ EnrichMoves

-----------------------------------------------------------------------------
(* SprintLifecycle                                                          *)

\* A request that changes the status of a sprint it has read as planned.
Changes(q) == q.op \in {"start", "removeSprint"}

\* Two of them in progress are about different sprints.
StartsApart ==
    \A r, q \in Request :
        r # q /\ Changes(req[r]) /\ Changes(req[q]) => req[r].sprint # req[q].sprint

\* The sprint such a request has read is planned still; the one that a
\* completion has read never will be again.
ReadInv ==
    \A r \in Request :
        /\ Changes(req[r]) => req[r].sprint \in Sprint /\ status[req[r].sprint] = "planned"
        /\ req[r].op = "complete" => status[req[r].sprint] \notin {"none", "planned"}

\* A request becomes one of these only by reading the sprint.
LEMMA Readers ==
    ASSUME TypeOK, [Next]_vars, NEW x \in Request, Changes(req'[x]) \/ req'[x].op = "complete"
    PROVE  \/ req'[x].op = req[x].op /\ req'[x].sprint = req[x].sprint
           \/ \E s \in Sprint : /\ req'[x].sprint = s /\ UNCHANGED status
                                /\ status[s] = IF Changes(req'[x]) THEN "planned" ELSE "active"
<1> DEFINE Kept == req'[x].op = req[x].op /\ req'[x].sprint = req[x].sprint
           Read == \E s \in Sprint :
                     /\ req'[x].sprint = s /\ UNCHANGED status
                     /\ status[s] = IF Changes(req'[x]) THEN "planned" ELSE "active"
<1>1. ASSUME NEW r \in Request, NEW o, NEW a, NEW s, NEW T, Begin(r, o, a, s, T)
      PROVE  req'[x] = req[x] \/ (req'[x].op = o /\ req'[x].sprint = s)
    BY <1>1 DEF Begin, TypeOK, Idle
<1>2. ASSUME NEW r \in Request, Finish(r) PROVE req'[x] = req[x]
    BY <1>2, FinishType, NoneAssumption DEF Idle, AllOps, Changes
<1>3. ASSUME NEW r \in Request, NEW s \in Sprint, StartRead(r, s) \/ RemoveSprintRead(r, s)
      PROVE  Kept \/ Read
  <2>1. UNCHANGED status /\ status[s] = "planned"
      BY <1>3 DEF StartRead, RemoveSprintRead, Startable, UnchangedTables, sprintTable
  <2>2. req'[x] = req[x] \/ (Changes(req'[x]) /\ req'[x].sprint = s)
      BY <1>1, <1>3 DEF StartRead, RemoveSprintRead, Changes
  <2> QED
      BY <2>1, <2>2
<1>4. ASSUME NEW r \in Request, NEW s \in Sprint, CompleteRead(r, s)
      PROVE  Kept \/ Read
  <2>1. UNCHANGED status /\ status[s] = "active"
      BY <1>4 DEF CompleteRead, UnchangedTables, sprintTable
  <2>2. req'[x] = req[x] \/ (req'[x].op = "complete" /\ req'[x].sprint = s)
      BY <1>1, <1>4 DEF CompleteRead
  <2> QED
      BY <2>1, <2>2 DEF Changes
<1>5. ASSUME NEW r \in Request, NEW s \in Sprint,
             RegenerateRead(r, s) \/ \E T \in SUBSET Ticket : AssignRead(r, s, T)
      PROVE  req'[x] = req[x]
    BY <1>1, <1>5 DEF RegenerateRead, AssignRead, Changes
<1>6. ASSUME NEW r \in Request,
             \/ \E s \in Sprint \cup {None} : CreateTicketRead(r, s)
             \/ \E t \in Ticket : TrashRead(r, t) \/ RestoreRead(r, t)
      PROVE  req'[x] = req[x]
    BY <1>1, <1>6 DEF CreateTicketRead, TrashRead, RestoreRead, Changes
<1>7. ASSUME NEW r \in Request, NEW t \in Ticket, NEW s \in Sprint \cup {None},
             NEW d \in BOOLEAN, PatchRead(r, t, s, d)
      PROVE  req'[x] = req[x]
    BY <1>7, PatchReadType DEF Changes
<1>8. ASSUME NEW r \in Request, RequestStep(r) PROVE Kept
  <2>1. CASE \/ StartCommit(r) \/ Publish(r) \/ RemoveSprintCommit(r)
             \/ AssignCommit(r) \/ CreateTicketCommit(r) \/ PatchCommit(r)
             \/ TrashOrRestoreCommit(r)
      BY <1>2, <2>1 DEF StartCommit, Publish, RemoveSprintCommit, AssignCommit,
                        CreateTicketCommit, PatchCommit, TrashOrRestoreCommit
  <2>2. CASE RemoveSprintSelect(r) \/ AssignSelect(r) \/ RegenerateCommit(r)
    <3>1. Finish(r) \/ Goto(r, "write") \/ Goto(r, "publish")
        BY <2>2 DEF RemoveSprintSelect, AssignSelect, RegenerateCommit
    <3> QED
        BY <1>2, <3>1, GotoType DEF Stage
  <2>3. CASE CompleteSelect(r) \/ CompleteUpdate(r)
    <3> DEFINE U == Unfinished(req[r].sprint)
    <3>1. U \in SUBSET Ticket
        BY DEF Unfinished
    <3>2. \/ Finish(r)
          \/ req' = [req EXCEPT ![r].at = "write", ![r].picked = U]
          \/ req' = [req EXCEPT ![r].at = "locked", ![r].hit = U]
        BY <2>3 DEF CompleteSelect, CompleteUpdate
    <3> HIDE DEF U
    <3>3. \/ Finish(r)
          \/ /\ req'[r].op = req[r].op /\ req'[r].sprint = req[r].sprint
             /\ \A y \in Request \ {r} : req'[y] = req[y]
        BY <3>1, <3>2, CompleteTypes DEF Stage
    <3> QED
        BY <1>2, <3>3
  <2>4. CASE CompleteCommit(r)
      BY <2>4, CommitMove DEF CompleteCommit, At
  <2> QED
      BY <1>8, <2>1, <2>2, <2>3, <2>4 DEF RequestStep
<1>9. ASSUME NEW r \in Request, Crash(r) PROVE req'[x] = req[x]
    BY <1>2, <1>9 DEF Crash
<1>10. ASSUME NEW w \in Worker, WorkerStep(w) \/ WorkerRequeue(w) PROVE req'[x] = req[x]
    BY <1>10 DEF WorkerStep, WorkerTake, WorkerWrite, WorkerAck, WorkerRequeue
<1>11. ASSUME NEW s \in Sprint, CreateSprint(s) PROVE req'[x] = req[x]
    BY <1>11 DEF CreateSprint
<1>12. ASSUME UNCHANGED vars PROVE req'[x] = req[x]
    BY <1>12 DEF vars
<1>13. ASSUME req'[x] = req[x] PROVE Kept
    BY <1>13
<1> HIDE DEF Kept, Read
<1>14. Kept \/ Read
    BY <1>3, <1>4, <1>5, <1>6, <1>7, <1>8, <1>9, <1>10, <1>11, <1>12, <1>13 DEF Next
<1> QED
    BY <1>14 DEF Kept, Read

\* No status becomes planned but that of a new sprint, and only these three
\* commits change one.
LEMMA StatusMoves ==
    ASSUME TypeOK, [Next]_vars, NEW s \in Sprint
    PROVE  \/ status'[s] = status[s]
           \/ status[s] = "none" /\ status'[s] = "planned"
           \/ /\ status'[s] \in {"active", "completed", "deleted"}
              /\ \E r \in Request : /\ req[r].sprint = s
                                    /\ StartCommit(r) \/ CompleteCommit(r) \/ RemoveSprintCommit(r)
<1>1. ASSUME NEW z \in Sprint, CreateSprint(z)
      PROVE  status'[s] = status[s] \/ (status[s] = "none" /\ status'[s] = "planned")
    BY <1>1 DEF CreateSprint, TypeOK
<1>2. ASSUME NEW r \in Request, StartCommit(r) \/ CompleteCommit(r) \/ RemoveSprintCommit(r)
      PROVE  \/ status'[s] = status[s]
             \/ status'[s] \in {"active", "completed", "deleted"} /\ req[r].sprint = s
    BY <1>2 DEF StartCommit, CompleteCommit, WriteCompleted, RemoveSprintCommit, TypeOK
<1>3. UNCHANGED status => status'[s] = status[s]
    OBVIOUS
<1> QED
    BY <1>1, <1>2, <1>3, Writers DEF SprintWriters, sprintTable, RegenerateCommit, WorkerWrite

\* The status of a planned sprint changes only by the request that has read it.
LEMMA StepRead ==
    ASSUME StartsApart, TypeOK, ArgInv, ReadInv, [Next]_vars
    PROVE  ReadInv'
<1> SUFFICES ASSUME NEW x \in Request, Changes(req'[x]) \/ req'[x].op = "complete"
             PROVE  IF Changes(req'[x])
                    THEN req'[x].sprint \in Sprint /\ status'[req'[x].sprint] = "planned"
                    ELSE status'[req'[x].sprint] \notin {"none", "planned"}
    BY DEF ReadInv, Changes
<1>1. CASE \E s \in Sprint : /\ req'[x].sprint = s /\ UNCHANGED status
                             /\ status[s] = IF Changes(req'[x]) THEN "planned" ELSE "active"
    BY <1>1
<1>2. CASE req'[x].op = req[x].op /\ req'[x].sprint = req[x].sprint
  <2>1. CASE Changes(req[x])
    <3>1. PICK s \in Sprint : s = req[x].sprint /\ status[s] = "planned"
        BY <2>1 DEF ReadInv
    <3>2. ASSUME NEW r \in Request, req[r].sprint = s,
                 StartCommit(r) \/ CompleteCommit(r) \/ RemoveSprintCommit(r)
          PROVE  FALSE
      <4>1. ~CompleteCommit(r)
          BY <3>1, <3>2 DEF CompleteCommit, At, ReadInv
      <4>2. Changes(req[r]) /\ Finish(r)
          BY <3>2, <4>1 DEF StartCommit, RemoveSprintCommit, At, Changes
      <4>3. r = x
          BY <2>1, <3>1, <3>2, <4>2 DEF StartsApart
      <4> QED
          BY <1>2, <2>1, <4>2, <4>3, FinishType, NoneAssumption DEF Idle, AllOps, Changes
    <3> QED
        BY <1>2, <2>1, <3>1, <3>2, StatusMoves DEF Changes
  <2>2. CASE req[x].op = "complete"
    <3>1. PICK s \in Sprint : s = req[x].sprint /\ status[s] \notin {"none", "planned"}
        BY <2>2 DEF ReadInv, ArgInv
    <3> QED
        BY <1>2, <2>2, <3>1, StatusMoves DEF Changes
  <2> QED
      BY <1>2, <2>1, <2>2 DEF Changes
<1> QED
    BY <1>1, <1>2, Readers

\* Whoever changes a sprint holds it as planned or completes it, so that no step
\* takes a completed one back.
LEMMA CompletedStays ==
    ASSUME TypeOK, ReadInv, [Next]_vars, NEW s \in Sprint, status[s] = "completed"
    PROVE  status'[s] = "completed"
<1>1. ASSUME NEW r \in Request, StartCommit(r) \/ RemoveSprintCommit(r)
      PROVE  status'[s] = "completed"
  <2>1. status[req[r].sprint] = "planned"
      BY <1>1 DEF StartCommit, RemoveSprintCommit, At, ReadInv, Changes
  <2> QED
      BY <1>1, <2>1 DEF StartCommit, RemoveSprintCommit, TypeOK
<1>2. ASSUME NEW r \in Request, CompleteCommit(r) PROVE status'[s] = "completed"
    BY <1>2 DEF CompleteCommit, WriteCompleted, TypeOK
<1>3. ASSUME NEW z \in Sprint, CreateSprint(z) PROVE status'[s] = "completed"
    BY <1>3 DEF CreateSprint, TypeOK
<1>4. CASE UNCHANGED status
    BY <1>4
<1> QED
    BY <1>1, <1>2, <1>3, <1>4, Writers
    DEF SprintWriters, sprintTable, RegenerateCommit, WorkerWrite

-----------------------------------------------------------------------------
(* Enrichment                                                               *)

\* One edit at a time is between its SELECT and its commit.
EditsApart ==
    \A r, q \in Request : edits[r].at = "write" /\ edits[q].at = "write" => r = q

\* An edit in progress writes the flags there are and its own, or leaves them
\* alone; before there is a ticket there is neither an edit nor a flag.
EditInv ==
    /\ DOMAIN edits = Request
    /\ \A r \in Request :
         /\ "at" \in DOMAIN edits[r]
         /\ edits[r].at = "write" =>
              /\ text # None
              /\ edits[r].flags = {} \/ flags \subseteq edits[r].flags
    /\ text = None => flags = {}

LEMMA EditInit == Enrich!Init => EditInv
BY DEF Enrich!Init, Enrich!Idle, EditInv

\* The flags change by the one commit that has read them, or by the creation.
LEMMA EditStep ==
    ASSUME EditsApart, EditInv, [Enrich!Next]_enrichVars
    PROVE  EditInv' /\ flags \subseteq flags'
<1>1. ASSUME NEW r \in Request, NEW v \in Text, Enrich!CreateTicket(r, v)
      PROVE  EditInv' /\ flags \subseteq flags'
  <2>1. text' # None /\ flags = {}
      BY <1>1, TextAssumption DEF Enrich!CreateTicket, EditInv
  <2>2. /\ DOMAIN edits' = Request
        /\ \A x \in Request : "at" \in DOMAIN edits'[x] /\ edits'[x].at # "write"
      BY <1>1 DEF Enrich!CreateTicket, Enrich!Idle, EditInv
  <2> QED
      BY <2>1, <2>2 DEF EditInv
<1>2. ASSUME NEW r \in Request, NEW v \in Text, Enrich!UpdateRead(r, v)
      PROVE  EditInv' /\ flags \subseteq flags'
  <2>1. /\ DOMAIN edits' = Request
        /\ \A x \in Request \ {r} : edits'[x] = edits[x]
        /\ "at" \in DOMAIN edits'[r]
        /\ edits'[r].flags = {} \/ flags \subseteq edits'[r].flags
      BY <1>2 DEF Enrich!UpdateRead, Enrich!FlagsAfter, EditInv
  <2>2. text # None /\ UNCHANGED <<text, flags>>
      BY <1>2 DEF Enrich!UpdateRead
  <2> QED
      BY <2>1, <2>2 DEF EditInv
<1>3. ASSUME NEW r \in Request, Enrich!UpdateCommit(r)
      PROVE  EditInv' /\ flags \subseteq flags'
  <2>1. edits[r].at = "write"
      BY <1>3 DEF Enrich!UpdateCommit
  <2>2. \A x \in Request \ {r} : edits[x].at # "write"
      BY <2>1 DEF EditsApart
  <2>3. /\ DOMAIN edits' = Request
        /\ \A x \in Request : "at" \in DOMAIN edits'[x] /\ edits'[x].at # "write"
      BY <1>3, <2>2 DEF Enrich!UpdateCommit, Enrich!Idle, EditInv
  <2>4. text' # None /\ flags \subseteq flags'
      BY <1>3 DEF Enrich!UpdateCommit, EditInv
  <2> QED
      BY <2>3, <2>4 DEF EditInv
<1>4. ASSUME NEW r \in Request, Enrich!Publish(r) \/ Enrich!Crash(r)
      PROVE  EditInv' /\ flags \subseteq flags'
  <2>1. /\ UNCHANGED <<text, flags>> /\ DOMAIN edits' = Request
        /\ \A x \in Request \ {r} : edits'[x] = edits[x]
        /\ "at" \in DOMAIN edits'[r] /\ edits'[r].at # "write"
      BY <1>4 DEF Enrich!Publish, Enrich!Crash, Enrich!Finish, Enrich!Idle, EditInv
  <2> QED
      BY <2>1 DEF EditInv
<1>5. ASSUME NEW w \in Worker, NEW k \in Kind,
             \/ Enrich!WorkerTake(w, k)
             \/ \E ok \in BOOLEAN : Enrich!WorkerWrite(w, k, ok)
             \/ Enrich!WorkerAck(w, k) \/ Enrich!WorkerRequeue(w, k)
      PROVE  EditInv' /\ flags \subseteq flags'
  <2>1. UNCHANGED <<text, flags, edits>>
      BY <1>5 DEF Enrich!WorkerTake, Enrich!WorkerWrite, Enrich!WorkerAck, Enrich!WorkerRequeue
  <2> QED
      BY <2>1 DEF EditInv
<1>6. CASE UNCHANGED enrichVars
    BY <1>6 DEF enrichVars, EditInv
<1> QED
    BY <1>1, <1>2, <1>3, <1>4, <1>5, <1>6 DEF Enrich!Next

-----------------------------------------------------------------------------
(* The two side by side.                                                    *)

\* A step of the two is a step, or none, of each.
LEMMA PartsSteps == [PartsNext]_allVars => [Next]_vars /\ [Enrich!Next]_enrichVars
BY DEF PartsNext, RetroMoves, EnrichMoves, allVars

PartsInv == TypeOK /\ ArgInv /\ ReadInv /\ EditInv

LEMMA PartsInvHolds == PartsSpec /\ []StartsApart /\ []EditsApart => []PartsInv
<1>1. PartsInit => PartsInv
  <2>1. Init => ReadInv
      BY NoneAssumption DEF Init, ReadInv, Changes, Idle, AllOps
  <2> QED
      BY <2>1, InitTypeOK, InitInv, EditInit DEF PartsInit, PartsInv
<1>2. StartsApart /\ EditsApart /\ PartsInv /\ [PartsNext]_allVars => PartsInv'
    BY PartsSteps, NextTypeOK, StepArg, StepRead, EditStep DEF PartsInv
<1> QED
    BY <1>1, <1>2, PTL DEF PartsSpec, PartsNext

\* For any number of requests, and of consumers that fail and redeliver, as
\* long as no two starts or deletions of one sprint overlap, nor two edits of
\* the ticket between SELECT and commit: start_sprint and delete_sprint never
\* change a completed sprint, and _apply_appsec_trigger drops no flag.
\* sprints.py:341-373, tickets.py:148-160.
THEOREM NothingTakenBackHolds ==
    PartsSpec /\ []StartsApart /\ []EditsApart => NothingTakenBack
<1>1. PartsInv /\ [PartsNext]_allVars
        => [\A s \in Sprint : status[s] = "completed" => status'[s] = "completed"]_vars
    BY PartsSteps, CompletedStays DEF PartsInv
<1>2. EditsApart /\ PartsInv /\ [PartsNext]_allVars => [flags \subseteq flags']_(Enrich!vars)
    BY PartsSteps, EditStep DEF PartsInv
<1> QED
    BY <1>1, <1>2, PartsInvHolds, PTL
    DEF PartsSpec, PartsNext, NothingTakenBack, NoReopen, Enrich!FlagsGrow
=============================================================================
