--------------------------- MODULE SprintLifecycle ---------------------------
(***************************************************************************)
(* The sprints of one project and the tickets planned into them, as the    *)
(* handlers of app/api/sprints.py and app/api/tickets.py change them.      *)
(*                                                                         *)
(* Postgres runs at READ COMMITTED, so a handler is not atomic: each of    *)
(* its SELECTs sees what was committed when that SELECT ran, and its       *)
(* writes are applied at the end, to the rows as they are then.  A request *)
(* is therefore a process.  An action XRead or XSelect is one such SELECT  *)
(* with the checks made on it (a failed check is an HTTP error and changes *)
(* nothing, so it is simply not a step); XCommit is the flush and commit,  *)
(* with the constraints Postgres enforces; Publish is the RabbitMQ publish *)
(* made after the commit.  complete_sprint flushes before it commits and   *)
(* holds row locks in between, so it has a CompleteUpdate step as well.    *)
(***************************************************************************)
EXTENDS Naturals, FiniteSets

CONSTANTS
    Sprint,     \* sprint ids; an id is used for one row only
    Ticket,     \* ticket ids, all of one project
    Request,    \* HTTP requests that may be in progress at the same time
    Worker,     \* consumers of the sprint retro queue
    None,       \* SQL NULL, and "nothing in hand"
    Ops,        \* the kinds of request the clients send
    MaxQueued   \* bound: retro jobs of one sprint waiting in the queue

AllOps == {"start", "complete", "removeSprint", "regenerate", "assign",
           "create", "patch", "trash", "restore"}

ASSUME NoneAssumption ==
    /\ None \notin Sprint
    /\ \A T \in SUBSET Ticket : T # None
    /\ None \notin AllOps \cup {"pending", "completed", "failed"}
ASSUME OpsAssumption == Ops \subseteq AllOps
ASSUME QueueAssumption == MaxQueued \in Nat \ {0}

VARIABLES
    status,     \* sprints.status, or that the row does not exist (yet, any more)
    retro,      \* sprints.retro_status
    returned,   \* sprints.retro_returned_snapshot: NULL or the tickets it lists
    life,       \* tickets: not created, live, or soft-deleted (deleted_at set)
    sprintId,   \* tickets.sprint_id
    done,       \* tickets.workflow_state_id is the project's terminal column
    req,        \* the requests in progress
    retroQueue, \* number of SprintRetroJobs ready in the queue, per sprint
    inHand      \* the job each consumer holds unacked

sprintTable == <<status, retro, returned>>
ticketTable == <<life, sprintId, done>>
vars == <<status, retro, returned, life, sprintId, done, req, retroQueue, inHand>>
-----------------------------------------------------------------------------
Status == {"none", "planned", "active", "completed", "deleted"}
Retro == {"pending", "completed", "failed", None}

Stage == {"idle", "select", "write", "locked", "publish"}

\* sprint, tickets, done: the arguments; dirty: the columns a PATCH changes;
\* picked: what complete_sprint put in the snapshot; hit: the rows its bulk
\* UPDATE matched.
Requests == [op: Ops \cup {None}, at: Stage, sprint: Sprint \cup {None},
             tickets: SUBSET Ticket, done: BOOLEAN,
             dirty: SUBSET {"sprint", "done"},
             picked: SUBSET Ticket, hit: SUBSET Ticket]

Idle == [op |-> None, at |-> "idle", sprint |-> None, tickets |-> {},
         done |-> FALSE, dirty |-> {}, picked |-> {}, hit |-> {}]

\* A consumer's unacked job: the retro_status it loaded, and whether its
\* result is committed.
Jobs == [sprint: Sprint \cup {None}, loaded: Retro, written: BOOLEAN]

NoJob == [sprint |-> None, loaded |-> None, written |-> FALSE]

TypeOK ==
    /\ status \in [Sprint -> Status]
    /\ retro \in [Sprint -> Retro]
    /\ returned \in [Sprint -> (SUBSET Ticket) \cup {None}]
    /\ life \in [Ticket -> {"none", "live", "deleted"}]
    /\ sprintId \in [Ticket -> Sprint \cup {None}]
    /\ done \in [Ticket -> BOOLEAN]
    /\ req \in [Request -> Requests]
    /\ retroQueue \in [Sprint -> Nat]
    /\ inHand \in [Worker -> Jobs]

Exists(s) == status[s] \in {"planned", "active", "completed"}
Live(t) == life[t] = "live"

\* The WHERE clause complete_sprint uses twice: once to take the snapshot,
\* once to update.
Unfinished(s) ==
    {t \in Ticket : Live(t) /\ sprintId[t] = s /\ ~done[t]}

\* Rows another transaction has updated and not yet committed.
LockedSprint(s) == \E r \in Request : req[r].at = "locked" /\ req[r].sprint = s
LockedTicket(t) == \E r \in Request : req[r].at = "locked" /\ t \in req[r].hit

Init ==
    /\ status = [s \in Sprint |-> "none"]
    /\ retro = [s \in Sprint |-> None]
    /\ returned = [s \in Sprint |-> None]
    /\ life = [t \in Ticket |-> "none"]
    /\ sprintId = [t \in Ticket |-> None]
    /\ done = [t \in Ticket |-> FALSE]
    /\ req = [r \in Request |-> Idle]
    /\ retroQueue = [s \in Sprint |-> 0]
    /\ inHand = [w \in Worker |-> NoJob]

\* Request r begins as an op with arguments s, T and waits at stage a.
Begin(r, o, a, s, T) ==
    /\ o \in Ops
    /\ req[r] = Idle
    /\ req' = [req EXCEPT ![r] = [Idle EXCEPT !.op = o, !.at = a,
                                              !.sprint = s, !.tickets = T]]

Goto(r, a) == req' = [req EXCEPT ![r].at = a]
Finish(r) == req' = [req EXCEPT ![r] = Idle]
At(r, o, a) == req[r].op = o /\ req[r].at = a

UnchangedTables == UNCHANGED <<sprintTable, ticketTable>>
UnchangedQueue == UNCHANGED <<retroQueue, inHand>>
-----------------------------------------------------------------------------
\* POST /sprints: nothing is read that another request could change.
CreateSprint(s) ==
    /\ status[s] = "none"
    /\ status' = [status EXCEPT ![s] = "planned"]
    /\ UNCHANGED <<retro, returned, ticketTable, req>> /\ UnchangedQueue

\* POST /sprints/{s}/start.  Fault: only an active sprint is refused.
FaultStartable(s) == status[s] \in {"planned", "completed"}
Startable(s) == status[s] = "planned"

StartRead(r, s) ==
    /\ Startable(s)
    /\ Begin(r, "start", "write", s, {})
    /\ UnchangedTables /\ UnchangedQueue

OtherActive(s) == {x \in Sprint \ {s} : status[x] = "active"}

\* uq_sprints_one_active_per_project refuses a second active row.
FaultMayActivate(s) == Exists(s)
MayActivate(s) == Exists(s) /\ OtherActive(s) = {}

\* The unique index makes the UPDATE wait for a transaction that is changing
\* the active row; it fails if that row is then still active.
StartCommit(r) ==
    LET s == req[r].sprint
    IN  /\ At(r, "start", "write")
        /\ ~LockedSprint(s)
        /\ \A x \in OtherActive(s) : ~LockedSprint(x)
        /\ IF MayActivate(s)
           THEN status' = [status EXCEPT ![s] = "active"]
           ELSE UNCHANGED status
        /\ Finish(r)
        /\ UNCHANGED <<retro, returned, ticketTable>> /\ UnchangedQueue

\* POST /sprints/{s}/complete.
CompleteRead(r, s) ==
    /\ status[s] = "active"
    /\ Begin(r, "complete", "select", s, {})
    /\ UnchangedTables /\ UnchangedQueue

\* Fault: the job is published before the transaction commits.
FaultCompleteSelect(r) ==
    /\ At(r, "complete", "select")
    /\ req' = [req EXCEPT ![r].at = "write",
                          ![r].picked = Unfinished(req[r].sprint)]
    /\ retroQueue' = [retroQueue EXCEPT ![req[r].sprint] = 1]
    /\ UnchangedTables /\ UNCHANGED inHand

\* Fault: the snapshot lists the finished tickets too.
FaultSnapshotSelect(r) ==
    /\ At(r, "complete", "select")
    /\ req' = [req EXCEPT ![r].at = "write", ![r].picked =
                            {t \in Ticket : Live(t) /\ sprintId[t] = req[r].sprint}]
    /\ UnchangedTables /\ UnchangedQueue

CompleteSelect(r) ==
    /\ At(r, "complete", "select")
    /\ req' = [req EXCEPT ![r].at = "write",
                          ![r].picked = Unfinished(req[r].sprint)]
    /\ UnchangedTables /\ UnchangedQueue

\* Fault: update the tickets found by the SELECT, by id.
FaultCompleteUpdate(r) ==
    LET s == req[r].sprint
    IN  /\ At(r, "complete", "write") /\ ~LockedSprint(s)
        /\ IF Exists(s)
           THEN req' = [req EXCEPT ![r].at = "locked", ![r].hit = req[r].picked]
           ELSE Finish(r)
        /\ UnchangedTables /\ UnchangedQueue

\* db.execute(update(...)) autoflushes the snapshot, which locks the sprint
\* row, then re-evaluates the WHERE clause and locks the tickets it matches.
CompleteUpdate(r) ==
    LET s == req[r].sprint
    IN  /\ At(r, "complete", "write")
        /\ ~LockedSprint(s)
        /\ IF Exists(s)
           THEN req' = [req EXCEPT ![r].at = "locked", ![r].hit = Unfinished(s)]
           ELSE Finish(r)
        /\ UnchangedTables /\ UnchangedQueue

\* Fault: the snapshot is wrapped in one list too many.
FaultNestedSnapshot(s, T) ==
    /\ status' = [status EXCEPT ![s] = "completed"]
    /\ returned' = [returned EXCEPT ![s] = {T}]
    /\ retro' = [retro EXCEPT ![s] = "pending"]

WriteCompleted(s, T) ==
    /\ status' = [status EXCEPT ![s] = "completed"]
    /\ returned' = [returned EXCEPT ![s] = T]
    /\ retro' = [retro EXCEPT ![s] = "pending"]

CompleteCommit(r) ==
    /\ At(r, "complete", "locked")
    /\ WriteCompleted(req[r].sprint, req[r].picked)
    /\ sprintId' = [t \in Ticket |->
                      IF t \in req[r].hit THEN None ELSE sprintId[t]]
    /\ req' = [req EXCEPT ![r].at = "publish", ![r].picked = {}, ![r].hit = {}]
    /\ UNCHANGED <<life, done>> /\ UnchangedQueue

\* POST /sprints/{s}/retro/regenerate.
RegenerateRead(r, s) ==
    /\ status[s] = "completed"
    /\ retro[s] # "pending"
    /\ Begin(r, "regenerate", "write", s, {})
    /\ UnchangedTables /\ UnchangedQueue

RegenerateCommit(r) ==
    LET s == req[r].sprint
    IN  /\ At(r, "regenerate", "write")
        /\ ~LockedSprint(s)
        /\ IF Exists(s)
           THEN /\ retro' = [retro EXCEPT ![s] = "pending"]
                /\ Goto(r, "publish")
           ELSE UNCHANGED retro /\ Finish(r)
        /\ UNCHANGED <<status, returned, ticketTable>> /\ UnchangedQueue

\* publish_sprint_retro_job, after the commit of either of the two above.
Publish(r) ==
    LET s == req[r].sprint
    IN  /\ req[r].at = "publish"
        /\ retroQueue[s] < MaxQueued
        /\ retroQueue' = [retroQueue EXCEPT ![s] = @ + 1]
        /\ Finish(r)
        /\ UnchangedTables /\ UNCHANGED inHand

\* DELETE /sprints/{s}: two SELECTs, then the DELETE, which the foreign key
\* of tickets refuses while any row, soft-deleted ones included, refers to s.
RemoveSprintRead(r, s) ==
    /\ status[s] = "planned"
    /\ Begin(r, "removeSprint", "select", s, {})
    /\ UnchangedTables /\ UnchangedQueue

RemoveSprintSelect(r) ==
    /\ At(r, "removeSprint", "select")
    /\ IF \E t \in Ticket : Live(t) /\ sprintId[t] = req[r].sprint
       THEN Finish(r) ELSE Goto(r, "write")
    /\ UnchangedTables /\ UnchangedQueue

\* fk_tickets_sprint_project: the rows of deleted tickets count as well.
Referenced(s) == \E t \in Ticket : sprintId[t] = s

RemoveSprintCommit(r) ==
    LET s == req[r].sprint
    IN  /\ At(r, "removeSprint", "write")
        /\ ~LockedSprint(s)
        /\ IF Exists(s) /\ ~Referenced(s)
           THEN status' = [status EXCEPT ![s] = "deleted"]
           ELSE UNCHANGED status
        /\ Finish(r)
        /\ UNCHANGED <<retro, returned, ticketTable>> /\ UnchangedQueue
-----------------------------------------------------------------------------
\* POST /sprints/{s}/assign with the tickets T.
AssignRead(r, s, T) ==
    /\ status[s] \in {"planned", "active"}
    /\ T # {}
    /\ Begin(r, "assign", "select", s, T)
    /\ UnchangedTables /\ UnchangedQueue

AssignSelect(r) ==
    /\ At(r, "assign", "select")
    /\ IF \A t \in req[r].tickets : Live(t) /\ sprintId[t] = None
       THEN Goto(r, "write") ELSE Finish(r)
    /\ UnchangedTables /\ UnchangedQueue

\* The flush fails as a whole if the foreign key to sprints is violated.
AssignCommit(r) ==
    /\ At(r, "assign", "write")
    /\ \A t \in req[r].tickets : ~LockedTicket(t)
    /\ IF Exists(req[r].sprint)
       THEN sprintId' = [t \in Ticket |->
              IF t \in req[r].tickets THEN req[r].sprint ELSE sprintId[t]]
       ELSE UNCHANGED sprintId
    /\ Finish(r)
    /\ UNCHANGED <<sprintTable, life, done>> /\ UnchangedQueue

\* POST /tickets, into sprint s or (None) into the backlog.  The INSERT takes
\* a fresh id; the new ticket is in the project's default column.
CreateTicketRead(r, s) ==
    /\ s # None => Exists(s)
    /\ Begin(r, "create", "write", s, {})
    /\ UnchangedTables /\ UnchangedQueue

CreateTicketCommit(r) ==
    /\ At(r, "create", "write")
    /\ IF req[r].sprint = None \/ Exists(req[r].sprint)
       THEN \E t \in Ticket :
              /\ life[t] = "none"
              /\ life' = [life EXCEPT ![t] = "live"]
              /\ sprintId' = [sprintId EXCEPT ![t] = req[r].sprint]
       ELSE UNCHANGED <<life, sprintId>>
    /\ Finish(r)
    /\ UNCHANGED <<sprintTable, done>> /\ UnchangedQueue

\* PATCH /tickets/{t} of sprint_id and workflow_state_id: the flush writes
\* the columns whose new value differs from the one the request loaded.
PatchRead(r, t, s, d) ==
    LET dirty == (IF s # sprintId[t] THEN {"sprint"} ELSE {})
                   \cup (IF d # done[t] THEN {"done"} ELSE {})
    IN  /\ "patch" \in Ops
        /\ req[r] = Idle
        /\ Live(t)
        /\ dirty # {}
        /\ s # None /\ "sprint" \in dirty => Exists(s)
        /\ req' = [req EXCEPT ![r] =
                     [Idle EXCEPT !.op = "patch", !.at = "write",
                                  !.tickets = {t}, !.dirty = dirty,
                                  !.sprint = IF "sprint" \in dirty THEN s ELSE None,
                                  !.done = "done" \in dirty /\ d]]
        /\ UnchangedTables /\ UnchangedQueue

PatchCommit(r) ==
    LET s == req[r].sprint
    IN  /\ At(r, "patch", "write")
        /\ \A t \in req[r].tickets : ~LockedTicket(t)
        /\ IF s = None \/ Exists(s)
           THEN \E t \in req[r].tickets :
                  /\ sprintId' = [sprintId EXCEPT
                        ![t] = IF "sprint" \in req[r].dirty THEN s ELSE @]
                  /\ done' = [done EXCEPT
                        ![t] = IF "done" \in req[r].dirty THEN req[r].done ELSE @]
           ELSE UNCHANGED <<sprintId, done>>
        /\ Finish(r)
        /\ UNCHANGED <<sprintTable, life>> /\ UnchangedQueue

\* DELETE /tickets/{t} and POST /tickets/{t}/restore: soft delete and undo.
TrashRead(r, t) ==
    /\ Live(t)
    /\ Begin(r, "trash", "write", None, {t})
    /\ UnchangedTables /\ UnchangedQueue

RestoreRead(r, t) ==
    /\ life[t] = "deleted"
    /\ Begin(r, "restore", "write", None, {t})
    /\ UnchangedTables /\ UnchangedQueue

TrashOrRestoreCommit(r) ==
    /\ At(r, "trash", "write") \/ At(r, "restore", "write")
    /\ \A t \in req[r].tickets : ~LockedTicket(t)
    /\ \E t \in req[r].tickets :
         life' = [life EXCEPT ![t] =
                    IF req[r].op = "trash" THEN "deleted" ELSE "live"]
    /\ Finish(r)
    /\ UNCHANGED <<sprintTable, sprintId, done>> /\ UnchangedQueue

\* The API process dies, or the broker refuses the publish: an uncommitted
\* transaction rolls back, a committed one stays without its job.
Crash(r) ==
    /\ req[r] # Idle
    /\ Finish(r)
    /\ UnchangedTables /\ UnchangedQueue
-----------------------------------------------------------------------------
\* A consumer receives a job and loads the sprint.  A sprint that no longer
\* exists is a poison message: rejected, not requeued.
WorkerTake(w, s) ==
    /\ inHand[w] = NoJob
    /\ retroQueue[s] > 0
    /\ retroQueue' = [retroQueue EXCEPT ![s] = @ - 1]
    /\ IF Exists(s)
       THEN inHand' = [inHand EXCEPT ![w] =
                         [sprint |-> s, loaded |-> retro[s],
                          written |-> FALSE]]
       ELSE UNCHANGED inHand
    /\ UnchangedTables /\ UNCHANGED req

\* Fault: when both providers fail the sprint is left as it is.
FaultWorkerWrite(w, result) ==
    LET s == inHand[w].sprint
    IN  /\ inHand[w] # NoJob /\ ~inHand[w].written
        /\ retro' = IF result = "completed" THEN [retro EXCEPT ![s] = result] ELSE retro
        /\ inHand' = [inHand EXCEPT ![w].written = TRUE]
        /\ UNCHANGED <<status, returned, ticketTable, req, retroQueue>>

\* The LLM answered or both providers failed, and the result is committed.
\* The flush writes retro_status only if it differs from the value loaded; on
\* a row that is gone it fails, and the job is requeued.
WorkerWrite(w, result) ==
    LET s == inHand[w].sprint
    IN  /\ inHand[w] # NoJob /\ ~inHand[w].written
        /\ ~LockedSprint(s)
        /\ IF Exists(s)
           THEN /\ retro' = [retro EXCEPT ![s] =
                               IF result = inHand[w].loaded THEN @ ELSE result]
                /\ inHand' = [inHand EXCEPT ![w].written = TRUE]
                /\ UNCHANGED retroQueue
           ELSE /\ inHand' = [inHand EXCEPT ![w] = NoJob]
                /\ retroQueue' = [retroQueue EXCEPT ![s] = @ + 1]
                /\ UNCHANGED retro
        /\ UNCHANGED <<status, returned, ticketTable, req>>

WorkerAck(w) ==
    /\ inHand[w].written
    /\ inHand' = [inHand EXCEPT ![w] = NoJob]
    /\ UnchangedTables /\ UNCHANGED <<req, retroQueue>>

\* The consumer dies, or a transient failure nacks: the job is requeued, also
\* when its result is committed already (at-least-once delivery).
WorkerRequeue(w) ==
    /\ inHand[w] # NoJob
    /\ retroQueue' = [retroQueue EXCEPT ![inHand[w].sprint] = @ + 1]
    /\ inHand' = [inHand EXCEPT ![w] = NoJob]
    /\ UnchangedTables /\ UNCHANGED req

\* The steps of r once it has begun, apart from its failure.
RequestStep(r) ==
    \/ StartCommit(r)
    \/ CompleteSelect(r) \/ CompleteUpdate(r) \/ CompleteCommit(r)
    \/ RegenerateCommit(r) \/ Publish(r)
    \/ RemoveSprintSelect(r) \/ RemoveSprintCommit(r)
    \/ AssignSelect(r) \/ AssignCommit(r)
    \/ CreateTicketCommit(r) \/ PatchCommit(r) \/ TrashOrRestoreCommit(r)

WorkerStep(w) ==
    \/ \E s \in Sprint : WorkerTake(w, s)
    \/ \E result \in {"completed", "failed"} : WorkerWrite(w, result)
    \/ WorkerAck(w)

Next ==
    \/ \E s \in Sprint : CreateSprint(s)
    \/ \E r \in Request :
         \/ \E s \in Sprint :
              \/ StartRead(r, s) \/ CompleteRead(r, s) \/ RegenerateRead(r, s)
              \/ RemoveSprintRead(r, s)
              \/ \E T \in SUBSET Ticket : AssignRead(r, s, T)
         \/ \E s \in Sprint \cup {None} : CreateTicketRead(r, s)
         \/ \E t \in Ticket :
              \/ TrashRead(r, t) \/ RestoreRead(r, t)
              \/ \E s \in Sprint \cup {None}, d \in BOOLEAN : PatchRead(r, t, s, d)
         \/ RequestStep(r)
         \/ Crash(r)
    \/ \E w \in Worker : WorkerStep(w) \/ WorkerRequeue(w)

Spec == Init /\ [][Next]_vars

\* The event loop runs a request it has begun to its end; the queue hands
\* its jobs out in turn; and a consumer does not fail on every delivery of a
\* job.  That clients send requests is not assumed.
FairSpec ==
    /\ Spec
    /\ \A r \in Request : WF_vars(RequestStep(r))
    /\ \A w \in Worker :
         /\ WF_vars(WorkerAck(w))
         /\ \A s \in Sprint :
              /\ SF_vars(WorkerTake(w, s))
              /\ SF_vars(inHand[w].sprint = s
                           /\ \E result \in {"completed", "failed"} :
                                WorkerWrite(w, result))
-----------------------------------------------------------------------------
(* What the handlers guarantee however their requests interleave. *)

\* Two concurrent starts never leave two active sprints in the project
\* (start_sprint and the partial unique index of migration 0012).
OneActive ==
    \A s, x \in Sprint :
        status[s] = "active" /\ status[x] = "active" => s = x

\* A completed sprint is never observed without a retro status and a
\* snapshot: one transaction of complete_sprint writes all three.
CompletedHasRetro ==
    \A s \in Sprint : status[s] = "completed" =>
        retro[s] # None /\ returned[s] # None

\* No ticket, soft-deleted ones included, refers to a sprint that is gone,
\* whatever delete_sprint, assign_tickets and PATCH do at the same time.
TicketSprintExists ==
    \A t \in Ticket : sprintId[t] # None => Exists(sprintId[t])

\* A retro job is seen by a consumer only after the commit it follows: the
\* sprint then has a retro status, unless it was deleted since.
JobAfterCommit ==
    \A s \in Sprint :
        retroQueue[s] > 0 /\ Exists(s) => retro[s] # None

\* What one row says of another is so in every state between the requests'
\* commits: the three conditions above.  sprints.py:326-354, 390-447, 525-544.
RowsAgree == CompletedHasRetro /\ TicketSprintExists /\ JobAfterCommit

\* Completing a sprint takes only unfinished live tickets off it, also those
\* finished or deleted after complete_sprint took its snapshot: the bulk
\* UPDATE re-evaluates its WHERE clause and holds the rows it matched.
FinishedWorkStays ==
    [][\A t \in Ticket :
         sprintId'[t] # sprintId[t] /\ sprintTable' # sprintTable =>
            /\ Live(t) /\ ~done[t]
            /\ sprintId'[t] = None
            /\ status'[sprintId[t]] = "completed"]_vars

\* The sprints of a project implement the single place of ActiveSlot.
Slot == INSTANCE ActiveSlot
            WITH holders <- {s \in Sprint : status[s] = "active"}
SlotSpec == Slot!Spec

(* What they guarantee when certain requests do not overlap. *)

\* A completed sprint stays completed: start_sprint and complete_sprint are
\* the only writers of status, and each accepts one prior status.
NoReopen ==
    [][\A s \in Sprint : status[s] = "completed" =>
                           status'[s] = "completed"]_vars

\* The snapshot lists exactly the tickets completion returned to the backlog,
\* and what it leaves on the sprint is finished: nothing is counted twice or
\* lost between "returned" and "done".
SnapshotIsReturned ==
    [][\A s \in Sprint :
         status'[s] = "completed" /\ status[s] = "active" =>
           /\ returned'[s] =
                {t \in Ticket : sprintId[t] = s /\ sprintId'[t] # s}
           /\ \A t \in Ticket : Live(t) /\ sprintId'[t] = s
                                    => done[t]]_vars

\* What sprints.py:463-470, sprint_retro_context.py:81-85 and tickets.py:599-603
\* say: the tickets still on a completed sprint are those that finished. Nothing
\* but the completion itself sees to it.
OnCompletedIsDone ==
    \A t \in Ticket :
      Live(t) /\ sprintId[t] # None /\ status[sprintId[t]] = "completed" => done[t]

\* Once a retro job is in the queue, the sprint does not stay on 'pending',
\* in spite of consumers that die and jobs delivered again.
QueuedRetroSettles ==
    \A s \in Sprint : retroQueue[s] > 0 ~>
        (~Exists(s) \/ retro[s] # "pending")
=============================================================================
