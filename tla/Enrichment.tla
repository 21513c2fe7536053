----------------------------- MODULE Enrichment -----------------------------
(***************************************************************************)
(* What is added to a ticket after it is created: the triage verdict, the  *)
(* embedding used to find duplicates, and the AppSec review.  The handlers *)
(* of app/api/tickets.py commit the ticket, then publish one job per kind; *)
(* the consumers of worker/main.py read the row again, call an LLM, and    *)
(* commit the answer.  One ticket is modelled: jobs of different tickets   *)
(* write different rows, and only wait for each other.                     *)
(*                                                                         *)
(* A PATCH is not atomic: UpdateRead loads the row and runs the keyword    *)
(* gate on it, UpdateCommit writes the columns it changed.  A consumer is  *)
(* not atomic either: the LLM call is between WorkerTake and WorkerWrite.  *)
(***************************************************************************)
EXTENDS Naturals, Sequences

CONSTANTS
    Text,       \* contents of title and description
    Category,   \* categories of the AppSec trigger library
    Matches,    \* match_triggers: the categories a text matches
    Request,    \* HTTP requests that may be in progress at the same time
    Worker,     \* worker processes; each has one consumer per queue
    Kind,       \* the queues that are followed; the code has all three
    None,       \* SQL NULL
    MaxQueued   \* bound: edits begin while fewer jobs are in each queue

AllKinds == {"triage", "embed", "appsec"}

ASSUME MatchesAssumption == Matches \in [Text -> SUBSET Category]
ASSUME NoneAssumption ==
    None \notin Text \cup {"pending", "triaged", "completed", "failed"}
ASSUME KindAssumption == Kind \subseteq AllKinds
ASSUME QueueAssumption == MaxQueued \in Nat \ {0}

VARIABLES
    text,        \* title and description, or None: not created yet
    triage,      \* triage_status
    triageError, \* triage_error is set
    embedding,   \* the text the stored vector was computed from
    flags,       \* appsec_categories
    review,      \* appsec_review_status
    reviewError, \* appsec_review_error is set
    req,         \* the requests in progress
    queue,       \* number of ready jobs of each kind
    inHand,      \* the job each consumer holds unacked
    missed       \* history: kinds whose last job was lost or gave no answer

triageColumns == <<triage, triageError>>
reviewColumns == <<review, reviewError>>
vars == <<text, triage, triageError, embedding, flags, review, reviewError,
          req, queue, inHand, missed>>
-----------------------------------------------------------------------------
Status == {None, "pending", "triaged", "completed", "failed"}

\* text, flags, pend: what the flush writes: the new text (None: unchanged),
\* the new flags ({}: unchanged), the status 'pending' (FALSE: unchanged);
\* todo: the jobs still to be published, in order.
Requests == [at: {"idle", "write", "publish"}, text: Text \cup {None},
             flags: SUBSET Category, pend: BOOLEAN, todo: Seq(AllKinds)]
Idle == [at |-> "idle", text |-> None, flags |-> {}, pend |-> FALSE,
         todo |-> << >>]

\* called: the LLM is working on it; done: its outcome is committed.
\* text, status: the text to embed, and the status column, as loaded.
Jobs == [at: {"none", "called", "done"}, text: Text \cup {None}, status: Status]
NoJob == [at |-> "none", text |-> None, status |-> None]
Done == [NoJob EXCEPT !.at = "done"]

TypeOK ==
    /\ text \in Text \cup {None} /\ embedding \in Text \cup {None}
    /\ triage \in {None, "pending", "triaged", "failed"} /\ triageError \in BOOLEAN
    /\ review \in {None, "pending", "completed", "failed"} /\ reviewError \in BOOLEAN
    /\ flags \in SUBSET Category
    /\ req \in [Request -> Requests]
    /\ queue \in [Kind -> Nat]
    /\ inHand \in [Worker \X Kind -> Jobs]
    /\ missed \in SUBSET AllKinds

Init ==
    /\ text = None /\ embedding = None
    /\ triage = None /\ triageError = FALSE
    /\ flags = {} /\ review = None /\ reviewError = FALSE
    /\ req = [r \in Request |-> Idle]
    /\ queue = [k \in Kind |-> 0]
    /\ inHand = [c \in Worker \X Kind |-> NoJob]
    /\ missed = {}

Finish(r) == req' = [req EXCEPT ![r] = Idle]

\* _apply_appsec_trigger: whether text v asks for a review of a ticket with
\* these flags and this status, and the flags it leaves.
NeedsReview(v, old, status) ==
    /\ Matches[v] # {}
    /\ status = None \/ ~(Matches[v] \subseteq old)

\* Fault: the new categories are appended as one element.
FaultNestedFlags(v, old) == old \cup {Matches[v]}
FlagsAfter(v, old) == old \cup Matches[v]

\* The jobs update_ticket publishes, in order.  Fault: an edit is embedded
\* again only when it is reviewed again.
FaultJobsAfterEdit(flagged) == IF flagged THEN <<"embed", "appsec">> ELSE << >>
JobsAfterEdit(flagged) == IF flagged THEN <<"embed", "appsec">> ELSE <<"embed">>
-----------------------------------------------------------------------------
\* POST /tickets: the gate, the INSERT and the commit; the jobs follow.
CreateTicket(r, v) ==
    LET flagged == NeedsReview(v, {}, None)
    IN  /\ text = None
        /\ req[r] = Idle
        /\ text' = v
        /\ triage' = "pending"
        /\ flags' = FlagsAfter(v, {})
        /\ review' = IF flagged THEN "pending" ELSE None
        /\ req' = [req EXCEPT ![r] = [Idle EXCEPT
                     !.at = "publish",
                     !.todo = <<"triage">> \o JobsAfterEdit(flagged)]]
        /\ UNCHANGED <<triageError, embedding, reviewError, queue, inHand, missed>>

\* PATCH /tickets/{id} with a title or a description.
UpdateRead(r, v) ==
    /\ text # None
    /\ req[r] = Idle
    /\ \A k \in Kind : queue[k] < MaxQueued
    /\ LET flagged == NeedsReview(v, flags, review)
       IN  req' = [req EXCEPT ![r] =
             [at |-> "write",
              text |-> IF v = text THEN None ELSE v,
              flags |-> IF flagged THEN FlagsAfter(v, flags) ELSE {},
              pend |-> flagged /\ review # "pending",
              todo |-> JobsAfterEdit(flagged)]]
    /\ UNCHANGED <<text, triageColumns, embedding, flags, reviewColumns,
                   queue, inHand, missed>>

\* The flush writes only columns that differ from what was loaded.
UpdateCommit(r) ==
    /\ req[r].at = "write"
    /\ text' = IF req[r].text = None THEN text ELSE req[r].text
    /\ flags' = IF req[r].flags = {} THEN flags ELSE req[r].flags
    /\ review' = IF req[r].pend THEN "pending" ELSE review
    /\ req' = [req EXCEPT ![r] = [Idle EXCEPT !.at = "publish",
                                              !.todo = req[r].todo]]
    /\ UNCHANGED <<triageColumns, embedding, reviewError, queue, inHand, missed>>

\* publish_triage_job, publish_embed_job, publish_appsec_job.
Publish(r) ==
    /\ req[r].at = "publish"
    /\ LET k == Head(req[r].todo)
       IN  /\ queue' = IF k \in Kind THEN [queue EXCEPT ![k] = @ + 1] ELSE queue
           /\ missed' = missed \ {k}
    /\ IF Len(req[r].todo) = 1
       THEN Finish(r)
       ELSE req' = [req EXCEPT ![r].todo = Tail(@)]
    /\ UNCHANGED <<text, triageColumns, embedding, flags, reviewColumns, inHand>>

\* The API process dies, or a publish raises: what was not committed is
\* rolled back, what was not published never will be.
Crash(r) ==
    /\ req[r] # Idle
    /\ missed' = IF req[r].at = "publish"
                 THEN missed \cup {req[r].todo[i] : i \in DOMAIN req[r].todo}
                 ELSE missed
    /\ Finish(r)
    /\ UNCHANGED <<text, triageColumns, embedding, flags, reviewColumns,
                   queue, inHand>>
-----------------------------------------------------------------------------
\* The status column a job of kind k is about; an embedding has none.
StatusOf(k) == CASE k = "triage" -> triage
                 [] k = "appsec" -> review
                 [] k = "embed" -> None

\* A consumer receives a job and loads the row.  The AppSec consumer runs the
\* gate again and drops a job for a text that matches nothing any more.
WorkerTake(w, k) ==
    LET skip == k = "appsec" /\ Matches[text] = {}
    IN  /\ inHand[<<w, k>>] = NoJob
        /\ queue[k] > 0
        /\ queue' = [queue EXCEPT ![k] = @ - 1]
        /\ inHand' = [inHand EXCEPT ![<<w, k>>] =
              IF skip THEN Done
              ELSE [at |-> "called", text |-> IF k = "embed" THEN text ELSE None,
                    status |-> StatusOf(k)]]
        /\ missed' = IF skip THEN missed \cup {k} ELSE missed
        /\ UNCHANGED <<text, triageColumns, embedding, flags, reviewColumns, req>>

\* Assigning a column the value it was loaded with writes nothing.
Written(loaded, column, value) == IF value = loaded THEN column ELSE value

\* The outcome of _process_job, _process_embed_job and _process_appsec_job for
\* the job j.  An error is kept when a later delivery succeeds; a failed
\* embedding leaves no trace on the ticket.
TriageWrite(j, ok) ==
    /\ triage' = Written(j.status, triage, IF ok THEN "triaged" ELSE "failed")
    /\ triageError' = (triageError \/ ~ok)
    /\ UNCHANGED <<embedding, reviewColumns, missed>>

EmbedWrite(j, ok) ==
    /\ embedding' = IF ok THEN j.text ELSE embedding
    /\ missed' = IF ok THEN missed ELSE missed \cup {"embed"}
    /\ UNCHANGED <<triageColumns, reviewColumns>>

ReviewWrite(j, ok) ==
    /\ review' = Written(j.status, review, IF ok THEN "completed" ELSE "failed")
    /\ reviewError' = (reviewError \/ ~ok)
    /\ UNCHANGED <<triageColumns, embedding, missed>>

\* The LLM answered (ok), or both providers failed, and the outcome is
\* committed.
\* Fault: a failed call leaves the status alone.
FaultWorkerWrite(w, k, ok) ==
    /\ inHand[<<w, k>>].at = "called"
    /\ inHand' = [inHand EXCEPT ![<<w, k>>] = Done]
    /\ triage' = IF ok /\ k = "triage" THEN "triaged" ELSE triage
    /\ review' = IF ok /\ k = "appsec" THEN "completed" ELSE review
    /\ embedding' = IF ok /\ k = "embed" THEN inHand[<<w, k>>].text ELSE embedding
    /\ UNCHANGED <<text, triageError, flags, reviewError, req, queue, missed>>

WorkerWrite(w, k, ok) ==
    LET j == inHand[<<w, k>>]
    IN  /\ j.at = "called"
        /\ inHand' = [inHand EXCEPT ![<<w, k>>] = Done]
        /\ \/ k = "triage" /\ TriageWrite(j, ok)
           \/ k = "embed" /\ EmbedWrite(j, ok)
           \/ k = "appsec" /\ ReviewWrite(j, ok)
        /\ UNCHANGED <<text, flags, req, queue>>

WorkerAck(w, k) ==
    /\ inHand[<<w, k>>].at = "done"
    /\ inHand' = [inHand EXCEPT ![<<w, k>>] = NoJob]
    /\ UNCHANGED <<text, triageColumns, embedding, flags, reviewColumns,
                   req, queue, missed>>

\* Fault: the message was acked when it was received.
FaultWorkerRequeue(w, k) ==
    /\ inHand[<<w, k>>] # NoJob
    /\ inHand' = [inHand EXCEPT ![<<w, k>>] = NoJob]
    /\ UNCHANGED <<text, triageColumns, embedding, flags, reviewColumns,
                   req, queue, missed>>

\* The worker dies, or an infrastructure failure nacks with requeue=True:
\* the job is delivered again, even one whose outcome is committed already.
WorkerRequeue(w, k) ==
    /\ inHand[<<w, k>>] # NoJob
    /\ queue' = [queue EXCEPT ![k] = @ + 1]
    /\ inHand' = [inHand EXCEPT ![<<w, k>>] = NoJob]
    /\ UNCHANGED <<text, triageColumns, embedding, flags, reviewColumns,
                   req, missed>>

Next ==
    \/ \E r \in Request :
         \/ \E v \in Text : CreateTicket(r, v) \/ UpdateRead(r, v)
         \/ UpdateCommit(r) \/ Publish(r) \/ Crash(r)
    \/ \E w \in Worker, k \in Kind :
         \/ WorkerTake(w, k)
         \/ \E ok \in BOOLEAN : WorkerWrite(w, k, ok)
         \/ WorkerAck(w, k) \/ WorkerRequeue(w, k)

Spec == Init /\ [][Next]_vars

\* The event loop runs a request to its end, and a consumer that is given a
\* job again and again does not die on every delivery.
FairSpec ==
    /\ Spec
    /\ \A r \in Request : WF_vars(UpdateCommit(r) \/ Publish(r))
    /\ \A w \in Worker, k \in Kind :
         /\ SF_vars(WorkerTake(w, k))
         /\ SF_vars(\E ok \in BOOLEAN : WorkerWrite(w, k, ok))
         /\ WF_vars(WorkerAck(w, k))
-----------------------------------------------------------------------------
\* Somewhere a job of kind k is still to be read from the row by a consumer.
Coming(k) ==
    \/ queue[k] > 0
    \/ \E w \in Worker : inHand[<<w, k>>].at = "called"
    \/ \E r \in Request :
         /\ req[r].at = "publish"
         /\ \E i \in DOMAIN req[r].todo : req[r].todo[i] = k

\* A status on 'pending' has a job behind it: for as long as no job was lost
\* with its request or dropped by the second gate, a ticket is not waiting
\* for an answer that nobody computes.
PendingHasJob ==
    \A k \in Kind : StatusOf(k) = "pending" => Coming(k) \/ k \in missed

\* When no embed job is left and the last one succeeded, the stored vector is
\* that of the current text: what EmbedJob's docstring says makes the job
\* safe to fire on every edit, in any order.
EmbedCurrent ==
    text # None /\ ~Coming("embed") /\ "embed" \notin missed
        => embedding = text

\* A security flag, once raised, is never taken back by a later edit.
FlagsGrow == [][flags \subseteq flags']_vars

\* A triage job in the queue ends in a verdict, and an AppSec job in a review
\* unless the text no longer matches, in spite of workers that die.
TriageSettles == queue["triage"] > 0 ~> triage # "pending"
ReviewSettles ==
    queue["appsec"] > 0 ~> (review # "pending" \/ "appsec" \in missed)
=============================================================================
