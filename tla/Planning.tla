------------------------------- MODULE Planning -------------------------------
(* What the plan of one sprint says of its tickets as days go by: the at-risk*)
(* marks of the board (app/services/at_risk.py, _attach_risk), the totals in *)
(* the sprint's response (_with_total_points) and the numbers of its retro   *)
(* (app/services/sprint_retro_context.py). Requests are whole here: their    *)
(* interleavings are in SprintLifecycle.                                     *)
EXTENDS Integers, FiniteSets

CONSTANTS
    Ticket,        \* tickets of the project
    Points,        \* ticket |-> story_points; 0 stands for NULL as well
    Length         \* days from the start of a sprint to its end_date

StaleDays == 3     \* STALE_DAYS_THRESHOLD
RunwayDays == 2    \* LOW_RUNWAY_DAYS_THRESHOLD
Threshold == 2     \* AT_RISK_SCORE_THRESHOLD

\* The columns of the board in their order.
Earliest == 1
Terminal == 3
Column == Earliest .. Terminal

\* Days are counted as far as the rules tell them apart.
LastDay == -1
Age == 0 .. StaleDays
DaysLeft == LastDay .. RunwayDays + 1

LengthOK == Length \in DaysLeft
PointsOK == IsFiniteSet(Ticket) /\ Points \in [Ticket -> Nat]

VARIABLES
    sprint,        \* status, days until end_date, retro_returned_snapshot
    ticket         \* ticket |-> its row

vars == <<sprint, ticket>>

Row == [column: Column, assigned: BOOLEAN, age: Age, planned: BOOLEAN, live: BOOLEAN]

\* Type invariant.
TypeOK ==
    /\ sprint \in [status: {"planned", "active", "completed"}, left: DaysLeft,
                   returned: SUBSET Ticket]
    /\ ticket \in [Ticket -> Row]

Init ==
    /\ sprint = [status |-> "planned", left |-> Length, returned |-> {}]
    /\ ticket = [t \in Ticket |-> [column |-> Earliest, assigned |-> FALSE, age |-> 0,
                                   planned |-> FALSE, live |-> TRUE]]

-----------------------------------------------------------------------------
(* The assessment of a ticket.                                             *)

Unowned(k) == ~k.assigned /\ k.column = Earliest
Stale(k) == k.age >= StaleDays

\* A rule that takes an overdue sprint for one without a deadline.
FaultLowRunway(left) == left \in 0 .. RunwayDays

LowRunway(left) == left <= RunwayDays

\* assess_ticket_risk
AtRisk(k, left) ==
    /\ k.column # Terminal
    /\ Cardinality({i \in 1 .. 3 : <<Unowned(k), Stale(k), LowRunway(left)>>[i]}) >= Threshold

\* A board that marks the tickets of a sprint that is over, too.
FaultMark(t) ==
    IF ticket[t].planned /\ AtRisk(ticket[t], sprint.left) THEN "at risk" ELSE "none"

\* _attach_risk: the mark of a ticket in the responses of the board.
Mark(t) ==
    IF sprint.status # "active" \/ ~ticket[t].planned THEN "none"
    ELSE IF AtRisk(ticket[t], sprint.left) THEN "at risk" ELSE "fine"

\* The sprint's tickets, as every query of its totals finds them.
Planned == {t \in Ticket : ticket[t].planned /\ ticket[t].live}

\* _at_risk_count
AtRiskCount ==
    IF sprint.status # "active" THEN 0
    ELSE Cardinality({t \in Planned : AtRisk(ticket[t], sprint.left)})

\* The points of the tickets in S together, counted one by one: a number
\* whose laws are those of finite sets.
PointsOf(S) == Cardinality(UNION {{t} \X (1 .. Points[t]) : t \in S})

\* _total_points
TotalPoints == PointsOf(Planned)

\* _points_planned, assemble_retro_context
PointsPlanned == TotalPoints + PointsOf(sprint.returned)

-----------------------------------------------------------------------------
\* A write to a row: the trigger tickets_set_updated_at makes it young again.
Touch(t, k) == ticket' = [ticket EXCEPT ![t] = [k EXCEPT !.age = 0]]

\* update_ticket: the column, the assignee or the sprint, a completed one
\* included (_validate_sprint).
PatchTicket(t) ==
    /\ ticket[t].live
    /\ \E c \in Column, a, p \in BOOLEAN :
         /\ ticket[t] # [ticket[t] EXCEPT !.column = c, !.assigned = a, !.planned = p]
         /\ Touch(t, [ticket[t] EXCEPT !.column = c, !.assigned = a, !.planned = p])
    /\ UNCHANGED sprint

\* delete_ticket and restore_ticket.
FlagTicket(t) ==
    /\ Touch(t, [ticket[t] EXCEPT !.live = ~@])
    /\ UNCHANGED sprint

\* A job of the worker writes its verdict, however long it was in the queue.
WorkerWrite(t) ==
    /\ ticket[t].age > 0
    /\ Touch(t, ticket[t])
    /\ UNCHANGED sprint

\* update_sprint: another end_date.
MoveEnd(n) ==
    /\ n # sprint.left
    /\ sprint' = [sprint EXCEPT !.left = n]
    /\ UNCHANGED ticket

\* start_sprint
Start ==
    /\ sprint.status = "planned"
    /\ sprint' = [sprint EXCEPT !.status = "active"]
    /\ UNCHANGED ticket

\* A completion that looks for what it returned after it has returned it.
FaultComplete ==
    /\ sprint.status = "active"
    /\ sprint' = [sprint EXCEPT !.status = "completed", !.returned = {}]
    /\ ticket' = [t \in Ticket |->
         IF t \in Planned /\ ticket[t].column # Terminal
         THEN [ticket[t] EXCEPT !.planned = FALSE, !.age = 0]
         ELSE ticket[t]]

\* complete_sprint: what is unfinished is written down and goes back.
Complete ==
    /\ sprint.status = "active"
    /\ LET unfinished == {t \in Planned : ticket[t].column # Terminal}
       IN /\ sprint' = [sprint EXCEPT !.status = "completed", !.returned = unfinished]
          /\ ticket' = [t \in Ticket |->
               IF t \in unfinished THEN [ticket[t] EXCEPT !.planned = FALSE, !.age = 0]
               ELSE ticket[t]]

\* Midnight, for the sprint's end as well as for the age of the rows.
NextDay ==
    /\ sprint' = [sprint EXCEPT !.left = IF @ = LastDay THEN @ ELSE @ - 1]
    /\ ticket' = [t \in Ticket |->
         [ticket[t] EXCEPT !.age = IF @ = StaleDays THEN @ ELSE @ + 1]]

Next ==
    \/ Start \/ Complete \/ NextDay
    \/ \E n \in DaysLeft : MoveEnd(n)
    \/ \E t \in Ticket : PatchTicket(t) \/ FlagTicket(t) \/ WorkerWrite(t)

Spec == Init /\ [][Next]_vars

-----------------------------------------------------------------------------
\* A mark goes away by work on the ticket or on the plan, and never because
\* another day has passed, a day after the sprint's end included.
\* at_risk.py:76-80 and :163-230.
RiskOutlivesTheDay ==
    [][NextDay => \A t \in Ticket : Mark(t) = "at risk" => Mark(t)' = "at risk"]_vars

\* The count on the sprint's card is the number of marks on its board, which
\* other code computes. sprints.py:171-200, tickets.py:283-319.
CountIsOfMarks ==
    AtRiskCount = Cardinality({t \in Ticket : ticket[t].live /\ Mark(t) = "at risk"})

\* A completion changes no points: what it returns and what stays is what was
\* planned the moment before. sprints.py:152-168, sprint_retro_context.py:33-47.
CompletionKeepsPoints ==
    [][sprint.status = "active" /\ sprint'.status = "completed"
         => PointsPlanned' = TotalPoints]_vars
=============================================================================
