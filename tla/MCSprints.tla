------------------------------ MODULE MCSprints ------------------------------
(* SprintLifecycle and Planning for TLC. The two share no variable, so an   *)
(* execution runs one of them, chosen in its first state, and leaves the    *)
(* other where it starts.                                                   *)
EXTENDS SprintLifecycle, TLC

CONSTANTS
    Parts,         \* the modules to run
    PlanTicket,    \* Planning: its tickets (numbers) and their points
    Points,
    Length

VARIABLES part, planSprint, planTicket

Plan == INSTANCE Planning
            WITH Ticket <- PlanTicket, sprint <- planSprint, ticket <- planTicket

MCPoints == [t \in PlanTicket |-> 2 * t + 1]

planVars == <<planSprint, planTicket>>
allVars == <<part, vars, planVars>>

PartsInit == part \in Parts /\ Init /\ Plan!Init
SprintsMove == part = "sprints" /\ Next /\ UNCHANGED <<part, planVars>>
PlanMoves == part = "plan" /\ Plan!Next /\ UNCHANGED <<part, vars>>
PartsSpec == PartsInit /\ [][SprintsMove \/ PlanMoves]_allVars

Symmetry == Permutations(Sprint) \cup Permutations(Ticket)
              \cup Permutations(Request)
-----------------------------------------------------------------------------
\* The type invariants of both modules, and what Planning's constants are.
TypesOK == TypeOK /\ Plan!TypeOK /\ Plan!LengthOK /\ Plan!PointsOK

\* Planning: no mark of the board goes away because a day has passed.
RiskOutlivesTheDay == Plan!RiskOutlivesTheDay

\* Planning: the sprint's count is the number of marks on its board.
CountIsOfMarks == Plan!CountIsOfMarks

\* Planning: a completion changes no points.
CompletionKeepsPoints == Plan!CompletionKeepsPoints
=============================================================================
