------------------------------ MODULE MCTickets ------------------------------
(* Board and TicketTree for TLC. The two share no variable: an execution      *)
(* runs one of them, chosen in its first state. Ids of different kinds are    *)
(* the same model values, which keeps the symmetry small.                     *)
EXTENDS Board, TLC

CONSTANTS Editor, Node, Type, Retype, Reparent, Unset     \* TicketTree

VARIABLES part, row, edit, overtaken

Tree == INSTANCE TicketTree WITH Ticket <- Node, Request <- Editor, req <- edit

treeVars == <<row, edit, overtaken>>
allVars == <<part, vars, treeVars>>

PartsInit == part \in {"board", "tree"} /\ Init /\ Tree!Init
BoardMoves == part = "board" /\ Next /\ UNCHANGED <<part, treeVars>>
TreeMoves == part = "tree" /\ Tree!Next /\ UNCHANGED <<part, vars>>
PartsSpec == PartsInit /\ [][BoardMoves \/ TreeMoves]_allVars

\* Ids that play no special part.
Symmetry ==
    Permutations(Ticket) \cup Permutations(State \ Seeded)
      \cup Permutations(Editor)
-----------------------------------------------------------------------------
\* The type invariants of both modules, and what the tree's constants are.
TypesOK == TypeOK /\ Tree!TypeOK /\ Tree!InstanceOK

\* TicketTree: only what hangs under a cycle is missing from the tree.
TreeShowsRest == Tree!TreeShowsRest

\* TicketTree: the parent rule, where no PATCH changes the types.
SettledSubtaskRule == Tree!SettledSubtaskRule

\* TicketTree: creations and deletions lose nothing from the tree.
LostOnlyByReparentOrRestore == Tree!LostOnlyByReparentOrRestore

\* TicketTree: a deletion that nothing overtook orphans no live ticket.
NoOrphanByDelete == Tree!NoOrphanByDelete
=============================================================================
