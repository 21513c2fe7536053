----------------------------- MODULE TicketTree -----------------------------
(* The tree of a project's tickets (app/api/tickets.py): types and parents, *)
(* soft deletion and restore, and the response of GET /tickets/tree.        *)
(*                                                                          *)
(* A request reads, checks, and writes at its commit without looking at the *)
(* rows again. The SELECTs of one handler are one step: whatever falls      *)
(* between them may as well fall between the last one and the commit.       *)
EXTENDS Naturals, FiniteSets

CONSTANTS
    Ticket,      \* ids; each stands for one row
    Type,        \* the ticket types in use
    Request,     \* slots for requests in progress
    Retype,      \* tickets whose type some PATCH may change
    Reparent,    \* tickets whose parent some PATCH may change
    None,        \* NULL
    Unset        \* a field that a PATCH does not carry

VARIABLES
    row,         \* ticket |-> [type, parent, live], or None before its creation
    req,         \* request |-> what it has read and is about to write
    overtaken    \* deletions that another commit has passed since their read

vars == <<row, req, overtaken>>

Row == [type: Type, parent: Ticket \cup {None}, live: BOOLEAN]

\* The slices are tickets, the types are the four of the code, and the
\* markers are neither, nor rows.
InstanceOK ==
    /\ Retype \subseteq Ticket /\ Reparent \subseteq Ticket
    /\ Type \subseteq {"epic", "story", "task", "subtask"}
    /\ None \notin Ticket \cup Row
    /\ Unset \notin Ticket \cup Type \cup {None}

Idle == [at |-> "idle"]
Held ==
    {Idle}
      \cup [at: {"create"}, type: Type, parent: Ticket \cup {None}]
      \cup [at: {"patch"}, ticket: Ticket, type: Type \cup {Unset},
            parent: Ticket \cup {None, Unset}]
      \cup [at: {"delete", "restore"}, ticket: Ticket]

\* Type invariant: a row is absent or carries a type, a parent and the
\* deleted_at flag (models.py, migrations 0005 and 0010).
TypeOK ==
    /\ row \in [Ticket -> Row \cup {None}]
    /\ req \in [Request -> Held]
    /\ overtaken \subseteq Request

-----------------------------------------------------------------------------
(* What the handlers look at.                                              *)

Exists(t) == row[t] # None
Live(t) == Exists(t) /\ row[t].live

\* A _validate_parent that looks for the row and forgets the rule.
FaultMayHang(ty, p) == p # None => Live(p)

\* _validate_parent for a ticket of type ty under p.
MayHang(ty, p) ==
    p # None =>
      /\ Live(p)
      /\ ty = "subtask" => row[p].type \in {"story", "task"}

\* The children counted are those in the trash.
FaultHasLiveChildren(t) ==
    \E c \in Ticket : Exists(c) /\ ~row[c].live /\ row[c].parent = t

\* _has_active_children
HasLiveChildren(t) == \E c \in Ticket : Live(c) /\ row[c].parent = t

-----------------------------------------------------------------------------
Init ==
    /\ row = [t \in Ticket |-> None]
    /\ req = [r \in Request |-> Idle]
    /\ overtaken = {}

Begin(r, h) ==
    /\ req[r] = Idle
    /\ req' = [req EXCEPT ![r] = h]
    /\ UNCHANGED <<row, overtaken>>

\* create_ticket up to its INSERT.
CreateRead(r) ==
    \E ty \in Type, p \in Ticket \cup {None} :
      /\ MayHang(ty, p)
      /\ Begin(r, [at |-> "create", type |-> ty, parent |-> p])

\* update_ticket up to its flush. A field that is set to the value it was
\* loaded with is not written, so it counts as one the PATCH does not carry.
\* The validation uses the loaded value of such a field.
PatchRead(r) ==
    \E t \in Ticket, ty \in Type \cup {Unset}, p \in Ticket \cup {None, Unset} :
      /\ Live(t)
      /\ ty # Unset => t \in Retype /\ ty # row[t].type
      /\ p # Unset => t \in Reparent /\ p # row[t].parent
      /\ ty # Unset \/ p # Unset
      /\ MayHang(IF ty = Unset THEN row[t].type ELSE ty,
                 IF p = Unset THEN row[t].parent ELSE p)
      /\ Begin(r, [at |-> "patch", ticket |-> t, type |-> ty, parent |-> p])

\* delete_ticket up to its flush.
DeleteRead(r) ==
    \E t \in Ticket :
      /\ Live(t)
      /\ ~HasLiveChildren(t)
      /\ Begin(r, [at |-> "delete", ticket |-> t])

\* restore_ticket: the parent is not looked at again, on purpose.
RestoreRead(r) ==
    \E t \in Ticket :
      /\ Exists(t) /\ ~row[t].live
      /\ Begin(r, [at |-> "restore", ticket |-> t])

End(r) ==
    /\ req' = [req EXCEPT ![r] = Idle]
    /\ overtaken' = {q \in Request \ {r} : req[q].at = "delete"}

\* The INSERT of create_ticket. The foreign key asks only that the parent
\* exists, and rows are never removed.
CreateCommit(r) ==
    /\ req[r].at = "create"
    /\ \E t \in Ticket :
         /\ ~Exists(t)
         /\ row' = [row EXCEPT ![t] = [type |-> req[r].type,
                                       parent |-> req[r].parent, live |-> TRUE]]
    /\ End(r)

\* The UPDATE of update_ticket: the columns of the payload, wherever the row
\* is by now.
PatchCommit(r) ==
    /\ req[r].at = "patch"
    /\ LET h == req[r]
           old == row[h.ticket]
       IN row' = [row EXCEPT ![h.ticket] =
            [old EXCEPT !.type = IF h.type = Unset THEN @ ELSE h.type,
                        !.parent = IF h.parent = Unset THEN @ ELSE h.parent]]
    /\ End(r)

\* The UPDATE of delete_ticket and restore_ticket.
FlagCommit(r) ==
    /\ req[r].at \in {"delete", "restore"}
    /\ row' = [row EXCEPT ![req[r].ticket].live = req[r].at = "restore"]
    /\ End(r)

\* A process that dies, or a transaction that fails, before its commit.
Abort(r) ==
    /\ req[r] # Idle
    /\ req' = [req EXCEPT ![r] = Idle]
    /\ overtaken' = overtaken \ {r}
    /\ UNCHANGED row

Next ==
    \E r \in Request :
      \/ CreateRead(r) \/ PatchRead(r) \/ DeleteRead(r) \/ RestoreRead(r)
      \/ CreateCommit(r) \/ PatchCommit(r) \/ FlagCommit(r) \/ Abort(r)

Spec == Init /\ [][Next]_vars

-----------------------------------------------------------------------------
(* GET /tree: one query, then one pass over its rows.                      *)

Nodes == {t \in Ticket : Live(t)}

\* A builder that drops a ticket whose parent is not among the nodes.
FaultRoots == {t \in Nodes : row[t].parent = None}

Roots == {t \in Nodes : row[t].parent \notin Nodes}
Children(S) == {t \in Nodes : row[t].parent \in S}

\* What the response contains: the roots, and with a ticket what the pass has
\* hung under it; the least set of this kind, as only that hangs together.
Shown ==
    {t \in Nodes : \A S \in SUBSET Nodes : Roots \cup Children(S) \subseteq S => t \in S}

\* The live tickets on the way up from t, t included.
Parents(S) == {p \in Nodes : \E c \in S : row[c].parent = p}
Above(t) ==
    {a \in Nodes : \A S \in SUBSET Nodes : {t} \cup Parents(S) \subseteq S => a \in S}

\* t is one of its own live ancestors.
OnCycle(t) == row[t].parent \in Nodes /\ t \in Above(row[t].parent)

\* Every live ticket is in the tree unless the way up from it ends in a
\* cycle: a deleted parent hides none of its children. tickets.py:558-581,
\* and what :792-797 says of a restored ticket whose parent is deleted.
TreeShowsRest ==
    Nodes \ Shown = {t \in Nodes : \E a \in Above(t) : OnCycle(a)}

\* A ticket falls out of the tree, still live, only when a PATCH re-parents
\* or a restore brings back a ticket: creation and deletion hide nothing but
\* the deleted ticket itself. tickets.py:338-393 and :756-770.
FallsOut == ~((Shown \cap Nodes') \subseteq Shown')
LostOnlyByReparentOrRestore ==
    [][row' # row /\ FallsOut =>
         \E r \in Request :
           /\ req[r].at \in {"patch", "restore"}
           /\ row'[req[r].ticket] # row[req[r].ticket]]_vars

\* The parent rule, for tickets whose own type and whose parent's type no
\* PATCH changes: it holds whatever requests interleave, deletions and
\* restores included. tickets.py:164-200.
Settled(t) == Exists(t) /\ t \notin Retype /\ row[t].parent \notin Retype \cup {None}
SettledSubtaskRule ==
    \A t \in Ticket :
      Settled(t) /\ row[t].type = "subtask"
        => row[row[t].parent].type \in {"story", "task"}

\* The parent rule for all tickets, as the code comments state it.
SubtaskRule ==
    \A t \in Ticket :
      Exists(t) /\ row[t].type = "subtask" /\ row[t].parent # None
        => row[row[t].parent].type \in {"story", "task"}

\* A deletion that nothing overtook leaves no live ticket under the deleted
\* one. tickets.py:731-770.
NoOrphanByDelete ==
    [][\A r \in Request, t \in Ticket :
         /\ req[r] = [at |-> "delete", ticket |-> t]
         /\ r \notin overtaken
         /\ row'[t] # row[t] /\ req'[r] = Idle
         => ~HasLiveChildren(t)']_vars
=============================================================================
