------------------------------ MODULE MCMembers ------------------------------
(* Membership and Notifications for TLC. They share no variable: an           *)
(* execution runs one of them, chosen in its first state; the variables of    *)
(* the other are None, or where they start. Ids of different kinds are the    *)
(* same model values, which keeps the symmetry small.                         *)
EXTENDS Membership, TLC

CONSTANTS Parts, Note, Sender, Bell, PageSize

VARIABLES part, member, assignee, log, read, work, bell

Bells == INSTANCE Notifications WITH Request <- Sender, req <- work

bellVars == <<member, assignee, log, read, work, bell>>
allVars == <<part, vars, bellVars>>

PartsInit ==
    /\ part \in Parts
    /\ Init
    /\ IF part = "bells" THEN Bells!Init
       ELSE /\ member = None /\ assignee = None /\ log = None
            /\ read = None /\ work = None /\ bell = None
MembersMove == part = "members" /\ Next /\ UNCHANGED <<part, bellVars>>
BellsMove == part = "bells" /\ Bells!Next /\ UNCHANGED <<part, vars>>
PartsSpec == PartsInit /\ [][MembersMove \/ BellsMove]_allVars

\* Ids that play no special part.
Symmetry ==
    Permutations(Invite) \cup Permutations(User \ {Founder})
      \cup Permutations(Email \ {FounderEmail})
-----------------------------------------------------------------------------
\* The type invariants of both modules.
TypesOK == TypeOK /\ (part = "bells" => Bells!TypeOK)

\* Notifications: nobody is told of what is not in the table, and what a page
\* shows as read is read.
BellTellsTruth == part = "bells" => Bells!BellTellsTruth

\* Notifications: who becomes the assignee is told in the same commit.
AssignedIsTold == Bells!AssignedIsTold
=============================================================================
