------------------------------- MODULE MCAccess -------------------------------
(* Sessions, Verification, Rooms, Tenancy and Authority for TLC. They share no *)
(* variable: an execution runs one of them, chosen in its first state. Ids of  *)
(* different kinds are the same model values, which keeps the symmetry small.  *)
EXTENDS Sessions, TLC

CONSTANTS
    Issuer, Sender,                                \* Verification
    Grant, Socket, TokenLife, TicketLife,          \* Rooms
    GrantTime, AskTime, HandshakeTime,
    Conn, User, ada, ben, carl, acme, bolt,        \* Tenancy
    Kind, Unset, Empty,
    ClaimLife, AuthTime, RequestTime               \* Authority

VARIABLES
    part,
    user, mailed, confirming,                         \* Verification
    login, token, removed, hidden, ticket, socket,    \* Rooms
    conn, handler,                                    \* Tenancy
    role, since, claim, auth, project, task, work     \* Authority

\* Two users of one organisation and one of another.
OrgOf == (ada :> acme) @@ (ben :> acme) @@ (carl :> bolt)

Mail == INSTANCE Verification
            WITH Link <- Token, Request <- Sender, link <- mailed, req <- confirming
Room == INSTANCE Rooms
            WITH Ticket <- Request, AuthTime <- GrantTime, RequestTime <- AskTime
Tenant == INSTANCE Tenancy
            WITH req <- handler
Mine == INSTANCE Authority
            WITH TokenLife <- ClaimLife, token <- claim, ticket <- task, req <- work

mailVars == <<user, mailed, confirming>>
roomVars == <<login, token, removed, hidden, ticket, socket>>
tenantVars == <<conn, handler>>
mineVars == <<role, since, claim, auth, project, task, work>>
allVars == <<part, vars, mailVars, roomVars, tenantVars, mineVars>>

\* The variables of a module that does not run are None.
PartsInit ==
    /\ part \in {"sessions", "mail", "rooms", "tenancy", "mine"}
    /\ Init
    /\ IF part = "mail" THEN Mail!Init
       ELSE user = None /\ mailed = None /\ confirming = None
    /\ IF part = "rooms" THEN Room!Init
       ELSE /\ login = None /\ token = None /\ removed = None
            /\ hidden = None /\ ticket = None /\ socket = None
    /\ IF part = "tenancy" THEN Tenant!Init ELSE conn = None /\ handler = None
    /\ IF part = "mine" THEN Mine!Init
       ELSE /\ role = None /\ since = None /\ claim = None /\ auth = None
            /\ project = None /\ task = None /\ work = None

SessionsMove ==
    /\ part = "sessions" /\ Next
    /\ UNCHANGED <<part, mailVars, roomVars, tenantVars, mineVars>>
MailMoves ==
    /\ part = "mail" /\ Mail!Next
    /\ UNCHANGED <<part, vars, roomVars, tenantVars, mineVars>>
RoomsMove ==
    /\ part = "rooms" /\ Room!Next
    /\ UNCHANGED <<part, vars, mailVars, tenantVars, mineVars>>
TenancyMoves ==
    /\ part = "tenancy" /\ Tenant!Next
    /\ UNCHANGED <<part, vars, mailVars, roomVars, mineVars>>
MineMoves ==
    /\ part = "mine" /\ Mine!Next
    /\ UNCHANGED <<part, vars, mailVars, roomVars, tenantVars>>
PartsSpec ==
    /\ PartsInit
    /\ [][SessionsMove \/ MailMoves \/ RoomsMove \/ TenancyMoves \/ MineMoves]_allVars

Symmetry == Permutations(Token) \cup Permutations(Request)
-----------------------------------------------------------------------------
\* The type invariants of the five modules, and what their constants are.
TypesOK ==
    /\ part = "sessions" => TypeOK
    /\ part = "mail" => Mail!TypeOK /\ Mail!IssuersOK
    /\ part = "rooms" => Room!TypeOK /\ Room!LifetimesOK
    /\ part = "tenancy" => Tenant!TypeOK /\ Tenant!SettingsOK
    /\ part = "mine" => Mine!TypeOK /\ Mine!LifetimesOK

\* Verification: one live link, and one until the address is confirmed.
LinksSound == part = "mail" => Mail!LinksSound

\* Rooms: one handshake for a ticket, and no room for a removed user or of a
\* deleted project longer than the lifetimes allow.
RoomsSound == part = "rooms" => Room!RoomsSound

\* Tenancy: a query is told rows of its own organisation and user only.
OnlyOwnRows == part = "tenancy" => Tenant!OnlyOwnRows

\* Tenancy: no statement is refused for lack of a context, and no query but that
\* for the totals of a sprint, after the commit, finds nothing for lack of one.
StatementsSucceed == part = "tenancy" => Tenant!StatementsSucceed

\* Authority: writes with a role that the user has lost come to an end.
StaleRoleEnds == Mine!StaleRoleEnds

\* Authority: a removed user is the creator of nothing.
CreatorExists == Mine!CreatorExists

\* Authority: the tickets of a deleted project are left alone.
HiddenProjectIsStill == Mine!HiddenProjectIsStill
=============================================================================
