------------------------------- MODULE MCModels -------------------------------
(* Enrichment and ModelCalls for TLC: one text without security wording, one *)
(* for each of two categories, and calls of language models. The two share   *)
(* no variable: an execution runs one of them, chosen in its first state.     *)
EXTENDS Enrichment, TLC

CONSTANTS
    plain, login, crypto, auth, secrets,
    Parts,                                          \* the modules to run
    Caller, PoolSize, PoolTimeout, AttemptTime \* of ModelCalls

VARIABLES part, call

Model == INSTANCE ModelCalls WITH Call <- Request, Kind <- Caller

MCText == {plain, login, crypto}
MCCategory == {auth, secrets}
MCMatches == [v \in MCText |-> IF v = login THEN {auth}
                               ELSE IF v = crypto THEN {secrets} ELSE {}]

PartsInit == part \in Parts /\ Init /\ Model!Init
EnrichMoves == part = "enrich" /\ Next /\ UNCHANGED <<part, call>>
CallsMove == part = "calls" /\ Model!Next /\ UNCHANGED <<part, vars>>
PartsSpec == PartsInit /\ [][EnrichMoves \/ CallsMove]_<<part, call, vars>>

\* Exchanging the two security texts together with their categories.
Swap == (login :> crypto) @@ (crypto :> login)
          @@ (auth :> secrets) @@ (secrets :> auth)
Symmetry == Permutations(Request) \cup {Swap}
-----------------------------------------------------------------------------
\* The type invariants of both modules.
TypesOK ==
    /\ part = "enrich" => TypeOK
    /\ part = "calls" => Model!TypeOK /\ Model!InstanceOK

\* ModelCalls: a call is over after its attempts, with providers that hang.
SettlesInTime == part = "calls" => Model!SettlesInTime

\* ModelCalls: what a caller is handed fits what it does with it.
AnswerIsFit == part = "calls" => Model!AnswerIsFit
=============================================================================
