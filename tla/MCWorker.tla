------------------------------- MODULE MCWorker -------------------------------
(* SprintLifecycle and Enrichment for TLC as the worker meets them: requests *)
(* one at a time, consumers that die, jobs that are delivered again. The two *)
(* share no variable: an execution runs one of them, chosen in its first     *)
(* state.                                                                    *)
EXTENDS SprintLifecycle, TLC

CONSTANTS
    Text, Category, Matches, Kind,       \* of Enrichment
    plain, login, crypto, auth, secrets

ASSUME TextAssumption == None \notin Text

VARIABLES part, text, triage, triageError, embedding, flags, review, reviewError,
          edits, queue, held, missed

MCText == {plain, login, crypto}
MCCategory == {auth, secrets}
MCMatches == [v \in MCText |-> IF v = login THEN {auth}
                               ELSE IF v = crypto THEN {secrets} ELSE {}]

Enrich == INSTANCE Enrichment WITH req <- edits, inHand <- held

enrichVars == <<text, triage, triageError, embedding, flags, review, reviewError,
                edits, queue, held, missed>>
allVars == <<part, vars, enrichVars>>

PartsInit == part \in {"retro", "enrich"} /\ Init /\ Enrich!Init
RetroMoves == part = "retro" /\ Next /\ UNCHANGED <<part, enrichVars>>
EnrichMoves == part = "enrich" /\ Enrich!Next /\ UNCHANGED <<part, vars>>

PartsSpec == PartsInit /\ [][RetroMoves \/ EnrichMoves]_allVars

\* The fairness of the two specifications, each where it moves.
PartsFairSpec ==
    /\ PartsSpec
    /\ \A r \in Request :
         /\ WF_vars(part = "retro" /\ RequestStep(r))
         /\ WF_enrichVars(part = "enrich"
                            /\ (Enrich!UpdateCommit(r) \/ Enrich!Publish(r)))
    /\ \A w \in Worker :
         /\ WF_vars(part = "retro" /\ WorkerAck(w))
         /\ \A s \in Sprint :
              /\ SF_vars(part = "retro" /\ WorkerTake(w, s))
              /\ SF_vars(part = "retro" /\ inHand[w].sprint = s
                           /\ \E result \in {"completed", "failed"} :
                                WorkerWrite(w, result))
         /\ \A k \in Kind :
              /\ SF_enrichVars(part = "enrich" /\ Enrich!WorkerTake(w, k))
              /\ SF_enrichVars(part = "enrich"
                                 /\ \E ok \in BOOLEAN : Enrich!WorkerWrite(w, k, ok))
              /\ WF_enrichVars(part = "enrich" /\ Enrich!WorkerAck(w, k))
-----------------------------------------------------------------------------
\* Enrichment: triage and AppSec review of a ticket end, in spite of workers
\* that die: TriageSettles and ReviewSettles.
VerdictsSettle == Enrich!TriageSettles /\ Enrich!ReviewSettles

\* What a second request can take back, and one alone does not: a completed
\* sprint stays completed (SprintLifecycle), a flag that an edit has raised
\* stays raised (Enrichment).
NothingTakenBack == NoReopen /\ Enrich!FlagsGrow
=============================================================================
