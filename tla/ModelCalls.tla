------------------------------ MODULE ModelCalls ------------------------------
(* Calls of language models (app/services/llm_client.py, ticket_embedding.py)*)
(* and what their callers get: requests that wait for the answer with a      *)
(* connection of the database's pool in hand (POST /tickets/parse and        *)
(* /tickets/check-duplicates), and the worker's jobs. Time passes in units   *)
(* of Tick.                                                                  *)
EXTENDS Integers, FiniteSets

CONSTANTS
    Call,          \* calls in progress
    Kind,          \* the callers in use
    PoolSize,      \* connections of the API's pool
    PoolTimeout,   \* the longest a request waits for one
    AttemptTime,   \* _CALL_TIMEOUT_SECONDS
    None

MaxAttempts == 2
MaxLabels == 5
MaxLabelLength == 30
MaxTitle == 200
EmbedDimensions == 768

\* The callers there are.
Requests == {"parse", "duplicates"}
Jobs == {"triage", "review", "retro", "embed"}

InstanceOK ==
    /\ AttemptTime \in Nat /\ PoolTimeout \in Nat /\ PoolSize \in Nat
    /\ Kind \subseteq Requests \cup Jobs

\* The providers of a call in their order; the other one follows when the
\* attempts of the first are used up.
Providers(kind) == IF kind \in {"duplicates", "embed"} THEN <<"gemini">> ELSE <<"groq", "gemini">>
Budget(kind) == MaxAttempts * Cardinality(DOMAIN Providers(kind))
ProviderOf(kind, n) == Providers(kind)[((n - 1) \div MaxAttempts) + 1]

-----------------------------------------------------------------------------
(* What a model may answer, at the boundaries of what is checked.          *)

Labels ==
    [count: {0, MaxLabels, MaxLabels + 1}, blank: 0 .. 1,
     longest: {MaxLabelLength, MaxLabelLength + 1}]
Title == {0, 1, MaxTitle, MaxTitle + 1}     \* its length

Answers(kind) ==
    CASE kind = "triage" -> [labels: Labels, priority: {"high", None}, reasoning: BOOLEAN]
      [] kind = "parse" ->
           [confident: BOOLEAN, title: Title, type: {"story", "subtask", None},
            clarification: BOOLEAN, labels: Labels]
      [] kind = "review" -> [comment: BOOLEAN, categories: SUBSET {"known", "invented"}]
      [] kind = "retro" -> [narrative: BOOLEAN]
      [] kind \in {"embed", "duplicates"} -> [dims: {0, EmbedDimensions, 4 * EmbedDimensions}]

\* clean_labels drops blank labels before it counts.
Kept(l) == IF l.blank > l.count THEN 0 ELSE l.count - l.blank
LabelsPass(l) == Kept(l) <= MaxLabels /\ (Kept(l) > 0 => l.longest <= MaxLabelLength)

\* A parse that takes the model at its word.
FaultParsePasses(a) == a.title <= MaxTitle /\ LabelsPass(a.labels)

\* ParsedTicketCandidate
ParsePasses(a) ==
    /\ a.title <= MaxTitle
    /\ LabelsPass(a.labels)
    /\ a.confident => a.title > 0 /\ a.type \notin {None, "subtask"}
    /\ ~a.confident => a.clarification

\* The response models and the check of the vector's length.
Passes(kind, a) ==
    CASE kind = "triage" -> LabelsPass(a.labels) /\ a.priority # None /\ a.reasoning
      [] kind = "parse" -> ParsePasses(a)
      [] kind = "review" -> a.comment /\ a.categories # {} /\ "invented" \notin a.categories
      [] kind = "retro" -> a.narrative
      [] kind \in {"embed", "duplicates"} -> a.dims = EmbedDimensions

\* What the caller is handed.
Returned(kind, a) ==
    IF kind \in {"triage", "parse"}
    THEN [a EXCEPT !.labels = [count |-> Kept(a.labels), blank |-> 0,
                               longest |-> IF Kept(a.labels) = 0 THEN MaxLabelLength
                                           ELSE a.labels.longest]]
    ELSE a

-----------------------------------------------------------------------------
VARIABLE call      \* call |-> where it is and what it holds

\* n counts the attempts, clock the time of this one, elapsed that of all.
Idle == [at |-> "idle"]
Waiting == [at: {"waiting"}, kind: Requests, clock: 0 .. PoolTimeout]
Calling == [at: {"calling"}, kind: Kind, n: 1 .. 2 * MaxAttempts, clock: 0 .. AttemptTime,
            elapsed: 0 .. 2 * MaxAttempts * AttemptTime]
Over == [at: {"failed", "refused"}, kind: Kind]
Answered(s) ==
    /\ s.at = "answered" /\ s.kind \in Kind
    /\ \E a \in Answers(s.kind), p \in {"groq", "gemini"} :
         s = [at |-> "answered", kind |-> s.kind, provider |-> p,
              answer |-> Returned(s.kind, a)]

\* Type invariant: no more attempts than the budgets of two providers allow.
TypeOK ==
    /\ DOMAIN call = Call
    /\ \A c \in Call :
         call[c] \in {Idle} \cup Waiting \cup Calling \cup Over \/ Answered(call[c])

Init == call = [c \in Call |-> Idle]

Is(c, at) == call[c].at = at
Goto(c, s) == call' = [call EXCEPT ![c] = s]

\* The connections in use: a request keeps the one its first query took, since
\* it commits nothing before the model answers.
Held == {c \in Call : Is(c, "calling") /\ call[c].kind \in Requests}

Start(c, kind) == Goto(c, [at |-> "calling", kind |-> kind, n |-> 1, clock |-> 0, elapsed |-> 0])

\* The request has reached get_current_auth; no query is made before.
Ask(c) ==
    /\ Is(c, "idle")
    /\ \E k \in Kind \cap Requests : Goto(c, [at |-> "waiting", kind |-> k, clock |-> 0])

\* The tenant's setting and the project are read; the text is sent.
Connect(c) ==
    /\ Is(c, "waiting")
    /\ Cardinality(Held) < PoolSize
    /\ Start(c, call[c].kind)

\* The pool raises a TimeoutError: a 500.
GiveUp(c) ==
    /\ Is(c, "waiting") /\ call[c].clock = PoolTimeout
    /\ Goto(c, [at |-> "refused", kind |-> call[c].kind])

\* A consumer has loaded its row.
Deliver(c) == Is(c, "idle") /\ \E k \in Kind \cap Jobs : Start(c, k)

\* A failed attempt that is not counted.
FaultNextAttempt(c) ==
    LET s == call[c]
    IN IF s.n < Budget(s.kind) /\ s.clock < AttemptTime
       THEN Goto(c, [s EXCEPT !.n = @ + 1, !.clock = 0])
       ELSE Goto(c, [s EXCEPT !.clock = 0])

\* The next attempt, or the end of the budget.
NextAttempt(c) ==
    LET s == call[c]
    IN IF s.n < Budget(s.kind)
       THEN Goto(c, [s EXCEPT !.n = @ + 1, !.clock = 0])
       ELSE Goto(c, [at |-> "failed", kind |-> s.kind])

\* call_llm, generate_embedding: an answer that does not pass is a failed
\* attempt like any other.
Answer(c) ==
    /\ Is(c, "calling")
    /\ LET s == call[c]
       IN \E a \in Answers(s.kind) :
            IF Passes(s.kind, a)
            THEN Goto(c, [at |-> "answered", kind |-> s.kind,
                          provider |-> ProviderOf(s.kind, s.n),
                          answer |-> Returned(s.kind, a)])
            ELSE NextAttempt(c)

\* An error of the provider, or the end of wait_for.
AttemptFails(c) == Is(c, "calling") /\ NextAttempt(c)

\* The response: 200, 503 or 500; for a job, its outcome is written and acked.
Finish(c) ==
    /\ call[c].at \in {"answered", "failed", "refused"}
    /\ Goto(c, Idle)

\* The process dies.
Crash(c) == ~Is(c, "idle") /\ Goto(c, Idle)

\* Time passes, but not past the end of an attempt or of a wait.
Tick ==
    /\ \A c \in Call : /\ Is(c, "calling") => call[c].clock < AttemptTime
                       /\ Is(c, "waiting") => call[c].clock < PoolTimeout
    /\ \E c \in Call : Is(c, "calling") \/ Is(c, "waiting")
    /\ call' = [c \in Call |->
         CASE Is(c, "calling") -> [call[c] EXCEPT !.clock = @ + 1, !.elapsed = @ + 1]
           [] Is(c, "waiting") -> [call[c] EXCEPT !.clock = @ + 1]
           [] OTHER -> call[c]]

Next ==
    \/ Tick
    \/ \E c \in Call :
         \/ Ask(c) \/ Connect(c) \/ GiveUp(c) \/ Deliver(c) \/ Answer(c)
         \/ AttemptFails(c) \/ Finish(c) \/ Crash(c)

Spec == Init /\ [][Next]_call

-----------------------------------------------------------------------------
\* With providers that hang, too, a call is over after its attempts, each
\* AttemptTime at most, and gives its connection back: 40 seconds for a text
\* model and 20 for an embedding. llm_client.py:36-46, ticket_embedding.py:72-80.
SettlesInTime ==
    \A c \in Call : Is(c, "calling") => call[c].elapsed <= AttemptTime * Budget(call[c].kind)

\* A confident parse is a body that create_ticket accepts without a parent,
\* whatever the model says of itself, and what is written to a row keeps
\* within what its readers expect. schemas/ticket.py:9-29, tickets.py:164-200.
Creatable(a) == a.title \in 1 .. MaxTitle /\ a.type \in {"epic", "story", "task"}
ShortLabels(l) == l.count <= MaxLabels /\ l.longest <= MaxLabelLength
AnswerIsFit ==
    \A c \in Call :
      Is(c, "answered") =>
        LET a == call[c].answer
        IN CASE call[c].kind = "parse" -> (a.confident => Creatable(a)) /\ ShortLabels(a.labels)
             [] call[c].kind = "triage" -> ShortLabels(a.labels) /\ a.priority # None
             [] call[c].kind = "review" -> a.categories = {"known"}
             [] call[c].kind = "retro" -> a.narrative
             [] OTHER -> a.dims = EmbedDimensions
=============================================================================
