----------------------------- MODULE ModelsProofs -----------------------------
(***************************************************************************)
(* Safety of Enrichment for every set of texts, categories, requests and   *)
(* workers, and of ModelCalls for any number of calls and any time limits, *)
(* as MCModels puts the two side by side.                                  *)
(* PendInv says which job stands behind a status on 'pending': one that    *)
(* loaded another status may write nothing. EmbedInv says which text the   *)
(* jobs that are left will embed, one consumer at a time.                  *)
(* CallOk bounds the time of a call by its attempts.                       *)
(***************************************************************************)
EXTENDS MCModels, Integers, FiniteSetTheorems, TLAPS

-----------------------------------------------------------------------------
(* Enrichment                                                               *)

Has(s, k) == \E i \in DOMAIN s : s[i] = k

\* A request in progress still has jobs to publish; one that will write a text
\* has an embed job among them, and one that will set 'pending' an AppSec job.
ReqInv == \A r \in Request :
    /\ req[r].at \in {"write", "publish"} => req[r].todo # << >>
    /\ req[r].at = "write" => /\ Has(req[r].todo, "embed")
                              /\ req[r].pend => Has(req[r].todo, "appsec")

\* A job of kind k is still to be taken by a consumer, or was lost.
Behind(k) ==
    \/ k \in missed
    \/ queue[k] > 0
    \/ \E r \in Request : req[r].at = "publish" /\ Has(req[r].todo, k)

\* A consumer whose outcome will change a status on 'pending': one that loaded
\* another status may have nothing to write.
Fresh(k) == \E w \in Worker : inHand[<<w, k>>].at = "called" /\ inHand[<<w, k>>].status = "pending"
PendInv == \A k \in Kind : StatusOf(k) = "pending" => Behind(k) \/ Fresh(k)

\* The job in hand is about the current text, or none is and the vector is.
Current ==
    /\ \A w \in Worker : inHand[<<w, "embed">>].at = "called" => inHand[<<w, "embed">>].text = text
    /\ (\A w \in Worker : inHand[<<w, "embed">>].at # "called") => embedding = text
EmbedInv == text # None => Behind("embed") \/ Current

JobsInv == TypeOK /\ ReqInv /\ PendInv

\* No two workers embed the ticket at once: the slower one could store the
\* vector of an older text last.
EmbedFollowed == "embed" \in Kind
EmbedsApart ==
    \A v, w \in Worker :
      inHand[<<v, "embed">>].at = "called" /\ inHand[<<w, "embed">>].at = "called" => v = w

\* A step from one such state to another.
StepApart == EmbedFollowed /\ EmbedsApart /\ EmbedsApart'

-----------------------------------------------------------------------------
(* Sequences of jobs, and the fields of requests.                           *)

LEMMA TodoFacts ==
    ASSUME NEW s \in Seq(AllKinds), s # << >>
    PROVE  /\ Head(s) \in AllKinds
           /\ Len(s) # 1 => Tail(s) \in Seq(AllKinds) /\ Tail(s) # << >>
           /\ \A k : Has(s, k) => k = Head(s) \/ (Len(s) # 1 /\ Has(Tail(s), k))
<1>1. Head(s) = s[1] /\ Len(s) \in Nat \ {0} /\ DOMAIN s = 1 .. Len(s)
  OBVIOUS
<1>2. Head(s) \in AllKinds
  BY <1>1
<1>3. /\ Tail(s) \in Seq(AllKinds) /\ Len(Tail(s)) = Len(s) - 1
      /\ DOMAIN Tail(s) = 1 .. Len(s) - 1
      /\ \A i \in 1 .. Len(s) - 1 : Tail(s)[i] = s[i + 1]
  BY <1>1
<1>4. Len(s) # 1 => /\ Tail(s) \in Seq(AllKinds) /\ Tail(s) # << >>
                    /\ \A i \in 2 .. Len(s) : i - 1 \in DOMAIN Tail(s) /\ Tail(s)[i - 1] = s[i]
  <2>1. Len(s) # 1 => Tail(s) # << >>
    <3>1. Len(<< >>) = 0
      OBVIOUS
    <3>2. Len(s) # 1 => Len(Tail(s)) # 0
      BY <1>1, <1>3
    <3> QED
      BY <3>1, <3>2
  <2>2. \A i \in 2 .. Len(s) : i - 1 \in 1 .. Len(s) - 1 /\ (i - 1) + 1 = i
    BY <1>1
  <2> QED
    BY <1>3, <2>1, <2>2
<1>5. ASSUME NEW k, Has(s, k), k # Head(s) PROVE Len(s) # 1 /\ Has(Tail(s), k)
  <2>1. PICK i \in 1 .. Len(s) : s[i] = k
    BY <1>1, <1>5 DEF Has
  <2>2. i \in 2 .. Len(s) /\ Len(s) # 1
    BY <1>1, <1>5, <2>1
  <2> QED
    BY <1>4, <2>1, <2>2 DEF Has
<1> QED
  BY <1>2, <1>4, <1>5

\* A job put before the others.
LEMMA PrefixFacts ==
    ASSUME NEW x \in AllKinds, NEW s \in Seq(AllKinds)
    PROVE  /\ <<x>> \o s \in Seq(AllKinds) /\ <<x>> \o s # << >>
           /\ Has(<<x>> \o s, x)
           /\ \A k : Has(s, k) => Has(<<x>> \o s, k)
<1> DEFINE c == <<x>> \o s
<1>1. /\ <<x>> \in Seq(AllKinds) /\ Len(<<x>>) = 1 /\ <<x>>[1] = x
      /\ Len(s) \in Nat /\ DOMAIN s = 1 .. Len(s)
  OBVIOUS
<1>2. /\ c \in Seq(AllKinds) /\ Len(c) = Len(s) + 1 /\ DOMAIN c = 1 .. Len(s) + 1
      /\ c[1] = x
      /\ \A i \in 1 .. Len(s) : i + 1 \in DOMAIN c /\ c[i + 1] = s[i]
  BY <1>1
<1>3. c # << >> /\ 1 \in DOMAIN c
  BY <1>1, <1>2
<1> HIDE DEF c
<1>4. \A k : Has(s, k) => Has(c, k)
  BY <1>1, <1>2 DEF Has
<1>5. Has(c, x)
  BY <1>2, <1>3 DEF Has
<1> QED
  BY <1>2, <1>3, <1>4, <1>5 DEF c

LEMMA JobsFacts ==
    ASSUME NEW flagged \in BOOLEAN
    PROVE  /\ JobsAfterEdit(flagged) \in Seq(AllKinds) /\ JobsAfterEdit(flagged) # << >>
           /\ Has(JobsAfterEdit(flagged), "embed")
           /\ flagged => Has(JobsAfterEdit(flagged), "appsec")
<1> DEFINE e == JobsAfterEdit(flagged)
<1>1. CASE flagged
  <2>1. /\ e \in Seq(AllKinds) /\ e # << >> /\ e[1] = "embed" /\ e[2] = "appsec"
        /\ 1 \in DOMAIN e /\ 2 \in DOMAIN e
    BY <1>1 DEF JobsAfterEdit, AllKinds
  <2> HIDE DEF e
  <2>2. Has(e, "embed") /\ Has(e, "appsec")
    BY <2>1 DEF Has
  <2> QED
    BY <2>1, <2>2 DEF e
<1>2. CASE ~flagged
  <2>1. e \in Seq(AllKinds) /\ e # << >> /\ e[1] = "embed" /\ 1 \in DOMAIN e
    BY <1>2 DEF JobsAfterEdit, AllKinds
  <2> HIDE DEF e
  <2>2. Has(e, "embed")
    BY <2>1 DEF Has
  <2> QED
    BY <1>2, <2>1, <2>2 DEF e
<1> QED
  BY <1>1, <1>2

LEMMA IdleFacts ==
    /\ Idle \in Requests /\ Idle.at = "idle"
    /\ NoJob \in Jobs /\ NoJob.at = "none"
    /\ Done \in Jobs /\ Done.at = "done"
BY DEF Idle, Requests, NoJob, Done, Jobs, Status

LEMMA RequestFields ==
    ASSUME NEW q \in Requests
    PROVE  /\ q.text \in Text \cup {None} /\ q.flags \subseteq Category
           /\ q.pend \in BOOLEAN /\ q.todo \in Seq(AllKinds)
           /\ q.at \in {"idle", "write", "publish"}
BY DEF Requests

LEMMA GateFacts ==
    ASSUME NEW v \in Text, NEW old \in SUBSET Category, NEW s
    PROVE  NeedsReview(v, old, s) \in BOOLEAN /\ FlagsAfter(v, old) \subseteq Category
BY MatchesAssumption DEF NeedsReview, FlagsAfter

\* A kind's status is a column of its own, and an embedding has none.
LEMMA StatusFacts ==
    ASSUME TypeOK, NEW k \in Kind
    PROVE  /\ StatusOf(k) \in Status
           /\ StatusOf(k) = "pending" => k \in {"triage", "appsec"}
           /\ StatusOf("triage") = triage /\ StatusOf("appsec") = review
BY NoneAssumption, KindAssumption DEF TypeOK, Status, StatusOf, AllKinds

-----------------------------------------------------------------------------
(* Requests.                                                                *)

\* The row's columns that a consumer reads: a request sets a status only to
\* 'pending', and then has the job in its hands.
LEMMA JobsInitHolds == ASSUME Init PROVE JobsInv /\ EmbedInv
<1>1. TypeOK /\ ReqInv
  BY IdleFacts DEF Init, TypeOK, ReqInv
<1>2. None # "pending"
  BY NoneAssumption
<1>3. \A k \in Kind : StatusOf(k) = None
  BY KindAssumption DEF Init, StatusOf, AllKinds
<1> QED
  BY <1>1, <1>2, <1>3 DEF Init, JobsInv, PendInv, EmbedInv

\* A step of request r that takes no job away and leaves the consumers alone.
OnlyAdds(r) ==
    /\ TypeOK' /\ ReqInv' /\ inHand' = inHand
    /\ \A x \in Request \ {r} : req'[x] = req[x]
    /\ \A k \in Kind : queue[k] > 0 => queue'[k] > 0
    /\ \A k \in Kind \cap missed : k \in missed' \/ queue'[k] > 0
    /\ req[r].at = "publish" =>
         \A k \in Kind : Has(req[r].todo, k) =>
           \/ k \in missed' \/ queue'[k] > 0
           \/ req'[r].at = "publish" /\ Has(req'[r].todo, k)
    /\ \A k \in Kind : StatusOf(k)' = "pending" => StatusOf(k) = "pending" \/ Behind(k)'
    /\ "embed" \in Kind => (text' = text /\ embedding' = embedding) \/ Behind("embed")'

LEMMA OnlyAddsKeeps ==
    ASSUME JobsInv, NEW r \in Request, OnlyAdds(r)
    PROVE  /\ JobsInv'
           /\ "embed" \in Kind /\ EmbedInv => EmbedInv'
<1>1. ASSUME NEW k \in Kind, Behind(k) PROVE Behind(k)'
  <2>1. CASE k \in missed
    BY <2>1 DEF Behind, OnlyAdds
  <2>2. CASE queue[k] > 0
    BY <2>2 DEF Behind, OnlyAdds
  <2>3. ASSUME NEW x \in Request, req[x].at = "publish", Has(req[x].todo, k) PROVE Behind(k)'
    <3>1. CASE x = r
      BY <2>3, <3>1 DEF Behind, OnlyAdds
    <3>2. CASE x # r
      BY <2>3, <3>2 DEF Behind, OnlyAdds
    <3> QED
      BY <3>1, <3>2
  <2> QED
    BY <1>1, <2>1, <2>2, <2>3 DEF Behind
<1>2. \A k \in Kind : Fresh(k) => Fresh(k)'
  BY DEF Fresh, OnlyAdds
<1>3. PendInv'
  BY <1>1, <1>2 DEF JobsInv, PendInv, OnlyAdds
<1>4. ASSUME "embed" \in Kind, EmbedInv PROVE EmbedInv'
  BY <1>1, <1>4 DEF EmbedInv, Current, OnlyAdds
<1> QED
  BY <1>3, <1>4 DEF JobsInv, OnlyAdds

\* The request r goes on as q; the others do not move.
LEMMA RequestGoes ==
    ASSUME TypeOK, ReqInv, NEW r \in Request, NEW q \in Requests,
           req' = [req EXCEPT ![r] = q],
           q.at \in {"write", "publish"} => q.todo # << >>,
           q.at = "write" => Has(q.todo, "embed") /\ (q.pend => Has(q.todo, "appsec"))
    PROVE  /\ req' \in [Request -> Requests] /\ ReqInv'
           /\ req'[r] = q
           /\ \A x \in Request \ {r} : req'[x] = req[x]
<1>1. /\ req' \in [Request -> Requests] /\ req'[r] = q
      /\ \A x \in Request \ {r} : req'[x] = req[x]
  BY DEF TypeOK
<1>2. ReqInv'
  BY <1>1 DEF ReqInv
<1> QED
  BY <1>1, <1>2

LEMMA CreateKeeps ==
    ASSUME JobsInv, NEW r \in Request, NEW v \in Text, CreateTicket(r, v)
    PROVE  OnlyAdds(r)
<1> DEFINE flagged == NeedsReview(v, {}, None)
           jobs == <<"triage">> \o JobsAfterEdit(flagged)
           q == [Idle EXCEPT !.at = "publish", !.todo = jobs]
<1>1. flagged \in BOOLEAN /\ FlagsAfter(v, {}) \subseteq Category
  BY GateFacts
<1>2. /\ jobs \in Seq(AllKinds) /\ jobs # << >>
      /\ Has(jobs, "triage") /\ Has(jobs, "embed") /\ (flagged => Has(jobs, "appsec"))
  BY <1>1, JobsFacts, PrefixFacts DEF AllKinds
<1>3. /\ text' = v /\ triage' = "pending" /\ flags' = FlagsAfter(v, {})
      /\ review' = IF flagged THEN "pending" ELSE None
      /\ req' = [req EXCEPT ![r] = q] /\ req[r] = Idle
      /\ UNCHANGED <<triageError, embedding, reviewError, queue, inHand, missed>>
  BY DEF CreateTicket
<1> HIDE DEF jobs, flagged
<1>4. q \in Requests /\ q.at = "publish" /\ q.todo = jobs
  BY <1>2 DEF Requests, Idle
<1> HIDE DEF q
<1>5. /\ req' \in [Request -> Requests] /\ ReqInv' /\ req'[r] = q
      /\ \A x \in Request \ {r} : req'[x] = req[x]
  BY <1>2, <1>3, <1>4, RequestGoes DEF JobsInv
<1>6. TypeOK'
  BY <1>1, <1>3, <1>5 DEF JobsInv, TypeOK
<1>7. \A k : Has(jobs, k) => Behind(k)'
  BY <1>4, <1>5 DEF Behind
<1>8. \A k \in Kind : StatusOf(k)' = "pending" => StatusOf(k) = "pending" \/ Behind(k)'
  BY <1>2, <1>3, <1>7, NoneAssumption, KindAssumption DEF StatusOf, AllKinds
<1>9. req[r].at # "publish"
  BY <1>3, IdleFacts
<1> QED
  BY <1>2, <1>3, <1>5, <1>6, <1>7, <1>8, <1>9 DEF OnlyAdds

LEMMA UpdateReadKeeps ==
    ASSUME JobsInv, NEW r \in Request, NEW v \in Text, UpdateRead(r, v)
    PROVE  OnlyAdds(r)
<1> DEFINE flagged == NeedsReview(v, flags, review)
           q == [at |-> "write",
                 text |-> IF v = text THEN None ELSE v,
                 flags |-> IF flagged THEN FlagsAfter(v, flags) ELSE {},
                 pend |-> flagged /\ review # "pending",
                 todo |-> JobsAfterEdit(flagged)]
<1>1. flagged \in BOOLEAN /\ FlagsAfter(v, flags) \subseteq Category
  BY GateFacts DEF JobsInv, TypeOK
<1>2. /\ req' = [req EXCEPT ![r] = q] /\ req[r] = Idle
      /\ UNCHANGED <<text, triageColumns, embedding, flags, reviewColumns, queue, inHand, missed>>
  BY DEF UpdateRead
<1> HIDE DEF flagged
<1>3. /\ JobsAfterEdit(flagged) \in Seq(AllKinds) /\ JobsAfterEdit(flagged) # << >>
      /\ Has(JobsAfterEdit(flagged), "embed")
      /\ flagged => Has(JobsAfterEdit(flagged), "appsec")
  BY <1>1, JobsFacts
<1>4. /\ q \in Requests /\ q.at = "write" /\ q.todo = JobsAfterEdit(flagged)
      /\ q.pend => flagged
  BY <1>1, <1>3 DEF Requests
<1> HIDE DEF q
<1>5. /\ req' \in [Request -> Requests] /\ ReqInv' /\ req'[r] = q
      /\ \A x \in Request \ {r} : req'[x] = req[x]
  BY <1>2, <1>3, <1>4, RequestGoes DEF JobsInv
<1>6. TypeOK'
  BY <1>2, <1>5 DEF JobsInv, TypeOK, triageColumns, reviewColumns
<1>7. req[r].at # "publish"
  BY <1>2, IdleFacts
<1>8. \A k \in Kind : StatusOf(k)' = StatusOf(k)
  BY <1>2 DEF StatusOf, triageColumns, reviewColumns
<1> QED
  BY <1>2, <1>5, <1>6, <1>7, <1>8 DEF OnlyAdds

LEMMA UpdateCommitKeeps ==
    ASSUME JobsInv, NEW r \in Request, UpdateCommit(r)
    PROVE  OnlyAdds(r)
<1> DEFINE h == req[r]
           q == [Idle EXCEPT !.at = "publish", !.todo = h.todo]
<1>1. /\ h \in Requests /\ h.at = "write" /\ h.todo # << >> /\ Has(h.todo, "embed")
      /\ h.pend => Has(h.todo, "appsec")
  BY DEF JobsInv, TypeOK, ReqInv, UpdateCommit
<1>2. /\ text' = IF h.text = None THEN text ELSE h.text
      /\ flags' = IF h.flags = {} THEN flags ELSE h.flags
      /\ review' = IF h.pend THEN "pending" ELSE review
      /\ req' = [req EXCEPT ![r] = q]
      /\ UNCHANGED <<triageColumns, embedding, reviewError, queue, inHand, missed>>
  BY DEF UpdateCommit
<1> HIDE DEF h
<1>3. /\ h.text \in Text \cup {None} /\ h.flags \subseteq Category
      /\ h.pend \in BOOLEAN /\ h.todo \in Seq(AllKinds)
  BY <1>1, RequestFields
<1>4. q \in Requests /\ q.at = "publish" /\ q.todo = h.todo
  BY <1>3 DEF Requests, Idle
<1> HIDE DEF q
<1>5. /\ req' \in [Request -> Requests] /\ ReqInv' /\ req'[r] = q
      /\ \A x \in Request \ {r} : req'[x] = req[x]
  BY <1>1, <1>2, <1>4, RequestGoes DEF JobsInv
<1>6. TypeOK'
  BY <1>2, <1>3, <1>5 DEF JobsInv, TypeOK, triageColumns
<1>7. \A k : Has(h.todo, k) => Behind(k)'
  BY <1>4, <1>5 DEF Behind
<1>8. \A k \in Kind : StatusOf(k)' = "pending" => StatusOf(k) = "pending" \/ Behind(k)'
  BY <1>1, <1>2, <1>7, KindAssumption DEF StatusOf, AllKinds, triageColumns
<1>9. req[r].at # "publish"
  BY <1>1 DEF h
<1> QED
  BY <1>1, <1>2, <1>5, <1>6, <1>7, <1>8, <1>9 DEF OnlyAdds

LEMMA PublishKeeps ==
    ASSUME JobsInv, NEW r \in Request, Publish(r)
    PROVE  OnlyAdds(r)
<1> DEFINE h == req[r]
           k == Head(h.todo)
           q == IF Len(h.todo) = 1 THEN Idle ELSE [h EXCEPT !.todo = Tail(h.todo)]
<1>1. h \in Requests /\ h.at = "publish" /\ h.todo # << >> /\ h.todo \in Seq(AllKinds)
  BY RequestFields DEF JobsInv, TypeOK, ReqInv, Publish
<1>2. /\ queue' = IF k \in Kind THEN [queue EXCEPT ![k] = @ + 1] ELSE queue
      /\ missed' = missed \ {k}
      /\ UNCHANGED <<text, triageColumns, embedding, flags, reviewColumns, inHand>>
  BY DEF Publish
<1>3. req' = [req EXCEPT ![r] = q]
  <2>1. CASE Len(h.todo) = 1
    BY <2>1 DEF Publish, Finish
  <2>2. CASE Len(h.todo) # 1
    <3>1. req' = [req EXCEPT ![r].todo = Tail(@)]
      BY <2>2 DEF Publish
    <3> QED
      BY <2>2, <3>1
  <2> QED
    BY <2>1, <2>2
<1> HIDE DEF h
<1>4. /\ k \in AllKinds
      /\ Len(h.todo) # 1 => Tail(h.todo) \in Seq(AllKinds) /\ Tail(h.todo) # << >>
      /\ \A x : Has(h.todo, x) => x = k \/ (Len(h.todo) # 1 /\ Has(Tail(h.todo), x))
  BY <1>1, TodoFacts
<1>5. /\ q \in Requests /\ q.at \in {"idle", "publish"}
      /\ q.at = "publish" => q.todo # << >>
      /\ Len(h.todo) # 1 => q.at = "publish" /\ q.todo = Tail(h.todo)
  <2>1. CASE Len(h.todo) = 1
    BY <2>1, IdleFacts
  <2>2. CASE Len(h.todo) # 1
    BY <1>1, <1>4, <2>2 DEF Requests
  <2> QED
    BY <2>1, <2>2
<1> HIDE DEF q, k
<1>6. /\ req' \in [Request -> Requests] /\ ReqInv' /\ req'[r] = q
      /\ \A x \in Request \ {r} : req'[x] = req[x]
  BY <1>3, <1>5, RequestGoes DEF JobsInv
<1>7. /\ queue' \in [Kind -> Nat]
      /\ \A x \in Kind : queue[x] > 0 => queue'[x] > 0
      /\ k \in Kind => queue'[k] > 0
  BY <1>2 DEF JobsInv, TypeOK
<1>8. TypeOK'
  BY <1>2, <1>6, <1>7 DEF JobsInv, TypeOK, triageColumns, reviewColumns
<1>9. \A x \in Kind : StatusOf(x)' = StatusOf(x)
  BY <1>2 DEF StatusOf, triageColumns, reviewColumns
<1>10. \A x \in Kind : Has(req[r].todo, x) =>
          \/ x \in missed' \/ queue'[x] > 0
          \/ req'[r].at = "publish" /\ Has(req'[r].todo, x)
  BY <1>4, <1>5, <1>6, <1>7 DEF h
<1> QED
  BY <1>2, <1>6, <1>7, <1>8, <1>9, <1>10 DEF OnlyAdds

LEMMA CrashKeeps ==
    ASSUME JobsInv, NEW r \in Request, Crash(r)
    PROVE  OnlyAdds(r)
<1>1. /\ missed' = IF req[r].at = "publish"
                   THEN missed \cup {req[r].todo[i] : i \in DOMAIN req[r].todo} ELSE missed
      /\ req' = [req EXCEPT ![r] = Idle]
      /\ UNCHANGED <<text, triageColumns, embedding, flags, reviewColumns, queue, inHand>>
  BY DEF Crash, Finish
<1>2. /\ req' \in [Request -> Requests] /\ ReqInv' /\ req'[r] = Idle
      /\ \A x \in Request \ {r} : req'[x] = req[x]
  BY <1>1, RequestGoes, IdleFacts DEF JobsInv
<1>3. req[r].todo \in Seq(AllKinds)
  BY RequestFields DEF JobsInv, TypeOK
<1>4. {req[r].todo[i] : i \in DOMAIN req[r].todo} \subseteq AllKinds
  BY <1>3
<1>5. TypeOK'
  BY <1>1, <1>2, <1>4 DEF JobsInv, TypeOK, triageColumns, reviewColumns
<1>6. \A k \in Kind : StatusOf(k)' = StatusOf(k)
  BY <1>1 DEF StatusOf, triageColumns, reviewColumns
<1>7. req[r].at = "publish" => \A k \in Kind : Has(req[r].todo, k) => k \in missed'
  BY <1>1 DEF Has
<1> QED
  BY <1>1, <1>2, <1>5, <1>6, <1>7 DEF OnlyAdds

-----------------------------------------------------------------------------
(* Consumers.                                                               *)

\* A step of the consumer of queue k in w takes no job but one of k away, and
\* leaves the requests and the other consumers alone.
OnlyConsumer(w, k) ==
    /\ TypeOK' /\ text' = text /\ req' = req /\ missed \subseteq missed'
    /\ \A c \in (Worker \X Kind) \ {<<w, k>>} : inHand'[c] = inHand[c]
    /\ \A x \in Kind \ {k} : queue'[x] = queue[x] /\ StatusOf(x)' = StatusOf(x)
    /\ k # "embed" => embedding' = embedding

\* What it must do itself: leave a job behind its own column.
OwnKept(w, k) ==
    /\ StatusOf(k)' = "pending" => Behind(k)' \/ Fresh(k)'
    /\ k = "embed" /\ EmbedInv /\ StepApart => EmbedInv'

LEMMA ConsumerKeeps ==
    ASSUME JobsInv, NEW w \in Worker, NEW k \in Kind, OnlyConsumer(w, k), OwnKept(w, k)
    PROVE  JobsInv' /\ (EmbedInv /\ StepApart => EmbedInv')
<1>1. ReqInv'
  BY DEF JobsInv, ReqInv, OnlyConsumer
<1>2. ASSUME NEW x \in Kind \ {k}
      PROVE  (Behind(x) => Behind(x)') /\ (Fresh(x) => Fresh(x)')
  <2>1. \A v \in Worker : inHand'[<<v, x>>] = inHand[<<v, x>>]
    BY <1>2 DEF OnlyConsumer
  <2> QED
    BY <1>2, <2>1 DEF Behind, Fresh, OnlyConsumer
<1>3. PendInv'
  BY <1>2 DEF PendInv, JobsInv, OnlyConsumer, OwnKept
<1>4. ASSUME k # "embed", EmbedInv, "embed" \in Kind PROVE EmbedInv'
  <2>1. \A v \in Worker : inHand'[<<v, "embed">>] = inHand[<<v, "embed">>]
    BY <1>4 DEF OnlyConsumer
  <2> QED
    BY <1>2, <1>4, <2>1 DEF EmbedInv, Current, OnlyConsumer
<1> QED
  BY <1>1, <1>3, <1>4 DEF JobsInv, OnlyConsumer, OwnKept, StepApart, EmbedFollowed

\* The consumer's job becomes j.
LEMMA HandGoes ==
    ASSUME TypeOK, NEW w \in Worker, NEW k \in Kind, NEW j \in Jobs,
           inHand' = [inHand EXCEPT ![<<w, k>>] = j]
    PROVE  /\ inHand' \in [Worker \X Kind -> Jobs]
           /\ inHand'[<<w, k>>] = j
           /\ \A c \in (Worker \X Kind) \ {<<w, k>>} : inHand'[c] = inHand[c]
BY DEF TypeOK

LEMMA TakeKeeps ==
    ASSUME JobsInv, NEW w \in Worker, NEW k \in Kind, WorkerTake(w, k)
    PROVE  OnlyConsumer(w, k) /\ OwnKept(w, k)
<1> DEFINE skip == k = "appsec" /\ Matches[text] = {}
           j == IF skip THEN Done
                ELSE [at |-> "called", text |-> IF k = "embed" THEN text ELSE None,
                      status |-> StatusOf(k)]
<1>1. /\ queue[k] > 0 /\ queue' = [queue EXCEPT ![k] = @ - 1]
      /\ inHand' = [inHand EXCEPT ![<<w, k>>] = j]
      /\ missed' = IF skip THEN missed \cup {k} ELSE missed
      /\ UNCHANGED <<text, triageColumns, embedding, flags, reviewColumns, req>>
  BY DEF WorkerTake
<1> HIDE DEF skip
<1>2. StatusOf(k) \in Status /\ k \in AllKinds /\ text \in Text \cup {None}
  BY StatusFacts, KindAssumption DEF JobsInv, TypeOK
<1>3. /\ j \in Jobs
      /\ ~skip => /\ j.at = "called" /\ j.status = StatusOf(k)
                  /\ k = "embed" => j.text = text
  BY <1>2, IdleFacts DEF Jobs
<1> HIDE DEF j
<1>4. /\ inHand' \in [Worker \X Kind -> Jobs] /\ inHand'[<<w, k>>] = j
      /\ \A c \in (Worker \X Kind) \ {<<w, k>>} : inHand'[c] = inHand[c]
  BY <1>1, <1>3, HandGoes DEF JobsInv
<1>5. queue' \in [Kind -> Nat] /\ \A x \in Kind \ {k} : queue'[x] = queue[x]
  BY <1>1 DEF JobsInv, TypeOK
<1>6. \A x \in Kind : StatusOf(x)' = StatusOf(x)
  BY <1>1 DEF StatusOf, triageColumns, reviewColumns
<1>7. TypeOK'
  BY <1>1, <1>2, <1>4, <1>5 DEF JobsInv, TypeOK, triageColumns, reviewColumns
<1>8. OnlyConsumer(w, k)
  BY <1>1, <1>4, <1>5, <1>6, <1>7 DEF OnlyConsumer
<1>9. StatusOf(k)' = "pending" => Behind(k)' \/ Fresh(k)'
  BY <1>1, <1>3, <1>4, <1>6 DEF Behind, Fresh
<1>10. ASSUME k = "embed", StepApart PROVE EmbedInv'
  <2>1. skip => Behind("embed")'
    BY <1>1, <1>10 DEF Behind
  <2>2. ~skip => Current'
    BY <1>1, <1>3, <1>4, <1>10 DEF Current, StepApart, EmbedsApart
  <2> QED
    BY <2>1, <2>2 DEF EmbedInv
<1> QED
  BY <1>8, <1>9, <1>10 DEF OwnKept

\* A status that a write leaves on 'pending' was not the one the job loaded.
LEMMA WrittenFacts ==
    ASSUME NEW loaded, NEW column, NEW value, value # "pending",
           Written(loaded, column, value) = "pending"
    PROVE  loaded # "pending" /\ column = "pending"
BY DEF Written

LEMMA WriteKeeps ==
    ASSUME JobsInv, NEW w \in Worker, NEW k \in Kind, NEW ok \in BOOLEAN, WorkerWrite(w, k, ok)
    PROVE  OnlyConsumer(w, k) /\ OwnKept(w, k)
<1> DEFINE j == inHand[<<w, k>>]
<1>1. /\ j.at = "called"
      /\ inHand' = [inHand EXCEPT ![<<w, k>>] = Done]
      /\ \/ k = "triage" /\ TriageWrite(j, ok)
         \/ k = "embed" /\ EmbedWrite(j, ok)
         \/ k = "appsec" /\ ReviewWrite(j, ok)
      /\ UNCHANGED <<text, flags, req, queue>>
  BY DEF WorkerWrite
<1>2. j \in Jobs /\ j.text \in Text \cup {None}
  BY DEF JobsInv, TypeOK, Jobs
<1> HIDE DEF j
<1>3. /\ inHand' \in [Worker \X Kind -> Jobs] /\ inHand'[<<w, k>>] = Done
      /\ \A c \in (Worker \X Kind) \ {<<w, k>>} : inHand'[c] = inHand[c]
  BY <1>1, IdleFacts, HandGoes DEF JobsInv
<1>4. TypeOK' /\ missed \subseteq missed' /\ (k # "embed" => embedding' = embedding)
  BY <1>1, <1>2, <1>3
  DEF JobsInv, TypeOK, TriageWrite, EmbedWrite, ReviewWrite, triageColumns, reviewColumns, Written,
      AllKinds
<1>5. ASSUME NEW x \in Kind \ {k} PROVE StatusOf(x)' = StatusOf(x)
  BY <1>1, <1>5, KindAssumption
  DEF StatusOf, TriageWrite, EmbedWrite, ReviewWrite, triageColumns, reviewColumns, AllKinds
<1>6. OnlyConsumer(w, k)
  BY <1>1, <1>3, <1>4, <1>5 DEF OnlyConsumer
<1>7. Behind(k) => Behind(k)'
  BY <1>1, <1>4 DEF Behind
<1>8. ASSUME StatusOf(k)' = "pending" PROVE StatusOf(k) = "pending" /\ j.status # "pending"
  <2>1. k # "embed"
    BY <1>8, NoneAssumption DEF StatusOf
  <2>2. CASE k = "triage"
    BY <1>1, <1>8, <2>2, WrittenFacts DEF StatusOf, TriageWrite
  <2>3. CASE k = "appsec"
    BY <1>1, <1>8, <2>3, WrittenFacts DEF StatusOf, ReviewWrite
  <2> QED
    BY <1>1, <2>1, <2>2, <2>3
<1>9. StatusOf(k)' = "pending" => Behind(k)' \/ Fresh(k)'
  <2> SUFFICES ASSUME StatusOf(k)' = "pending", Fresh(k) PROVE Fresh(k)'
    BY <1>7, <1>8 DEF JobsInv, PendInv
  <2>1. PICK v \in Worker : inHand[<<v, k>>].at = "called" /\ inHand[<<v, k>>].status = "pending"
    BY DEF Fresh
  <2>2. v # w
    BY <1>8, <2>1 DEF j
  <2>3. inHand'[<<v, k>>] = inHand[<<v, k>>]
    BY <1>3, <2>2
  <2> QED
    BY <2>1, <2>3 DEF Fresh
<1>10. ASSUME k = "embed", EmbedInv, StepApart PROVE EmbedInv'
  <2> SUFFICES ASSUME text # None, Current PROVE Behind("embed")' \/ Current'
    BY <1>1, <1>7, <1>10 DEF EmbedInv
  <2>1. EmbedWrite(j, ok)
    BY <1>1, <1>10
  <2>2. ~ok => Behind("embed")'
    BY <2>1 DEF EmbedWrite, Behind
  <2>3. ok => embedding' = text
    BY <1>1, <1>10, <2>1 DEF EmbedWrite, Current, j
  <2>4. \A v \in Worker : inHand'[<<v, "embed">>].at # "called"
    <3>1. \A v \in Worker \ {w} : inHand[<<v, "embed">>].at # "called"
      BY <1>1, <1>10 DEF StepApart, EmbedsApart, j
    <3> QED
      BY <1>3, <1>10, <3>1, IdleFacts
  <2> QED
    BY <1>1, <2>2, <2>3, <2>4 DEF Current
<1> QED
  BY <1>6, <1>9, <1>10 DEF OwnKept

\* The job is acked, or goes back to the queue.
LEMMA LetGoKeeps ==
    ASSUME JobsInv, NEW w \in Worker, NEW k \in Kind, WorkerAck(w, k) \/ WorkerRequeue(w, k)
    PROVE  OnlyConsumer(w, k) /\ OwnKept(w, k)
<1>1. /\ inHand' = [inHand EXCEPT ![<<w, k>>] = NoJob]
      /\ \/ queue' = queue /\ inHand[<<w, k>>].at = "done"
         \/ queue' = [queue EXCEPT ![k] = @ + 1]
      /\ UNCHANGED <<text, triageColumns, embedding, flags, reviewColumns, req, missed>>
  BY DEF WorkerAck, WorkerRequeue
<1>2. /\ inHand' \in [Worker \X Kind -> Jobs] /\ inHand'[<<w, k>>] = NoJob
      /\ \A c \in (Worker \X Kind) \ {<<w, k>>} : inHand'[c] = inHand[c]
  BY <1>1, IdleFacts, HandGoes DEF JobsInv
<1>3. /\ queue' \in [Kind -> Nat] /\ \A x \in Kind \ {k} : queue'[x] = queue[x]
      /\ queue'[k] > 0 \/ (queue' = queue /\ inHand[<<w, k>>].at = "done")
  BY <1>1 DEF JobsInv, TypeOK
<1>4. \A x \in Kind : StatusOf(x)' = StatusOf(x)
  BY <1>1 DEF StatusOf, triageColumns, reviewColumns
<1>5. TypeOK'
  BY <1>1, <1>2, <1>3 DEF JobsInv, TypeOK, triageColumns, reviewColumns
<1>6. OnlyConsumer(w, k)
  BY <1>1, <1>2, <1>3, <1>4, <1>5 DEF OnlyConsumer
<1>7. CASE queue'[k] > 0
  BY <1>6, <1>7 DEF OwnKept, Behind, EmbedInv
<1>8. CASE queue' = queue /\ inHand[<<w, k>>].at = "done"
  <2>1. Behind(k) => Behind(k)'
    BY <1>1, <1>8 DEF Behind
  <2>2. ASSUME NEW v \in Worker
        PROVE  /\ inHand'[<<v, k>>].at = "called" <=> inHand[<<v, k>>].at = "called"
               /\ inHand'[<<v, k>>].at = "called" => inHand'[<<v, k>>] = inHand[<<v, k>>]
    <3>1. v = w \/ inHand'[<<v, k>>] = inHand[<<v, k>>]
      BY <1>2, <2>2
    <3> QED
      BY <1>2, <1>8, <3>1, IdleFacts
  <2>3. Fresh(k) => Fresh(k)'
    BY <2>2 DEF Fresh
  <2>4. StatusOf(k)' = "pending" => Behind(k)' \/ Fresh(k)'
    BY <1>4, <2>1, <2>3 DEF JobsInv, PendInv
  <2>5. k = "embed" /\ Current => Current'
    BY <1>1, <2>2 DEF Current
  <2>6. k = "embed" /\ EmbedInv => EmbedInv'
    BY <1>1, <2>1, <2>5 DEF EmbedInv
  <2> QED
    BY <1>6, <2>4, <2>6 DEF OwnKept
<1> QED
  BY <1>3, <1>7, <1>8

-----------------------------------------------------------------------------
LEMMA JobsNextKeeps ==
    ASSUME JobsInv, [Next]_vars
    PROVE  JobsInv' /\ (EmbedInv /\ StepApart => EmbedInv')
<1>1. ASSUME NEW r \in Request,
             \/ \E v \in Text : CreateTicket(r, v) \/ UpdateRead(r, v)
             \/ UpdateCommit(r) \/ Publish(r) \/ Crash(r)
      PROVE  JobsInv' /\ (EmbedInv /\ StepApart => EmbedInv')
  <2>1. OnlyAdds(r)
    BY <1>1, CreateKeeps, UpdateReadKeeps, UpdateCommitKeeps, PublishKeeps, CrashKeeps
  <2> QED
    BY <2>1, OnlyAddsKeeps DEF StepApart, EmbedFollowed
<1>2. ASSUME NEW w \in Worker, NEW k \in Kind,
             \/ WorkerTake(w, k) \/ WorkerAck(w, k) \/ WorkerRequeue(w, k)
             \/ \E ok \in BOOLEAN : WorkerWrite(w, k, ok)
      PROVE  JobsInv' /\ (EmbedInv /\ StepApart => EmbedInv')
  <2>1. OnlyConsumer(w, k) /\ OwnKept(w, k)
    BY <1>2, TakeKeeps, WriteKeeps, LetGoKeeps
  <2> QED
    BY <2>1, ConsumerKeeps
<1>3. CASE UNCHANGED vars
  BY <1>3
  DEF vars, JobsInv, TypeOK, ReqInv, PendInv, Behind, Fresh, EmbedInv, Current, StatusOf
<1> QED
  BY <1>1, <1>2, <1>3 DEF Next

\* What the invariants say of the columns.
LEMMA JobsInvSound ==
    ASSUME JobsInv
    PROVE  PendingHasJob /\ (EmbedInv /\ EmbedFollowed => EmbedCurrent)
<1>1. ASSUME NEW k \in Kind PROVE (Behind(k) => Coming(k) \/ k \in missed) /\ (Fresh(k) => Coming(k))
  BY DEF Behind, Fresh, Coming, Has
<1>2. PendingHasJob
  BY <1>1 DEF JobsInv, PendInv, PendingHasJob
<1>3. ASSUME EmbedInv, EmbedFollowed, text # None, ~Coming("embed"), "embed" \notin missed
      PROVE  embedding = text
  <2>1. ~Behind("embed")
    BY <1>1, <1>3 DEF EmbedFollowed
  <2>2. Current
    BY <1>3, <2>1 DEF EmbedInv
  <2>3. \A w \in Worker : inHand[<<w, "embed">>].at # "called"
    BY <1>3 DEF Coming
  <2> QED
    BY <2>2, <2>3 DEF Current
<1> QED
  BY <1>2, <1>3 DEF EmbedCurrent

-----------------------------------------------------------------------------
(* ModelCalls                                                               *)

\* A call that runs has used up at most AttemptTime for each attempt before
\* this one; an answer that was handed over had passed.
CallOk(s) ==
    /\ s.at = "waiting" => s.kind \in Caller
    /\ s.at = "calling" =>
         /\ s.n <= Model!Budget(s.kind)
         /\ s.elapsed <= (s.n - 1) * AttemptTime + s.clock
    /\ s.at = "answered" =>
         \E a \in Model!Answers(s.kind), p \in {"groq", "gemini"} :
           /\ Model!Passes(s.kind, a)
           /\ s = [at |-> "answered", kind |-> s.kind, provider |-> p,
                   answer |-> Model!Returned(s.kind, a)]

\* What a call may hold.
CallType(s) ==
    s \in {Model!Idle} \cup Model!Waiting \cup Model!Calling \cup Model!Over \/ Model!Answered(s)

CallsInv ==
    /\ DOMAIN call = Request /\ call = [c \in Request |-> call[c]]
    /\ \A c \in Request : CallType(call[c]) /\ CallOk(call[c])

-----------------------------------------------------------------------------
(* Kinds of calls, and their states.                                        *)

\* One provider or two, two attempts each.
LEMMA BudgetFacts ==
    ASSUME NEW k
    PROVE  /\ Model!Budget(k) = IF k \in {"duplicates", "embed"} THEN 2 ELSE 4
           /\ \A n \in 1 .. Model!Budget(k) : Model!ProviderOf(k, n) \in {"groq", "gemini"}
<1>1. /\ Cardinality(1 .. 1) = 1 - 1 + 1 /\ Cardinality(1 .. 2) = 2 - 1 + 1
  <2>1. /\ Cardinality(1 .. 1) = IF 1 > 1 THEN 0 ELSE 1 - 1 + 1
        /\ Cardinality(1 .. 2) = IF 1 > 2 THEN 0 ELSE 2 - 1 + 1
    BY FS_Interval, 1 \in Int, 2 \in Int
  <2> QED
    BY <2>1
<1>2. Model!Cardinality(1 .. 1) = 1 /\ Model!Cardinality(1 .. 2) = 2
  BY <1>1 DEF Model!Cardinality, Cardinality
<1>3. Model!Budget(k) = IF k \in {"duplicates", "embed"} THEN 2 ELSE 4
  <2>1. CASE k \in {"duplicates", "embed"}
    <3>1. DOMAIN Model!Providers(k) = 1 .. 1
      BY <2>1 DEF Model!Providers
    <3> QED
      BY <1>2, <2>1, <3>1 DEF Model!Budget, Model!MaxAttempts
  <2>2. CASE k \notin {"duplicates", "embed"}
    <3>1. DOMAIN Model!Providers(k) = 1 .. 2
      BY <2>2 DEF Model!Providers
    <3> QED
      BY <1>2, <2>2, <3>1 DEF Model!Budget, Model!MaxAttempts
  <2> QED
    BY <2>1, <2>2
<1>4. ASSUME NEW n \in 1 .. Model!Budget(k) PROVE Model!ProviderOf(k, n) \in {"groq", "gemini"}
  <2>1. (n - 1) \div 2 + 1 \in 1 .. (IF k \in {"duplicates", "embed"} THEN 1 ELSE 2)
    BY <1>3, <1>4
  <2>2. Model!ProviderOf(k, n) = Model!Providers(k)[(n - 1) \div 2 + 1]
    BY DEF Model!ProviderOf, Model!MaxAttempts
  <2>3. CASE k \in {"duplicates", "embed"}
    <3>1. (n - 1) \div 2 + 1 = 1
      BY <2>1, <2>3
    <3> QED
      BY <2>2, <2>3, <3>1 DEF Model!Providers
  <2>4. CASE k \notin {"duplicates", "embed"}
    <3>1. (n - 1) \div 2 + 1 \in {1, 2}
      BY <2>1, <2>4
    <3> QED
      BY <2>2, <2>4, <3>1 DEF Model!Providers
  <2> QED
    BY <2>3, <2>4
<1> QED
  BY <1>3, <1>4

LEMMA CallFields ==
    ASSUME NEW s, CallType(s)
    PROVE  /\ s.at = "idle" \/ s.at = "waiting" \/ s.at = "calling" \/ s.at = "failed"
              \/ s.at = "refused" \/ s.at = "answered"
           /\ s.at = "waiting" => s \in Model!Waiting
           /\ s.at = "calling" => s \in Model!Calling
           /\ s.at = "answered" => Model!Answered(s)
BY DEF CallType, Model!Idle, Model!Waiting, Model!Calling, Model!Over, Model!Answered

\* A state without a call that runs or has answered.
LEMMA QuietOk ==
    ASSUME NEW s, s \in {Model!Idle} \cup Model!Waiting \cup Model!Over,
           s \in Model!Waiting => s.kind \in Caller
    PROVE  CallType(s) /\ CallOk(s)
BY DEF CallType, CallOk, Model!Idle, Model!Waiting, Model!Over

LEMMA CallingOk ==
    ASSUME NEW s \in Model!Calling, s.n <= Model!Budget(s.kind),
           s.elapsed <= (s.n - 1) * AttemptTime + s.clock
    PROVE  CallType(s) /\ CallOk(s)
BY DEF CallType, CallOk, Model!Calling
-----------------------------------------------------------------------------
(* The steps of a call.                                                     *)

LEMMA CallsInitHolds == ASSUME Model!Init PROVE CallsInv
<1>1. /\ DOMAIN call = Request /\ call = [c \in Request |-> call[c]]
      /\ \A c \in Request : call[c] = Model!Idle
  BY DEF Model!Init
<1>2. Model!Idle \notin Model!Waiting
  BY DEF Model!Idle, Model!Waiting
<1> QED
  BY <1>1, <1>2, QuietOk DEF CallsInv

LEMMA GotoKeeps ==
    ASSUME CallsInv, NEW c \in Request, NEW s, CallType(s), CallOk(s), Model!Goto(c, s)
    PROVE  CallsInv'
<1>1. /\ DOMAIN call' = Request /\ call' = [d \in Request |-> call'[d]]
      /\ call'[c] = s
      /\ \A d \in Request \ {c} : call'[d] = call[d]
  BY DEF CallsInv, Model!Goto
<1> QED
  BY <1>1 DEF CallsInv

\* The first attempt.
LEMMA StartKeeps ==
    ASSUME Model!InstanceOK, CallsInv, NEW c \in Request, NEW k \in Caller, Model!Start(c, k)
    PROVE  CallsInv'
<1> DEFINE s == [at |-> "calling", kind |-> k, n |-> 1, clock |-> 0, elapsed |-> 0]
<1>1. s \in Model!Calling
  BY DEF Model!Calling, Model!InstanceOK, Model!MaxAttempts
<1>2. Model!Goto(c, s)
  BY DEF Model!Start
<1>3. s.n = 1 /\ s.elapsed = 0 /\ s.clock = 0 /\ s.kind = k
  OBVIOUS
<1> HIDE DEF s
<1>4. s.n <= Model!Budget(s.kind)
  BY <1>3, BudgetFacts
<1>5. s.elapsed <= (s.n - 1) * AttemptTime + s.clock
  BY <1>3 DEF Model!InstanceOK
<1> QED
  BY <1>1, <1>2, <1>4, <1>5, CallingOk, GotoKeeps

\* Attempts of a time each.
LEMMA Attempts ==
    ASSUME NEW n \in 1 .. 4, NEW a \in Nat
    PROVE  /\ (n - 1) * a \in Nat /\ n * a \in Nat
           /\ (n - 1) * a + a = n * a
           /\ \A b \in {2, 4} : n <= b => n * a <= a * b
           /\ n * a <= 4 * a
<1>1. n = 1 \/ n = 2 \/ n = 3 \/ n = 4
  OBVIOUS
<1> QED
  BY <1>1

\* The fields of a call that runs, and the time it may have used up.
LEMMA CallingFields ==
    ASSUME Model!InstanceOK, NEW s \in Model!Calling, CallOk(s)
    PROVE  /\ s.at = "calling" /\ s.kind \in Caller
           /\ s.n \in 1 .. 4 /\ s.n <= Model!Budget(s.kind)
           /\ Model!Budget(s.kind) \in {2, 4}
           /\ s.clock \in Nat /\ s.clock <= AttemptTime
           /\ s.elapsed \in Nat
           /\ s.elapsed <= (s.n - 1) * AttemptTime + s.clock
           /\ s.elapsed <= s.n * AttemptTime
           /\ AttemptTime \in Nat
<1>1. /\ s.at = "calling" /\ s.kind \in Caller
      /\ s.n \in 1 .. 4 /\ s.clock \in 0 .. AttemptTime /\ s.elapsed \in 0 .. 4 * AttemptTime
  BY DEF Model!Calling, Model!MaxAttempts
<1>2. /\ s.n <= Model!Budget(s.kind)
      /\ s.elapsed <= (s.n - 1) * AttemptTime + s.clock
  BY <1>1 DEF CallOk
<1>3. Model!Budget(s.kind) \in {2, 4}
  BY BudgetFacts
<1>4. AttemptTime \in Nat /\ 4 * AttemptTime \in Nat
  BY DEF Model!InstanceOK
<1>5. s.clock \in Nat /\ s.clock <= AttemptTime /\ s.elapsed \in Nat
  BY <1>1, <1>4
<1>6. /\ (s.n - 1) * AttemptTime \in Nat /\ s.n * AttemptTime \in Nat
      /\ (s.n - 1) * AttemptTime + AttemptTime = s.n * AttemptTime
  BY <1>1, <1>4, Attempts
<1>7. s.elapsed <= s.n * AttemptTime
  BY <1>2, <1>4, <1>5, <1>6
<1> QED
  BY <1>1, <1>2, <1>3, <1>4, <1>5, <1>7

\* The record of a call that runs.
LEMMA CallingType ==
    ASSUME Model!InstanceOK, NEW k \in Caller, NEW n \in 1 .. 4, NEW t \in Nat, t <= AttemptTime,
           NEW e \in Nat, e <= n * AttemptTime
    PROVE  [at |-> "calling", kind |-> k, n |-> n, clock |-> t, elapsed |-> e] \in Model!Calling
<1>1. AttemptTime \in Nat /\ 4 * AttemptTime \in Nat /\ n * AttemptTime \in Nat
  BY Attempts DEF Model!InstanceOK
<1>2. n * AttemptTime <= 4 * AttemptTime
  BY <1>1, Attempts
<1>3. e \in 0 .. 4 * AttemptTime /\ t \in 0 .. AttemptTime
  BY <1>1, <1>2
<1>4. 2 * Model!MaxAttempts = 4
  BY DEF Model!MaxAttempts
<1> QED
  BY <1>3, <1>4 DEF Model!Calling

LEMMA NextAttemptKeeps ==
    ASSUME Model!InstanceOK, CallsInv, NEW c \in Request, call[c].at = "calling",
           Model!NextAttempt(c)
    PROVE  CallsInv'
<1> DEFINE s == call[c]
           u == [s EXCEPT !.n = @ + 1, !.clock = 0]
           f == [at |-> "failed", kind |-> s.kind]
<1>1. s \in Model!Calling /\ CallOk(s)
  BY CallFields DEF CallsInv
<1>2. IF s.n < Model!Budget(s.kind) THEN Model!Goto(c, u) ELSE Model!Goto(c, f)
  BY DEF Model!NextAttempt
<1> HIDE DEF s
<1>3. u = [s EXCEPT !.n = @ + 1, !.clock = 0]
  OBVIOUS
<1>4. s.kind \in Caller /\ s.n \in 1 .. 4
  BY <1>1, CallingFields
<1>5. CASE s.n < Model!Budget(s.kind)
  <2> HIDE DEF u
  <2>1. /\ u = [at |-> "calling", kind |-> s.kind, n |-> s.n + 1, clock |-> 0,
                 elapsed |-> s.elapsed]
        /\ u.n = s.n + 1 /\ u.clock = 0 /\ u.elapsed = s.elapsed /\ u.kind = s.kind
    BY <1>1, <1>3 DEF Model!Calling
  <2>2. s.n + 1 \in 1 .. 4 /\ s.n + 1 <= Model!Budget(s.kind) /\ (s.n + 1) - 1 = s.n
    BY <1>1, <1>5, CallingFields
  <2>3. /\ s.elapsed \in Nat /\ s.elapsed <= s.n * AttemptTime /\ AttemptTime \in Nat
        /\ s.n \in 1 .. 4
    BY <1>1, CallingFields
  <2>4. s.n * AttemptTime \in Nat /\ (s.n + 1) * AttemptTime \in Nat
        /\ s.n * AttemptTime + AttemptTime = (s.n + 1) * AttemptTime
    BY <2>2, <2>3, Attempts
  <2>5. u \in Model!Calling
    <3>1. s.elapsed <= (s.n + 1) * AttemptTime /\ 0 <= AttemptTime
      BY <2>3, <2>4
    <3> QED
      BY <1>4, <2>1, <2>2, <2>3, <3>1, CallingType
  <2>6. u.elapsed <= (u.n - 1) * AttemptTime + u.clock
    BY <2>1, <2>2, <2>3, <2>4
  <2> QED
    BY <1>2, <1>5, <2>1, <2>2, <2>5, <2>6, CallingOk, GotoKeeps
<1>6. CASE ~(s.n < Model!Budget(s.kind))
  <2>1. f \in Model!Over /\ f \notin Model!Waiting
    BY <1>4 DEF Model!Over, Model!Waiting
  <2> QED
    BY <1>2, <1>6, <2>1, QuietOk, GotoKeeps
<1> QED
  BY <1>5, <1>6

LEMMA AnswerKeeps ==
    ASSUME Model!InstanceOK, CallsInv, NEW c \in Request, Model!Answer(c)
    PROVE  CallsInv'
<1> DEFINE s == call[c]
<1>1. s \in Model!Calling /\ CallOk(s) /\ s.at = "calling"
  BY CallFields DEF CallsInv, Model!Answer, Model!Is
<1>2. PICK a \in Model!Answers(s.kind) :
        IF Model!Passes(s.kind, a)
        THEN Model!Goto(c, [at |-> "answered", kind |-> s.kind,
                            provider |-> Model!ProviderOf(s.kind, s.n),
                            answer |-> Model!Returned(s.kind, a)])
        ELSE Model!NextAttempt(c)
  BY DEF Model!Answer
<1>3. CASE ~Model!Passes(s.kind, a)
  BY <1>1, <1>2, <1>3, NextAttemptKeeps
<1>4. CASE Model!Passes(s.kind, a)
  <2> HIDE DEF s
  <2> DEFINE p == Model!ProviderOf(s.kind, s.n)
             u == [at |-> "answered", kind |-> s.kind, provider |-> p,
                   answer |-> Model!Returned(s.kind, a)]
  <2>1. s.kind \in Caller /\ s.n \in 1 .. Model!Budget(s.kind)
    BY <1>1, CallingFields
  <2>2. p \in {"groq", "gemini"}
    BY <2>1, BudgetFacts
  <2> HIDE DEF p
  <2>3. u.at = "answered" /\ u.kind = s.kind
    OBVIOUS
  <2>4. CallType(u) /\ CallOk(u)
    BY <1>4, <2>1, <2>2, <2>3 DEF CallType, CallOk, Model!Answered
  <2>5. Model!Goto(c, u)
    BY <1>2, <1>4 DEF p
  <2> QED
    BY <2>4, <2>5, GotoKeeps
<1> QED
  BY <1>3, <1>4

\* Time passes for the calls that run and those that wait.
LEMMA TickKeeps == ASSUME Model!InstanceOK, CallsInv, Model!Tick PROVE CallsInv'
<1>1. \A c \in Request : call'[c] =
           CASE Model!Is(c, "calling") ->
                  [call[c] EXCEPT !.clock = @ + 1, !.elapsed = @ + 1]
             [] Model!Is(c, "waiting") -> [call[c] EXCEPT !.clock = @ + 1]
             [] OTHER -> call[c]
  BY DEF Model!Tick
<1>2. DOMAIN call' = Request /\ call' = [c \in Request |-> call'[c]]
  <2> DEFINE later(c) == CASE Model!Is(c, "calling") ->
                                [call[c] EXCEPT !.clock = @ + 1, !.elapsed = @ + 1]
                           [] Model!Is(c, "waiting") -> [call[c] EXCEPT !.clock = @ + 1]
                           [] OTHER -> call[c]
  <2>1. call' = [c \in Request |-> later(c)]
    BY DEF Model!Tick
  <2> HIDE DEF later
  <2> QED
    BY <2>1
<1>3. ASSUME NEW c \in Request PROVE CallType(call'[c]) /\ CallOk(call'[c])
  <2> DEFINE s == call[c]
             u == call'[c]
  <2>1. CASE s.at = "calling"
    <3>1. /\ s \in Model!Calling /\ CallOk(s) /\ s.clock < AttemptTime
          /\ u = [s EXCEPT !.clock = @ + 1, !.elapsed = @ + 1]
      BY <1>1, <2>1, CallFields DEF CallsInv, Model!Tick, Model!Is
    <3> HIDE DEF s, u
    <3>2. /\ u.n = s.n /\ u.clock = s.clock + 1 /\ u.elapsed = s.elapsed + 1 /\ u.kind = s.kind
          /\ u = [at |-> "calling", kind |-> s.kind, n |-> s.n, clock |-> s.clock + 1,
                  elapsed |-> s.elapsed + 1]
      BY <3>1 DEF Model!Calling
    <3>3. /\ s.n \in 1 .. 4 /\ s.kind \in Caller /\ s.n <= Model!Budget(s.kind)
          /\ s.clock \in Nat /\ s.elapsed \in Nat /\ AttemptTime \in Nat
          /\ s.elapsed <= (s.n - 1) * AttemptTime + s.clock
      BY <3>1, CallingFields
    <3>4. /\ (s.n - 1) * AttemptTime \in Nat /\ s.n * AttemptTime \in Nat
          /\ (s.n - 1) * AttemptTime + AttemptTime = s.n * AttemptTime
      BY <3>3, Attempts
    <3>5. /\ s.clock + 1 \in Nat /\ s.clock + 1 <= AttemptTime
          /\ s.elapsed + 1 \in Nat /\ s.elapsed + 1 <= s.n * AttemptTime
      <4> DEFINE x == (s.n - 1) * AttemptTime
                 y == s.n * AttemptTime
      <4>1. /\ s.elapsed <= x + s.clock /\ x + AttemptTime = y
            /\ x \in Nat /\ y \in Nat
        BY <3>3, <3>4
      <4> HIDE DEF x, y
      <4>2. s.clock + 1 <= AttemptTime
        BY <3>1, <3>3
      <4>3. s.elapsed + 1 <= y
        BY <3>3, <4>1, <4>2
      <4> QED
        BY <3>3, <4>2, <4>3 DEF y
    <3>6. u \in Model!Calling
      BY <3>2, <3>3, <3>5, CallingType
    <3>7. u.n <= Model!Budget(u.kind) /\ u.elapsed <= (u.n - 1) * AttemptTime + u.clock
      BY <3>2, <3>3, <3>4
    <3>8. CallType(u) /\ CallOk(u)
      BY <3>6, <3>7, CallingOk
    <3> QED
      BY <3>8 DEF u
  <2>2. CASE s.at = "waiting"
    <3>1. /\ s \in Model!Waiting /\ s.kind \in Caller /\ s.clock < PoolTimeout
          /\ u = [s EXCEPT !.clock = @ + 1]
      BY <1>1, <2>2, CallFields DEF CallsInv, CallOk, Model!Tick, Model!Is
    <3> HIDE DEF s, u
    <3>2. u \in Model!Waiting /\ u.kind = s.kind
      BY <3>1 DEF Model!Waiting, Model!InstanceOK
    <3>3. CallType(u) /\ CallOk(u)
      BY <3>1, <3>2, QuietOk
    <3> QED
      BY <3>3 DEF u
  <2>3. CASE s.at # "calling" /\ s.at # "waiting"
    <3>1. u = s
      BY <1>1, <2>3 DEF Model!Is
    <3> QED
      BY <3>1 DEF CallsInv
  <2> QED
    BY <2>1, <2>2, <2>3
<1> QED
  BY <1>2, <1>3 DEF CallsInv

LEMMA CallsNextKeeps ==
    ASSUME Model!InstanceOK, CallsInv, [Model!Next]_call
    PROVE  CallsInv'
<1>1. ASSUME NEW c \in Request, Model!Ask(c) PROVE CallsInv'
  <2>1. PICK k \in Caller \cap Model!Requests :
          Model!Goto(c, [at |-> "waiting", kind |-> k, clock |-> 0])
    BY <1>1 DEF Model!Ask
  <2> DEFINE u == [at |-> "waiting", kind |-> k, clock |-> 0]
  <2>2. u \in Model!Waiting /\ u.kind \in Caller
    BY DEF Model!Waiting, Model!InstanceOK
  <2> QED
    BY <2>1, <2>2, QuietOk, GotoKeeps
<1>2. ASSUME NEW c \in Request, Model!Connect(c) PROVE CallsInv'
  <2>1. call[c].kind \in Caller
    BY <1>2 DEF CallsInv, CallOk, Model!Connect, Model!Is
  <2> QED
    BY <1>2, <2>1, StartKeeps DEF Model!Connect
<1>3. ASSUME NEW c \in Request, Model!GiveUp(c) PROVE CallsInv'
  <2> DEFINE u == [at |-> "refused", kind |-> call[c].kind]
  <2>1. call[c].kind \in Caller /\ Model!Goto(c, u)
    BY <1>3 DEF CallsInv, CallOk, Model!GiveUp, Model!Is
  <2>2. u \in Model!Over /\ u \notin Model!Waiting
    BY <2>1 DEF Model!Over, Model!Waiting
  <2> QED
    BY <2>1, <2>2, QuietOk, GotoKeeps
<1>4. ASSUME NEW c \in Request, Model!Deliver(c) PROVE CallsInv'
  BY <1>4, StartKeeps DEF Model!Deliver
<1>5. ASSUME NEW c \in Request, Model!AttemptFails(c) PROVE CallsInv'
  BY <1>5, NextAttemptKeeps DEF Model!AttemptFails, Model!Is
<1>6. ASSUME NEW c \in Request, Model!Finish(c) \/ Model!Crash(c) PROVE CallsInv'
  <2>1. Model!Goto(c, Model!Idle) /\ Model!Idle \notin Model!Waiting
    BY <1>6 DEF Model!Finish, Model!Crash, Model!Idle, Model!Waiting
  <2> QED
    BY <2>1, QuietOk, GotoKeeps
<1>7. CASE UNCHANGED call
  BY <1>7 DEF CallsInv
<1> QED
  BY <1>1, <1>2, <1>3, <1>4, <1>5, <1>6, <1>7, TickKeeps, AnswerKeeps DEF Model!Next

\* An answer that passed is one the caller can use.
LEMMA PassedFits ==
    ASSUME Model!InstanceOK, NEW k \in Caller, NEW a \in Model!Answers(k), Model!Passes(k, a)
    PROVE  LET b == Model!Returned(k, a)
           IN CASE k = "parse" -> (b.confident => Model!Creatable(b)) /\ Model!ShortLabels(b.labels)
                [] k = "triage" -> Model!ShortLabels(b.labels) /\ b.priority # None
                [] k = "review" -> b.categories = {"known"}
                [] k = "retro" -> b.narrative
                [] OTHER -> b.dims = Model!EmbedDimensions
<1> DEFINE b == Model!Returned(k, a)
           kept(l) == [count |-> Model!Kept(l), blank |-> 0,
                       longest |-> IF Model!Kept(l) = 0 THEN Model!MaxLabelLength ELSE l.longest]
<1>1. k \in {"parse", "triage", "review", "retro", "embed", "duplicates"}
  BY DEF Model!InstanceOK, Model!Requests, Model!Jobs
<1>2. ASSUME NEW l \in Model!Labels, Model!LabelsPass(l) PROVE Model!ShortLabels(kept(l))
  <2>1. Model!Kept(l) \in Nat
    BY DEF Model!Labels, Model!Kept, Model!MaxLabels
  <2>2. /\ kept(l).count = Model!Kept(l)
        /\ kept(l).longest = IF Model!Kept(l) = 0 THEN Model!MaxLabelLength ELSE l.longest
    OBVIOUS
  <2> HIDE DEF kept
  <2> QED
    BY <1>2, <2>1, <2>2 DEF Model!LabelsPass, Model!ShortLabels, Model!MaxLabelLength
<1>3. CASE k = "parse"
  <2>1. /\ a.labels \in Model!Labels /\ a.title \in Model!Title /\ Model!ParsePasses(a)
        /\ a.type \in {"story", "subtask", None}
        /\ b = [a EXCEPT !.labels = kept(a.labels)]
    BY <1>3 DEF Model!Answers, Model!Passes, Model!Returned
  <2>2. /\ b.labels = kept(a.labels) /\ b.title = a.title /\ b.type = a.type
        /\ b.confident = a.confident
    BY <1>3, <2>1 DEF Model!Answers
  <2> HIDE DEF b, kept
  <2>3. Model!ShortLabels(b.labels)
    BY <1>2, <2>1, <2>2 DEF Model!ParsePasses
  <2>4. ASSUME b.confident PROVE Model!Creatable(b)
    BY <2>1, <2>2, <2>4 DEF Model!ParsePasses, Model!Creatable, Model!Title, Model!MaxTitle
  <2> QED
    BY <1>3, <2>3, <2>4 DEF b
<1>4. CASE k = "triage"
  <2>1. /\ a.labels \in Model!Labels /\ Model!LabelsPass(a.labels) /\ a.priority # None
        /\ b = [a EXCEPT !.labels = kept(a.labels)]
    BY <1>4 DEF Model!Answers, Model!Passes, Model!Returned
  <2>2. b.labels = kept(a.labels) /\ b.priority = a.priority
    BY <1>4, <2>1 DEF Model!Answers
  <2> HIDE DEF b, kept
  <2>3. Model!ShortLabels(b.labels) /\ b.priority # None
    BY <1>2, <2>1, <2>2
  <2> QED
    BY <1>4, <2>3 DEF b
<1>5. CASE k = "review"
  BY <1>5 DEF Model!Answers, Model!Passes, Model!Returned
<1>6. CASE k = "retro"
  BY <1>6 DEF Model!Answers, Model!Passes, Model!Returned
<1>7. CASE k \in {"embed", "duplicates"}
  BY <1>7 DEF Model!Answers, Model!Passes, Model!Returned
<1> QED
  BY <1>1, <1>3, <1>4, <1>5, <1>6, <1>7

\* What the invariant says of the calls.
LEMMA CallsInvSound ==
    ASSUME Model!InstanceOK, CallsInv
    PROVE  Model!TypeOK /\ Model!SettlesInTime /\ Model!AnswerIsFit
<1>1. Model!TypeOK
  BY DEF CallsInv, CallType, Model!TypeOK
<1>2. ASSUME NEW c \in Request, call[c].at = "calling"
      PROVE  call[c].elapsed <= AttemptTime * Model!Budget(call[c].kind)
  <2> DEFINE s == call[c]
  <2>1. s \in Model!Calling /\ CallOk(s)
    BY <1>2, CallFields DEF CallsInv
  <2> HIDE DEF s
  <2>2. /\ s.elapsed <= s.n * AttemptTime /\ s.n \in 1 .. 4 /\ s.elapsed \in Nat
        /\ Model!Budget(s.kind) \in {2, 4} /\ s.n <= Model!Budget(s.kind) /\ AttemptTime \in Nat
    BY <2>1, CallingFields
  <2> DEFINE b == Model!Budget(s.kind)
  <2> HIDE DEF b
  <2>3. b \in {2, 4} /\ s.n <= b
    BY <2>2 DEF b
  <2>4. s.n * AttemptTime <= AttemptTime * b /\ s.n * AttemptTime \in Nat /\ AttemptTime * b \in Nat
    BY <2>2, <2>3, Attempts
  <2>5. s.elapsed <= AttemptTime * b
    BY <2>2, <2>4
  <2> QED
    BY <2>5 DEF b, s
<1>3. ASSUME NEW c \in Request, call[c].at = "answered"
      PROVE  LET a == call[c].answer
             IN CASE call[c].kind = "parse" ->
                       (a.confident => Model!Creatable(a)) /\ Model!ShortLabels(a.labels)
                  [] call[c].kind = "triage" -> Model!ShortLabels(a.labels) /\ a.priority # None
                  [] call[c].kind = "review" -> a.categories = {"known"}
                  [] call[c].kind = "retro" -> a.narrative
                  [] OTHER -> a.dims = Model!EmbedDimensions
  <2> DEFINE s == call[c]
  <2>1. s.kind \in Caller
    BY <1>3, CallFields DEF CallsInv, Model!Answered
  <2>2. PICK a \in Model!Answers(s.kind) :
          Model!Passes(s.kind, a) /\ s.answer = Model!Returned(s.kind, a)
    BY <1>3 DEF CallsInv, CallOk
  <2> QED
    BY <2>1, <2>2, PassedFits
<1> QED
  BY <1>1, <1>2, <1>3 DEF Model!SettlesInTime, Model!AnswerIsFit, Model!Is

-----------------------------------------------------------------------------
(* The two side by side.                                                    *)

PartsNext == EnrichMoves \/ CallsMove
PartsInv == JobsInv /\ CallsInv

\* A step of the two is a step, or none, of each.
LEMMA PartsSteps == [PartsNext]_<<part, call, vars>> => [Next]_vars /\ [Model!Next]_call
BY DEF PartsNext, EnrichMoves, CallsMove

LEMMA PartsInvHolds == ASSUME Model!InstanceOK PROVE PartsSpec => []PartsInv
<1>1. PartsInit => PartsInv
  BY JobsInitHolds, CallsInitHolds DEF PartsInit, PartsInv
<1>2. PartsInv /\ [PartsNext]_<<part, call, vars>> => PartsInv'
  BY PartsSteps, JobsNextKeeps, CallsNextKeeps DEF PartsInv
<1> QED
  BY <1>1, <1>2, PTL DEF PartsSpec, PartsNext

\* The variables of both modules always have their types.
THEOREM ModelsTypes == ASSUME Model!InstanceOK PROVE PartsSpec => []TypesOK
<1>1. PartsInv => TypesOK
  BY CallsInvSound DEF PartsInv, JobsInv, TypesOK
<1> QED
  BY <1>1, PartsInvHolds, PTL

\* For any number of requests and workers, whatever dies between two steps: a
\* ticket whose triage or review is on 'pending' has a job that is still to be
\* answered, unless the last one was lost between the commit and the publish or
\* the second gate dropped it. tickets.py:382-414 and :671-714, worker/main.py:208-385.
THEOREM PendingHasJobHolds ==
    ASSUME Model!InstanceOK PROVE PartsSpec => []PendingHasJob
<1>1. PartsInv => PendingHasJob
  BY JobsInvSound DEF PartsInv
<1> QED
  BY <1>1, PartsInvHolds, PTL

\* While no two workers embed the ticket at once, for any number of requests
\* and workers: when no embed job is left and the last one was not lost and did
\* not fail, the vector is that of the current text, whatever order the edits
\* committed and published in. tickets.py:399-414 and :712-714,
\* worker/main.py:274-311.
THEOREM EmbedCurrentHolds ==
    ASSUME Model!InstanceOK, EmbedFollowed
    PROVE  PartsSpec /\ []EmbedsApart => []EmbedCurrent
<1>1. PartsInit => EmbedInv
  BY JobsInitHolds DEF PartsInit
<1>2. EmbedsApart /\ EmbedsApart' /\ PartsInv /\ EmbedInv /\ [PartsNext]_<<part, call, vars>>
        => EmbedInv'
  BY PartsSteps, JobsNextKeeps DEF PartsInv, StepApart
<1>3. PartsInv /\ EmbedInv => EmbedCurrent
  BY JobsInvSound DEF PartsInv
<1> QED
  BY <1>1, <1>2, <1>3, PartsInvHolds, PTL DEF PartsSpec, PartsNext

\* For any number of calls and any limits, with providers that hang at every
\* attempt: a call is over after AttemptTime for each attempt of its budget.
\* llm_client.py:36-46, ticket_embedding.py:72-80.
THEOREM SettlesInTimeHolds ==
    ASSUME Model!InstanceOK PROVE PartsSpec => []SettlesInTime
<1>1. PartsInv => SettlesInTime
  BY CallsInvSound DEF PartsInv, SettlesInTime
<1> QED
  BY <1>1, PartsInvHolds, PTL

\* Whichever provider and attempt an answer is from, what the caller is handed
\* is within the limits of the rows and requests it is used for.
\* schemas/ticket.py:9-29, tickets.py:164-200.
THEOREM AnswerIsFitHolds ==
    ASSUME Model!InstanceOK PROVE PartsSpec => []AnswerIsFit
<1>1. PartsInv => AnswerIsFit
  BY CallsInvSound DEF PartsInv, AnswerIsFit
<1> QED
  BY <1>1, PartsInvHolds, PTL
=============================================================================
