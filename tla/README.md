# Wrkbase: specification and verification

Wrkbase is a multi-tenant project tracker: a FastAPI service over Postgres
(row-level security, READ COMMITTED), Redis (refresh tokens, WebSocket tickets,
publish/subscribe), RabbitMQ with a worker that calls language models, and a
Next.js board. This directory holds TLA+ modules for the parts of it where
requests, jobs and consumers interleave, the TLC configurations that check them
on small instances, and proofs, checked by TLAPS, of what the core guarantees
for any number of sprints, tickets, requests and workers.

Paths below are relative to `src/apps/api/`.

## 1. The system

| component | state | operations | where |
|---|---|---|---|
| sprints | status, returned snapshot, retro columns | create, update, delete, start, complete, regenerate, assign | `app/api/sprints.py` |
| tickets | type, parent, column, position, sprint, assignee, number, `deleted_at` | create, patch, delete, restore, tree, backlog, duplicates, parse | `app/api/tickets.py` |
| workflow states | name, order, default flag | create, update, delete | `app/api/workflow_states.py` |
| enrichment | triage, embedding and AppSec columns of a ticket | the keyword gate in the request; jobs in the worker | `app/api/tickets.py`, `worker/main.py`, `app/services/` |
| job queues | four durable queues, unacked deliveries | publish, deliver, ack, nack, redeliver | `app/services/queue.py`, `worker/main.py` |
| membership | users and their roles, invites | invite, regenerate, revoke, redeem, change role, remove | `app/api/org.py`, `app/api/invites.py`, `app/api/auth.py` |
| sessions | refresh tokens and their index in Redis | issue, rotate, revoke one, revoke all | `app/services/refresh_tokens.py`, `app/api/auth.py` |
| live board | Redis channels, WebSocket connections, client state | publish, forward, fetch, apply | `app/api/ws.py`, `app/services/ticket_events.py`, `apps/web` |
| notifications | rows, Redis channel, the bell of a page | create with the change, publish, list, count, mark | `app/services/notifications.py`, `app/api/notifications.py`, `apps/web` |
| verification links | `used_at`, `expires_at` | issue, resend, confirm | `app/api/auth.py` |
| socket tickets and rooms | keys in Redis, open connections with a timer each | issue, redeem, accept, expire | `app/services/ws_tickets.py`, `app/api/ws.py` |
| projects, roles | rows with creator and `deleted_at`, role claims in access tokens | CRUD, restore, ownership checks | `app/api/projects.py`, `app/api/deps.py` |
| tenant settings | two settings of each pooled connection | set, query under the policies, commit | `app/db/session.py`, migrations 0003, 0015, 0016 |
| LLM calls | attempts, the connection held meanwhile | two providers, two attempts each, validation | `app/services/llm_client.py`, `ticket_embedding.py`, `ticket_parse.py` |
| plan of a sprint | days left, age of rows | at-risk marks, counts, points | `app/services/at_risk.py`, `sprint_retro_context.py` |

How they interact. A request loads rows with SELECTs, checks them, and writes at
its flush, usually inside `commit()`; nothing is locked in between, so another
request's commit can fall between any two of its statements. Constraints in
Postgres (partial unique indexes, composite foreign keys) are the only checks
made at write time. After the commit the handler publishes: jobs to RabbitMQ
and board events to Redis. A crash in between leaves the commit without its
message. The worker delivers at least once: a job is acked after its outcome is
committed, and comes back when the process dies before the ack. The worker reads
the row, waits up to tens of seconds for a model, and then writes to a row that
may have changed meanwhile.

What makes each component correct, in one line each:

- sprints: one active sprint in a project; a completed sprint stays completed
  and its snapshot and what stays on it add up to what was on it;
- enrichment: a status on `pending` has a job behind it; the stored vector is
  that of the current text; a security flag is not lost;
- tickets: numbers are unique and without gaps; a subtask hangs under a story or
  a task; nobody deletes a ticket under its live children; every live ticket is
  in the tree;
- workflow states: a project has at most one default column, and every ticket's
  column exists;
- membership: an organisation never loses its last admin; an invite is accepted
  exactly when its user exists;
- sessions: a token is rotated once; once all are revoked none of them works
  again; a removed user gets nothing new;
- board: a client that saw every event shows what the database holds;
- notifications: who becomes the assignee is told in the same commit, and nobody
  of what was not committed;
- links, tickets, rooms: one link works at a time, one handshake for a ticket,
  and every right ends within the lifetimes added up, with what the requests on
  the way take;
- roles and projects: a role that was taken away is of no use after a known
  time, and a deleted project's tickets are left alone;
- tenants: a query is told rows of its own organisation only, and before its
  handler commits it is told them;
- models: a call ends in time, and an accepted answer fits what is done with it;
- plan: marks, counts and points of a sprint belong together from day to day.

The hard behaviours are the same everywhere: a check made on a row read earlier
(most of the API), a write that carries a whole value computed from such a row
(flags, positions, status), two stores that are not updated together (Postgres
with RabbitMQ, with Redis, or with a browser), and work that outlives the state
it was started for (jobs, sockets, tokens). `PROJECT.json` lists each one at its
line under "hazards", with the properties that cover it.

## 2. Modules

A module is one component; its actions are the database statements, calls and
deliveries of the handlers, named after the operation. A request in progress is
a record (`req[r]`, `requests[r]`) whose `at` or `step` field names the step it
has reached and whose other fields are what its local variables hold. A check
that fails ends a handler with an HTTP error and no change, so it is no step:
the guard is simply false. `Crash(r)` ends a request at any step, which is a
process that dies as well as a rollback.

| module | code | state | actions |
|---|---|---|---|
| `SprintLifecycle` | `app/api/sprints.py`, sprint and deletion handling of `app/api/tickets.py`, the retro job of `worker/main.py`, `app/services/queue.py` | rows of sprints (status, snapshot, retro columns) and tickets (sprint, done, deleted), the retro queue, the jobs in hand | create, start, complete (four statements), regenerate, remove, assign, ticket create/patch/trash/restore, `Publish`, worker take/write/ack/requeue |
| `ActiveSlot` | the promise of the partial unique index `uq_sprints_active_per_project` | the active sprint, or none | take and leave the slot |
| `Enrichment` | keyword gate and publishing in `app/api/tickets.py`, three consumers of `worker/main.py` | the ticket's text, flags, statuses, vector; three queues | create, PATCH (read, commit), publish, worker take/write/ack/requeue |
| `Membership` | `app/api/org.py`, `app/api/invites.py`, redemption in `app/api/auth.py` | users, invites, role claims in live access tokens | role change and removal (read, count, commit), invite create/regenerate/revoke/redeem |
| `Board` | `app/api/workflow_states.py`, numbers and columns in `app/api/tickets.py` | columns with their default flag, tickets, the counter, row locks | ticket create (read, take number, commit), move, column create/update (read, clear, commit), column removal |
| `LiveBoard` | ticket PATCH, `app/services/ticket_events.py`, `app/api/ws.py`, `apps/web` board page | the database's board, what each page shows, its fetch, its socket and what is on its way there | drag, PATCH (read, commit, publish), fetch, subscribe, close, receive |
| `Sessions` | `app/services/refresh_tokens.py`, login, refresh, logout, password reset in `app/api/auth.py`, removal in `app/api/org.py` | keys and index in Redis, reset links, the user row | one action per Redis call, SELECT and commit |
| `Planning` | `app/services/at_risk.py`, totals in `app/api/sprints.py`, `app/services/sprint_retro_context.py` | one sprint with its days left, tickets with their age in days | PATCH, delete/restore, worker write, end date, start, complete, midnight |
| `TicketTree` | types, parents, deletion, restore and `GET /tree` in `app/api/tickets.py` | type, parent and `deleted_at` of tickets | each handler's read and commit |
| `Notifications` | `app/services/notifications.py`, `app/api/notifications.py`, assignment, redemption, removal, the bell of `apps/web` | one recipient: its rows, ticket, membership; what each page of it shows | assign (read, commit), redeem, remove, publish, socket, fetches, marks |
| `Verification` | sign-up, resend, confirm in `app/api/auth.py` | the user row, verification links | issue (sweep, insert), verify (read, commit), expiry |
| `Rooms` | `app/services/ws_tickets.py`, `app/api/ws.py` | clocks of logins, the token, tickets, handshakes and rooms of one user | login or refresh (read, issue), ticket (ask, store), GETDEL, check, accept, expire, `Tick` |
| `Authority` | `app/api/deps.py`, ownership checks, `app/api/projects.py`, `app/api/org.py` | one user's role and claims, a project and a ticket with their creators | login, role change, removal, ten operations (read, commit), `Tick` |
| `Tenancy` | `app/db/session.py`, `app/api/deps.py`, the policies of migrations 0003, 0015, 0016 | settings of pooled connections, a handler's place in its statements | one action per sort of statement |
| `ModelCalls` | `app/services/llm_client.py`, `ticket_embedding.py`, and the answers' validators | calls with attempts, clocks and answers; the pool | ask, connect, deliver, answer, fail, `Tick` |

`SprintLifecycle` includes the tickets and the worker because completion,
assignment and the retro job only go wrong together. `SprintLifecycle`
implements `ActiveSlot` under the mapping `Slot` (the set of active sprints).
`Board` and `LiveBoard` share the column of a ticket: `Board` says which values
the database may hold, `LiveBoard` how they reach a page; `Notifications` is the
same for a bell. `Authority` says who may begin an operation and for how long,
the modules of the tables what operations under way do to each other; `Rooms`
says how long a channel of `LiveBoard` or `Notifications` stays open. `Planning`
takes whole requests, `SprintLifecycle` their statements.

`MC*` modules hold the instances for TLC: constants, symmetry, and the names
the configurations use. Several of them put modules side by side that share no
variable and ask questions of the same kind. Their product would be
the product of the state counts and show nothing more, so an execution runs one
of them: the variable `part`, chosen in the initial state, says which, and the
others stay where they start. A property of such a run is a module's property
where `part` is that module's. `*Proofs` modules hold the theorems; one that
proves about modules side by side extends the `MC` module that puts them there,
leaves its constants open, and speaks of the formulas the run checks.

The definitions named `Fault...` are not part of the specifications: each is a
plausible mistake in the definition beside it, and the list "mutants" in
`PROJECT.json` says which property must notice it.

### What is abstracted

- **All modules**: ids come from bounded sets and are used for one row only. A
  model value stands for any text, name or hash. The caller is authorised
  unless the module is about that.
- **SprintLifecycle**: one project. Its columns other than the sprint, and the
  renaming of a sprint, are left out. `complete_sprint` is taken to write its
  retro columns always. The queue is a count per sprint and at most `MaxQueued`
  deep: a handler that publishes begins only below the bound.
- **Enrichment**: one ticket. Title and description are one value. A PATCH
  writes the columns that differ from the loaded ones, as the ORM does; the
  embedding is always written. `Kind` chooses the queues a run follows.
  `missed` names the queues whose last job was lost or ended without an answer.
- **Membership**: a viewer behaves as a member. `claims` keeps every role a
  live token may carry, so it over-approximates the tokens' lifetime. Refresh
  tokens are in `Sessions`. `RoleRequest` is the slice of requests that change
  roles.
- **Board**: one project stands for the organisation's tickets. Positions are
  left out. An UPDATE locks its rows in one step; a deadlock among them ends in
  an abort, which is `Crash`. `ConfigRequest` is the slice of requests that
  configure columns.
- **LiveBoard**: a ticket is its column. A page has one fetch in flight.
  `missed` and `gap` record that an event passed a page by or was overwritten
  by an older fetch: pages have no way of finding out. `Handles`, `MayMove` and
  `Live` slice the requests, the drags and the sockets.
- **Sessions**: one user. The lifetime of a key ends at any moment, that of the
  index only after the keys it had when it was last renewed. `dropped` records
  the tokens the index lost to a deletion or to its own expiry: a revocation
  that deletes the index also loses what a login added after the revocation
  read it, and those tokens survive the next revocation.

- **Planning**: one sprint, and days counted as far as the rules tell them
  apart: `days_remaining` from -1 to 3, ages up to `STALE_DAYS_THRESHOLD`, which
  is when the rows' `updated_at`, set by a trigger, counts as stale. Midnight is
  the same moment for both.
- **TicketTree**: the SELECTs of one handler are one step. `Retype` and
  `Reparent` are the slices of tickets whose type or parent PATCHes change;
  `overtaken` records the deletions that another commit has passed.
- **Notifications**: one recipient and one ticket. The list has one page. A page
  either uses "mark all" or does not (`sweeps`).
- **Verification**: one user. `Issuer` is the slice of requests that issue
  links, one of them in the runs. A used link includes those that were swept.
- **Rooms**, **Authority**: time is a number that `Tick` counts; clocks stop
  beyond the times that the properties mention. `HandshakeTime`, `AuthTime` and
  `RequestTime` are the longest a request is assumed to take between its check
  and its effect: the code has no such bound, so what the properties say is
  relative to it. In the run the last two are `GrantTime` and `AskTime` for
  `Rooms`, with values of their own. `Authority` follows requests only: what the
  worker writes to a ticket whose project is deleted is not in it.
- **Tenancy**: a handler is a script of statements of the sorts that the
  policies tell apart. Policies that a statement must pass are those of the
  migrations; each connection may have any history.
- **ModelCalls**: an answer is its lengths and flags at the boundaries of the
  validators. `PoolTimeout` and `AttemptTime` are in units of `Tick`.

## 3. Runs

| run | instance | states | shows |
|---|---|---|---|
| `Sprints` | 2 sprints, 1 ticket, 2 requests, no worker; or 1 sprint of 3 days with 2 tickets | 494 991 | `RowsAgree`, `FinishedWorkStays` and the refinement of `ActiveSlot`, whatever two requests interleave; `RiskOutlivesTheDay`, `CountIsOfMarks`, `CompletionKeepsPoints` |
| `Worker` | 1 sprint, 2 tickets, or 3 texts and 2 categories; 1 request, 1 worker, fair | 73 195 | one request at a time: `SnapshotIsReturned`, `NothingTakenBack`, and every queued retro, triage and review settles |
| `Models` | 3 texts, 2 categories, 2 requests, 1 worker, embed and AppSec; or 2 calls of 6 callers on 1 connection | 1 495 421 | `PendingHasJob`, `EmbedCurrent`; `SettlesInTime`, `AnswerIsFit` |
| `Members` | 3 users, 2 addresses, 2 invites, 2 requests, one of them for roles; or 2 notifications, 2 requests, a bell with a page of 1 | 1 522 854 | `AdminExists`, `JoinAcceptsInvite`; `BellTellsTruth`, `AssignedIsTold` |
| `Tickets` | 3 columns (2 seeded), 2 tickets, 3 requests, one for columns; or a tree of 3 tickets, 2 requests, one ticket of which is retyped and re-parented | 431 702 | `BoardSound`; `TreeShowsRest`, `SettledSubtaskRule`, `LostOnlyByReparentOrRestore`, `NoOrphanByDelete` |
| `Access` | 3 tokens, 1 reset link, 2 requests; 3 verification links, 3 requests, one of which issues; 1 login, 2 tickets, 2 sockets; 2 connections, 2 requests of 7 kinds, 3 users of 2 organisations; 1 user, 1 project, 1 ticket | 1 282 815 | `RotatedOnce`, `RevocationKills`, `RemovedGetsNothing`; `LinksSound`; `RoomsSound`; `OnlyOwnRows`, `StatementsSucceed`; `StaleRoleEnds`, `CreatorExists`, `HiddenProjectIsStill` |
| `LiveFollow` | a moving and a following page, 2 tickets, 2 columns, 2 moves, 1 refetch, fair | 330 896 | `FollowerCurrent`, `FollowerCatchesUp` |
| `SprintReopen` | 1 sprint, 2 requests | violation | `NoReopen` fails: a start that read *planned* commits after start and complete |
| `EnrichFlags` | 2 requests, AppSec | violation | `FlagsGrow` fails: a PATCH writes the list it computed from an older row |
| `MembersLastAdmin` | both requests for roles | violation | `AdminExists` fails: both count two admins |
| `TotalsAfterCommit` | 2 connections, 2 requests | violation | `TotalsSeeTickets` fails: the query after the commit has no tenant setting |
| `RemovalNotBlocked` | 1 notification, 1 request | violation | an assigned member cannot be removed: the foreign key's `SET NULL` includes `org_id` |

`TypesOK` is the conjunction of the type invariants of a run's modules; that of
`LiveBoard` is proved and not run.

**Why these bounds.** What goes wrong in this code takes two requests, one of
which stopped between a read and its write; the third actor is a consumer or a
page. Two sprints are what one active slot needs. Two tickets let a completion
return one and keep one. Three texts let an edit raise a flag, add another, and
drop both. Two texts in two jobs are what overtaking needs. A third user lets an
invited one join while the admins change. Three columns let a column that is
neither the old nor the new default exist, and be removed. Three tokens allow
two rotations in a row while a revocation runs. Two tickets in a sprint let
the count and the marks differ by one. Three tickets are a parent, a child and
a third that closes a cycle of two or three. Two notifications and a page of one
let a list, an event and a mark disagree, and push an item off the page. Every
lifetime is one unit at least, and that of a room's token two. A login and a
request for a ticket take up to three, long enough for the run to notice a bound
in `RoomsSound` that forgets one of them: a token and a ticket are used before
their last unit is over, which takes two units off what a run can reach. Two connections let a
transaction get one with another organisation's history. One connection of the
pool and two calls make one wait. The queues hold one job of a
kind besides those in hand; a second one would carry the same message, since a
job carries no more than an id.

**The violations** are disagreements between the code and what the repository
says of it (quoted under "findings"). Each is limited by a companion run or
theorem that shows what does hold: nothing is reopened and flags only grow where
starts, and edits, do not overlap; an admin remains where role changes do not;
every query but that one finds its rows (`StatementsSucceed`); and a member without tickets leaves nothing behind
(`BellTellsTruth`).

**Deadlock** is checked except where the system may come to rest: no token is
left to issue (`Access`), the moves are used up (`LiveFollow`), or the only
sprint is completed (`SprintReopen`).

## 4. Fairness

Liveness is claimed only under `FairSpec` of `LiveBoard` and under `PartsFairSpec`
of `MCWorker`, which asks of each part what `SprintLifecycle` and `Enrichment` are
asked here.

- A request that has begun runs to its end: weak fairness on its steps. The
  event loop of uvicorn resumes a coroutine whose await is done. It does not say
  a commit succeeds: `Crash` stays possible.
- A job in the queue is delivered and not every delivery fails: strong fairness
  on taking and writing, since a failed delivery puts the job back and so
  disables the step again and again; weak fairness on the ack. The consumers
  are started for each queue in `worker/main.py`, and a model's failure is an
  outcome that is written (`failed`), not a retry.
- A page handles what has arrived: weak fairness on `PageStep`.

Nothing is assumed of users, of connections, or of failures.

Without these the liveness properties would fail for reasons outside the code
(a worker that is never started). With them they say that no code path loses
the job or leaves a status behind.

## 5. Proofs

TLAPS checks these for every value of the constants that meets the named
assumptions of the modules (distinct markers for NULL; slices are subsets; at
least one job may be queued). There is no bound on sprints, tickets, requests,
workers, users, tokens, links, pages, columns, sockets, connections,
notifications, model calls or lifetimes.

| module | theorem | hypothesis besides the assumptions |
|---|---|---|
| `SprintLifecycleProofs` | `SprintTypes`, `RowsAgreeHolds` with its parts, `FinishedWorkStaysHolds`, `SlotRefinement` | none |
| | `SnapshotIsReturnedHolds` | always `CompletesAlone`: while a completion is between the SELECT of its tickets and its commit, no other request is about to write a ticket of that sprint or to complete it |
| `WorkerProofs` | `NothingTakenBackHolds` | always `StartsApart` and `EditsApart`: no two starts or deletions of one sprint are in progress, and no two edits stand between SELECT and commit |
| `SprintsProofs` | `CountIsOfMarksHolds`, `RiskOutlivesTheDayHolds` | `LengthOK`: the sprint is no longer than the days the rules tell apart |
| | `SprintsTypes`, `CompletionKeepsPointsHolds` | the same, and `PointsOK`: finitely many tickets, with natural numbers of points |
| `MembersProofs` | `MembershipTypes`, `JoinAcceptsInviteHolds` | none |
| | `AdminExistsHolds` | always `ChangesApart`: no two role changes or removals are past their count of the admins and before their commit |
| | `MembersTypes`, `BellTellsTruthHolds`, `AssignedIsToldHolds` | `PageSize` is a natural number |
| `TicketsProofs` | `BoardTypes`, `NumbersExactHolds`, `TicketColumnExistsHolds` | none |
| | `AtMostOneDefaultHolds`, and with it `BoardSoundHolds` | always `ReplaceApart`: no two requests are between their look at the default columns and the commit that makes another one the default |
| | `TicketsTypes`, `TreeShowsRestHolds`, `LostOnlyByReparentOrRestoreHolds`, `SettledSubtaskRuleHolds`, `NoOrphanByDeleteHolds` | `InstanceOK` of `TicketTree`: slices are subsets, markers are distinct, types are the code's |
| `AccessProofs` | `SessionTypes`, `RotatedOnceHolds`, `RevocationKillsHolds`, `RemovedGetsNothingHolds`, `NeverStrandedHolds` (the second half of `LinksSound`) | none |
| | `LinksSoundHolds` | always `InsertsApart`: no two requests have swept the links and not inserted their own yet |
| | `RoomsSoundHolds` | `LifetimesOK` of `Rooms`: lifetimes and the times of requests are natural numbers, the lifetimes of tokens and tickets positive |
| | `OnlyOwnRowsHolds`, `StatementsSucceedHolds` | `SettingsOK` of `Tenancy`: the markers of settings are no organisation and no user, the kinds of handlers are the code's |
| | `StaleRoleEndsHolds`, `CreatorExistsHolds`, `HiddenProjectIsStillHolds` | `LifetimesOK` of `Authority`: lifetimes are natural numbers, that of a token positive |
| | `AccessTypes` | the instance conditions of the four parts above |
| `ModelsProofs` | `ModelsTypes`, `PendingHasJobHolds`, `SettlesInTimeHolds`, `AnswerIsFitHolds` | `InstanceOK` of `ModelCalls`: times and the pool's size are natural numbers, the callers are the code's |
| | `EmbedCurrentHolds` | the same, `EmbedFollowed` (the worker follows the embed queue), and always `EmbedsApart`: no two workers embed the ticket at once |
| `LiveBoardProofs` | `LiveBoardTypes` | none |
| | `FollowersAreCurrentIn`, for any set of tickets; `FollowerCurrentHolds`, for all of them | always `MovesApart`: no two moves of one of these tickets are between the read of its row and the publish of its event |

The conditions on an instance (`LengthOK`, `PointsOK`, `InstanceOK`,
`SettingsOK`, `LifetimesOK`, `IssuersOK`) say what values the constants are meant to have;
`TypesOK` includes them, so that each run checks them on its own values.

The conditions with *always* are about states and not about constants: the
theorem is `Spec /\ []X => P`, for any number of requests and workers, all of
which may be in progress at once. Only the windows that `X` names may not
overlap; nothing in the code keeps them apart, and it is in them that the code
reads what it will rely on. So they mark how far its guarantees go:

- *CompletesAlone*: an assignment that commits in the window takes a ticket off
  the sprint, or puts one in, that the snapshot has counted or has not.
- *StartsApart*: the run `SprintReopen`; *EditsApart*: the run `EnrichFlags`.
- *ChangesApart*: the run `MembersLastAdmin`.
- *ReplaceApart*: each of two requests takes the flag from the default it saw,
  and both then set one of their own.
- *InsertsApart*: each of two resends sweeps the links it sees, and both insert.
- *EmbedsApart*: the worker that read an older text may write its vector last.
- *MovesApart*: the publishes of two moves may come in the other order than
  their commits.

Where the instance of a run keeps requests further apart than that (one request
in `Worker`, one for roles in `Members`), the theorem says more than the run.

How the arguments go:

- **Sprints.** One active sprint, the retro of a completed sprint and the
  sprint of a ticket are together inductive (`SafeInv`), because the constraints
  and the `SET` of one statement do the work at commit. The other two are not.
  `LockInv` says what a completion may rely on between its flush and its commit:
  the rows it matched still match, since it holds their locks, and
  `FinishedWorkStays` follows. `JobInv` follows a retro job from the request
  through the queue into a consumer's hand, which gives `JobAfterCommit`.
  `ArgInv` keeps a request at its sprint. `SlotRefinement` maps each step to
  taking or leaving the slot, or to a stutter.
  `SnapInv` says that what a completion has picked and what its statement has
  matched are the unfinished tickets of the sprint still; under `CompletesAlone`
  every step of another request leaves that set alone, and the snapshot is then
  what the completion returns. In `WorkerProofs`, `ReadInv` says that a start or
  a deletion in progress is of a sprint that is planned still, and `EditInv` that
  an edit in progress writes at least the flags there are; each is kept up only
  where the windows do not overlap.
- **Planning.** The type invariant is enough: midnight takes a day off the plan
  and adds one to the ages, and each rule's threshold is passed in that
  direction only. The count and the marks are two readings of the same rules.
  For sums, the points of a set of tickets are the elements of a finite set, one
  for each point: a completion splits the planned tickets in two, the two sets
  are disjoint, and the rest is a fact about cardinalities.
- **Membership.** `RowInv` and `LoadedInv`: an invite that was inserted keeps
  its address and role, so what a redemption loaded is what the row says; that
  the row is still there is what its commit finds out. For the admin, `Spare`
  says that between the count and the commit there is an admin other than the
  target. Only another role change could break it, and `ChangesApart` keeps that
  out of the window.
- **Notifications.** `BellsInv`: what a request is about to publish, and what is
  on a bell's socket, in its response or on its page (`BellOk`), are rows of the
  table; a page that does not use "mark all" has as read only what the table
  has. Rows are added, never changed, until the removal takes them all, and
  `read` only grows until then.
- **Board.** `NumInv`: the lock on the counter's row leaves one creation between
  taking a number and committing it, and its number is the counter, so the
  numbers in use have neither gap nor repetition. `ClearInv` says that what a
  request takes the flag from, before it sets its own, includes every default
  there is.
- **Sessions.** `Covered`: a token that was handed out and still works is in the
  index, or was dropped from it. `ReqOk` says for each step of a request what it
  may rely on, and `Mono` what the steps of the others leave alone (a token is
  generated once, and the index loses it only to `dropped`), so that each step
  is proved once for its own request and once for all others. `RotatedOnce` has
  an invariant of its own (`Once`): a token taken by a refresh is out of Redis,
  and no other refresh holds it.
- **Live board.** `TellsOk`: a board with the events still on their way applied
  to it (`Agrees`) puts every ticket where the database has it, except those
  with a commit that is not yet published. This holds of the shown board and of
  the board in a response. A publish takes a ticket out of that exception and
  puts its event into every inbox. The invariant speaks of a set `S` of tickets
  and asks `MovesApart` of those alone; with `S` empty it is the types, which
  therefore need no condition.
- **Rooms.** The bound on a room is not inductive: it follows from the bounds on
  what the room was made of. For each link of the chain the invariant bounds the
  time since a removal by the age of a request in progress (`GrantEnds`,
  `AskEnds`, `ShakeEnds`), or adds it to the time left of what a request has made
  (`TokenEnds`, `TicketEnds`, `RoomEnds`). Only a login past its read of the row
  begins the chain after a removal. A step forward starts a new clock and uses up
  the old one, and `Tick` moves both the same. `AcceptEnds` and `ProjectEnds` do so
  for a deleted project, where the chain begins at the check.
- **Ticket tree.** `ReqsFit` says of a request in progress that what it checked
  of a parent still holds if no PATCH changes that parent's type: rows are never
  removed, and a soft deletion leaves the type alone. `AloneInv` says that a
  deletion that nothing has overtaken is of a ticket that still has no live
  child, since only commits make children. What the tree shows (`Shown`) and the
  way up from a ticket (`Above`) are least closed sets, so that a fact about
  them needs a closed set to be named and no induction. For `TreeShowsRest`: the
  way up from a ticket that is not shown never meets a root. There are finitely many
  rows, so among the sets above its tickets there is a smallest, and whoever it
  belongs to is above its own parent, which is a cycle; and no ticket of a
  cycle, or below one, is shown. For `LostOnlyByReparentOrRestore`: what is shown
  after a creation or a deletion, with the deleted ticket, is closed under the
  roots and children there were before, and so contains what was shown.
- **Tenant settings.** `Exclusive` and `PoolClean`: one transaction has a
  connection, and one in the pool has no setting with an organisation.
  `ContextKept` says that a handler's settings, once made, are its own as long as
  its transaction lasts, and each sort of script makes them before the
  statements that need them.
- **Roles and projects.** As with rooms, each link of the chain adds up: a login
  that had read the old role (`AuthAge`), the token made of it (`TokenAge`), the
  request that came with the token (`WorkAge`). `RowsThere` and `SeenLive` say
  what a request in progress knows of its rows: those it read are still there,
  and a project it saw live has been deleted for no longer than it runs.
- **Enrichment.** A job goes from a request (`ReqInv`: whoever will set *pending*
  will publish) to the queue and to a consumer. `PendingHasJob` is not inductive
  as it stands: a consumer that loaded another status may write nothing. `PendInv`
  asks for a job that is still to be taken (`Behind`) or one in hand that loaded
  *pending* (`Fresh`). `EmbedInv` says of the vector that a job is still to be
  taken, or the one in hand is about the current text, or the vector is; under
  `EmbedsApart` no older job writes after that.
- **Model calls.** `CallOk` bounds the time used before the present attempt by
  the attempts there were, and keeps with an answer that it passed its caller's
  validation.
- **Verification.** `Swept`: whoever is about to insert a link has every live
  link in its hand, because nobody else inserts one meanwhile (`InsertsApart`).
  `Followed` and `Blank`, which need no condition: a link is spent only in the step that stores another, verifies the
  user, or removes the user.

**Only model-checked**: the liveness properties (`QueuedRetroSettles`,
`VerdictsSettle`, `FollowerCatchesUp`), which rest on fairness. The state
conditions above are hypotheses of theorems; no run assumes them beyond what its
instance keeps apart.

## 6. Known limits

### Not modelled

- **Rate limiting, password hashing, JWT signatures**: library calls without
  state of their own.
- **Web pages** other than the board and the bell: forms and lists that fetch
  and render.
- **Verification scripts, seed, CI**: tests and tools.
- **Prompts, keyword lists, the vector search of the duplicates**: text, and one
  query inside Postgres. That a keyword matches is a choice of the environment.
- Of parts that are modelled: the position of a ticket in its column (TLC has no
  floats), labels, names and order of columns, the name and goal of a sprint,
  the organisation's name and prefix, drop positions and forms of the board
  page.

### What does not hold

These are formulas one might expect, which the modules show to be false or which
no property claims. The first three are written down beside the properties that
do hold.

- `SubtaskRule` of `TicketTree`: a PATCH that changes a type looks at the
  ticket's parent and not at its children, and two such PATCHes look at rows
  that the other is about to change. `SettledSubtaskRule` is what remains.
- `SocketWithinToken` of `Rooms`: `app/api/ws.py:112-124` says a room ends with
  the access token it was minted from; the timer starts when the room does.
  `RoomsSound` has the bound that holds, with the times that a login or refresh,
  a request for a ticket and a handshake take.
- `OnCompletedIsDone` of `SprintLifecycle`: `app/api/sprints.py:463-470` takes the
  tickets of a completed sprint for "permanently frozen",
  `app/services/sprint_retro_context.py:81-85` and `app/api/tickets.py:599-603`
  for "exactly the tickets that *did* finish". A ticket that is assigned by a
  request which read the sprint before its completion, whose sprint or column is
  changed afterwards, or that is restored afterwards, counts as finished in the
  retro. The instance of `Sprints` reaches it; no run is made for it, since
  nothing but the completion's own statement stands behind the claim, and that
  is `FinishedWorkStays` and `SnapshotIsReturned`.
- With two workers the vector stored last may be that of an older text, against
  `app/services/queue.py:46-52`, which says the job that runs last reads the
  current text: the one that reads last need not write last. The runs have one
  worker, as one process of `worker/main.py` works through a queue one job at a
  time.
- A creation with an assignee tells the assignee nothing (`app/api/tickets.py:375`):
  only PATCHes notify.
- Two concurrent moves of one ticket may leave following pages with the older.
- "Mark all" of the bell also marks what arrived after its UPDATE, and the badge
  may be wrong by the events a late count overlooks.
- The live board makes claims of pages whose user moves nothing. For a page that
  moves tickets they are false: a refused move puts a whole older board back, a
  page skips the events of its own user and so those of the same user's other
  tab, and a fetch may overwrite a move that was just made.

## 7. Plan

The modules of section 2 and their runs are done, in the order of the table;
so are the proofs of section 5. What would add most next:

1. Abstract specifications of a session and of a job queue, with the detailed
   modules shown to implement them.
2. Runs of their own for two concurrent moves of one ticket, for two
   regenerations with two workers, and for `OnCompletedIsDone`, should the code
   come to keep late tickets off a completed sprint.
