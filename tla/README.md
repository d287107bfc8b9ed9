# TLA+ verification of the ITBEM events backend

This directory holds TLA+ models of the backend in `src/` (a Go service built on
Echo, GORM/PostgreSQL, Redis and SQS), TLC configurations that check them on
small instances, and TLAPS proofs of the theorems that matter most for every
value of the constants. Every definition is translated from the Go code, and
`PROJECT.json` maps it to the lines it stands for. The words of comments and
documents are used only as the statement of what the code should do.

The directory is flat. `X.tla` is the model of a component, `XContract.tla` an
abstract specification it implements, `MCX*.tla` and `MCX*.cfg` its instances,
`XProofs.tla` its theorems.

```
tlc -workers 2 -config MCOutbox.cfg MCOutbox      # one run
tlapm OutboxProofs.tla                            # the proofs of one module
```

## 1. The system

The backend serves two products from one process and one database. The first is
event management: tenants, events, guests, invitations, seating, and moments
(photos and videos guests upload). The second is a delivery platform in which AI
agents work on a plan. A work item has an approved plan, the plan is a graph of
steps, automation tasks are queued to worker processes, and the workers call back
over HTTP. Any number of API replicas run at once, and nothing is shared between
them except PostgreSQL, Redis and the queues. Concurrency is therefore
concurrency between transactions (READ COMMITTED with `FOR UPDATE` row locks),
and every promise has to survive a replica that stops between two statements.

### Inventory

| Component | State | Operations | What is hard | What makes it correct |
|---|---|---|---|---|
| **Transactional outbox** `repositories/outboxrepository`, `services/outbox` | `outbox_events` rows, the dispatch cursor, each dispatcher's batch | `Enqueue`, `ClaimBatch`, publish, `MarkCompleted`, `ScheduleRetry`, hourly cleanup | leases that expire while publishing; settling statements that do not name a claim; fairness over batches and replicas | nothing accepted is lost; completed is final; lanes share; everything is delivered in the end |
| **Plan-step leases** `services/deliveryplansteps/claim.go`, `controllers/automation/plan_step_*.go` | plan-step rows (status, run, agent, fence, lease), activity events | claim, renew, transition, record activity | two levels of leases, fences, retried and delayed callbacks, clocks read before a lock | leases nest; only the holder moves a step; dependencies first; completion rests on evidence |
| **Automation tasks** `controllers/automation/automation.go` | task rows (status, run, lease), budget reservations, usage ledger | claim and renew, cancel, complete, fan-in, review recovery | cancel is read-then-update; takeover after expiry; redelivery by the queue | cancellation is final; an abandoned task is recoverable |
| **Plan fan-out and fan-in** `services/deliveryplansteps/{orchestration,fan_in}.go` | executions, assignments, worker heartbeats | create execution, reserve capacity, fail over, promote | concurrent reservations of one slot; nobody left to repeat a dispatch | capacity; every ready step is dispatched in the end |
| **Idempotency middleware** `middleware/idempotency` | `idempotency_records` rows | reserve, take over, replay, finalize, release | each statement commits alone; stale takeover against a slow request | a mutation happens once per key; replays are faithful |
| **Seating** `repositories/eventtablerepository` | tables, guests' `table_id` | plan save, bulk assignment, capacity checks | tables read before they are locked | no table over capacity; no dangling table |
| **Guests, RSVP, check-in** `services/guests` | guest rows: answer, catalogue status, check-in and what it replaced | RSVP, PUT, bulk status, check-in, undo, delete | requests that write back every column they read, next to the door | answer and status agree unless a lookup failed; an undo restores what the check-in replaced; deleted stays deleted |
| **Invitations** `services/invitations` | invitations, access tokens | issue, answer, revoke | a link made or used while the guest is deleted | a deleted guest's link changes nothing |
| **Moments and media** `services/moments` | moments, media jobs, objects, upload quota | upload, confirm, requeue, callbacks, edits, delete, purge | late and repeated callbacks; edits of whole rows | the wall shows what can be served, or what staff gave it; done means the current job finished |
| **Inference gateway** `controllers/automation/inference_*.go` | receipts, budget holds, cost ledger | admit, claim, reserve, call, complete, cancel | provider calls of unknown outcome; takeovers; holds that lapse | a call is paid and charged once, within the budget |
| **Reviews of pull requests** `automation.go` | review tasks, their leases and calls | deliver, supersede, claim, recover, retire, retry | redeliveries and polls acting on what they read | one open review per commit, bounded recovery |
| **Delivery workflow, continuations, schedules** `services/deliveryworkflow`, `controllers/delivery` | work items, plans, intents, grants | gates, admission, dispatch, results, revocation | admission in two transactions; dispatchers that outlive their claim | one run per intent and phase; withdrawn authority is not used |
| **Event ledger** `internal/deliveryledger` | append-only hash chain | append, verify | append inside other transactions | no gap, no fork |
| **Caches** `services/cacheutil` | Redis keys and namespaces | read through, invalidate | invalidation racing a fill | staleness is bounded |
| **Policy and release gate** `internal/deliverypolicy`, `internal/releasegate` | none (pure) | evaluate | many conditions | decision tables |
| **Dispatch queue** `automationqueuerepository`, `automationagent/queue.go` | messages, visibility | send, receive, extend, defer, delete | duplicates, visibility timeouts | a message goes only when its task has ended |
| **Agent worker** `internal/automationagent` | intent and result objects, a worktree, remote branches | claim, recover, call, publish, store, report | dies, stalls, loses answers, is overtaken | one billable call per task; revocation fences publication |

Users, clients, sessions, authorization, resources, catalogues, routing,
telemetry and deployment are listed in `PROJECT.json` with the reason they are
not modelled.

### How the parts meet

* A controller changes its rows and calls `Enqueue` in one transaction. A
  dispatcher later hands the event to a queue (media worker, automation queue).
* The automation queue delivers a task to a worker, perhaps more than once. Each
  delivery is a *run*. The run leases the task row, then claims plan steps under
  that lease, renews both, reports activity and the outcome of each step, and
  completes the task.
* The completion of a child task runs the fan-in in the same transaction. It
  dispatches the children that became ready, through the outbox, or promotes the
  parent.
* Selected mutating endpoints sit behind the idempotency middleware.
* Seating, guests and invitations share the guest row.

## 2. Plan

The most important behaviour comes first: the two protocols whose failure loses
or duplicates work, then the middleware all retries go through.

| # | Module | Content | Status |
|---|---|---|---|
| 1 | `Outbox`, `OutboxLanes`, `OutboxContract` | dispatch protocol, its fairness to lanes, and the at-least-once contract it implements | done, proved |
| 2 | `PlanSteps` | task and step leases, callbacks, cancellation, fan-in of child completions | done, proved |
| 3 | `Idempotency` | statement-by-statement protocol of one key | done, proved |
| 4 | `Seating` | plan saves and bulk assignments (with their locks) against guest and table edits that take none: capacity, dangling tables | done, proved |
| 5 | `Fanout` | executions, assignment capacity, heartbeats, failover, fan-in, with the locks of the transactions | done, proved |
| 6 | `Moments` | uploads, quota, media jobs, moderation, deletion and purge | done, proved |
| 7 | `Guests` | answers, check-in, undo, links, deletion | done, proved |
| 8 | `Inference` | admission, holds, receipts, calls of unknown outcome, the cost ledger | done, proved |
| 9 | `Reviews` | deliveries, supersession, recovery and retry of reviews | done, proved |
| 10 | `Workflow` | gates, intents, admission, grants, results | proved for these; schedules and the ledger are open |
| 11 | `Worker` | a queue message and the runs it becomes: recovery, intent, call, publication, report | proved for single calls and publication; the agent loop and the local scheduler are open |
| 12 | `ReadThroughCache` | invalidation against fills | planned |
| 13 | pure algorithms | `validateDAG`, `AssessFanIn`, `allocateAssignmentTargets`, retry schedules: operators against reference definitions, checked by TLC only | planned |

`MCServices` composes the modules 5 and 8 to 11, `MCBackend` the modules 6 and 7 with
`OutboxLanes`. The media queue of `Moments` is not an
instance of `OutboxContract`: what the contract promises (at least once, in any
order) is what `queue` is there, a set that jobs never leave.

The theorems cover every safety and action property a passing run checks. What the
plan has left are the modules 12 and 13, and the parts named as open in 10 and 11,
each with its invariant.

## 3. Outbox

`Outbox.tla` models `OutboxRepository.go` and `Dispatcher.go`. `OutboxContract.tla`
states what the code that enqueues relies on.

**State.** `row[e]` is the `outbox_events` row: state, attempts, lane (the
`fairness_key`), and `due`. `due` is the distance from now to the deadline that
the state gives a meaning to (`available_at`, `lease_until` or `processed_at`).
Relative time keeps the state space finite without bounding behaviours.
`cursor` is the dispatch cursor row. `phase`, `lag`, `held` and `sent` are the
locals of `dispatchOnce` in each replica. `published` is ghost state: what the
queue has received. `OutboxLanes` adds `passed`, a history variable: the batches in a
row that saw a lane ready and left it out.

**Actions.** `Enqueue`; `BeginClaim` (the clock is read) and `ClaimBatch` (the
transaction, after waiting for the cursor lock); `PublishOk`, `PublishError` (a
timed-out request may have arrived all the same); `MarkCompleted` and
`ScheduleRetry`, which ask only for state `processing`; `SettleError`; `Crash`;
`DeleteCompletedBefore`; `Tick`. A row inserted before the fairness column
existed (`Legacy`) gets its lane when a claim normalises it. The choice of rows
(`Turn`) is a closed form of the rounds of `claimFairRows`: a row's turn is its
rank in its lane, then the place of the lane after the cursor.

**Abstractions.** Payloads, queue names and routes are left out. `ApplyRoute`
either accepts an event or fails the caller's transaction, so an event of the
model is one it accepted. `attempts` saturates at 4, because `retryDelay` does
not tell more apart. `Horizon` is the furthest past any comparison can see.

| Run | Instance | Shows |
|---|---|---|
| `outbox_safety` | 3 rows in 2 lanes, two of them legacy, 2 replicas, batches of 2, a lease of 1 tick, claims that wait 1 tick, 1 fault; 250,989 states | `NothingLost`: completed or deleted implies published. `CompletedIsFinal`: no late retry resurrects a row. `FairBatch`: every ready lane gets a row before one gets a second. `ImplementsContract`: the lease protocol refines `OutboxContract` |
| `backend` | 4 rows in 3 lanes, batches of 1; 130,437 states, and in behaviours of their own `Moments` and `Guests` (section 7) | `LaneNotStarved`: a lane that every batch finds ready is passed over at most (lanes - 1) / limit times in a row, across replicas. A history variable counts |
| `outbox_live` | 2 rows, 2 replicas, 1 fault | `Delivered`: a pending row is eventually completed |

*Bounds.* Two replicas and a lease shorter than a publication produce every
overlap of two claims on one row: expiry while publishing, a stale completion, a
stale retry. Three rows in two lanes are the smallest instance in which a batch
of two can be unfair. One fault at any point is enough to lose a single step.

*Fairness.* `WF(Tick)`: time passes. `WF(Work(d))`: the dispatch goroutine of
every replica keeps running. Its loop has no exit but the end of the process,
and a replica that ends is restarted (`Crash` leads back to `idle`). Publications
succeed from some point on because `MaxFaults` bounds the faults; without that
assumption no retry scheme delivers anything. `MaxLag` must be at least 1 here:
with 0 a claiming replica would disable `Tick`, and its fairness would say nothing.

**Proofs** (`OutboxProofs.tla`), for any number of rows, lanes, replicas and
faults, from `OutboxConstants`. The inductive invariant is
`IInv == TypeOK /\ NothingLost /\ SettlesPublished /\ HoldsAccepted`.
`NothingLost` alone is not inductive: `MarkCompleted` needs to know that the
event it settles was published (`SettlesPublished`), and the refinement needs
to know that what a dispatcher holds was accepted (`HoldsAccepted`).

* `TypeCorrect`, `OutboxLosesNothing` follow from `IInv`.
* `OutboxCompletedIsFinal` and `OutboxImplementsContract` both rest on one lemma,
  `StepSettles`: a step adds at most one event to the settled ones, and then a
  published one.

* `OutboxFairBatch` needs no invariant beyond `TypeOK`: the oldest row of a lane has
  the lane's place for its turn, a place is less than the number of lanes
  (`LanePlaces`), and the second row of any lane has at least that number
  (`FirstRoundFirst`). So a batch that has two rows of one lane has one of every
  ready lane (`BatchIsFair`).
* `OutboxLaneNotStarved` adds the invariant `LanesApproach`: what a lane was passed
  over, times the batch size, and the lanes after the cursor and before it
  (`Between`) together are less than all lanes. A batch that leaves a lane out is
  full (`BatchIsFull`), takes one row of each of `Limit` lanes that come before it,
  and its cursor moves past them all (`SkippedComesCloser`).

`OutboxLaneNotStarved` has a hypothesis, `FewLegacy`: the rows older than the
`fairness_key` column fit into the 4 * limit rows that one claim normalises
(`fairnessNormalizationLimit`); `MCBackend` meets it. Without it the bound
fails: rows that have not been normalised are served under the empty key, and a
cursor that holds the empty key makes `rotateFairnessKeys` start over instead of
going on (`OutboxRepository.go:163`). With batches of one and ten legacy rows, TLC
passes two lanes over twice in a row. The effect ends when the legacy rows
are normalised, at most 4 * limit of them per batch.

`Delivered` is liveness and only model-checked.

## 4. Plan steps

`PlanSteps.tla` models the callbacks of agent runs (`claim.go`,
`plan_step_runtime.go`, `plan_step_activity.go`) together with the parts of
`automation.go` they depend on: `claimAutomationTaskRun`, `Cancel`, completion
and the fan-in of child tasks.

**State.** `task[t]` (status, run, lease), `step[s]` (status, run, agent, fence,
lease), `events` (recorded activity), `parent` (status of the execution's parent
task). Two variables stand for requests in flight: `seen`, a cancellation that
has read the row and not yet updated it, and `posted`, an activity request that
has read its clock and not yet locked the rows. A lease is the time left. A task
is either a child assigned to one step of an execution or a sequential task that
takes the earliest ready step.

**Actions.** Each callback is one transaction that locks the task row first, so
it is one action: `ClaimTask` (claim, renewal or takeover), `CompleteTask` (with
fan-in), `CancelParent`, `ClaimStep`, `RenewStep`, `TransitionStep`. The two
handlers that act on what they read before a lock are two actions each:
`CancelRead`/`CancelWrite`, `PostActivity`/`AnswerActivity`. A worker that dies is
a run that takes no more steps. A lost answer is a callback that is repeated. A
redelivered message is another run of the same task.

**Abstractions.** Evidence is reduced to whether an event is an acceptance event;
hashes, patches and receipts are content. Artifacts, telemetry and the reason
texts are left out. Which ready children are dispatched depends on machines that
are not modelled here, so `CompleteTask` picks any subset; whether the fan-in
finds its integration evidence is also a choice. `ClaimTask` of a sequential task
uses a clock up to `MaxWait` old, because that handler reads it before the lock;
the clock of an assigned child is read after it.

| Run | Instance | Shows |
|---|---|---|
| `plansteps_leases` | sequential task, 2 runs of 2 agents, 2 free steps, task lease 4, requests of 2 or 4, claims that wait 1; 151,221 states | `LeaseNested`: a live step lease belongs to the run that leases the task, and ends no later. `OneLiveStep`: a run never holds two steps. `StepGuarded`: a step changes hands only after expiry, otherwise only its live holder changes it, and never once settled |
| `plansteps_evidence` | sequential task, 1 run, chain of 2 steps displayed against their order, 2 sequence numbers, one reclaim, delayed activity; 2,609,241 states | `CompletedOnEvidence`: a completed step has an acceptance event nothing under its fence supersedes. `DependenciesFirst`: no step is claimed before what it depends on has completed, and that stays so |
| `plansteps_assigned` | 2 children of an execution, 3 runs, parent and child cancellation; 332,670 states | `CancelHonoured`: a requested cancellation ends as cancelled and freezes the task's steps |
| `plansteps_cancel_race` | as `plansteps_leases` | violation, see section 8 |
| `plansteps_abandoned` | as `plansteps_assigned` | violation, see section 8 |

*Bounds.* Two runs of one task are a holder and a usurper. Two steps allow the
earliest-first choice, a retried claim that could take a second node, and one
dependency. `MaxFence = 2` gives one reclaim and the refusal at the limit. The
minimum step lease of 2 against a task lease of 4 reaches the case in which the
rest of the task lease is too short to grant. One request of each kind is in
flight at a time, which is enough for the races between a delayed request and
everything else; it also means two delayed requests never overtake each other,
except through sequence numbers chosen in any order.

**Proofs** (`PlanStepsProofs.tla`), for every plan graph, every set of tasks, runs
and agents, all lease lengths, from `PlanAssumption` and `TimeAssumption`.

* `StepEffect` says what any step of the system does to one plan step: nothing,
  ageing, a claim, a renewal or a transition. Most of the proofs are case
  distinctions over that lemma instead of over the actions.
* `PlanStepsTypeCorrect` needs `ClaimedByRun` (a step that left `planned` has a
  run), since an activity request takes its run from the step.
* `PlanStepsDependenciesFirst`: a settled step never changes again, so completed
  dependencies stay completed.
* `PlanStepsCompletedOnEvidence` (with `EventEffect`): an event is recorded only
  while its step is running, so completion closes the record.
* `PlanStepsLeaseNested` is the difficult one. It is inductive with `FreshTask`
  (a task that was never leased has no run) and is stated with `Lag`: a
  sequential run renews its task with a clock read before the lock, so the task
  lease may be shortened by that wait. The bound is exact up to `MaxWait`, and
  zero for assigned children.
* `PlanStepsOneLiveStep`, `PlanStepsStepGuarded` and `PlanStepsCancelHonoured`
  follow with `NextOneLive`, `NextGuarded`, `NextCancelled` and `MoverRuns`.

## 5. Idempotency

`Idempotency.tla` models `middleware/idempotency/idempotency.go` for one scope
(tenant, actor, route, key), that is for one row. Scopes do not meet: the unique
index covers all four.

**State.** `record` is the row. Per attempt: `pc`, the clock `at` it read, the id
`row` it reserved or found, `since` (the `updated_at` of a stale row), and `reply`
(whose response it was answered with). `done` is ghost state: attempts whose
controller performed the mutation.

**Actions.** `Purge`, `Insert`, `Lookup`, `Takeover` (a compare-and-swap on
`updated_at`), `ReserveError` (a statement that fails, perhaps after taking
effect), `Handle` (success, success too large to record, or error), `Finalize`
(up to three tries, an update by id), `Release` (a delete by id, errors ignored),
`Crash`, `Tick`.

| Run | Instance | Shows |
|---|---|---|
| `idempotency` | 3 attempts of one request and 1 with another body, stale after 1, TTL 3, 5 ticks, `Prompt`; 1.2 million states under symmetry | `ReplayFaithful`: a replay answers the same body with the response of an attempt that performed the mutation. `AtMostOnce`: two successes within the record's lifetime imply that one outcome was lost. `SuccessReplayed`: while a recorded success is fresh the controller is not invoked |
| `idempotency_slow` | 3 attempts, not `Prompt` | violation, see section 8 |

`Prompt` says that no request spends longer in the middleware than the stale
period. The code does not enforce it: `staleAfter` is two minutes and
`internal/app/app.go:276` lets a request run for five. The passing run and two of
the theorems show what holds while requests are prompt; the second run shows
what happens otherwise. `ReplayFaithful` does not need it. Permuting attempts of
the same request is a symmetry, since nothing compares them. Three attempts are
an owner, the one that takes over, and the retry that pays for it. The clock of 5
lets the record go stale and expire.

**Proofs** (`IdempotencyProofs.tla`), for any number of attempts and any periods.
`IdempotencyReplayFaithful` uses `Faithful` (the row's id, hash and recorded reply
come from attempts of the same body) and holds with or without `Prompt`. Under
`Prompt`, `InTime` bounds the clock of an attempt in flight and `Exclusive` says
that the row of an attempt being served is its own and untouched, and that a
recorded success keeps its row; `IdempotencyAtMostOnce` and
`IdempotencySuccessReplayed` follow.

## 6. Seating

`Seating` models the tables and seats of one event
(`eventtablerepository/EventTableRepository.go`, `seating_capacity.go`, and the
handlers of `PUT /tables/:id` and `PUT /guests/:id`).

**State.** `table[t]` (absent, live or soft-deleted, and its capacity) and
`seat[g]` (`guests.table_id`) are the committed rows. For each request `w`,
`body[w]` is what it asks, `pc[w]` its next statement, and `tx[w]` its open
transaction: uncommitted writes, tables locked `FOR UPDATE`, and the tables whose
capacity it is going to check.

**Actions.** `AssignGuestsToTables`, `SaveSeatingPlan` and `DeleteEventTable`
share their statements, one action each: `Begin` (with the inserts of a plan),
`ReadCapacities`, `UpdateCapacity`, `CountTables`, `ReadCurrent`, `LockTable`,
`MoveGuest`, `ClearGuests`, `DropTables`, `CheckCapacity`, `Commit`. A statement
reads what is committed plus the writes of its own transaction (READ COMMITTED).
`Rollback` stands for every refusal, for a deadlock broken by the server and for
a crash. `ReadGuest`/`WriteGuest` and `ReadTable`/`WriteTable` are the edits that
take no lock between their check and their write.

The locks are PostgreSQL's, taken from how the code uses them: an update of a
table row or `FOR UPDATE` excludes the other (`RowFree`), an updated guest row
excludes other writers of it (`GuestFree`), and the foreign key of
`guests.table_id` takes `FOR KEY SHARE` on the table a guest moves to, which
conflicts with `FOR UPDATE` alone (`ShareFree`, `LockFree`). That last lock is
what makes an unlocked guest edit wait for a plan save.

**Abstractions.** The seats a set of guests takes is a monotone function
`Seats`; party sizes do not change and guests are neither created nor deleted.
Table ids are numbers, in the order `lockTables` sorts them. The reads and
checks of `PUT /guests/:id` and `PUT /tables/:id` are one step, and the write
another. Of the body, only tables and capacities are kept.

**Properties and runs.**

* `seating`: two requests of every kind, with 2 guests and 3 tables, whose
  drafts name different guests and tables of their own and seat the guests at the
  same tables, next to unlocked edits that seat nobody; 1,832,884 states.
  `CheckStands`: what `checkTableCapacity` found of the tables that gain guests is
  still true at the commit. It needs the `FOR UPDATE` lock, the key share of the
  foreign key, and that tables counted once never come back. `NeverOver`: no live
  table is over capacity.

`NeverOver` needs the restriction to drafts of their own, `OwnDrafts` (section 8 says
what happens without it): requests served side by side edit different guests and
tables, and those that take no lock seat nobody and lower no capacity. The instance
meets it, which an `ASSUME` of `MCSeating` checks. `CheckStands` does not need it, and
its theorem covers requests of any kind that conflict in any way. The type
invariant is proved and needs no run.

Two writers suffice for these: every conflict is between the transaction that
checks and one that writes, and a third could only repeat the second. Capacities
of one or two and guests of one seat make every table full after a step or two.

**Proofs** (`SeatingProofs`), for any tables, guests, requests and any monotone
`Seats` that gives nobody no seat (`SeatingAssumption`). Of requests, `BodyAssumption`
says what the handlers admit; an assignment has tables for its guests and nothing else.

`SeatingTypeCorrect` and `SeatingCheckStands` hold without restriction. The inductive
invariant `SInv`
adds to `CheckStands` what the argument needs: a table locked by `w` is not
updated, dropped, locked or gained by any other open transaction (`Exclusive`);
open transactions write disjoint guests and create disjoint tables (`Disjoint`);
a table that will be checked has been seen, so that it cannot appear later
without being locked (`Known`); past `lockTables` every live table to be checked
is locked (`LocksHeld`); and nothing is open between requests (`Quiet`). Lemma
`OthersHold` is the heart: a step of `w` leaves standing what `v` has locked and
checked. The other lemmas show its hypotheses, one per kind of statement.

`SeatingNeverOver` assumes `OwnDrafts`. `CheckStands` alone does not give it: the check
covers the tables that gain guests, so the proof needs that every other table a
commit writes is no fuller and no smaller than before. `DInv` says so, on top of
`SInv`: `Committed` of the tables (guests sit at tables that are or were there, no
table is larger than the largest unlocked edit makes it, none is over), and
`DraftHolds` of every open request. Its parts are what the request asks (`Drafted`),
which statements it has behind it (`Stages`), that its targets exist and stay
(`Counted`), that a guest it moves gains a table to be checked or sits there already
(`Placed`), that it writes what it was asked (`Asked`, `Cleared`), that a capacity it
lowers will be checked (`Lowers`, `Smaller`), and that the check it made holds
(`Fits`). `DraftsStand` shows that a commit of another request leaves all of that
standing, because it writes none of this request's guests and makes no table of
its own larger or smaller; `CommitFits` is the step that needs all parts.

## 7. Services

Seven models share two runs: `Moments` and `Guests` the run `backend` (`MCBackend`), with
the lanes of section 3, 789,229 states; the other five the run `services` (`MCServices`),
686,835 states. They have no state in common, so a behaviour of a run is a behaviour of
one of them; the variable `focus` says which, and the others stay in their initial state.
Every module has an `InitWith` operator whose parameters choose the actors, and the MC
modules list the instances. Requests are used up, so these runs do not look for
deadlocks.

### Moments

`Moments.tla` models uploads by a guest of an event and what happens to them.
`moment[m]` is the row (live or deleted, raw key, job, status, URL, approval),
`store` the bucket, `used` the Redis counter of the quota, `queue` the media jobs
handed over, `finished` those whose output is stored, `purges` the deletions of
objects under way; `upload` and `staff` are the open requests. An upload reserves
a slot, stores or verifies the file, creates the row and enqueues the job, and can
fail or crash at each point, with the refund the code makes there. The worker
optimises and calls back, in any order and any number of times. Staff approve,
edit (all columns), requeue, reoptimise and delete; the purge first asks which
objects other moments use and deletes the rest later. Staff also create moments
(`POST /moments`), which are not processed (status "") and name any object of the event,
there or not, or none; the unique index on the object refuses one a live moment has. The
bound `Typed` holds the objects they may name. File types, sizes, captions,
caches and notifications are left out.

* `WallServes`: of what the public wall lists, a processed moment shows its own
  optimised object, which is there unless staff named that object in a moment of theirs
  as well; one that was not processed shows what staff created it with, and is never
  an upload that waits for the worker.
* `DoneIsEarned`: a moment is done only by the job its row names.
* `UploadLimit`: accepted uploads stay within the quota.

*Instances.* Two uploads, direct or confirming the same presigned file, with a
quota of one; one upload and two requests of the dashboard, two jobs. Staff may name
the presigned raw object or the optimised object of the first moment.

**Proofs** (`MomentsProofs`), for any uploads, dashboard requests, jobs and quota. The
invariant is `MomentsTypeOK`, `JobsNumbered` (jobs have numbers of their own, and only
jobs handed out are finished), `RowsEarned` (a row names objects of its own or that staff named, is done only by a
finished job of its moment, and is unprocessed only as staff `Made` it; so is every row
a request of the dashboard still holds and will write in full), `OutputsKept` (the
output of a finished job is stored until its moment is deleted, and no earlier does a
purge list it, unless staff named it elsewhere, `Spared`) and `QuotaKept`
(the counter is at least the slots that uploads hold, and those within the limit are
no more than the limit). `NothingRevived` says what no step takes back. The quota needs
that a slot given back was counted (`SlotCounted`), since refunds clamp at zero.

### Inference

`Inference.tla` models admission against a project's and an item's budget, the
run's lease and the hold that lasts twice as long, the gateway's receipts and
routes, the callback that moves receipts into the ledger, and cancellation, which
reads before it updates. Amounts are counted in calls. `lapsed` is a history
variable: tasks whose hold ran out while they were active.

* `PaidOnce`: a provider is asked at most once per route for a call, and a run
  makes no more calls than its frozen quota.
* `ChargedOnce`: the ledger grows only by the callback that ends a task, and no
  receipt is charged twice.
* `WithinBudget`: spend and holds fit the budget *while no hold lapses under an
  active task*. The restriction is real: a claim renews a lapsed hold without
  asking again whether it fits (`automation.go:4336`).

*Instances.* A task of two calls that a second worker takes over, and one that
both workers call for; two tasks of an item with a budget of its own; three tasks
that compete for a project budget of two; two routes, a lease of one tick.

**Proofs** (`AgentProofs`), for any tasks, runs, quotas, routes and budgets.
`InferenceInv` is `InferenceTypeOK`, `CallsCounted` (a call without a receipt was not
sent, one with a receipt was sent along the routes before the current one, and a run's
receipts stay within its quota), `HoldsStand` (an active task has a hold of its quota,
live unless one has lapsed; a task with costs has ended) and `WithinBudget`, which
is inductive with `HoldsStand`: an admission adds what it asked room for
(`AdmissionAdds`), the callback turns a hold into no more charges than it held
(`EndingKeeps`), and no other step adds anything (`OthersKeep`).
`InferenceChargedOnce` is an action property and follows from the types and
`Charged`, the lemma on what the callback writes.

### Fanout

`Fanout.tla` models executions of approved plans: `main` and `child` are task
states, `node` plan steps, `seat` assignments, `fresh` heartbeats, and `txn` the
open transactions with the rows they have locked and have still to lock. `Acquire`
takes the next group of locks in the order of the code, the `...Commits` and
`FanIn...` actions do the writes, `Rollback` is any failure. What a fan-in sees of a
sibling is what was committed when it locked it. Leases and fences are reduced to
`leased`, since `PlanSteps` has them.

* `SlotsRespected`: a machine never has more assignments than it reported slots.
* `LastFansIn`: a parent is completed only when every step and child is, and the
  last callback always closes the run.
* `NoFanInCycle`: admissions and fan-ins never wait for each other in a circle.

*Instances.* Two branches and their integration on one machine of two slots; two
plans of two steps on two machines of one slot, one of which may fall silent. Two
transactions are open at a time.

**Proofs** (`DeliveryProofs`), for any plans, machines, capacities and any number of
open transactions. `FanoutInv` is `FanoutTypeOK`, `RowsApart` (no row locked twice,
except a plan that callbacks share), `StepsInOrder` and `PlansCount` (how steps, assignments
and children may stand to each other, and that a run under way has a child that will call
back), `SlotsRespected`, and `TxnHolds` for each
transaction: what it has locked and learnt still holds, up to where it is. The heart is
`OthersHold`: a step that writes only rows its own transaction has locked leaves every
other transaction's knowledge standing. `SlotsRespected` is then kept because a
dispatch holds the heartbeat rows of the machines whose slots it counted.
`FanoutLastFansIn` needs that the callback that may
complete a parent finds every step and every other child completed (`IntegrationIsLast`,
from the acyclic graph). `FanoutNoFanInCycle` ranks the transactions by how far they are
in the one order in which tables are locked, and takes one of greatest rank.
`FanoutAssumption` asks of plans what `validateDAG` and `validateIntegrationGraph`
check before a plan is stored: dependencies within the plan, no cycles, and no step but
the integration that nothing depends on.

### Workflow

`Workflow.tla` models one work item: the gates of `workflow.go` with the evidence
`TransitionWorkItem` asks for, plans and change sets people record (two handlers
that write the row back without having locked it), admission in its two
transactions with the upload between them, the dispatchers of replicas that claim,
lose and finish durable intents, publication grants with their revocation,
invalidation and expiry, and what results do to the item.

* `OneRun`: an intent is carried out by one task, and a phase has one active run,
  however late a dispatcher whose claim has passed commits.
* `WithdrawnStays`: a grant that was revoked or invalidated is never live again, nor
  consumed. One that expired is never live again either, and is consumed only by a
  callback that read its clock while the grant was live. That restriction is real: the
  code compares the expiry with a time read before its transaction and its row locks
  (`automation.go:3123`), which `CallbackReads` models, so a callback that waits for the
  locks consumes a grant that expired meanwhile.

*Instances.* A new item, one under code review, one up for release; two replicas, a
replica and a person, or a replica and an unlocked writer; two attempts, diffs and
plan versions (the code blocks an intent after three refusals).

**Proofs** (`AgentProofs`), for any replicas, people, grants, plans and attempts.
`WorkflowInv` is `WorkflowTypeOK`, `CallersAsk` (a person's call works on a run of its
own, a dispatcher on that of an intent) and `RunsApart` (one task per intent, one active
run per phase). `WorkflowWithdrawnStays` follows from `GrantStep`,
which says from which states of a grant a step may take it to which, whatever older
copy a request holds, and that only a callback with its clock in time consumes it.

### Guests

`Guests.tla` models the guest row and the invitation. Bulk status, check-in and
undo lock rows and are one action each. An RSVP from the site, a PUT, the making of
a link and a deletion are requests of several statements that hold what they read
and write every column. Guests are put on the list before anything else, with any
answer `POST /guests` stores (`Lists`), which need not fit the status stored with it.
Two reads may fail without their request failing: the lookup of the catalogue status
(`found`), after which the answer is written and the status is not, and the second
reading of a PUT (`Unread`), after which the check-in is left as it was. Two history
variables say which requests wrote a row others had changed (`late`), what happened since
the last check-in, and whether the two columns were ever set apart (`trail`).

* `StatusFollows`: `guest_status_id` and `rsvp_status` agree for every guest who was put
  on the list in step and whose status was always found; no order of requests sets them
  apart.
* `UndoGivesBack`: an undo restores the answer the check-in found, and is refused
  once another came, unless a late request wrote the row, or a PUT whose second reading
  failed.
* `DeletedStays`: a deleted guest is never changed or revived.

*Instances.* Two requests on one guest with or without a link; an RSVP or a PUT against
a deletion or a link, on a guest who was put on the list unanswered, or as confirmed with
the status left at pending; a deletion racing the door over two guests. Each request is made once. Status codes a tenant adds itself
are not among the answers.

**Proofs** (`GuestsProofs`), for any list, invitations, requests and edits; the answers
a guest may give, or be put on the list with, are among the catalogue's codes. `GuestsInv` is `GuestsTypeOK`,
`AnswersInStep` (of a guest whose columns were never set apart, the two agree in the
row, in what a check-in kept, and in what open requests are going to write),
`ReadsCurrent` (a request that is not among the late ones holds what the check-in kept,
and the answer it will write back or compare with, as the row has them) and `UndoGivesBack`. `GuestsDeletedStays` is an action
property of the same invariant.

### Reviews

`Reviews.tla` models one pull request: deliveries that read the head at GitHub, look
up the task, recover it, or supersede queued reviews and insert their own; reviewers
that lease, renew, ask the model and report; polls that pick the first expired
lease, ask GitHub and replace, retire or fail it; the operator's retry. A run is
named by its claim, signatures and inputs are left out, as is what the reviewer
posts at GitHub.

* `OneOpenReview`: no two attempts at a commit are open, unless an operator asked.
* `RecoveryBounded`: abandoned reviews are replaced fewer times than the limit, and
  never where a call may have been paid for.
* `LiveReviewKept`: nothing but its reviewer ends a review with a live lease.

*Instances.* Two redeliveries and a poll over a queued review; two deliveries around
a second commit; a redelivery and a retry. No deadline passes while a delivery (at
most five minutes) or a poll (five seconds) is in flight; leases last twenty.

**Proofs** (`DeliveryProofs`), for any deliveries, polls, pushes, retries and limits.
`ReviewsInv` is `ReviewsTypeOK`, `DropsHeld` (what a transaction has superseded is queued,
and nobody else's), and five parts on the *line* of a review, the reviews that
replaced each other: it begins with one that was asked for (`LinesRooted`), only its last
is open (`OpenIsLast`), deliveries begin one line per commit (`OneWebhook`), all before
one whose reviewer vanished ended without an open call (`ReplacedAnswered`), and the lost
leases of a line are fewer than the limit and covered by the claims of its open review
(`LeasesCovered`). Lemma `Greatest` picks the last of several reviews (a least
counterexample, since induction over data is not at hand).
`ReviewsLiveReviewKept` follows from `Evolved`, how one step may change one review.

### Worker

`Worker.tla` models the runs that one queue message becomes. `ticket` is the task's
row as `claimAutomationTaskRun` and `Complete` see it, `message` the queue, `at` and
`outcome` the locals of `Process` in each run, `vault` the intent and the latest
result in private storage, `github` the branch and the pull request. Every callback
may be lost before or after it takes effect, every run may stop anywhere
(`ProcessFails`), the queue may deliver again at any time, and an operator may cancel
or revoke. A report refused because the hold lapsed leaves the message where it is,
which is `ProcessFails`. The local commit of a publication is left out: repeating it
changes nothing. `called`, `regained`, `overtaken` and `lateEffects` are history.

* `InferredOnce`: the provider is asked once per task, except by a run that was
  overtaken and got the task back.
* `AckedIsSettled`: the message is deleted only when the task has ended, or its
  cancellation was asked for, or the run that deleted it had been overtaken.
* `OneLateEffect`: after cancellation or revocation a run makes at most the one
  remote request its last renewal admitted.

*Instances.* Two deliveries of a task that asks a model and of one that publishes; a
lease of one tick. Two runs are an owner and a usurper, who can take turns.

**Proofs** (`AgentProofs`), for any number of deliveries and any length of the lease
(at least one tick). `WorkerInv` is `WorkerTypeOK`, `HeldOrTaken` (a run past
its claim holds the task or was overtaken), `Acking`, `CallingOnce` and `LateOnce`.
`InferredOnce` is not inductive: it needs that the intent is stored before the call, and
that once a call was made, every other run that may still make one was overtaken since
it looked for the intent. Both are `CallingOnce`.

## 8. Where the code and its comments disagree

Each is a run that TLC must refute, with a short counterexample.

* **Cancel against a renewal** (`plansteps_cancel_race`, `CancelSettlesAbandoned`).
  `Cancel` reads the lease, decides to settle the task at once because it has
  expired, and updates `WHERE id AND status`. A renewal or a takeover in between
  leaves the status `running`, so a task with a live worker becomes `cancelled`
  and the worker's completion is refused. The comment says "There is no live
  worker left".
* **A dead worker after its step settled** (`plansteps_abandoned`,
  `AbandonedRecoverable`). `ValidateAssignmentWorker` refuses a terminal
  assignment, so no run can lease the child task again; the comment says "a
  genuinely abandoned run becomes recoverable after the lease".
* **A slow idempotent request** (`idempotency_slow`, `SuccessReplayed`). It is
  taken over after two minutes; whichever of the two attempts fails deletes the
  row by id, together with the success the other recorded. The next retry
  performs the mutation again.

The models also show behaviours that have no run of their own.

* *The clock of an activity request* is read before two row locks and then held
  against the step lease (`plan_step_activity.go:104`), which a comment in the same
  package says must never be done (`plan_step_runtime.go:865`). The task lease is
  checked with a later clock, so the consequence is a late event, not a foreign
  one: `CompletedOnEvidence` still holds.
* *A table that is gone.* Tables are counted before they are locked
  (`EventTableRepository.go:96`); the lock and the capacity check pass over a table
  deleted in between, and guests are seated at it.
* *Lock order.* A plan has updated, and so locked, tables in the client's order
  before `lockTables` sorts anything (`EventTableRepository.go:169`). Two such plans
  can wait for each other; PostgreSQL aborts one, which is a `Rollback`.
* *An edit without a table* writes back the table it read
  (`GuestRepository.go:492`) and undoes an assignment committed meanwhile, where
  `docs/ROUTES.md:200` says it "keeps the stored table".
* *Exact capacity.* Which tables gain guests is read before anything is locked. If
  guest A sits at table 1 and another request moves A away and B in, an assignment
  that keeps A there by its earlier reading neither locks nor checks that table,
  against "the plan save and bulk assign lock the tables and are exact".
* *A late write at the door.* A PUT or the making of a link that read a guest before
  a check-in or an answer puts the old provenance back, so that an undo can restore
  an answer that was replaced; `models/Guest.go` says it "can never". Two concurrent
  `EnsureRSVPToken` calls orphan an invitation whose link was handed out
  (`GuestService.go:262`), and a deletion that plucked the invitation ids first leaves
  one unrevoked (`GuestRepository.go:515`), though the lookup of a live guest refuses it.
* *Two columns out of step.* `alignGuestStatusWithRSVP` "keeps guest_status_id and
  rsvp_status in step", but a failed lookup of the status is not an error there
  (`GuestService.go:429`) nor in an RSVP from the site (`InvitationService.go:390`), and
  the answer is saved without the status. `POST /guests` (`guests.go:521`) stores both as
  they are given. Hence the exceptions in `StatusFollows`.
* *An expiry that came while waiting*: see `WithdrawnStays` in section 7.
* *An object staff named twice.* `POST /moments` does not ask whether the object exists
  (`moments.go:610`), so the wall can list one that cannot be served. If it names what the
  worker will make of another moment, deleting it first leaves the purge an object that
  the other moment then comes to show. Hence the exceptions in `WallServes`.
* *A purge against a confirmation.* The purge of a deleted moment asks who else uses
  an object and deletes it later; a confirmation of the same presigned file in
  between makes a moment without an object (`moment_deletion.go:134`). `WallServes`
  holds, because the worker then fails.
* *Fan-in.* A cancelled queued child keeps its slot (`automation.go:1350`). When no
  machine is eligible the ready steps stay undispatched (`automation.go:3509`), and
  once the parent is cancelled the children's callbacks roll back
  (`automation.go:3424`).
* *Workflow.* A revocation stops the tasks of the grant's intents, not a run started
  by hand with the grant, nor one whose admission is between its two transactions
  (`publication_grants.go:324`); the result is refused. `CreatePlan` and its kin undo a
  gate decided meanwhile (`resources.go:594`, against `delivery.go:1228`). A child's
  callback can open code review early (`delivery_callback_projection.go:48`).
  Requested code changes leave grants live (`delivery.go:1430`). Human transitions do
  not advance the epoch that `continuation.go:348` compares.
* *Reviews.* A delivery that read an older head supersedes, when it comes late, the
  queued review of the newer commit, which redelivery does not recover
  (`automation.go:264`, against the comment at 258). A first candidate that cannot be
  recovered holds up the ones behind it (`automation.go:5257`). Two retries of a
  failed review are both open, and the second cannot publish.
* *A run that returns.* `claimAutomationTaskRun` treats a renewal by a run that was
  overtaken as a takeover once the other lease has lapsed (`automation.go:4436`). If
  the first run looked at storage before the other stored its intent, both call the
  provider; hence the exception in `InferredOnce`.
* *A message that goes too early.* The report of an overtaken run is refused with
  409, which `Process` takes for delivered, and the message is deleted while the other
  run works (`queue.go:273`, "deletes only terminally processed messages"). If that run
  dies nobody gets the task; hence the exception in `AckedIsSettled`.
* *An error to retry that cannot be retried.* When the provider answers with a
  temporary error the intent is already stored, so the next delivery reports an
  uncertain outcome instead of retrying (`worker.go:653`).
* *An unrecorded branch.* A push whose answer is lost fails without recording the
  effect (`publication.go:180`), unlike a lost answer for the pull request, which
  `failWithPublicationEffect` keeps.
* *Local scheduler* (read, not modelled). A review slot freed between `nextPending`
  and the check before the receive lets ordinary work be received beyond the free
  slots and wait without a visibility heartbeat (`queue.go:456`).

## 9. What is not proved or not modelled

* `Delivered` is liveness under fairness, which the proof system does not handle (nor
  `ENABLED`); TLC checks it. Every other property of a passing run is a theorem. Four are
  conditional: `LaneNotStarved` on `FewLegacy`, `NeverOver` on `OwnDrafts`, `AtMostOnce` and
  `SuccessReplayed` on `Prompt`; the instances meet these conditions.
* Induction over data is out of the prover's reach. Where a proof needs a least or a
  greatest element it takes it from the well-foundedness of the naturals.
* What the theorems assume are the named assumptions on the constants, which TLC
  evaluates on every run, and the abstractions each section names.
* The properties that the code violates are not theorems, of course; their runs
  are the record.
* Database behaviour is assumed: READ COMMITTED transactions, row locks held to
  the end of the transaction, atomic single statements. SQS may deliver twice and
  in any order. Clocks of replicas are assumed to agree up to what the modelled
  lags allow.
* Not modelled yet: of the workers, the implementation agent's loop and segmented
  reviews (several calls of one run), QA, and the local scheduler of `runQueue`; of
  the workflow, delegated coordinators, assessments, chat, decompositions, schedules,
  items of several repositories and the event ledger; agent profiles; prices and token
  accounting inside a call; caches; the evaluation of policies and of the release
  gate; of seating, guest creation and deletion and changing party sizes.
* The models cover the code that has protocol state: what several requests, replicas
  or workers change together, and what must survive a crash. Most of the repository
  has none. It validates, formats and edits single records (events, sections, pages,
  catalogues, users, clients), renders prompts, runs local tools, processes images, or
  declares routes and schemas; a state machine of it would restate it. That is why
  the map stays a small share of all lines.
* Not intended: request validation and formatting, object storage and image
  processing, declarative routing and migrations, telemetry, deployment scripts.
