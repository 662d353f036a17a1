# Whilly orchestrator: TLA+ models, model checking and proofs

Whilly hands out the tasks of a plan to worker processes through a Postgres
queue, runs agents on them, and carries product changes through GitLab.  This
directory holds TLA+ modules that model the parts where several actors touch the
same state, TLC configurations that check them on small instances, and TLAPS
proofs that hold for any number of tasks, workers, repositories and clients.

Paths below are relative to the repository root; `repository.py` is
`whilly/adapters/db/repository.py`, `server.py` is
`whilly/adapters/transport/server.py`.

## 1. Inventory

| Component | State it keeps | Operations | What is hard | Correct when |
|---|---|---|---|---|
| Task state machine (`core/state_machine.py`, `core/models.py`) | status and version of a task | `apply_transition` | everybody relies on "every change adds one to the version" | rows move along the table only, one version at a time |
| Postgres queue (`TaskRepository` in `repository.py`, `schema.sql`) | tables tasks, plans, workers, control_state, events | claim, start, complete, fail, release, skip, patch, delete, insert, reset, budget, pause, register, heartbeat, revoke | optimistic locks instead of held locks; READ COMMITTED snapshots; a spend charged after the claim that was checked | one owner per row in flight; the audit log agrees with the row; the budget gate and its sentinel agree |
| Sweeps (`_visibility_sweep_loop`, `_offline_worker_sweep_loop` in `server.py`) | none of their own | release stale claims, release the claims of silent workers | race with the owner they declare dead; a tick that fails | every orphaned claim comes back; nothing is released twice |
| Local worker (`worker/local.py`, `worker/main.py`, `cli/run.py`) | the Task object in its hand, the shutdown event | one loop over claim, start, run, verify, review, write | an await between any two calls; crash, SIGTERM, pause and sweep in each | stale writes never land; only a crash orphans a claim; SIGTERM ends the process |
| Remote worker and HTTP transport (`worker/remote.py`, `cli/worker.py`, `adapters/transport/client.py`, handlers in `server.py`) | the Task in its hand, the session's stop event, the control plane's URL, requests in flight | the worker's calls as POSTs that are retried | a request that was run and not answered, or runs after its caller gave up; a control plane that moves | as for the local worker, and a late request hits nobody else's claim |
| Human review (`pipeline/human_review*.py`, the gate inside `_CLAIM_SQL`) | `human_review.*` events | required, hold, approved, rejected | two gates written twice (Python and SQL); decisions older than the hold | nothing with a checkpoint is done without an approval |
| Repair policy (`repair/`) | repair tasks | insert the next repair task | separate transaction from the FAIL of the failed task | bounded attempts |
| Swarm runtime (`swarm/runtime.py`, `swarm/store.py`) | lease of a session, attempts, waiting tags, process groups | lease, recover, schedule, run worker and reviewer, accept, stop, re-run, apply a revision | agents outlive their coordinator; a lease expires under a live one; cancellation lands in any await | one agent per task, one acceptance, dependencies first |
| Swarm product saga (`swarm/change_set.py`, `change_set_store.py`, `product_publication.py`, `product_merge.py`, `product_delivery.py`, `gitlab_change_transport.py`) | the change set, its repositories, receipts of external effects | publish, merge all, compensate, deliver stage, accept, deliver production | no lock across calls: versions and receipts are all there is; GitLab does the effect and the answer is lost | the record says what happened in GitLab; nothing is done twice; merges and reverts in order |
| SSE and notify listener (`api/sse.py`, `api/sse_endpoint.py`, migration 011) | LISTEN connection, bounded queues, the position of each client | notify, fan out, subscribe, replay, live tail, drop | ids that commit out of order; replay overlaps live; queues overflow; the connection breaks | an event once, in order; nothing is missed without a cause |
| Event flusher (`api/event_flusher.py` and the lifespan in `server.py`) | asyncio queue, batches in flight | enqueue, tick, drain, shut down | two coroutines drain one queue; retries; a database that fails halfway | no record lost, none written twice without cause, shutdown ends |
| Plan import, reset, edits (`cli/plan.py`, `api/*_crud.py`, `plans_api.py`) | rows of plans and tasks | import, soft and hard reset, patch, delete, archive | run while workers hold tasks | versions a worker holds never fit by accident |
| DAG scheduler (`core/scheduler.py`) | none | topological sort, cycles, `next_ready` | pure algorithms | agree with reference definitions |
| Features of the product cockpit (`swarm/product_workflow.py`, `swarm/product_store.py`, `api/product_workflow.py`, `api/product_swarm.py`) | the row of a feature, its bindings, the jobs of each server | edit, set a budget, plan, approve, run, publish, stop | jobs of minutes between a read and its write; an advisory lock that can be lost; cancellation in any await | what runs is what was approved; a review is earned; nothing stays running |
| Learning (`swarm/learning`, `adapters/db/learning_*.py`) | proposals, evaluations | propose, evaluate, accept into a specification | revisions read before they are written | an acceptance takes effect once, and revokes an approval |
| Jira scheduler and watch loop (`cli/jira.py`, `scheduler/`) | processed keys | poll, import, write back | a crash between import and write-back | an issue becomes one task |
| Authentication, dashboards, intake, sinks, agents, legacy v3 modules | various | requests, parsing, external calls | little shared state with the queue | not in the plan |

How they interact: workers and operators call `TaskRepository`, directly
(`whilly run`, CLI, swarm coordinators) or through the server's routes (remote
workers, dashboard); the sweeps are background tasks of the server; all of them
meet only in the rows.  Human decisions arrive as events and are read by the
claim query and by the worker.  Transactions that write events notify the
server's listener, which feeds the open streams.  The flusher is fed by request
handlers and writes to the events table on its own.  The product saga shares no
row with the queue: its coordinators meet in the change set and in GitLab.
`PROJECT.json` lists every component with its status, and every hazard at its
line.

## 2. Plan

1. *(done)* `TaskLifecycle`, the abstract promise; `TaskQueue`, the queue that
   implements it; `LocalWorker`, the worker loops over the queue;
   `EventFlusher`.  Proofs for all four.
2. *(done)* `RemoteWorker`: the loop of `worker/remote.py` over the same
   `TaskQueue`, with requests that are retried, lost and late.  Proofs.
3. *(done)* `SwarmCoordinator` over the same `TaskQueue`: lease, recovery,
   attempts and agents.  Proofs.
4. *(done)* `ChangeSet`, the record, and `ProductSaga`, the coordinators that
   move it and GitLab.  Proofs.
5. *(done)* `EventStream`: notify, fan-out, replay and live tail.  Proofs.
6. *(done)* `FeatureWorkflow`: the feature's row, its jobs and the administrator.
   Proofs.
7. `DagScheduler`: `topological_sort`, `detect_cycles`, `next_ready` as
   functions, against reference definitions over all small graphs.
8. The Jira scheduler and its watch loop; leases of the memory store; the storage
   and evaluation of learning proposals.
9. *(done)* Proofs of every safety invariant the runs check; the theorems of the
   queue carried over to its three clients; `ChangeSet` as a store with arbitrary
   callers, and `AuditLog`, the abstract promise of the flusher.
10. Abstract specifications still to be stated and proved implemented: of a swarm
   session (each task accepted once, after its dependencies, by one agent at a time)
   and of the event stream (what a client has seen of the table).

## 3. Modules

| Module | Models | Composes |
|---|---|---|
| `TaskLifecycle` | `_VALID_TRANSITIONS` and the version rule, plus the operator's moves | - |
| `TaskQueue` | `TaskRepository`, the sweeps, plan import and reset, with arbitrary callers | refines `TaskLifecycle` |
| `HumanReview` | the worker's side of a checkpoint | extends `TaskQueue` |
| `LocalWorker` | the processes of `whilly run` | extends `HumanReview`, calls the actions of `TaskQueue` |
| `RemoteWorker` | the processes of `whilly worker`, the requests and the routes | extends `HumanReview`, calls the actions of `TaskQueue` |
| `SwarmCoordinator` | the processes of `whilly swarm run` and their agents | extends `TaskQueue`, calls its actions |
| `ChangeSet` | the record of a product change and its store | - |
| `ProductSaga` | the product coordinators and GitLab | extends `ChangeSet` |
| `FeatureWorkflow` | a feature's row, the jobs that plan, execute and publish it, the administrator | - |
| `EventStream` | the path of an event from its commit to a browser | - |
| `AuditLog` | what the flusher promises to the handlers: held until written | - |
| `EventFlusher` | the flusher and the lifespan that owns it | refines `AuditLog` |
| `MCTaskQueue`, `MCLocalWorker`, `MCRemoteWorker`, `MCSwarm`, `MCProduct`, `MCFeature`, `MCEventStream`, `MCEventFlusher` | instances and smaller next-state relations for TLC | |
| `TaskQueueProofs`, `LocalWorkerProofs`, `RemoteWorkerProofs`, `SwarmProofs`, `ProductSagaProofs`, `FeatureProofs`, `EventStreamProofs`, `EventFlusherProofs` | theorems and proofs | |

A definition whose comment says "Fault" is a plausible bug in the code its
neighbour models.  No specification uses it; `PROJECT.json` pairs each with the
property that it breaks.

### TaskQueue

`task[t]` is the row (status, version, claimed_by, and `aged`: claimed_at is
older than the visibility timeout).  `plan` is the plan's row with the number of
`plan.budget_exceeded` events written.  `worker[w]` has the status, whether the
last heartbeat is too old (`silent`) and the bearer token.  `paused` is
`control_state.paused`.  Of the events table, `review[t]` keeps the human-review
events of a task in order, because the claim query and the worker read them, and
`audit[t]` keeps the last transition event and whom the log names, because the audit
log is what an operator reads; a START event names no one, so after it `worker` is
still what the event before it said.

One action is one repository method, which is one transaction.  The exception is
the visibility sweep: `_RELEASE_STALE_SQL` selects in a CTE, on the statement's
snapshot, and updates the rows later, so it is split into
`ReleaseStaleSnapshot` and `ReleaseStaleApply`, and other transactions may commit
in between.  What the UPDATE re-checks is its own WHERE (the status), and the
owner written to the RELEASE event is the snapshot's.  `ReleaseStaleAbort` is the
tick that fails, or that loses all its rows.  `ResetKeepTasks(cut)` has the same
care: its DELETE of events sees an earlier snapshot than its UPDATE of rows.

`Claim` may take any row the WHERE clause admits: priority and SKIP LOCKED decide
which, and no property depends on it.  Money is in whole units, time is the flag
"older than the timeout".

### LocalWorker

`pc[w]` names the await the loop of w is at; `held[w]` is the task id and version
of the Task object it carries; `stop[w]` is the shutdown event.  Every database
call is one step and every wait for a subprocess is one step, so everything else
may happen between any two of them.

| pc | The code waits for |
|---|---|
| `poll` | reading the pause flag at the top of the loop |
| `claiming` | `claim_task` |
| `starting` | `start_task` |
| `started` | the pause flag after the start |
| `preparing` | the human-review event and the guards |
| `running`, `verifying` | the agent or the verification, raced with `stop` |
| `ran_ok`, `ran_bad` | the pause flag after the run |
| `repairing`, `reviewing` | the repair task, the review events |
| `completing`, `failing`, `holding`, `pausing`, `stopping` | the write that ends the iteration |

`Lost` is VersionConflictError: logged, nothing changed, next iteration.  An
exception of any other kind leaves `run_local_worker` and ends the process:
`Crash`, as for SIGKILL.  With `StableIds` a new process takes the id of a dead
one (WHILLY_WORKER_ID is set), otherwise an id is used by one process only.

### RemoteWorker

The same loop seen through HTTP, with three differences that matter.  It never
calls `start_task`, so it completes, fails and releases CLAIMED rows.  Every call
goes through `_request`, which repeats it after a transport error or a 5xx, up to
`Retries` times: `Unanswered` is one attempt without an answer, which the server
has run, will run later (`late`, drained by `LateArrives`) or never runs.  And
the process consists of sessions: `Rotate` is the watcher that sees another URL
and stops the session, `Leave` starts the next one.

| pc | The code waits for |
|---|---|
| `poll` | the pause flag, at the top of the loop |
| `claiming` | POST claim (a long poll) |
| `claimed` | the pause flag after the claim |
| `preparing` | the human-review event and the guards over prompt, secrets and shell |
| `running`, `verifying` | the agent or the verification, raced with the stop |
| `ran_ok`, `ran_bad` | the pause flag after the run |
| `repairing`, `inserting` | the repair request: its look at the failed row, its insert |
| `reviewing` | the review events |
| `completing`, `failing`, `blocking`, `holding`, `pausing`, `stopping` | the write that ends the iteration (`blocking` is a guard's fail) |
| `leaving` | the end of the session |

`held` is as in `LocalWorker`; `lossy` and `term` are history.  The other
workers of the instance are `whilly run` processes, reduced to the writes they may
make (`PeerStep`): to rows they own, which is what `FencedWrites` says of them.

### SwarmCoordinator

`lease` is the lease of `swarm_sessions`, `attempt[i]` a row of
`swarm_task_attempts`, `agents` the process groups alive, `waiting` the tasks
that carry the waiting tag, `allowed` the raised attempt limits.  `coord[c].pc` is
the coordinator: `begun` (has read the revision, not the lease), `recovering`,
`abandoning`, `freeing` (the three phases of `_recover`), `polling`, `claiming`,
`waiting` (the loop), `stopping`, `leaving`, `over`, `dead`.  `exec[c][t].pc` is
the coroutine `_execute` of one task: `fetching`, `checking`, `starting`,
`opening`, `preparing`, `spawned`, `working`, `ended`, `judging`, `accepting`,
`unblocking` in the try block, `failing`, `closing`, `losing`, `withdrawing`,
`releasing` in its handlers, and `limbo` for a coroutine whose write was committed
and not answered.  A cancellation (`Cancelled`) may meet any of them.  Merged or
left out: `register_worker` with the acquisition of the lease, the three writes of
one heartbeat, the count and the write of `RecoverTask`; the outcome column,
mailbox, agent-call budget, costs, prompts and worktrees.

### ChangeSet and ProductSaga

`ChangeSet` is the record: `product` and `repo[r]` with status and version,
`receipts[e]` with intent and result of one external effect.  `Move` and
`MoveRepo` are `transition` and `transition_repo`, each one transaction that names
the version it was decided on.  `StoreSpec` is the store alone, under callers of any
kind: any version, target, evidence and outcome.

`ProductSaga` adds coordinators, each in one call at a time (`job[c].at`), and
GitLab (`mr`, `moved`, `done`).  A pair of points `x`, `x_write` is a read and the
write that relies on it.

| Points | Code |
|---|---|
| `look`, `guard`, `intend`, `perform`, `record` | `_effect`, `_merge_effect`: the receipt, the recheck, the intent, the effect, the result |
| `pipeline`, `mr_write`, `green_write` | `prepare_repo_change` |
| `ready` ... `merged_write`, `broken`, `broken_write` | `merge_all` |
| `undo` ... `undone_write` | `_compensate` |
| `stage_write` ... `accept_write`, `roll`, `roll_write` | `deliver_stage`, `_rollback_boundary` |

A merge or revert takes several GitLab requests; it is one effect here, done or
not, answered or not.  The shield against cancellation around an effect, the
validation of artifacts, the title of a merge request, and digests other than
those of the registry file and of the repository's version are left out.
Nothing in the repository but tests constructs the two coordinators; the model
lets them be called at any time.

### FeatureWorkflow

`feature` is the row of `swarm_product_features` (status, revision, specification,
budget, plan, the digest to approve and the digest approved), `binding` the row of
`swarm_product_specs` that `prepare` wrote last, `session` what planner and
coordinator did in the feature's swarm session.  A digest covers the revision it was
made with, so the revision stands for it.  `job[s]` is the feature's entry in the
`jobs` of server s, and `lock` the server that holds the advisory lock.

| at | The job waits for |
|---|---|
| `locking`, `unlocking` | the advisory lock; its release and the end of the task |
| `reading`, `permitting`, `beginning` | `execute`: the feature, the permission, `begin_run` |
| `applying`, `importing`, `starting`, `checking`, `working`, `accepting` | the revision applied or resumed, the coordinator's rounds, the permission before each acceptance |
| `finishing`, `escalating` | `finish` with the digest; `invalidate` before a new plan |
| `planning`, `revoking`, `asking`, `preparing` | `plan`: the feature, `invalidate`, the planner, `prepare` |
| `publishing` | `publish_feature` |
| `undoing`, `failing` | `invalidate` in the handler of `execute`, and in that of `submit` |

`Raise` is everything that may go wrong at any of them, with the statement in effect
or not: an error, a refusal, a time limit, a drifted registry, the cancellation that
follows a stop.  `Stop` is the administrator's; the cancellation that comes with it
is one of the ways to raise, since it reaches the jobs of one server only.  A
handler may be interrupted, the lock lost and a server killed; `orphaned` remembers
whose mark nobody will then take away.  The plan's tasks are one task, which is
accepted or not, and the rounds and re-runs of the coordinator are left to
`SwarmCoordinator`.

### EventStream

`table` and `open` are the ids committed and drawn, `notices` what Postgres has
queued for the listener, `stream[c]` the generator of a client's response: `at` is
`off`, `asking` (the replay query), `replaying` or `live`; `listed` says that the
broker knows its queue, `mark` is `high_water_mark`.  Frames on the way when a
connection breaks count as not sent.  A batch of rows in one transaction is a run
of consecutive commits.  `asked`, `start`, `forgotten`, `late`, `lost`, `evicted` and
`cut` are history: no guard reads them, and they say why an id may be missing.
`start[c]` is fixed at the first request of c; what is notified between it and a later
request without a position goes to `forgotten[c]`.  Malformed or truncated notices,
pings and authentication are left out.

### EventFlusher

Two drainers share one queue: `run()` and the lifespan's own `drain()`.  `phase`
says where each is inside `_drain_once`.  An insert succeeds, is refused by
Postgres (down, or a record whose task or plan was deleted: `Orphans`), is
committed with the answer lost, or raises something that is not a PostgresError.
Which of the failures a run allows is the constant `Failures`.

`AuditLog` says the same to a handler that has called `enqueue`, without queue,
batches, drainers or retries: a record is held until an insert of it was answered,
an unanswered one leaves it held, and only an exception that ends a coroutine gives
it up.  `ImplementsLog` is that promise, with the records in the queue and in both
batches as those held.

## 4. Runs

Bounds: `MaxVersion` stops claims, edits and soft resets of rows at a higher
version; `MaxReview` stops review events (a hold may follow the last one);
`MaxLost` stops lost answers of the flusher's database, `MaxLate` requests that
nobody waits for; `Attempts` is the number of attempt rows; `MaxRetries`,
`MaxFaults` and `MaxBlocks` stop repeated compensations, faults and holds of a
product change; `MaxId` stops ids; `MaxRevision` and `MaxPlans` stop revisions of a
feature and of its plan; `RowVersions` stops the steps of one row.  They bound counters only, never a race.

| Run | Instance | Checks | Shows |
|---|---|---|---|
| `queue` | 1 task, 2 workers, version 3, every action; or 3 tasks, 1 worker, costs {0, 2}, budget 2, callers and soft reset, MaxVersion 4; 228 394 states | `OwnedIffClaimed`, `AuditTellsStatus`, `ImplementsLifecycle`, `BudgetOvershootBounded`, `OneSentinel` | row, owner and audit log agree after any order of calls, sweeps and operator commands, and the queue refines the state machine; overspending is bounded by what was in flight, with exactly one sentinel |
| `local_fence` | 1 task, 2 worker processes, MaxVersion 3; 566 014 states | `FencedWrites`, `OrphansOnlyByCrash` | a write presented with a fitting version is the owner's; whatever a live worker owns it can still give back |
| `local_review` | a task with a checkpoint and its repair task, 1 worker, stages {none, qa}, MaxVersion 3, MaxReview 3; 765 199 states | `ReviewedBeforeDone`, `HeldUntilApproved` | neither gate lets a task through without an approval |
| `local_liveness` | 1 task, 1 worker whose id is reused, MaxVersion 4; 82 028 states | `ClaimsRecovered`, `ShutdownTerminates` | no claim stays orphaned; SIGTERM ends the loop |
| `remote` | a task with a checkpoint and its repair task, 1 remote and 1 local worker, 1 retry, 1 late request, MaxVersion 2, MaxReview 1; 525 952 states | `RequestsFenced`, `OrphansOnlyByLoss`, `RemoteReviewedBeforeDone`, `StopEndsUnlessRotating` | repeated and late requests hit nobody else's claim, and complete nothing unapproved; only a lost answer or a crash orphans one; a stop ends the process unless a rotation swallows it |
| `swarm` | 2 coordinators on one host, 3 tasks (t2 depends on t1, t3 belongs to a second revision), 2 attempts; 556 896 states | `OneWorkerAgent`, `AcceptedOnce`, `DependenciesFirst` | an agent left behind keeps everybody else away; one acceptance per task; no task before its dependencies |
| `product` | 2 repositories, b depends on a, 2 coordinators, one retry or one fault; 577 999 states | `RecordConsistent`, `EffectsOnce`, `SuccessIsReal`, `DependencyOrder`, `RollbackIsReal`, `ApprovedFirst`, `RecordKept` | what the record says happened in GitLab; nothing twice, and nothing before the approval; merges and reverts in order; a version names one content |
| `feature` | 2 servers, 2 budgets, 2 revisions of the feature, 2 of its plan; 483 638 states | `ApprovalCovers`, `RunningHasRunner`, `ReviewEarned`, `DigestsFinal`, `RunsEnd` | what runs was approved as it is; a digest that was revoked never counts again; a review is of the plan that was done; nothing stays marked running |
| `events` | 1 client, 4 ids, queue of 2, replay of 2; 287 722 states | `StreamTypeOK`, `InOrderOnce`, `GapsHaveCause`, `StreamDelivers`, `DroppedStreamsEnd` | each event once and in order; a missing one has one of five named causes; live events come through; a dropped stream ends |
| `flusher` | 3 records, one never insertable, batches of 2, refused, ambiguous and foreign failures; 37 954 states | `DroppedOnlyByEscape`, `CopiesByLossOnly`, `ImplementsLog`, `DeliveredOnceUp`, `ShutdownEnds` | a record is lost only with an exception nobody catches, written again only after a lost answer; both coroutines come to an end |
| `swarm_evidence`, `product_unresolved` | smallest instances | `DoneHasEvidence`, `ObservedMergeUndone`, violated | section 6 |

Why the bounds suffice.  A race over a row involves its owner, one rival and one
sweep: two workers and one task.  A lost claim that is claimed again and written
to by the first owner needs three version steps; `MaxVersion` 2 still lets a
claim at version 2 be started and completed (to version 5).  In `queue` the scope
with every action stops at version 3, which is a second claim of the row by
somebody else, or a release of a started one.  A review that is
required, held, approved and done needs a second claim at version 3 and three
events before it.  The budget needs three tasks: one to cross the line, one in
flight while it happens, one that must not be claimed any more.  Batches of two
over three records make a full and a partial batch, and one record that is never
accepted makes both succeed or fail depending on who shares its batch.  One retry
makes a request that is run twice, and one late request makes one that runs after
its caller has claimed again.  A coordinator that dies and one that takes over,
with two attempts, let the second find the first one's agent alive, dead or not
recorded.  Two repositories, one depending on the other, make a partial merge, and
two coordinators every race for a receipt.  Two servers, two revisions and two plans let a job that
lost its lock finish, prepare or fail after another one blocked, planned and ran the
feature again under a second approval.  A queue of two overflows with three
events, so that the sentinel evicts one and leaves one; a replay of two is cut
off by the third row, and the fourth id comes after either.

Some runs restrict the next-state relation to keep the instance large where it
matters.

* `RunSpec` of `queue` has two scopes, chosen at the start.  In `"row"` everything
  happens, to one task: the others are only imported and removed with the plan.  In
  `"money"` three tasks share a budget, and only the callers and the soft reset act;
  nothing else changes money or lets a done task run again.
* `ReviewSpec`: the worker loop, the decisions and the soft reset; nothing else
  writes review events.
* `FenceSpec` leaves out the archiving of the plan, which only edits look at, and
  the revocation of a bearer, which frees claims as the offline sweep does.  Both
  are in `queue` and `local_liveness`.
* `TransportSpec` leaves out silent heartbeats (claims are freed by the visibility
  sweep), edits, resets and later review decisions, which the queue's and the local
  worker's runs have.  The task is approved before any worker runs, or never: in
  the first case the loop completes it, and the local worker, skips and rotations
  stay out; in the second it holds or fails it, and they take part.
* `SessionSpec`: c1 comes first and may crash, stall or be stopped, c2 takes over;
  signals act like the stop flag and the sweeps like the recovery.  `FollowsFirst`
  and `SecondLife` cut the search where the rest of the plan only multiplies
  states: t2 is followed to its claim and t3 to its import; a stop of c1 as long
  as t1 was not claimed again; coroutines in limbo for c1 only; and after the
  fifth version of t1 the rest of the plan stays as it is.  A stop after a takeover
  and an unanswered write of c2 are therefore covered by the proofs, not by the
  run.
* `ProductSpec` starts from a draft without faults (`DraftInit`) or from a change
  set of which b is published and a about to be (`LateInit`), with one compensation
  retry or one fault; a is published after b, and clients work on repositories
  while no coordinator is in a call.  `SagaSpec`, of which the theorems speak, has
  no such restriction.
* `FewSpec`: at most two open transactions; the client has asked before the second
  one has committed, so that its first request finds no id or one; and the server is
  stopped after the last id was drawn.

`queue`, `local_fence` and `product` use symmetry of workers or
coordinators; nothing in them tells these apart, and no run with a liveness
property uses symmetry.  Deadlock is not checked in the swarm, product and feature
runs: a session that is over, a change set that is done and a feature that is at the
last revision may stop.

Fairness.  `ClaimsRecovered` assumes `SweepFairness`: time passes, the sweep loop
keeps ticking (it is a `while not stop` loop that swallows the exceptions of a
tick), and not every tick fails (strong fairness of the apply step, which an
abort disables again).  It assumes nothing of the workers, so it covers the claim
of a worker that is dead, hung or revoked.  `ShutdownTerminates` and
`StopEndsUnlessRotating` assume `LoopFairness`: asyncio runs every coroutine that is
ready, and a request is answered, refused or times out.  They do not assume that
an agent or a verification ever ends, nor that a sweep runs.  `FlusherSpec`
assumes the same of the two drainers, that an insert returns or raises, and that
the clock goes on; `DeliveredOnceUp` and `ShutdownEnds` add that Postgres is up
for good from some time on and no record queued is an orphan.  `StreamFairness`
says that asyncio runs the listener's callback and the generators;
`StreamDelivers` adds that the listener stays connected and the client's stream
stays open from some time on.  `RunsEnd` assumes `JobFairness`: the event loop of a
server runs its jobs, whose calls return, raise or time out (`execute` runs under
`asyncio.timeout`, and the agents have limits of their own).  It does not assume
that a call succeeds, nor that a lock is kept, and excepts the runs of a server that
was killed or could not write.  No liveness is claimed of the swarm and of product
changes: a coordinator that gives up waits for an operator.

Every property has a mutant in `PROJECT.json`: a definition of the model with a
plausible bug under which TLC finds the property violated.

## 5. Proofs

| Module | Theorem | States |
|---|---|---|
| `TaskQueueProofs` | `QueueTypeSafe` | `QueueSpec => []QueueTypeOK` |
| | `OwnedSafe` | `QueueSpec => []OwnedIffClaimed` |
| | `QueueImplementsLifecycle` | `QueueSpec => ImplementsLifecycle` |
| | `AuditSafe`, `HeldSafe` | `QueueSpec` keeps `AuditTellsStatus`, `HeldUntilApproved` |
| | `SentinelSafe`, `OvershootSafe` | `QueueSpec /\ BudgetKept` keeps `OneSentinel`, `BudgetOvershootBounded` |
| `LocalWorkerProofs` | `LocalTypeSafe`, `FenceSafe`, `OrphansSafe`, `ReviewedSafe` | `LocalSpec` keeps `LocalTypeOK`, `FencedWrites`, `OrphansOnlyByCrash`, `ReviewedBeforeDone` |
| | `LocalImplementsQueue`, `LocalQueueSafe` | `LocalSpec => QueueSpec`, hence `OwnedIffClaimed`, `AuditTellsStatus`, `HeldUntilApproved`, `ImplementsLifecycle` |
| `RemoteWorkerProofs` | `RemoteTypeSafe`, `RequestsSafe`, `OrphansByLossSafe` | `RemoteSpec` keeps `RemoteTypeOK`, `RequestsFenced`, `OrphansOnlyByLoss` |
| | `RemoteImplementsQueue`, `RemoteQueueSafe` | `RemoteSpec => QueueSpec`, hence the same four |
| | `RemoteReviewSafe`, `AllRemoteReviewSafe` | `RemoteSpec` keeps `RemoteReviewedBeforeDone`; `ReviewedBeforeDone` if all workers are remote |
| `SwarmProofs` | `SwarmTypeSafe`, `OneAgentSafe`, `AcceptedOnceSafe` | `SwarmSpec` keeps `SwarmTypeOK`, `OneWorkerAgent`, `AcceptedOnce` |
| | `SwarmDependenciesFirst` | `SwarmSpec => DependenciesFirst` |
| | `SwarmQueueSafe` | `SwarmSpec` keeps `OwnedIffClaimed` and `AuditTellsStatus`, and implies `ImplementsLifecycle` |
| `ProductSagaProofs` | `SagaTypeSafe`, `RecordSafe`, `OnceSafe`, `SuccessSafe`, `RollbackSafe`, `OrderSafe` | `SagaSpec` keeps `SagaTypeOK`, `RecordConsistent`, `EffectsOnce`, `SuccessIsReal`, `RollbackIsReal`, `DependencyOrder` |
| | `SagaImplementsStore` | `SagaSpec => StoreSpec` |
| | `StoreRecordSafe`, `StoreKeptSafe`, `SagaKeptSafe` | `StoreSpec` keeps `RecordConsistent` and implies `RecordKept`; so does `SagaSpec` |
| | `ApprovedSafe` | `SagaSpec => []ApprovedFirst` |
| `FeatureProofs` | `FeatureTypeSafe`, `ApprovalSafe`, `RunnerSafe`, `ReviewSafe` | `FeatureSpec` keeps `FeatureTypeOK`, `ApprovalCovers`, `RunningHasRunner`, `ReviewEarned` |
| | `DigestsSafe` | `FeatureSpec => DigestsFinal` |
| `EventStreamProofs` | `StreamTypeSafe`, `OnceInOrderSafe`, `GapsSafe` | `StreamSpec` keeps `StreamTypeOK` (and that no stream the broker knows has been told to end), `InOrderOnce`, `GapsHaveCause` |
| `EventFlusherProofs` | `FlusherTypeSafe`, `NothingDropped`, `NothingTwice` | `FlusherSpec` keeps `FlusherTypeOK`, `DroppedOnlyByEscape`, `CopiesByLossOnly` |
| | `FlusherImplementsLog` | `FlusherSpec => ImplementsLog` |

They rest on the assumptions about constants that the modules name
(`QueueAssumption`, `ReviewAssumption`, `WorkerAssumption`, `RemoteAssumption`,
`SwarmAssumption`, `ChangeSetAssumption`, `SagaAssumption`, `FeatureAssumption`,
`StreamAssumption`, `FlusherAssumption`: constants have their types, Tasks is finite, dependencies
follow the rank) and on nothing else; the bounds may be any numbers, and the
theorems are about the unrestricted specifications.

*The queue.*  The argument is about one row at a time.  `CallerStepRows`,
`BackgroundRows`, `OperatorStepRows` and `ReimportStepRows` show that whatever
statement runs, every row is claimed, started, ended, freed, edited, aged,
created, removed or left alone (`RowStep`).  Types, ownership and the refinement
follow from these cases without looking at the actions again.  The refinement
needs one more invariant, `AbsentAtZero`: a row that is not there has version 0,
so that `Create` starts at 0.

*The fence.*  `FencedWrites` is not inductive: a handle with a version *above*
the row's would fit later, after somebody else has claimed.  The inductive
invariant is `HandlesOK`: the version in the hand of a worker is at most the
row's; if they are equal, a row in flight is still this worker's, and at
`starting` it is still CLAIMED.  `RowKept` says what a step of anybody else may do
to a row: versions never fall, and a row whose version stays keeps its status and
owner.  It holds for every step of `LocalNext`, since each bumps the version or
leaves the row; it does not hold for `ReimportStep`, which removes rows and starts
versions again.  That is why the theorem is about `LocalSpec`.

*Orphans.*  `OrphansOnlyByCrash` is inductive together with `HandlesOK`: only
`ClaimTask` and `StartTask` make a claim or move one on
(`OthersClaimNothing`), both leave the new version in the hand of the owner, and a
write of the loop that is `Lost` cannot be an owner's, because the owner's handle
still fits (`AttendedStep`).

*The audit log.*  `Agree(row, e)` relates the row of one task and its last event;
it is inductive with the types.  A statement changes one row with one event
(`OneRowAgrees`), frees a set of rows with an event each (`FreedRowsAgree`), or
changes neither status nor owner (`SilentRowsAgree`); a row created anew finds no
event that contradicts it, since the row before it was absent.  `Start` writes an
event that names no one and leaves the owner alone, so what the CLAIM said before it
is still true of the row.

*The hold.*  `HeldUntilApproved` is inductive with the types.  A row enters a
worker's hands by a claim only, whose own WHERE clause has seen every hold cleared by
a later approval (`ReviewHeld`), and reaches an end from there.  A hold is appended by
the release that gives the row back, and events are deleted only by statements that
leave the row `PENDING` or remove it.

*The budget.*  Both theorems have the hypothesis `BudgetKept`: while the row of the
plan stays nobody patches its budget.  Without it they are false (a budget that is
lowered below the spend has no sentinel, one that is raised may get a second), and
section 6 says so.  The count of the runs is not inductive at a budget of 0, where
nothing was spent and the gate is closed; `IdleAtZero` adds that nothing is in
flight then.  `BudgetOvershoot` is an argument by potential: a claim is granted only
below the budget and takes a share, a completion turns a share into at most the
highest cost, and every other step gives shares back.

*Approvals.*  `ReviewedBeforeDone` follows a decision from the read to the write.
`CompletingReviewed` says that a loop which is about to complete a task with a
checkpoint at the version that its row has finds an approval among the events:
`CheckReview` read it, and a soft reset, which deletes events, also bumps the
version.  The write then fits only while the approval stands.  For the remote worker
the same is said of every request on its way.  A row that is done keeps
`claimed_by`, so `RemoteReviewedBeforeDone` speaks of what remote workers
completed; beside it, local workers may complete tasks by `LocalWorker`'s rules,
which `RemoteWorker` abstracts (`PeerStep`).

*One queue, three clients.*  `QueueSpec` lets anybody call any method with any
argument.  That `LocalSpec` and `RemoteSpec` imply it makes every theorem of the queue
one of theirs.  `SwarmSpec` does not imply it: the beat of a coordinator, the re-run of
a failed task and a new revision write rows with statements of their own.
`SwarmQueueSafe` proves for these three what the queue promises.

*The remote worker.*  The fence is the local one's for handles (`HandlesFenced`)
and for requests on their way (`LateFenced`), from the same lemmas about rows.
`OrphansOnlyByLoss` needs two facts more (`TracksAll`): an owner's bearer is
valid (`OwnersHaveTokens`), so that a refused request cannot be an owner's, and a
late claim belongs to a worker that is marked as left without an answer
(`LateClaimsLost`).

*The swarm.*  `AgentInv` ties each worker agent to an attempt that is running
(`AgentsRun`), of which a task has one (`OneRunning`); a coroutine that is not
waiting for its agent has none alive (`ExecAttempts`), and what a recovery is about
to abandon is dead and stays so (`RecovDead`).  `HasAttempt` says which coroutines
hold an attempt.  `AcceptedOnce` is inductive with these, `FutureAbsent` (tasks of a
revision that was not applied do not exist) and `DependenciesDone` (a task without
the waiting tag has its dependencies done); DONE is never left.

*Product changes.*  `TypeInv` adds to the types what a job keeps between two
steps.  `OnceInv` says that an effect was done at most once, and not at all by a
coordinator that is about to do it: the receipt's intent has one holder.
`RecordInv` relates the product's phase and the repositories.  `RealInv` relates
the record to GitLab: requests, receipts, rows, completion and order.  A step of a
job relies on what it read some steps before; `AllFit` (`MergeFits`, `UndoFits`,
`DeployFits`, `AcceptFits`, `EffectFits`) says for every point what still holds of
it, and `Steady` and `Earned` that no other coordinator, fault or client takes it
back.

*The store.*  `SagaImplementsStore` shows that a coordinator, a client or a fault
changes the record by one call of one method at a time; it needs `AnswerInv`, that
the outcome of an effect which a job is about to record is one.  `RecordConsistent`
turns out to hold of the store by itself, whoever calls (`StoreRecordSafe`), and so
does `RecordKept`: a version names one content for ever, which is what makes a
compare-and-set of versions enough; ends are final and receipts are not rewritten.
`ApprovedFirst` says that GitLab was asked for nothing before the approval was
recorded; its strengthening `ApprovalInv` adds the phases that come after
the approval and the jobs that are past their entry checks.

*Features.*  `StoreStep` lists the ways the row can change: invalidated, drafted
again, approved, begun, finished, prepared.  `ApprovalInv` is inductive under these
alone: a digest in the row is its revision, and the binding is what the row says, so
whatever an approval names is in the row.  `RunnerSafe` follows the job that made
the row running: no place between `begin_run` and the handlers' `invalidate` leaves
without writing or being remembered as orphaned.  `ReviewSafe` needs that a digest is
never used for two plans (`ReadInv`: the plan a job read goes with the digest it
read, as long as that digest is approved), and that a job which is about to finish
has its plan done (`FinishInv`); hence a job that finishes late, without its lock,
finishes its own approval or nothing.  `DigestsFinal` is the action property behind
it, for whoever keeps a digest outside the modelled jobs (a page, a request): with
`GrantInv`, that nothing but the digest of the row is approved, a digest stands for
one content while it is in the row, and one that left the row neither returns nor is
approved again.

*The stream.*  An event is due to a client when it is committed, not excused and
not seen.  The invariant follows it: a due event is above everything the client has
seen and is among the rows still to be yielded, in the queue, or among the notices
while the broker knows the client (`Coming`); a stream that is off or asking will
find it in the table.  `RowsInOrder`, `QueueInOrder`, `NoticesInOrder`,
`QueueFirst` and `RowsFirst` say that what comes first has the smaller id unless a
larger one was committed before, which `late` records; `NothingBelow` and `Marked`
that nothing due is below the mark that filters the queue.  A request without a
position empties what is due down to the notices still on their way: at the first one
the rest is `start`, at a later one `forgotten`.

*The flusher.*  `DroppedOnlyByEscape` needs `HandsEmpty`: a drainer that is not
inserting holds no batch, so that the next batch it takes overwrites nothing; and
`ExitWaits`: the second drainer has not begun before the shutdown.
`CopiesByLossOnly` needs `Apart`: a record is at one place only, at most once in
the queue or in one drainer's batch, and a record in the table is elsewhere only
after a lost answer.  `FlusherImplementsLog` uses the same three: each step of a drainer
moves records between queue and batches (no step of `AuditLog`), or is one of its
actions on the batch in hand.  The lemmas `AppendKeeps`, `ConcatKeeps`, `SplitKeeps` and
`AppendApart`, `ConcatApart`, `SplitApart` say what the queue operations do to the
records of a sequence.

Only model-checked: the liveness properties (`ClaimsRecovered`, `ShutdownTerminates`,
`StopEndsUnlessRotating`, `RunsEnd`, `StreamDelivers`, `DroppedStreamsEnd`,
`DeliveredOnceUp`, `ShutdownEnds`), since liveness under fairness is out of the
prover's reach.  Every safety property of a passing run is proved, for the
unrestricted specification.  Only proved, and not repeated by the runs: the type
invariants, except `StreamTypeOK`, which bounds the queues.

## 6. What the checks found

With a run that exhibits it:

* `swarm_evidence`: a stop or an error that meets `_execute` after `accept_task`
  has committed turns the accepted attempt into a cancelled or failed one
  (`finish_attempt` does not look at the status); the task stays DONE without
  accepted evidence, and what depends on it is never released.
* `product_unresolved`: `merge_all` reads the target branch before it looks at its
  receipt.  A coordinator killed between the receipt of a merge and its record finds
  the target moved by that very merge, and the change set ends FAILED with a
  repository merged.

Observed while modelling, without a run of their own.  The queue and its workers:

* the visibility sweep looks at `claimed_at` only, so it takes a long-running task
  from a worker that heartbeats; `worker/main.py:25-30` says the heartbeat prevents
  this;
* `_CLAIM_SQL` never looks at `tasks.dependencies` (`repository.py:382`), and
  `next_ready`, which does, has no caller in the claim path; only swarm sessions
  hold dependents back, by their waiting tag;
* after `reset_plan(keep_tasks=False)` and a re-import versions start at 0 again,
  so a COMPLETE of the earlier run can fit another worker's claim; the re-import
  also creates the plan without its budget;
* the RELEASE event of the visibility sweep may name the owner of the snapshot
  instead of the worker whose claim was taken (`AuditTellsStatus` is therefore
  stated for the owner of rows that have one);
* the START event carries the version alone (`repository.py:2053`), unlike CLAIM,
  COMPLETE, FAIL and RELEASE: of an `IN_PROGRESS` row the last event does not tell the
  owner, and a reader has to go back to the CLAIM before it;
* the approval of a review that arrives between the worker's look at the events
  and its release precedes the hold and does not count for the claim gate, so a
  second approval is needed (`local.py:1026`);
* the repair task is inserted in a transaction of its own before `fail_task`, which
  may then lose the claim (`local.py:1004`);
* the spend of a run that loses its claim, or fails, is never charged; a budget
  that an operator lowers or raises closes the gate without a sentinel or with a
  second one, and archiving a plan does not stop claims;
* a `complete` repeated after a lost answer gets a 409 with the next version, not
  the "actual_version == expected_version" by which `server.py:1889` tells an
  idempotent retry; a release sent to a control plane that is gone is
  only logged, and the worker reconnects owning the row;
* `run_remote_worker_with_rotation` gives its loop `inner_stop` only, so a SIGTERM
  that meets a rotation is swallowed (`remote.py:1936`, against its docstring at
  1893); hence the last disjunct of `StopEndsUnlessRotating`;
* with `--once`, the guards' fails skip the check of `max_processed`
  (`remote.py:917`), so more than one task may be processed.

The swarm:

* a stale lease lets the attempts exceed `max_attempts`; `run()` reads the applied
  revision before it has the lease; a stop requested while a lease has expired and is
  renewed later is lost;
* a cancellation in the middle of `_fail`, or a `start_attempt` that is committed
  and not answered, leaves a running attempt without a process group, and every
  later recovery refuses the session;
* a re-run that races with `_fail` makes the loop stop at a duplicate claim.

Product changes:

* compensation of a repository that is ARTIFACT_READY always fails, since the
  evidence of the deployment has replaced that of the merge
  (`product_delivery.py:262`), and the change set stays ROLLBACK_FAILED;
* a crash between the last READY_TO_MERGE of a repository and MERGING wedges the
  change set: the barrier wants `exact_sha_pipeline` as the last evidence;
* a repository resumed from BLOCKED needs that evidence too, and the receipt of a
  push from before the hold names another version, so it asks for a
  reconciliation;
* a merge whose answer is lost ends in FAILED with the repository merged; a
  coordinator inside its loop does not look at the product's status and may merge
  after another one gave up.

Features:

* `execute` keeps a feature under review when its publication is refused ("Preserve
  approved evidence for explicit publication retry", `product_workflow.py:403`), but
  the explicit retry runs in a job of its own, whose handler invalidates the feature
  (`api/product_workflow.py:96`): a refused retry revokes the approval of work that
  was accepted;
* the router builds its workflow without a publication backend
  (`api/product_workflow.py`), so each such retry is refused, and what follows the
  first `return` of `publish_feature` never runs;
* a stop cancels the job of the server it reaches.  A job that plans on another server goes
  on, and its `prepare` succeeds after the stop, since `invalidate` does not add to
  the revision it compares; what it prepares has to be approved again.

Streams and flusher:

* the sentinel of a full queue takes the place of the oldest event and comes last
  (`sse.py`; its docstring says the head), the newer events are still delivered, and
  the evicted one is never replayed: the client comes back with a larger id;
* ids that commit after a larger one are passed over by `high_water_mark`, notices
  while the listener reconnects are lost to open streams, and rows cut off by the
  replay limit cannot be asked for once the stream has gone on;
* a client whose stream broke before its first frame has no `Last-Event-ID` to come
  back with, and without one nothing is replayed (`sse_endpoint.py:199`): what was
  notified since its first request is gone, in the queue of the broken stream or
  while there was none;
* `GapsHaveCause` says that these five are the only gaps.  `README.md:148` promises
  that a worker catches up "without losing any committed event", which each of the
  five contradicts;
* `drain()` reads its deadline only between calls of `_drain_once`
  (`event_flusher.py:358`), which does not return while failing batches are put
  back; hence the healthy database in `ShutdownEnds`;
* `_flush_batch` catches `asyncpg.PostgresError` only (`event_flusher.py:439`); a
  refused connection is an `OSError` and drops the batch: the first disjunct of
  `DroppedOnlyByEscape`;
* a record whose task was deleted keeps its whole batch out of the table.

## 7. Not modelled, and why

* `max_iterations` of the worker loops (tests only), logging, LLM session records
  and the post-complete hook: no modelled state.
* `repair.*`, `llm.*` and prelude events, pull-request and Jira records, bootstrap
  tokens, repo targets: rows nothing in the modelled components reads.
* The text that decides whether a task needs a review, the gates over prompts,
  and the repair policy's counting: constants (`ReviewTasks`, `StageOf`,
  `NextRepair`) or free choices (`Prepare`).
* The abstractions named in section 3 for the swarm, product changes, features and
  streams.
* The chief's discussion, which only creates features, and the storage of learning:
  of it, `AcceptForPlanning` is what reaches a feature.
* Most of the repository by lines: the CLI, the dashboards and REST views, the
  forge, Jira and GitHub adapters, agents and runners, classifiers, quality and
  compliance tools and the legacy v3 modules convert text, call one external
  service or print.  They share no state beyond the rows of the modelled
  components.
* Everything under "not_modelled" in `PROJECT.json`, each with its reason.

## 8. Running

    tlc -config queue.cfg MCTaskQueue
    tlapm TaskQueueProofs.tla

The module of each run is in `PROJECT.json`.  The longest runs take one to two
minutes on two cores (`queue`, `events`, `remote`, `swarm`, `feature`, `local_review`); the proof
modules take from a minute to several minutes from nothing, `ProductSagaProofs`
the longest.
