----------------------------- MODULE TaskQueue -----------------------------
(***************************************************************************)
(* The Postgres task queue of one plan as TaskRepository drives it         *)
(* (whilly/adapters/db/repository.py): the rows of tasks, plans, workers   *)
(* and control_state, and one action per repository method that writes     *)
(* them.  A method is one transaction, so one step, with one exception:    *)
(* the visibility sweep's statement reads its snapshot of stale claims and *)
(* locks the rows later, and other transactions commit in between          *)
(* (READ COMMITTED re-checks only the UPDATE's own WHERE clause).          *)
(*                                                                         *)
(* No method looks at who calls it: a caller presents a task id and the    *)
(* version it last saw.  Here the callers are arbitrary; LocalWorker       *)
(* replaces them by the real worker loop.                                  *)
(*                                                                         *)
(* The events table is kept as far as something reads it: the human-review *)
(* events of each task in order (the claim query reads them) and the last  *)
(* transition event of each task.  Money is counted in whole units, and    *)
(* time is reduced to whether a timestamp is older than its timeout.       *)
(***************************************************************************)
EXTENDS Naturals, Sequences, FiniteSets

CONSTANTS Tasks,          \* every task id the plan may ever hold
          InitialTasks,   \* the rows of the freshly imported plan
          Workers,        \* worker ids
          NoWorker,       \* SQL NULL in claimed_by
          Eligible,       \* Eligible[w]: tasks whose required_tags w carries
          Deps,           \* Deps[t]: tasks.dependencies
          Costs,          \* cost_usd values an agent may report
          Budgets,        \* budget_usd values an operator may set
          InitialBudget,  \* budget_usd of the plan at import
          NoBudget,       \* SQL NULL in budget_usd: unlimited
          Stages,         \* stage ids carried by human-review events
          MaxVersion,     \* bound: no claim, edit or reset at a higher version
          MaxReview       \* bound: no human-review event after that many of a task

ASSUME QueueAssumption ==
    /\ InitialTasks \subseteq Tasks
    /\ IsFiniteSet(Tasks)
    /\ NoWorker \notin Workers
    /\ Eligible \in [Workers -> SUBSET Tasks]
    /\ Deps \in [Tasks -> SUBSET Tasks]
    /\ Costs \subseteq Nat
    /\ NoBudget \notin Nat
    /\ Budgets \subseteq Nat \cup {NoBudget}
    /\ InitialBudget \in Nat \cup {NoBudget}
    /\ "" \in Stages
    /\ MaxVersion \in Nat
    /\ MaxReview \in Nat

VARIABLES task,     \* task[t]: the row of tasks
          review,   \* review[t]: its human-review events, in order
          audit,    \* audit[t]: its last transition event, and whom the log names
          plan,     \* the row of plans
          worker,   \* worker[w]: the row of workers
          paused,   \* control_state.paused
          stale     \* stale[t]: claimed_by in the sweep's snapshot, or NoWorker

queueVars == <<task, review, audit, plan, worker, paused, stale>>

Active == {"CLAIMED", "IN_PROGRESS"}
TaskStatus == {"PENDING", "DONE", "FAILED", "SKIPPED", "ABSENT"} \cup Active

\* "hold" is a RELEASE event whose reason is human_review_required; a
\* rejection, a change request and an approval nobody signed are all "rejected".
Decisions == {"approved", "rejected"}
ReviewEvents == [type : {"required", "hold"} \cup Decisions, stage : Stages]

TransitionEvents ==
    {"NONE", "CLAIM", "START", "COMPLETE", "FAIL", "RELEASE", "SKIP", "RESET"}

NoEvent == [type |-> "NONE", worker |-> NoWorker]
NoRow   == [status |-> "ABSENT", version |-> 0, claimed_by |-> NoWorker, aged |-> FALSE]
NewRow  == [NoRow EXCEPT !.status = "PENDING"]
NewPlan(b) == [exists |-> TRUE, archived |-> FALSE, budget |-> b, spent |-> 0, sentinels |-> 0]

Rows == [status : TaskStatus, version : Nat,
         claimed_by : Workers \cup {NoWorker}, aged : BOOLEAN]
\* worker: whom the event names.  A START event names no one: a reader goes back
\* to the event before it, and worker stays what that one said.
AuditEvents == [type : TransitionEvents, worker : Workers \cup {NoWorker}]
PlanRows == [exists : BOOLEAN, archived : BOOLEAN,
             budget : Nat \cup {NoBudget}, spent : Nat, sentinels : Nat]
WorkerRows == [status : {"absent", "online", "offline"}, silent : BOOLEAN, token : BOOLEAN]

QueueTypeOK ==
    /\ task \in [Tasks -> Rows]
    /\ review \in [Tasks -> Seq(ReviewEvents)]
    /\ audit \in [Tasks -> AuditEvents]
    /\ plan \in PlanRows
    /\ worker \in [Workers -> WorkerRows]
    /\ paused \in BOOLEAN
    /\ stale \in [Tasks -> Workers \cup {NoWorker}]

QueueInit ==
    /\ task = [t \in Tasks |-> IF t \in InitialTasks THEN NewRow ELSE NoRow]
    /\ review = [t \in Tasks |-> << >>]
    /\ audit = [t \in Tasks |-> NoEvent]
    /\ plan = NewPlan(InitialBudget)
    /\ worker = [w \in Workers |-> [status |-> "absent", silent |-> FALSE, token |-> FALSE]]
    /\ paused = FALSE
    /\ stale = [t \in Tasks |-> NoWorker]

-----------------------------------------------------------------------------
(* Rows a statement leaves behind.                                         *)

\* (Definitions marked as faults are the plausible mistakes the properties are
\* tried against; nothing uses them.)
MovedKeepingVersion(row, status) == [row EXCEPT !.status = status]     \* fault
Moved(row, status) == [row EXCEPT !.status = status, !.version = @ + 1]

FreedKeepingOwner(row, status) == [Moved(row, status) EXCEPT !.aged = FALSE]  \* fault
\* RELEASE, SKIP and RESET also clear claimed_by and claimed_at.
Freed(row, status) == [Moved(row, status) EXCEPT !.claimed_by = NoWorker, !.aged = FALSE]

MatchesAnyVersion(t, v, from) == task[t].status \in from  \* fault
\* The optimistic lock: WHERE id = t AND version = v AND status IN from.
Matches(t, v, from) == task[t].version = v /\ task[t].status \in from

FreeAll(S, status) ==
    task' = [t \in Tasks |-> IF t \in S THEN Freed(task[t], status) ELSE task[t]]

Record(t, type, w) == audit' = [audit EXCEPT ![t] = [type |-> type, worker |-> w]]

RecordAll(S, type, who) ==
    audit' = [t \in Tasks |-> IF t \in S THEN [type |-> type, worker |-> who[t]] ELSE audit[t]]

-----------------------------------------------------------------------------
(* claim_task                                                              *)

\* stage_id of the last human_review.required before event i, '' if none.
HeldStage(t, i) ==
    LET before == {j \in 1..(i - 1) : review[t][j].type = "required"}
    IN  IF before = {} THEN ""
        ELSE review[t][CHOOSE j \in before : \A k \in before : k <= j].stage

\* Fault: a decision made before the hold counts as well.
ClearedByOldDecision(t, i) ==
    \E j \in DOMAIN review[t] : review[t][j].type = "approved" /\ review[t][j].stage = HeldStage(t, i)

\* The last decision after hold i for the stage that was held approves it.
Cleared(t, i) ==
    LET after == {j \in (i + 1)..Len(review[t]) :
                    /\ review[t][j].type \in Decisions
                    /\ review[t][j].stage = HeldStage(t, i)}
    IN  \E j \in after : (\A k \in after : k <= j) /\ review[t][j].type = "approved"

ReviewHeld(t) ==
    \E i \in DOMAIN review[t] : review[t][i].type = "hold" /\ ~Cleared(t, i)

WithinBudgetInclusive == plan.budget = NoBudget \/ plan.spent <= plan.budget  \* fault
WithinBudget == plan.budget = NoBudget \/ plan.spent < plan.budget

\* The rows _CLAIM_SQL may pick for w.  Which of them it takes depends on
\* priority and on the locks others hold (SKIP LOCKED), so any of them.
Claimable(w) ==
    {t \in Eligible[w] :
        /\ task[t].status = "PENDING"
        /\ WithinBudget
        /\ ~ReviewHeld(t)
        /\ task[t].version <= MaxVersion}

\* The transaction of claim_task; its caller read the pause flag earlier.
\* A worker without a row fails the foreign key on claimed_by.
Claim(w, t) ==
    /\ worker[w].status # "absent"
    /\ t \in Claimable(w)
    /\ task' = [task EXCEPT ![t] = [Moved(@, "CLAIMED") EXCEPT !.claimed_by = w, !.aged = FALSE]]
    /\ Record(t, "CLAIM", w)
    /\ UNCHANGED <<review, plan, worker, paused, stale>>

-----------------------------------------------------------------------------
(* The writes of a worker that presents version v.  A write that does not  *)
(* match raises VersionConflictError and rolls back.                       *)

\* The payload of START is the version alone.
Start(t, v) ==
    /\ Matches(t, v, {"CLAIMED"})
    /\ task' = [task EXCEPT ![t] = Moved(@, "IN_PROGRESS")]
    /\ Record(t, "START", audit[t].worker)
    /\ UNCHANGED <<review, plan, worker, paused, stale>>

\* Fault: the sentinel is not written when the budget is met exactly.
SpendStrict(c) ==
    LET crossed == plan.budget # NoBudget /\ plan.spent <= plan.budget /\ plan.spent + c > plan.budget
    IN  [plan EXCEPT !.spent = @ + c, !.sentinels = IF crossed THEN @ + 1 ELSE @]

\* The plan row after a COMPLETE that cost c: the sentinel is written by the
\* call that takes spent from below the budget to the budget or above.
Spend(c) ==
    LET crossed == /\ plan.budget # NoBudget
                   /\ plan.spent < plan.budget
                   /\ plan.spent + c >= plan.budget
    IN  [plan EXCEPT !.spent = @ + c, !.sentinels = IF crossed THEN @ + 1 ELSE @]

Complete(t, v, c) ==
    /\ Matches(t, v, Active)
    /\ task' = [task EXCEPT ![t] = Moved(@, "DONE")]
    /\ Record(t, "COMPLETE", task[t].claimed_by)
    /\ plan' = Spend(c)
    /\ UNCHANGED <<review, worker, paused, stale>>

Fail(t, v) ==
    /\ Matches(t, v, Active)
    /\ task' = [task EXCEPT ![t] = Moved(@, "FAILED")]
    /\ Record(t, "FAIL", task[t].claimed_by)
    /\ UNCHANGED <<review, plan, worker, paused, stale>>

\* Release for any reason but a human review (shutdown, operator_pause).
Release(t, v) ==
    /\ Matches(t, v, Active)
    /\ task' = [task EXCEPT ![t] = Freed(@, "PENDING")]
    /\ Record(t, "RELEASE", task[t].claimed_by)
    /\ UNCHANGED <<review, plan, worker, paused, stale>>

\* Release with reason human_review_required: the event holds the task.  It
\* needs no bound: the next one needs a decision in between.
ReleaseForReview(t, v) ==
    /\ Matches(t, v, Active)
    /\ task' = [task EXCEPT ![t] = Freed(@, "PENDING")]
    /\ Record(t, "RELEASE", task[t].claimed_by)
    /\ review' = [review EXCEPT ![t] = Append(@, [type |-> "hold", stage |-> ""])]
    /\ UNCHANGED <<plan, worker, paused, stale>>

\* record_task_event for human_review.* events; an unknown task raises.
RecordReview(t, type, stage) ==
    /\ task[t].status # "ABSENT"
    /\ Len(review[t]) < MaxReview
    /\ review' = [review EXCEPT ![t] = Append(@, [type |-> type, stage |-> stage])]
    /\ UNCHANGED <<task, audit, plan, worker, paused, stale>>

-----------------------------------------------------------------------------
(* Recovery of orphaned claims.                                            *)

Held(W) == {t \in Tasks : task[t].claimed_by \in W /\ task[t].status \in Active}

Sweeping == \E t \in Tasks : stale[t] # NoWorker

\* Fault: only CLAIMED rows are swept.
SnapshotClaimedOnly ==
    LET old == {t \in Tasks : task[t].status = "CLAIMED" /\ task[t].aged}
    IN  /\ ~Sweeping
        /\ old # {}
        /\ stale' = [t \in Tasks |-> IF t \in old THEN task[t].claimed_by ELSE NoWorker]
        /\ UNCHANGED <<task, review, audit, plan, worker, paused>>

\* The CTE of _RELEASE_STALE_SQL reads the claims older than the timeout ...
ReleaseStaleSnapshot ==
    LET old == {t \in Tasks : task[t].status \in Active /\ task[t].aged}
    IN  /\ ~Sweeping
        /\ old # {}
        /\ stale' = [t \in Tasks |-> IF t \in old THEN task[t].claimed_by ELSE NoWorker]
        /\ UNCHANGED <<task, review, audit, plan, worker, paused>>

\* Fault: the RELEASE events are written for the snapshot, not for the rows freed.
ApplyAuditsSnapshot ==
    LET freed == {t \in Tasks : stale[t] # NoWorker /\ task[t].status \in Active}
    IN  /\ Sweeping
        /\ FreeAll(freed, "PENDING")
        /\ RecordAll({t \in Tasks : stale[t] # NoWorker}, "RELEASE", stale)
        /\ stale' = [t \in Tasks |-> NoWorker]
        /\ UNCHANGED <<review, plan, worker, paused>>

\* ... and the UPDATE frees those of them that are in flight when it gets
\* to their row, with the claimed_by of the snapshot in the RELEASE event.
ReleaseStaleApply ==
    LET freed == {t \in Tasks : stale[t] # NoWorker /\ task[t].status \in Active}
    IN  /\ Sweeping
        /\ FreeAll(freed, "PENDING")
        /\ RecordAll(freed, "RELEASE", stale)
        /\ stale' = [t \in Tasks |-> NoWorker]
        /\ UNCHANGED <<review, plan, worker, paused>>

\* A tick that raises is logged, rolled back and retried at the next one.
ReleaseStaleAbort ==
    /\ Sweeping
    /\ stale' = [t \in Tasks |-> NoWorker]
    /\ UNCHANGED <<task, review, audit, plan, worker, paused>>

\* _RELEASE_OFFLINE_WORKERS_SQL: every online worker whose heartbeat is
\* older than the timeout goes offline and its claims are freed.
ReleaseOfflineWorkers ==
    LET gone == {w \in Workers : worker[w].status = "online" /\ worker[w].silent}
    IN  /\ gone # {}
        /\ worker' = [w \in Workers |->
                        IF w \in gone THEN [worker[w] EXCEPT !.status = "offline"] ELSE worker[w]]
        /\ FreeAll(Held(gone), "PENDING")
        /\ RecordAll(Held(gone), "RELEASE", [t \in Tasks |-> task[t].claimed_by])
        /\ UNCHANGED <<review, plan, paused, stale>>

RevokeWorkerBearer(w) ==
    /\ worker[w].status # "absent"
    /\ worker' = [worker EXCEPT ![w].status = "offline", ![w].token = FALSE]
    /\ FreeAll(Held({w}), "PENDING")
    /\ RecordAll(Held({w}), "RELEASE", [t \in Tasks |-> task[t].claimed_by])
    /\ UNCHANGED <<review, plan, paused, stale>>

\* Time passes: claimed_at, or last_heartbeat, becomes older than its timeout.
ClaimAges(t) ==
    /\ task[t].status \in Active /\ ~task[t].aged
    /\ task' = [task EXCEPT ![t].aged = TRUE]
    /\ UNCHANGED <<review, audit, plan, worker, paused, stale>>

HeartbeatAges(w) ==
    /\ worker[w].status = "online" /\ ~worker[w].silent
    /\ worker' = [worker EXCEPT ![w].silent = TRUE]
    /\ UNCHANGED <<task, review, audit, plan, paused, stale>>

-----------------------------------------------------------------------------
(* Worker rows.                                                            *)

RegisterWorker(w) ==
    /\ worker[w].status = "absent"
    /\ worker' = [worker EXCEPT ![w] = [status |-> "online", silent |-> FALSE, token |-> TRUE]]
    /\ UNCHANGED <<task, review, audit, plan, paused, stale>>

\* `whilly run` under an id that already has a row refreshes last_heartbeat
\* only: the status stays what it was until the first heartbeat.
ReregisterWorker(w) ==
    /\ worker[w].status # "absent"
    /\ worker' = [worker EXCEPT ![w].silent = FALSE]
    /\ UNCHANGED <<task, review, audit, plan, paused, stale>>

UpdateHeartbeat(w) ==
    /\ worker[w].status # "absent"
    /\ worker' = [worker EXCEPT ![w].status = "online", ![w].silent = FALSE]
    /\ UNCHANGED <<task, review, audit, plan, paused, stale>>

-----------------------------------------------------------------------------
(* The operator.                                                           *)

PauseWorkers ==
    /\ paused' = TRUE
    /\ UNCHANGED <<task, review, audit, plan, worker, stale>>

ResumeWorkers ==
    /\ paused' = FALSE
    /\ UNCHANGED <<task, review, audit, plan, worker, stale>>

\* A row that is SKIPPED already is returned as it is, whatever v.
SkipTask(t, v) ==
    /\ Matches(t, v, {"PENDING"} \cup Active)
    /\ task' = [task EXCEPT ![t] = Freed(@, "SKIPPED")]
    /\ Record(t, "SKIP", NoWorker)
    /\ UNCHANGED <<review, plan, worker, paused, stale>>

\* patch_task and delete_task refuse a claimed row and an archived plan; DONE
\* and FAILED rows keep claimed_by, so they are refused too.
Editable(t, v) ==
    /\ plan.exists /\ ~plan.archived
    /\ task[t].claimed_by = NoWorker
    /\ Matches(t, v, TaskStatus \ {"IN_PROGRESS", "ABSENT"})

PatchTask(t, v) ==
    /\ Editable(t, v)
    /\ v <= MaxVersion
    /\ task' = [task EXCEPT ![t].version = @ + 1]
    /\ UNCHANGED <<review, audit, plan, worker, paused, stale>>

\* The events of the row go with it (ON DELETE CASCADE).
DeleteTask(t, v) ==
    /\ Editable(t, v)
    /\ task' = [task EXCEPT ![t] = NoRow]
    /\ review' = [review EXCEPT ![t] = << >>]
    /\ Record(t, "NONE", NoWorker)
    /\ UNCHANGED <<plan, worker, paused, stale>>

\* insert_task and insert_repair_task; a row with this id is a unique violation.
InsertTask(t) ==
    /\ plan.exists
    /\ task[t].status = "ABSENT"
    /\ task' = [task EXCEPT ![t] = NewRow]
    /\ UNCHANGED <<review, audit, plan, worker, paused, stale>>

PatchBudget(b) ==
    /\ plan.exists
    /\ plan' = [plan EXCEPT !.budget = b]
    /\ UNCHANGED <<task, review, audit, worker, paused, stale>>

ArchivePlan(archived) ==
    /\ plan.exists
    /\ plan' = [plan EXCEPT !.archived = archived]
    /\ UNCHANGED <<task, review, audit, worker, paused, stale>>

\* reset_plan(keep_tasks=True).  Its DELETE of the events reads an earlier
\* snapshot than its UPDATE of the rows: cut[t] events existed then, and the
\* ones committed since survive.
ResetKeepTasks(cut) ==
    LET rows == {t \in Tasks : task[t].status # "ABSENT"}
    IN  /\ \A t \in rows : task[t].version <= MaxVersion
        /\ rows # {}
        /\ FreeAll(rows, "PENDING")
        /\ RecordAll(rows, "RESET", [t \in Tasks |-> NoWorker])
        /\ review' = [t \in Tasks |-> SubSeq(review[t], cut[t] + 1, Len(review[t]))]
        /\ UNCHANGED <<plan, worker, paused, stale>>

\* reset_plan(keep_tasks=False): DELETE FROM plans, and the cascade.
ResetHard ==
    /\ plan.exists
    /\ plan' = [NewPlan(NoBudget) EXCEPT !.exists = FALSE]
    /\ task' = [t \in Tasks |-> NoRow]
    /\ review' = [t \in Tasks |-> << >>]
    /\ audit' = [t \in Tasks |-> NoEvent]
    /\ UNCHANGED <<worker, paused, stale>>

\* `whilly plan import`: ON CONFLICT DO NOTHING for the plan (budget NULL)
\* and for each task.
ImportPlan ==
    /\ plan' = IF plan.exists THEN plan ELSE NewPlan(NoBudget)
    /\ task' = [t \in Tasks |->
                  IF t \in InitialTasks /\ task[t].status = "ABSENT" THEN NewRow ELSE task[t]]
    /\ UNCHANGED <<review, audit, worker, paused, stale>>

-----------------------------------------------------------------------------
(* Steps that need no caller; operator steps that keep the rows; operator  *)
(* steps that remove rows, after which versions start again at 0.          *)

SweepStep == ReleaseStaleSnapshot \/ ReleaseStaleApply \/ ReleaseStaleAbort \/ ReleaseOfflineWorkers

TimeStep == (\E t \in Tasks : ClaimAges(t)) \/ (\E w \in Workers : HeartbeatAges(w))

\* (A hold may follow the MaxReview-th event; nothing clears it then.)
Cuts == {cut \in [Tasks -> 0..(MaxReview + 1)] : \A t \in Tasks : cut[t] <= Len(review[t])}

OperatorStep ==
    \/ PauseWorkers
    \/ ResumeWorkers
    \/ \E t \in Tasks : SkipTask(t, task[t].version)
    \/ \E t \in Tasks : PatchTask(t, task[t].version)
    \/ \E t \in Tasks, d \in Decisions, s \in Stages : RecordReview(t, d, s)
    \/ \E b \in Budgets : PatchBudget(b)
    \/ \E archived \in BOOLEAN : ArchivePlan(archived)
    \/ \E w \in Workers : RevokeWorkerBearer(w)
    \/ \E cut \in Cuts : ResetKeepTasks(cut)

ReimportStep ==
    \/ \E t \in Tasks : DeleteTask(t, task[t].version)
    \/ \E t \in Tasks : InsertTask(t)
    \/ ResetHard
    \/ ImportPlan

\* Any caller, presenting the version the row has: a version it does not
\* have changes nothing.
CallerStep ==
    \/ \E w \in Workers, t \in Tasks : Claim(w, t)
    \/ \E t \in Tasks : Start(t, task[t].version)
    \/ \E t \in Tasks, c \in Costs : Complete(t, task[t].version, c)
    \/ \E t \in Tasks : Fail(t, task[t].version)
    \/ \E t \in Tasks : Release(t, task[t].version)
    \/ \E t \in Tasks : ReleaseForReview(t, task[t].version)
    \/ \E t \in Tasks, s \in Stages : RecordReview(t, "required", s)
    \/ \E w \in Workers : RegisterWorker(w)
    \/ \E w \in Workers : ReregisterWorker(w)
    \/ \E w \in Workers : UpdateHeartbeat(w)

QueueNext == CallerStep \/ SweepStep \/ TimeStep \/ OperatorStep \/ ReimportStep

QueueSpec == QueueInit /\ [][QueueNext]_queueVars
-----------------------------------------------------------------------------
(* What the queue guarantees, whoever calls it.                            *)

InFlight == {t \in Tasks : task[t].status \in Active}
Owns(w, t) == task[t].status \in Active /\ task[t].claimed_by = w

\* A row in flight has an owner, so the sweeps that look for the claims of a
\* worker find it, and a row that is not claimed has none, so that patch_task
\* and delete_task, which only look at claimed_by, never refuse it.
OwnedIffClaimed ==
    \A t \in Tasks :
        /\ task[t].status \in Active \cup {"DONE", "FAILED"} => task[t].claimed_by \in Workers
        /\ task[t].status \in {"PENDING", "SKIPPED", "ABSENT"} => task[t].claimed_by = NoWorker

\* The last transition event of a task tells the status of its row: the row and
\* its event are written in one transaction.  For a row that somebody owns, the
\* log also tells who: the last event does (CLAIM, COMPLETE and FAIL carry the
\* worker_id), or, after a START, which carries none, the CLAIM before it.
AuditTellsStatus ==
    \A t \in Tasks :
        LET e == audit[t] IN
        /\ task[t].status = "PENDING" <=> task[t].status # "ABSENT" /\ e.type \in {"NONE", "RELEASE", "RESET"}
        /\ task[t].status = "CLAIMED" <=> e.type = "CLAIM"
        /\ task[t].status = "IN_PROGRESS" <=> e.type = "START"
        /\ task[t].status = "DONE" <=> e.type = "COMPLETE"
        /\ task[t].status = "FAILED" <=> e.type = "FAIL"
        /\ task[t].status = "SKIPPED" <=> e.type = "SKIP"
        /\ task[t].claimed_by # NoWorker => e.worker = task[t].claimed_by

\* A plan can overspend only by what was in flight when its budget ran out:
\* if no task costs more than c, the spend stays below the budget plus c for
\* every task, and what is still in flight has its share left.
BudgetOvershoot(c) ==
    plan.budget # NoBudget /\ plan.spent > 0 =>
        plan.spent + c * Cardinality(InFlight) < plan.budget + c * Cardinality(Tasks)

BudgetOvershootBounded == \A c \in Costs : (\A d \in Costs : d <= c) => BudgetOvershoot(c)

\* While nobody patches the budget: a plan keeps its budget for as long as its
\* row stays.  What is true of the spend is true under this assumption only.
BudgetStays == plan.exists /\ plan'.exists => plan'.budget = plan.budget
BudgetKept == [][BudgetStays]_queueVars

\* While nobody patches the budget, a plan whose budget was used up has written
\* exactly one plan.budget_exceeded event, whatever was still in flight, and
\* no other plan has written one.
OneSentinel ==
    plan.sentinels = IF plan.spent = 0 \/ WithinBudget THEN 0 ELSE 1

\* A task released for human review is in a worker's hands again, or done,
\* only after an approval that came later than its last release.
HeldUntilApproved ==
    \A t \in Tasks : task[t].status \in Active \cup {"DONE", "FAILED"} =>
        \A i \in DOMAIN review[t] : review[t][i].type = "hold" =>
            \E j \in (i + 1)..Len(review[t]) : review[t][j].type = "approved"

\* A task is handed out only when every task it depends on is done.
DependenciesFirst ==
    [][\A t \in Tasks :
        task[t].status = "PENDING" /\ task'[t].status = "CLAIMED"
            => \A d \in Deps[t] : task[d].status = "DONE"]_queueVars

\* The queue implements the lifecycle of core/state_machine.py.
Lifecycle == INSTANCE TaskLifecycle WITH
                status  <- [t \in Tasks |-> task[t].status],
                version <- [t \in Tasks |-> task[t].version]

ImplementsLifecycle == Lifecycle!LifecycleSpec
=============================================================================
