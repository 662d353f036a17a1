-------------------------- MODULE TaskQueueProofs --------------------------
(***************************************************************************)
(* Theorems about TaskQueue for every value of its constants.              *)
(*                                                                         *)
(* The argument has two layers.  QueueStepRows says once what a step of    *)
(* the queue may do to a row, whatever method it was; every invariant of   *)
(* the rows then needs one case per kind of row change instead of one per  *)
(* method.                                                                 *)
(***************************************************************************)
EXTENDS TaskQueue, SequenceTheorems, FiniteSetTheorems, TLAPS

-----------------------------------------------------------------------------
(* Rows.                                                                   *)

\* Moved changes the status and adds one to the version.
LEMMA MovedRow ==
    ASSUME NEW row \in Rows, NEW s \in TaskStatus
    PROVE  /\ Moved(row, s) \in Rows
           /\ Moved(row, s).status = s
           /\ Moved(row, s).version = row.version + 1
           /\ Moved(row, s).claimed_by = row.claimed_by
PROOF
<1>1. row.version + 1 \in Nat
  BY DEF Rows
<1>2. \A n \in Nat : [row EXCEPT !.status = s, !.version = n] \in Rows
  BY DEF Rows
<1>3. Moved(row, s) \in Rows
  BY <1>1, <1>2 DEF Moved
<1> QED BY <1>3 DEF Moved, Rows

\* Freed also takes the owner away.
LEMMA FreedRow ==
    ASSUME NEW row \in Rows, NEW s \in TaskStatus
    PROVE  /\ Freed(row, s) \in Rows
           /\ Freed(row, s).status = s
           /\ Freed(row, s).version = row.version + 1
           /\ Freed(row, s).claimed_by = NoWorker
BY MovedRow DEF Freed, Moved, Rows

\* The rows a table starts with, and the one claim_task leaves.
LEMMA OtherRows ==
    /\ NoRow \in Rows /\ NoRow.status = "ABSENT" /\ NoRow.claimed_by = NoWorker
    /\ NewRow \in Rows /\ NewRow.status = "PENDING" /\ NewRow.claimed_by = NoWorker
    /\ NoRow.version = 0 /\ NewRow.version = 0
BY DEF NoRow, NewRow, Rows, TaskStatus, Active

ClaimedRow(row, w) == [Moved(row, "CLAIMED") EXCEPT !.claimed_by = w, !.aged = FALSE]

LEMMA ClaimedRowType ==
    ASSUME NEW row \in Rows, NEW w \in Workers
    PROVE  /\ ClaimedRow(row, w) \in Rows
           /\ ClaimedRow(row, w).status = "CLAIMED"
           /\ ClaimedRow(row, w).version = row.version + 1
           /\ ClaimedRow(row, w).claimed_by = w
BY MovedRow DEF ClaimedRow, Moved, Rows, TaskStatus, Active

-----------------------------------------------------------------------------
(* What a step of the queue may do to the row of t.                        *)

RowClaimed(t) ==
    \E w \in Workers : task[t].status = "PENDING" /\ task'[t] = ClaimedRow(task[t], w)
RowStarted(t) == task[t].status = "CLAIMED" /\ task'[t] = Moved(task[t], "IN_PROGRESS")
RowEnded(t) ==
    task[t].status \in Active /\ \E s \in {"DONE", "FAILED"} : task'[t] = Moved(task[t], s)
RowFreed(t) == task[t].status # "ABSENT" /\ task'[t] = Freed(task[t], "PENDING")
RowSkipped(t) ==
    task[t].status \in {"PENDING"} \cup Active /\ task'[t] = Freed(task[t], "SKIPPED")
RowEdited(t) ==
    /\ task[t].claimed_by = NoWorker
    /\ task[t].status \notin {"IN_PROGRESS", "ABSENT"}
    /\ task'[t] = [task[t] EXCEPT !.version = @ + 1]
RowAged(t) == task[t].status \in Active /\ task'[t] = [task[t] EXCEPT !.aged = TRUE]
RowCreated(t) == task[t].status = "ABSENT" /\ task'[t] = NewRow
RowRemoved(t) == task'[t] = NoRow

\* What the sweeps, the clock and the operator may do to a row that stays ...
RowQuiet(t) ==
    task'[t] = task[t] \/ RowFreed(t) \/ RowSkipped(t) \/ RowEdited(t) \/ RowAged(t)

\* ... what the workers' calls may do as well ...
RowChange(t) == RowQuiet(t) \/ RowClaimed(t) \/ RowStarted(t) \/ RowEnded(t)

\* ... and what any step may do.
RowStep(t) == RowChange(t) \/ RowCreated(t) \/ RowRemoved(t)

\* The sweeps, the revocation and the soft reset.
LEMMA FreeAllRows ==
    ASSUME QueueTypeOK, NEW S, FreeAll(S, "PENDING"),
           \A t \in Tasks : t \in S => task[t].status # "ABSENT"
    PROVE  task' \in [Tasks -> Rows] /\ \A t \in Tasks : RowQuiet(t)
PROOF
<1>1. "PENDING" \in TaskStatus
  BY DEF TaskStatus
<1>2. ASSUME NEW t \in Tasks
      PROVE  task'[t] \in Rows /\ RowQuiet(t)
  <2>1. task[t] \in Rows
    BY DEF QueueTypeOK
  <2>2. CASE t \in S
    BY <1>1, <2>1, <2>2, FreedRow DEF FreeAll, RowQuiet, RowFreed
  <2>3. CASE t \notin S
    BY <2>1, <2>3 DEF FreeAll, RowQuiet
  <2> QED BY <2>2, <2>3
<1> QED BY <1>2 DEF FreeAll

LEMMA CallerStepRows ==
    ASSUME QueueTypeOK, CallerStep
    PROVE  task' \in [Tasks -> Rows] /\ \A t \in Tasks : RowChange(t)
PROOF
<1> USE DEF QueueTypeOK
<1>1. ASSUME NEW w \in Workers, NEW u \in Tasks, Claim(w, u)
      PROVE  task' \in [Tasks -> Rows] /\ \A t \in Tasks : RowChange(t)
  <2>1. task' = [task EXCEPT ![u] = ClaimedRow(task[u], w)] /\ task[u].status = "PENDING"
    BY <1>1 DEF Claim, Claimable, ClaimedRow
  <2> QED BY <2>1, ClaimedRowType DEF RowQuiet, RowQuiet, RowChange, RowClaimed
<1>2. ASSUME NEW u \in Tasks, Start(u, task[u].version)
      PROVE  task' \in [Tasks -> Rows] /\ \A t \in Tasks : RowChange(t)
  BY <1>2, MovedRow DEF Start, Matches, RowQuiet, RowChange, RowStarted, TaskStatus, Active
<1>3. ASSUME NEW u \in Tasks, NEW c \in Costs, Complete(u, task[u].version, c)
      PROVE  task' \in [Tasks -> Rows] /\ \A t \in Tasks : RowChange(t)
  BY <1>3, MovedRow DEF Complete, Matches, RowQuiet, RowChange, RowEnded, TaskStatus
<1>4. ASSUME NEW u \in Tasks, Fail(u, task[u].version)
      PROVE  task' \in [Tasks -> Rows] /\ \A t \in Tasks : RowChange(t)
  BY <1>4, MovedRow DEF Fail, Matches, RowQuiet, RowChange, RowEnded, TaskStatus
<1>5. ASSUME NEW u \in Tasks, Release(u, task[u].version) \/ ReleaseForReview(u, task[u].version)
      PROVE  task' \in [Tasks -> Rows] /\ \A t \in Tasks : RowChange(t)
  <2>1. task' = [task EXCEPT ![u] = Freed(@, "PENDING")] /\ task[u].status \in Active
    BY <1>5 DEF Release, ReleaseForReview, Matches
  <2>2. "PENDING" \in TaskStatus /\ "ABSENT" \notin Active
    BY DEF TaskStatus, Active
  <2> QED BY <2>1, <2>2, FreedRow DEF RowQuiet, RowQuiet, RowChange, RowFreed
<1>6. ASSUME UNCHANGED task
      PROVE  task' \in [Tasks -> Rows] /\ \A t \in Tasks : RowChange(t)
  BY <1>6 DEF RowQuiet, RowChange
<1> QED
  BY <1>1, <1>2, <1>3, <1>4, <1>5, <1>6
  DEF CallerStep, RecordReview, RegisterWorker, ReregisterWorker, UpdateHeartbeat

LEMMA BackgroundRows ==
    ASSUME QueueTypeOK, SweepStep \/ TimeStep
    PROVE  task' \in [Tasks -> Rows] /\ \A t \in Tasks : RowQuiet(t)
PROOF
<1>1. CASE ReleaseStaleApply
  <2> DEFINE freed == {t \in Tasks : stale[t] # NoWorker /\ task[t].status \in Active}
  <2>1. FreeAll(freed, "PENDING")
    BY <1>1 DEF ReleaseStaleApply
  <2>2. \A t \in Tasks : t \in freed => task[t].status # "ABSENT"
    BY DEF Active
  <2> HIDE DEF freed
  <2> QED BY <2>1, <2>2, FreeAllRows
<1>2. CASE ReleaseOfflineWorkers
  <2> DEFINE gone == {w \in Workers : worker[w].status = "online" /\ worker[w].silent}
  <2>1. FreeAll(Held(gone), "PENDING")
    BY <1>2 DEF ReleaseOfflineWorkers
  <2>2. \A t \in Tasks : t \in Held(gone) => task[t].status # "ABSENT"
    BY DEF Held, Active
  <2> QED BY <2>1, <2>2, FreeAllRows
<1>3. ASSUME NEW u \in Tasks, ClaimAges(u)
      PROVE  task' \in [Tasks -> Rows] /\ \A t \in Tasks : RowQuiet(t)
  <2>1. [task[u] EXCEPT !.aged = TRUE] \in Rows
    BY DEF QueueTypeOK, Rows
  <2>2. task' = [task EXCEPT ![u] = [task[u] EXCEPT !.aged = TRUE]]
    BY <1>3 DEF ClaimAges
  <2> QED BY <1>3, <2>1, <2>2 DEF QueueTypeOK, ClaimAges, RowQuiet, RowAged
<1>4. ASSUME UNCHANGED task
      PROVE  task' \in [Tasks -> Rows] /\ \A t \in Tasks : RowQuiet(t)
  BY <1>4 DEF QueueTypeOK, RowQuiet
<1> QED
  BY <1>1, <1>2, <1>3, <1>4
  DEF SweepStep, TimeStep, ReleaseStaleSnapshot, ReleaseStaleAbort, HeartbeatAges

LEMMA OperatorStepRows ==
    ASSUME QueueTypeOK, OperatorStep
    PROVE  task' \in [Tasks -> Rows] /\ \A t \in Tasks : RowQuiet(t)
PROOF
<1>1. ASSUME NEW u \in Tasks, SkipTask(u, task[u].version)
      PROVE  task' \in [Tasks -> Rows] /\ \A t \in Tasks : RowQuiet(t)
  <2>1. /\ task' = [task EXCEPT ![u] = Freed(task[u], "SKIPPED")]
        /\ task[u].status \in {"PENDING"} \cup Active
    BY <1>1 DEF SkipTask, Matches
  <2>2. Freed(task[u], "SKIPPED") \in Rows
    BY FreedRow DEF QueueTypeOK, TaskStatus
  <2> QED BY <2>1, <2>2 DEF QueueTypeOK, RowQuiet, RowSkipped
<1>2. ASSUME NEW u \in Tasks, PatchTask(u, task[u].version)
      PROVE  task' \in [Tasks -> Rows] /\ \A t \in Tasks : RowQuiet(t)
  <2>1. task[u] \in Rows /\ task[u].version + 1 \in Nat
    BY DEF QueueTypeOK, Rows
  <2>2. \A n \in Nat : [task[u] EXCEPT !.version = n] \in Rows
    BY <2>1 DEF Rows
  <2>3. task' = [task EXCEPT ![u] = [task[u] EXCEPT !.version = @ + 1]]
    BY <1>2 DEF PatchTask
  <2>4. [task[u] EXCEPT !.version = @ + 1] \in Rows
    BY <2>1, <2>2
  <2>5. task[u].claimed_by = NoWorker /\ task[u].status \notin {"IN_PROGRESS", "ABSENT"}
    BY <1>2 DEF PatchTask, Editable, Matches
  <2> QED BY <2>3, <2>4, <2>5 DEF QueueTypeOK, RowQuiet, RowEdited
<1>3. ASSUME NEW w \in Workers, RevokeWorkerBearer(w)
      PROVE  task' \in [Tasks -> Rows] /\ \A t \in Tasks : RowQuiet(t)
  <2>1. FreeAll(Held({w}), "PENDING")
    BY <1>3 DEF RevokeWorkerBearer
  <2>2. \A t \in Tasks : t \in Held({w}) => task[t].status # "ABSENT"
    BY DEF Held, Active
  <2> QED BY <2>1, <2>2, FreeAllRows
<1>4. ASSUME NEW cut \in Cuts, ResetKeepTasks(cut)
      PROVE  task' \in [Tasks -> Rows] /\ \A t \in Tasks : RowQuiet(t)
  <2> DEFINE rows == {t \in Tasks : task[t].status # "ABSENT"}
  <2>1. FreeAll(rows, "PENDING")
    BY <1>4 DEF ResetKeepTasks
  <2>2. \A t \in Tasks : t \in rows => task[t].status # "ABSENT"
    OBVIOUS
  <2> HIDE DEF rows
  <2> QED BY <2>1, <2>2, FreeAllRows
<1>5. ASSUME UNCHANGED task
      PROVE  task' \in [Tasks -> Rows] /\ \A t \in Tasks : RowQuiet(t)
  BY <1>5 DEF QueueTypeOK, RowQuiet
<1> QED
  BY <1>1, <1>2, <1>3, <1>4, <1>5
  DEF OperatorStep, PauseWorkers, ResumeWorkers, RecordReview, PatchBudget, ArchivePlan

LEMMA ReimportStepRows ==
    ASSUME QueueTypeOK, ReimportStep
    PROVE  task' \in [Tasks -> Rows] /\ \A t \in Tasks : RowStep(t)
PROOF
<1> USE DEF QueueTypeOK
<1>1. ASSUME NEW u \in Tasks, DeleteTask(u, task[u].version) \/ InsertTask(u)
      PROVE  task' \in [Tasks -> Rows] /\ \A t \in Tasks : RowStep(t)
  <2>1. \/ task' = [task EXCEPT ![u] = NoRow]
        \/ task[u].status = "ABSENT" /\ task' = [task EXCEPT ![u] = NewRow]
    BY <1>1 DEF DeleteTask, InsertTask
  <2> QED BY <2>1, OtherRows DEF RowQuiet, RowChange, RowQuiet, RowChange, RowStep, RowRemoved, RowCreated
<1>2. CASE ResetHard
  BY <1>2, OtherRows DEF ResetHard, RowQuiet, RowChange, RowStep, RowRemoved
<1>3. CASE ImportPlan
  BY <1>3, OtherRows DEF ImportPlan, RowQuiet, RowChange, RowStep, RowCreated
<1> QED BY <1>1, <1>2, <1>3 DEF ReimportStep

\* A step of the queue, whatever method it is, does one of these to each row.
LEMMA QueueStepRows ==
    ASSUME QueueTypeOK, QueueNext
    PROVE  task' \in [Tasks -> Rows] /\ \A t \in Tasks : RowStep(t)
BY CallerStepRows, BackgroundRows, OperatorStepRows, ReimportStepRows
DEF QueueNext, RowChange, RowStep

-----------------------------------------------------------------------------
(* Types.                                                                  *)

\* The variables beside the rows.
RestOK ==
    /\ review \in [Tasks -> Seq(ReviewEvents)]
    /\ audit \in [Tasks -> AuditEvents]
    /\ plan \in PlanRows
    /\ worker \in [Workers -> WorkerRows]
    /\ paused \in BOOLEAN
    /\ stale \in [Tasks -> Workers \cup {NoWorker}]

LEMMA RecordType ==
    ASSUME NEW t \in Tasks, NEW type \in TransitionEvents, NEW w \in Workers \cup {NoWorker},
           audit \in [Tasks -> AuditEvents], Record(t, type, w)
    PROVE  audit' \in [Tasks -> AuditEvents]
BY DEF Record, AuditEvents

LEMMA RecordAllType ==
    ASSUME NEW S, NEW type \in TransitionEvents, NEW who \in [Tasks -> Workers \cup {NoWorker}],
           audit \in [Tasks -> AuditEvents], RecordAll(S, type, who)
    PROVE  audit' \in [Tasks -> AuditEvents]
BY DEF RecordAll, AuditEvents

\* The owners of the rows, as the sweeps write them to the audit log.
LEMMA OwnersType ==
    ASSUME QueueTypeOK
    PROVE  /\ \A t \in Tasks : task[t].claimed_by \in Workers \cup {NoWorker}
           /\ [t \in Tasks |-> task[t].claimed_by] \in [Tasks -> Workers \cup {NoWorker}]
           /\ [t \in Tasks |-> NoWorker] \in [Tasks -> Workers \cup {NoWorker}]
BY DEF QueueTypeOK, Rows

LEMMA SpendType ==
    ASSUME QueueTypeOK, NEW c \in Costs
    PROVE  Spend(c) \in PlanRows
PROOF
<1>1. c \in Nat /\ plan.spent \in Nat /\ plan.sentinels \in Nat
  BY QueueAssumption DEF QueueTypeOK, PlanRows
<1>2. plan.spent + c \in Nat /\ plan.sentinels + 1 \in Nat
  BY <1>1
<1>3. \A m, n \in Nat : [plan EXCEPT !.spent = m, !.sentinels = n] \in PlanRows
  BY DEF QueueTypeOK, PlanRows
<1> QED BY <1>1, <1>2, <1>3 DEF Spend

LEMMA ReviewType ==
    ASSUME QueueTypeOK, NEW t \in Tasks, NEW e \in ReviewEvents
    PROVE  [review EXCEPT ![t] = Append(@, e)] \in [Tasks -> Seq(ReviewEvents)]
BY DEF QueueTypeOK

LEMMA CallerStepRest ==
    ASSUME QueueTypeOK, CallerStep
    PROVE  RestOK'
PROOF
<1>0. RestOK
  BY DEF QueueTypeOK, RestOK
<1>1. ASSUME NEW w \in Workers, NEW t \in Tasks, Claim(w, t)
      PROVE  RestOK'
  BY <1>0, <1>1, RecordType DEF Claim, RestOK, TransitionEvents
<1>2. ASSUME NEW t \in Tasks, NEW v,
             Start(t, v) \/ Fail(t, v) \/ Release(t, v)
      PROVE  RestOK'
  <2>1. CASE Start(t, v)
    <3>1. audit[t].worker \in Workers \cup {NoWorker}
      BY <1>0 DEF RestOK, AuditEvents
    <3> QED BY <1>0, <2>1, <3>1, RecordType DEF Start, RestOK, TransitionEvents
  <2>2. CASE Fail(t, v) \/ Release(t, v)
    BY <1>0, <2>2, RecordType, OwnersType DEF Fail, Release, RestOK, TransitionEvents
  <2> QED BY <1>2, <2>1, <2>2
<1>3. ASSUME NEW t \in Tasks, NEW v, NEW c \in Costs, Complete(t, v, c)
      PROVE  RestOK'
  BY <1>0, <1>3, RecordType, OwnersType, SpendType DEF Complete, RestOK, TransitionEvents
<1>4. ASSUME NEW t \in Tasks, NEW v, ReleaseForReview(t, v)
      PROVE  RestOK'
  <2>1. [type |-> "hold", stage |-> ""] \in ReviewEvents
    BY QueueAssumption DEF ReviewEvents
  <2> QED
    BY <1>0, <1>4, <2>1, RecordType, OwnersType, ReviewType
    DEF ReleaseForReview, RestOK, TransitionEvents
<1>5. ASSUME NEW t \in Tasks, NEW s \in Stages, RecordReview(t, "required", s)
      PROVE  RestOK'
  <2>1. [type |-> "required", stage |-> s] \in ReviewEvents
    BY DEF ReviewEvents
  <2> QED BY <1>0, <1>5, <2>1, ReviewType DEF RecordReview, RestOK
<1>6. ASSUME NEW w \in Workers, RegisterWorker(w) \/ ReregisterWorker(w) \/ UpdateHeartbeat(w)
      PROVE  RestOK'
  <2>1. CASE RegisterWorker(w)
    BY <1>0, <2>1 DEF RegisterWorker, RestOK, WorkerRows
  <2>2. CASE ReregisterWorker(w)
    BY <1>0, <2>2 DEF ReregisterWorker, RestOK, WorkerRows
  <2>3. CASE UpdateHeartbeat(w)
    BY <1>0, <2>3 DEF UpdateHeartbeat, RestOK, WorkerRows
  <2> QED BY <1>6, <2>1, <2>2, <2>3
<1> QED BY <1>1, <1>2, <1>3, <1>4, <1>5, <1>6 DEF CallerStep

LEMMA BackgroundRest ==
    ASSUME QueueTypeOK, SweepStep \/ TimeStep
    PROVE  RestOK'
PROOF
<1>0. RestOK /\ "RELEASE" \in TransitionEvents
  BY DEF QueueTypeOK, RestOK, TransitionEvents
<1>1. CASE ReleaseStaleSnapshot
  BY <1>0, <1>1, OwnersType DEF ReleaseStaleSnapshot, RestOK
<1>2. CASE ReleaseStaleApply
  BY <1>0, <1>2, RecordAllType DEF ReleaseStaleApply, RestOK
<1>3. CASE ReleaseStaleAbort
  BY <1>0, <1>3 DEF ReleaseStaleAbort, RestOK
<1>4. CASE ReleaseOfflineWorkers
  <2> DEFINE gone == {w \in Workers : worker[w].status = "online" /\ worker[w].silent}
  <2>1. worker' \in [Workers -> WorkerRows]
    BY <1>0, <1>4 DEF ReleaseOfflineWorkers, RestOK, WorkerRows
  <2>2. RecordAll(Held(gone), "RELEASE", [t \in Tasks |-> task[t].claimed_by])
    BY <1>4 DEF ReleaseOfflineWorkers
  <2>3. audit' \in [Tasks -> AuditEvents]
    BY <1>0, <2>2, RecordAllType, OwnersType DEF RestOK
  <2> QED BY <1>0, <1>4, <2>1, <2>3 DEF ReleaseOfflineWorkers, RestOK
<1>5. ASSUME NEW t \in Tasks, ClaimAges(t)
      PROVE  RestOK'
  BY <1>0, <1>5 DEF ClaimAges, RestOK
<1>6. ASSUME NEW w \in Workers, HeartbeatAges(w)
      PROVE  RestOK'
  BY <1>0, <1>6 DEF HeartbeatAges, RestOK, WorkerRows
<1> QED BY <1>1, <1>2, <1>3, <1>4, <1>5, <1>6 DEF SweepStep, TimeStep

LEMMA OperatorStepRest ==
    ASSUME QueueTypeOK, OperatorStep
    PROVE  RestOK'
PROOF
<1>0. RestOK
  BY DEF QueueTypeOK, RestOK
<1>1. CASE PauseWorkers \/ ResumeWorkers
  BY <1>0, <1>1 DEF PauseWorkers, ResumeWorkers, RestOK
<1>2. ASSUME NEW t \in Tasks, SkipTask(t, task[t].version) \/ PatchTask(t, task[t].version)
      PROVE  RestOK'
  BY <1>0, <1>2, RecordType DEF SkipTask, PatchTask, RestOK, TransitionEvents
<1>3. ASSUME NEW t \in Tasks, NEW d \in Decisions, NEW s \in Stages, RecordReview(t, d, s)
      PROVE  RestOK'
  <2>1. [type |-> d, stage |-> s] \in ReviewEvents
    BY DEF ReviewEvents
  <2> QED BY <1>0, <1>3, <2>1, ReviewType DEF RecordReview, RestOK
<1>4. ASSUME NEW b \in Budgets, PatchBudget(b)
      PROVE  RestOK'
  BY <1>0, <1>4, QueueAssumption DEF PatchBudget, RestOK, PlanRows
<1>5. ASSUME NEW archived \in BOOLEAN, ArchivePlan(archived)
      PROVE  RestOK'
  BY <1>0, <1>5 DEF ArchivePlan, RestOK, PlanRows
<1>6. ASSUME NEW w \in Workers, RevokeWorkerBearer(w)
      PROVE  RestOK'
  <2>1. worker' \in [Workers -> WorkerRows]
    BY <1>0, <1>6 DEF RevokeWorkerBearer, RestOK, WorkerRows
  <2>2. RecordAll(Held({w}), "RELEASE", [t \in Tasks |-> task[t].claimed_by])
    BY <1>6 DEF RevokeWorkerBearer
  <2>3. audit' \in [Tasks -> AuditEvents]
    BY <1>0, <2>2, RecordAllType, OwnersType DEF RestOK, TransitionEvents
  <2> QED BY <1>0, <1>6, <2>1, <2>3 DEF RevokeWorkerBearer, RestOK
<1>7. ASSUME NEW cut \in Cuts, ResetKeepTasks(cut)
      PROVE  RestOK'
  <2> DEFINE rows == {t \in Tasks : task[t].status # "ABSENT"}
  <2>1. RecordAll(rows, "RESET", [t \in Tasks |-> NoWorker])
    BY <1>7 DEF ResetKeepTasks
  <2>2. audit' \in [Tasks -> AuditEvents]
    BY <1>0, <2>1, RecordAllType, OwnersType DEF RestOK, TransitionEvents
  <2>3. ASSUME NEW t \in Tasks
        PROVE  SubSeq(review[t], cut[t] + 1, Len(review[t])) \in Seq(ReviewEvents)
    <3>0. cut \in [Tasks -> 0..(MaxReview + 1)] /\ MaxReview \in Nat
      BY QueueAssumption DEF Cuts
    <3>1. cut[t] \in Nat
      BY <3>0
    <3>2. review[t] \in Seq(ReviewEvents) /\ Len(review[t]) \in Nat
      BY <1>0 DEF RestOK
    <3> QED BY <3>1, <3>2
  <2> QED BY <1>0, <1>7, <2>2, <2>3 DEF ResetKeepTasks, RestOK
<1> QED BY <1>1, <1>2, <1>3, <1>4, <1>5, <1>6, <1>7 DEF OperatorStep

LEMMA ReimportStepRest ==
    ASSUME QueueTypeOK, ReimportStep
    PROVE  RestOK'
PROOF
<1>0. RestOK
  BY DEF QueueTypeOK, RestOK
<1>1. NewPlan(NoBudget) \in PlanRows /\ << >> \in Seq(ReviewEvents) /\ NoEvent \in AuditEvents
  BY DEF NewPlan, PlanRows, NoEvent, AuditEvents, TransitionEvents
<1>2. ASSUME NEW t \in Tasks, DeleteTask(t, task[t].version)
      PROVE  RestOK'
  BY <1>0, <1>1, <1>2, RecordType DEF DeleteTask, RestOK, TransitionEvents
<1>3. ASSUME NEW t \in Tasks, InsertTask(t)
      PROVE  RestOK'
  BY <1>0, <1>3 DEF InsertTask, RestOK
<1>4. CASE ResetHard
  <2>1. plan' \in PlanRows
    BY <1>1, <1>4 DEF ResetHard, PlanRows
  <2> QED BY <1>0, <1>1, <1>4, <2>1 DEF ResetHard, RestOK
<1>5. CASE ImportPlan
  BY <1>0, <1>1, <1>5 DEF ImportPlan, RestOK
<1> QED BY <1>2, <1>3, <1>4, <1>5 DEF ReimportStep

LEMMA QueueInitType == QueueInit => QueueTypeOK
PROOF
<1> SUFFICES ASSUME QueueInit PROVE QueueTypeOK
  OBVIOUS
<1>1. task \in [Tasks -> Rows]
  BY OtherRows DEF QueueInit
<1>2. plan \in PlanRows
  BY QueueAssumption DEF QueueInit, NewPlan, PlanRows
<1>3. audit \in [Tasks -> AuditEvents] /\ worker \in [Workers -> WorkerRows]
  BY DEF QueueInit, NoEvent, AuditEvents, TransitionEvents, WorkerRows
<1>4. review \in [Tasks -> Seq(ReviewEvents)]
  <2>1. << >> \in Seq(ReviewEvents)
    OBVIOUS
  <2> QED BY <2>1 DEF QueueInit
<1>5. paused \in BOOLEAN /\ stale \in [Tasks -> Workers \cup {NoWorker}]
  BY DEF QueueInit
<1> QED BY <1>1, <1>2, <1>3, <1>4, <1>5 DEF QueueTypeOK

LEMMA QueueStepType == QueueTypeOK /\ [QueueNext]_queueVars => QueueTypeOK'
PROOF
<1> SUFFICES ASSUME QueueTypeOK, [QueueNext]_queueVars PROVE QueueTypeOK'
  OBVIOUS
<1>1. CASE QueueNext
  <2>1. RestOK'
    BY <1>1, CallerStepRest, BackgroundRest, OperatorStepRest, ReimportStepRest DEF QueueNext
  <2> QED BY <1>1, <2>1, QueueStepRows DEF RestOK, QueueTypeOK
<1>2. CASE UNCHANGED queueVars
  BY <1>2 DEF queueVars, QueueTypeOK
<1> QED BY <1>1, <1>2

\* Every column keeps its type, whoever calls the repository in whatever order.
THEOREM QueueTypeSafe == QueueSpec => []QueueTypeOK
BY QueueInitType, QueueStepType, PTL DEF QueueSpec

-----------------------------------------------------------------------------
(* Ownership.                                                              *)

OwnedRow(row) ==
    /\ row.status \in Active \cup {"DONE", "FAILED"} => row.claimed_by \in Workers
    /\ row.status \in {"PENDING", "SKIPPED", "ABSENT"} => row.claimed_by = NoWorker

LEMMA OwnedStep ==
    ASSUME QueueTypeOK, NEW t \in Tasks, OwnedRow(task[t]), RowStep(t)
    PROVE  OwnedRow(task'[t])
PROOF
<1>0. task[t] \in Rows
  BY DEF QueueTypeOK
<1>a. "PENDING" \in TaskStatus /\ "SKIPPED" \in TaskStatus
  BY DEF TaskStatus
<1>b. "IN_PROGRESS" \in TaskStatus
  BY DEF TaskStatus, Active
<1>c. "DONE" \in TaskStatus /\ "FAILED" \in TaskStatus
  BY DEF TaskStatus
<1>1. CASE task'[t] = task[t]
  BY <1>1
<1>2. CASE RowClaimed(t)
  BY <1>0, <1>2, ClaimedRowType DEF RowClaimed, OwnedRow, Active
<1>3. CASE RowStarted(t)
  <2>1. /\ task'[t].status = "IN_PROGRESS" /\ task[t].status = "CLAIMED"
        /\ task'[t].claimed_by = task[t].claimed_by
    BY <1>0, <1>b, <1>3, MovedRow DEF RowStarted
  <2> QED BY <2>1 DEF OwnedRow, Active
<1>4. CASE RowEnded(t)
  <2>1. /\ task'[t].status \in {"DONE", "FAILED"} /\ task[t].status \in Active
        /\ task'[t].claimed_by = task[t].claimed_by
    BY <1>0, <1>c, <1>4, MovedRow DEF RowEnded
  <2> QED BY <2>1 DEF OwnedRow, Active
<1>5. CASE RowFreed(t) \/ RowSkipped(t)
  <2>1. task'[t].status \in {"PENDING", "SKIPPED"} /\ task'[t].claimed_by = NoWorker
    BY <1>0, <1>a, <1>5, FreedRow DEF RowFreed, RowSkipped
  <2> QED BY <2>1 DEF OwnedRow, Active
<1>6. CASE RowEdited(t) \/ RowAged(t)
  BY <1>0, <1>6 DEF RowEdited, RowAged, OwnedRow, Rows
<1>7. CASE RowCreated(t) \/ RowRemoved(t)
  BY <1>7, OtherRows DEF RowCreated, RowRemoved, OwnedRow, Active
<1> QED BY <1>1, <1>2, <1>3, <1>4, <1>5, <1>6, <1>7 DEF RowStep, RowChange, RowQuiet

\* A row has an owner exactly while it is claimed, running, done or failed:
\* the invariant is inductive together with the types.
THEOREM OwnedSafe == QueueSpec => []OwnedIffClaimed
PROOF
<1>1. QueueInit => OwnedIffClaimed
  BY OtherRows DEF QueueInit, OwnedIffClaimed, Active
<1>2. QueueTypeOK /\ OwnedIffClaimed /\ [QueueNext]_queueVars => OwnedIffClaimed'
  <2> SUFFICES ASSUME QueueTypeOK, OwnedIffClaimed, [QueueNext]_queueVars
               PROVE  OwnedIffClaimed'
    OBVIOUS
  <2>1. CASE QueueNext
    <3>1. \A t \in Tasks : OwnedRow(task[t]) /\ RowStep(t)
      BY <2>1, QueueStepRows DEF OwnedIffClaimed, OwnedRow
    <3>2. \A t \in Tasks : OwnedRow(task'[t])
      BY <3>1, OwnedStep
    <3> QED BY <3>2 DEF OwnedIffClaimed, OwnedRow
  <2>2. CASE UNCHANGED queueVars
    BY <2>2 DEF queueVars, OwnedIffClaimed
  <2> QED BY <2>1, <2>2
<1> QED BY <1>1, <1>2, QueueTypeSafe, PTL DEF QueueSpec

-----------------------------------------------------------------------------
(* What the worker loops rely on.                                          *)

\* A row never goes back to a version it had: while it stays in the table, a
\* step that keeps its version keeps its status and its owner.
RowKept(t) ==
    task[t].status # "ABSENT" =>
        /\ task'[t].status # "ABSENT"
        /\ task'[t].version >= task[t].version
        /\ task'[t].version = task[t].version =>
                /\ task'[t].status = task[t].status
                /\ task'[t].claimed_by = task[t].claimed_by

LEMMA ChangeKeeps ==
    ASSUME QueueTypeOK, NEW t \in Tasks, RowChange(t) \/ RowCreated(t)
    PROVE  RowKept(t)
PROOF
<1>0. task[t] \in Rows /\ task[t].version \in Nat
  BY DEF QueueTypeOK, Rows
<1>a. "PENDING" \in TaskStatus /\ "SKIPPED" \in TaskStatus
  BY DEF TaskStatus
<1>b. "IN_PROGRESS" \in TaskStatus
  BY DEF TaskStatus, Active
<1>c. "DONE" \in TaskStatus /\ "FAILED" \in TaskStatus
  BY DEF TaskStatus
<1>1. CASE task'[t] = task[t]
  BY <1>0, <1>1 DEF RowKept
<1>2. CASE RowClaimed(t)
  <2>1. task'[t].status = "CLAIMED" /\ task'[t].version = task[t].version + 1
    BY <1>0, <1>2, ClaimedRowType DEF RowClaimed
  <2> QED BY <1>0, <2>1 DEF RowKept
<1>3. CASE RowStarted(t)
  <2>1. task'[t].status = "IN_PROGRESS" /\ task'[t].version = task[t].version + 1
    BY <1>0, <1>b, <1>3, MovedRow DEF RowStarted
  <2> QED BY <1>0, <2>1 DEF RowKept
<1>4. CASE RowEnded(t)
  <2>1. task'[t].status # "ABSENT" /\ task'[t].version = task[t].version + 1
    BY <1>0, <1>c, <1>4, MovedRow DEF RowEnded
  <2> QED BY <1>0, <2>1 DEF RowKept
<1>5. CASE RowFreed(t) \/ RowSkipped(t)
  <2>1. task'[t].status # "ABSENT" /\ task'[t].version = task[t].version + 1
    BY <1>0, <1>a, <1>5, FreedRow DEF RowFreed, RowSkipped
  <2> QED BY <1>0, <2>1 DEF RowKept
<1>6. CASE RowEdited(t)
  <2>1. task'[t].status = task[t].status /\ task'[t].version = task[t].version + 1
    BY <1>0, <1>6 DEF RowEdited, Rows
  <2> QED BY <1>0, <2>1 DEF RowKept
<1>7. CASE RowAged(t)
  <2>1. /\ task'[t].status = task[t].status /\ task'[t].version = task[t].version
        /\ task'[t].claimed_by = task[t].claimed_by
    BY <1>0, <1>7 DEF RowAged, Rows
  <2> QED BY <1>0, <2>1 DEF RowKept
<1>8. CASE RowCreated(t)
  BY <1>8 DEF RowCreated, RowKept
<1> QED BY <1>1, <1>2, <1>3, <1>4, <1>5, <1>6, <1>7, <1>8 DEF RowChange, RowQuiet

\* Whoever owns t after the step owned it before, at the same version.
NoNewClaim(t) ==
    \A w \in Workers : Owns(w, t)' => Owns(w, t) /\ task'[t].version = task[t].version

\* Every change of a row but a claim and a start frees it, or leaves it alone.
LEMMA QuietOrEndedClaimsNothing ==
    ASSUME QueueTypeOK, NEW t \in Tasks, RowQuiet(t) \/ RowEnded(t) \/ RowCreated(t)
    PROVE  NoNewClaim(t)
PROOF
<1>0. task[t] \in Rows /\ NoWorker \notin Workers
  BY QueueAssumption DEF QueueTypeOK
<1>a. /\ "PENDING" \in TaskStatus /\ "SKIPPED" \in TaskStatus
      /\ "DONE" \in TaskStatus /\ "FAILED" \in TaskStatus
  BY DEF TaskStatus
<1>1. CASE task'[t] = task[t]
  BY <1>1 DEF NoNewClaim, Owns
<1>2. CASE RowFreed(t) \/ RowSkipped(t)
  <2>1. /\ Freed(task[t], "PENDING").status = "PENDING"
        /\ Freed(task[t], "SKIPPED").status = "SKIPPED"
    BY <1>0, <1>a, FreedRow
  <2>2. task'[t].status = "PENDING" \/ task'[t].status = "SKIPPED"
    BY <1>2, <2>1 DEF RowFreed, RowSkipped
  <2> QED BY <2>2 DEF NoNewClaim, Owns, Active
<1>3. CASE RowEnded(t)
  <2>1. task'[t].status \in {"DONE", "FAILED"}
    BY <1>0, <1>a, <1>3, MovedRow DEF RowEnded
  <2> QED BY <2>1 DEF NoNewClaim, Owns, Active
<1>4. CASE RowEdited(t)
  <2>1. task'[t].claimed_by = NoWorker
    BY <1>0, <1>4 DEF RowEdited, Rows
  <2> QED BY <1>0, <2>1 DEF NoNewClaim, Owns
<1>5. CASE RowAged(t)
  <2>1. /\ task'[t].status = task[t].status /\ task'[t].version = task[t].version
        /\ task'[t].claimed_by = task[t].claimed_by
    BY <1>0, <1>5 DEF RowAged, Rows
  <2> QED BY <2>1 DEF NoNewClaim, Owns
<1>6. CASE RowCreated(t)
  <2>1. task'[t].status = "PENDING"
    BY <1>6, OtherRows DEF RowCreated
  <2> QED BY <2>1 DEF NoNewClaim, Owns, Active
<1> QED BY <1>1, <1>2, <1>3, <1>4, <1>5, <1>6 DEF RowQuiet

-----------------------------------------------------------------------------
(* The lifecycle.                                                          *)

\* A row that is not there counts its versions from 0.
AbsentAtZero == \A t \in Tasks : task[t].status = "ABSENT" => task[t].version = 0

LEMMA AbsentStep ==
    ASSUME QueueTypeOK, AbsentAtZero, NEW t \in Tasks, RowStep(t)
    PROVE  task'[t].status = "ABSENT" => task'[t].version = 0
PROOF
<1>0. task[t] \in Rows
  BY DEF QueueTypeOK
<1>a. "PENDING" \in TaskStatus /\ "SKIPPED" \in TaskStatus
  BY DEF TaskStatus
<1>b. "IN_PROGRESS" \in TaskStatus
  BY DEF TaskStatus, Active
<1>c. "DONE" \in TaskStatus /\ "FAILED" \in TaskStatus
  BY DEF TaskStatus
<1>1. CASE task'[t] = task[t]
  BY <1>1 DEF AbsentAtZero
<1>2. CASE RowClaimed(t)
  BY <1>0, <1>2, ClaimedRowType DEF RowClaimed
<1>3. CASE RowStarted(t) \/ RowEnded(t)
  <2>1. CASE RowStarted(t)
    BY <1>0, <1>b, <2>1, MovedRow DEF RowStarted
  <2>2. CASE RowEnded(t)
    BY <1>0, <1>c, <2>2, MovedRow DEF RowEnded
  <2> QED BY <1>3, <2>1, <2>2
<1>4. CASE RowFreed(t) \/ RowSkipped(t)
  BY <1>0, <1>a, <1>4, FreedRow DEF RowFreed, RowSkipped
<1>5. CASE RowEdited(t) \/ RowAged(t)
  <2>1. task'[t].status = task[t].status /\ task[t].status # "ABSENT"
    BY <1>0, <1>5 DEF RowEdited, RowAged, Rows, Active
  <2> QED BY <2>1
<1>6. CASE RowCreated(t) \/ RowRemoved(t)
  BY <1>6, OtherRows DEF RowCreated, RowRemoved
<1>7. QED BY <1>1, <1>2, <1>3, <1>4, <1>5, <1>6 DEF RowStep, RowChange, RowQuiet

LEMMA AbsentSafe == QueueSpec => []AbsentAtZero
PROOF
<1>1. QueueInit => AbsentAtZero
  BY OtherRows DEF QueueInit, AbsentAtZero
<1>2. QueueTypeOK /\ AbsentAtZero /\ [QueueNext]_queueVars => AbsentAtZero'
  <2> SUFFICES ASSUME QueueTypeOK, AbsentAtZero, [QueueNext]_queueVars
               PROVE  AbsentAtZero'
    OBVIOUS
  <2>1. CASE QueueNext
    <3>1. \A t \in Tasks : RowStep(t)
      BY <2>1, QueueStepRows
    <3> QED BY <3>1, AbsentStep DEF AbsentAtZero
  <2>2. CASE UNCHANGED queueVars
    BY <2>2 DEF queueVars, AbsentAtZero
  <2> QED BY <2>1, <2>2
<1> QED BY <1>1, <1>2, QueueTypeSafe, PTL DEF QueueSpec

\* What the row of t is after a step, as the lifecycle sees it.
LifecycleStep(t) ==
    \/ Lifecycle!ApplyTransition(t)
    \/ Lifecycle!Edit(t)
    \/ Lifecycle!Reset(t)
    \/ Lifecycle!Create(t)
    \/ Lifecycle!Remove(t)
    \/ Lifecycle!Keep(t)

LEMMA RowStepIsLifecycleStep ==
    ASSUME QueueTypeOK, AbsentAtZero, NEW t \in Tasks, RowStep(t)
    PROVE  LifecycleStep(t)
PROOF
<1> DEFINE move(from, to, v) ==
        task[t].status = from /\ task'[t].status = to /\ task'[t].version = v
<1>0. task[t] \in Rows
  BY DEF QueueTypeOK
<1>a. "PENDING" \in TaskStatus /\ "SKIPPED" \in TaskStatus
  BY DEF TaskStatus
<1>b. "IN_PROGRESS" \in TaskStatus
  BY DEF TaskStatus, Active
<1>c. "DONE" \in TaskStatus /\ "FAILED" \in TaskStatus
  BY DEF TaskStatus
<1>d. task[t].status \in TaskStatus
  BY <1>0 DEF Rows
<1>1. CASE task'[t] = task[t]
  <2>1. move(task[t].status, task[t].status, task[t].version)
    BY <1>1
  <2>2. Lifecycle!Keep(t)
    BY <2>1 DEF Lifecycle!Keep, Lifecycle!Move
  <2> QED BY <2>2 DEF LifecycleStep
<1>2. CASE RowClaimed(t)
  <2>1. move("PENDING", "CLAIMED", task[t].version + 1)
    BY <1>0, <1>2, ClaimedRowType DEF RowClaimed
  <2>2. Lifecycle!ApplyTransition(t)
    BY <2>1 DEF Lifecycle!ApplyTransition, Lifecycle!ValidTransitions, Lifecycle!Move
  <2> QED BY <2>2 DEF LifecycleStep
<1>3. CASE RowStarted(t)
  <2>1. move("CLAIMED", "IN_PROGRESS", task[t].version + 1)
    BY <1>0, <1>b, <1>3, MovedRow DEF RowStarted
  <2>2. Lifecycle!ApplyTransition(t)
    BY <2>1 DEF Lifecycle!ApplyTransition, Lifecycle!ValidTransitions, Lifecycle!Move
  <2> QED BY <2>2 DEF LifecycleStep
<1>4. CASE RowEnded(t)
  <2>1. PICK s \in {"DONE", "FAILED"} : move(task[t].status, s, task[t].version + 1)
    BY <1>0, <1>c, <1>4, MovedRow DEF RowEnded
  <2>2. task[t].status \in {"CLAIMED", "IN_PROGRESS"}
    BY <1>4 DEF RowEnded, Active
  <2>3. Lifecycle!ApplyTransition(t)
    BY <2>1, <2>2 DEF Lifecycle!ApplyTransition, Lifecycle!ValidTransitions, Lifecycle!Move
  <2> QED BY <2>3 DEF LifecycleStep
<1>5. CASE RowFreed(t)
  <2>1. move(task[t].status, "PENDING", task[t].version + 1)
    BY <1>0, <1>a, <1>5, FreedRow DEF RowFreed
  <2>2. task[t].status \in Lifecycle!Statuses
    BY <1>5, <1>d DEF RowFreed, TaskStatus, Active, Lifecycle!Statuses
  <2>3. Lifecycle!Reset(t)
    BY <2>1, <2>2 DEF Lifecycle!Reset, Lifecycle!Move
  <2> QED BY <2>3 DEF LifecycleStep
<1>6. CASE RowSkipped(t)
  <2>1. move(task[t].status, "SKIPPED", task[t].version + 1)
    BY <1>0, <1>a, <1>6, FreedRow DEF RowSkipped
  <2>2. task[t].status \in {"PENDING", "CLAIMED", "IN_PROGRESS"}
    BY <1>6 DEF RowSkipped, Active
  <2>3. Lifecycle!ApplyTransition(t)
    BY <2>1, <2>2 DEF Lifecycle!ApplyTransition, Lifecycle!ValidTransitions, Lifecycle!Move
  <2> QED BY <2>3 DEF LifecycleStep
<1>7. CASE RowEdited(t)
  <2>1. move(task[t].status, task[t].status, task[t].version + 1)
    BY <1>0, <1>7 DEF RowEdited, Rows
  <2>2. task[t].status \in Lifecycle!Statuses
    BY <1>7, <1>d DEF RowEdited, TaskStatus, Active, Lifecycle!Statuses
  <2>3. Lifecycle!Edit(t)
    BY <2>1, <2>2 DEF Lifecycle!Edit, Lifecycle!Move
  <2> QED BY <2>3 DEF LifecycleStep
<1>8. CASE RowAged(t)
  <2>1. move(task[t].status, task[t].status, task[t].version)
    BY <1>0, <1>8 DEF RowAged, Rows
  <2>2. Lifecycle!Keep(t)
    BY <2>1 DEF Lifecycle!Keep, Lifecycle!Move
  <2> QED BY <2>2 DEF LifecycleStep
<1>9. CASE RowCreated(t)
  <2>1. move("ABSENT", "PENDING", 0)
    BY <1>9, OtherRows DEF RowCreated
  <2>2. Lifecycle!Create(t)
    BY <2>1 DEF Lifecycle!Create, Lifecycle!Move
  <2> QED BY <2>2 DEF LifecycleStep
<1>10. CASE RowRemoved(t)
  <2>1. move(task[t].status, "ABSENT", 0)
    BY <1>10, OtherRows DEF RowRemoved
  <2>2. CASE task[t].status = "ABSENT"
    BY <2>1, <2>2 DEF AbsentAtZero, LifecycleStep, Lifecycle!Keep, Lifecycle!Move
  <2>3. CASE task[t].status # "ABSENT"
    <3>1. task[t].status \in Lifecycle!Statuses
      BY <2>3, <1>d DEF TaskStatus, Active, Lifecycle!Statuses
    <3>2. Lifecycle!Remove(t)
      BY <2>1, <3>1 DEF Lifecycle!Remove, Lifecycle!Move
    <3> QED BY <3>2 DEF LifecycleStep
  <2> QED BY <2>2, <2>3
<1> QED
  BY <1>1, <1>2, <1>3, <1>4, <1>5, <1>6, <1>7, <1>8, <1>9, <1>10
  DEF RowStep, RowChange, RowQuiet

\* Every method of the repository moves rows along the edges of the state
\* machine only, and versions by one: the queue implements TaskLifecycle.
THEOREM QueueImplementsLifecycle == QueueSpec => ImplementsLifecycle
PROOF
<1>1. QueueInit => Lifecycle!LifecycleInit
  BY OtherRows DEF QueueInit, Lifecycle!LifecycleInit
<1>2. QueueTypeOK /\ AbsentAtZero /\ [QueueNext]_queueVars
        => [Lifecycle!LifecycleNext]_(Lifecycle!lifecycleVars)
  <2> SUFFICES ASSUME QueueTypeOK, AbsentAtZero, [QueueNext]_queueVars
               PROVE  [Lifecycle!LifecycleNext]_(Lifecycle!lifecycleVars)
    OBVIOUS
  <2>1. CASE QueueNext
    <3>1. \A t \in Tasks : LifecycleStep(t)
      BY <2>1, QueueStepRows, RowStepIsLifecycleStep
    <3> QED BY <3>1 DEF LifecycleStep, Lifecycle!LifecycleNext
  <2>2. CASE UNCHANGED queueVars
    BY <2>2 DEF queueVars, Lifecycle!lifecycleVars
  <2> QED BY <2>1, <2>2
<1> QED
  BY <1>1, <1>2, QueueTypeSafe, AbsentSafe, PTL
  DEF QueueSpec, ImplementsLifecycle, Lifecycle!LifecycleSpec

-----------------------------------------------------------------------------
(* The audit log agrees with the rows: every statement that changes a       *)
(* status or an owner writes, in its own transaction, the event that tells *)
(* so.                                                                     *)

\* Row and last event of one task, as AuditTellsStatus relates them.
Agree(row, e) ==
    /\ row.status = "PENDING" <=> row.status # "ABSENT" /\ e.type \in {"NONE", "RELEASE", "RESET"}
    /\ row.status = "CLAIMED" <=> e.type = "CLAIM"
    /\ row.status = "IN_PROGRESS" <=> e.type = "START"
    /\ row.status = "DONE" <=> e.type = "COMPLETE"
    /\ row.status = "FAILED" <=> e.type = "FAIL"
    /\ row.status = "SKIPPED" <=> e.type = "SKIP"
    /\ row.claimed_by # NoWorker => e.worker = row.claimed_by

AllAgree == \A t \in Tasks : Agree(task[t], audit[t])

LEMMA AllAgreeIsAuditTellsStatus == AllAgree <=> AuditTellsStatus
BY DEF AllAgree, Agree, AuditTellsStatus

\* A statement that changes one row and writes one event.
LEMMA OneRowAgrees ==
    ASSUME QueueTypeOK, AllAgree, NEW u \in Tasks, NEW row, NEW type, NEW w,
           task' = [task EXCEPT ![u] = row], Record(u, type, w),
           Agree(row, [type |-> type, worker |-> w])
    PROVE  AllAgree'
PROOF
<1> SUFFICES ASSUME NEW t \in Tasks PROVE Agree(task'[t], audit'[t])
  BY DEF AllAgree
<1>1. CASE t = u
  <2>1. task'[t] = row /\ audit'[t] = [type |-> type, worker |-> w]
    BY <1>1 DEF QueueTypeOK, Record
  <2> QED BY <2>1
<1>2. CASE t # u
  <2>1. task'[t] = task[t] /\ audit'[t] = audit[t]
    BY <1>2 DEF QueueTypeOK, Record
  <2> QED BY <2>1 DEF AllAgree
<1> QED BY <1>1, <1>2

\* A statement that frees a set of rows, with one event for each.
LEMMA FreedRowsAgree ==
    ASSUME QueueTypeOK, AllAgree, NEW S, NEW type \in {"RELEASE", "RESET"}, NEW who,
           FreeAll(S, "PENDING"), RecordAll(S, type, who)
    PROVE  AllAgree'
PROOF
<1> SUFFICES ASSUME NEW t \in Tasks PROVE Agree(task'[t], audit'[t])
  BY DEF AllAgree
<1>1. CASE t \in S
  <2>1. task[t] \in Rows /\ "PENDING" \in TaskStatus
    BY DEF QueueTypeOK, TaskStatus
  <2>2. task'[t] = Freed(task[t], "PENDING") /\ audit'[t] = [type |-> type, worker |-> who[t]]
    BY <1>1 DEF FreeAll, RecordAll
  <2>3. task'[t].status = "PENDING" /\ task'[t].claimed_by = NoWorker /\ audit'[t].type = type
    BY <2>1, <2>2, FreedRow
  <2> QED BY <2>3 DEF Agree
<1>2. CASE t \notin S
  <2>1. task'[t] = task[t] /\ audit'[t] = audit[t]
    BY <1>2 DEF FreeAll, RecordAll
  <2> QED BY <2>1 DEF AllAgree
<1> QED BY <1>1, <1>2

\* A statement that changes rows, but neither their status nor their owner,
\* or creates them, writes no event: a row that is not there has none that
\* a fresh one could contradict.
LEMMA SilentRowsAgree ==
    ASSUME QueueTypeOK, AllAgree, audit' = audit,
           \A t \in Tasks :
                \/ /\ task'[t].status = task[t].status
                   /\ task'[t].claimed_by = task[t].claimed_by
                \/ RowCreated(t)
    PROVE  AllAgree'
PROOF
<1> SUFFICES ASSUME NEW t \in Tasks PROVE Agree(task'[t], audit'[t])
  BY DEF AllAgree
<1>0. Agree(task[t], audit[t]) /\ audit'[t] = audit[t]
  BY DEF AllAgree
<1>1. CASE task'[t].status = task[t].status /\ task'[t].claimed_by = task[t].claimed_by
  BY <1>0, <1>1 DEF Agree
<1>2. CASE RowCreated(t)
  <2>1. /\ task[t].status = "ABSENT"
        /\ task'[t].status = "PENDING" /\ task'[t].claimed_by = NoWorker
    BY <1>2, OtherRows DEF RowCreated
  <2>2. audit[t].type \in TransitionEvents
    BY DEF QueueTypeOK, AuditEvents
  <2>3. audit[t].type \in {"NONE", "RELEASE", "RESET"}
    BY <1>0, <2>1, <2>2 DEF Agree, TransitionEvents
  <2> QED BY <1>0, <2>1, <2>3 DEF Agree
<1> QED BY <1>1, <1>2

LEMMA CallerStepAgrees ==
    ASSUME QueueTypeOK, AllAgree, CallerStep
    PROVE  AllAgree'
PROOF
<1>0. \A t \in Tasks : task[t] \in Rows
  BY DEF QueueTypeOK
<1>a. /\ "PENDING" \in TaskStatus /\ "DONE" \in TaskStatus /\ "FAILED" \in TaskStatus
      /\ "IN_PROGRESS" \in TaskStatus
  BY DEF TaskStatus, Active
<1>1. ASSUME NEW w \in Workers, NEW u \in Tasks, Claim(w, u)
      PROVE  AllAgree'
  <2>1. task' = [task EXCEPT ![u] = ClaimedRow(task[u], w)] /\ Record(u, "CLAIM", w)
    BY <1>1 DEF Claim, ClaimedRow
  <2>2. Agree(ClaimedRow(task[u], w), [type |-> "CLAIM", worker |-> w])
    BY <1>0, ClaimedRowType DEF Agree
  <2> QED BY <2>1, <2>2, OneRowAgrees
<1>2. ASSUME NEW u \in Tasks, Start(u, task[u].version)
      PROVE  AllAgree'
  <2>1. /\ task' = [task EXCEPT ![u] = Moved(task[u], "IN_PROGRESS")]
        /\ Record(u, "START", audit[u].worker)
    BY <1>2 DEF Start
  <2>2. Agree(Moved(task[u], "IN_PROGRESS"), [type |-> "START", worker |-> audit[u].worker])
    <3>1. /\ Moved(task[u], "IN_PROGRESS").status = "IN_PROGRESS"
          /\ Moved(task[u], "IN_PROGRESS").claimed_by = task[u].claimed_by
      BY <1>0, <1>a, MovedRow
    <3>2. task[u].claimed_by # NoWorker => audit[u].worker = task[u].claimed_by
      BY DEF AllAgree, Agree
    <3> QED BY <3>1, <3>2 DEF Agree
  <2> QED BY <2>1, <2>2, OneRowAgrees
<1>3. ASSUME NEW u \in Tasks, NEW c \in Costs, Complete(u, task[u].version, c)
      PROVE  AllAgree'
  <2>1. /\ task' = [task EXCEPT ![u] = Moved(task[u], "DONE")]
        /\ Record(u, "COMPLETE", task[u].claimed_by)
    BY <1>3 DEF Complete
  <2>2. Agree(Moved(task[u], "DONE"), [type |-> "COMPLETE", worker |-> task[u].claimed_by])
    BY <1>0, <1>a, MovedRow DEF Agree
  <2> QED BY <2>1, <2>2, OneRowAgrees
<1>4. ASSUME NEW u \in Tasks, Fail(u, task[u].version)
      PROVE  AllAgree'
  <2>1. /\ task' = [task EXCEPT ![u] = Moved(task[u], "FAILED")]
        /\ Record(u, "FAIL", task[u].claimed_by)
    BY <1>4 DEF Fail
  <2>2. Agree(Moved(task[u], "FAILED"), [type |-> "FAIL", worker |-> task[u].claimed_by])
    BY <1>0, <1>a, MovedRow DEF Agree
  <2> QED BY <2>1, <2>2, OneRowAgrees
<1>5. ASSUME NEW u \in Tasks, Release(u, task[u].version) \/ ReleaseForReview(u, task[u].version)
      PROVE  AllAgree'
  <2>1. /\ task' = [task EXCEPT ![u] = Freed(task[u], "PENDING")]
        /\ Record(u, "RELEASE", task[u].claimed_by)
    BY <1>5 DEF Release, ReleaseForReview
  <2>2. Agree(Freed(task[u], "PENDING"), [type |-> "RELEASE", worker |-> task[u].claimed_by])
    BY <1>0, <1>a, FreedRow DEF Agree
  <2> QED BY <2>1, <2>2, OneRowAgrees
<1>6. ASSUME UNCHANGED <<task, audit>>
      PROVE  AllAgree'
  BY <1>6 DEF AllAgree
<1> QED
  BY <1>1, <1>2, <1>3, <1>4, <1>5, <1>6
  DEF CallerStep, RecordReview, RegisterWorker, ReregisterWorker, UpdateHeartbeat

\* The sweep may write the owner of its snapshot instead of the one it took
\* the row from: the row has no owner any more, so nothing contradicts it.
LEMMA BackgroundAgrees ==
    ASSUME QueueTypeOK, AllAgree, SweepStep \/ TimeStep
    PROVE  AllAgree'
PROOF
<1>1. CASE ReleaseStaleApply
  BY <1>1, FreedRowsAgree DEF ReleaseStaleApply
<1>2. CASE ReleaseOfflineWorkers
  BY <1>2, FreedRowsAgree DEF ReleaseOfflineWorkers
<1>3. ASSUME NEW u \in Tasks, ClaimAges(u)
      PROVE  AllAgree'
  <2>1. audit' = audit /\ task' = [task EXCEPT ![u] = [task[u] EXCEPT !.aged = TRUE]]
    BY <1>3 DEF ClaimAges
  <2>2. \A t \in Tasks : /\ task'[t].status = task[t].status
                         /\ task'[t].claimed_by = task[t].claimed_by
    BY <2>1 DEF QueueTypeOK, Rows
  <2> QED BY <2>1, <2>2, SilentRowsAgree
<1>4. ASSUME UNCHANGED <<task, audit>>
      PROVE  AllAgree'
  BY <1>4 DEF AllAgree
<1> QED
  BY <1>1, <1>2, <1>3, <1>4
  DEF SweepStep, TimeStep, ReleaseStaleSnapshot, ReleaseStaleAbort, HeartbeatAges

LEMMA OperatorStepAgrees ==
    ASSUME QueueTypeOK, AllAgree, OperatorStep
    PROVE  AllAgree'
PROOF
<1>1. ASSUME NEW u \in Tasks, SkipTask(u, task[u].version)
      PROVE  AllAgree'
  <2>1. /\ task' = [task EXCEPT ![u] = Freed(task[u], "SKIPPED")]
        /\ Record(u, "SKIP", NoWorker)
    BY <1>1 DEF SkipTask
  <2>2. task[u] \in Rows /\ "SKIPPED" \in TaskStatus
    BY DEF QueueTypeOK, TaskStatus
  <2>3. Agree(Freed(task[u], "SKIPPED"), [type |-> "SKIP", worker |-> NoWorker])
    BY <2>2, FreedRow DEF Agree
  <2> QED BY <2>1, <2>3, OneRowAgrees
<1>2. ASSUME NEW u \in Tasks, PatchTask(u, task[u].version)
      PROVE  AllAgree'
  <2>1. audit' = audit /\ task' = [task EXCEPT ![u] = [task[u] EXCEPT !.version = @ + 1]]
    BY <1>2 DEF PatchTask
  <2>2. \A t \in Tasks : /\ task'[t].status = task[t].status
                         /\ task'[t].claimed_by = task[t].claimed_by
    BY <2>1 DEF QueueTypeOK, Rows
  <2> QED BY <2>1, <2>2, SilentRowsAgree
<1>3. ASSUME NEW w \in Workers, RevokeWorkerBearer(w)
      PROVE  AllAgree'
  BY <1>3, FreedRowsAgree DEF RevokeWorkerBearer
<1>4. ASSUME NEW cut \in Cuts, ResetKeepTasks(cut)
      PROVE  AllAgree'
  BY <1>4, FreedRowsAgree DEF ResetKeepTasks
<1>5. ASSUME UNCHANGED <<task, audit>>
      PROVE  AllAgree'
  BY <1>5 DEF AllAgree
<1> QED
  BY <1>1, <1>2, <1>3, <1>4, <1>5
  DEF OperatorStep, PauseWorkers, ResumeWorkers, RecordReview, PatchBudget, ArchivePlan

LEMMA ReimportStepAgrees ==
    ASSUME QueueTypeOK, AllAgree, ReimportStep
    PROVE  AllAgree'
PROOF
<1>1. ASSUME NEW u \in Tasks, DeleteTask(u, task[u].version)
      PROVE  AllAgree'
  <2>1. task' = [task EXCEPT ![u] = NoRow] /\ Record(u, "NONE", NoWorker)
    BY <1>1 DEF DeleteTask
  <2>2. Agree(NoRow, [type |-> "NONE", worker |-> NoWorker])
    BY OtherRows DEF Agree
  <2> QED BY <2>1, <2>2, OneRowAgrees
<1>2. ASSUME NEW u \in Tasks, InsertTask(u)
      PROVE  AllAgree'
  <2>1. /\ audit' = audit /\ task[u].status = "ABSENT"
        /\ task' = [task EXCEPT ![u] = NewRow]
    BY <1>2 DEF InsertTask
  <2>2. \A t \in Tasks : task'[t] = task[t] \/ RowCreated(t)
    BY <2>1 DEF QueueTypeOK, RowCreated
  <2> QED BY <2>1, <2>2, SilentRowsAgree
<1>3. CASE ResetHard
  <2>1. \A t \in Tasks : task'[t] = NoRow /\ audit'[t] = NoEvent
    BY <1>3 DEF ResetHard
  <2>2. Agree(NoRow, NoEvent)
    BY OtherRows DEF Agree, NoEvent
  <2> QED BY <2>1, <2>2 DEF AllAgree
<1>4. CASE ImportPlan
  <2>1. audit' = audit /\ \A t \in Tasks : task'[t] = task[t] \/ RowCreated(t)
    BY <1>4 DEF ImportPlan, RowCreated
  <2> QED BY <2>1, SilentRowsAgree
<1> QED BY <1>1, <1>2, <1>3, <1>4 DEF ReimportStep

\* The last transition event of a task tells the status and the owner of its
\* row, after any sequence of calls, sweeps and operator commands.
THEOREM AuditSafe == QueueSpec => []AuditTellsStatus
PROOF
<1>1. QueueInit => AllAgree
  <2> SUFFICES ASSUME QueueInit, NEW t \in Tasks PROVE Agree(task[t], audit[t])
    BY DEF AllAgree
  <2>1. audit[t] = NoEvent /\ (task[t] = NewRow \/ task[t] = NoRow)
    BY DEF QueueInit
  <2> QED BY <2>1, OtherRows DEF Agree, NoEvent
<1>2. QueueTypeOK /\ AllAgree /\ [QueueNext]_queueVars => AllAgree'
  <2> SUFFICES ASSUME QueueTypeOK, AllAgree, [QueueNext]_queueVars PROVE AllAgree'
    OBVIOUS
  <2>1. CASE QueueNext
    BY <2>1, CallerStepAgrees, BackgroundAgrees, OperatorStepAgrees, ReimportStepAgrees DEF QueueNext
  <2>2. CASE UNCHANGED queueVars
    BY <2>2 DEF queueVars, AllAgree
  <2> QED BY <2>1, <2>2
<1> QED BY <1>1, <1>2, QueueTypeSafe, AllAgreeIsAuditTellsStatus, PTL DEF QueueSpec

-----------------------------------------------------------------------------
(* Who takes a task.                                                       *)

\* A row a worker has, or had when it ended.
Taken == Active \cup {"DONE", "FAILED"}

\* A row that becomes taken, or in flight, is claimed in that step ...
LEMMA TakenRow ==
    ASSUME QueueTypeOK, NEW t \in Tasks, RowStep(t),
           \/ task[t].status \notin Taken /\ task'[t].status \in Taken
           \/ task[t].status \notin Active /\ task'[t].status \in Active
    PROVE  RowClaimed(t)
PROOF
<1>0. task[t] \in Rows
  BY DEF QueueTypeOK
<1>a. /\ "PENDING" \in TaskStatus /\ "SKIPPED" \in TaskStatus
      /\ "DONE" \in TaskStatus /\ "FAILED" \in TaskStatus
  BY DEF TaskStatus
<1>1. CASE RowFreed(t) \/ RowSkipped(t)
  <2>1. /\ Freed(task[t], "PENDING").status = "PENDING"
        /\ Freed(task[t], "SKIPPED").status = "SKIPPED"
    BY <1>0, <1>a, FreedRow
  <2>2. task'[t].status = "PENDING" \/ task'[t].status = "SKIPPED"
    BY <1>1, <2>1 DEF RowFreed, RowSkipped
  <2> QED BY <2>2 DEF Taken, Active
<1>2. CASE RowEnded(t)
  <2>1. task[t].status \in Active
    BY <1>2 DEF RowEnded
  <2>2. PICK s \in {"DONE", "FAILED"} : task'[t] = Moved(task[t], s)
    BY <1>2 DEF RowEnded
  <2> DEFINE ended == Moved(task[t], s)
  <2>3. s \in TaskStatus
    BY <1>a, <2>2
  <2>4. ended.status = s
    BY <1>0, <2>3, MovedRow
  <2>5. task'[t] = ended
    BY <2>2
  <2> QED BY <2>1, <2>2, <2>4, <2>5 DEF Taken, Active
<1>3. CASE task'[t] = task[t] \/ RowEdited(t) \/ RowAged(t)
  <2>1. task'[t].status = task[t].status
    BY <1>0, <1>3 DEF RowEdited, RowAged, Rows
  <2> QED BY <2>1
<1>4. CASE RowStarted(t)
  BY <1>4 DEF RowStarted, Taken, Active
<1>5. CASE RowCreated(t) \/ RowRemoved(t)
  BY <1>5, OtherRows DEF RowCreated, RowRemoved, Taken, Active
<1> QED BY <1>1, <1>2, <1>3, <1>4, <1>5 DEF RowStep, RowChange, RowQuiet

\* ... and claim_task is the only method that claims.
LEMMA OnlyClaimClaims ==
    ASSUME QueueTypeOK, QueueNext, NEW t \in Tasks, RowClaimed(t)
    PROVE  \E w \in Workers : Claim(w, t)
PROOF
<1>0. task \in [Tasks -> Rows] /\ task[t] \in Rows
  BY DEF QueueTypeOK
<1>a. /\ "PENDING" \in TaskStatus /\ "SKIPPED" \in TaskStatus
  BY DEF TaskStatus
<1>b. task[t].status = "PENDING" /\ task'[t].status = "CLAIMED"
  BY <1>0, ClaimedRowType DEF RowClaimed
<1>1. ~RowQuiet(t)
  <2>1. ~RowFreed(t) /\ ~RowSkipped(t)
    BY <1>0, <1>a, <1>b, FreedRow DEF RowFreed, RowSkipped
  <2>2. ~(task'[t] = task[t] \/ RowEdited(t) \/ RowAged(t))
    BY <1>0, <1>b DEF RowEdited, RowAged, Rows
  <2> QED BY <2>1, <2>2 DEF RowQuiet
<1>2. ~(SweepStep \/ TimeStep \/ OperatorStep)
  BY <1>1, BackgroundRows, OperatorStepRows
<1>3. ~ReimportStep
  <2>1. ReimportStep => task'[t] = task[t] \/ task'[t] = NewRow \/ task'[t] = NoRow
    BY <1>0 DEF ReimportStep, DeleteTask, InsertTask, ResetHard, ImportPlan
  <2> QED BY <1>b, <2>1, OtherRows
<1>4. ASSUME CallerStep, \A w \in Workers : ~Claim(w, t)
      PROVE  FALSE
  <2>1. \A w \in Workers, u \in Tasks : ~Claim(w, u)
    <3> SUFFICES ASSUME NEW w \in Workers, NEW u \in Tasks, Claim(w, u), u # t PROVE FALSE
      BY <1>4
    <3> QED BY <1>0, <1>b DEF Claim
  <2>2. \A v : \A u \in Tasks : ~(Start(u, v) \/ Fail(u, v) \/ Release(u, v) \/ ReleaseForReview(u, v))
    BY <1>0, <1>b
    DEF Start, Fail, Release, ReleaseForReview, Matches, Active
  <2>3. \A v, c : \A u \in Tasks : ~Complete(u, v, c)
    BY <1>0, <1>b DEF Complete, Matches, Active
  <2>4. task' # task
    BY <1>b
  <2> QED
    BY <1>4, <2>1, <2>2, <2>3, <2>4
    DEF CallerStep, RecordReview, RegisterWorker, ReregisterWorker, UpdateHeartbeat
<1> QED BY <1>2, <1>3, <1>4 DEF QueueNext

\* What a step may do to the human-review events of a task: nothing, append
\* one that holds nothing, or anything if nobody has the task afterwards.
LEMMA ReviewStep ==
    ASSUME QueueTypeOK, QueueNext, NEW t \in Tasks
    PROVE  \/ review'[t] = review[t]
           \/ \E e \in ReviewEvents : e.type # "hold" /\ review'[t] = Append(review[t], e)
           \/ task'[t].status \notin Taken
PROOF
<1>0. task \in [Tasks -> Rows] /\ review \in [Tasks -> Seq(ReviewEvents)] /\ task[t] \in Rows
  BY DEF QueueTypeOK
<1>a. "PENDING" \in TaskStatus /\ "PENDING" \notin Taken /\ "ABSENT" \notin Taken
  BY DEF TaskStatus, Taken, Active
<1>1. ASSUME NEW u \in Tasks, NEW type \in {"required"} \cup Decisions, NEW s \in Stages,
             RecordReview(u, type, s)
      PROVE  \/ review'[t] = review[t]
             \/ \E e \in ReviewEvents : e.type # "hold" /\ review'[t] = Append(review[t], e)
  <2> DEFINE e == [type |-> type, stage |-> s]
  <2>1. e \in ReviewEvents /\ e.type # "hold"
    BY DEF ReviewEvents, Decisions
  <2>2. review' = [review EXCEPT ![u] = Append(@, e)]
    BY <1>1 DEF RecordReview
  <2> HIDE DEF e
  <2>3. review'[t] = review[t] \/ review'[t] = Append(review[t], e)
    BY <1>0, <2>2
  <2> QED BY <2>1, <2>3
<1>2. ASSUME NEW u \in Tasks, ReleaseForReview(u, task[u].version)
      PROVE  review'[t] = review[t] \/ task'[t].status \notin Taken
  <2>1. /\ task' = [task EXCEPT ![u] = Freed(task[u], "PENDING")]
        /\ \E e : review' = [review EXCEPT ![u] = Append(@, e)]
    BY <1>2 DEF ReleaseForReview
  <2>2. CASE u = t
    BY <1>0, <1>a, <2>1, <2>2, FreedRow
  <2>3. CASE u # t
    BY <1>0, <2>1, <2>3
  <2> QED BY <2>2, <2>3
<1>3. ASSUME NEW cut \in Cuts, ResetKeepTasks(cut)
      PROVE  task'[t].status \notin Taken
  <2>1. task'[t] = IF task[t].status # "ABSENT" THEN Freed(task[t], "PENDING") ELSE task[t]
    BY <1>3 DEF ResetKeepTasks, FreeAll
  <2> QED BY <1>0, <1>a, <2>1, FreedRow
<1>4. ASSUME NEW u \in Tasks, DeleteTask(u, task[u].version)
      PROVE  review'[t] = review[t] \/ task'[t].status \notin Taken
  BY <1>0, <1>4, <1>a, OtherRows DEF DeleteTask
<1>5. CASE ResetHard
  BY <1>5, <1>a, OtherRows DEF ResetHard
<1>6. CASE CallerStep
  BY <1>1, <1>2, <1>6
  DEF CallerStep, Claim, Start, Complete, Fail, Release, RegisterWorker, ReregisterWorker, UpdateHeartbeat
<1>7. CASE SweepStep \/ TimeStep
  BY <1>7
  DEF SweepStep, TimeStep, ReleaseStaleSnapshot, ReleaseStaleApply, ReleaseStaleAbort,
      ReleaseOfflineWorkers, ClaimAges, HeartbeatAges
<1>8. CASE OperatorStep
  BY <1>1, <1>3, <1>8
  DEF OperatorStep, PauseWorkers, ResumeWorkers, SkipTask, PatchTask, PatchBudget, ArchivePlan,
      RevokeWorkerBearer
<1>9. CASE ReimportStep
  BY <1>4, <1>5, <1>9 DEF ReimportStep, InsertTask, ImportPlan
<1> QED BY <1>6, <1>7, <1>8, <1>9 DEF QueueNext

-----------------------------------------------------------------------------
(* Human review, the queue's side.                                         *)

\* An approval recorded after position i.
ApprovedAfter(t, i) == \E j \in (i + 1)..Len(review[t]) : review[t][j].type = "approved"

\* A task that may be claimed has every hold followed by an approval.
LEMMA ClaimIsCleared ==
    ASSUME QueueTypeOK, NEW t \in Tasks, NEW w \in Workers, Claim(w, t),
           NEW i \in DOMAIN review[t], review[t][i].type = "hold"
    PROVE  ApprovedAfter(t, i)
PROOF
<1>1. ~ReviewHeld(t)
  BY DEF Claim, Claimable
<1>2. Cleared(t, i)
  BY <1>1 DEF ReviewHeld
<1> QED BY <1>2 DEF Cleared, ApprovedAfter

\* Whoever has the task was given it by a claim that saw the approvals, and a
\* new hold takes the task away in the same transaction.
LEMMA HeldStep ==
    ASSUME QueueTypeOK, HeldUntilApproved, QueueNext
    PROVE  HeldUntilApproved'
PROOF
<1> SUFFICES ASSUME NEW t \in Tasks, task'[t].status \in Taken,
                    NEW i \in DOMAIN review'[t], review'[t][i].type = "hold"
             PROVE  \E j \in (i + 1)..Len(review'[t]) : review'[t][j].type = "approved"
  BY DEF HeldUntilApproved, Taken
<1>0. review[t] \in Seq(ReviewEvents) /\ Len(review[t]) \in Nat
  BY DEF QueueTypeOK
<1>1. ASSUME i \in DOMAIN review[t], review[t][i].type = "hold"
      PROVE  ApprovedAfter(t, i)
  <2>1. CASE task[t].status \in Taken
    BY <1>1, <2>1 DEF HeldUntilApproved, Taken, ApprovedAfter
  <2>2. CASE task[t].status \notin Taken
    BY <1>1, <2>2, QueueStepRows, TakenRow, OnlyClaimClaims, ClaimIsCleared
  <2> QED BY <2>1, <2>2
<1>2. CASE review'[t] = review[t]
  BY <1>1, <1>2 DEF ApprovedAfter
<1>3. ASSUME NEW e \in ReviewEvents, e.type # "hold", review'[t] = Append(review[t], e)
      PROVE  \E j \in (i + 1)..Len(review'[t]) : review'[t][j].type = "approved"
  <2>1. /\ Len(review'[t]) = Len(review[t]) + 1
        /\ \A k \in 1..Len(review[t]) : review'[t][k] = review[t][k]
        /\ review'[t][Len(review[t]) + 1] = e
    BY <1>0, <1>3, AppendProperties
  <2>2. i \in 1..(Len(review[t]) + 1)
    BY <1>0, <1>3
  <2>3. i \in 1..Len(review[t])
    BY <1>0, <1>3, <2>1, <2>2
  <2>4. PICK j \in (i + 1)..Len(review[t]) : review[t][j].type = "approved"
    BY <1>0, <1>1, <2>1, <2>3 DEF ApprovedAfter
  <2> QED BY <1>0, <2>1, <2>3, <2>4
<1> QED BY <1>2, <1>3, ReviewStep

\* A task released for human review is not in a worker's hands again, nor
\* done, before an approval later than the release, whoever calls the queue.
THEOREM HeldSafe == QueueSpec => []HeldUntilApproved
PROOF
<1>1. QueueInit => HeldUntilApproved
  BY OtherRows DEF QueueInit, HeldUntilApproved, Active
<1>2. QueueTypeOK /\ HeldUntilApproved /\ [QueueNext]_queueVars => HeldUntilApproved'
  BY HeldStep DEF queueVars, HeldUntilApproved
<1> QED BY <1>1, <1>2, QueueTypeSafe, PTL DEF QueueSpec

-----------------------------------------------------------------------------
(* The budget.                                                             *)

\* What counts against the budget of the plan.
Money == <<plan.budget, plan.spent, plan.sentinels>>

\* An unlimited plan that has spent nothing.
FreshMoney == plan.budget = NoBudget /\ plan.spent = 0 /\ plan.sentinels = 0

\* What a step does to the money and to the tasks in flight, as long as nobody
\* patches the budget: a claim within the budget, a completion that is charged,
\* a fresh plan, or nothing that costs.
ClaimMoves ==
    /\ WithinBudget
    /\ Money' = Money
ChargeMoves(t, c) ==
    /\ t \in InFlight
    /\ InFlight' \subseteq InFlight \ {t}
    /\ plan' = Spend(c)
FreeMoves ==
    /\ InFlight' \subseteq InFlight
    /\ Money' = Money

LEMMA InFlightFinite ==
    /\ IsFiniteSet(InFlight) /\ IsFiniteSet(InFlight')
    /\ Cardinality(Tasks) \in Nat
    /\ Cardinality(InFlight) \in 0..Cardinality(Tasks)
    /\ Cardinality(InFlight') \in 0..Cardinality(Tasks)
PROOF
<1>1. InFlight \subseteq Tasks /\ InFlight' \subseteq Tasks /\ IsFiniteSet(Tasks)
  BY QueueAssumption DEF InFlight
<1>2. IsFiniteSet(InFlight) /\ Cardinality(InFlight) <= Cardinality(Tasks)
  BY <1>1, FS_Subset
<1>3. IsFiniteSet(InFlight') /\ Cardinality(InFlight') <= Cardinality(Tasks)
  BY <1>1, FS_Subset
<1> QED BY <1>1, <1>2, <1>3, FS_CardinalityType

\* Without a claim no task enters flight.
LEMMA NoClaimNoFlight ==
    ASSUME QueueTypeOK, QueueNext, \A w \in Workers, t \in Tasks : ~Claim(w, t)
    PROVE  InFlight' \subseteq InFlight
PROOF
<1>1. ASSUME NEW t \in Tasks, task'[t].status \in Active
      PROVE  task[t].status \in Active
  BY <1>1, QueueStepRows, TakenRow, OnlyClaimClaims
<1> QED BY <1>1 DEF InFlight

LEMMA CompletionCharges ==
    ASSUME QueueTypeOK, QueueNext, NEW t \in Tasks, NEW c \in Costs,
           Complete(t, task[t].version, c)
    PROVE  ChargeMoves(t, c)
PROOF
<1>0. task[t] \in Rows /\ "DONE" \in TaskStatus
  BY DEF QueueTypeOK, TaskStatus
<1>1. task' = [task EXCEPT ![t] = Moved(task[t], "DONE")] /\ task[t].status \in Active
  BY DEF Complete, Matches
<1>2. task'[t].status = "DONE"
  BY <1>0, <1>1, MovedRow DEF QueueTypeOK
<1>3. \A u \in Tasks : u # t => task'[u] = task[u]
  BY <1>1 DEF QueueTypeOK
<1>4. InFlight' \subseteq InFlight \ {t}
  BY <1>2, <1>3 DEF InFlight, Active
<1> QED BY <1>1, <1>4 DEF Complete, ChargeMoves, InFlight

LEMMA MoneyStep ==
    ASSUME QueueTypeOK, QueueNext, BudgetStays
    PROVE  \/ ClaimMoves
           \/ \E t \in Tasks, c \in Costs : ChargeMoves(t, c)
           \/ FreshMoney'
           \/ FreeMoves
PROOF
<1>1. ASSUME NEW w \in Workers, NEW t \in Tasks, Claim(w, t)
      PROVE  ClaimMoves
  BY <1>1 DEF Claim, Claimable, ClaimMoves, Money
<1>2. ASSUME NEW t \in Tasks, NEW c \in Costs, Complete(t, task[t].version, c)
      PROVE  ChargeMoves(t, c)
  BY <1>2, CompletionCharges
<1>3. ASSUME \A w \in Workers, t \in Tasks : ~Claim(w, t),
             \A t \in Tasks, c \in Costs : ~Complete(t, task[t].version, c)
      PROVE  FreshMoney' \/ FreeMoves
  <2>1. InFlight' \subseteq InFlight
    BY <1>3, NoClaimNoFlight
  <2>2. CASE CallerStep
    <3>1. plan' = plan
      BY <1>3, <2>2
      DEF CallerStep, Start, Fail, Release, ReleaseForReview, RecordReview, RegisterWorker,
          ReregisterWorker, UpdateHeartbeat
    <3> QED BY <2>1, <3>1 DEF FreeMoves, Money
  <2>3. CASE SweepStep \/ TimeStep
    <3>1. plan' = plan
      BY <2>3
      DEF SweepStep, TimeStep, ReleaseStaleSnapshot, ReleaseStaleApply, ReleaseStaleAbort,
          ReleaseOfflineWorkers, ClaimAges, HeartbeatAges
    <3> QED BY <2>1, <3>1 DEF FreeMoves, Money
  <2>4. CASE OperatorStep
    <3>1. CASE plan' = plan
      BY <2>1, <3>1 DEF FreeMoves, Money
    <3>2. ASSUME NEW b \in Budgets, PatchBudget(b)
          PROVE  Money' = Money
      BY <3>2 DEF PatchBudget, BudgetStays, QueueTypeOK, PlanRows, Money
    <3>3. ASSUME NEW archived \in BOOLEAN, ArchivePlan(archived)
          PROVE  Money' = Money
      BY <3>3 DEF ArchivePlan, QueueTypeOK, PlanRows, Money
    <3> QED
      BY <2>1, <2>4, <3>1, <3>2, <3>3
      DEF FreeMoves, OperatorStep, PauseWorkers, ResumeWorkers, SkipTask, PatchTask, RecordReview,
          RevokeWorkerBearer, ResetKeepTasks
  <2>5. CASE ReimportStep
    <3>1. CASE plan' = plan
      BY <2>1, <3>1 DEF FreeMoves, Money
    <3>2. CASE ResetHard
      BY <3>2 DEF ResetHard, NewPlan, FreshMoney
    <3>3. CASE ImportPlan /\ plan' # plan
      BY <3>3 DEF ImportPlan, NewPlan, FreshMoney
    <3> QED BY <2>5, <3>1, <3>2, <3>3 DEF ReimportStep, DeleteTask, InsertTask
  <2> QED BY <2>2, <2>3, <2>4, <2>5 DEF QueueNext
<1> QED BY <1>1, <1>2, <1>3

\* The strengthening both properties need: a plan that never let anything be
\* claimed has nothing in flight, so that no completion can be charged to it.
IdleAtZero == plan.spent = 0 /\ ~WithinBudget => InFlight = {}

LEMMA IdleStep ==
    ASSUME QueueTypeOK, IdleAtZero, QueueNext, BudgetStays
    PROVE  IdleAtZero'
PROOF
<1>0. plan.spent \in Nat /\ Costs \subseteq Nat
  BY QueueAssumption DEF QueueTypeOK, PlanRows
<1>1. CASE ClaimMoves
  BY <1>1 DEF ClaimMoves, Money, WithinBudget, IdleAtZero
<1>2. ASSUME NEW t \in Tasks, NEW c \in Costs, ChargeMoves(t, c)
      PROVE  IdleAtZero'
  <2>1. plan'.budget = plan.budget /\ plan'.spent = plan.spent + c
    BY <1>2 DEF ChargeMoves, Spend, QueueTypeOK, PlanRows
  <2> SUFFICES ASSUME plan'.spent = 0 PROVE WithinBudget'
    BY DEF IdleAtZero
  <2>2. plan.spent = 0
    BY <1>0, <2>1
  <2>3. WithinBudget
    BY <1>2, <2>2 DEF ChargeMoves, IdleAtZero
  <2> QED BY <2>1, <2>2, <2>3 DEF WithinBudget
<1>3. CASE FreshMoney'
  BY <1>3 DEF FreshMoney, IdleAtZero, WithinBudget
<1>4. CASE FreeMoves
  BY <1>4 DEF FreeMoves, Money, WithinBudget, IdleAtZero
<1> QED BY <1>1, <1>2, <1>3, <1>4, MoneyStep

\* The sentinel is written by the one completion that crosses the budget.
LEMMA SentinelStep ==
    ASSUME QueueTypeOK, IdleAtZero, OneSentinel, QueueNext, BudgetStays
    PROVE  OneSentinel'
PROOF
<1>0. /\ plan.spent \in Nat /\ plan.sentinels \in Nat /\ Costs \subseteq Nat
      /\ plan.budget \in Nat \cup {NoBudget} /\ NoBudget \notin Nat
  BY QueueAssumption DEF QueueTypeOK, PlanRows
<1>1. CASE ClaimMoves \/ FreeMoves
  BY <1>1 DEF ClaimMoves, FreeMoves, Money, WithinBudget, OneSentinel
<1>2. ASSUME NEW t \in Tasks, NEW c \in Costs, ChargeMoves(t, c)
      PROVE  OneSentinel'
  <2> DEFINE crossed == /\ plan.budget # NoBudget
                        /\ plan.spent < plan.budget
                        /\ plan.spent + c >= plan.budget
  <2>1. /\ plan'.budget = plan.budget
        /\ plan'.spent = plan.spent + c
        /\ plan'.sentinels = IF crossed THEN plan.sentinels + 1 ELSE plan.sentinels
    BY <1>2 DEF ChargeMoves, Spend, QueueTypeOK, PlanRows
  <2>2. plan.spent = 0 => WithinBudget
    BY <1>2 DEF ChargeMoves, IdleAtZero
  <2>3. plan.sentinels = IF WithinBudget THEN 0 ELSE 1
    BY <2>2 DEF OneSentinel
  <2>4. CASE plan.budget = NoBudget
    BY <2>1, <2>3, <2>4 DEF WithinBudget, OneSentinel
  <2>5. CASE plan.budget # NoBudget /\ plan.spent < plan.budget
    <3>1. plan.sentinels = 0
      BY <2>3, <2>5 DEF WithinBudget
    <3>2. CASE plan.spent + c < plan.budget
      <4>1. WithinBudget' /\ plan'.sentinels = 0
        BY <1>0, <2>1, <2>5, <3>1, <3>2 DEF WithinBudget
      <4> QED BY <4>1 DEF OneSentinel
    <3>3. CASE ~(plan.spent + c < plan.budget)
      <4>1. ~WithinBudget' /\ plan'.sentinels = 1 /\ plan'.spent # 0
        BY <1>0, <2>1, <2>5, <3>1, <3>3 DEF WithinBudget
      <4> QED BY <4>1 DEF OneSentinel
    <3> QED BY <3>2, <3>3
  <2>6. CASE plan.budget # NoBudget /\ ~(plan.spent < plan.budget)
    <3>1. plan.sentinels = 1 /\ plan.spent # 0
      BY <2>2, <2>3, <2>6 DEF WithinBudget
    <3>2. ~WithinBudget' /\ plan'.sentinels = 1 /\ plan'.spent # 0
      BY <1>0, <2>1, <2>6, <3>1 DEF WithinBudget
    <3> QED BY <3>2 DEF OneSentinel
  <2> QED BY <2>4, <2>5, <2>6
<1>3. CASE FreshMoney'
  BY <1>3 DEF FreshMoney, OneSentinel
<1> QED BY <1>1, <1>2, <1>3, MoneyStep

\* A product of natural numbers grows with its second factor, and loses the
\* first when the second loses one.
LEMMA Shares ==
    ASSUME NEW c \in Nat, NEW m \in Nat, NEW n \in Nat, m <= n
    PROVE  /\ c * m \in Nat /\ c * n \in Nat
           /\ c * m <= c * n
           /\ m < n => c * m + c <= c * n
PROOF
<1>1. PICK k \in Nat : n = m + k
  <2>1. n - m \in Nat /\ n = m + (n - m)
    OBVIOUS
  <2> QED BY <2>1
<1>2. c * m \in Nat /\ c * n \in Nat /\ c * k \in Nat
  OBVIOUS
<1>3. c * n = c * m + c * k
  BY <1>1
<1>4. ASSUME m < n PROVE c <= c * k
  <2>1. k # 0
    BY <1>1, <1>4
  <2>2. PICK j \in Nat : k = j + 1
    <3>1. k - 1 \in Nat /\ k = (k - 1) + 1
      BY <2>1
    <3> QED BY <3>1
  <2>3. c * k = c * j + c /\ c * j \in Nat
    BY <2>2
  <2> QED BY <2>3
<1> QED BY <1>2, <1>3, <1>4

\* What is charged was reserved: a task in flight holds its share of the
\* overshoot from its claim, made below the budget, to its completion.
LEMMA OvershootStep ==
    ASSUME QueueTypeOK, IdleAtZero, NEW c \in Nat, \A d \in Costs : d <= c,
           BudgetOvershoot(c), QueueNext, BudgetStays
    PROVE  BudgetOvershoot(c)'
PROOF
<1> DEFINE n == Cardinality(InFlight)
           m == Cardinality(InFlight')
           all == Cardinality(Tasks)
<1>0. /\ plan.spent \in Nat /\ Costs \subseteq Nat
      /\ plan.budget \in Nat \cup {NoBudget} /\ NoBudget \notin Nat
  BY QueueAssumption DEF QueueTypeOK, PlanRows
<1>a. n \in 0..all /\ m \in 0..all /\ all \in Nat
  BY InFlightFinite
<1>b. BudgetOvershoot(c)' <=> (plan'.budget # NoBudget /\ plan'.spent > 0 =>
                                 plan'.spent + c * m < plan'.budget + c * all)
  BY DEF BudgetOvershoot
<1>c. plan.budget # NoBudget /\ plan.spent > 0 => plan.spent + c * n < plan.budget + c * all
  BY DEF BudgetOvershoot
<1> HIDE DEF n, m, all
<1>d. /\ c * m \in Nat /\ c * n \in Nat /\ c * all \in Nat
      /\ c * m <= c * all /\ c * n <= c * all
  BY <1>a, Shares
<1>1. CASE ClaimMoves
  <2>1. /\ plan'.budget = plan.budget /\ plan'.spent = plan.spent
        /\ plan.budget # NoBudget => plan.spent < plan.budget
    BY <1>1 DEF ClaimMoves, Money, WithinBudget
  <2> QED BY <1>0, <1>b, <1>d, <2>1
<1>2. ASSUME NEW t \in Tasks, NEW d \in Costs, ChargeMoves(t, d)
      PROVE  BudgetOvershoot(c)'
  <2>1. plan'.budget = plan.budget /\ plan'.spent = plan.spent + d /\ d \in Nat /\ d <= c
    BY <1>0, <1>2 DEF ChargeMoves, Spend, QueueTypeOK, PlanRows
  <2>2. m < n
    <3>1. t \in InFlight /\ InFlight' \subseteq InFlight \ {t} /\ IsFiniteSet(InFlight)
      BY <1>2, InFlightFinite DEF ChargeMoves
    <3>2. IsFiniteSet(InFlight \ {t}) /\ Cardinality(InFlight \ {t}) = n - 1
      BY <3>1, FS_RemoveElement DEF n
    <3>3. m <= n - 1
      BY <3>1, <3>2, FS_Subset DEF m
    <3> QED BY <1>a, <3>3
  <2>3. c * m + c <= c * n
    BY <1>a, <2>2, Shares
  <2>4. plan.spent = 0 /\ plan.budget # NoBudget => 0 < plan.budget
    BY <1>2 DEF ChargeMoves, IdleAtZero, WithinBudget
  <2>5. CASE plan.spent > 0
    BY <1>0, <1>b, <1>c, <1>d, <2>1, <2>3, <2>5
  <2>6. CASE plan.spent = 0
    BY <1>0, <1>b, <1>d, <2>1, <2>3, <2>4, <2>6
  <2> QED BY <1>0, <2>5, <2>6
<1>3. CASE FreshMoney'
  BY <1>b, <1>3 DEF FreshMoney
<1>4. CASE FreeMoves
  <2>1. plan'.budget = plan.budget /\ plan'.spent = plan.spent
    BY <1>4 DEF FreeMoves, Money
  <2>2. m <= n
    BY <1>4, InFlightFinite, FS_Subset DEF FreeMoves, m, n
  <2>3. c * m <= c * n
    BY <1>a, <2>2, Shares
  <2> QED BY <1>0, <1>b, <1>c, <1>d, <2>1, <2>3
<1> QED BY <1>1, <1>2, <1>3, <1>4, MoneyStep

LEMMA MoneyInit == QueueInit => IdleAtZero /\ OneSentinel /\ BudgetOvershootBounded
PROOF
<1> SUFFICES ASSUME QueueInit PROVE IdleAtZero /\ OneSentinel /\ BudgetOvershootBounded
  OBVIOUS
<1>1. plan.spent = 0 /\ plan.sentinels = 0
  BY DEF QueueInit, NewPlan
<1>2. InFlight = {}
  BY OtherRows DEF QueueInit, InFlight, Active
<1> QED BY <1>1, <1>2 DEF IdleAtZero, OneSentinel, BudgetOvershootBounded, BudgetOvershoot

LEMMA IdleSafe == QueueSpec /\ BudgetKept => []IdleAtZero
PROOF
<1>1. QueueTypeOK /\ IdleAtZero /\ [QueueNext]_queueVars /\ [BudgetStays]_queueVars => IdleAtZero'
  <2>1. UNCHANGED queueVars /\ IdleAtZero => IdleAtZero'
    BY DEF queueVars, IdleAtZero, WithinBudget, InFlight
  <2> QED BY <2>1, IdleStep
<1> QED BY <1>1, MoneyInit, QueueTypeSafe, PTL DEF QueueSpec, BudgetKept

\* While nobody patches the budget, exactly one plan.budget_exceeded event is
\* written for a plan that used its budget up, whatever was still in flight.
THEOREM SentinelSafe == QueueSpec /\ BudgetKept => []OneSentinel
PROOF
<1>1. QueueTypeOK /\ IdleAtZero /\ OneSentinel /\ [QueueNext]_queueVars /\ [BudgetStays]_queueVars
        => OneSentinel'
  <2>1. UNCHANGED queueVars /\ OneSentinel => OneSentinel'
    BY DEF queueVars, OneSentinel, WithinBudget
  <2> QED BY <2>1, SentinelStep
<1> QED BY <1>1, MoneyInit, IdleSafe, QueueTypeSafe, PTL DEF QueueSpec, BudgetKept

\* While nobody patches the budget, a plan overspends by less than the highest
\* cost times its tasks, for any number of tasks, workers and costs.
THEOREM OvershootSafe == QueueSpec /\ BudgetKept => []BudgetOvershootBounded
PROOF
<1>1. QueueTypeOK /\ IdleAtZero /\ BudgetOvershootBounded
        /\ [QueueNext]_queueVars /\ [BudgetStays]_queueVars => BudgetOvershootBounded'
  <2> SUFFICES ASSUME QueueTypeOK, IdleAtZero, BudgetOvershootBounded,
                      [QueueNext]_queueVars, [BudgetStays]_queueVars
               PROVE  BudgetOvershootBounded'
    OBVIOUS
  <2>1. CASE UNCHANGED queueVars
    BY <2>1 DEF queueVars, BudgetOvershootBounded, BudgetOvershoot, InFlight
  <2>2. CASE QueueNext /\ BudgetStays
    <3>1. ASSUME NEW c \in Costs, \A d \in Costs : d <= c
          PROVE  BudgetOvershoot(c)'
      BY <2>2, <3>1, OvershootStep, QueueAssumption DEF BudgetOvershootBounded
    <3> QED BY <3>1 DEF BudgetOvershootBounded
  <2> QED BY <2>1, <2>2
<1> QED BY <1>1, MoneyInit, IdleSafe, QueueTypeSafe, PTL DEF QueueSpec, BudgetKept

-----------------------------------------------------------------------------
(* Human review, as the worker loops rely on it.                           *)

HasApproval(t) == \E i \in DOMAIN review[t] : review[t][i].type = "approved"

\* The approval of a task stays for as long as somebody has the task.
LEMMA ApprovalKept ==
    ASSUME QueueTypeOK, [QueueNext]_queueVars, NEW t \in Tasks, HasApproval(t), task'[t].status \in Taken
    PROVE  HasApproval(t)'
PROOF
<1>0. review[t] \in Seq(ReviewEvents) /\ Len(review[t]) \in Nat
  BY DEF QueueTypeOK
<1>1. CASE review'[t] = review[t]
  BY <1>1 DEF HasApproval
<1>2. ASSUME NEW e \in ReviewEvents, review'[t] = Append(review[t], e)
      PROVE  HasApproval(t)'
  <2>1. PICK i \in 1..Len(review[t]) : review[t][i].type = "approved"
    BY <1>0 DEF HasApproval
  <2>2. review'[t][i] = review[t][i] /\ i \in DOMAIN review'[t]
    BY <1>0, <1>2, <2>1, AppendProperties
  <2> QED BY <2>1, <2>2 DEF HasApproval
<1>3. CASE UNCHANGED queueVars
  BY <1>1, <1>3 DEF queueVars
<1> QED BY <1>1, <1>2, <1>3, ReviewStep

\* A task that is done after the step was done before.
NotDone(t) == task'[t].status = "DONE" => task[t].status = "DONE"

\* Nothing but complete_task ends a task well.
LEMMA OthersComplete ==
    ASSUME QueueTypeOK, NEW t \in Tasks,
           \/ SweepStep \/ TimeStep \/ OperatorStep
           \/ \E w \in Workers, u \in Tasks : Claim(w, u)
           \/ \E u \in Tasks, v \in Nat :
                Start(u, v) \/ Fail(u, v) \/ Release(u, v) \/ ReleaseForReview(u, v)
           \/ \E u \in Tasks : InsertTask(u)
           \/ UNCHANGED task
    PROVE  NotDone(t)
PROOF
<1>0. task \in [Tasks -> Rows] /\ task[t] \in Rows
  BY DEF QueueTypeOK
<1>a. /\ "PENDING" \in TaskStatus /\ "SKIPPED" \in TaskStatus
      /\ "FAILED" \in TaskStatus /\ "IN_PROGRESS" \in TaskStatus
  BY DEF TaskStatus, Active
<1>b. /\ Freed(task[t], "PENDING").status = "PENDING"
      /\ Freed(task[t], "SKIPPED").status = "SKIPPED"
      /\ Moved(task[t], "FAILED").status = "FAILED"
      /\ Moved(task[t], "IN_PROGRESS").status = "IN_PROGRESS"
  BY <1>0, <1>a, FreedRow, MovedRow
<1>1. CASE SweepStep \/ TimeStep \/ OperatorStep
  <2>1. RowQuiet(t)
    BY <1>1, BackgroundRows, OperatorStepRows
  <2>2. CASE RowFreed(t) \/ RowSkipped(t)
    BY <1>b, <2>2 DEF RowFreed, RowSkipped, NotDone
  <2>3. CASE task'[t] = task[t] \/ RowEdited(t) \/ RowAged(t)
    BY <1>0, <2>3 DEF RowEdited, RowAged, Rows, NotDone
  <2> QED BY <2>1, <2>2, <2>3 DEF RowQuiet
<1>2. ASSUME NEW w \in Workers, NEW u \in Tasks, Claim(w, u)
      PROVE  NotDone(t)
  <2>1. task' = [task EXCEPT ![u] = ClaimedRow(task[u], w)]
    BY <1>2 DEF Claim, ClaimedRow
  <2> QED BY <1>0, <2>1, ClaimedRowType DEF NotDone
<1>3. ASSUME NEW u \in Tasks, NEW v \in Nat,
             Start(u, v) \/ Fail(u, v) \/ Release(u, v) \/ ReleaseForReview(u, v)
      PROVE  NotDone(t)
  <2>1. \/ task' = [task EXCEPT ![u] = Moved(task[u], "IN_PROGRESS")]
        \/ task' = [task EXCEPT ![u] = Moved(task[u], "FAILED")]
        \/ task' = [task EXCEPT ![u] = Freed(task[u], "PENDING")]
    BY <1>3 DEF Start, Fail, Release, ReleaseForReview
  <2>2. CASE u = t
    BY <1>0, <1>b, <2>1, <2>2 DEF NotDone
  <2>3. CASE u # t
    BY <1>0, <2>1, <2>3 DEF NotDone
  <2> QED BY <2>2, <2>3
<1>4. ASSUME NEW u \in Tasks, InsertTask(u)
      PROVE  NotDone(t)
  BY <1>0, <1>4, OtherRows DEF InsertTask, NotDone
<1>5. CASE UNCHANGED task
  BY <1>5 DEF NotDone
<1> QED BY <1>1, <1>2, <1>3, <1>4, <1>5

\* The one that is completed.
LEMMA OneCompletes ==
    ASSUME QueueTypeOK, NEW u \in Tasks, NEW v, NEW c, Complete(u, v, c), NEW t \in Tasks
    PROVE  /\ t = u => Matches(t, v, Active)
           /\ t # u => NotDone(t)
           /\ task'[u].claimed_by = task[u].claimed_by
           /\ review' = review
PROOF
<1>1. task \in [Tasks -> Rows] /\ "DONE" \in TaskStatus
  BY DEF QueueTypeOK, TaskStatus
<1>2. /\ task' = [task EXCEPT ![u] = Moved(task[u], "DONE")]
      /\ Matches(u, v, Active) /\ review' = review
  BY DEF Complete
<1> QED BY <1>1, <1>2, MovedRow DEF NotDone
=============================================================================
