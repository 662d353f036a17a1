------------------------- MODULE LocalWorkerProofs -------------------------
(***************************************************************************)
(* Theorems about LocalWorker for every value of its constants: any number *)
(* of workers, tasks and versions, any schedule.                           *)
(***************************************************************************)
EXTENDS LocalWorker, TaskQueueProofs

-----------------------------------------------------------------------------
(* What the steps of the workers do to the queue.                          *)

\* A write of the loop is a call of the repository with the version of the row,
\* or changes nothing.
LEMMA LoopCalls ==
    ASSUME LocalTypeOK, NEW w \in Workers, LoopStep(w)
    PROVE  \/ CallerStep
           \/ \E t \in Tasks : InsertTask(t)
           \/ UNCHANGED queueVars
PROOF
<1>0. pc[w] \in Writing => held[w].task \in Tasks
  BY DEF LocalTypeOK
<1>1. CASE ClaimTask(w)
  BY <1>1 DEF ClaimTask, CallerStep
<1>2. CASE StartTask(w)
  <2>1. held[w].task \in Tasks
    BY <1>0, <1>2 DEF StartTask, Writing
  <2> QED BY <1>2, <2>1 DEF StartTask, Lost, Start, Matches, CallerStep
<1>3. CASE Prepare(w)
  <2>1. held[w].task \in Tasks
    BY <1>0, <1>3 DEF Prepare, Writing
  <2>2. StageOf[held[w].task] \in Stages
    BY <2>1, ReviewAssumption
  <2> QED BY <1>3, <2>1, <2>2 DEF Prepare, CallerStep
<1>4. CASE RequestRepair(w)
  <2>1. held[w].task \in Tasks
    BY <1>0, <1>4 DEF RequestRepair, Writing
  <2>2. NextRepair[held[w].task] # NoTask => NextRepair[held[w].task] \in Tasks
    BY <2>1, WorkerAssumption
  <2> QED BY <1>4, <2>1, <2>2 DEF RequestRepair
<1>5. CASE CompleteTask(w)
  <2>1. held[w].task \in Tasks
    BY <1>0, <1>5 DEF CompleteTask, Writing
  <2> QED BY <1>5, <2>1 DEF CompleteTask, Lost, Complete, Matches, CallerStep
<1>6. CASE FailTask(w)
  <2>1. held[w].task \in Tasks
    BY <1>0, <1>6 DEF FailTask, Writing
  <2> QED BY <1>6, <2>1 DEF FailTask, Lost, Fail, Matches, CallerStep
<1>7. CASE HoldForReview(w)
  <2>1. held[w].task \in Tasks
    BY <1>0, <1>7 DEF HoldForReview, Writing
  <2> QED BY <1>7, <2>1 DEF HoldForReview, Lost, ReleaseForReview, Matches, CallerStep
<1>8. CASE ReleaseOnPause(w) \/ ReleaseOnStop(w)
  <2>1. held[w].task \in Tasks
    BY <1>0, <1>8 DEF ReleaseOnPause, ReleaseOnStop, Writing
  <2> QED BY <1>8, <2>1 DEF ReleaseOnPause, ReleaseOnStop, Lost, Release, Matches, CallerStep
<1> QED
  BY <1>1, <1>2, <1>3, <1>4, <1>5, <1>6, <1>7, <1>8
  DEF LoopStep, ExitOnStop, PollOpen, ClaimNone, PauseAfterStart, RunStopped, PauseAfterRun, CheckReview

LEMMA LocalCalls ==
    ASSUME LocalTypeOK, LocalNext
    PROVE  \/ CallerStep
           \/ \E t \in Tasks : InsertTask(t)
           \/ (Background \/ OperatorStep) /\ UNCHANGED localVars
           \/ UNCHANGED queueVars
PROOF
<1>1. ASSUME NEW w \in Workers, LoopStep(w)
      PROVE  CallerStep \/ (\E t \in Tasks : InsertTask(t)) \/ UNCHANGED queueVars
  BY <1>1, LoopCalls
<1>2. ASSUME NEW w \in Workers, RunEnds(w) \/ VerifyEnds(w) \/ Signal(w) \/ Crash(w)
      PROVE  UNCHANGED queueVars
  BY <1>2 DEF RunEnds, VerifyEnds, Signal, Crash
<1>3. ASSUME NEW w \in Workers, Boot(w) \/ Heartbeat(w)
      PROVE  CallerStep
  BY <1>3 DEF Boot, Heartbeat, CallerStep
<1> QED BY <1>1, <1>2, <1>3 DEF LocalNext, ProcessStep

-----------------------------------------------------------------------------
(* Types.                                                                  *)

\* The variables of the processes.
ProcessOK ==
    /\ pc \in [Workers -> {"off"} \cup Live \cup Ended]
    /\ held \in [Workers -> [task : Tasks \cup {NoTask}, version : Nat]]
    /\ \A w \in Workers : pc[w] \in Writing => held[w].task \in Tasks
    /\ stop \in [Workers -> BOOLEAN]

LEMMA GotoType ==
    ASSUME ProcessOK, NEW w \in Workers, NEW to \in Live, Goto(w, to),
           to \in Writing => pc[w] \in Writing
    PROVE  ProcessOK'
BY DEF Goto, ProcessOK

LEMMA DropType ==
    ASSUME ProcessOK, NEW w \in Workers, NEW to \in {"poll", "exited", "dead"}, Drop(w, to)
    PROVE  ProcessOK'
PROOF
<1>1. NoHandle \in [task : Tasks \cup {NoTask}, version : Nat]
  BY DEF NoHandle
<1>2. to \notin Writing /\ to \in {"off"} \cup Live \cup Ended
  BY DEF Writing, Live, Idle, Ended
<1> QED BY <1>1, <1>2 DEF Drop, ProcessOK

LEMMA LoopType ==
    ASSUME LocalTypeOK, NEW w \in Workers, LoopStep(w)
    PROVE  ProcessOK'
PROOF
<1>0. ProcessOK /\ QueueTypeOK
  BY DEF LocalTypeOK, ProcessOK
<1>1. CASE ExitOnStop(w)
  BY <1>0, <1>1, DropType DEF ExitOnStop
<1>2. CASE PollOpen(w) \/ ClaimNone(w)
  BY <1>0, <1>2, GotoType DEF PollOpen, ClaimNone, Live, Idle, Writing
<1>3. CASE ClaimTask(w)
  <2>1. PICK t \in Tasks : held' = [held EXCEPT ![w] = [task |-> t, version |-> task[t].version + 1]]
    BY <1>3 DEF ClaimTask
  <2>2. task[t].version + 1 \in Nat
    BY <1>0 DEF QueueTypeOK, Rows
  <2>3. pc' = [pc EXCEPT ![w] = "starting"] /\ stop' = stop
    BY <1>3 DEF ClaimTask
  <2> QED BY <1>0, <2>1, <2>2, <2>3 DEF ProcessOK, Writing, Live
<1>4. CASE StartTask(w)
  <2>1. CASE Drop(w, "poll")
    BY <1>0, <2>1, DropType
  <2>2. CASE /\ pc' = [pc EXCEPT ![w] = "started"]
             /\ held' = [held EXCEPT ![w].version = @ + 1]
             /\ stop' = stop
    <3>1. held[w].task \in Tasks /\ held[w].version + 1 \in Nat
      BY <1>0, <1>4 DEF StartTask, ProcessOK, Writing
    <3>2. \A n \in Nat : /\ [held[w] EXCEPT !.version = n] \in [task : Tasks \cup {NoTask}, version : Nat]
                         /\ [held[w] EXCEPT !.version = n].task = held[w].task
      BY <1>0 DEF ProcessOK
    <3>3. held' = [held EXCEPT ![w] = [held[w] EXCEPT !.version = held[w].version + 1]]
      BY <2>2
    <3> QED BY <1>0, <2>2, <3>1, <3>2, <3>3 DEF ProcessOK, Writing, Live
  <2> QED BY <1>4, <2>1, <2>2 DEF StartTask
<1>5. CASE PauseAfterStart(w) \/ Prepare(w) \/ RunStopped(w) \/ RequestRepair(w) \/ CheckReview(w)
  BY <1>0, <1>5, GotoType
  DEF PauseAfterStart, Prepare, RunStopped, RequestRepair, CheckReview, Live, Writing
<1>6. CASE PauseAfterRun(w)
  BY <1>0, <1>6, GotoType DEF PauseAfterRun, Live, Writing
<1>7. CASE \/ CompleteTask(w) \/ FailTask(w) \/ HoldForReview(w)
           \/ ReleaseOnPause(w) \/ ReleaseOnStop(w)
  BY <1>0, <1>7, DropType DEF CompleteTask, FailTask, HoldForReview, ReleaseOnPause, ReleaseOnStop
<1> QED BY <1>1, <1>2, <1>3, <1>4, <1>5, <1>6, <1>7 DEF LoopStep

\* Whatever the processes do, the queue sees the methods of TaskRepository.
LEMMA LocalStepIsQueueStep == LocalTypeOK /\ [LocalNext]_vars => [QueueNext]_queueVars
PROOF
<1>1. CASE LocalTypeOK /\ LocalNext
  BY <1>1, LocalCalls DEF QueueNext, ReimportStep, Background
<1>2. CASE UNCHANGED vars
  BY <1>2 DEF vars
<1> QED BY <1>1, <1>2

LEMMA LocalStepType == LocalTypeOK /\ [LocalNext]_vars => LocalTypeOK'
PROOF
<1> SUFFICES ASSUME LocalTypeOK, [LocalNext]_vars PROVE LocalTypeOK'
  OBVIOUS
<1>0. ProcessOK /\ QueueTypeOK
  BY DEF LocalTypeOK, ProcessOK
<1>1. [QueueNext]_queueVars
  BY LocalStepIsQueueStep
<1>2. QueueTypeOK'
  BY <1>0, <1>1, QueueStepType
<1>3. ProcessOK'
  <2>1. ASSUME NEW w \in Workers, LoopStep(w)
        PROVE  ProcessOK'
    BY <2>1, LoopType
  <2>2. ASSUME NEW w \in Workers, RunEnds(w) \/ VerifyEnds(w)
        PROVE  ProcessOK'
    BY <1>0, <2>2, GotoType DEF RunEnds, VerifyEnds, Live, Writing
  <2>3. ASSUME NEW w \in Workers, Boot(w)
        PROVE  ProcessOK'
    BY <1>0, <2>3 DEF Boot, ProcessOK, Live, Idle, Writing
  <2>4. ASSUME NEW w \in Workers, Signal(w)
        PROVE  ProcessOK'
    BY <1>0, <2>4 DEF Signal, ProcessOK
  <2>5. ASSUME NEW w \in Workers, Crash(w)
        PROVE  ProcessOK'
    BY <1>0, <2>5, DropType DEF Crash
  <2>6. CASE UNCHANGED localVars
    BY <1>0, <2>6 DEF localVars, ProcessOK
  <2> QED
    BY <2>1, <2>2, <2>3, <2>4, <2>5, <2>6 DEF LocalNext, ProcessStep, Heartbeat, vars
<1> QED BY <1>2, <1>3 DEF LocalTypeOK, ProcessOK

\* The processes and the queue keep their types; a loop past its claim always
\* holds a task.
THEOREM LocalTypeSafe == LocalSpec => []LocalTypeOK
PROOF
<1>1. LocalInit => LocalTypeOK
  <2> SUFFICES ASSUME LocalInit PROVE LocalTypeOK
    OBVIOUS
  <2>1. QueueTypeOK
    BY QueueInitType DEF LocalInit
  <2>2. NoHandle \in [task : Tasks \cup {NoTask}, version : Nat]
    BY DEF NoHandle
  <2> QED BY <2>1, <2>2 DEF LocalInit, LocalTypeOK, Writing
<1> QED BY <1>1, LocalStepType, PTL DEF LocalSpec

\* The worker loops, their heartbeats and signals, the sweeps and the operator
\* use the queue through the methods of TaskRepository only: what is true of the
\* queue whoever calls it is true under `whilly run`.
THEOREM LocalImplementsQueue == LocalSpec => QueueSpec
BY LocalTypeSafe, LocalStepIsQueueStep, PTL DEF LocalSpec, LocalInit, QueueSpec

\* In particular what its theorems say of the rows, the audit log and the holds.
THEOREM LocalQueueSafe ==
    LocalSpec => [](OwnedIffClaimed /\ AuditTellsStatus /\ HeldUntilApproved) /\ ImplementsLifecycle
BY LocalImplementsQueue, OwnedSafe, AuditSafe, HeldSafe, QueueImplementsLifecycle, PTL

-----------------------------------------------------------------------------
(* The fence.                                                              *)

\* No step of LocalNext removes a row.
LEMMA LocalRowsKept ==
    ASSUME LocalTypeOK, LocalNext
    PROVE  \A t \in Tasks : RowKept(t)
PROOF
<1>0. QueueTypeOK
  BY DEF LocalTypeOK
<1>1. CASE CallerStep
  BY <1>0, <1>1, CallerStepRows, ChangeKeeps
<1>2. CASE Background
  BY <1>0, <1>2, BackgroundRows, ChangeKeeps DEF Background, RowChange
<1>3. CASE OperatorStep
  BY <1>0, <1>3, OperatorStepRows, ChangeKeeps DEF RowChange
<1>4. ASSUME NEW u \in Tasks, InsertTask(u)
      PROVE  \A t \in Tasks : RowKept(t)
  <2>1. ASSUME NEW t \in Tasks
        PROVE  RowChange(t) \/ RowCreated(t)
    BY <1>0, <1>4 DEF InsertTask, QueueTypeOK, RowChange, RowQuiet, RowCreated
  <2> QED BY <1>0, <2>1, ChangeKeeps
<1>5. CASE UNCHANGED queueVars
  BY <1>0, <1>5, ChangeKeeps DEF queueVars, RowChange, RowQuiet
<1> QED BY <1>1, <1>2, <1>3, <1>4, <1>5, LocalCalls

\* The strengthening of FencedWrites: the version a loop holds is at most the
\* version of the row, and while the two are equal the claim is still its own.
HandleOK(w) ==
    pc[w] \in Writing =>
        LET t == held[w].task IN
        /\ task[t].status # "ABSENT"
        /\ held[w].version <= task[t].version
        /\ held[w].version = task[t].version =>
                /\ Owns(w, t)
                /\ pc[w] = "starting" => task[t].status = "CLAIMED"

HandlesOK == \A w \in Workers : HandleOK(w)

\* A step in which the loop of w keeps its handle, and does not enter
\* "starting", keeps HandleOK(w).
LEMMA HandleKept ==
    ASSUME LocalTypeOK, LocalTypeOK', NEW w \in Workers, HandleOK(w),
           \A t \in Tasks : RowKept(t),
           held'[w] = held[w],
           pc'[w] \in Writing => pc[w] \in Writing,
           pc'[w] = "starting" => pc[w] = "starting"
    PROVE  HandleOK(w)'
PROOF
<1> SUFFICES ASSUME pc'[w] \in Writing PROVE HandleOK(w)'
  BY DEF HandleOK
<1> DEFINE t == held[w].task
<1>1. /\ t \in Tasks /\ held[w].version \in Nat
      /\ task[t].version \in Nat /\ task'[t].version \in Nat
  BY DEF LocalTypeOK, QueueTypeOK, Rows
<1>2. RowKept(t)
  BY <1>1
<1>3. /\ task[t].status # "ABSENT"
      /\ held[w].version <= task[t].version
      /\ held[w].version = task[t].version =>
                /\ Owns(w, t)
                /\ pc[w] = "starting" => task[t].status = "CLAIMED"
  BY DEF HandleOK
<1>4. /\ task'[t].status # "ABSENT"
      /\ held[w].version <= task'[t].version
  BY <1>1, <1>2, <1>3 DEF RowKept
<1>5. ASSUME held[w].version = task'[t].version
      PROVE  /\ Owns(w, t)'
             /\ pc'[w] = "starting" => task'[t].status = "CLAIMED"
  <2>1. task'[t].version = task[t].version
    BY <1>1, <1>2, <1>3, <1>5 DEF RowKept
  <2> QED BY <1>2, <1>3, <1>5, <2>1 DEF RowKept, Owns
<1> QED BY <1>4, <1>5 DEF HandleOK

\* Every version a loop presents comes from a write of its own, and any other
\* write moves the row past it.
LEMMA HandlesStep ==
    ASSUME LocalTypeOK, LocalTypeOK', HandlesOK, LocalNext
    PROVE  HandlesOK'
PROOF
<1> SUFFICES ASSUME NEW w \in Workers PROVE HandleOK(w)'
  BY DEF HandlesOK
<1>0. /\ HandleOK(w)
      /\ \A t \in Tasks : RowKept(t)
      /\ \A u \in Workers : pc[u] \in {"off"} \cup Live \cup Ended
      /\ pc \in [Workers -> {"off"} \cup Live \cup Ended]
      /\ DOMAIN held = Workers /\ DOMAIN pc = Workers
  BY LocalRowsKept DEF HandlesOK, LocalTypeOK
<1>k. ASSUME held'[w] = held[w],
             pc'[w] \in Writing => pc[w] \in Writing,
             pc'[w] = "starting" => pc[w] = "starting"
      PROVE  HandleOK(w)'
  BY <1>0, <1>k, HandleKept
<1>d. ASSUME pc'[w] \in {"poll", "exited", "dead"}
      PROVE  HandleOK(w)'
  BY <1>d DEF HandleOK, Writing
<1>1. CASE UNCHANGED localVars
  BY <1>1, <1>k DEF localVars
<1>2. ASSUME NEW u \in Workers, ProcessStep(u), u # w
      PROVE  HandleOK(w)'
  <2>1. pc'[w] = pc[w] /\ held'[w] = held[w]
    BY <1>0, <1>2
    DEF ProcessStep, LoopStep, Boot, Signal, Crash, Heartbeat, ExitOnStop, PollOpen, ClaimTask,
        ClaimNone, StartTask, PauseAfterStart, Prepare, RunEnds, RunStopped, PauseAfterRun,
        VerifyEnds, RequestRepair, CheckReview, CompleteTask, FailTask, HoldForReview,
        ReleaseOnPause, ReleaseOnStop, Goto, Drop, localVars
  <2> QED BY <2>1, <1>k
<1>3. CASE ClaimTask(w)
  <2>1. PICK t \in Tasks :
            /\ Claim(w, t)
            /\ held' = [held EXCEPT ![w] = [task |-> t, version |-> task[t].version + 1]]
    BY <1>3 DEF ClaimTask
  <2>2. task[t] \in Rows /\ task[t].version \in Nat
    BY DEF LocalTypeOK, QueueTypeOK, Rows
  <2>3. task'[t] = ClaimedRow(task[t], w)
    BY <2>1 DEF Claim, ClaimedRow, LocalTypeOK, QueueTypeOK
  <2>4. /\ task'[t].status = "CLAIMED"
        /\ task'[t].version = task[t].version + 1
        /\ task'[t].claimed_by = w
    BY <2>2, <2>3, ClaimedRowType
  <2>5. held'[w] = [task |-> t, version |-> task[t].version + 1]
    BY <1>0, <2>1
  <2> QED BY <2>2, <2>4, <2>5 DEF HandleOK, Owns, Active
<1>4. CASE StartTask(w)
  <2>1. CASE Drop(w, "poll")
    BY <1>0, <2>1, <1>d DEF Drop
  <2>2. CASE /\ Start(held[w].task, held[w].version)
             /\ pc' = [pc EXCEPT ![w] = "started"]
             /\ held' = [held EXCEPT ![w].version = @ + 1]
    <3> DEFINE t == held[w].task
    <3>1. t \in Tasks /\ held[w].version \in Nat /\ pc[w] \in Writing
      BY <1>4 DEF StartTask, Writing, LocalTypeOK
    <3>2. task[t] \in Rows /\ task[t].version \in Nat
      BY <3>1 DEF LocalTypeOK, QueueTypeOK, Rows
    <3>3. /\ task[t].version = held[w].version
          /\ task' = [task EXCEPT ![t] = Moved(task[t], "IN_PROGRESS")]
      BY <2>2 DEF Start, Matches
    <3>4. task'[t] = Moved(task[t], "IN_PROGRESS")
      BY <3>1, <3>3 DEF LocalTypeOK, QueueTypeOK
    <3>5. "IN_PROGRESS" \in TaskStatus
      BY DEF TaskStatus, Active
    <3>6. /\ task'[t].status = "IN_PROGRESS"
          /\ task'[t].version = task[t].version + 1
          /\ task'[t].claimed_by = task[t].claimed_by
      BY <3>2, <3>4, <3>5, MovedRow
    <3>7. task[t].claimed_by = w
      BY <1>0, <3>1, <3>3 DEF HandleOK, Owns
    <3>8. held'[w] = [held[w] EXCEPT !.version = held[w].version + 1]
      BY <1>0, <2>2
    <3>9. held'[w].task = t /\ held'[w].version = held[w].version + 1
      BY <3>8 DEF LocalTypeOK
    <3>10. pc'[w] = "started"
      BY <1>0, <2>2
    <3> QED BY <3>2, <3>3, <3>6, <3>7, <3>9, <3>10 DEF HandleOK, Owns, Active
  <2> QED BY <1>4, <2>1, <2>2 DEF StartTask
<1>5. CASE Boot(w)
  <2>1. pc'[w] = "poll"
    BY <1>0, <1>5 DEF Boot
  <2> QED BY <2>1, <1>d
<1>6. CASE Signal(w) \/ Heartbeat(w)
  BY <1>6, <1>k DEF Signal, Heartbeat, localVars
<1>7. CASE \/ ExitOnStop(w) \/ Crash(w) \/ CompleteTask(w) \/ FailTask(w)
           \/ HoldForReview(w) \/ ReleaseOnPause(w) \/ ReleaseOnStop(w)
  <2>1. pc'[w] \in {"poll", "exited", "dead"}
    BY <1>0, <1>7
    DEF ExitOnStop, Crash, CompleteTask, FailTask, HoldForReview, ReleaseOnPause, ReleaseOnStop, Drop
  <2> QED BY <2>1, <1>d
<1>8. CASE PollOpen(w) \/ ClaimNone(w)
  <2>1. pc'[w] \in Idle
    BY <1>0, <1>8 DEF PollOpen, ClaimNone, Goto, Idle
  <2> QED BY <2>1 DEF HandleOK, Idle, Writing
<1>9. CASE \/ PauseAfterStart(w) \/ Prepare(w) \/ RunStopped(w) \/ PauseAfterRun(w)
           \/ RequestRepair(w) \/ CheckReview(w) \/ RunEnds(w) \/ VerifyEnds(w)
  <2>1. pc[w] \in Writing /\ pc'[w] # "starting" /\ held'[w] = held[w]
    BY <1>0, <1>9
    DEF PauseAfterStart, Prepare, RunStopped, PauseAfterRun, RequestRepair, CheckReview,
        RunEnds, VerifyEnds, Goto, Writing
  <2> QED BY <2>1, <1>k
<1>10. CASE ProcessStep(w)
  BY <1>3, <1>4, <1>5, <1>6, <1>7, <1>8, <1>9, <1>10 DEF ProcessStep, LoopStep
<1> QED BY <1>1, <1>2, <1>10 DEF LocalNext

\* A write of a worker that lost its claim never lands on the claim of another.
THEOREM FenceSafe == LocalSpec => []FencedWrites
PROOF
<1>1. LocalInit => HandlesOK
  BY DEF LocalInit, HandlesOK, HandleOK, Writing
<1>2. LocalTypeOK /\ LocalTypeOK' /\ HandlesOK /\ [LocalNext]_vars => HandlesOK'
  <2> SUFFICES ASSUME LocalTypeOK, LocalTypeOK', HandlesOK, [LocalNext]_vars
               PROVE  HandlesOK'
    OBVIOUS
  <2>1. CASE LocalNext
    BY <2>1, HandlesStep
  <2>2. CASE UNCHANGED vars
    BY <2>2 DEF vars, queueVars, localVars, HandlesOK, HandleOK, Owns
  <2> QED BY <2>1, <2>2
<1>3. HandlesOK => FencedWrites
  BY DEF HandlesOK, HandleOK, FencedWrites, Matches
<1> QED BY <1>1, <1>2, <1>3, LocalTypeSafe, PTL DEF LocalSpec

-----------------------------------------------------------------------------
(* Orphaned claims.                                                        *)

\* Nobody but ClaimTask and StartTask makes a claim or moves one on.
LEMMA OthersClaimNothing ==
    ASSUME LocalTypeOK, LocalNext, \A w \in Workers : ~ClaimTask(w) /\ ~StartTask(w)
    PROVE  \A t \in Tasks : NoNewClaim(t)
PROOF
<1>0. QueueTypeOK /\ \A w \in Workers : pc[w] \in Writing => held[w].task \in Tasks
  BY DEF LocalTypeOK
<1>1. CASE UNCHANGED task
  BY <1>1 DEF NoNewClaim, Owns
<1>2. CASE Background \/ OperatorStep
  BY <1>0, <1>2, BackgroundRows, OperatorStepRows, QuietOrEndedClaimsNothing DEF Background
<1>3. ASSUME NEW u \in Tasks,
             \/ \E v \in Nat, c \in Costs : Complete(u, v, c)
             \/ \E v \in Nat : Fail(u, v) \/ Release(u, v) \/ ReleaseForReview(u, v)
             \/ InsertTask(u)
      PROVE  \A t \in Tasks : NoNewClaim(t)
  <2> SUFFICES ASSUME NEW t \in Tasks PROVE NoNewClaim(t)
    OBVIOUS
  <2>1. RowQuiet(t) \/ RowEnded(t) \/ RowCreated(t)
    <3>1. CASE \E v \in Nat, c \in Costs : Complete(u, v, c)
      BY <1>0, <3>1 DEF Complete, Matches, QueueTypeOK, RowQuiet, RowEnded
    <3>2. CASE \E v \in Nat : Fail(u, v)
      BY <1>0, <3>2 DEF Fail, Matches, QueueTypeOK, RowQuiet, RowEnded
    <3>3. CASE \E v \in Nat : Release(u, v) \/ ReleaseForReview(u, v)
      <4>1. task[u].status \in Active /\ task' = [task EXCEPT ![u] = Freed(task[u], "PENDING")]
        BY <3>3 DEF Release, ReleaseForReview, Matches
      <4> QED BY <1>0, <4>1 DEF QueueTypeOK, RowQuiet, RowFreed, Active
    <3>4. CASE InsertTask(u)
      BY <1>0, <3>4 DEF InsertTask, QueueTypeOK, RowQuiet, RowCreated
    <3> QED BY <1>3, <3>1, <3>2, <3>3, <3>4
  <2> QED BY <1>0, <2>1, QuietOrEndedClaimsNothing
<1>4. ASSUME NEW w \in Workers,
             CompleteTask(w) \/ FailTask(w) \/ HoldForReview(w) \/ ReleaseOnPause(w) \/ ReleaseOnStop(w)
      PROVE  \A t \in Tasks : NoNewClaim(t)
  <2>1. held[w].task \in Tasks /\ held[w].version \in Nat
    BY <1>0, <1>4
    DEF LocalTypeOK, CompleteTask, FailTask, HoldForReview, ReleaseOnPause, ReleaseOnStop, Writing
  <2> QED
    BY <1>1, <1>3, <1>4, <2>1
    DEF CompleteTask, FailTask, HoldForReview, ReleaseOnPause, ReleaseOnStop, Lost, queueVars
<1>5. ASSUME NEW w \in Workers, RequestRepair(w)
      PROVE  \A t \in Tasks : NoNewClaim(t)
  <2>1. held[w].task \in Tasks
    BY <1>0, <1>5 DEF RequestRepair, Writing
  <2>2. NextRepair[held[w].task] # NoTask => NextRepair[held[w].task] \in Tasks
    BY <2>1, WorkerAssumption
  <2> QED BY <1>1, <1>3, <1>5, <2>2 DEF RequestRepair, queueVars
<1>6. ASSUME NEW w \in Workers,
             \/ ExitOnStop(w) \/ PollOpen(w) \/ ClaimNone(w) \/ PauseAfterStart(w) \/ Prepare(w)
             \/ RunStopped(w) \/ PauseAfterRun(w) \/ CheckReview(w) \/ RunEnds(w) \/ VerifyEnds(w)
             \/ Boot(w) \/ Signal(w) \/ Crash(w) \/ Heartbeat(w)
      PROVE  UNCHANGED task
  BY <1>6
  DEF ExitOnStop, PollOpen, ClaimNone, PauseAfterStart, Prepare, RunStopped, PauseAfterRun,
      CheckReview, RunEnds, VerifyEnds, Boot, Signal, Crash, Heartbeat, RecordReview,
      RegisterWorker, ReregisterWorker, UpdateHeartbeat, queueVars
<1> QED
  BY <1>1, <1>2, <1>4, <1>5, <1>6 DEF LocalNext, ProcessStep, LoopStep

\* The disjunction of OrphansOnlyByCrash: w died, or t is what it works on.
Attended(w, t) ==
    \/ pc[w] = "dead"
    \/ pc[w] \in Writing /\ held[w] = [task |-> t, version |-> task[t].version]

\* A loop that owns a task keeps its handle until a write of its own ends the
\* claim: no write of an owner is lost.
LEMMA AttendedStep ==
    ASSUME LocalTypeOK, HandlesOK, OrphansOnlyByCrash, LocalNext
    PROVE  OrphansOnlyByCrash'
PROOF
<1> SUFFICES ASSUME ~StableIds, NEW w \in Workers, NEW t \in Tasks, Owns(w, t)'
             PROVE  Attended(w, t)'
  BY DEF OrphansOnlyByCrash, Attended
<1>0. /\ pc \in [Workers -> {"off"} \cup Live \cup Ended]
      /\ held \in [Workers -> [task : Tasks \cup {NoTask}, version : Nat]]
      /\ \A u \in Workers : pc[u] \in Writing => held[u].task \in Tasks
      /\ task \in [Tasks -> Rows]
      /\ \A s \in Tasks : task[s].version \in Nat
  BY DEF LocalTypeOK, QueueTypeOK, Rows
<1>i. \A s \in Tasks : Owns(w, s) => Attended(w, s)
  BY DEF OrphansOnlyByCrash, Attended
<1>u. ASSUME NEW u \in Workers, ProcessStep(u), u # w
      PROVE  pc'[w] = pc[w] /\ held'[w] = held[w]
  BY <1>0, <1>u
  DEF ProcessStep, LoopStep, Boot, Signal, Crash, Heartbeat, ExitOnStop, PollOpen, ClaimTask,
      ClaimNone, StartTask, PauseAfterStart, Prepare, RunEnds, RunStopped, PauseAfterRun,
      VerifyEnds, RequestRepair, CheckReview, CompleteTask, FailTask, HoldForReview,
      ReleaseOnPause, ReleaseOnStop, Goto, Drop, localVars
<1>1. ASSUME NEW u \in Workers, ClaimTask(u)
      PROVE  Attended(w, t)'
  <2>1. PICK s \in Tasks :
            /\ Claim(u, s)
            /\ held' = [held EXCEPT ![u] = [task |-> s, version |-> task[s].version + 1]]
    BY <1>1 DEF ClaimTask
  <2>2. /\ pc[u] = "claiming" /\ pc' = [pc EXCEPT ![u] = "starting"]
        /\ task' = [task EXCEPT ![s] = ClaimedRow(task[s], u)]
    BY <1>1, <2>1 DEF ClaimTask, Claim, ClaimedRow
  <2>3. CASE s = t
    <3>1. task'[t].claimed_by = u /\ task'[t].version = task[t].version + 1
      BY <1>0, <2>2, <2>3, ClaimedRowType
    <3>2. u = w
      BY <3>1 DEF Owns
    <3> QED BY <1>0, <2>1, <2>2, <2>3, <3>1, <3>2 DEF Attended, Writing
  <2>4. CASE s # t
    <3>1. task'[t] = task[t]
      BY <1>0, <2>2, <2>4
    <3>2. Attended(w, t)
      BY <1>i, <3>1 DEF Owns
    <3>3. u # w
      BY <2>2, <3>2 DEF Attended, Writing
    <3> QED BY <1>0, <2>1, <2>2, <3>1, <3>2, <3>3 DEF Attended
  <2> QED BY <2>3, <2>4
<1>2. ASSUME NEW u \in Workers, StartTask(u)
      PROVE  Attended(w, t)'
  <2> DEFINE s == held[u].task
  <2>0. /\ s \in Tasks /\ pc[u] = "starting" /\ pc[u] \in Writing
        /\ held[u].version \in Nat
    BY <1>0, <1>2 DEF StartTask, Writing
  <2>h. held[u].version = task[s].version => Owns(u, s) /\ task[s].status = "CLAIMED"
    BY <2>0 DEF HandlesOK, HandleOK
  <2>1. CASE /\ Start(s, held[u].version)
             /\ pc' = [pc EXCEPT ![u] = "started"]
             /\ held' = [held EXCEPT ![u].version = @ + 1]
    <3>1. /\ held[u].version = task[s].version
          /\ task' = [task EXCEPT ![s] = Moved(task[s], "IN_PROGRESS")]
      BY <2>1 DEF Start, Matches
    <3>2. "IN_PROGRESS" \in TaskStatus
      BY DEF TaskStatus, Active
    <3>3. CASE s = t
      <4>1. task'[t].claimed_by = task[t].claimed_by /\ task'[t].version = task[t].version + 1
        BY <1>0, <3>1, <3>2, <3>3, MovedRow
      <4>2. u = w
        BY <2>h, <3>1, <3>3, <4>1 DEF Owns
      <4>3. held'[w] = [held[w] EXCEPT !.version = held[w].version + 1]
        BY <1>0, <2>1, <4>2
      <4>4. held'[w] = [task |-> t, version |-> task'[t].version]
        BY <1>0, <3>1, <3>3, <4>1, <4>2, <4>3
      <4>5. pc'[w] = "started"
        BY <1>0, <2>1, <4>2
      <4> QED BY <4>4, <4>5 DEF Attended, Writing
    <3>4. CASE s # t
      <4>1. task'[t] = task[t]
        BY <1>0, <2>0, <3>1, <3>4
      <4>2. Attended(w, t)
        BY <1>i, <4>1 DEF Owns
      <4>3. u # w
        BY <2>0, <3>4, <4>2 DEF Attended
      <4> QED BY <1>0, <2>1, <4>1, <4>2, <4>3 DEF Attended
    <3> QED BY <3>3, <3>4
  <2>2. CASE Lost(u, {"CLAIMED"}) /\ Drop(u, "poll")
    <3>1. task' = task /\ ~Matches(s, held[u].version, {"CLAIMED"})
      BY <2>2 DEF Lost, queueVars
    <3>2. Attended(w, t)
      BY <1>i, <3>1 DEF Owns
    <3>3. u # w
      BY <2>0, <2>h, <3>1, <3>2 DEF Attended, Matches
    <3> QED BY <1>0, <2>2, <3>1, <3>2, <3>3 DEF Attended, Drop
  <2> QED BY <1>2, <2>1, <2>2 DEF StartTask
<1>3. CASE \A u \in Workers : ~ClaimTask(u) /\ ~StartTask(u)
  <2>1. Owns(w, t) /\ task'[t].version = task[t].version
    BY <1>3, OthersClaimNothing DEF NoNewClaim
  <2>2. Attended(w, t)
    BY <1>i, <2>1
  <2>3. ASSUME pc'[w] = pc[w], held'[w] = held[w]
        PROVE  Attended(w, t)'
    BY <2>1, <2>2, <2>3 DEF Attended
  <2>4. CASE UNCHANGED localVars
    BY <2>3, <2>4 DEF localVars
  <2>5. ASSUME NEW u \in Workers, ProcessStep(u), u # w
        PROVE  Attended(w, t)'
    BY <1>u, <2>3, <2>5
  <2>6. CASE Signal(w) \/ Heartbeat(w)
    BY <2>3, <2>6 DEF Signal, Heartbeat, localVars
  <2>7. CASE Crash(w)
    BY <1>0, <2>7 DEF Crash, Drop, Attended
  <2>8. CASE \/ PauseAfterStart(w) \/ Prepare(w) \/ RunStopped(w) \/ PauseAfterRun(w)
             \/ RequestRepair(w) \/ CheckReview(w) \/ RunEnds(w) \/ VerifyEnds(w)
    <3>1. pc[w] # "dead" /\ pc'[w] \in Writing /\ held'[w] = held[w]
      BY <1>0, <2>8
      DEF PauseAfterStart, Prepare, RunStopped, PauseAfterRun, RequestRepair, CheckReview,
          RunEnds, VerifyEnds, Goto, Writing
    <3> QED BY <2>1, <2>2, <3>1 DEF Attended
  <2>9. CASE Boot(w) \/ ExitOnStop(w) \/ PollOpen(w) \/ ClaimNone(w)
    <3>1. pc[w] # "dead" /\ pc[w] \notin Writing
      BY <2>9 DEF Boot, ExitOnStop, PollOpen, ClaimNone, Writing
    <3> QED BY <2>2, <3>1 DEF Attended
  <2>10. CASE \/ CompleteTask(w) \/ FailTask(w) \/ HoldForReview(w)
              \/ ReleaseOnPause(w) \/ ReleaseOnStop(w)
    <3>1. pc[w] # "dead"
      BY <2>10 DEF CompleteTask, FailTask, HoldForReview, ReleaseOnPause, ReleaseOnStop
    <3>2. held[w] = [task |-> t, version |-> task[t].version]
      BY <2>2, <3>1 DEF Attended
    <3>3. Matches(held[w].task, held[w].version, Active)
      BY <2>1, <3>2 DEF Owns, Matches
    <3>4. \/ \E c \in Costs : Complete(t, task[t].version, c)
          \/ Fail(t, task[t].version)
          \/ Release(t, task[t].version)
          \/ ReleaseForReview(t, task[t].version)
      BY <2>10, <3>2, <3>3
      DEF CompleteTask, FailTask, HoldForReview, ReleaseOnPause, ReleaseOnStop, Lost
    <3>5. \/ task'[t] = Moved(task[t], "DONE")
          \/ task'[t] = Moved(task[t], "FAILED")
          \/ task'[t] = Freed(task[t], "PENDING")
      BY <1>0, <3>4 DEF Complete, Fail, Release, ReleaseForReview
    <3>6. "PENDING" \in TaskStatus /\ "DONE" \in TaskStatus /\ "FAILED" \in TaskStatus
      BY DEF TaskStatus
    <3>7. /\ Moved(task[t], "DONE").status = "DONE"
          /\ Moved(task[t], "FAILED").status = "FAILED"
          /\ Freed(task[t], "PENDING").status = "PENDING"
      BY <1>0, <3>6, MovedRow, FreedRow
    <3>8. task'[t].status = "DONE" \/ task'[t].status = "FAILED" \/ task'[t].status = "PENDING"
      BY <3>5, <3>7
    <3> QED BY <3>8 DEF Owns, Active
  <2> QED
    BY <1>3, <2>4, <2>5, <2>6, <2>7, <2>8, <2>9, <2>10 DEF LocalNext, ProcessStep, LoopStep
<1> QED BY <1>1, <1>2, <1>3

\* Claims are orphaned by crashes only.
THEOREM OrphansSafe == LocalSpec => []OrphansOnlyByCrash
PROOF
<1>1. LocalInit => HandlesOK /\ OrphansOnlyByCrash
  BY DEF LocalInit, QueueInit, HandlesOK, HandleOK, Writing, OrphansOnlyByCrash, Owns, NewRow, NoRow, Active
<1>2. ASSUME LocalTypeOK, LocalTypeOK', HandlesOK, OrphansOnlyByCrash, [LocalNext]_vars
      PROVE  HandlesOK' /\ OrphansOnlyByCrash'
  <2>1. CASE LocalNext
    BY <1>2, <2>1, HandlesStep, AttendedStep
  <2>2. CASE UNCHANGED vars
    BY <1>2, <2>2 DEF vars, queueVars, localVars, HandlesOK, HandleOK, OrphansOnlyByCrash, Owns
  <2> QED BY <1>2, <2>1, <2>2
<1> QED BY <1>1, <1>2, LocalTypeSafe, PTL DEF LocalSpec

-----------------------------------------------------------------------------
(* Human review.                                                           *)

\* The strengthening of ReviewedBeforeDone: between CheckReview and
\* complete_task the approval that was read is still there, or the task has
\* been taken away and the write will not match.
CompletingReviewed(w) ==
    LET t == held[w].task IN
    pc[w] = "completing" /\ t \in ReviewTasks /\ Matches(t, held[w].version, Active) => HasApproval(t)

\* Only CheckReview brings a loop to complete_task, and only with an approval.
LEMMA CompletingSteps ==
    ASSUME LocalTypeOK, LocalNext, NEW w \in Workers, pc'[w] = "completing"
    PROVE  /\ pc[w] \in Writing /\ held'[w] = held[w]
           /\ \/ pc[w] = "completing"
              \/ /\ UNCHANGED queueVars
                 /\ held[w].task \in ReviewTasks => HasApproval(held[w].task)
PROOF
<1>0. DOMAIN pc = Workers /\ DOMAIN held = Workers
  BY DEF LocalTypeOK
<1>a. "completing" \in Writing
  BY DEF Writing
<1>1. CASE UNCHANGED localVars
  BY <1>a, <1>1 DEF localVars
<1>2. ASSUME NEW u \in Workers, ProcessStep(u), u # w
      PROVE  pc'[w] = pc[w] /\ held'[w] = held[w]
  BY <1>0, <1>2
  DEF ProcessStep, LoopStep, Boot, Signal, Crash, Heartbeat, ExitOnStop, PollOpen, ClaimTask,
      ClaimNone, StartTask, PauseAfterStart, Prepare, RunEnds, RunStopped, PauseAfterRun,
      VerifyEnds, RequestRepair, CheckReview, CompleteTask, FailTask, HoldForReview,
      ReleaseOnPause, ReleaseOnStop, Goto, Drop, localVars
<1>3. CASE CheckReview(w)
  <2>1. UNCHANGED queueVars /\ held' = held /\ pc[w] \in Writing
    BY <1>3 DEF CheckReview, Goto, Writing
  <2>2. held[w].task \in ReviewTasks => HumanReviewApproved(held[w].task)
    BY <1>0, <1>3 DEF CheckReview, Goto
  <2>3. held[w].task \in ReviewTasks => HasApproval(held[w].task)
    BY <2>2 DEF HumanReviewApproved, HasApproval
  <2> QED BY <2>1, <2>3
<1>4. CASE Signal(w) \/ Heartbeat(w)
  BY <1>a, <1>4 DEF Signal, Heartbeat, localVars
<1>5. CASE ProcessStep(w) /\ ~CheckReview(w) /\ ~Signal(w) /\ ~Heartbeat(w)
  <2>1. pc'[w] # "completing"
    BY <1>0, <1>5
    DEF ProcessStep, LoopStep, Boot, Crash, ExitOnStop, PollOpen, ClaimTask, ClaimNone,
        StartTask, PauseAfterStart, Prepare, RunEnds, RunStopped, PauseAfterRun, VerifyEnds,
        RequestRepair, CompleteTask, FailTask, HoldForReview, ReleaseOnPause, ReleaseOnStop,
        Goto, Drop
  <2> QED BY <2>1
<1> QED BY <1>a, <1>1, <1>2, <1>3, <1>4, <1>5 DEF LocalNext

LEMMA CompletingStep ==
    ASSUME LocalTypeOK, LocalTypeOK', HandlesOK, NEW w \in Workers, CompletingReviewed(w), LocalNext
    PROVE  CompletingReviewed(w)'
PROOF
<1> DEFINE t == held[w].task
           v == held[w].version
<1> SUFFICES ASSUME pc'[w] = "completing", held'[w].task \in ReviewTasks,
                    Matches(held[w].task, held[w].version, Active)'
             PROVE  HasApproval(held[w].task)'
  BY DEF CompletingReviewed
<1>1. /\ pc[w] \in Writing /\ held'[w] = held[w]
      /\ \/ pc[w] = "completing"
         \/ UNCHANGED queueVars /\ (t \in ReviewTasks => HasApproval(t))
  BY CompletingSteps
<1>2. /\ t \in Tasks /\ v \in Nat /\ t \in ReviewTasks /\ QueueTypeOK
      /\ task[t].version \in Nat /\ task'[t].version \in Nat
  BY <1>1 DEF LocalTypeOK, QueueTypeOK, Rows
<1>3. task'[t].version = v /\ task'[t].status \in Active
  BY <1>1 DEF Matches
<1>4. CASE UNCHANGED queueVars /\ HasApproval(t)
  BY <1>1, <1>4 DEF queueVars, HasApproval
<1>5. CASE pc[w] = "completing"
  <2>1. RowKept(t) /\ HandleOK(w)
    BY <1>2, LocalRowsKept DEF HandlesOK
  <2>2. task[t].version = v /\ task[t].status = task'[t].status
    BY <1>1, <1>2, <1>3, <2>1 DEF RowKept, HandleOK
  <2>3. HasApproval(t)
    BY <1>2, <1>3, <1>5, <2>2 DEF CompletingReviewed, Matches
  <2>4. \A u \in Tasks : HasApproval(u) /\ task'[u].status \in Taken =>
                            \E i \in DOMAIN review'[u] : review'[u][i].type = "approved"
    BY <1>2, LocalStepIsQueueStep, ApprovalKept DEF HasApproval
  <2>5. \E i \in DOMAIN review'[t] : review'[t][i].type = "approved"
    BY <1>2, <1>3, <2>3, <2>4 DEF Taken
  <2> QED BY <1>1, <2>5 DEF HasApproval
<1> QED BY <1>1, <1>2, <1>4, <1>5

\* The step of a loop that completes t, as the queue sees it.
Completes(w, t) ==
    /\ pc[w] = "completing" /\ held[w].task = t
    /\ Matches(t, held[w].version, Active)
    /\ review' = review

LEMMA DoneSteps ==
    ASSUME LocalTypeOK, LocalNext, NEW t \in Tasks
    PROVE  NotDone(t) \/ \E w \in Workers : Completes(w, t)
PROOF
<1>0. /\ QueueTypeOK /\ \A w \in Workers : pc[w] \in Writing => held[w].task \in Tasks
      /\ \A w \in Workers : held[w].version \in Nat
  BY DEF LocalTypeOK
<1>1. CASE Background \/ OperatorStep
  BY <1>0, <1>1, OthersComplete DEF Background
<1>2. CASE UNCHANGED task
  BY <1>0, <1>2, OthersComplete
<1>3. ASSUME NEW w \in Workers, CompleteTask(w)
      PROVE  NotDone(t) \/ Completes(w, t)
  <2>1. held[w].task \in Tasks /\ pc[w] = "completing"
    BY <1>0, <1>3 DEF CompleteTask, Writing
  <2>2. ASSUME NEW c \in Costs, Complete(held[w].task, held[w].version, c)
        PROVE  NotDone(t) \/ Completes(w, t)
    BY <1>0, <2>1, <2>2, OneCompletes DEF Completes
  <2>3. CASE Lost(w, Active)
    BY <1>0, <2>3, OthersComplete DEF Lost, queueVars
  <2> QED BY <1>3, <2>2, <2>3 DEF CompleteTask
<1>4. ASSUME NEW w \in Workers,
             \/ ClaimTask(w) \/ StartTask(w) \/ RequestRepair(w) \/ FailTask(w) \/ HoldForReview(w)
             \/ ReleaseOnPause(w) \/ ReleaseOnStop(w)
      PROVE  NotDone(t)
  <2>1. CASE ClaimTask(w)
    BY <1>0, <2>1, OthersComplete DEF ClaimTask
  <2>2. CASE RequestRepair(w)
    <3>1. held[w].task \in Tasks
      BY <1>0, <2>2 DEF RequestRepair, Writing
    <3>2. NextRepair[held[w].task] # NoTask => NextRepair[held[w].task] \in Tasks
      BY <3>1, WorkerAssumption
    <3> QED BY <1>0, <2>2, <3>2, OthersComplete DEF RequestRepair, queueVars
  <2>3. CASE StartTask(w) \/ FailTask(w) \/ HoldForReview(w) \/ ReleaseOnPause(w) \/ ReleaseOnStop(w)
    <3>1. held[w].task \in Tasks /\ held[w].version \in Nat
      BY <1>0, <2>3 DEF StartTask, FailTask, HoldForReview, ReleaseOnPause, ReleaseOnStop, Writing
    <3>2. \/ UNCHANGED task
          \/ \E u \in Tasks, v \in Nat :
                Start(u, v) \/ Fail(u, v) \/ Release(u, v) \/ ReleaseForReview(u, v)
      BY <2>3, <3>1
      DEF StartTask, FailTask, HoldForReview, ReleaseOnPause, ReleaseOnStop, Lost, queueVars
    <3> QED BY <1>0, <3>2, OthersComplete
  <2> QED BY <1>4, <2>1, <2>2, <2>3
<1>5. ASSUME NEW w \in Workers,
             \/ ExitOnStop(w) \/ PollOpen(w) \/ ClaimNone(w) \/ PauseAfterStart(w) \/ Prepare(w)
             \/ RunStopped(w) \/ PauseAfterRun(w) \/ CheckReview(w) \/ RunEnds(w) \/ VerifyEnds(w)
             \/ Boot(w) \/ Signal(w) \/ Crash(w) \/ Heartbeat(w)
      PROVE  UNCHANGED task
  BY <1>5
  DEF ExitOnStop, PollOpen, ClaimNone, PauseAfterStart, Prepare, RunStopped, PauseAfterRun,
      CheckReview, RunEnds, VerifyEnds, Boot, Signal, Crash, Heartbeat, RecordReview,
      RegisterWorker, ReregisterWorker, UpdateHeartbeat, queueVars
<1> QED BY <1>1, <1>2, <1>3, <1>4, <1>5 DEF LocalNext, ProcessStep, LoopStep

LEMMA ReviewedStep ==
    ASSUME LocalTypeOK, LocalNext, \A w \in Workers : CompletingReviewed(w), ReviewedBeforeDone
    PROVE  ReviewedBeforeDone'
PROOF
<1> SUFFICES ASSUME NEW t \in ReviewTasks, task'[t].status = "DONE" PROVE HasApproval(t)'
  BY DEF ReviewedBeforeDone, HasApproval
<1>0. t \in Tasks /\ QueueTypeOK
  BY ReviewAssumption DEF LocalTypeOK
<1>1. CASE task[t].status = "DONE"
  <2>1. HasApproval(t)
    BY <1>1 DEF ReviewedBeforeDone, HasApproval
  <2> QED BY <1>0, <2>1, LocalStepIsQueueStep, ApprovalKept DEF Taken
<1>2. ASSUME NEW w \in Workers, Completes(w, t)
      PROVE  HasApproval(t)'
  BY <1>2 DEF Completes, CompletingReviewed, HasApproval
<1> QED BY <1>0, <1>1, <1>2, DoneSteps DEF NotDone

\* A task with a review checkpoint is done only after somebody approved it: the
\* approval CheckReview read is still there when complete_task runs, or the
\* reset that deleted it has taken the task away.
THEOREM ReviewedSafe == LocalSpec => []ReviewedBeforeDone
PROOF
<1> DEFINE AllReviewed == \A w \in Workers : CompletingReviewed(w)
<1>1. LocalInit => HandlesOK /\ AllReviewed /\ ReviewedBeforeDone
  <2> SUFFICES ASSUME LocalInit PROVE HandlesOK /\ AllReviewed /\ ReviewedBeforeDone
    OBVIOUS
  <2>1. \A w \in Workers : pc[w] = "off"
    BY DEF LocalInit
  <2>2. \A t \in Tasks : task[t].status # "DONE"
    BY OtherRows DEF LocalInit, QueueInit
  <2> QED BY <2>1, <2>2, ReviewAssumption DEF HandlesOK, HandleOK, Writing, CompletingReviewed, ReviewedBeforeDone
<1>2. ASSUME LocalTypeOK, LocalTypeOK', HandlesOK, AllReviewed, ReviewedBeforeDone, [LocalNext]_vars
      PROVE  HandlesOK' /\ AllReviewed' /\ ReviewedBeforeDone'
  <2>1. CASE LocalNext
    BY <1>2, <2>1, HandlesStep, CompletingStep, ReviewedStep
  <2>2. CASE UNCHANGED vars
    BY <1>2, <2>2
    DEF vars, queueVars, localVars, HandlesOK, HandleOK, Owns, CompletingReviewed, HasApproval,
        Matches, ReviewedBeforeDone
  <2> QED BY <1>2, <2>1, <2>2
<1> HIDE DEF AllReviewed
<1> QED BY <1>1, <1>2, LocalTypeSafe, PTL DEF LocalSpec
=============================================================================
