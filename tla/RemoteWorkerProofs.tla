------------------------- MODULE RemoteWorkerProofs -------------------------
(***************************************************************************)
(* Theorems about RemoteWorker for every value of its constants: any       *)
(* number of processes and tasks, any schedule of losses, repetitions and  *)
(* late arrivals, with and without --once and URL rotation.                *)
(***************************************************************************)
EXTENDS RemoteWorker, TaskQueueProofs

\* What the steps of the workers and of the requests may do to the queue.
QueueCall ==
    \/ CallerStep
    \/ \E t \in Tasks : InsertTask(t)
    \/ UNCHANGED queueVars

-----------------------------------------------------------------------------
(* The server's handlers are calls of the repository.                      *)

LEMMA WriteCalls ==
    ASSUME NEW call, NEW t \in Tasks, NEW v, Write(call, t, v)
    PROVE  CallerStep
BY DEF Write, Complete, Fail, Release, ReleaseForReview, Matches, CallerStep

LEMMA ServedCalls ==
    ASSUME NEW r \in Requests, r.call \in Writing => r.task \in Tasks, Served(r)
    PROVE  QueueCall
PROOF
<1>1. r.worker \in Workers
  BY RemoteAssumption DEF Requests
<1>2. CASE \E t \in Tasks : Claim(r.worker, t)
  BY <1>1, <1>2 DEF QueueCall, CallerStep
<1>3. CASE r.call \in Writing /\ Write(r.call, r.task, r.version)
  BY <1>3, WriteCalls DEF QueueCall
<1> QED BY <1>2, <1>3 DEF Served, QueueCall

LEMMA RequestType ==
    ASSUME RemoteTypeOK, NEW w \in RemoteWorkers, pc[w] \in Calling
    PROVE  /\ Request(w) \in Requests
           /\ Request(w).call \in Writing => Request(w).task \in Tasks
           /\ Request(w).worker = w /\ Request(w).call = pc[w]
           /\ pc[w] \in Writing => /\ Request(w).task = held[w].task
                                   /\ Request(w).version = held[w].version
PROOF
<1>1. held[w] \in [task : Tasks \cup {NoTask}, version : Nat]
  BY DEF RemoteTypeOK
<1>2. CASE pc[w] = "claiming"
  BY <1>1, <1>2 DEF Request, Requests, Calling, Writing, Releasing
<1>3. CASE pc[w] \in Writing
  <2>1. pc[w] # "claiming" /\ held[w].task \in Tasks
    BY <1>3 DEF RemoteTypeOK, Writing, Releasing, Attending
  <2> QED BY <1>1, <1>3, <2>1 DEF Request, Requests, Calling
<1> QED BY <1>2, <1>3 DEF Calling

LEMMA LoopCalls ==
    ASSUME RemoteTypeOK, NEW w \in RemoteWorkers, LoopStep(w)
    PROVE  QueueCall
PROOF
<1>0. w \in Workers /\ (pc[w] \in Attending => held[w].task \in Tasks)
  BY RemoteAssumption DEF RemoteTypeOK
<1>1. CASE ClaimTask(w)
  BY <1>0, <1>1 DEF ClaimTask, QueueCall, CallerStep
<1>2. CASE Prepare(w)
  <2>1. held[w].task \in Tasks
    BY <1>0, <1>2 DEF Prepare, Attending
  <2>2. StageOf[held[w].task] \in Stages
    BY <2>1, ReviewAssumption
  <2> QED BY <1>2, <2>1, <2>2 DEF Prepare, QueueCall, CallerStep
<1>3. CASE RequestRepair(w)
  BY <1>3 DEF RequestRepair, QueueCall
<1>4. CASE Answered(w)
  <2>1. held[w].task \in Tasks
    BY <1>0, <1>4 DEF Answered, Attending
  <2> QED BY <1>4, <2>1, WriteCalls DEF Answered, Conflict, QueueCall
<1>5. CASE Unanswered(w)
  BY <1>5, RequestType, ServedCalls DEF Unanswered, QueueCall
<1>6. CASE UNCHANGED queueVars
  BY <1>6 DEF QueueCall
<1> QED
  BY <1>1, <1>2, <1>3, <1>4, <1>5, <1>6
  DEF LoopStep, ExitOnStop, PollOpen, ClaimNone, PauseAfterClaim, RunStopped, PauseAfterRun,
      RepairChecked, CheckReview, Denied, Leave

LEMMA RemoteCalls ==
    ASSUME RemoteTypeOK, RemoteNext
    PROVE  QueueCall \/ ((SweepStep \/ TimeStep \/ OperatorStep) /\ UNCHANGED remoteVars)
PROOF
<1>1. ASSUME NEW w \in RemoteWorkers, ProcessStep(w)
      PROVE  QueueCall
  <2>0. w \in Workers
    BY RemoteAssumption
  <2>1. CASE LoopStep(w)
    BY <2>1, LoopCalls
  <2>2. CASE Boot(w) \/ Heartbeat(w)
    BY <2>0, <2>2 DEF Boot, Heartbeat, QueueCall, CallerStep
  <2>3. CASE RunEnds(w) \/ VerifyEnds(w) \/ Restart(w) \/ Signal(w) \/ Rotate(w) \/ Crash(w)
    BY <2>3 DEF RunEnds, VerifyEnds, Restart, Signal, Rotate, Crash, QueueCall
  <2> QED BY <1>1, <2>1, <2>2, <2>3 DEF ProcessStep
<1>2. CASE LateArrives
  BY <1>2, ServedCalls DEF LateArrives, RemoteTypeOK
<1>3. ASSUME NEW w \in Workers, PeerStep(w)
      PROVE  CallerStep
  BY <1>3 DEF PeerStep, CallerStep
<1> QED BY <1>1, <1>2, <1>3 DEF RemoteNext, QueueCall

-----------------------------------------------------------------------------
(* Types.                                                                  *)

\* The variables of the processes, and the requests.
ProcessOK ==
    /\ pc \in [RemoteWorkers -> {"off"} \cup Live \cup Ended]
    /\ held \in [RemoteWorkers -> [task : Tasks \cup {NoTask}, version : Nat]]
    /\ \A w \in RemoteWorkers : pc[w] \in Attending => held[w].task \in Tasks
    /\ stop \in [RemoteWorkers -> BOOLEAN] /\ rotated \in [RemoteWorkers -> BOOLEAN]
    /\ tries \in [RemoteWorkers -> 0..Retries]

RequestsOK ==
    /\ late \subseteq Requests
    /\ \A r \in late : r.call \in Writing => r.task \in Tasks

HistoryOK == term \in [RemoteWorkers -> BOOLEAN] /\ lossy \in [RemoteWorkers -> BOOLEAN]

LEMMA HandleTypes ==
    /\ NoHandle \in [task : Tasks \cup {NoTask}, version : Nat]
    /\ 0 \in 0..Retries
    /\ \A call \in Calling : AfterError(call) \in {"leaving", "poll", "dead"}
    /\ \A call \in Writing : AfterWrite(call) \in {"leaving", "poll"} /\ AfterConflict(call) \in {"leaving", "poll"}
    /\ {"leaving", "poll", "dead", "exited"} \cap Attending = {}
    /\ {"leaving", "poll", "dead", "exited"} \subseteq Live \cup Ended
    /\ Calling \subseteq Live /\ Attending \subseteq Live
    /\ Writing \subseteq Calling /\ Writing \subseteq Attending
    /\ "claiming" \notin Attending
BY RemoteAssumption
DEF NoHandle, AfterError, AfterWrite, AfterConflict, Calling, Writing, Releasing, Attending, Live, Ended

LEMMA GotoType ==
    ASSUME ProcessOK, RequestsOK, HistoryOK, NEW w \in RemoteWorkers, NEW to \in Live, Goto(w, to),
           to \in Attending => pc[w] \in Attending
    PROVE  ProcessOK' /\ RequestsOK' /\ HistoryOK'
PROOF
<1>1. tries' \in [RemoteWorkers -> 0..Retries]
  BY HandleTypes DEF Goto, ProcessOK
<1> QED BY <1>1 DEF Goto, ProcessOK, RequestsOK, HistoryOK

LEMMA DropType ==
    ASSUME ProcessOK, RequestsOK, HistoryOK, NEW w \in RemoteWorkers,
           NEW to \in {"leaving", "poll", "dead"}, Drop(w, to)
    PROVE  ProcessOK' /\ RequestsOK' /\ HistoryOK'
PROOF
<1>1. tries' \in [RemoteWorkers -> 0..Retries]
  BY HandleTypes DEF Drop, ProcessOK
<1>2. /\ held' \in [RemoteWorkers -> [task : Tasks \cup {NoTask}, version : Nat]]
      /\ pc' \in [RemoteWorkers -> {"off"} \cup Live \cup Ended]
      /\ pc'[w] \notin Attending
      /\ \A u \in RemoteWorkers : u # w => pc'[u] = pc[u] /\ held'[u] = held[u]
  BY HandleTypes DEF Drop, ProcessOK
<1> QED BY <1>1, <1>2 DEF Drop, ProcessOK, RequestsOK, HistoryOK

LEMMA AskingType ==
    ASSUME RemoteTypeOK, NEW w \in RemoteWorkers, Unanswered(w)
    PROVE  ProcessOK' /\ RequestsOK' /\ HistoryOK'
PROOF
<1>0. ProcessOK /\ RequestsOK /\ HistoryOK /\ pc[w] \in Calling
  BY DEF RemoteTypeOK, ProcessOK, RequestsOK, HistoryOK, Unanswered
<1>1. tries' \in [RemoteWorkers -> 0..Retries]
  <2>1. tries[w] \in 0..Retries /\ Retries \in Nat
    BY <1>0, RemoteAssumption DEF ProcessOK
  <2>2. tries[w] # Retries => tries[w] + 1 \in 0..Retries
    BY <2>1
  <2> QED BY <1>0, <2>1, <2>2 DEF Unanswered, LastAttempt, ProcessOK
<1>2. /\ held' \in [RemoteWorkers -> [task : Tasks \cup {NoTask}, version : Nat]]
      /\ pc' \in [RemoteWorkers -> {"off"} \cup Live \cup Ended]
      /\ \A u \in RemoteWorkers : u # w => pc'[u] = pc[u] /\ held'[u] = held[u]
  BY <1>0, HandleTypes DEF Unanswered, ProcessOK
<1>3. pc'[w] \in Attending => held'[w].task \in Tasks
  BY <1>0, HandleTypes DEF Unanswered, ProcessOK
<1>4. RequestsOK'
  BY <1>0, RequestType DEF Unanswered, RequestsOK
<1>5. HistoryOK'
  <2>1. (lossy[w] \/ LastAttempt(w) \/ pc[w] = "claiming") \in BOOLEAN
    OBVIOUS
  <2> QED BY <1>0, <2>1 DEF Unanswered, HistoryOK
<1> QED BY <1>0, <1>1, <1>2, <1>3, <1>4, <1>5 DEF Unanswered, ProcessOK

LEMMA ProcessType ==
    ASSUME RemoteTypeOK, NEW w \in RemoteWorkers, ProcessStep(w)
    PROVE  ProcessOK' /\ RequestsOK' /\ HistoryOK'
PROOF
<1>0. ProcessOK /\ RequestsOK /\ HistoryOK /\ QueueTypeOK
  BY DEF RemoteTypeOK, ProcessOK, RequestsOK, HistoryOK
<1>1. CASE ExitOnStop(w) \/ PollOpen(w) \/ ClaimNone(w) \/ Boot(w)
  BY <1>0, <1>1, GotoType DEF ExitOnStop, PollOpen, ClaimNone, Boot, Live, Attending, Writing, Releasing
<1>2. CASE \/ PauseAfterClaim(w) \/ Prepare(w) \/ RunStopped(w) \/ PauseAfterRun(w) \/ RunEnds(w)
           \/ VerifyEnds(w) \/ RepairChecked(w) \/ RequestRepair(w) \/ CheckReview(w)
  BY <1>0, <1>2, GotoType
  DEF PauseAfterClaim, Prepare, RunStopped, PauseAfterRun, RunEnds, VerifyEnds, RepairChecked,
      RequestRepair, CheckReview, Live, Attending, Writing, Releasing
<1>3. CASE ClaimTask(w)
  <2>1. PICK t \in Tasks : held' = [held EXCEPT ![w] = [task |-> t, version |-> task[t].version + 1]]
    BY <1>3 DEF ClaimTask
  <2>2. task[t].version + 1 \in Nat
    BY <1>0 DEF QueueTypeOK, Rows
  <2>3. held' \in [RemoteWorkers -> [task : Tasks \cup {NoTask}, version : Nat]] /\ held'[w].task = t
    BY <1>0, <2>1, <2>2 DEF ProcessOK
  <2>4. \A u \in RemoteWorkers : u # w => held'[u] = held[u]
    BY <1>0, <2>1 DEF ProcessOK
  <2>5. pc' = [pc EXCEPT ![w] = "claimed"] /\ "claimed" \in Live
    BY <1>3 DEF ClaimTask, Live, Attending
  <2>6. tries' \in [RemoteWorkers -> 0..Retries]
    BY <1>0, <1>3, HandleTypes DEF ClaimTask, ProcessOK
  <2> QED BY <1>0, <1>3, <2>3, <2>4, <2>5, <2>6 DEF ClaimTask, ProcessOK, RequestsOK, HistoryOK
<1>4. CASE Answered(w)
  BY <1>0, <1>4, DropType, HandleTypes DEF Answered
<1>5. CASE Denied(w)
  BY <1>0, <1>5, DropType, HandleTypes DEF Denied
<1>6. CASE Unanswered(w)
  BY <1>6, AskingType
<1>7. CASE Leave(w)
  <2>1. pc' = [pc EXCEPT ![w] = "poll"] \/ pc' = [pc EXCEPT ![w] = "exited"]
    BY <1>7 DEF Leave
  <2>2. \A u \in RemoteWorkers : pc'[u] \in Attending => pc[u] \in Attending
    BY <1>0, <2>1, HandleTypes DEF ProcessOK
  <2>3. pc' \in [RemoteWorkers -> {"off"} \cup Live \cup Ended]
    BY <1>0, <2>1, HandleTypes DEF ProcessOK
  <2>4. stop' \in [RemoteWorkers -> BOOLEAN] /\ rotated' \in [RemoteWorkers -> BOOLEAN]
    BY <1>0, <1>7 DEF Leave, ProcessOK
  <2> QED BY <1>0, <1>7, <2>2, <2>3, <2>4 DEF Leave, ProcessOK, RequestsOK, HistoryOK
<1>8. CASE Restart(w)
  BY <1>0, <1>8, HandleTypes DEF Restart, ProcessOK, RequestsOK, HistoryOK
<1>9. CASE Signal(w) \/ Rotate(w) \/ Heartbeat(w)
  BY <1>0, <1>9
  DEF Signal, Rotate, Heartbeat, remoteVars, procVars, ProcessOK, RequestsOK, HistoryOK
<1>10. CASE Crash(w)
  <2>1. /\ tries' \in [RemoteWorkers -> 0..Retries]
        /\ held' \in [RemoteWorkers -> [task : Tasks \cup {NoTask}, version : Nat]]
        /\ \A u \in RemoteWorkers : u # w => pc'[u] = pc[u] /\ held'[u] = held[u]
        /\ pc'[w] \notin Attending
        /\ pc' \in [RemoteWorkers -> {"off"} \cup Live \cup Ended]
    BY <1>0, <1>10, HandleTypes DEF Crash, ProcessOK
  <2>2. lossy' \in [RemoteWorkers -> BOOLEAN]
    <3>1. (pc[w] \in Calling \cup Attending) \in BOOLEAN
      OBVIOUS
    <3> QED BY <1>0, <1>10, <3>1 DEF Crash, HistoryOK
  <2> QED BY <1>0, <1>10, <2>1, <2>2 DEF Crash, ProcessOK, RequestsOK, HistoryOK
<1> QED
  BY <1>1, <1>2, <1>3, <1>4, <1>5, <1>6, <1>7, <1>8, <1>9, <1>10 DEF ProcessStep, LoopStep

\* Whatever the processes and their requests do, the queue sees the methods of
\* TaskRepository.
LEMMA RemoteStepIsQueueStep == RemoteTypeOK /\ [RemoteNext]_vars => [QueueNext]_queueVars
PROOF
<1>1. CASE RemoteTypeOK /\ RemoteNext
  BY <1>1, RemoteCalls DEF QueueCall, QueueNext, ReimportStep
<1>2. CASE UNCHANGED vars
  BY <1>2 DEF vars
<1> QED BY <1>1, <1>2

LEMMA RemoteStepType == RemoteTypeOK /\ [RemoteNext]_vars => RemoteTypeOK'
PROOF
<1> SUFFICES ASSUME RemoteTypeOK, [RemoteNext]_vars PROVE RemoteTypeOK'
  OBVIOUS
<1>0. ProcessOK /\ RequestsOK /\ HistoryOK /\ QueueTypeOK
  BY DEF RemoteTypeOK, ProcessOK, RequestsOK, HistoryOK
<1>1. QueueTypeOK'
  BY <1>0, RemoteStepIsQueueStep, QueueStepType
<1>2. ProcessOK' /\ RequestsOK' /\ HistoryOK'
  <2>1. CASE UNCHANGED remoteVars
    BY <1>0, <2>1 DEF remoteVars, procVars, ProcessOK, RequestsOK, HistoryOK
  <2>2. ASSUME NEW w \in RemoteWorkers, ProcessStep(w)
        PROVE  ProcessOK' /\ RequestsOK' /\ HistoryOK'
    BY <2>2, ProcessType
  <2>3. CASE LateArrives
    BY <1>0, <2>3 DEF LateArrives, procVars, ProcessOK, RequestsOK, HistoryOK
  <2>4. UNCHANGED vars => UNCHANGED remoteVars
    BY DEF vars
  <2> QED BY <2>1, <2>2, <2>3, <2>4 DEF RemoteNext
<1> QED BY <1>1, <1>2 DEF RemoteTypeOK, ProcessOK, RequestsOK, HistoryOK

\* The processes, their requests and the queue keep their types; a loop past
\* its claim always holds a task, and no request is tried more often than the
\* backoff schedule allows.
THEOREM RemoteTypeSafe == RemoteSpec => []RemoteTypeOK
PROOF
<1>1. RemoteInit => RemoteTypeOK
  <2> SUFFICES ASSUME RemoteInit PROVE RemoteTypeOK
    OBVIOUS
  <2>1. QueueTypeOK
    BY QueueInitType DEF RemoteInit
  <2> QED BY <2>1, HandleTypes DEF RemoteInit, RemoteTypeOK, Attending, Writing, Releasing
<1> QED BY <1>1, RemoteStepType, PTL DEF RemoteSpec

\* The remote workers, the requests that arrive late, the local workers beside
\* them, the sweeps and the operator use the queue through the methods of
\* TaskRepository only.
THEOREM RemoteImplementsQueue == RemoteSpec => QueueSpec
BY RemoteTypeSafe, RemoteStepIsQueueStep, PTL DEF RemoteSpec, RemoteInit, QueueSpec

\* So the rows, the audit log and the holds are what the queue promises, for any
\* losses and repetitions on the way.
THEOREM RemoteQueueSafe ==
    RemoteSpec => [](OwnedIffClaimed /\ AuditTellsStatus /\ HeldUntilApproved) /\ ImplementsLifecycle
BY RemoteImplementsQueue, OwnedSafe, AuditSafe, HeldSafe, QueueImplementsLifecycle, PTL

-----------------------------------------------------------------------------
(* The fence.                                                              *)

LEMMA RemoteRowsKept ==
    ASSUME RemoteTypeOK, RemoteNext
    PROVE  \A t \in Tasks : RowKept(t)
PROOF
<1>0. QueueTypeOK
  BY DEF RemoteTypeOK
<1>1. CASE CallerStep
  BY <1>0, <1>1, CallerStepRows, ChangeKeeps
<1>2. CASE SweepStep \/ TimeStep
  BY <1>0, <1>2, BackgroundRows, ChangeKeeps DEF RowChange
<1>3. CASE OperatorStep
  BY <1>0, <1>3, OperatorStepRows, ChangeKeeps DEF RowChange
<1>4. ASSUME NEW u \in Tasks, InsertTask(u)
      PROVE  \A t \in Tasks : RowKept(t)
  <2>1. ASSUME NEW t \in Tasks
        PROVE  RowChange(t) \/ RowCreated(t)
    BY <1>0, <1>4 DEF InsertTask, QueueTypeOK, RowChange, RowQuiet, RowCreated
  <2> QED BY <1>0, <2>1, ChangeKeeps
<1>5. CASE UNCHANGED queueVars
  BY <1>0, <1>5, ChangeKeeps DEF queueVars, RowChange, RowQuiet
<1> QED BY <1>1, <1>2, <1>3, <1>4, <1>5, RemoteCalls DEF QueueCall

\* The strengthening of RequestsFenced, for one triple of a worker, a task and a
\* version: it is at most the row's, and while the two are equal the claim is
\* still this worker's.
Fenced(w, t, v) ==
    /\ task[t].status # "ABSENT"
    /\ v <= task[t].version
    /\ v = task[t].version => Owns(w, t)

HandlesFenced == \A w \in RemoteWorkers : pc[w] \in Attending => Fenced(w, held[w].task, held[w].version)
LateFenced == \A r \in late : r.call \in Writing => Fenced(r.worker, r.task, r.version)

LEMMA FencedKept ==
    ASSUME RemoteTypeOK, RemoteTypeOK', NEW w, NEW t \in Tasks, NEW v \in Nat, Fenced(w, t, v), RowKept(t)
    PROVE  Fenced(w, t, v)'
PROOF
<1>1. task[t].version \in Nat /\ task'[t].version \in Nat
  BY DEF RemoteTypeOK, QueueTypeOK, Rows
<1>2. task'[t].status # "ABSENT" /\ v <= task'[t].version
  BY <1>1 DEF Fenced, RowKept
<1>3. ASSUME v = task'[t].version
      PROVE  Owns(w, t)'
  <2>1. v = task[t].version /\ task'[t].version = task[t].version
    BY <1>1, <1>3 DEF Fenced, RowKept
  <2> QED BY <2>1 DEF Fenced, RowKept, Owns
<1> QED BY <1>2, <1>3 DEF Fenced

\* Only ClaimTask gives a loop a handle.
LEMMA HandleSteps ==
    ASSUME RemoteTypeOK, RemoteNext, NEW w \in RemoteWorkers, pc'[w] \in Attending
    PROVE  ClaimTask(w) \/ (pc[w] \in Attending /\ held'[w] = held[w])
PROOF
<1>0. DOMAIN pc = RemoteWorkers /\ DOMAIN held = RemoteWorkers
  BY DEF RemoteTypeOK
<1>1. CASE UNCHANGED <<pc, held>>
  BY <1>1
<1>2. ASSUME NEW u \in RemoteWorkers, ProcessStep(u), u # w
      PROVE  pc'[w] = pc[w] /\ held'[w] = held[w]
  BY <1>0, <1>2
  DEF ProcessStep, LoopStep, ExitOnStop, PollOpen, ClaimTask, ClaimNone, PauseAfterClaim, Prepare,
      RunStopped, PauseAfterRun, RepairChecked, RequestRepair, CheckReview, Answered, Denied,
      Unanswered, Leave, RunEnds, VerifyEnds, Boot, Restart, Signal, Rotate, Crash, Heartbeat, Goto, Drop,
      remoteVars, procVars
<1>3. CASE ExitOnStop(w) \/ PollOpen(w) \/ ClaimNone(w) \/ Boot(w)
  <2>1. pc'[w] \in {"leaving", "claiming", "poll"}
    BY <1>0, <1>3 DEF ExitOnStop, PollOpen, ClaimNone, Boot, Goto
  <2> QED BY <2>1, HandleTypes
<1>4. CASE \/ PauseAfterClaim(w) \/ Prepare(w) \/ RunStopped(w) \/ PauseAfterRun(w) \/ RunEnds(w)
           \/ VerifyEnds(w) \/ RepairChecked(w) \/ RequestRepair(w) \/ CheckReview(w)
  BY <1>4
  DEF PauseAfterClaim, Prepare, RunStopped, PauseAfterRun, RunEnds, VerifyEnds, RepairChecked,
      RequestRepair, CheckReview, Goto, Attending
<1>5. CASE Answered(w) \/ Denied(w)
  <2>1. pc'[w] \in {"leaving", "poll", "dead"}
    BY <1>0, <1>5, HandleTypes DEF Answered, Denied, Drop
  <2> QED BY <2>1, HandleTypes
<1>6. CASE Unanswered(w)
  <2>1. CASE LastAttempt(w)
    <3>1. pc'[w] \in {"leaving", "poll", "dead"}
      BY <1>0, <1>6, <2>1, HandleTypes DEF Unanswered
    <3> QED BY <3>1, HandleTypes
  <2>2. CASE ~LastAttempt(w)
    BY <1>0, <1>6, <2>2 DEF Unanswered
  <2> QED BY <2>1, <2>2
<1>7. CASE Leave(w) \/ Restart(w) \/ Crash(w)
  <2>1. pc'[w] \in {"poll", "exited", "dead"}
    BY <1>0, <1>7 DEF Leave, Restart, Crash
  <2> QED BY <2>1, HandleTypes
<1>8. CASE Signal(w) \/ Rotate(w) \/ Heartbeat(w)
  BY <1>1, <1>8 DEF Signal, Rotate, Heartbeat, remoteVars, procVars
<1> QED
  BY <1>1, <1>2, <1>3, <1>4, <1>5, <1>6, <1>7, <1>8
  DEF RemoteNext, ProcessStep, LoopStep, LateArrives, remoteVars, procVars

\* The requests in flight without a caller are old ones, or the one a loop has
\* just given up, whose version is the one in its hand.
LEMMA LateSteps ==
    ASSUME RemoteTypeOK, RemoteNext, NEW r \in late', r.call \in Writing
    PROVE  \/ r \in late
           \/ \E w \in RemoteWorkers :
                /\ pc[w] \in Attending /\ r.call = pc[w] /\ UNCHANGED queueVars
                /\ r.worker = w /\ r.task = held[w].task /\ r.version = held[w].version
PROOF
<1>1. ASSUME NEW w \in RemoteWorkers, Unanswered(w), r \notin late
      PROVE  /\ pc[w] \in Attending /\ r.call = pc[w] /\ UNCHANGED queueVars
             /\ r.worker = w /\ r.task = held[w].task /\ r.version = held[w].version
  <2>1. r = Request(w) /\ UNCHANGED queueVars /\ pc[w] \in Calling
    BY <1>1 DEF Unanswered
  <2> QED BY <2>1, RequestType, HandleTypes
<1>2. ASSUME NEW w \in RemoteWorkers, ProcessStep(w), ~Unanswered(w)
      PROVE  late' = late
  BY <1>2
  DEF ProcessStep, LoopStep, ExitOnStop, PollOpen, ClaimTask, ClaimNone, PauseAfterClaim, Prepare,
      RunStopped, PauseAfterRun, RepairChecked, RequestRepair, CheckReview, Answered, Denied,
      Leave, RunEnds, VerifyEnds, Boot, Restart, Signal, Rotate, Crash, Heartbeat, Goto, Drop,
      remoteVars
<1> QED BY <1>1, <1>2 DEF RemoteNext, LateArrives, remoteVars

LEMMA FencesStep ==
    ASSUME RemoteTypeOK, RemoteTypeOK', HandlesFenced, LateFenced, RemoteNext
    PROVE  HandlesFenced' /\ LateFenced'
PROOF
<1>0. \A t \in Tasks : RowKept(t)
  BY RemoteRowsKept
<1>1. ASSUME NEW w \in RemoteWorkers, pc'[w] \in Attending
      PROVE  Fenced(w, held[w].task, held[w].version)' 
  <2>1. CASE ClaimTask(w)
    <3>1. PICK t \in Tasks :
              /\ Claim(w, t)
              /\ held' = [held EXCEPT ![w] = [task |-> t, version |-> task[t].version + 1]]
      BY <2>1 DEF ClaimTask
    <3>2. task[t] \in Rows /\ task[t].version \in Nat /\ w \in Workers
      BY RemoteAssumption DEF RemoteTypeOK, QueueTypeOK, Rows
    <3>3. task'[t] = ClaimedRow(task[t], w)
      BY <3>1 DEF Claim, ClaimedRow, RemoteTypeOK, QueueTypeOK
    <3>4. /\ task'[t].status = "CLAIMED"
          /\ task'[t].version = task[t].version + 1
          /\ task'[t].claimed_by = w
      BY <3>2, <3>3, ClaimedRowType
    <3>5. held'[w] = [task |-> t, version |-> task[t].version + 1]
      BY <3>1 DEF RemoteTypeOK
    <3> QED BY <3>2, <3>4, <3>5 DEF Fenced, Owns, Active
  <2>2. CASE pc[w] \in Attending /\ held'[w] = held[w]
    <3>1. held[w].task \in Tasks /\ held[w].version \in Nat
      BY <2>2 DEF RemoteTypeOK
    <3>2. Fenced(w, held[w].task, held[w].version)
      BY <2>2 DEF HandlesFenced
    <3>5. \A t \in Tasks, v \in Nat : Fenced(w, t, v) =>
            /\ task'[t].status # "ABSENT" /\ v <= task'[t].version
            /\ v = task'[t].version => task'[t].status \in Active /\ task'[t].claimed_by = w
      BY <1>0, FencedKept DEF Fenced, Owns
    <3>6. held'[w].task = held[w].task /\ held'[w].version = held[w].version
      BY <2>2
    <3> QED BY <3>1, <3>2, <3>5, <3>6 DEF Fenced, Owns
  <2> QED BY <1>1, <2>1, <2>2, HandleSteps
<1>2. ASSUME NEW r \in late', r.call \in Writing
      PROVE  Fenced(r.worker, r.task, r.version)'
  <2>0. r \in Requests /\ r.task \in Tasks /\ r.version \in Nat
    BY <1>2 DEF RemoteTypeOK, Requests
  <2>1. CASE r \in late
    BY <1>0, <1>2, <2>0, <2>1, FencedKept DEF LateFenced
  <2>2. CASE r \notin late
    <3>1. PICK w \in RemoteWorkers :
              /\ pc[w] \in Attending /\ UNCHANGED queueVars
              /\ r.worker = w /\ r.task = held[w].task /\ r.version = held[w].version
      BY <1>2, <2>2, LateSteps
    <3>2. Fenced(r.worker, r.task, r.version)
      BY <3>1 DEF HandlesFenced
    <3> QED BY <1>0, <2>0, <3>2, FencedKept
  <2> QED BY <2>1, <2>2
<1> QED BY <1>1, <1>2 DEF HandlesFenced, LateFenced, Fenced, Owns

LEMMA FencesHold == RemoteSpec => [](RemoteTypeOK /\ HandlesFenced /\ LateFenced)
PROOF
<1>1. RemoteInit => HandlesFenced /\ LateFenced
  BY DEF RemoteInit, HandlesFenced, LateFenced, Attending, Writing, Releasing
<1>2. RemoteTypeOK /\ RemoteTypeOK' /\ HandlesFenced /\ LateFenced /\ [RemoteNext]_vars
        => HandlesFenced' /\ LateFenced'
  <2> SUFFICES ASSUME RemoteTypeOK, RemoteTypeOK', HandlesFenced, LateFenced, [RemoteNext]_vars
               PROVE  HandlesFenced' /\ LateFenced'
    OBVIOUS
  <2>1. CASE RemoteNext
    BY <2>1, FencesStep
  <2>2. CASE UNCHANGED vars
    BY <2>2 DEF vars, queueVars, remoteVars, procVars, HandlesFenced, LateFenced, Fenced, Owns
  <2> QED BY <2>1, <2>2
<1> QED BY <1>1, <1>2, RemoteTypeSafe, PTL DEF RemoteSpec

\* A repeated or late write, or one in the hand of the loop, that still fits a row
\* in flight was made for the claim that the row shows.
THEOREM RequestsSafe == RemoteSpec => []RequestsFenced
PROOF
<1>1. RemoteTypeOK /\ HandlesFenced /\ LateFenced => RequestsFenced
  BY DEF HandlesFenced, LateFenced, Fenced, RequestsFenced, Matches
<1> QED BY <1>1, FencesHold, PTL

-----------------------------------------------------------------------------
(* Orphaned claims.                                                        *)

\* The disjunction of OrphansOnlyByLoss.
Tracked(w, t) ==
    \/ lossy[w]
    \/ pc[w] \in Attending /\ held[w] = [task |-> t, version |-> task[t].version]

\* A worker that owns something still has its bearer, since revoking it frees
\* its claims; and a claim that nobody waits for has been given up as lost.
OwnersHaveTokens == \A w \in RemoteWorkers, t \in Tasks : Owns(w, t) => worker[w].token
LateClaimsLost == \A r \in late : r.call = "claiming" => lossy[r.worker]

LEMMA ClaimOfOne ==
    ASSUME QueueTypeOK, NEW u \in Workers, NEW s \in Tasks, Claim(u, s)
    PROVE  \A t \in Tasks :
            IF t = s THEN task'[t].claimed_by = u /\ task'[t].version = task[t].version + 1
                     ELSE task'[t] = task[t]
PROOF
<1>1. task' = [task EXCEPT ![s] = ClaimedRow(task[s], u)]
  BY DEF Claim, ClaimedRow
<1>2. task \in [Tasks -> Rows]
  BY DEF QueueTypeOK
<1>3. \A t \in Tasks : task'[t] = IF t = s THEN ClaimedRow(task[s], u) ELSE task[t]
  BY <1>1, <1>2
<1> QED BY <1>2, <1>3, ClaimedRowType

\* A write that fits ends the claim.
LEMMA WriteLetsGo ==
    ASSUME QueueTypeOK, NEW call, NEW u \in Tasks, NEW v, Write(call, u, v)
    PROVE  (\A t \in Tasks : NoNewClaim(t)) /\ \A w : ~Owns(w, u)'
PROOF
<1>0. task \in [Tasks -> Rows] /\ task[u].status \in Active /\ task[u] \in Rows
  BY DEF QueueTypeOK, Write, Complete, Fail, Release, ReleaseForReview, Matches
<1>1. /\ Moved(task[u], "DONE").status = "DONE" /\ Moved(task[u], "FAILED").status = "FAILED"
      /\ Freed(task[u], "PENDING").status = "PENDING"
  BY <1>0, MovedRow, FreedRow DEF TaskStatus
<1>2. \/ task' = [task EXCEPT ![u] = Moved(task[u], "DONE")]
      \/ task' = [task EXCEPT ![u] = Moved(task[u], "FAILED")]
      \/ task' = [task EXCEPT ![u] = Freed(task[u], "PENDING")]
  BY DEF Write, Complete, Fail, Release, ReleaseForReview
<1>3. task'[u].status \in {"DONE", "FAILED", "PENDING"} /\ \A t \in Tasks : t # u => task'[t] = task[t]
  BY <1>0, <1>1, <1>2
<1>4. \A w : ~Owns(w, u)'
  BY <1>3 DEF Owns, Active
<1>5. \A t \in Tasks : NoNewClaim(t)
  BY <1>3, <1>4 DEF NoNewClaim, Owns
<1> QED BY <1>4, <1>5

\* A claim comes from the loop that will hold it, from a request that nobody
\* waits for (or whose answer is lost), or from a local worker.
ClaimedUnseen ==
    \E u \in RemoteWorkers, s \in Tasks :
        /\ Claim(u, s) /\ worker[u].token
        /\ \/ Unanswered(u) /\ pc[u] = "claiming"
           \/ LateArrives /\ \E r \in late : r.worker = u /\ r.call = "claiming"

LEMMA UnansweredClaims ==
    ASSUME RemoteTypeOK, NEW r \in Requests, r.call \in Writing => r.task \in Tasks, Served(r)
    PROVE  \/ \A t \in Tasks : NoNewClaim(t)
           \/ r.call = "claiming" /\ worker[r.worker].token /\ \E s \in Tasks : Claim(r.worker, s)
PROOF
<1>0. QueueTypeOK
  BY DEF RemoteTypeOK
<1>1. CASE r.call \in Writing /\ Write(r.call, r.task, r.version)
  BY <1>0, <1>1, WriteLetsGo
<1>2. CASE UNCHANGED queueVars
  BY <1>2 DEF queueVars, NoNewClaim, Owns
<1> QED BY <1>1, <1>2 DEF Served, Authorized

LEMMA ClaimSources ==
    ASSUME RemoteTypeOK, RemoteNext
    PROVE  \/ \A t \in Tasks : NoNewClaim(t)
           \/ \E u \in RemoteWorkers : ClaimTask(u)
           \/ ClaimedUnseen
           \/ \E u \in Workers \ RemoteWorkers : PeerStep(u) /\ UNCHANGED remoteVars
PROOF
<1>0. QueueTypeOK
  BY DEF RemoteTypeOK
<1>1. CASE UNCHANGED task
  BY <1>1 DEF NoNewClaim, Owns
<1>2. CASE SweepStep \/ TimeStep \/ OperatorStep
  BY <1>0, <1>2, BackgroundRows, OperatorStepRows, QuietOrEndedClaimsNothing
<1>3. CASE LateArrives
  <2>1. PICK r \in late : Served(r)
    BY <1>3 DEF LateArrives
  <2>2. r \in Requests /\ (r.call \in Writing => r.task \in Tasks) /\ r.worker \in RemoteWorkers
    BY DEF RemoteTypeOK, Requests
  <2> QED BY <1>3, <2>1, <2>2, UnansweredClaims DEF ClaimedUnseen
<1>4. ASSUME NEW w \in RemoteWorkers, Unanswered(w)
      PROVE  (\A t \in Tasks : NoNewClaim(t)) \/ ClaimedUnseen
  <2>1. CASE UNCHANGED queueVars
    BY <1>1, <2>1 DEF queueVars, NoNewClaim, Owns
  <2>2. CASE Served(Request(w))
    <3>1. pc[w] \in Calling
      BY <1>4 DEF Unanswered
    <3>2. /\ Request(w) \in Requests /\ Request(w).worker = w /\ Request(w).call = pc[w]
          /\ Request(w).call \in Writing => Request(w).task \in Tasks
      BY <3>1, RequestType
    <3>3. \/ \A t \in Tasks : NoNewClaim(t)
          \/ pc[w] = "claiming" /\ worker[w].token /\ \E s \in Tasks : Claim(w, s)
      BY <2>2, <3>2, UnansweredClaims
    <3> QED BY <1>4, <3>3 DEF ClaimedUnseen
  <2> QED BY <1>4, <2>1, <2>2 DEF Unanswered
<1>5. ASSUME NEW w \in RemoteWorkers, Answered(w)
      PROVE  \A t \in Tasks : NoNewClaim(t)
  <2>1. held[w].task \in Tasks
    BY <1>5, HandleTypes DEF RemoteTypeOK, Answered
  <2> QED BY <1>0, <1>1, <1>5, <2>1, WriteLetsGo DEF Answered, Conflict, queueVars, NoNewClaim, Owns
<1>6. ASSUME NEW w \in RemoteWorkers, RequestRepair(w)
      PROVE  \A t \in Tasks : NoNewClaim(t)
  <2>1. CASE UNCHANGED queueVars
    BY <2>1 DEF queueVars, NoNewClaim, Owns
  <2>2. ASSUME NEW u \in Tasks, InsertTask(u)
        PROVE  \A t \in Tasks : NoNewClaim(t)
    <3>1. \A t \in Tasks : RowQuiet(t) \/ RowCreated(t)
      BY <1>0, <2>2 DEF InsertTask, QueueTypeOK, RowQuiet, RowCreated
    <3> QED BY <1>0, <3>1, QuietOrEndedClaimsNothing
  <2> QED BY <1>6, <2>1, <2>2 DEF RequestRepair
<1>7. ASSUME NEW w \in RemoteWorkers,
             \/ ExitOnStop(w) \/ PollOpen(w) \/ ClaimNone(w) \/ PauseAfterClaim(w) \/ Prepare(w)
             \/ RunStopped(w) \/ PauseAfterRun(w) \/ RepairChecked(w) \/ CheckReview(w) \/ Denied(w)
             \/ Leave(w) \/ RunEnds(w) \/ VerifyEnds(w) \/ Boot(w) \/ Restart(w) \/ Signal(w)
             \/ Rotate(w) \/ Crash(w) \/ Heartbeat(w)
      PROVE  UNCHANGED task
  BY <1>7
  DEF ExitOnStop, PollOpen, ClaimNone, PauseAfterClaim, Prepare, RunStopped, PauseAfterRun,
      RepairChecked, CheckReview, Denied, Leave, RunEnds, VerifyEnds, Boot, Restart, Signal, Rotate,
      Crash, Heartbeat, RecordReview, RegisterWorker, UpdateHeartbeat, queueVars
<1> QED
  BY <1>1, <1>2, <1>3, <1>4, <1>5, <1>6, <1>7 DEF RemoteNext, ProcessStep, LoopStep

LEMMA LossyKept ==
    ASSUME RemoteTypeOK, RemoteNext
    PROVE  /\ \A w \in RemoteWorkers : lossy[w] => lossy'[w]
           /\ \A r \in late' : r.call = "claiming" => r \in late \/ lossy'[r.worker]
PROOF
<1>0. lossy \in [RemoteWorkers -> BOOLEAN]
  BY DEF RemoteTypeOK
<1>1. ASSUME NEW u \in RemoteWorkers, Unanswered(u)
      PROVE  /\ \A w \in RemoteWorkers : lossy[w] => lossy'[w]
             /\ \A r \in late' : r.call = "claiming" => r \in late \/ lossy'[r.worker]
  <2>1. pc[u] \in Calling /\ Request(u).worker = u /\ Request(u).call = pc[u]
    BY <1>1, RequestType DEF Unanswered
  <2>2. /\ lossy' = [lossy EXCEPT ![u] = @ \/ LastAttempt(u) \/ pc[u] = "claiming"]
        /\ late' \subseteq late \cup {Request(u)}
    BY <1>1 DEF Unanswered
  <2> QED BY <1>0, <2>1, <2>2
<1>2. ASSUME NEW u \in RemoteWorkers, Crash(u)
      PROVE  (\A w \in RemoteWorkers : lossy[w] => lossy'[w]) /\ late' = late
  BY <1>0, <1>2 DEF Crash
<1>3. ASSUME NEW u \in RemoteWorkers, ProcessStep(u), ~Unanswered(u), ~Crash(u)
      PROVE  lossy' = lossy /\ late' = late
  BY <1>3
  DEF ProcessStep, LoopStep, ExitOnStop, PollOpen, ClaimTask, ClaimNone, PauseAfterClaim, Prepare,
      RunStopped, PauseAfterRun, RepairChecked, RequestRepair, CheckReview, Answered, Denied,
      Leave, RunEnds, VerifyEnds, Boot, Restart, Signal, Rotate, Heartbeat, Goto, Drop, remoteVars
<1> QED BY <1>1, <1>2, <1>3 DEF RemoteNext, LateArrives, remoteVars
\* Only a revocation takes a bearer away, and it frees what its worker owns.
LEMMA TokenKept ==
    ASSUME RemoteTypeOK, RemoteNext, NEW w \in Workers, worker[w].token
    PROVE  worker'[w].token \/ \A t \in Tasks : ~Owns(w, t)'
PROOF
<1>0. worker \in [Workers -> WorkerRows] /\ QueueTypeOK
  BY DEF RemoteTypeOK, QueueTypeOK
<1>1. CASE UNCHANGED worker
  BY <1>1
<1>2. CASE CallerStep
  <2>1. ASSUME NEW u \in Workers, RegisterWorker(u) \/ ReregisterWorker(u) \/ UpdateHeartbeat(u)
        PROVE  worker'[w].token
    BY <1>0, <2>1 DEF RegisterWorker, ReregisterWorker, UpdateHeartbeat, WorkerRows
  <2> QED
    BY <1>1, <1>2, <2>1
    DEF CallerStep, Claim, Start, Complete, Fail, Release, ReleaseForReview, RecordReview
<1>3. CASE SweepStep \/ TimeStep
  BY <1>0, <1>3
  DEF SweepStep, TimeStep, ReleaseStaleSnapshot, ReleaseStaleApply, ReleaseStaleAbort,
      ReleaseOfflineWorkers, ClaimAges, HeartbeatAges, WorkerRows
<1>4. ASSUME NEW u \in Workers, RevokeWorkerBearer(u)
      PROVE  worker'[w].token \/ \A t \in Tasks : ~Owns(w, t)'
  <2>1. CASE u # w
    BY <1>0, <1>4, <2>1 DEF RevokeWorkerBearer
  <2>2. CASE u = w
    <3> SUFFICES ASSUME NEW t \in Tasks PROVE ~Owns(w, t)'
      OBVIOUS
    <3>1. task[t] \in Rows /\ "PENDING" \in TaskStatus
      BY <1>0 DEF QueueTypeOK, TaskStatus
    <3>2. task'[t] = IF t \in Held({w}) THEN Freed(task[t], "PENDING") ELSE task[t]
      BY <1>4, <2>2 DEF RevokeWorkerBearer, FreeAll
    <3>3. CASE t \in Held({w})
      BY <3>1, <3>2, <3>3, FreedRow DEF Owns, Active
    <3>4. CASE t \notin Held({w})
      BY <3>2, <3>4 DEF Held, Owns
    <3> QED BY <3>3, <3>4
  <2> QED BY <2>1, <2>2
<1>5. CASE OperatorStep
  BY <1>1, <1>4, <1>5
  DEF OperatorStep, PauseWorkers, ResumeWorkers, SkipTask, PatchTask, RecordReview, PatchBudget,
      ArchivePlan, ResetKeepTasks
<1>6. CASE \E t \in Tasks : InsertTask(t)
  BY <1>1, <1>6 DEF InsertTask
<1>7. CASE UNCHANGED queueVars
  BY <1>1, <1>7 DEF queueVars
<1> QED BY <1>2, <1>3, <1>5, <1>6, <1>7, RemoteCalls DEF QueueCall

\* A local worker takes nothing over in the name of a remote one.
LEMMA PeerClaims ==
    ASSUME RemoteTypeOK, NEW u \in Workers \ RemoteWorkers, PeerStep(u),
           NEW w \in RemoteWorkers, NEW t \in Tasks, Owns(w, t)'
    PROVE  Owns(w, t) /\ task'[t].version = task[t].version
PROOF
<1>0. QueueTypeOK /\ task \in [Tasks -> Rows] /\ u # w
  BY DEF RemoteTypeOK, QueueTypeOK
<1>1. CASE RegisterWorker(u)
  BY <1>1 DEF RegisterWorker, Owns
<1>2. ASSUME NEW s \in Tasks, Claim(u, s)
      PROVE  Owns(w, t) /\ task'[t].version = task[t].version
  BY <1>0, <1>2, ClaimOfOne DEF Owns
<1>3. ASSUME NEW s \in Tasks, Owns(u, s), Start(s, task[s].version)
      PROVE  Owns(w, t) /\ task'[t].version = task[t].version
  <2>1. task' = [task EXCEPT ![s] = Moved(task[s], "IN_PROGRESS")] /\ task[s] \in Rows
    BY <1>0, <1>3 DEF Start
  <2>2. "IN_PROGRESS" \in TaskStatus
    BY DEF TaskStatus, Active
  <2>3. CASE s = t
    BY <1>0, <1>3, <2>1, <2>2, <2>3, MovedRow DEF Owns
  <2>4. CASE s # t
    BY <1>0, <2>1, <2>4 DEF Owns
  <2> QED BY <2>3, <2>4
<1>4. ASSUME NEW s \in Tasks,
             \/ \E c \in Costs : Complete(s, task[s].version, c)
             \/ Fail(s, task[s].version) \/ Release(s, task[s].version)
      PROVE  Owns(w, t) /\ task'[t].version = task[t].version
  <2>1. \E call \in Writing : Write(call, s, task[s].version)
    BY <1>4 DEF Write, Writing, Releasing
  <2>2. NoNewClaim(t) /\ w \in Workers
    BY <1>0, <2>1, WriteLetsGo, RemoteAssumption
  <2> QED BY <2>2 DEF NoNewClaim
<1> QED BY <1>1, <1>2, <1>3, <1>4 DEF PeerStep

\* While its loop holds the only handle that fits, a step of w keeps the handle,
\* loses it openly, or ends the claim.
LEMMA OwnStepTracks ==
    ASSUME RemoteTypeOK, OwnersHaveTokens, NEW w \in RemoteWorkers, NEW t \in Tasks, ProcessStep(w),
           Owns(w, t), Owns(w, t)', ~lossy'[w], task'[t].version = task[t].version,
           pc[w] \in Attending, held[w] = [task |-> t, version |-> task[t].version]
    PROVE  pc'[w] \in Attending /\ held'[w] = held[w]
PROOF
<1>0. /\ DOMAIN pc = RemoteWorkers /\ DOMAIN held = RemoteWorkers /\ DOMAIN lossy = RemoteWorkers
      /\ QueueTypeOK /\ worker[w].token
      /\ held[w].task = t /\ held[w].version = task[t].version
  BY DEF RemoteTypeOK, OwnersHaveTokens
<1>1. CASE \/ PauseAfterClaim(w) \/ Prepare(w) \/ RunStopped(w) \/ PauseAfterRun(w) \/ RunEnds(w)
           \/ VerifyEnds(w) \/ RepairChecked(w) \/ RequestRepair(w) \/ CheckReview(w)
  <2>1. held' = held
    BY <1>1
    DEF PauseAfterClaim, Prepare, RunStopped, PauseAfterRun, RunEnds, VerifyEnds, RepairChecked,
        RequestRepair, CheckReview, Goto
  <2>2. pc'[w] \in Attending
    BY <1>0, <1>1
    DEF PauseAfterClaim, Prepare, RunStopped, PauseAfterRun, RunEnds, VerifyEnds, RepairChecked,
        RequestRepair, CheckReview, Goto, Attending, Writing, Releasing
  <2> QED BY <2>1, <2>2
<1>2. CASE Signal(w) \/ Rotate(w) \/ Heartbeat(w)
  BY <1>2 DEF Signal, Rotate, Heartbeat, remoteVars, procVars
<1>3. CASE \/ ExitOnStop(w) \/ PollOpen(w) \/ ClaimTask(w) \/ ClaimNone(w) \/ Leave(w) \/ Boot(w) \/ Restart(w)
  <2>1. pc[w] \in {"poll", "claiming", "leaving", "off"} \cup Ended
    BY <1>3 DEF ExitOnStop, PollOpen, ClaimTask, ClaimNone, Leave, Boot, Restart
  <2> QED BY <2>1 DEF Attending, Writing, Releasing, Ended
<1>4. CASE Crash(w)
  <2>1. lossy'[w]
    BY <1>0, <1>4 DEF Crash
  <2> QED BY <2>1
<1>5. CASE Answered(w)
  <2>1. CASE Write(pc[w], t, task[t].version)
    BY <1>0, <2>1, WriteLetsGo
  <2>2. CASE Conflict(t, task[t].version)
    BY <2>2 DEF Conflict, Matches, Owns
  <2> QED BY <1>0, <1>5, <2>1, <2>2 DEF Answered
<1>6. CASE Denied(w)
  BY <1>0, <1>6 DEF Denied, Authorized
<1>7. CASE Unanswered(w)
  <2>1. lossy' = [lossy EXCEPT ![w] = @ \/ LastAttempt(w) \/ pc[w] = "claiming"]
    BY <1>7 DEF Unanswered
  <2>2. ~LastAttempt(w)
    BY <1>0, <2>1
  <2> QED BY <1>0, <1>7, <2>2 DEF Unanswered
<1> QED BY <1>1, <1>2, <1>3, <1>4, <1>5, <1>6, <1>7 DEF ProcessStep, LoopStep
TracksAll == OwnersHaveTokens /\ LateClaimsLost /\ OrphansOnlyByLoss

LEMMA TracksStep ==
    ASSUME RemoteTypeOK, TracksAll, RemoteNext
    PROVE  TracksAll'
PROOF
<1>0. /\ QueueTypeOK /\ OwnersHaveTokens /\ LateClaimsLost /\ OrphansOnlyByLoss
      /\ DOMAIN pc = RemoteWorkers /\ DOMAIN held = RemoteWorkers /\ DOMAIN lossy = RemoteWorkers
      /\ \A r \in late : r.worker \in RemoteWorkers
  BY DEF RemoteTypeOK, TracksAll, Requests
<1>1. LateClaimsLost'
  <2> SUFFICES ASSUME NEW r \in late', r.call = "claiming" PROVE lossy'[r.worker]
    BY DEF LateClaimsLost
  <2> QED BY <1>0, LossyKept DEF LateClaimsLost
<1>2. ASSUME NEW w \in RemoteWorkers, NEW t \in Tasks, Owns(w, t)'
      PROVE  worker'[w].token /\ Tracked(w, t)'
  <2>0. w \in Workers /\ (lossy[w] => lossy'[w])
    BY RemoteAssumption, LossyKept
  <2>i. \A s \in Tasks : Owns(w, s) => worker[w].token /\ Tracked(w, s)
    BY <1>0 DEF OwnersHaveTokens, OrphansOnlyByLoss, Tracked
  <2>s. ASSUME UNCHANGED <<pc, held>>, Owns(w, t), task'[t].version = task[t].version
        PROVE  worker'[w].token /\ Tracked(w, t)'
    <3>1. worker[w].token
      BY <2>i, <2>s
    <3>2. worker'[w].token
      BY <1>2, <2>0, <3>1, TokenKept
    <3> QED BY <2>0, <2>i, <2>s, <3>2 DEF Tracked
  <2>o. ASSUME NEW u \in RemoteWorkers, ProcessStep(u), u # w, Owns(w, t), task'[t].version = task[t].version
        PROVE  worker'[w].token /\ Tracked(w, t)'
    <3>1. pc'[w] = pc[w] /\ held'[w] = held[w]
      BY <1>0, <2>o
      DEF ProcessStep, LoopStep, ExitOnStop, PollOpen, ClaimTask, ClaimNone, PauseAfterClaim, Prepare,
          RunStopped, PauseAfterRun, RepairChecked, RequestRepair, CheckReview, Answered, Denied,
          Unanswered, Leave, RunEnds, VerifyEnds, Boot, Restart, Signal, Rotate, Crash, Heartbeat,
          Goto, Drop, remoteVars, procVars
    <3>2. worker'[w].token
      BY <1>2, <2>0, <2>i, <2>o, TokenKept
    <3> QED BY <2>0, <2>i, <2>o, <3>1, <3>2 DEF Tracked
  <2>1. CASE \A s \in Tasks : NoNewClaim(s)
    <3>1. Owns(w, t) /\ task'[t].version = task[t].version
      BY <1>2, <2>0, <2>1 DEF NoNewClaim
    <3>2. CASE UNCHANGED remoteVars
      BY <2>s, <3>1, <3>2 DEF remoteVars, procVars
    <3>3. CASE LateArrives
      BY <2>s, <3>1, <3>3 DEF LateArrives, procVars
    <3>4. CASE ProcessStep(w)
      <4>1. worker'[w].token
        BY <1>2, <2>0, <2>i, <3>1, TokenKept
      <4>2. ASSUME ~lossy'[w]
            PROVE  Tracked(w, t)'
        <5>1. pc[w] \in Attending /\ held[w] = [task |-> t, version |-> task[t].version]
          BY <2>0, <2>i, <3>1, <4>2 DEF Tracked
        <5>2. pc'[w] \in Attending /\ held'[w] = held[w]
          BY <1>0, <1>2, <3>1, <3>4, <4>2, <5>1, OwnStepTracks
        <5> QED BY <3>1, <5>1, <5>2 DEF Tracked
      <4>3. lossy'[w] => Tracked(w, t)'
        BY DEF Tracked
      <4> QED BY <4>1, <4>2, <4>3
    <3> QED BY <2>o, <3>1, <3>2, <3>3, <3>4 DEF RemoteNext
  <2>2. ASSUME NEW u \in RemoteWorkers, ClaimTask(u)
        PROVE  worker'[w].token /\ Tracked(w, t)'
    <3>1. PICK s \in Tasks :
              /\ Claim(u, s)
              /\ held' = [held EXCEPT ![u] = [task |-> s, version |-> task[s].version + 1]]
      BY <2>2 DEF ClaimTask
    <3>2. /\ pc[u] = "claiming" /\ pc' = [pc EXCEPT ![u] = "claimed"]
          /\ worker' = worker /\ worker[u].token /\ u \in Workers
      BY <2>2, <3>1, RemoteAssumption DEF ClaimTask, Claim, Authorized
    <3>3. IF t = s THEN task'[t].claimed_by = u /\ task'[t].version = task[t].version + 1
                   ELSE task'[t] = task[t]
      BY <1>0, <3>1, <3>2, ClaimOfOne
    <3>4. CASE t = s
      <4>1. u = w
        BY <1>2, <3>3, <3>4 DEF Owns
      <4>2. held'[w] = [task |-> t, version |-> task'[t].version] /\ pc'[w] = "claimed"
        BY <1>0, <3>1, <3>2, <3>3, <3>4, <4>1
      <4> QED BY <3>2, <4>1, <4>2 DEF Tracked, Attending
    <3>5. CASE t # s
      <4>1. Owns(w, t) /\ task'[t].version = task[t].version
        BY <1>2, <3>3, <3>5 DEF Owns
      <4>2. CASE u = w
        <5>1. lossy[w] \/ pc[w] \in Attending
          BY <2>i, <4>1 DEF Tracked
        <5>2. lossy[w]
          BY <3>2, <4>2, <5>1, HandleTypes
        <5> QED BY <2>0, <3>2, <4>2, <5>2 DEF Tracked
      <4>3. CASE u # w
        BY <2>2, <2>o, <4>1, <4>3 DEF ProcessStep, LoopStep
      <4> QED BY <4>2, <4>3
    <3> QED BY <3>4, <3>5
  <2>3. CASE ClaimedUnseen
    <3>1. PICK u \in RemoteWorkers, s \in Tasks :
            /\ Claim(u, s) /\ worker[u].token
            /\ \/ Unanswered(u) /\ pc[u] = "claiming"
               \/ LateArrives /\ \E r \in late : r.worker = u /\ r.call = "claiming"
      BY <2>3 DEF ClaimedUnseen
    <3>2. lossy'[u]
      <4>1. CASE Unanswered(u) /\ pc[u] = "claiming"
        BY <1>0, <4>1 DEF Unanswered
      <4>2. CASE \E r \in late : r.worker = u /\ r.call = "claiming"
        BY <1>0, <4>2, LossyKept DEF LateClaimsLost
      <4> QED BY <3>1, <4>1, <4>2
    <3>3. worker' = worker /\ u \in Workers
      BY <3>1, RemoteAssumption DEF Claim
    <3>4. IF t = s THEN task'[t].claimed_by = u /\ task'[t].version = task[t].version + 1
                   ELSE task'[t] = task[t]
      BY <1>0, <3>1, <3>3, ClaimOfOne
    <3>5. CASE u = w
      BY <3>1, <3>2, <3>3, <3>5 DEF Tracked
    <3>6. CASE u # w
      <4>1. Owns(w, t) /\ task'[t].version = task[t].version
        BY <1>2, <3>4, <3>6 DEF Owns
      <4>2. CASE Unanswered(u)
        BY <2>o, <3>6, <4>1, <4>2 DEF ProcessStep, LoopStep
      <4>3. CASE LateArrives
        BY <2>s, <4>1, <4>3 DEF LateArrives, procVars
      <4> QED BY <3>1, <4>2, <4>3
    <3> QED BY <3>5, <3>6
  <2>4. ASSUME NEW u \in Workers \ RemoteWorkers, PeerStep(u), UNCHANGED remoteVars
        PROVE  worker'[w].token /\ Tracked(w, t)'
    BY <1>2, <2>4, <2>s, PeerClaims DEF remoteVars, procVars
  <2> QED BY <2>1, <2>2, <2>3, <2>4, ClaimSources
<1>3. OwnersHaveTokens' /\ OrphansOnlyByLoss'
  BY <1>2 DEF OwnersHaveTokens, OrphansOnlyByLoss, Tracked
<1> QED BY <1>1, <1>3 DEF TracksAll

\* A process loses track of a claim only by dying with it, or by a claim or a
\* write that was never answered.
THEOREM OrphansByLossSafe == RemoteSpec => []OrphansOnlyByLoss
PROOF
<1>1. RemoteInit => TracksAll
  BY OtherRows
  DEF RemoteInit, QueueInit, TracksAll, OwnersHaveTokens, LateClaimsLost, OrphansOnlyByLoss, Owns, Active
<1>2. RemoteTypeOK /\ TracksAll /\ [RemoteNext]_vars => TracksAll'
  <2> SUFFICES ASSUME RemoteTypeOK, TracksAll, [RemoteNext]_vars PROVE TracksAll'
    OBVIOUS
  <2>1. CASE RemoteNext
    BY <2>1, TracksStep
  <2>2. CASE UNCHANGED vars
    BY <2>2
    DEF vars, queueVars, remoteVars, procVars, TracksAll, OwnersHaveTokens, LateClaimsLost,
        OrphansOnlyByLoss, Owns
  <2> QED BY <2>1, <2>2
<1>3. TracksAll => OrphansOnlyByLoss
  BY DEF TracksAll
<1> QED BY <1>1, <1>2, <1>3, RemoteTypeSafe, PTL DEF RemoteSpec

-----------------------------------------------------------------------------
(* Human review.                                                           *)

\* The strengthening of RemoteReviewedBeforeDone, for the task and the version of
\* a request to complete: while it fits the row, the approval is still there.
Reviewed(t, v) == t \in ReviewTasks /\ Matches(t, v, Active) => HasApproval(t)

HandlesReviewed == \A w \in RemoteWorkers : pc[w] = "completing" => Reviewed(held[w].task, held[w].version)
LateReviewed == \A r \in late : r.call = "completing" => Reviewed(r.task, r.version)

\* A fenced request keeps its approval, or fits no longer.
LEMMA ReviewedKept ==
    ASSUME RemoteTypeOK, RemoteNext, NEW w, NEW t \in Tasks, NEW v \in Nat, Fenced(w, t, v), Reviewed(t, v)
    PROVE  Reviewed(t, v)'
PROOF
<1> SUFFICES ASSUME t \in ReviewTasks, task'[t].version = v, task'[t].status \in Active
             PROVE  HasApproval(t)'
  BY DEF Reviewed, Matches
<1>1. QueueTypeOK /\ task[t].version \in Nat /\ RowKept(t)
  BY RemoteRowsKept DEF RemoteTypeOK, QueueTypeOK, Rows
<1>2. task[t].version = v /\ task[t].status = task'[t].status
  BY <1>1 DEF RowKept, Fenced
<1>3. HasApproval(t)
  BY <1>2 DEF Reviewed, Matches
<1> QED BY <1>1, <1>3, RemoteStepIsQueueStep, ApprovalKept DEF Taken

\* Only CheckReview brings a loop to complete_task, and only with an approval.
LEMMA CompletingSteps ==
    ASSUME RemoteTypeOK, RemoteNext, NEW w \in RemoteWorkers, pc'[w] = "completing"
    PROVE  /\ pc[w] \in Attending /\ held'[w] = held[w]
           /\ \/ pc[w] = "completing"
              \/ /\ UNCHANGED queueVars
                 /\ held[w].task \in ReviewTasks => HasApproval(held[w].task)
PROOF
<1>0. DOMAIN pc = RemoteWorkers /\ DOMAIN held = RemoteWorkers /\ "completing" \in Attending
  BY DEF RemoteTypeOK, Attending, Writing
<1>1. CASE UNCHANGED <<pc, held>>
  BY <1>0, <1>1
<1>2. ASSUME NEW u \in RemoteWorkers, ProcessStep(u), u # w
      PROVE  pc'[w] = pc[w] /\ held'[w] = held[w]
  BY <1>0, <1>2
  DEF ProcessStep, LoopStep, ExitOnStop, PollOpen, ClaimTask, ClaimNone, PauseAfterClaim, Prepare,
      RunStopped, PauseAfterRun, RepairChecked, RequestRepair, CheckReview, Answered, Denied,
      Unanswered, Leave, RunEnds, VerifyEnds, Boot, Restart, Signal, Rotate, Crash, Heartbeat, Goto, Drop,
      remoteVars, procVars
<1>3. CASE CheckReview(w)
  <2>1. UNCHANGED queueVars /\ held' = held /\ pc[w] \in Attending
    BY <1>3 DEF CheckReview, Goto, Attending
  <2>2. held[w].task \in ReviewTasks => HumanReviewApproved(held[w].task)
    BY <1>0, <1>3 DEF CheckReview, Goto
  <2>3. held[w].task \in ReviewTasks => HasApproval(held[w].task)
    BY <2>2 DEF HumanReviewApproved, HasApproval
  <2> QED BY <2>1, <2>3
<1>4. CASE Signal(w) \/ Rotate(w) \/ Heartbeat(w)
  BY <1>1, <1>4 DEF Signal, Rotate, Heartbeat, remoteVars, procVars
<1>5. CASE Unanswered(w)
  <2>1. CASE LastAttempt(w)
    <3>1. pc'[w] \in {"leaving", "poll", "dead"}
      BY <1>0, <1>5, <2>1, HandleTypes DEF Unanswered
    <3> QED BY <3>1
  <2>2. CASE ~LastAttempt(w)
    BY <1>0, <1>5, <2>2 DEF Unanswered
  <2> QED BY <2>1, <2>2
<1>6. CASE Answered(w) \/ Denied(w)
  <2>1. pc'[w] \in {"leaving", "poll", "dead"}
    BY <1>0, <1>6, HandleTypes DEF Answered, Denied, Drop
  <2> QED BY <2>1
<1>7. CASE \/ ExitOnStop(w) \/ PollOpen(w) \/ ClaimTask(w) \/ ClaimNone(w) \/ PauseAfterClaim(w)
           \/ Prepare(w) \/ RunStopped(w) \/ PauseAfterRun(w) \/ RepairChecked(w) \/ RequestRepair(w)
           \/ Leave(w) \/ RunEnds(w) \/ VerifyEnds(w) \/ Boot(w) \/ Restart(w) \/ Crash(w)
  <2>1. pc'[w] # "completing"
    BY <1>0, <1>7
    DEF ExitOnStop, PollOpen, ClaimTask, ClaimNone, PauseAfterClaim, Prepare, RunStopped,
        PauseAfterRun, RepairChecked, RequestRepair, Leave, RunEnds, VerifyEnds, Boot, Restart,
        Crash, Goto
  <2> QED BY <2>1
<1>8. CASE ProcessStep(w)
  BY <1>3, <1>4, <1>5, <1>6, <1>7, <1>8 DEF ProcessStep, LoopStep
<1>9. CASE LateArrives \/ UNCHANGED remoteVars
  BY <1>1, <1>9 DEF LateArrives, remoteVars, procVars
<1>10. (\E u \in RemoteWorkers : ProcessStep(u)) \/ LateArrives \/ UNCHANGED remoteVars
  BY DEF RemoteNext
<1>11. CASE \E u \in RemoteWorkers : u # w /\ ProcessStep(u)
  <2>1. pc'[w] = pc[w] /\ held'[w] = held[w]
    BY <1>2, <1>11
  <2> QED BY <1>0, <2>1
<1> QED BY <1>8, <1>9, <1>10, <1>11

LEMMA RequestsReviewedStep ==
    ASSUME RemoteTypeOK, RemoteTypeOK', HandlesFenced, LateFenced, HandlesReviewed, LateReviewed, RemoteNext
    PROVE  HandlesReviewed' /\ LateReviewed'
PROOF
<1>1. ASSUME NEW w, NEW t \in Tasks, NEW v \in Nat, Fenced(w, t, v), Reviewed(t, v)
      PROVE  t \in ReviewTasks /\ task'[t].version = v /\ task'[t].status \in Active =>
                \E i \in DOMAIN review'[t] : review'[t][i].type = "approved"
  BY <1>1, ReviewedKept DEF Reviewed, Matches, HasApproval
<1>2. ASSUME NEW w \in RemoteWorkers, pc'[w] = "completing"
      PROVE  Reviewed(held[w].task, held[w].version)'
  <2>1. /\ pc[w] \in Attending /\ held'[w] = held[w]
        /\ \/ pc[w] = "completing"
           \/ UNCHANGED queueVars /\ (held[w].task \in ReviewTasks => HasApproval(held[w].task))
    BY <1>2, CompletingSteps
  <2>2. /\ held[w].task \in Tasks /\ held[w].version \in Nat
        /\ Fenced(w, held[w].task, held[w].version)
    BY <2>1 DEF RemoteTypeOK, HandlesFenced
  <2>3. Reviewed(held[w].task, held[w].version)
    BY <2>1 DEF HandlesReviewed, Reviewed
  <2> QED BY <1>1, <2>1, <2>2, <2>3 DEF Reviewed, Matches, HasApproval
<1>3. ASSUME NEW r \in late', r.call = "completing"
      PROVE  Reviewed(r.task, r.version)'
  <2>0. /\ r.call \in Writing /\ r.task \in Tasks /\ r.version \in Nat
    BY <1>3 DEF RemoteTypeOK, Requests, Writing
  <2>1. CASE r \in late
    <3>1. Fenced(r.worker, r.task, r.version) /\ Reviewed(r.task, r.version)
      BY <1>3, <2>0, <2>1 DEF LateFenced, LateReviewed
    <3> QED BY <2>0, <3>1, ReviewedKept
  <2>2. CASE r \notin late
    <3>1. PICK w \in RemoteWorkers :
              /\ pc[w] \in Attending /\ r.call = pc[w] /\ UNCHANGED queueVars
              /\ r.worker = w /\ r.task = held[w].task /\ r.version = held[w].version
      BY <2>0, <2>2, LateSteps
    <3>2. Fenced(r.worker, r.task, r.version) /\ Reviewed(r.task, r.version)
      BY <1>3, <3>1 DEF HandlesFenced, HandlesReviewed
    <3> QED BY <2>0, <3>2, ReviewedKept
  <2> QED BY <2>1, <2>2
<1> QED BY <1>2, <1>3 DEF HandlesReviewed, LateReviewed, Reviewed, Matches, HasApproval

\* A task that was done and still is keeps the name of the worker that did it.
LEMMA DoneKeepsName ==
    ASSUME QueueTypeOK, NEW t \in Tasks, RowStep(t), task[t].status = "DONE", task'[t].status = "DONE"
    PROVE  task'[t].claimed_by = task[t].claimed_by
PROOF
<1>0. task[t] \in Rows /\ "PENDING" \in TaskStatus /\ "SKIPPED" \in TaskStatus
  BY DEF QueueTypeOK, TaskStatus
<1>1. ~RowFreed(t) /\ ~RowSkipped(t)
  BY <1>0, FreedRow DEF RowFreed, RowSkipped
<1>2. ~RowClaimed(t) /\ ~RowStarted(t) /\ ~RowEnded(t)
  BY DEF RowClaimed, RowStarted, RowEnded, Active
<1>3. ~RowCreated(t) /\ ~RowRemoved(t)
  BY OtherRows DEF RowCreated, RowRemoved
<1>4. CASE task'[t] = task[t] \/ RowEdited(t) \/ RowAged(t)
  BY <1>0, <1>4 DEF RowEdited, RowAged, Rows
<1> QED BY <1>1, <1>2, <1>3, <1>4 DEF RowStep, RowChange, RowQuiet

\* A write of the server that completes t finds the approval, and leaves it.
Approving(t) == HasApproval(t) /\ review' = review

LEMMA WriteDone ==
    ASSUME QueueTypeOK, NEW t \in ReviewTasks, NEW call, NEW u \in Tasks, NEW v \in Nat,
           Write(call, u, v), call = "completing" => Reviewed(u, v)
    PROVE  NotDone(t) \/ Approving(t)
PROOF
<1>0. t \in Tasks
  BY ReviewAssumption
<1>1. ASSUME NEW c \in Costs, call = "completing", Complete(u, v, c)
      PROVE  NotDone(t) \/ Approving(t)
  <2>1. (t = u => Matches(t, v, Active)) /\ (t # u => NotDone(t)) /\ review' = review
    BY <1>0, <1>1, OneCompletes
  <2> QED BY <1>1, <2>1 DEF Reviewed, Approving
<1>2. CASE Fail(u, v) \/ Release(u, v) \/ ReleaseForReview(u, v)
  BY <1>0, <1>2, OthersComplete
<1> QED BY <1>1, <1>2 DEF Write

LEMMA ServedDone ==
    ASSUME QueueTypeOK, NEW t \in ReviewTasks, NEW r \in Requests, r.call \in Writing => r.task \in Tasks,
           Served(r), r.call = "completing" => Reviewed(r.task, r.version)
    PROVE  NotDone(t) \/ Approving(t)
PROOF
<1>0. t \in Tasks /\ r.worker \in Workers /\ r.version \in Nat
  BY ReviewAssumption, RemoteAssumption DEF Requests
<1>1. CASE \E u \in Tasks : Claim(r.worker, u)
  BY <1>0, <1>1, OthersComplete
<1>2. CASE r.call \in Writing /\ Write(r.call, r.task, r.version)
  BY <1>0, <1>2, WriteDone
<1>3. CASE UNCHANGED task
  BY <1>0, <1>3, OthersComplete
<1> QED BY <1>1, <1>2, <1>3 DEF Served, queueVars

\* A local worker completes what it owns, in its own name.
LEMMA PeerDone ==
    ASSUME QueueTypeOK, NEW t \in Tasks, NEW w \in Workers \ RemoteWorkers, PeerStep(w)
    PROVE  NotDone(t) \/ task'[t].claimed_by = w
PROOF
<1>0. \A u \in Tasks : task[u].version \in Nat
  BY DEF QueueTypeOK, Rows
<1>1. ASSUME NEW u \in Tasks, Owns(w, u), NEW c \in Costs, Complete(u, task[u].version, c)
      PROVE  NotDone(t) \/ task'[t].claimed_by = w
  <2>1. (t # u => NotDone(t)) /\ task'[u].claimed_by = task[u].claimed_by
    BY <1>1, OneCompletes
  <2> QED BY <1>1, <2>1 DEF Owns
<1>2. CASE RegisterWorker(w)
  <2>1. UNCHANGED task
    BY <1>2 DEF RegisterWorker
  <2> QED BY <2>1, OthersComplete
<1>3. CASE \E u \in Tasks : Claim(w, u)
  BY <1>3, OthersComplete
<1>4. CASE \E u \in Tasks :
              \/ Start(u, task[u].version) \/ Fail(u, task[u].version) \/ Release(u, task[u].version)
  BY <1>0, <1>4, OthersComplete
<1> QED BY <1>1, <1>2, <1>3, <1>4 DEF PeerStep

\* Who completes a task with a checkpoint: a remote worker whose request finds
\* the approval, or a local worker.
LEMMA RemoteDoneSteps ==
    ASSUME RemoteTypeOK, HandlesReviewed, LateReviewed, RemoteNext, NEW t \in ReviewTasks
    PROVE  NotDone(t) \/ Approving(t) \/ task'[t].claimed_by \notin RemoteWorkers
PROOF
<1>0. /\ QueueTypeOK /\ t \in Tasks
      /\ \A w \in RemoteWorkers : held[w].version \in Nat /\ (pc[w] \in Attending => held[w].task \in Tasks)
  BY ReviewAssumption DEF RemoteTypeOK
<1>1. CASE SweepStep \/ TimeStep \/ OperatorStep
  BY <1>0, <1>1, OthersComplete
<1>2. CASE UNCHANGED task
  BY <1>0, <1>2, OthersComplete
<1>3. CASE \E w \in Workers \ RemoteWorkers : PeerStep(w)
  BY <1>0, <1>3, PeerDone
<1>4. CASE LateArrives
  <2>1. PICK r \in late : Served(r)
    BY <1>4 DEF LateArrives
  <2>2. r \in Requests /\ (r.call \in Writing => r.task \in Tasks)
    BY DEF RemoteTypeOK
  <2>3. r.call = "completing" => Reviewed(r.task, r.version)
    BY DEF LateReviewed
  <2> QED BY <1>0, <2>1, <2>2, <2>3, ServedDone
<1>5. ASSUME NEW w \in RemoteWorkers, Unanswered(w)
      PROVE  NotDone(t) \/ Approving(t)
  <2>1. CASE UNCHANGED queueVars
    BY <1>0, <2>1, OthersComplete DEF queueVars
  <2>2. CASE Served(Request(w))
    <3>1. pc[w] \in Calling
      BY <1>5 DEF Unanswered
    <3>2. /\ Request(w) \in Requests /\ Request(w).call = pc[w]
          /\ Request(w).call \in Writing => Request(w).task \in Tasks
          /\ pc[w] \in Writing => Request(w).task = held[w].task /\ Request(w).version = held[w].version
      BY <3>1, RequestType
    <3>3. Request(w).call = "completing" => Reviewed(Request(w).task, Request(w).version)
      BY <3>2 DEF HandlesReviewed, Writing
    <3> QED BY <1>0, <2>2, <3>2, <3>3, ServedDone
  <2> QED BY <1>5, <2>1, <2>2 DEF Unanswered
<1>6. ASSUME NEW w \in RemoteWorkers, Answered(w)
      PROVE  NotDone(t) \/ Approving(t)
  <2>1. held[w].task \in Tasks /\ held[w].version \in Nat
    BY <1>0, <1>6, HandleTypes DEF Answered
  <2>2. pc[w] = "completing" => Reviewed(held[w].task, held[w].version)
    BY DEF HandlesReviewed
  <2>3. CASE Write(pc[w], held[w].task, held[w].version)
    BY <1>0, <2>1, <2>2, <2>3, WriteDone
  <2>4. CASE UNCHANGED queueVars
    BY <1>0, <2>4, OthersComplete DEF queueVars
  <2> QED BY <1>6, <2>3, <2>4 DEF Answered, Conflict
<1>7. ASSUME NEW w \in RemoteWorkers, RequestRepair(w) \/ ClaimTask(w)
      PROVE  NotDone(t)
  <2>1. w \in Workers
    BY RemoteAssumption
  <2> QED BY <1>0, <1>2, <1>7, <2>1, OthersComplete DEF RequestRepair, ClaimTask, queueVars
<1>8. ASSUME NEW w \in RemoteWorkers,
             \/ ExitOnStop(w) \/ PollOpen(w) \/ ClaimNone(w) \/ PauseAfterClaim(w) \/ Prepare(w)
             \/ RunStopped(w) \/ PauseAfterRun(w) \/ RepairChecked(w) \/ CheckReview(w) \/ Denied(w)
             \/ Leave(w) \/ RunEnds(w) \/ VerifyEnds(w) \/ Boot(w) \/ Restart(w) \/ Signal(w)
             \/ Rotate(w) \/ Crash(w) \/ Heartbeat(w)
      PROVE  UNCHANGED task
  BY <1>8
  DEF ExitOnStop, PollOpen, ClaimNone, PauseAfterClaim, Prepare, RunStopped, PauseAfterRun,
      RepairChecked, CheckReview, Denied, Leave, RunEnds, VerifyEnds, Boot, Restart, Signal, Rotate,
      Crash, Heartbeat, RecordReview, RegisterWorker, UpdateHeartbeat, queueVars
<1> QED
  BY <1>1, <1>2, <1>3, <1>4, <1>5, <1>6, <1>7, <1>8 DEF RemoteNext, ProcessStep, LoopStep

LEMMA RemoteReviewedStep ==
    ASSUME RemoteTypeOK, HandlesReviewed, LateReviewed, RemoteReviewedBeforeDone, RemoteNext
    PROVE  RemoteReviewedBeforeDone'
PROOF
<1> SUFFICES ASSUME NEW t \in ReviewTasks, task'[t].status = "DONE", task'[t].claimed_by \in RemoteWorkers
             PROVE  HasApproval(t)'
  BY DEF RemoteReviewedBeforeDone, HasApproval
<1>0. t \in Tasks /\ QueueTypeOK /\ [QueueNext]_queueVars
  BY ReviewAssumption, RemoteStepIsQueueStep DEF RemoteTypeOK
<1>1. CASE task[t].status = "DONE"
  <2>1. CASE UNCHANGED task
    BY <1>0, <1>1, <2>1, ApprovalKept DEF RemoteReviewedBeforeDone, HasApproval, Taken
  <2>2. CASE QueueNext
    <3>1. RowStep(t)
      BY <1>0, <2>2, QueueStepRows
    <3>2. task[t].claimed_by \in RemoteWorkers
      BY <1>0, <1>1, <3>1, DoneKeepsName
    <3>3. HasApproval(t)
      BY <1>1, <3>2 DEF RemoteReviewedBeforeDone, HasApproval
    <3> QED BY <1>0, <3>3, ApprovalKept DEF Taken
  <2> QED BY <1>0, <2>1, <2>2 DEF queueVars
<1>2. CASE Approving(t)
  BY <1>2 DEF Approving, HasApproval
<1> QED BY <1>1, <1>2, RemoteDoneSteps DEF NotDone

LEMMA ReviewsHold ==
    RemoteSpec => [](HandlesReviewed /\ LateReviewed /\ RemoteReviewedBeforeDone)
PROOF
<1>1. RemoteInit => HandlesReviewed /\ LateReviewed /\ RemoteReviewedBeforeDone
  <2> SUFFICES ASSUME RemoteInit PROVE HandlesReviewed /\ LateReviewed /\ RemoteReviewedBeforeDone
    OBVIOUS
  <2>1. (\A w \in RemoteWorkers : pc[w] = "off") /\ late = {}
    BY DEF RemoteInit
  <2>2. \A t \in Tasks : task[t].status # "DONE"
    BY OtherRows DEF RemoteInit, QueueInit
  <2> QED BY <2>1, <2>2, ReviewAssumption DEF HandlesReviewed, LateReviewed, RemoteReviewedBeforeDone
<1>2. ASSUME RemoteTypeOK, RemoteTypeOK', HandlesFenced, LateFenced,
             HandlesReviewed, LateReviewed, RemoteReviewedBeforeDone, [RemoteNext]_vars
      PROVE  HandlesReviewed' /\ LateReviewed' /\ RemoteReviewedBeforeDone'
  <2>1. CASE RemoteNext
    BY <1>2, <2>1, RequestsReviewedStep, RemoteReviewedStep
  <2>2. CASE UNCHANGED vars
    BY <1>2, <2>2
    DEF vars, queueVars, remoteVars, procVars, HandlesReviewed, LateReviewed, Reviewed, Matches,
        HasApproval, RemoteReviewedBeforeDone
  <2> QED BY <1>2, <2>1, <2>2
<1> QED BY <1>1, <1>2, FencesHold, PTL DEF RemoteSpec

\* A task with a review checkpoint that a remote worker completed was approved,
\* whatever requests were lost, repeated or delayed: a request to complete that
\* still fits the row was made after the loop read the approval, and a row keeps
\* its approval for as long as the version of that request fits.
THEOREM RemoteReviewSafe == RemoteSpec => []RemoteReviewedBeforeDone
BY ReviewsHold, PTL

\* Where every worker is a remote one, that is ReviewedBeforeDone: a done row
\* keeps the name of a worker.
THEOREM AllRemoteReviewSafe ==
    ASSUME RemoteWorkers = Workers
    PROVE  RemoteSpec => []ReviewedBeforeDone
PROOF
<1>1. OwnedIffClaimed /\ RemoteTypeOK /\ RemoteReviewedBeforeDone => ReviewedBeforeDone
  <2> SUFFICES ASSUME OwnedIffClaimed, RemoteTypeOK, RemoteReviewedBeforeDone, NEW t \in ReviewTasks,
                      task[t].status = "DONE"
               PROVE  \E i \in DOMAIN review[t] : review[t][i].type = "approved"
    BY DEF ReviewedBeforeDone
  <2>1. t \in Tasks
    BY ReviewAssumption
  <2>2. task[t].claimed_by \in RemoteWorkers
    BY <2>1 DEF OwnedIffClaimed, RemoteTypeOK, QueueTypeOK, Rows
  <2> QED BY <2>2 DEF RemoteReviewedBeforeDone
<1> QED BY <1>1, RemoteQueueSafe, RemoteTypeSafe, RemoteReviewSafe, PTL
=============================================================================
