---------------------------- MODULE LocalWorker ----------------------------
(***************************************************************************)
(* `whilly run`: processes that each run run_local_worker                  *)
(* (whilly/worker/local.py) beside a heartbeat task and signal handlers    *)
(* (whilly/worker/main.py), against the queue of TaskQueue.                *)
(*                                                                         *)
(* pc[w] is where the loop awaits: each step is one repository call, or    *)
(* the end of an agent run or of a verification.  Everything may happen    *)
(* between two steps: the other workers, the sweeps, the operator.  The    *)
(* handle held[w] is the task and the version the loop carries from one    *)
(* call to the next; every write of the loop presents it.                  *)
(*                                                                         *)
(* An exception other than VersionConflictError leaves run_local_worker    *)
(* and ends the process, like SIGKILL does: Crash.                         *)
(***************************************************************************)
EXTENDS HumanReview

CONSTANTS NoTask,       \* no task
          NextRepair,   \* NextRepair[t]: the repair task of t, NoTask if none is left
          StableIds     \* WHILLY_WORKER_ID is set: a new process reuses the id

ASSUME WorkerAssumption ==
    /\ NoTask \notin Tasks
    /\ NextRepair \in [Tasks -> Tasks \cup {NoTask}]
    /\ StableIds \in BOOLEAN

VARIABLES pc,     \* pc[w]: where the loop of w is
          held,   \* held[w]: the Task object the loop holds
          stop    \* stop[w]: the shutdown event of the process

localVars == <<pc, held, stop>>
vars == <<queueVars, localVars>>

Idle == {"poll", "claiming"}
Writing == {"starting", "started", "preparing", "running", "ran_ok", "ran_bad", "verifying",
            "repairing", "reviewing", "completing", "failing", "holding", "pausing", "stopping"}
Ended == {"exited", "dead"}
Live == Idle \cup Writing

NoHandle == [task |-> NoTask, version |-> 0]

LocalTypeOK ==
    /\ QueueTypeOK
    /\ pc \in [Workers -> {"off"} \cup Live \cup Ended]
    /\ held \in [Workers -> [task : Tasks \cup {NoTask}, version : Nat]]
    /\ \A w \in Workers : pc[w] \in Writing => held[w].task \in Tasks
    /\ stop \in [Workers -> BOOLEAN]

LocalInit ==
    /\ QueueInit
    /\ pc = [w \in Workers |-> "off"]
    /\ held = [w \in Workers |-> NoHandle]
    /\ stop = [w \in Workers |-> FALSE]

-----------------------------------------------------------------------------
(* How the loop moves.                                                     *)

Goto(w, to) == pc' = [pc EXCEPT ![w] = to] /\ UNCHANGED <<held, stop>>

\* The task is no longer this worker's business: next iteration, or exit.
Drop(w, to) ==
    /\ pc' = [pc EXCEPT ![w] = to]
    /\ held' = [held EXCEPT ![w] = NoHandle]
    /\ UNCHANGED stop

\* repo.<write>(held.task, held.version): the row matches and the write is
\* done, or VersionConflictError is logged and the row left alone.
Lost(w, from) ==
    ~Matches(held[w].task, held[w].version, from) /\ UNCHANGED queueVars

-----------------------------------------------------------------------------
(* The process.                                                            *)

\* The worker row is upserted, then the loop starts.
Boot(w) ==
    /\ pc[w] = "off" \/ (StableIds /\ pc[w] \in Ended)
    /\ RegisterWorker(w) \/ ReregisterWorker(w)
    /\ pc' = [pc EXCEPT ![w] = "poll"]
    /\ stop' = [stop EXCEPT ![w] = FALSE]
    /\ UNCHANGED held

\* SIGTERM or SIGINT.
Signal(w) ==
    /\ pc[w] \in Live /\ ~stop[w]
    /\ stop' = [stop EXCEPT ![w] = TRUE]
    /\ UNCHANGED <<queueVars, pc, held>>

Crash(w) ==
    /\ pc[w] \in Live
    /\ Drop(w, "dead")
    /\ UNCHANGED queueVars

\* One tick of run_heartbeat_loop, which ends when stop is set.
Heartbeat(w) ==
    /\ pc[w] \in Live /\ ~stop[w]
    /\ UpdateHeartbeat(w)
    /\ UNCHANGED localVars

-----------------------------------------------------------------------------
(* One iteration of run_local_worker.                                      *)

ExitOnStop(w) ==
    /\ pc[w] = "poll" /\ stop[w]
    /\ Drop(w, "exited")
    /\ UNCHANGED queueVars

\* While the pause flag is up, the loop sleeps and polls again.
PollOpen(w) ==
    /\ pc[w] = "poll" /\ ~stop[w] /\ ~paused
    /\ Goto(w, "claiming")
    /\ UNCHANGED queueVars

ClaimTask(w) ==
    /\ pc[w] = "claiming"
    /\ \E t \in Tasks :
        /\ Claim(w, t)
        /\ held' = [held EXCEPT ![w] = [task |-> t, version |-> task[t].version + 1]]
    /\ pc' = [pc EXCEPT ![w] = "starting"]
    /\ UNCHANGED stop

\* Nothing is claimable, or others have the claimable rows locked.
ClaimNone(w) ==
    /\ pc[w] = "claiming"
    /\ Goto(w, "poll")
    /\ UNCHANGED queueVars

StartTask(w) ==
    /\ pc[w] = "starting"
    /\ \/ /\ Start(held[w].task, held[w].version)
          /\ pc' = [pc EXCEPT ![w] = "started"]
          /\ held' = [held EXCEPT ![w].version = @ + 1]
          /\ UNCHANGED stop
       \/ Lost(w, {"CLAIMED"}) /\ Drop(w, "poll")

PauseAfterStart(w) ==
    /\ pc[w] = "started"
    /\ Goto(w, IF paused THEN "pausing" ELSE "preparing")
    /\ UNCHANGED queueVars

\* human_review.required is recorded if it can be, and the prompt, secret
\* and shell guards let the task run or fail it.
Prepare(w) ==
    /\ pc[w] = "preparing"
    /\ \/ held[w].task \in ReviewTasks /\ RecordReview(held[w].task, "required", StageOf[held[w].task])
       \/ UNCHANGED queueVars
    /\ \E to \in {"running", "failing"} : Goto(w, to)

\* The agent ends; if stop is set as well, stop wins.
RunEnds(w) ==
    /\ pc[w] = "running" /\ ~stop[w]
    /\ \E to \in {"ran_ok", "ran_bad"} : Goto(w, to)
    /\ UNCHANGED queueVars

\* Fault: shutdown is not raced against the verification.
RunStoppedRunnerOnly(w) ==
    /\ pc[w] = "running" /\ stop[w]
    /\ Goto(w, "stopping")
    /\ UNCHANGED queueVars

\* Fault: shutdown leaves the loop without releasing the task.
RunStoppedKeepingClaim(w) ==
    /\ pc[w] \in {"running", "verifying"} /\ stop[w]
    /\ Drop(w, "exited")
    /\ UNCHANGED queueVars

RunStopped(w) ==
    /\ pc[w] \in {"running", "verifying"} /\ stop[w]
    /\ Goto(w, "stopping")
    /\ UNCHANGED queueVars

\* A worker without a verification runner goes straight to the review.
PauseAfterRun(w) ==
    /\ pc[w] \in {"ran_ok", "ran_bad"}
    /\ \/ paused /\ Goto(w, "pausing")
       \/ ~paused /\ pc[w] = "ran_bad" /\ Goto(w, "failing")
       \/ ~paused /\ pc[w] = "ran_ok" /\ \E to \in {"verifying", "reviewing"} : Goto(w, to)
    /\ UNCHANGED queueVars

\* All required checks pass; one fails; or the verification raises.
VerifyEnds(w) ==
    /\ pc[w] = "verifying" /\ ~stop[w]
    /\ \E to \in {"reviewing", "repairing", "failing"} : Goto(w, to)
    /\ UNCHANGED queueVars

\* A failure to insert the repair task is logged and forgotten.
RequestRepair(w) ==
    /\ pc[w] = "repairing"
    /\ \/ /\ NextRepair[held[w].task] # NoTask
          /\ task[held[w].task].status # "ABSENT"
          /\ InsertTask(NextRepair[held[w].task])
       \/ UNCHANGED queueVars
    /\ Goto(w, "failing")

CheckReview(w) ==
    /\ pc[w] = "reviewing"
    /\ LET t == held[w].task IN
        Goto(w, IF t \in ReviewTasks /\ ~HumanReviewApproved(t) THEN "holding" ELSE "completing")
    /\ UNCHANGED queueVars

\* The writes that end the iteration.
CompleteTask(w) ==
    /\ pc[w] = "completing"
    /\ (\E c \in Costs : Complete(held[w].task, held[w].version, c)) \/ Lost(w, Active)
    /\ Drop(w, "poll")

FailTask(w) ==
    /\ pc[w] = "failing"
    /\ Fail(held[w].task, held[w].version) \/ Lost(w, Active)
    /\ Drop(w, "poll")

HoldForReview(w) ==
    /\ pc[w] = "holding"
    /\ ReleaseForReview(held[w].task, held[w].version) \/ Lost(w, Active)
    /\ Drop(w, "poll")

ReleaseOnPause(w) ==
    /\ pc[w] = "pausing"
    /\ Release(held[w].task, held[w].version) \/ Lost(w, Active)
    /\ Drop(w, "poll")

ReleaseOnStop(w) ==
    /\ pc[w] = "stopping"
    /\ Release(held[w].task, held[w].version) \/ Lost(w, Active)
    /\ Drop(w, "exited")

-----------------------------------------------------------------------------

\* The steps of the loop that nobody else has to make happen.
LoopStep(w) ==
    \/ ExitOnStop(w) \/ PollOpen(w) \/ ClaimTask(w) \/ ClaimNone(w) \/ StartTask(w)
    \/ PauseAfterStart(w) \/ Prepare(w) \/ RunStopped(w) \/ PauseAfterRun(w)
    \/ RequestRepair(w) \/ CheckReview(w) \/ CompleteTask(w) \/ FailTask(w)
    \/ HoldForReview(w) \/ ReleaseOnPause(w) \/ ReleaseOnStop(w)

ProcessStep(w) ==
    LoopStep(w) \/ RunEnds(w) \/ VerifyEnds(w) \/ Boot(w) \/ Signal(w) \/ Crash(w) \/ Heartbeat(w)

Background == SweepStep \/ TimeStep

LocalNext ==
    \/ \E w \in Workers : ProcessStep(w)
    \/ Background /\ UNCHANGED localVars
    \/ OperatorStep /\ UNCHANGED localVars

LocalSpec == LocalInit /\ [][LocalNext]_vars

-----------------------------------------------------------------------------
(* What the liveness properties rest on.                                   *)

\* The server's sweep loop ticks for ever and time passes.  A tick may fail,
\* but not every tick.
SweepFairness ==
    /\ \A t \in Tasks : WF_vars(ClaimAges(t) /\ UNCHANGED localVars)
    /\ WF_vars(ReleaseStaleSnapshot /\ UNCHANGED localVars)
    /\ SF_vars(ReleaseStaleApply /\ UNCHANGED localVars)

\* The event loop of every process runs the coroutines that are ready; that an
\* agent or a verification ever ends is not assumed.
LoopFairness == \A w \in Workers : WF_vars(LoopStep(w))
-----------------------------------------------------------------------------

\* A write of a worker whose claim was taken away never lands on the claim of
\* another: if the version it presents still fits a row in flight, the row is
\* its own.
FencedWrites ==
    \A w \in Workers : pc[w] \in Writing =>
        LET t == held[w].task IN
        Matches(t, held[w].version, Active) => Owns(w, t)

\* Claims are orphaned by crashes only: whatever a running worker owns is the
\* task it is working on, at the version it will present, so that it can still
\* complete, fail or release it.  In particular a worker that leaves through
\* the shutdown path leaves nothing behind.  (With StableIds the row of a dead
\* process is owned by the new one, which knows nothing of it.)
OrphansOnlyByCrash ==
    ~StableIds => \A w \in Workers, t \in Tasks : Owns(w, t) =>
        \/ pc[w] = "dead"
        \/ /\ pc[w] \in Writing
           /\ held[w] = [task |-> t, version |-> task[t].version]

\* A claim never stays for ever on a worker that died: if the sweep keeps
\* running, whatever the workers do, every row in flight leaves that state.
ClaimsRecovered ==
    SweepFairness =>
        \A t \in Tasks : task[t].status \in Active ~> task[t].status \notin Active

\* After SIGTERM the process ends, whatever it was doing, paused or not, even
\* if the agent never returns and no sweep runs.
ShutdownTerminates ==
    LoopFairness => \A w \in Workers : stop[w] ~> pc[w] \in Ended
=============================================================================
