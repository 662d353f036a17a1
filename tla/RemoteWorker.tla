---------------------------- MODULE RemoteWorker ----------------------------
(***************************************************************************)
(* `whilly worker`: processes that each run run_remote_worker              *)
(* (whilly/worker/remote.py) beside a heartbeat task, signal handlers and  *)
(* a watcher of the control plane's URL, and reach the queue through HTTP  *)
(* requests.                                                               *)
(*                                                                         *)
(* RemoteWorkerClient._request repeats a request whose answer is a         *)
(* transport error or a 5xx, POST or not, up to Retries times.  The server *)
(* may have run it (the answer was lost), may never run it, or may run it  *)
(* later: `late` holds the requests that nobody waits for any more.  The   *)
(* loop never calls start_task: it completes, fails and releases CLAIMED   *)
(* rows.  The other workers are `whilly run` processes, which write only   *)
(* to rows they own (FencedWrites of LocalWorker).                         *)
(*                                                                         *)
(* Any exception the loop does not catch ends the process: Crash for those *)
(* of the reads, and of SIGKILL, Unanswered for those of the writes.       *)
(***************************************************************************)
EXTENDS HumanReview

CONSTANTS RemoteWorkers,  \* the ids of `whilly worker` processes
          NoTask,         \* no task
          NextRepair,     \* NextRepair[t]: the repair task of t, NoTask if none is left
          Once,           \* --once: max_processed = 1
          Rotates,        \* the control plane's URL is discovered and may change
          Retries,        \* length of the backoff schedule
          MaxLate         \* bound: requests in `late`

ASSUME RemoteAssumption ==
    /\ RemoteWorkers \subseteq Workers
    /\ NoTask \notin Tasks
    /\ NextRepair \in [Tasks -> Tasks \cup {NoTask}]
    /\ Once \in BOOLEAN /\ Rotates \in BOOLEAN
    /\ Retries \in Nat /\ MaxLate \in Nat

VARIABLES pc,       \* pc[w]: where the loop of w is
          held,     \* held[w]: the Task object the loop holds
          stop,     \* stop[w]: inner_stop of the session
          rotated,  \* rotated[w]: rotated_url is not empty
          tries,    \* tries[w]: attempts of the current request that failed
          late,     \* requests the server may still run
          term,     \* history: the process got SIGTERM or SIGINT
          lossy     \* history: w crashed with a task, or was left without an answer to
                    \* a claim or to the last attempt of a write

procVars == <<pc, held, stop, rotated, tries>>
remoteVars == <<procVars, late, term, lossy>>
vars == <<queueVars, remoteVars>>

Releasing == {"pausing", "stopping"}
Writing == {"completing", "failing", "blocking", "holding"} \cup Releasing
Calling == {"claiming"} \cup Writing
Attending == {"claimed", "preparing", "running", "ran_ok", "ran_bad", "verifying",
              "repairing", "inserting", "reviewing"} \cup Writing
Live == {"poll", "claiming", "leaving"} \cup Attending
Ended == {"exited", "dead"}

NoHandle == [task |-> NoTask, version |-> 0]
Requests == [worker : RemoteWorkers, call : Calling, task : Tasks \cup {NoTask}, version : Nat]

RemoteTypeOK ==
    /\ QueueTypeOK
    /\ pc \in [RemoteWorkers -> {"off"} \cup Live \cup Ended]
    /\ held \in [RemoteWorkers -> [task : Tasks \cup {NoTask}, version : Nat]]
    /\ \A w \in RemoteWorkers : pc[w] \in Attending => held[w].task \in Tasks
    /\ stop \in [RemoteWorkers -> BOOLEAN] /\ rotated \in [RemoteWorkers -> BOOLEAN]
    /\ tries \in [RemoteWorkers -> 0..Retries]
    /\ late \subseteq Requests
    /\ \A r \in late : r.call \in Writing => r.task \in Tasks
    /\ term \in [RemoteWorkers -> BOOLEAN] /\ lossy \in [RemoteWorkers -> BOOLEAN]

RemoteInit ==
    /\ QueueInit
    /\ pc = [w \in RemoteWorkers |-> "off"]
    /\ held = [w \in RemoteWorkers |-> NoHandle]
    /\ stop = [w \in RemoteWorkers |-> FALSE]
    /\ rotated = [w \in RemoteWorkers |-> FALSE]
    /\ tries = [w \in RemoteWorkers |-> 0]
    /\ late = {}
    /\ term = [w \in RemoteWorkers |-> FALSE]
    /\ lossy = [w \in RemoteWorkers |-> FALSE]

-----------------------------------------------------------------------------
(* The server's handlers.                                                  *)

Authorized(w) == worker[w].token

\* The routes complete, fail and release: the repository's write, if the
\* version still fits.
Write(call, t, v) ==
    \/ call = "completing" /\ \E c \in Costs : Complete(t, v, c)
    \/ call \in {"failing", "blocking"} /\ Fail(t, v)
    \/ call = "holding" /\ ReleaseForReview(t, v)
    \/ call \in Releasing /\ Release(t, v)

\* 409: VersionConflictError, nothing is written.
Conflict(t, v) == ~Matches(t, v, Active) /\ UNCHANGED queueVars

\* What running a request may do, answered or not.
Served(r) ==
    \/ Authorized(r.worker) /\ r.call = "claiming" /\ \E t \in Tasks : Claim(r.worker, t)
    \/ Authorized(r.worker) /\ r.call \in Writing /\ Write(r.call, r.task, r.version)
    \/ UNCHANGED queueVars

Request(w) == [worker |-> w, call |-> pc[w],
               task |-> IF pc[w] = "claiming" THEN NoTask ELSE held[w].task,
               version |-> IF pc[w] = "claiming" THEN 0 ELSE held[w].version]

\* The server runs a request whose caller has given it up.
LateArrives ==
    /\ \E r \in late : Served(r) /\ late' = late \ {r}
    /\ UNCHANGED <<procVars, term, lossy>>

-----------------------------------------------------------------------------
(* How the loop moves.                                                     *)

Goto(w, to) ==
    /\ pc' = [pc EXCEPT ![w] = to]
    /\ tries' = [tries EXCEPT ![w] = 0]
    /\ UNCHANGED <<held, stop, rotated, late, term, lossy>>

\* The task is no longer this worker's business.
Drop(w, to) ==
    /\ pc' = [pc EXCEPT ![w] = to]
    /\ tries' = [tries EXCEPT ![w] = 0]
    /\ held' = [held EXCEPT ![w] = NoHandle]
    /\ UNCHANGED <<stop, rotated, late, term, lossy>>

-----------------------------------------------------------------------------
(* The process.                                                            *)

\* POST /workers/register, then the first session.
Boot(w) ==
    /\ pc[w] = "off"
    /\ RegisterWorker(w)
    /\ Goto(w, "poll")

\* A new process under the same id and token (they are given on the command
\* line or in the environment) does not register again.
Restart(w) ==
    /\ pc[w] \in Ended
    /\ pc' = [pc EXCEPT ![w] = "poll"]
    /\ stop' = [stop EXCEPT ![w] = FALSE]
    /\ rotated' = [rotated EXCEPT ![w] = FALSE]
    /\ term' = [term EXCEPT ![w] = FALSE]
    /\ UNCHANGED <<queueVars, held, tries, late, lossy>>

\* SIGTERM or SIGINT: the handlers know the session's stop event only.
Signal(w) ==
    /\ pc[w] \in Live /\ ~(stop[w] /\ term[w])
    /\ stop' = [stop EXCEPT ![w] = TRUE]
    /\ term' = [term EXCEPT ![w] = TRUE]
    /\ UNCHANGED <<queueVars, pc, held, rotated, tries, late, lossy>>

\* _watch_url_changes sees another URL; it may be in the middle of a fetch
\* when the session is stopped.
Rotate(w) ==
    /\ Rotates /\ pc[w] \in Live /\ ~rotated[w]
    /\ rotated' = [rotated EXCEPT ![w] = TRUE]
    /\ stop' = [stop EXCEPT ![w] = TRUE]
    /\ UNCHANGED <<queueVars, pc, held, tries, late, term, lossy>>

Crash(w) ==
    /\ pc[w] \in Live
    /\ pc' = [pc EXCEPT ![w] = "dead"]
    /\ tries' = [tries EXCEPT ![w] = 0]
    /\ held' = [held EXCEPT ![w] = NoHandle]
    /\ lossy' = [lossy EXCEPT ![w] = @ \/ pc[w] \in Calling \cup Attending]
    /\ UNCHANGED <<queueVars, stop, rotated, late, term>>

Heartbeat(w) ==
    /\ pc[w] \in Live /\ ~stop[w] /\ Authorized(w)
    /\ UpdateHeartbeat(w)
    /\ UNCHANGED remoteVars

\* The session is over: a new one against the new URL, or the end.
Leave(w) ==
    /\ pc[w] = "leaving"
    /\ IF rotated[w]
       THEN /\ pc' = [pc EXCEPT ![w] = "poll"]
            /\ rotated' = [rotated EXCEPT ![w] = FALSE]
            /\ stop' = [stop EXCEPT ![w] = FALSE]
       ELSE pc' = [pc EXCEPT ![w] = "exited"] /\ UNCHANGED <<rotated, stop>>
    /\ UNCHANGED <<queueVars, held, tries, late, term, lossy>>

-----------------------------------------------------------------------------
(* One iteration of run_remote_worker.                                     *)

ExitOnStop(w) ==
    /\ pc[w] = "poll" /\ stop[w]
    /\ Goto(w, "leaving")
    /\ UNCHANGED queueVars

PollOpen(w) ==
    /\ pc[w] = "poll" /\ ~stop[w] /\ ~paused
    /\ Goto(w, "claiming")
    /\ UNCHANGED queueVars

ClaimTask(w) ==
    /\ pc[w] = "claiming" /\ Authorized(w)
    /\ \E t \in Tasks :
        /\ Claim(w, t)
        /\ held' = [held EXCEPT ![w] = [task |-> t, version |-> task[t].version + 1]]
    /\ pc' = [pc EXCEPT ![w] = "claimed"]
    /\ tries' = [tries EXCEPT ![w] = 0]
    /\ UNCHANGED <<stop, rotated, late, term, lossy>>

\* 204: the long poll found nothing.
ClaimNone(w) ==
    /\ pc[w] = "claiming" /\ Authorized(w)
    /\ Goto(w, "poll")
    /\ UNCHANGED queueVars

PauseAfterClaim(w) ==
    /\ pc[w] = "claimed"
    /\ Goto(w, IF paused THEN "pausing" ELSE "preparing")
    /\ UNCHANGED queueVars

\* human_review.required is recorded if it can be, and the prompt, secret
\* and shell guards let the task run or fail it ("blocking").
Prepare(w) ==
    /\ pc[w] = "preparing"
    /\ \/ held[w].task \in ReviewTasks /\ RecordReview(held[w].task, "required", StageOf[held[w].task])
       \/ UNCHANGED queueVars
    /\ \E to \in {"running", "blocking"} : Goto(w, to)

RunEnds(w) ==
    /\ pc[w] = "running" /\ ~stop[w]
    /\ \E to \in {"ran_ok", "ran_bad"} : Goto(w, to)
    /\ UNCHANGED queueVars

\* Fault: a stop during the verification leaves without releasing.
RunStoppedKeepingClaim(w) ==
    /\ pc[w] \in {"running", "verifying"} /\ stop[w]
    /\ IF pc[w] = "running" THEN Goto(w, "stopping") ELSE Drop(w, "leaving")
    /\ UNCHANGED queueVars

\* Fault: only the agent is raced with the stop event.
RunStoppedRunnerOnly(w) ==
    /\ pc[w] = "running" /\ stop[w]
    /\ Goto(w, "stopping")
    /\ UNCHANGED queueVars

RunStopped(w) ==
    /\ pc[w] \in {"running", "verifying"} /\ stop[w]
    /\ Goto(w, "stopping")
    /\ UNCHANGED queueVars

PauseAfterRun(w) ==
    /\ pc[w] \in {"ran_ok", "ran_bad"}
    /\ \/ paused /\ Goto(w, "pausing")
       \/ ~paused /\ pc[w] = "ran_bad" /\ Goto(w, "failing")
       \/ ~paused /\ pc[w] = "ran_ok" /\ \E to \in {"verifying", "reviewing"} : Goto(w, to)
    /\ UNCHANGED queueVars

VerifyEnds(w) ==
    /\ pc[w] = "verifying" /\ ~stop[w]
    /\ \E to \in {"reviewing", "repairing", "failing"} : Goto(w, to)
    /\ UNCHANGED queueVars

\* request_repair_task reads the row of the failed task first: same version,
\* nobody else's ...
RepairChecked(w) ==
    /\ pc[w] = "repairing"
    /\ \/ /\ Authorized(w)
          /\ task[held[w].task].status # "ABSENT"
          /\ task[held[w].task].version = held[w].version
          /\ task[held[w].task].claimed_by \in {w, NoWorker}
          /\ NextRepair[held[w].task] # NoTask
          /\ Goto(w, "inserting")
       \/ Goto(w, "failing")
    /\ UNCHANGED queueVars

\* ... and inserts in a transaction of its own.  Whatever happens, the loop
\* goes on to fail the task.
RequestRepair(w) ==
    /\ pc[w] = "inserting"
    /\ \/ \E r \in Tasks : r = NextRepair[held[w].task] /\ InsertTask(r)
       \/ UNCHANGED queueVars
    /\ Goto(w, "failing")

\* Fault: a task of which no review event exists is taken for one without a
\* checkpoint.
CheckReviewIfAsked(w) ==
    /\ pc[w] = "reviewing"
    /\ LET t == held[w].task IN
        Goto(w, IF review[t] # << >> /\ ~HumanReviewApproved(t) THEN "holding" ELSE "completing")
    /\ UNCHANGED queueVars

CheckReview(w) ==
    /\ pc[w] = "reviewing"
    /\ LET t == held[w].task IN
        Goto(w, IF t \in ReviewTasks /\ ~HumanReviewApproved(t) THEN "holding" ELSE "completing")
    /\ UNCHANGED queueVars

-----------------------------------------------------------------------------
(* The writes that end the iteration.                                      *)

\* max_processed is looked at after complete and fail, but not after the
\* guards' fail, which goes on with the next iteration.
AfterWrite(call) ==
    CASE call = "stopping" -> "leaving"
      [] call \in {"completing", "failing"} /\ Once -> "leaving"
      [] OTHER -> "poll"

AfterConflict(call) == IF call = "stopping" THEN "leaving" ELSE "poll"

Answered(w) ==
    /\ pc[w] \in Writing /\ Authorized(w)
    /\ \/ Write(pc[w], held[w].task, held[w].version) /\ Drop(w, AfterWrite(pc[w]))
       \/ Conflict(held[w].task, held[w].version) /\ Drop(w, AfterConflict(pc[w]))

\* HTTPClientError, which AuthError and ServerError are, is caught around the
\* two releases and nowhere else.
AfterError(call) ==
    CASE call = "stopping" -> "leaving"
      [] call = "pausing" -> "poll"
      [] OTHER -> "dead"

\* 401 or 403 at once: the bearer was revoked.
Denied(w) ==
    /\ pc[w] \in Calling /\ ~Authorized(w)
    /\ Drop(w, AfterError(pc[w]))
    /\ UNCHANGED queueVars

LastAttempt(w) == tries[w] = Retries

\* An attempt without an answer: run or not, now or later.
Unanswered(w) ==
    LET last == LastAttempt(w) IN
    /\ pc[w] \in Calling
    /\ \/ Served(Request(w)) /\ UNCHANGED late
       \/ /\ Request(w) \notin late /\ Cardinality(late) < MaxLate
          /\ late' = late \cup {Request(w)}
          /\ UNCHANGED queueVars
    /\ tries' = [tries EXCEPT ![w] = IF last THEN 0 ELSE @ + 1]
    /\ pc' = [pc EXCEPT ![w] = IF last THEN AfterError(@) ELSE @]
    /\ held' = [held EXCEPT ![w] = IF last THEN NoHandle ELSE @]
    /\ lossy' = [lossy EXCEPT ![w] = @ \/ last \/ pc[w] = "claiming"]
    /\ UNCHANGED <<stop, rotated, term>>

-----------------------------------------------------------------------------

LoopStep(w) ==
    \/ ExitOnStop(w) \/ PollOpen(w) \/ ClaimTask(w) \/ ClaimNone(w) \/ PauseAfterClaim(w)
    \/ Prepare(w) \/ RunStopped(w) \/ PauseAfterRun(w) \/ RepairChecked(w) \/ RequestRepair(w)
    \/ CheckReview(w) \/ Answered(w) \/ Denied(w) \/ Unanswered(w) \/ Leave(w)

ProcessStep(w) ==
    \/ LoopStep(w) \/ RunEnds(w) \/ VerifyEnds(w) \/ Boot(w) \/ Restart(w)
    \/ Signal(w) \/ Rotate(w) \/ Crash(w) \/ Heartbeat(w)

\* A local worker: it claims, and writes to rows it owns.
PeerStep(w) ==
    \/ RegisterWorker(w)
    \/ \E t \in Tasks : Claim(w, t)
    \/ \E t \in Tasks :
        /\ Owns(w, t)
        /\ \/ Start(t, task[t].version)
           \/ \E c \in Costs : Complete(t, task[t].version, c)
           \/ Fail(t, task[t].version)
           \/ Release(t, task[t].version)

RemoteNext ==
    \/ \E w \in RemoteWorkers : ProcessStep(w)
    \/ LateArrives
    \/ (\E w \in Workers \ RemoteWorkers : PeerStep(w)) /\ UNCHANGED remoteVars
    \/ SweepStep /\ UNCHANGED remoteVars
    \/ TimeStep /\ UNCHANGED remoteVars
    \/ OperatorStep /\ UNCHANGED remoteVars

RemoteSpec == RemoteInit /\ [][RemoteNext]_vars

\* asyncio runs what is ready; that an agent or a verification ends, that the
\* URL changes or that a request is answered is not assumed.
LoopFairness == \A w \in RemoteWorkers : WF_vars(LoopStep(w))
-----------------------------------------------------------------------------

\* Repeated and late requests never write to a claim of somebody else: a
\* write whose version still fits a row in flight, in the hand of the loop or
\* on the way to the server, was made for the claim that the row shows.
RequestsFenced ==
    /\ \A w \in RemoteWorkers : pc[w] \in Attending =>
        (Matches(held[w].task, held[w].version, Active) => Owns(w, held[w].task))
    /\ \A r \in late : r.call \in Writing =>
        (Matches(r.task, r.version, Active) => Owns(r.worker, r.task))

\* A process loses track of a claim only if it crashes with it or is left
\* without an answer: to a claim, or to the last attempt of a write.  No
\* conflict, pause, stop, rotation, restart or revocation makes it forget a task
\* that it owns, and no request that arrives late gives it one behind its back.
OrphansOnlyByLoss ==
    \A w \in RemoteWorkers, t \in Tasks : Owns(w, t) =>
        \/ lossy[w]
        \/ pc[w] \in Attending /\ held[w] = [task |-> t, version |-> task[t].version]

\* A task with a review checkpoint that a remote worker completed was approved,
\* however often the request was repeated and however late it ran.  (A DONE row
\* keeps claimed_by; what a local worker completes is LocalWorker's business.)
RemoteReviewedBeforeDone ==
    \A t \in ReviewTasks : task[t].status = "DONE" /\ task[t].claimed_by \in RemoteWorkers =>
        \E i \in DOMAIN review[t] : review[t][i].type = "approved"

\* SIGTERM, or any other stop, ends the process, whatever it waits for and
\* whatever the server answers or fails to answer, unless its URL changes before
\* the session is over.
StopEndsUnlessRotating ==
    LoopFairness => \A w \in RemoteWorkers : stop[w] ~> (pc[w] \in Ended \/ rotated[w])
=============================================================================
