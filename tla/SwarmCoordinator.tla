--------------------------- MODULE SwarmCoordinator ---------------------------
(***************************************************************************)
(* `whilly swarm run`: a coordinator process holds the lease of a session, *)
(* recovers what a dead one left behind, claims the session's tasks from   *)
(* the queue and runs one coroutine per task (whilly/swarm/runtime.py,     *)
(* whilly/swarm/store.py).  The coroutine starts the task, opens an        *)
(* attempt, runs a worker agent and then a reviewer as processes of their  *)
(* own, and closes task and attempt in one transaction.                    *)
(*                                                                         *)
(* A step is one transaction or one process event.  Between any two of     *)
(* them the process may be killed (its agents live on), the lease may run  *)
(* out under a coordinator that is alive but slow, another coordinator may *)
(* take over, the server may sweep, and the operator may stop, re-run or   *)
(* apply a revision.  Prompts, worktrees, the mailbox, agent calls, costs  *)
(* and swarm_task_context.outcome, which only reports read, are left out.  *)
(***************************************************************************)
EXTENDS TaskQueue

CONSTANTS Hosts,        \* machines
          HostOf,       \* HostOf[c]: where coordinator c runs
          Revisions,    \* number of plan revisions that are ever proposed
          RevisionOf,   \* RevisionOf[t]: the revision that brings task t
          Attempts,     \* bound: 1..Attempts are the rows of swarm_task_attempts
          MaxAttempts,  \* limits.max_attempts
          MaxParallel,  \* limits.max_parallel
          NoTask        \* no row

\* The workers of the queue are the coordinators: one id per process.
Coordinators == Workers

Ids == 1..Attempts
NoAttempt == 0

ASSUME SwarmAssumption ==
    /\ HostOf \in [Coordinators -> Hosts]
    /\ Revisions \in Nat
    /\ RevisionOf \in [Tasks -> 1..Revisions]
    /\ \A t \in Tasks : \A d \in Deps[t] : RevisionOf[d] = RevisionOf[t]
    /\ InitialTasks = {}
    /\ Attempts \in Nat /\ MaxAttempts \in Nat \ {0} /\ MaxParallel \in Nat \ {0}

VARIABLES lease,    \* the lease columns of swarm_sessions
          applied,  \* swarm_sessions.applied_revision, 0 for NULL
          waiting,  \* tasks whose required_tags hold WAITING_TAG
          allowed,  \* allowed[t]: swarm_task_context.max_attempts
          attempt,  \* attempt[i]: row i of swarm_task_attempts
          agents,   \* <<i, mode>>: process groups alive, by attempt
          coord,    \* coord[c]: the Coordinator object of c
          recov,    \* recov[c]: what _recover still has to do
          exec      \* exec[c][t]: the coroutine _execute of c for t

swarmVars == <<lease, applied, waiting, allowed, attempt, agents, coord, recov, exec>>
vars == <<queueVars, swarmVars>>

Modes == {"worker", "review"}
\* In the try block of _execute, and in its handlers.
Body == {"checking", "starting", "opening", "preparing", "spawned", "working", "ended",
         "judging", "accepting", "unblocking", "limbo"}
Handlers == {"failing", "closing", "losing", "withdrawing", "releasing"}
ExecStates == {"none", "fetching", "done"} \cup Body \cup Handlers

CoordRunning == {"polling", "claiming", "waiting"}
CoordStates == {"off", "begun", "recovering", "abandoning", "freeing", "stopping",
                "leaving", "over", "dead"} \cup CoordRunning

AttemptRows == [task : Tasks \cup {NoTask}, by : Coordinators \cup {NoWorker}, pgid : BOOLEAN,
                status : {"absent", "running", "accepted", "failed", "cancelled", "abandoned"}]

Idle == [pc |-> "none", version |-> 0, attempt |-> NoAttempt, mode |-> "worker"]
NoLease == [holder |-> NoWorker, live |-> FALSE, stop |-> FALSE]

SwarmTypeOK ==
    /\ QueueTypeOK
    /\ lease \in [holder : Coordinators \cup {NoWorker}, live : BOOLEAN, stop : BOOLEAN]
    /\ applied \in 0..Revisions
    /\ waiting \subseteq Tasks
    /\ allowed \in [Tasks -> Nat]
    /\ attempt \in [Ids -> AttemptRows]
    /\ agents \subseteq Ids \X Modes
    /\ coord \in [Coordinators -> [pc : CoordStates, stop : BOOLEAN, lost : BOOLEAN, rev : 0..Revisions]]
    /\ recov \in [Coordinators -> [attempts : SUBSET Ids, tasks : SUBSET (Tasks \X Nat)]]
    /\ exec \in [Coordinators -> [Tasks -> [pc : ExecStates, version : Nat,
                                            attempt : Ids \cup {NoAttempt}, mode : Modes]]]

SwarmInit ==
    /\ QueueInit
    /\ lease = NoLease
    /\ applied = 0
    /\ waiting = {}
    /\ allowed = [t \in Tasks |-> MaxAttempts]
    /\ attempt = [i \in Ids |-> [task |-> NoTask, by |-> NoWorker, pgid |-> FALSE, status |-> "absent"]]
    /\ agents = {}
    /\ coord = [c \in Coordinators |-> [pc |-> "off", stop |-> FALSE, lost |-> FALSE, rev |-> 0]]
    /\ recov = [c \in Coordinators |-> [attempts |-> {}, tasks |-> {}]]
    /\ exec = [c \in Coordinators |-> [t \in Tasks |-> Idle]]

-----------------------------------------------------------------------------
(* The rows the store works on.                                            *)

Running(t) == {i \in Ids : attempt[i].task = t /\ attempt[i].status = "running"}
Counted(t) == Cardinality({i \in Ids : attempt[i].task = t /\ attempt[i].status # "cancelled"})

HasEvidence(t) == \E i \in Ids : attempt[i].task = t /\ attempt[i].status = "accepted"

\* finish_attempt: WHERE id = i, whatever the status was.
Finished(i, status) == [attempt EXCEPT ![i].status = status, ![i].pgid = FALSE]

\* Fault: a dependency that is no longer pending will do.
UnblockedEarly ==
    {t \in waiting : task[t].status = "PENDING" /\ \A d \in Deps[t] : task[d].status # "PENDING"}

\* unblock_ready: the pending tasks whose dependencies are all done with an
\* accepted attempt.
Unblocked ==
    {t \in waiting :
        /\ task[t].status = "PENDING"
        /\ \A d \in Deps[t] : task[d].status = "DONE" /\ HasEvidence(d)}

-----------------------------------------------------------------------------
(* The coordinator around its loop.                                        *)

CoordOnly == UNCHANGED <<lease, applied, waiting, allowed, attempt, agents, recov, exec>>

MoveTo(c, pc) == coord' = [coord EXCEPT ![c].pc = pc]

\* run() reads the applied revision before it has the lease ...
Begin(c) ==
    /\ coord[c].pc = "off" /\ applied # 0
    /\ coord' = [coord EXCEPT ![c].pc = "begun", ![c].rev = applied]
    /\ CoordOnly /\ UNCHANGED queueVars

\* ... acquires it unless it is live, and registers a fresh worker.
AcquireLease(c) ==
    /\ coord[c].pc = "begun" /\ ~lease.live
    /\ lease' = [holder |-> c, live |-> TRUE, stop |-> FALSE]
    /\ RegisterWorker(c)
    /\ MoveTo(c, "recovering")
    /\ UNCHANGED <<applied, waiting, allowed, attempt, agents, recov, exec>>

LeaseRefused(c) ==
    /\ coord[c].pc = "begun" /\ lease.live
    /\ MoveTo(c, "over")
    /\ CoordOnly /\ UNCHANGED queueVars

\* Fault: an attempt without a recorded process group is taken for dead.
AmbiguousIfRecorded(c, i) ==
    /\ attempt[i].pgid
    /\ HostOf[attempt[i].by] # HostOf[c] \/ \E m \in Modes : <<i, m>> \in agents

\* An attempt whose agent may still run: its process group was never
\* recorded, belongs to another machine, or is alive.
Ambiguous(c, i) ==
    \/ ~attempt[i].pgid
    \/ HostOf[attempt[i].by] # HostOf[c]
    \/ \E m \in Modes : <<i, m>> \in agents

\* _recover reads the running attempts, and gives up if one is ambiguous.
RecoverRead(c) ==
    LET running == {i \in Ids : attempt[i].status = "running"} IN
    /\ coord[c].pc = "recovering"
    /\ IF \E i \in running : Ambiguous(c, i)
       THEN MoveTo(c, "leaving") /\ UNCHANGED recov
       ELSE MoveTo(c, "abandoning") /\ recov' = [recov EXCEPT ![c].attempts = running]
    /\ UNCHANGED <<queueVars, lease, applied, waiting, allowed, attempt, agents, exec>>

AbandonAttempt(c) ==
    /\ coord[c].pc = "abandoning"
    /\ \E i \in recov[c].attempts :
        /\ attempt' = Finished(i, "abandoned")
        /\ recov' = [recov EXCEPT ![c].attempts = @ \ {i}]
    /\ UNCHANGED <<queueVars, lease, applied, waiting, allowed, agents, coord, exec>>

\* Then it reads the tasks in flight of its revision ...
RecoverScan(c) ==
    /\ coord[c].pc = "abandoning" /\ recov[c].attempts = {}
    /\ recov' = [recov EXCEPT ![c].tasks =
                    {<<t, task[t].version>> : t \in {u \in InFlight : RevisionOf[u] = coord[c].rev}}]
    /\ MoveTo(c, "freeing")
    /\ UNCHANGED <<queueVars, lease, applied, waiting, allowed, attempt, agents, exec>>

\* ... and fails or releases each at the version it read.
RecoverTask(c) ==
    /\ coord[c].pc = "freeing"
    /\ \E tv \in recov[c].tasks :
        LET t == tv[1]  v == tv[2] IN
        /\ \/ Counted(t) >= allowed[t] /\ Fail(t, v)
           \/ Counted(t) < allowed[t] /\ Release(t, v)
           \/ ~Matches(t, v, Active) /\ UNCHANGED queueVars
        /\ recov' = [recov EXCEPT ![c].tasks = @ \ {tv}]
    /\ UNCHANGED <<lease, applied, waiting, allowed, attempt, agents, coord, exec>>

RecoverEnds(c) ==
    /\ coord[c].pc = "freeing" /\ recov[c].tasks = {}
    /\ MoveTo(c, "polling")
    /\ CoordOnly /\ UNCHANGED queueVars

\* The lease is given back unless it is known to be lost.
Leave(c) ==
    /\ coord[c].pc = "leaving"
    /\ lease' = IF lease.holder = c /\ ~coord[c].lost THEN NoLease ELSE lease
    /\ MoveTo(c, "over")
    /\ UNCHANGED <<queueVars, applied, waiting, allowed, attempt, agents, recov, exec>>

\* Agents are sessions of their own and survive.
Crash(c) ==
    /\ coord[c].pc \notin {"off", "over", "dead"}
    /\ MoveTo(c, "dead")
    /\ exec' = [exec EXCEPT ![c] = [t \in Tasks |-> Idle]]
    /\ UNCHANGED <<queueVars, lease, applied, waiting, allowed, attempt, agents, recov>>

\* One beat: the lease, whoever holds it now, then the stop flag, the worker
\* row and the claims of the tasks that are running.
Heartbeat(c) ==
    /\ coord[c].pc \in CoordRunning /\ ~coord[c].lost
    /\ IF lease.holder = c
       THEN /\ lease' = [lease EXCEPT !.live = TRUE]
            /\ coord' = [coord EXCEPT ![c].stop = @ \/ lease.stop]
            /\ worker' = [worker EXCEPT ![c].status = "online", ![c].silent = FALSE]
            /\ task' = [t \in Tasks |-> IF Owns(c, t) /\ exec[c][t].pc # "none"
                                        THEN [task[t] EXCEPT !.aged = FALSE] ELSE task[t]]
            /\ UNCHANGED <<review, audit, plan, paused, stale>>
       ELSE /\ coord' = [coord EXCEPT ![c].lost = TRUE, ![c].stop = TRUE]
            /\ UNCHANGED <<queueVars, lease>>
    /\ UNCHANGED <<applied, waiting, allowed, attempt, agents, recov, exec>>

-----------------------------------------------------------------------------
(* _schedule_loop.                                                         *)

Poll(c) ==
    /\ coord[c].pc = "polling" /\ ~coord[c].stop
    /\ waiting' = waiting \ Unblocked
    /\ MoveTo(c, "claiming")
    /\ UNCHANGED <<queueVars, lease, applied, allowed, attempt, agents, recov, exec>>

Busy(c) == {t \in Tasks : exec[c][t].pc # "none"}
Open(c) == Claimable(c) \ waiting

\* A task whose coroutine has not been collected yet stops the loop.
ClaimNext(c) ==
    /\ coord[c].pc = "claiming" /\ ~coord[c].stop /\ Cardinality(Busy(c)) < MaxParallel
    /\ \E t \in Open(c) :
        /\ Claim(c, t)
        /\ IF t \in Busy(c)
           THEN /\ coord' = [coord EXCEPT ![c].pc = "waiting", ![c].stop = TRUE]
                /\ UNCHANGED exec
           ELSE /\ exec' = [exec EXCEPT ![c][t] = [Idle EXCEPT !.pc = "fetching",
                                                              !.version = task[t].version + 1]]
                /\ UNCHANGED coord
    /\ UNCHANGED <<lease, applied, waiting, allowed, attempt, agents, recov>>

ClaimsEnd(c) ==
    /\ coord[c].pc = "claiming"
    /\ coord[c].stop \/ Cardinality(Busy(c)) >= MaxParallel \/ Open(c) = {}
    /\ MoveTo(c, IF Busy(c) = {} THEN "leaving" ELSE "waiting")
    /\ CoordOnly /\ UNCHANGED queueVars

\* asyncio.wait: something ended, or poll_seconds passed.
Collect(c) ==
    /\ coord[c].pc = "waiting"
    /\ exec' = [exec EXCEPT ![c] = [t \in Tasks |-> IF @[t].pc = "done" THEN Idle ELSE @[t]]]
    /\ MoveTo(c, "polling")
    /\ UNCHANGED <<queueVars, lease, applied, waiting, allowed, attempt, agents, recov>>

\* The agents of the coroutines of c that wait for one.
Attended(c) == {<<exec[c][t].attempt, exec[c][t].mode>> :
                   t \in {u \in Tasks : exec[c][u].pc \in {"spawned", "working"}}}

\* What a CancelledError makes of a coroutine: the try block withdraws, and a
\* handler that is under way, or the read before the try, is simply left.
Cancelled(e) ==
    CASE e.pc \in Body \cup {"withdrawing", "releasing"} -> [e EXCEPT !.pc = "withdrawing"]
      [] e.pc \in {"fetching", "failing", "closing", "losing"} -> [e EXCEPT !.pc = "done"]
      [] OTHER -> e

CancelAll(c) ==
    /\ exec' = [exec EXCEPT ![c] = [t \in Tasks |-> Cancelled(@[t])]]
    /\ agents' = agents \ Attended(c)
    /\ MoveTo(c, "stopping")

\* The loop ends with a stop, or with an exception of its own queries.
StopRunning(c) ==
    /\ coord[c].pc = "polling" /\ coord[c].stop
    /\ CancelAll(c)
    /\ UNCHANGED <<queueVars, lease, applied, waiting, allowed, attempt, recov>>

\* The second case is a claim that is committed and never answered.
LoopRaises(c) ==
    /\ coord[c].pc \in {"polling", "claiming"}
    /\ \/ UNCHANGED queueVars
       \/ coord[c].pc = "claiming" /\ ~coord[c].stop /\ \E t \in Open(c) : Claim(c, t)
    /\ CancelAll(c)
    /\ UNCHANGED <<lease, applied, waiting, allowed, attempt, recov>>

Stopped(c) ==
    /\ coord[c].pc = "stopping"
    /\ \A t \in Tasks : exec[c][t].pc \in {"none", "done"}
    /\ exec' = [exec EXCEPT ![c] = [t \in Tasks |-> Idle]]
    /\ MoveTo(c, "leaving")
    /\ UNCHANGED <<queueVars, lease, applied, waiting, allowed, attempt, agents, recov>>

-----------------------------------------------------------------------------
(* _execute: the coroutine of c for t.                                     *)

At(c, t, pc) ==
    /\ coord[c].pc \in CoordRunning \cup {"stopping"}
    /\ exec[c][t].pc = pc

Goto(c, t, pc) == exec' = [exec EXCEPT ![c][t].pc = pc]

ExecOnly == UNCHANGED <<lease, applied, waiting, allowed, attempt, agents, coord, recov>>

Fetch(c, t) ==
    /\ At(c, t, "fetching")
    /\ Goto(c, t, "checking")
    /\ ExecOnly /\ UNCHANGED queueVars

CheckBudget(c, t) ==
    /\ At(c, t, "checking")
    /\ Goto(c, t, IF RevisionOf[t] # coord[c].rev \/ Counted(t) >= allowed[t]
                  THEN "failing" ELSE "starting")
    /\ ExecOnly /\ UNCHANGED queueVars

\* A write that is committed may go unanswered: the coroutine is in "limbo",
\* with what it knew before, until an exception or a cancellation ends it.
StartTask(c, t) ==
    LET e == exec[c][t] IN
    /\ At(c, t, "starting")
    /\ \/ /\ Start(t, e.version)
          /\ \E after \in {[e EXCEPT !.pc = "opening", !.version = @ + 1], [e EXCEPT !.pc = "limbo"]} :
                exec' = [exec EXCEPT ![c][t] = after]
       \/ ~Matches(t, e.version, {"CLAIMED"}) /\ UNCHANGED queueVars /\ Goto(c, t, "losing")
    /\ ExecOnly

NewAttempt(i) == attempt[i].status = "absent" /\ \A j \in 1..(i - 1) : attempt[j].status # "absent"

\* start_attempt: the task is in progress, in whoever's hands, and has no
\* running attempt.
OpenAttempt(c, t) ==
    LET e == exec[c][t] IN
    /\ At(c, t, "opening")
    /\ IF task[t].status = "IN_PROGRESS" /\ Running(t) = {}
       THEN \E i \in Ids :
              /\ NewAttempt(i)
              /\ attempt' = [attempt EXCEPT ![i] = [task |-> t, by |-> c, pgid |-> FALSE,
                                                    status |-> "running"]]
              /\ \E after \in {[e EXCEPT !.pc = "preparing", !.attempt = i], [e EXCEPT !.pc = "limbo"]} :
                    exec' = [exec EXCEPT ![c][t] = after]
       ELSE Goto(c, t, "failing") /\ UNCHANGED attempt
    /\ UNCHANGED <<queueVars, lease, applied, waiting, allowed, agents, coord, recov>>

\* The workspace and the prompt are ready: spawn the agent, or the reviewer.
Launch(c, t) ==
    LET e == exec[c][t] IN
    /\ At(c, t, "preparing")
    /\ agents' = agents \cup {<<e.attempt, e.mode>>}
    /\ Goto(c, t, "spawned")
    /\ UNCHANGED <<queueVars, lease, applied, waiting, allowed, attempt, coord, recov>>

RecordPgid(c, t) ==
    /\ At(c, t, "spawned")
    /\ attempt' = [attempt EXCEPT ![exec[c][t].attempt].pgid = TRUE]
    /\ Goto(c, t, "working")
    /\ UNCHANGED <<queueVars, lease, applied, waiting, allowed, agents, coord, recov>>

\* The agent exits, or runs into its timeout and is killed.
RunEnds(c, t) ==
    LET e == exec[c][t] IN
    /\ At(c, t, "working")
    /\ agents' = agents \ {<<e.attempt, e.mode>>}
    /\ Goto(c, t, "ended")
    /\ UNCHANGED <<queueVars, lease, applied, waiting, allowed, attempt, coord, recov>>

ClearPgid(c, t) ==
    /\ At(c, t, "ended")
    /\ attempt' = [attempt EXCEPT ![exec[c][t].attempt].pgid = FALSE]
    /\ Goto(c, t, "judging")
    /\ UNCHANGED <<queueVars, lease, applied, waiting, allowed, agents, coord, recov>>

\* The worker's result is committed and verified and goes to the reviewer, is
\* no good, or was cut short by a stop; the reviewer approves or does not.
Judge(c, t) ==
    LET e == exec[c][t] IN
    /\ At(c, t, "judging")
    /\ \/ e.mode = "worker" /\ exec' = [exec EXCEPT ![c][t].pc = "preparing", ![c][t].mode = "review"]
       \/ e.mode = "worker" /\ (coord[c].stop \/ lease.stop) /\ Goto(c, t, "withdrawing")
       \/ e.mode = "review" /\ Goto(c, t, "accepting")
       \/ Goto(c, t, "failing")
    /\ ExecOnly /\ UNCHANGED queueVars

\* Fault: the evidence is written although the task could not be completed.
AcceptUnfenced(c, t) ==
    LET e == exec[c][t] IN
    /\ At(c, t, "accepting")
    /\ \/ \E cost \in Costs : Complete(t, e.version, cost)
       \/ ~Matches(t, e.version, Active) /\ UNCHANGED queueVars
    /\ attempt' = Finished(e.attempt, "accepted")
    /\ Goto(c, t, "unblocking")
    /\ UNCHANGED <<lease, applied, waiting, allowed, agents, coord, recov>>

\* accept_task: the evidence and the COMPLETE in one transaction, which an
\* attempt that is not running any more rolls back.
Accept(c, t) ==
    LET e == exec[c][t] IN
    /\ At(c, t, "accepting")
    /\ \/ /\ attempt[e.attempt].status = "running"
          /\ \E cost \in Costs : Complete(t, e.version, cost)
          /\ attempt' = Finished(e.attempt, "accepted")
          /\ \E pc \in {"unblocking", "limbo"} : Goto(c, t, pc)
       \/ /\ attempt[e.attempt].status # "running" /\ Matches(t, e.version, Active)
          /\ Goto(c, t, "failing")
          /\ UNCHANGED <<queueVars, attempt>>
       \/ /\ ~Matches(t, e.version, Active)
          /\ Goto(c, t, "losing")
          /\ UNCHANGED <<queueVars, attempt>>
    /\ UNCHANGED <<lease, applied, waiting, allowed, agents, coord, recov>>

Unblock(c, t) ==
    /\ At(c, t, "unblocking")
    /\ waiting' = waiting \ Unblocked
    /\ Goto(c, t, "done")
    /\ UNCHANGED <<queueVars, lease, applied, allowed, attempt, agents, coord, recov>>

\* Any other exception in the try block fails the task; the child of a launch
\* whose process group could not be recorded is killed first.
Raise(c, t) ==
    LET e == exec[c][t] IN
    /\ \E pc \in Body \ {"working"} : At(c, t, pc)
    /\ coord[c].pc # "stopping"
    /\ agents' = IF e.pc = "spawned" THEN agents \ {<<e.attempt, e.mode>>} ELSE agents
    /\ Goto(c, t, "failing")
    /\ UNCHANGED <<queueVars, lease, applied, waiting, allowed, attempt, coord, recov>>

-----------------------------------------------------------------------------
(* The handlers of _execute.                                               *)

\* _fail: the task first, in a transaction of its own ...
FailTask(c, t) ==
    LET v == exec[c][t].version IN
    /\ At(c, t, "failing")
    /\ Fail(t, v) \/ (~Matches(t, v, Active) /\ UNCHANGED queueVars)
    /\ Goto(c, t, "closing")
    /\ ExecOnly

Outcome == [closing |-> "failed", losing |-> "abandoned", withdrawing |-> "cancelled"]

\* ... then the attempt, if there is one.
CloseAttempt(c, t) ==
    LET e == exec[c][t] IN
    /\ \E pc \in DOMAIN Outcome : At(c, t, pc)
    /\ attempt' = IF e.attempt = NoAttempt THEN attempt ELSE Finished(e.attempt, Outcome[e.pc])
    /\ Goto(c, t, IF e.pc = "withdrawing" /\ ~(coord[c].pc = "stopping" /\ coord[c].lost)
                  THEN "releasing" ELSE "done")
    /\ UNCHANGED <<queueVars, lease, applied, waiting, allowed, agents, coord, recov>>

ReleaseTask(c, t) ==
    LET v == exec[c][t].version IN
    /\ At(c, t, "releasing")
    /\ Release(t, v) \/ (~Matches(t, v, Active) /\ UNCHANGED queueVars)
    /\ Goto(c, t, "done")
    /\ ExecOnly

\* An exception in a handler, or before the try block, ends the coroutine;
\* the withdrawal of a run that a stop cut short is still in the try block.
HandlerRaises(c, t) ==
    /\ \E pc \in Handlers \cup {"fetching"} : At(c, t, pc)
    /\ Goto(c, t, IF exec[c][t].pc \in {"withdrawing", "releasing"} /\ coord[c].pc # "stopping"
                  THEN "failing" ELSE "done")
    /\ ExecOnly /\ UNCHANGED queueVars

-----------------------------------------------------------------------------
(* The operator, the clock and the processes left behind.                  *)

\* `whilly swarm stop`: the flag is set for a live lease only.
RequestStop ==
    /\ lease' = [lease EXCEPT !.stop = lease.live]
    /\ UNCHANGED <<queueVars, applied, waiting, allowed, attempt, agents, coord, recov, exec>>

Signal(c) ==
    /\ coord[c].pc \notin {"off", "over", "dead"} /\ ~coord[c].stop
    /\ coord' = [coord EXCEPT ![c].stop = TRUE]
    /\ CoordOnly /\ UNCHANGED queueVars

\* `whilly swarm rerun`: a failed task of the applied revision is pending again.
Rerun(t) ==
    /\ RevisionOf[t] = applied /\ task[t].status = "FAILED" /\ task[t].version <= MaxVersion
    /\ task' = [task EXCEPT ![t] = Freed(@, "PENDING")]
    /\ Record(t, "RESET", NoWorker)
    /\ waiting' = IF Deps[t] = {} THEN waiting ELSE waiting \cup {t}
    /\ allowed' = [allowed EXCEPT ![t] = IF @ > Counted(t) THEN @ ELSE Counted(t) + 1]
    /\ UNCHANGED <<review, plan, worker, paused, stale, lease, applied, attempt, agents, coord, recov, exec>>

\* apply_revision: no live lease and nothing in flight; what is pending is
\* superseded and the tasks of r come in.
ApplyRevision(r) ==
    LET new == {t \in Tasks : RevisionOf[t] = r}
        old == {t \in Tasks : task[t].status = "PENDING"}
    IN  /\ ~lease.live /\ r > applied /\ InFlight = {}
        /\ task' = [t \in Tasks |-> IF t \in new THEN NewRow
                                    ELSE IF t \in old THEN Freed(task[t], "SKIPPED") ELSE task[t]]
        /\ RecordAll(old, "SKIP", [t \in Tasks |-> NoWorker])
        /\ waiting' = waiting \cup {t \in new : Deps[t] # {}}
        /\ applied' = r
        /\ UNCHANGED <<review, plan, worker, paused, stale,
                       lease, allowed, attempt, agents, coord, recov, exec>>

\* No beat came in time.
LeaseExpires ==
    /\ lease.live
    /\ lease' = [lease EXCEPT !.live = FALSE]
    /\ UNCHANGED <<queueVars, applied, waiting, allowed, attempt, agents, coord, recov, exec>>

AgentExits(i, m) ==
    /\ <<i, m>> \in agents
    /\ agents' = agents \ {<<i, m>>}
    /\ UNCHANGED <<queueVars, lease, applied, waiting, allowed, attempt, coord, recov, exec>>

-----------------------------------------------------------------------------

ExecStep(c, t) ==
    \/ Fetch(c, t) \/ CheckBudget(c, t) \/ StartTask(c, t) \/ OpenAttempt(c, t) \/ Launch(c, t)
    \/ RecordPgid(c, t) \/ ClearPgid(c, t) \/ Judge(c, t) \/ Accept(c, t) \/ Unblock(c, t)
    \/ Raise(c, t) \/ FailTask(c, t) \/ CloseAttempt(c, t) \/ ReleaseTask(c, t) \/ HandlerRaises(c, t)

CoordStep(c) ==
    \/ AcquireLease(c) \/ LeaseRefused(c) \/ RecoverRead(c) \/ AbandonAttempt(c) \/ RecoverScan(c)
    \/ RecoverTask(c) \/ RecoverEnds(c) \/ Poll(c) \/ ClaimNext(c) \/ ClaimsEnd(c) \/ Collect(c)
    \/ StopRunning(c) \/ LoopRaises(c) \/ Stopped(c) \/ Leave(c)
    \/ \E t \in Tasks : ExecStep(c, t)

SwarmOperator ==
    \/ RequestStop
    \/ \E t \in Tasks : Rerun(t)
    \/ \E r \in 1..Revisions : ApplyRevision(r)

SwarmNext ==
    \/ \E c \in Coordinators :
        \/ Begin(c) \/ CoordStep(c) \/ Heartbeat(c) \/ Crash(c) \/ Signal(c)
        \/ \E t \in Tasks : RunEnds(c, t)
    \/ SwarmOperator
    \/ LeaseExpires
    \/ \E i \in Ids, m \in Modes : AgentExits(i, m)
    \/ SweepStep /\ UNCHANGED swarmVars
    \/ TimeStep /\ UNCHANGED swarmVars

SwarmSpec == SwarmInit /\ [][SwarmNext]_vars
-----------------------------------------------------------------------------

\* At most one worker agent ever works on a task, in whatever order the
\* coordinators that started them die, stall, stop or take over: an agent
\* left behind keeps everyone else from the task as long as it may live.
OneWorkerAgent ==
    \A i, j \in Ids :
        <<i, "worker">> \in agents /\ <<j, "worker">> \in agents /\ attempt[i].task = attempt[j].task
            => i = j

\* A task is accepted once, and the evidence never outruns the task: nobody
\* who lost the claim, the lease or the attempt gets a result accepted.
AcceptedOnce ==
    \A i \in Ids : attempt[i].status = "accepted" =>
        /\ task[attempt[i].task].status = "DONE"
        /\ \A j \in Ids : attempt[j].task = attempt[i].task /\ attempt[j].status \in {"accepted", "running"}
                            => i = j

\* A task that is done has its accepted attempt.
DoneHasEvidence ==
    \A t \in Tasks : task[t].status = "DONE" => HasEvidence(t)
=============================================================================
