---------------------------- MODULE SwarmProofs ----------------------------
(***************************************************************************)
(* Theorems about SwarmCoordinator for every value of its constants: any   *)
(* number of coordinators, hosts, tasks, attempts and revisions, any       *)
(* limits, and any schedule of crashes, stalls, takeovers, stops, re-runs  *)
(* and sweeps.                                                             *)
(***************************************************************************)
EXTENDS SwarmCoordinator, TaskQueueProofs, FiniteSetTheorems

Execs == [pc : ExecStates, version : Nat, attempt : Ids \cup {NoAttempt}, mode : Modes]

\* What the coordinators do to the queue through its repository: they claim
\* what does not wait, and write to what they have.
QueueCall ==
    \/ \E c \in Coordinators : \E t \in Open(c) : Claim(c, t)
    \/ \E t \in Tasks : Start(t, task[t].version)
    \/ \E t \in Tasks, cost \in Costs : Complete(t, task[t].version, cost)
    \/ \E t \in Tasks : Fail(t, task[t].version)
    \/ \E t \in Tasks : Release(t, task[t].version)
    \/ \E c \in Coordinators : RegisterWorker(c)
    \/ SweepStep
    \/ TimeStep
    \/ UNCHANGED queueVars

-----------------------------------------------------------------------------
(* The steps of the queue.                                                 *)

LEMMA ExecCalls ==
    ASSUME NEW c \in Coordinators, NEW t \in Tasks, ExecStep(c, t)
    PROVE  QueueCall
PROOF
<1>1. CASE StartTask(c, t)
  BY <1>1 DEF StartTask, Start, Matches, QueueCall
<1>2. CASE Accept(c, t)
  <2>1. ASSUME NEW cost \in Costs, Complete(t, exec[c][t].version, cost)
        PROVE  Complete(t, task[t].version, cost)
    BY <2>1 DEF Complete, Matches
  <2> QED BY <1>2, <2>1 DEF Accept, QueueCall
<1>3. CASE FailTask(c, t)
  BY <1>3 DEF FailTask, Fail, Matches, QueueCall
<1>4. CASE ReleaseTask(c, t)
  BY <1>4 DEF ReleaseTask, Release, Matches, QueueCall
<1>5. CASE UNCHANGED queueVars
  BY <1>5 DEF QueueCall
<1> QED
  BY <1>1, <1>2, <1>3, <1>4, <1>5
  DEF ExecStep, Fetch, CheckBudget, OpenAttempt, Launch, RecordPgid, ClearPgid, Judge, Unblock,
      Raise, CloseAttempt, HandlerRaises

LEMMA CoordCalls ==
    ASSUME SwarmTypeOK, NEW c \in Coordinators, CoordStep(c)
    PROVE  QueueCall
PROOF
<1>1. CASE AcquireLease(c)
  BY <1>1 DEF AcquireLease, QueueCall
<1>2. CASE RecoverTask(c)
  <2>1. PICK tv \in recov[c].tasks :
          Fail(tv[1], tv[2]) \/ Release(tv[1], tv[2]) \/ UNCHANGED queueVars
    BY <1>2 DEF RecoverTask
  <2>2. tv[1] \in Tasks
    BY DEF SwarmTypeOK
  <2> QED BY <2>1, <2>2 DEF Fail, Release, Matches, QueueCall
<1>3. CASE ClaimNext(c) \/ LoopRaises(c)
  BY <1>3 DEF ClaimNext, LoopRaises, QueueCall
<1>4. CASE \E t \in Tasks : ExecStep(c, t)
  BY <1>4, ExecCalls
<1>5. CASE UNCHANGED queueVars
  BY <1>5 DEF QueueCall
<1> QED
  BY <1>1, <1>2, <1>3, <1>4, <1>5
  DEF CoordStep, LeaseRefused, RecoverRead, AbandonAttempt, RecoverScan, RecoverEnds, Poll,
      ClaimsEnd, Collect, StopRunning, Stopped, Leave

LEMMA CallIsQueueStep == QueueCall => [QueueNext]_queueVars
PROOF
<1>1. ASSUME NEW c \in Coordinators, NEW t \in Open(c)
      PROVE  c \in Workers /\ t \in Tasks
  BY QueueAssumption DEF Open, Claimable, Coordinators
<1> QED BY <1>1 DEF QueueCall, QueueNext, CallerStep, Coordinators

\* Three steps write the rows without the repository.
LEMMA SwarmCalls ==
    ASSUME SwarmTypeOK, SwarmNext
    PROVE  \/ QueueCall
           \/ \E c \in Coordinators : Heartbeat(c)
           \/ \E t \in Tasks : Rerun(t)
           \/ \E r \in 1..Revisions : ApplyRevision(r)
PROOF
<1>1. ASSUME NEW c \in Coordinators,
             Begin(c) \/ Crash(c) \/ Signal(c) \/ \E t \in Tasks : RunEnds(c, t)
      PROVE  UNCHANGED queueVars
  BY <1>1 DEF Begin, Crash, Signal, RunEnds
<1>2. CASE RequestStop \/ LeaseExpires \/ \E i \in Ids, m \in Modes : AgentExits(i, m)
  BY <1>2 DEF RequestStop, LeaseExpires, AgentExits, QueueCall
<1> QED BY <1>1, <1>2, CoordCalls DEF SwarmNext, SwarmOperator, QueueCall

-----------------------------------------------------------------------------
(* Types.                                                                  *)

\* The tables ...
StoreOK ==
    /\ lease \in [holder : Coordinators \cup {NoWorker}, live : BOOLEAN, stop : BOOLEAN]
    /\ applied \in 0..Revisions
    /\ waiting \subseteq Tasks
    /\ allowed \in [Tasks -> Nat]
    /\ attempt \in [Ids -> AttemptRows]
    /\ agents \subseteq Ids \X Modes

\* ... and the processes.
CoordOK ==
    /\ coord \in [Coordinators -> [pc : CoordStates, stop : BOOLEAN, lost : BOOLEAN, rev : 0..Revisions]]
    /\ recov \in [Coordinators -> [attempts : SUBSET Ids, tasks : SUBSET (Tasks \X Nat)]]

ExecOK == exec \in [Coordinators -> [Tasks -> Execs]]

LEMMA TypeParts == SwarmTypeOK <=> QueueTypeOK /\ StoreOK /\ CoordOK /\ ExecOK
BY DEF SwarmTypeOK, StoreOK, CoordOK, ExecOK, Execs

LEMMA GotoType ==
    ASSUME ExecOK, NEW c \in Coordinators, NEW t \in Tasks
    PROVE  /\ exec[c][t] \in Execs
           /\ \A f \in Execs : [exec EXCEPT ![c][t] = f] \in [Coordinators -> [Tasks -> Execs]]
           /\ \A pc \in ExecStates : Goto(c, t, pc) => ExecOK'
PROOF
<1>1. exec[c][t] \in Execs
  BY DEF ExecOK
<1>2. ASSUME NEW f \in Execs
      PROVE  [exec EXCEPT ![c][t] = f] \in [Coordinators -> [Tasks -> Execs]]
  <2>1. [exec[c] EXCEPT ![t] = f] \in [Tasks -> Execs]
    BY DEF ExecOK
  <2> QED BY <2>1 DEF ExecOK
<1>3. ASSUME NEW pc \in ExecStates, Goto(c, t, pc)
      PROVE  ExecOK'
  <2>1. [exec[c][t] EXCEPT !.pc = pc] \in Execs
    BY <1>1 DEF Execs
  <2>2. exec' = [exec EXCEPT ![c][t] = [exec[c][t] EXCEPT !.pc = pc]]
    BY <1>3 DEF Goto
  <2> QED BY <1>2, <2>1, <2>2 DEF ExecOK
<1> QED BY <1>1, <1>2, <1>3

LEMMA StateNames ==
    /\ {"none", "fetching", "done"} \subseteq ExecStates
    /\ {"checking", "starting", "opening", "preparing", "spawned", "working", "ended",
        "judging", "accepting", "unblocking", "limbo"} \subseteq ExecStates
    /\ {"failing", "closing", "losing", "withdrawing", "releasing"} \subseteq ExecStates
    /\ Idle \in Execs
    /\ NoAttempt \notin Ids
BY SwarmAssumption DEF ExecStates, Body, Handlers, Idle, Execs, Modes, NoAttempt, Ids

LEMMA FinishedType ==
    ASSUME StoreOK, NEW i \in Ids, NEW s \in {"accepted", "failed", "cancelled", "abandoned"}
    PROVE  /\ Finished(i, s) \in [Ids -> AttemptRows]
           /\ Finished(i, s)[i].task = attempt[i].task /\ Finished(i, s)[i].by = attempt[i].by
           /\ Finished(i, s)[i].status = s
           /\ \A j \in Ids : j # i => Finished(i, s)[j] = attempt[j]
PROOF
<1>1. attempt[i] \in AttemptRows
  BY DEF StoreOK
<1>2. [attempt[i] EXCEPT !.status = s, !.pgid = FALSE] \in AttemptRows
  BY <1>1 DEF AttemptRows
<1>3. Finished(i, s) = [attempt EXCEPT ![i] = [attempt[i] EXCEPT !.status = s, !.pgid = FALSE]]
  BY DEF Finished
<1> QED BY <1>1, <1>2, <1>3 DEF StoreOK, AttemptRows

\* Where a coroutine has opened its attempt for good.
Attempting == {"preparing", "spawned", "working", "ended", "judging", "accepting", "unblocking"}

HasAttempt == \A c \in Coordinators, t \in Tasks :
    exec[c][t].pc \in Attempting => exec[c][t].attempt \in Ids

\* What a step may change of the coroutines, for HasAttempt.
LEMMA GotoKeepsAttempt ==
    ASSUME ExecOK, HasAttempt, NEW c \in Coordinators, NEW t \in Tasks, NEW pc \in ExecStates,
           Goto(c, t, pc), pc \in Attempting => exec[c][t].pc \in Attempting
    PROVE  ExecOK' /\ HasAttempt'
PROOF
<1>1. exec' = [exec EXCEPT ![c][t] = [exec[c][t] EXCEPT !.pc = pc]]
  BY DEF Goto
<1>2. ASSUME NEW d \in Coordinators, NEW u \in Tasks
      PROVE  /\ exec'[d][u].attempt = exec[d][u].attempt
             /\ exec'[d][u].pc \in Attempting => exec[d][u].pc \in Attempting
  <2>1. CASE d = c /\ u = t
    BY <1>1, <2>1, GotoType DEF ExecOK, Execs
  <2>2. CASE ~(d = c /\ u = t)
    BY <1>1, <2>2 DEF ExecOK
  <2> QED BY <2>1, <2>2
<1> QED BY <1>2, GotoType DEF HasAttempt

LEMMA SetExec ==
    ASSUME ExecOK, HasAttempt, NEW c \in Coordinators, NEW t \in Tasks, NEW f \in Execs,
           exec' = [exec EXCEPT ![c][t] = f], f.pc \in Attempting => f.attempt \in Ids
    PROVE  ExecOK' /\ HasAttempt'
PROOF
<1>1. ASSUME NEW d \in Coordinators, NEW u \in Tasks
      PROVE  exec'[d][u] = IF d = c /\ u = t THEN f ELSE exec[d][u]
  BY DEF ExecOK
<1>2. ExecOK'
  BY GotoType DEF ExecOK
<1> QED BY <1>1, <1>2 DEF HasAttempt

LEMMA StoreKept ==
    ASSUME StoreOK, UNCHANGED <<lease, applied, waiting, allowed, attempt, agents>>
    PROVE  StoreOK'
BY DEF StoreOK

LEMMA CoordKept ==
    ASSUME CoordOK, UNCHANGED <<coord, recov>>
    PROVE  CoordOK'
BY DEF CoordOK

LEMMA FreshOpened ==
    ASSUME StoreOK, NEW i \in Ids, NEW t \in Tasks, NEW c \in Coordinators
    PROVE  [attempt EXCEPT ![i] = [task |-> t, by |-> c, pgid |-> FALSE, status |-> "running"]]
              \in [Ids -> AttemptRows]
BY DEF StoreOK, AttemptRows

LEMMA ExecTypes ==
    ASSUME SwarmTypeOK, HasAttempt, NEW c \in Coordinators, NEW t \in Tasks,
           ExecStep(c, t) \/ RunEnds(c, t)
    PROVE  StoreOK' /\ CoordOK' /\ ExecOK' /\ HasAttempt'
PROOF
<1>0. StoreOK /\ CoordOK /\ ExecOK /\ QueueTypeOK /\ exec[c][t] \in Execs
  BY TypeParts, GotoType
<1> DEFINE e == exec[c][t]
<1>a. /\ UNCHANGED <<coord, recov>> => CoordOK'
      /\ UNCHANGED <<lease, applied, waiting, allowed, attempt, agents>> => StoreOK'
  BY <1>0, StoreKept, CoordKept
<1>1. CASE Fetch(c, t) \/ CheckBudget(c, t) \/ FailTask(c, t) \/ ReleaseTask(c, t) \/ HandlerRaises(c, t)
  BY <1>0, <1>1, <1>a, GotoKeepsAttempt, StateNames
  DEF Fetch, CheckBudget, FailTask, ReleaseTask, HandlerRaises, ExecOnly, Attempting
<1>2. CASE StartTask(c, t)
  <2>1. CASE Goto(c, t, "losing")
    BY <1>0, <1>2, <1>a, <2>1, GotoKeepsAttempt, StateNames DEF StartTask, ExecOnly, Attempting
  <2>2. ASSUME NEW f \in {[e EXCEPT !.pc = "opening", !.version = @ + 1], [e EXCEPT !.pc = "limbo"]},
               exec' = [exec EXCEPT ![c][t] = f]
        PROVE  ExecOK' /\ HasAttempt'
    <3>1. e.version + 1 \in Nat
      BY <1>0 DEF Execs
    <3>2. f \in Execs /\ f.pc \notin Attempting
      BY <1>0, <2>2, <3>1, StateNames DEF Execs, Attempting
    <3> QED BY <1>0, <2>2, <3>2, SetExec
  <2> QED BY <1>2, <1>a, <2>1, <2>2 DEF StartTask, ExecOnly
<1>3. CASE OpenAttempt(c, t)
  <2>1. CASE Goto(c, t, "failing") /\ UNCHANGED attempt
    BY <1>0, <1>3, <1>a, <2>1, GotoKeepsAttempt, StateNames DEF OpenAttempt, Attempting
  <2>2. ASSUME NEW i \in Ids,
               NEW f \in {[e EXCEPT !.pc = "preparing", !.attempt = i], [e EXCEPT !.pc = "limbo"]},
               exec' = [exec EXCEPT ![c][t] = f],
               attempt' = [attempt EXCEPT ![i] = [task |-> t, by |-> c, pgid |-> FALSE, status |-> "running"]]
        PROVE  ExecOK' /\ HasAttempt' /\ StoreOK'
    <3>1. f \in Execs /\ (f.pc \in Attempting => f.attempt \in Ids)
      BY <1>0, <2>2, StateNames DEF Execs, Attempting
    <3>2. StoreOK'
      BY <1>0, <1>3, <2>2, FreshOpened DEF OpenAttempt, StoreOK
    <3> QED BY <1>0, <2>2, <3>1, <3>2, SetExec
  <2> QED BY <1>3, <1>a, <2>1, <2>2 DEF OpenAttempt
<1>4. CASE Launch(c, t)
  <2>1. e.attempt \in Ids /\ e.mode \in Modes /\ e.pc \in Attempting
    BY <1>0, <1>4 DEF Launch, At, HasAttempt, Attempting, Execs
  <2>2. StoreOK'
    BY <1>0, <1>4, <2>1 DEF Launch, StoreOK
  <2> QED BY <1>0, <1>4, <1>a, <2>1, <2>2, GotoKeepsAttempt, StateNames DEF Launch, Attempting
<1>5. CASE RecordPgid(c, t) \/ ClearPgid(c, t)
  <2>1. e.attempt \in Ids /\ e.pc \in Attempting
    BY <1>0, <1>5 DEF RecordPgid, ClearPgid, At, HasAttempt, Attempting
  <2>2. attempt' \in [Ids -> AttemptRows]
    <3>1. \A b \in BOOLEAN : [attempt[e.attempt] EXCEPT !.pgid = b] \in AttemptRows
      BY <1>0, <2>1 DEF StoreOK, AttemptRows
    <3>2. \E b \in BOOLEAN : attempt' = [attempt EXCEPT ![e.attempt] = [attempt[e.attempt] EXCEPT !.pgid = b]]
      BY <1>5 DEF RecordPgid, ClearPgid
    <3> QED BY <1>0, <2>1, <3>1, <3>2 DEF StoreOK
  <2>3. StoreOK'
    BY <1>0, <1>5, <2>2 DEF RecordPgid, ClearPgid, StoreOK
  <2> QED BY <1>0, <1>5, <1>a, <2>1, <2>3, GotoKeepsAttempt, StateNames DEF RecordPgid, ClearPgid, Attempting
<1>6. CASE RunEnds(c, t) \/ Raise(c, t)
  <2>1. agents' \subseteq agents
    BY <1>6 DEF RunEnds, Raise
  <2>2. StoreOK'
    BY <1>0, <1>6, <2>1 DEF RunEnds, Raise, StoreOK
  <2> QED
    BY <1>0, <1>6, <1>a, <2>2, GotoKeepsAttempt, StateNames DEF RunEnds, Raise, At, Attempting
<1>7. CASE Judge(c, t)
  <2>1. e.attempt \in Ids /\ e.pc \in Attempting
    BY <1>0, <1>7 DEF Judge, At, HasAttempt, Attempting
  <2>2. CASE exec' = [exec EXCEPT ![c][t].pc = "preparing", ![c][t].mode = "review"]
    <3>1. exec' = [exec EXCEPT ![c][t] = [e EXCEPT !.pc = "preparing", !.mode = "review"]]
      BY <1>0, <2>2 DEF ExecOK
    <3>2. [e EXCEPT !.pc = "preparing", !.mode = "review"] \in Execs
      BY <1>0, StateNames DEF Execs, Modes
    <3>3. [e EXCEPT !.pc = "preparing", !.mode = "review"].attempt = e.attempt
      BY <1>0 DEF Execs
    <3> QED BY <1>0, <1>7, <1>a, <2>1, <3>1, <3>2, <3>3, SetExec DEF Judge, ExecOnly
  <2>3. CASE \E pc \in {"withdrawing", "accepting", "failing"} : Goto(c, t, pc)
    BY <1>0, <1>7, <1>a, <2>1, <2>3, GotoKeepsAttempt, StateNames DEF Judge, ExecOnly
  <2> QED BY <1>7, <2>2, <2>3 DEF Judge
<1>8. CASE Accept(c, t)
  <2>1. e.attempt \in Ids /\ e.pc \in Attempting
    BY <1>0, <1>8 DEF Accept, At, HasAttempt, Attempting
  <2>2. attempt' \in [Ids -> AttemptRows]
    BY <1>0, <1>8, <2>1, FinishedType DEF Accept, StoreOK
  <2>3. StoreOK'
    BY <1>0, <1>8, <2>2 DEF Accept, StoreOK
  <2> QED BY <1>0, <1>8, <1>a, <2>1, <2>3, GotoKeepsAttempt, StateNames DEF Accept, Attempting
<1>9. CASE CloseAttempt(c, t)
  <2>1. PICK pc \in DOMAIN Outcome : e.pc = pc
    BY <1>9 DEF CloseAttempt, At
  <2>2. Outcome[pc] \in {"accepted", "failed", "cancelled", "abandoned"}
    BY DEF Outcome
  <2>3. attempt' \in [Ids -> AttemptRows]
    BY <1>0, <1>9, <2>1, <2>2, FinishedType DEF CloseAttempt, StoreOK, Execs
  <2>4. StoreOK'
    BY <1>0, <1>9, <2>3 DEF CloseAttempt, StoreOK
  <2> QED BY <1>0, <1>9, <1>a, <2>4, GotoKeepsAttempt, StateNames DEF CloseAttempt, Attempting
<1>10. CASE Unblock(c, t)
  <2>1. StoreOK'
    BY <1>0, <1>10 DEF Unblock, StoreOK
  <2> QED BY <1>0, <1>10, <1>a, <2>1, GotoKeepsAttempt, StateNames DEF Unblock, Attempting
<1> QED
  BY <1>1, <1>2, <1>3, <1>4, <1>5, <1>6, <1>7, <1>8, <1>9, <1>10 DEF ExecStep

LEMMA MoveType ==
    ASSUME CoordOK, NEW c \in Coordinators, NEW pc \in CoordStates, MoveTo(c, pc),
           recov' \in [Coordinators -> [attempts : SUBSET Ids, tasks : SUBSET (Tasks \X Nat)]]
    PROVE  CoordOK'
BY DEF CoordOK, MoveTo

LEMMA CoordNames ==
    /\ {"off", "begun", "recovering", "abandoning", "freeing", "stopping", "leaving", "over", "dead"}
           \subseteq CoordStates
    /\ {"polling", "claiming", "waiting"} \subseteq CoordStates
BY DEF CoordStates, CoordRunning

LEMMA CancelledType ==
    ASSUME NEW e \in Execs, e.pc \in Attempting => e.attempt \in Ids
    PROVE  /\ Cancelled(e) \in Execs
           /\ Cancelled(e).attempt = e.attempt
           /\ Cancelled(e).pc \notin Attempting
PROOF
<1>1. \A pc \in ExecStates : [e EXCEPT !.pc = pc] \in Execs /\ [e EXCEPT !.pc = pc].attempt = e.attempt
                               /\ [e EXCEPT !.pc = pc].pc = pc
  BY DEF Execs
<1>2. CASE e.pc \in Body \cup {"withdrawing", "releasing"}
  BY <1>1, <1>2, StateNames DEF Cancelled, Attempting
<1>3. CASE e.pc \in {"fetching", "failing", "closing", "losing"}
  <2>1. e.pc \notin Body \cup {"withdrawing", "releasing"}
    BY <1>3 DEF Body
  <2> QED BY <1>1, <1>3, <2>1, StateNames DEF Cancelled, Attempting
<1>4. CASE e.pc \in {"none", "done"}
  <2>1. e.pc \notin Body \cup {"withdrawing", "releasing"}
        /\ e.pc \notin {"fetching", "failing", "closing", "losing"}
    BY <1>4 DEF Body
  <2> QED BY <1>4, <2>1 DEF Cancelled, Attempting
<1> QED BY <1>2, <1>3, <1>4 DEF Execs, ExecStates, Handlers, Body

LEMMA CancelTypes ==
    ASSUME SwarmTypeOK, HasAttempt, NEW c \in Coordinators, CancelAll(c),
           UNCHANGED <<lease, applied, waiting, allowed, attempt, recov>>
    PROVE  StoreOK' /\ CoordOK' /\ ExecOK' /\ HasAttempt'
PROOF
<1>0. StoreOK /\ CoordOK /\ ExecOK
  BY TypeParts
<1>1. StoreOK'
  BY <1>0 DEF CancelAll, StoreOK
<1>2. CoordOK'
  BY <1>0, MoveType, CoordNames DEF CancelAll, CoordOK
<1>3. \A t \in Tasks : exec[c][t] \in Execs /\ (exec[c][t].pc \in Attempting => exec[c][t].attempt \in Ids)
  BY <1>0 DEF ExecOK, HasAttempt
<1>4. exec' = [exec EXCEPT ![c] = [t \in Tasks |-> Cancelled(exec[c][t])]]
  BY DEF CancelAll
<1>5. \A t \in Tasks : Cancelled(exec[c][t]) \in Execs /\ Cancelled(exec[c][t]).pc \notin Attempting
  BY <1>3, CancelledType
<1>6. ExecOK' /\ HasAttempt'
  <2>1. ASSUME NEW d \in Coordinators, NEW u \in Tasks
        PROVE  exec'[d][u] = IF d = c THEN Cancelled(exec[c][u]) ELSE exec[d][u]
    BY <1>0, <1>4 DEF ExecOK
  <2>2. [t \in Tasks |-> Cancelled(exec[c][t])] \in [Tasks -> Execs]
    BY <1>5
  <2>3. ExecOK'
    BY <1>0, <1>4, <2>2 DEF ExecOK
  <2> QED BY <1>5, <2>1, <2>3 DEF HasAttempt
<1> QED BY <1>1, <1>2, <1>6

LEMMA IdleTypes ==
    ASSUME ExecOK, HasAttempt, NEW c \in Coordinators, NEW g \in [Tasks -> Execs],
           exec' = [exec EXCEPT ![c] = g],
           \A t \in Tasks : g[t] \in {Idle, exec[c][t]}
    PROVE  ExecOK' /\ HasAttempt'
PROOF
<1>1. ASSUME NEW d \in Coordinators, NEW u \in Tasks
      PROVE  exec'[d][u] = IF d = c THEN g[u] ELSE exec[d][u]
  BY DEF ExecOK
<1>2. ExecOK'
  BY DEF ExecOK
<1>3. Idle.pc \notin Attempting
  BY DEF Idle, Attempting
<1> QED BY <1>1, <1>2, <1>3 DEF HasAttempt

\* The steps that end the coroutines of c.
LEMMA DropTypes ==
    ASSUME SwarmTypeOK, HasAttempt, NEW c \in Coordinators, Collect(c) \/ Stopped(c) \/ Crash(c)
    PROVE  StoreOK' /\ CoordOK' /\ ExecOK' /\ HasAttempt'
PROOF
<1>0. StoreOK /\ CoordOK /\ ExecOK
  BY TypeParts
<1>1. StoreOK'
  BY <1>0 DEF Collect, Stopped, Crash, StoreOK
<1>2. CoordOK'
  BY <1>0, MoveType, CoordNames DEF Collect, Stopped, Crash, CoordOK
<1>3. \E g \in [Tasks -> Execs] :
        exec' = [exec EXCEPT ![c] = g] /\ \A t \in Tasks : g[t] \in {Idle, exec[c][t]}
  <2>1. \A t \in Tasks : exec[c][t] \in Execs /\ Idle \in Execs
    BY <1>0, StateNames DEF ExecOK
  <2>2. CASE Collect(c)
    <3> DEFINE g == [t \in Tasks |-> IF exec[c][t].pc = "done" THEN Idle ELSE exec[c][t]]
    <3>1. exec' = [exec EXCEPT ![c] = g]
      BY <2>2 DEF Collect
    <3>2. g \in [Tasks -> Execs] /\ \A t \in Tasks : g[t] \in {Idle, exec[c][t]}
      BY <2>1
    <3> HIDE DEF g
    <3> QED BY <3>1, <3>2
  <2>3. CASE Stopped(c) \/ Crash(c)
    <3> DEFINE g == [t \in Tasks |-> Idle]
    <3>1. exec' = [exec EXCEPT ![c] = g]
      BY <2>3 DEF Stopped, Crash
    <3>2. g \in [Tasks -> Execs] /\ \A t \in Tasks : g[t] \in {Idle, exec[c][t]}
      BY <2>1
    <3> HIDE DEF g
    <3> QED BY <3>1, <3>2
  <2> QED BY <2>2, <2>3
<1>4. ExecOK' /\ HasAttempt'
  BY <1>0, <1>3, IdleTypes
<1> QED BY <1>1, <1>2, <1>4

LEMMA ClaimTypes ==
    ASSUME SwarmTypeOK, HasAttempt, NEW c \in Coordinators, ClaimNext(c)
    PROVE  StoreOK' /\ CoordOK' /\ ExecOK' /\ HasAttempt'
PROOF
<1>0. StoreOK /\ CoordOK /\ ExecOK /\ QueueTypeOK
  BY TypeParts
<1>1. StoreOK'
  BY <1>0 DEF ClaimNext, StoreOK
<1>2. PICK t \in Open(c) :
        IF t \in Busy(c)
        THEN coord' = [coord EXCEPT ![c].pc = "waiting", ![c].stop = TRUE] /\ UNCHANGED exec
        ELSE /\ exec' = [exec EXCEPT ![c][t] = [Idle EXCEPT !.pc = "fetching", !.version = task[t].version + 1]]
             /\ UNCHANGED coord
  BY DEF ClaimNext
<1>3. t \in Tasks
  BY QueueAssumption DEF Open, Claimable, Coordinators
<1>4. CoordOK'
  <2>1. CASE coord' = [coord EXCEPT ![c].pc = "waiting", ![c].stop = TRUE]
    BY <1>0, <2>1, CoordNames DEF ClaimNext, CoordOK
  <2> QED BY <1>0, <1>2, <2>1 DEF ClaimNext, CoordOK
<1>5. ExecOK' /\ HasAttempt'
  <2>1. CASE UNCHANGED exec
    BY <1>0, <2>1 DEF ExecOK, HasAttempt
  <2>2. CASE exec' = [exec EXCEPT ![c][t] = [Idle EXCEPT !.pc = "fetching", !.version = task[t].version + 1]]
    <3>1. task[t].version + 1 \in Nat
      BY <1>0, <1>3 DEF QueueTypeOK, Rows
    <3>2. [Idle EXCEPT !.pc = "fetching", !.version = task[t].version + 1] \in Execs
      BY <3>1, StateNames DEF Execs
    <3>3. [Idle EXCEPT !.pc = "fetching", !.version = task[t].version + 1].pc \notin Attempting
      BY DEF Idle, Attempting
    <3> QED BY <1>0, <1>3, <2>2, <3>2, <3>3, SetExec
  <2> QED BY <1>2, <2>1, <2>2
<1> QED BY <1>1, <1>4, <1>5

LEMMA RecoverTypes ==
    ASSUME SwarmTypeOK, NEW c \in Coordinators,
           \/ RecoverRead(c) \/ AbandonAttempt(c) \/ RecoverScan(c) \/ RecoverTask(c) \/ RecoverEnds(c)
    PROVE  StoreOK' /\ CoordOK'
PROOF
<1>0. StoreOK /\ CoordOK /\ QueueTypeOK
  BY TypeParts
<1>1. CASE RecoverRead(c)
  <2>1. StoreOK'
    BY <1>0, <1>1 DEF RecoverRead, StoreOK
  <2>2. \E pc \in {"leaving", "abandoning"} : MoveTo(c, pc)
    BY <1>1 DEF RecoverRead
  <2>3. {i \in Ids : attempt[i].status = "running"} \in SUBSET Ids
    OBVIOUS
  <2>4. recov' \in [Coordinators -> [attempts : SUBSET Ids, tasks : SUBSET (Tasks \X Nat)]]
    BY <1>0, <1>1, <2>3 DEF RecoverRead, CoordOK
  <2> QED BY <1>0, <2>1, <2>2, <2>4, MoveType, CoordNames
<1>2. CASE AbandonAttempt(c)
  <2>1. PICK i \in recov[c].attempts :
          attempt' = Finished(i, "abandoned") /\ recov' = [recov EXCEPT ![c].attempts = @ \ {i}]
    BY <1>2 DEF AbandonAttempt
  <2>2. i \in Ids /\ recov[c].attempts \ {i} \in SUBSET Ids
    BY <1>0, <2>1 DEF CoordOK
  <2>3. StoreOK'
    BY <1>0, <1>2, <2>1, <2>2, FinishedType DEF AbandonAttempt, StoreOK
  <2>4. CoordOK'
    BY <1>0, <1>2, <2>1, <2>2 DEF AbandonAttempt, CoordOK
  <2> QED BY <2>3, <2>4
<1>3. CASE RecoverScan(c)
  <2>1. StoreOK'
    BY <1>0, <1>3 DEF RecoverScan, StoreOK
  <2>2. {<<t, task[t].version>> : t \in {u \in InFlight : RevisionOf[u] = coord[c].rev}} \in SUBSET (Tasks \X Nat)
    BY <1>0 DEF InFlight, QueueTypeOK, Rows
  <2>3. recov' \in [Coordinators -> [attempts : SUBSET Ids, tasks : SUBSET (Tasks \X Nat)]]
    BY <1>0, <1>3, <2>2 DEF RecoverScan, CoordOK
  <2>4. MoveTo(c, "freeing")
    BY <1>3 DEF RecoverScan
  <2> QED BY <1>0, <2>1, <2>3, <2>4, MoveType, CoordNames
<1>4. CASE RecoverTask(c)
  <2>1. PICK tv \in recov[c].tasks : recov' = [recov EXCEPT ![c].tasks = @ \ {tv}]
    BY <1>4 DEF RecoverTask
  <2>2. recov[c].tasks \ {tv} \in SUBSET (Tasks \X Nat)
    BY <1>0 DEF CoordOK
  <2> QED BY <1>0, <1>4, <2>1, <2>2 DEF RecoverTask, StoreOK, CoordOK
<1>5. CASE RecoverEnds(c)
  BY <1>0, <1>5, MoveType, CoordNames DEF RecoverEnds, CoordOnly, StoreOK, CoordOK
<1> QED BY <1>1, <1>2, <1>3, <1>4, <1>5

LEMMA CoordTypes ==
    ASSUME SwarmTypeOK, HasAttempt, NEW c \in Coordinators, CoordStep(c)
    PROVE  StoreOK' /\ CoordOK' /\ ExecOK' /\ HasAttempt'
PROOF
<1>0. StoreOK /\ CoordOK /\ ExecOK
  BY TypeParts
<1>a. UNCHANGED exec => ExecOK' /\ HasAttempt'
  BY <1>0 DEF ExecOK, HasAttempt
<1>1. CASE AcquireLease(c)
  <2>1. lease' \in [holder : Coordinators \cup {NoWorker}, live : BOOLEAN, stop : BOOLEAN]
    BY <1>1 DEF AcquireLease
  <2>2. StoreOK'
    BY <1>0, <1>1, <2>1 DEF AcquireLease, StoreOK
  <2> QED BY <1>0, <1>a, <1>1, <2>2, MoveType, CoordNames DEF AcquireLease, CoordOK
<1>2. CASE LeaseRefused(c) \/ ClaimsEnd(c)
  BY <1>0, <1>a, <1>2, MoveType, CoordNames, StoreKept DEF LeaseRefused, ClaimsEnd, CoordOnly, CoordOK
<1>3. CASE \/ RecoverRead(c) \/ AbandonAttempt(c) \/ RecoverScan(c) \/ RecoverTask(c) \/ RecoverEnds(c)
  BY <1>a, <1>3, RecoverTypes
  DEF RecoverRead, AbandonAttempt, RecoverScan, RecoverTask, RecoverEnds, CoordOnly
<1>4. CASE Poll(c)
  <2>1. StoreOK'
    BY <1>0, <1>4 DEF Poll, StoreOK
  <2> QED BY <1>0, <1>a, <1>4, <2>1, MoveType, CoordNames DEF Poll, CoordOK
<1>5. CASE ClaimNext(c)
  BY <1>5, ClaimTypes
<1>6. CASE Collect(c) \/ Stopped(c)
  BY <1>6, DropTypes
<1>7. CASE StopRunning(c) \/ LoopRaises(c)
  BY <1>7, CancelTypes DEF StopRunning, LoopRaises
<1>8. CASE Leave(c)
  <2>1. lease' \in [holder : Coordinators \cup {NoWorker}, live : BOOLEAN, stop : BOOLEAN]
    BY <1>0, <1>8 DEF Leave, NoLease, StoreOK
  <2>2. StoreOK'
    BY <1>0, <1>8, <2>1 DEF Leave, StoreOK
  <2> QED BY <1>0, <1>a, <1>8, <2>2, MoveType, CoordNames DEF Leave, CoordOK
<1>9. CASE \E t \in Tasks : ExecStep(c, t)
  BY <1>9, ExecTypes
<1> QED BY <1>1, <1>2, <1>3, <1>4, <1>5, <1>6, <1>7, <1>8, <1>9 DEF CoordStep

LEMMA CountedType ==
    ASSUME NEW t \in Tasks
    PROVE  Counted(t) \in Nat
PROOF
<1>1. IsFiniteSet(Ids)
  BY FS_Interval, SwarmAssumption DEF Ids
<1>2. IsFiniteSet({i \in Ids : attempt[i].task = t /\ attempt[i].status # "cancelled"})
  BY <1>1, FS_Subset
<1> QED BY <1>2, FS_CardinalityType DEF Counted

\* The steps outside the loops.
LEMMA OtherTypes ==
    ASSUME SwarmTypeOK, HasAttempt,
           \/ \E c \in Coordinators : Begin(c) \/ Heartbeat(c) \/ Signal(c)
           \/ SwarmOperator \/ LeaseExpires
           \/ \E i \in Ids, m \in Modes : AgentExits(i, m)
    PROVE  StoreOK' /\ CoordOK' /\ ExecOK' /\ HasAttempt'
PROOF
<1>0. StoreOK /\ CoordOK /\ ExecOK
  BY TypeParts
<1>a. UNCHANGED exec
  BY DEF Begin, Heartbeat, Signal, SwarmOperator, RequestStop, Rerun, ApplyRevision, LeaseExpires,
         AgentExits, CoordOnly
<1>b. ExecOK' /\ HasAttempt'
  BY <1>0, <1>a DEF ExecOK, HasAttempt
<1>1. ASSUME NEW c \in Coordinators, Begin(c) \/ Signal(c)
      PROVE  StoreOK' /\ CoordOK'
  <2>1. CoordOK'
    <3>1. CASE Begin(c)
      BY <1>0, <3>1, CoordNames DEF Begin, CoordOnly, CoordOK, StoreOK
    <3>2. CASE Signal(c)
      BY <1>0, <3>2 DEF Signal, CoordOnly, CoordOK
    <3> QED BY <1>1, <3>1, <3>2
  <2> QED BY <1>0, <1>1, <2>1, StoreKept DEF Begin, Signal, CoordOnly
<1>2. ASSUME NEW c \in Coordinators, Heartbeat(c)
      PROVE  StoreOK' /\ CoordOK'
  <2>1. lease' \in [holder : Coordinators \cup {NoWorker}, live : BOOLEAN, stop : BOOLEAN]
    <3>1. CASE lease' = [lease EXCEPT !.live = TRUE]
      BY <1>0, <3>1 DEF StoreOK
    <3>2. CASE UNCHANGED lease
      BY <1>0, <3>2 DEF StoreOK
    <3> QED BY <1>2, <3>1, <3>2 DEF Heartbeat
  <2>2. StoreOK'
    BY <1>0, <1>2, <2>1 DEF Heartbeat, StoreOK
  <2>3. (coord[c].stop \/ lease.stop) \in BOOLEAN
    OBVIOUS
  <2>4. CoordOK'
    <3>1. CASE coord' = [coord EXCEPT ![c].stop = coord[c].stop \/ lease.stop]
      <4> DEFINE b == coord[c].stop \/ lease.stop
      <4>1. b \in BOOLEAN /\ coord' = [coord EXCEPT ![c].stop = b]
        BY <3>1, <2>3
      <4> HIDE DEF b
      <4> QED BY <1>0, <1>2, <4>1 DEF Heartbeat, CoordOK
    <3>2. CASE coord' = [coord EXCEPT ![c].lost = TRUE, ![c].stop = TRUE]
      BY <1>0, <1>2, <3>2 DEF Heartbeat, CoordOK
    <3> QED BY <1>2, <3>1, <3>2 DEF Heartbeat
  <2> QED BY <2>2, <2>4
<1>3. CASE RequestStop \/ LeaseExpires
  <2>1. lease' \in [holder : Coordinators \cup {NoWorker}, live : BOOLEAN, stop : BOOLEAN]
    BY <1>0, <1>3 DEF RequestStop, LeaseExpires, StoreOK
  <2>2. StoreOK'
    <3>1. UNCHANGED <<applied, waiting, allowed, attempt, agents>>
      BY <1>3 DEF RequestStop, LeaseExpires
    <3> QED BY <1>0, <2>1, <3>1 DEF StoreOK
  <2>3. UNCHANGED <<coord, recov>>
    BY <1>3 DEF RequestStop, LeaseExpires
  <2> QED BY <1>0, <1>b, <2>2, <2>3, CoordKept
<1>4. ASSUME NEW t \in Tasks, Rerun(t)
      PROVE  StoreOK' /\ CoordOK'
  <2>1. Counted(t) + 1 \in Nat /\ allowed[t] \in Nat
    BY <1>0, CountedType DEF StoreOK
  <2>2. \A n \in Nat : [allowed EXCEPT ![t] = n] \in [Tasks -> Nat]
    BY <1>0 DEF StoreOK
  <2>3. (IF allowed[t] > Counted(t) THEN allowed[t] ELSE Counted(t) + 1) \in Nat
    BY <2>1
  <2>4. allowed' \in [Tasks -> Nat]
    BY <1>4, <2>2, <2>3 DEF Rerun
  <2>5. waiting' \subseteq Tasks
    BY <1>0, <1>4 DEF Rerun, StoreOK
  <2> QED BY <1>0, <1>4, <2>4, <2>5 DEF Rerun, StoreOK, CoordOK
<1>5. ASSUME NEW r \in 1..Revisions, ApplyRevision(r)
      PROVE  StoreOK' /\ CoordOK'
  <2>1. waiting' \subseteq Tasks /\ applied' = r
    BY <1>0, <1>5 DEF ApplyRevision, StoreOK
  <2>2. r \in 0..Revisions
    BY SwarmAssumption
  <2> QED BY <1>0, <1>5, <2>1, <2>2 DEF ApplyRevision, StoreOK, CoordOK
<1>6. ASSUME NEW i \in Ids, NEW m \in Modes, AgentExits(i, m)
      PROVE  StoreOK' /\ CoordOK'
  BY <1>0, <1>6 DEF AgentExits, StoreOK, CoordOK
<1> QED BY <1>b, <1>1, <1>2, <1>3, <1>4, <1>5, <1>6 DEF SwarmOperator

\* The three steps that write rows on their own.
LEMMA OwnRows ==
    ASSUME SwarmTypeOK,
           \/ \E c \in Coordinators : Heartbeat(c)
           \/ \E t \in Tasks : Rerun(t)
           \/ \E r \in 1..Revisions : ApplyRevision(r)
    PROVE  QueueTypeOK'
PROOF
<1>0. QueueTypeOK
  BY TypeParts
<1>1. ASSUME NEW c \in Coordinators, Heartbeat(c), lease.holder = c
      PROVE  QueueTypeOK'
  <2>1. task' \in [Tasks -> Rows]
    <3>1. \A t \in Tasks : task'[t] \in Rows
      <4> TAKE t \in Tasks
      <4>1. task[t] \in Rows /\ [task[t] EXCEPT !.aged = FALSE] \in Rows
        BY <1>0 DEF QueueTypeOK, Rows
      <4>2. task'[t] \in {task[t], [task[t] EXCEPT !.aged = FALSE]}
        BY <1>1 DEF Heartbeat
      <4> QED BY <4>1, <4>2
    <3>2. DOMAIN task' = Tasks /\ task' = [t \in Tasks |-> task'[t]]
      BY <1>1 DEF Heartbeat
    <3> QED BY <3>1, <3>2
  <2>2. worker' \in [Workers -> WorkerRows]
    <3>1. [worker[c] EXCEPT !.status = "online", !.silent = FALSE] \in WorkerRows
      BY <1>0 DEF QueueTypeOK, WorkerRows, Coordinators
    <3>2. worker' = [worker EXCEPT ![c] = [worker[c] EXCEPT !.status = "online", !.silent = FALSE]]
      BY <1>0, <1>1 DEF Heartbeat, QueueTypeOK, Coordinators
    <3> QED BY <1>0, <3>1, <3>2 DEF QueueTypeOK, Coordinators
  <2> QED BY <1>0, <1>1, <2>1, <2>2 DEF Heartbeat, QueueTypeOK
<1>2. ASSUME NEW c \in Coordinators, Heartbeat(c), lease.holder # c
      PROVE  QueueTypeOK'
  BY <1>0, <1>2 DEF Heartbeat, queueVars, QueueTypeOK
<1>a. "RESET" \in TransitionEvents /\ "SKIP" \in TransitionEvents
      /\ "PENDING" \in TaskStatus /\ "SKIPPED" \in TaskStatus
  BY DEF TransitionEvents, TaskStatus
<1>3. ASSUME NEW t \in Tasks, Rerun(t)
      PROVE  QueueTypeOK'
  <2>1. task' = [task EXCEPT ![t] = Freed(task[t], "PENDING")] /\ Record(t, "RESET", NoWorker)
    BY <1>3 DEF Rerun
  <2>2. task' \in [Tasks -> Rows]
    BY <1>0, <1>a, <2>1, FreedRow DEF QueueTypeOK
  <2>3. audit' \in [Tasks -> AuditEvents]
    BY <1>0, <1>a, <2>1, RecordType DEF QueueTypeOK
  <2> QED BY <1>0, <1>3, <2>2, <2>3 DEF Rerun, QueueTypeOK
<1>4. ASSUME NEW r \in 1..Revisions, ApplyRevision(r)
      PROVE  QueueTypeOK'
  <2> DEFINE new == {t \in Tasks : RevisionOf[t] = r}
             old == {t \in Tasks : task[t].status = "PENDING"}
  <2>1. /\ task' = [t \in Tasks |-> IF t \in new THEN NewRow
                                    ELSE IF t \in old THEN Freed(task[t], "SKIPPED") ELSE task[t]]
        /\ RecordAll(old, "SKIP", [t \in Tasks |-> NoWorker])
    BY <1>4 DEF ApplyRevision
  <2> HIDE DEF new, old
  <2>2. \A t \in Tasks : task[t] \in Rows /\ Freed(task[t], "SKIPPED") \in Rows /\ NewRow \in Rows
    BY <1>0, <1>a, FreedRow, OtherRows DEF QueueTypeOK
  <2>3. task' \in [Tasks -> Rows]
    BY <2>1, <2>2
  <2>4. audit' \in [Tasks -> AuditEvents]
    BY <1>0, <1>a, <2>1, RecordAllType, OwnersType DEF QueueTypeOK
  <2> QED BY <1>0, <1>4, <2>3, <2>4 DEF ApplyRevision, QueueTypeOK
<1> QED BY <1>1, <1>2, <1>3, <1>4

LEMMA SwarmStepType == SwarmTypeOK /\ HasAttempt /\ [SwarmNext]_vars => SwarmTypeOK' /\ HasAttempt'
PROOF
<1> SUFFICES ASSUME SwarmTypeOK, HasAttempt, [SwarmNext]_vars PROVE SwarmTypeOK' /\ HasAttempt'
  OBVIOUS
<1>0. QueueTypeOK /\ StoreOK /\ CoordOK /\ ExecOK
  BY TypeParts
<1>1. QueueTypeOK'
  <2>1. CASE QueueCall \/ UNCHANGED vars
    <3>1. [QueueNext]_queueVars
      BY <2>1, CallIsQueueStep DEF vars
    <3> QED BY <1>0, <3>1, QueueStepType
  <2> QED BY <2>1, SwarmCalls, OwnRows
<1>2. StoreOK' /\ CoordOK' /\ ExecOK' /\ HasAttempt'
  <2>1. CASE UNCHANGED swarmVars
    BY <1>0, <2>1 DEF swarmVars, StoreOK, CoordOK, ExecOK, HasAttempt
  <2>2. ASSUME NEW c \in Coordinators, CoordStep(c) \/ Crash(c) \/ \E t \in Tasks : RunEnds(c, t)
        PROVE  StoreOK' /\ CoordOK' /\ ExecOK' /\ HasAttempt'
    BY <2>2, CoordTypes, DropTypes, ExecTypes
  <2>3. UNCHANGED vars => UNCHANGED swarmVars
    BY DEF vars
  <2> QED BY <2>1, <2>2, <2>3, OtherTypes DEF SwarmNext
<1> QED BY <1>1, <1>2 DEF SwarmTypeOK, StoreOK, CoordOK, ExecOK, Execs

LEMMA SwarmInitType == SwarmInit => SwarmTypeOK /\ HasAttempt
PROOF
<1> SUFFICES ASSUME SwarmInit PROVE SwarmTypeOK /\ HasAttempt
  OBVIOUS
<1>1. QueueTypeOK
  BY QueueInitType DEF SwarmInit
<1>2. StoreOK
  <2>1. NoLease \in [holder : Coordinators \cup {NoWorker}, live : BOOLEAN, stop : BOOLEAN]
    BY DEF NoLease
  <2>2. 0 \in 0..Revisions /\ MaxAttempts \in Nat
    BY SwarmAssumption
  <2> QED BY <2>1, <2>2 DEF SwarmInit, StoreOK, AttemptRows
<1>3. CoordOK
  <2>1. 0 \in 0..Revisions
    BY SwarmAssumption
  <2> QED BY <2>1, CoordNames DEF SwarmInit, CoordOK
<1>4. ExecOK /\ HasAttempt
  <2>1. Idle.pc \notin Attempting
    BY DEF Idle, Attempting
  <2> QED BY <2>1, StateNames DEF SwarmInit, ExecOK, HasAttempt
<1> QED BY <1>1, <1>2, <1>3, <1>4, TypeParts

\* Rows, attempts, leases and coroutines keep their types.
THEOREM SwarmTypeSafe == SwarmSpec => []SwarmTypeOK
PROOF
<1>1. SwarmTypeOK /\ HasAttempt /\ [SwarmNext]_vars => SwarmTypeOK' /\ HasAttempt'
  BY SwarmStepType
<1> QED BY <1>1, SwarmInitType, PTL DEF SwarmSpec

-----------------------------------------------------------------------------
(* At most one worker agent per task.                                      *)
(*                                                                         *)
(* Why it holds: an agent only runs for an attempt that is running, and a  *)
(* task has one of those.  An attempt is closed while its agent may run by *)
(* nobody: its own coroutine waits for the agent first, and a recovery     *)
(* takes it over only when the process group was recorded, which is after  *)
(* the launch, and is gone.                                                *)

Unlaunched(e) == e.pc = "preparing" /\ e.mode = "worker"
Attending(e) == e.pc \in {"spawned", "working"} /\ e.mode = "worker"

\* A row nobody has opened yet belongs to nobody.
Fresh == \A i \in Ids :
    /\ attempt[i].status # "absent" => attempt[i].task \in Tasks
    /\ attempt[i].status = "absent" => \A m \in Modes : <<i, m>> \notin agents
    /\ attempt[i].status = "absent" => \A c \in Coordinators : i \notin recov[c].attempts

\* What a coroutine knows of its attempt, and its attempt of an agent.
ExecAttempt(c, t) ==
    LET e == exec[c][t] IN e.attempt # NoAttempt =>
        /\ attempt[e.attempt].task = t /\ attempt[e.attempt].by = c
        /\ attempt[e.attempt].status # "absent"
        /\ ~Attending(e) => <<e.attempt, "worker">> \notin agents
        /\ Unlaunched(e) => attempt[e.attempt].status = "running" /\ ~attempt[e.attempt].pgid

ExecAttempts == \A c \in Coordinators, t \in Tasks : ExecAttempt(c, t)

AgentsRun == \A i \in Ids : <<i, "worker">> \in agents => attempt[i].status = "running"

\* What a recovery is about to abandon is dead, and stays so.
RecovDead == \A c \in Coordinators : \A i \in recov[c].attempts :
    /\ <<i, "worker">> \notin agents
    /\ \A d \in Coordinators, t \in Tasks : exec[d][t].attempt = i => ~Unlaunched(exec[d][t])

OneRunning == \A i, j \in Ids :
    attempt[i].status = "running" /\ attempt[j].status = "running" /\ attempt[i].task = attempt[j].task
        => i = j

AgentInv == Fresh /\ ExecAttempts /\ AgentsRun /\ RecovDead /\ OneRunning

LEMMA AgentInvImplies == AgentInv /\ StoreOK => OneWorkerAgent
BY DEF AgentInv, AgentsRun, OneRunning, OneWorkerAgent

\* A step that starts no agent, opens no attempt and recovers none.
GentleAttempt(i) ==
    /\ attempt'[i].task = attempt[i].task /\ attempt'[i].by = attempt[i].by
    /\ attempt'[i].status = "absent" <=> attempt[i].status = "absent"
    /\ attempt'[i].status = "running" => attempt[i].status = "running"
    /\ attempt'[i] # attempt[i] =>
          \A c \in Coordinators, t \in Tasks : exec[c][t].attempt = i => ~Unlaunched(exec[c][t])
    /\ attempt'[i].status # attempt[i].status => <<i, "worker">> \notin agents

GentleExec(c, t) ==
    LET e == exec[c][t]  f == exec'[c][t] IN
    \/ f = e
    \/ /\ f.attempt \in {NoAttempt, e.attempt}
       /\ ~Unlaunched(f)
       /\ f.attempt # NoAttempt /\ Attending(e) =>
             Attending(f) \/ <<e.attempt, "worker">> \notin agents'

Gentle ==
    /\ agents' \subseteq agents
    /\ \A c \in Coordinators : recov'[c].attempts \subseteq recov[c].attempts
    /\ \A i \in Ids : GentleAttempt(i)
    /\ \A c \in Coordinators, t \in Tasks : GentleExec(c, t)

LEMMA GentleKeeps ==
    ASSUME SwarmTypeOK, SwarmTypeOK', AgentInv, Gentle
    PROVE  AgentInv'
PROOF
<1>0. /\ attempt' \in [Ids -> AttemptRows] /\ ExecOK /\ ExecOK' /\ CoordOK /\ CoordOK' /\ StoreOK
  BY DEF SwarmTypeOK, StoreOK, CoordOK, ExecOK, Execs
<1>1. Fresh'
  BY DEF AgentInv, Fresh, Gentle, GentleAttempt
<1>2. ASSUME NEW c \in Coordinators, NEW t \in Tasks
      PROVE  ExecAttempt(c, t)'
  <2> DEFINE e == exec[c][t]
             f == exec'[c][t]
  <2>1. SUFFICES ASSUME f.attempt # NoAttempt
                 PROVE  /\ attempt'[f.attempt].task = t /\ attempt'[f.attempt].by = c
                        /\ attempt'[f.attempt].status # "absent"
                        /\ ~Attending(f) => <<f.attempt, "worker">> \notin agents'
                        /\ Unlaunched(f) => attempt'[f.attempt].status = "running"
                                              /\ ~attempt'[f.attempt].pgid
    BY DEF ExecAttempt
  <2>2. f.attempt = e.attempt /\ e.attempt \in Ids
    <3>1. GentleExec(c, t)
      BY DEF Gentle
    <3>2. e.attempt \in Ids \cup {NoAttempt}
      BY <1>0 DEF ExecOK, Execs
    <3> QED BY <2>1, <3>1, <3>2 DEF GentleExec
  <2>3. /\ attempt[e.attempt].task = t /\ attempt[e.attempt].by = c
        /\ attempt[e.attempt].status # "absent"
        /\ ~Attending(e) => <<e.attempt, "worker">> \notin agents
        /\ Unlaunched(e) => attempt[e.attempt].status = "running" /\ ~attempt[e.attempt].pgid
    BY <2>1, <2>2 DEF AgentInv, ExecAttempts, ExecAttempt
  <2>4. GentleAttempt(e.attempt) /\ GentleExec(c, t) /\ agents' \subseteq agents
    BY <2>2 DEF Gentle
  <2>5. /\ attempt'[f.attempt].task = t /\ attempt'[f.attempt].by = c
        /\ attempt'[f.attempt].status # "absent"
    BY <2>2, <2>3, <2>4 DEF GentleAttempt
  <2>6. ~Attending(f) => <<f.attempt, "worker">> \notin agents'
    BY <2>1, <2>2, <2>3, <2>4 DEF GentleExec
  <2>7. ASSUME Unlaunched(f)
        PROVE  attempt'[f.attempt].status = "running" /\ ~attempt'[f.attempt].pgid
    <3>1. f = e
      BY <2>4, <2>7 DEF GentleExec
    <3>2. attempt'[e.attempt] = attempt[e.attempt]
      BY <2>4, <2>7, <3>1 DEF GentleAttempt
    <3> QED BY <2>3, <2>7, <3>1, <3>2
  <2> QED BY <2>5, <2>6, <2>7
<1>3. AgentsRun'
  BY DEF AgentInv, AgentsRun, Gentle, GentleAttempt
<1>4. RecovDead'
  <2>1. ASSUME NEW c \in Coordinators, NEW i \in recov'[c].attempts
        PROVE  /\ <<i, "worker">> \notin agents'
               /\ \A d \in Coordinators, t \in Tasks : exec'[d][t].attempt = i => ~Unlaunched(exec'[d][t])
    <3>1. i \in recov[c].attempts /\ agents' \subseteq agents
      BY <2>1 DEF Gentle
    <3>2. <<i, "worker">> \notin agents'
      BY <3>1 DEF AgentInv, RecovDead
    <3>3. ASSUME NEW d \in Coordinators, NEW t \in Tasks, Unlaunched(exec'[d][t])
          PROVE  exec'[d][t].attempt # i
      <4>1. exec'[d][t] = exec[d][t]
        BY <3>3 DEF Gentle, GentleExec
      <4> QED BY <3>1, <3>3, <4>1 DEF AgentInv, RecovDead
    <3> QED BY <3>2, <3>3
  <2> QED BY <2>1 DEF RecovDead
<1>5. OneRunning'
  BY DEF AgentInv, OneRunning, Gentle, GentleAttempt
<1> QED BY <1>1, <1>2, <1>3, <1>4, <1>5 DEF AgentInv, ExecAttempts

\* What one coroutine does to itself and to the attempt it has.
LEMMA OneCoroutine ==
    ASSUME SwarmTypeOK, AgentInv, NEW c \in Coordinators, NEW t \in Tasks, NEW f \in Execs,
           exec' = [exec EXCEPT ![c][t] = f],
           f.attempt \in {NoAttempt, exec[c][t].attempt}, ~Unlaunched(f),
           Attending(exec[c][t]) => Attending(f) \/ <<exec[c][t].attempt, "worker">> \notin agents',
           agents' \subseteq agents, UNCHANGED recov,
           \/ UNCHANGED attempt
           \/ /\ exec[c][t].attempt \in Ids /\ ~Unlaunched(exec[c][t])
              /\ \E row \in AttemptRows :
                    LET old == attempt[exec[c][t].attempt] IN
                    /\ attempt' = [attempt EXCEPT ![exec[c][t].attempt] = row]
                    /\ row.task = old.task /\ row.by = old.by
                    /\ row.status # "absent"
                    /\ row.status # old.status => row.status # "running" /\ ~Attending(exec[c][t])
    PROVE  Gentle
PROOF
<1>0. StoreOK /\ ExecOK /\ attempt \in [Ids -> AttemptRows]
  BY TypeParts DEF StoreOK
<1> DEFINE e == exec[c][t]
<1>1. ASSUME NEW d \in Coordinators, NEW u \in Tasks
      PROVE  exec'[d][u] = IF d = c /\ u = t THEN f ELSE exec[d][u]
  BY <1>0 DEF ExecOK
<1>2. \A d \in Coordinators, u \in Tasks : GentleExec(d, u)
  BY <1>1 DEF GentleExec
<1>3. ASSUME NEW i \in Ids
      PROVE  GentleAttempt(i)
  <2>1. CASE attempt'[i] = attempt[i]
    BY <2>1 DEF GentleAttempt
  <2>2. CASE attempt'[i] # attempt[i]
    <3>1. PICK row \in AttemptRows :
            /\ attempt' = [attempt EXCEPT ![e.attempt] = row]
            /\ row.task = attempt[e.attempt].task /\ row.by = attempt[e.attempt].by
            /\ row.status # "absent"
            /\ row.status # attempt[e.attempt].status => row.status # "running" /\ ~Attending(e)
      BY <2>2
    <3>2. i = e.attempt /\ attempt'[i] = row /\ i # NoAttempt
      BY <1>0, <2>2, <3>1, StateNames
    <3>3. ExecAttempt(c, t)
      BY DEF AgentInv, ExecAttempts
    <3>4. /\ attempt[i].task = t /\ attempt[i].by = c /\ attempt[i].status # "absent"
          /\ ~Attending(e) => <<i, "worker">> \notin agents
      BY <3>2, <3>3 DEF ExecAttempt
    <3>5. ASSUME NEW d \in Coordinators, NEW u \in Tasks, exec[d][u].attempt = i
          PROVE  d = c /\ u = t
      <4>1. ExecAttempt(d, u)
        BY DEF AgentInv, ExecAttempts
      <4> QED BY <3>2, <3>4, <3>5, <4>1 DEF ExecAttempt
    <3>6. ~Unlaunched(e)
      BY <2>2
    <3> QED BY <3>1, <3>2, <3>4, <3>5, <3>6 DEF GentleAttempt
  <2> QED BY <2>1, <2>2
<1> QED BY <1>2, <1>3 DEF Gentle

\* A step of the coroutine to another state, when it waits for no agent.
LEMMA GentleGoto ==
    ASSUME SwarmTypeOK, AgentInv, NEW c \in Coordinators, NEW t \in Tasks,
           NEW pc \in ExecStates \ {"preparing"}, Goto(c, t, pc),
           \/ pc \in {"spawned", "working"}
           \/ exec[c][t].pc \notin {"spawned", "working"}
           \/ <<exec[c][t].attempt, exec[c][t].mode>> \notin agents',
           agents' \subseteq agents, UNCHANGED recov,
           \/ UNCHANGED attempt
           \/ /\ exec[c][t].attempt \in Ids /\ ~Unlaunched(exec[c][t])
              /\ \E row \in AttemptRows :
                    LET old == attempt[exec[c][t].attempt] IN
                    /\ attempt' = [attempt EXCEPT ![exec[c][t].attempt] = row]
                    /\ row.task = old.task /\ row.by = old.by
                    /\ row.status # "absent"
                    /\ row.status # old.status => row.status # "running" /\ ~Attending(exec[c][t])
    PROVE  Gentle
PROOF
<1> DEFINE f == [exec[c][t] EXCEPT !.pc = pc]
<1>1. exec[c][t] \in Execs
  BY TypeParts, GotoType
<1>2. f \in Execs /\ f.pc = pc /\ f.attempt = exec[c][t].attempt /\ f.mode = exec[c][t].mode
  BY <1>1 DEF Execs
<1>3. exec' = [exec EXCEPT ![c][t] = f]
  BY DEF Goto
<1>4. ~Unlaunched(f)
  BY <1>2 DEF Unlaunched
<1>5. Attending(exec[c][t]) => Attending(f) \/ <<exec[c][t].attempt, "worker">> \notin agents'
  BY <1>2 DEF Attending
<1> HIDE DEF f
<1> QED BY <1>2, <1>3, <1>4, <1>5, OneCoroutine

\* The rest of a row is kept by what closes it or records its process group.
LEMMA RowOfAttempt ==
    ASSUME StoreOK, NEW i \in Ids
    PROVE  /\ \A s \in {"accepted", "failed", "cancelled", "abandoned"} :
                \E row \in AttemptRows :
                    /\ Finished(i, s) = [attempt EXCEPT ![i] = row]
                    /\ row.task = attempt[i].task /\ row.by = attempt[i].by
                    /\ row.status # "absent" /\ row.status # "running"
           /\ \A b \in BOOLEAN :
                \E row \in AttemptRows :
                    /\ [attempt EXCEPT ![i].pgid = b] = [attempt EXCEPT ![i] = row]
                    /\ row.task = attempt[i].task /\ row.by = attempt[i].by
                    /\ row.status = attempt[i].status
PROOF
<1>0. attempt[i] \in AttemptRows
  BY DEF StoreOK
<1>1. ASSUME NEW s \in {"accepted", "failed", "cancelled", "abandoned"}
      PROVE  \E row \in AttemptRows :
                    /\ Finished(i, s) = [attempt EXCEPT ![i] = row]
                    /\ row.task = attempt[i].task /\ row.by = attempt[i].by
                    /\ row.status # "absent" /\ row.status # "running"
  <2> DEFINE row == [attempt[i] EXCEPT !.status = s, !.pgid = FALSE]
  <2>1. row \in AttemptRows /\ row.task = attempt[i].task /\ row.by = attempt[i].by /\ row.status = s
    BY <1>0 DEF AttemptRows
  <2>2. Finished(i, s) = [attempt EXCEPT ![i] = row]
    BY <1>0 DEF Finished
  <2> HIDE DEF row
  <2> QED BY <2>1, <2>2
<1>2. ASSUME NEW b \in BOOLEAN
      PROVE  \E row \in AttemptRows :
                    /\ [attempt EXCEPT ![i].pgid = b] = [attempt EXCEPT ![i] = row]
                    /\ row.task = attempt[i].task /\ row.by = attempt[i].by
                    /\ row.status = attempt[i].status
  <2> DEFINE row == [attempt[i] EXCEPT !.pgid = b]
  <2>1. /\ row \in AttemptRows /\ row.task = attempt[i].task /\ row.by = attempt[i].by
        /\ row.status = attempt[i].status
    BY <1>0 DEF AttemptRows
  <2>2. [attempt EXCEPT ![i].pgid = b] = [attempt EXCEPT ![i] = row]
    BY <1>0
  <2> HIDE DEF row
  <2> QED BY <2>1, <2>2
<1> QED BY <1>1, <1>2

\* Every step of a coroutine but the two that open an attempt and launch.
LEMMA ExecGentle ==
    ASSUME SwarmTypeOK, HasAttempt, AgentInv, NEW c \in Coordinators, NEW t \in Tasks,
           ExecStep(c, t) \/ RunEnds(c, t)
    PROVE  Gentle \/ Launch(c, t) \/ (OpenAttempt(c, t) /\ ~UNCHANGED attempt)
PROOF
<1> DEFINE e == exec[c][t]
<1>0. StoreOK /\ e \in Execs /\ ExecAttempt(c, t)
  BY TypeParts, GotoType DEF AgentInv, ExecAttempts
<1>a. \A pc \in {"checking", "failing", "starting", "losing", "withdrawing", "accepting", "closing",
                  "releasing", "done", "spawned", "working", "ended", "judging", "unblocking",
                  "limbo", "opening"} : pc \in ExecStates \ {"preparing"}
  BY StateNames
<1>1. CASE Fetch(c, t) \/ CheckBudget(c, t) \/ FailTask(c, t) \/ ReleaseTask(c, t)
           \/ HandlerRaises(c, t) \/ Unblock(c, t)
  <2>1. e.pc \notin {"spawned", "working"} /\ UNCHANGED <<agents, recov, attempt>>
    BY <1>1 DEF Fetch, CheckBudget, FailTask, ReleaseTask, HandlerRaises, Unblock, At, ExecOnly, Handlers
  <2>2. \E pc \in {"checking", "failing", "starting", "closing", "done"} : Goto(c, t, pc)
    BY <1>1 DEF Fetch, CheckBudget, FailTask, ReleaseTask, HandlerRaises, Unblock
  <2> QED BY <1>a, <2>1, <2>2, GentleGoto
<1>2. CASE StartTask(c, t)
  <2>1. e.pc \notin {"spawned", "working"} /\ UNCHANGED <<agents, recov, attempt>>
    BY <1>2 DEF StartTask, At, ExecOnly
  <2>2. CASE Goto(c, t, "losing")
    BY <1>a, <2>1, <2>2, GentleGoto
  <2>3. ASSUME NEW f \in {[e EXCEPT !.pc = "opening", !.version = @ + 1], [e EXCEPT !.pc = "limbo"]},
               exec' = [exec EXCEPT ![c][t] = f]
        PROVE  Gentle
    <3>1. e.version + 1 \in Nat
      BY <1>0 DEF Execs
    <3>2. f \in Execs /\ ~Unlaunched(f) /\ f.attempt = e.attempt
      BY <1>0, <2>3, <3>1, StateNames DEF Execs, Unlaunched
    <3> QED BY <2>1, <2>3, <3>2, OneCoroutine DEF Attending
  <2> QED BY <1>2, <2>2, <2>3 DEF StartTask
<1>3. CASE OpenAttempt(c, t) /\ UNCHANGED attempt
  <2>1. e.pc \notin {"spawned", "working"} /\ UNCHANGED <<agents, recov>>
    BY <1>3 DEF OpenAttempt, At
  <2>2. CASE Goto(c, t, "failing")
    BY <1>3, <1>a, <2>1, <2>2, GentleGoto
  <2>3. CASE \E i \in Ids : /\ NewAttempt(i)
                            /\ attempt' = [attempt EXCEPT ![i] = [task |-> t, by |-> c, pgid |-> FALSE,
                                                                 status |-> "running"]]
    BY <1>0, <1>3, <2>3 DEF NewAttempt, StoreOK
  <2> QED BY <1>3, <2>2, <2>3 DEF OpenAttempt
<1>4. CASE RecordPgid(c, t) \/ ClearPgid(c, t)
  <2>1. e.attempt \in Ids /\ ~Unlaunched(e)
    BY <1>4 DEF RecordPgid, ClearPgid, At, HasAttempt, Attempting, Unlaunched
  <2>2. attempt[e.attempt].status # "absent"
    BY <1>0, <2>1, StateNames DEF ExecAttempt
  <2>3. \E b \in BOOLEAN : attempt' = [attempt EXCEPT ![e.attempt].pgid = b]
    <3>1. CASE RecordPgid(c, t)
      BY <3>1 DEF RecordPgid
    <3>2. CASE ClearPgid(c, t)
      BY <3>2 DEF ClearPgid
    <3> QED BY <1>4, <3>1, <3>2
  <2>4. PICK row \in AttemptRows :
          /\ attempt' = [attempt EXCEPT ![e.attempt] = row]
          /\ row.task = attempt[e.attempt].task /\ row.by = attempt[e.attempt].by
          /\ row.status = attempt[e.attempt].status
    <3>1. PICK b \in BOOLEAN : attempt' = [attempt EXCEPT ![e.attempt].pgid = b]
      BY <2>3
    <3>2. \A i \in Ids : \E row \in AttemptRows :
             /\ [attempt EXCEPT ![i].pgid = b] = [attempt EXCEPT ![i] = row]
             /\ row.task = attempt[i].task /\ row.by = attempt[i].by
             /\ row.status = attempt[i].status
      BY <1>0, <3>1, RowOfAttempt
    <3> QED BY <2>1, <3>1, <3>2
  <2>5. UNCHANGED <<agents, recov>>
    BY <1>4 DEF RecordPgid, ClearPgid
  <2>6. \/ Goto(c, t, "working")
        \/ Goto(c, t, "judging") /\ e.pc \notin {"spawned", "working"}
    BY <1>4 DEF RecordPgid, ClearPgid, At
  <2> QED BY <1>a, <2>1, <2>2, <2>4, <2>5, <2>6, GentleGoto
<1>5. CASE RunEnds(c, t) \/ Raise(c, t)
  <2>1. agents' \subseteq agents /\ UNCHANGED <<recov, attempt>>
    BY <1>5 DEF RunEnds, Raise
  <2>2. \/ e.pc \notin {"spawned", "working"}
        \/ <<e.attempt, e.mode>> \notin agents'
    BY <1>5 DEF RunEnds, Raise, At
  <2>3. Goto(c, t, "ended") \/ Goto(c, t, "failing")
    BY <1>5 DEF RunEnds, Raise
  <2> QED BY <1>a, <2>1, <2>2, <2>3, GentleGoto
<1>6. CASE Judge(c, t)
  <2>1. e.pc \notin {"spawned", "working"} /\ UNCHANGED <<agents, recov, attempt>>
    BY <1>6 DEF Judge, At, ExecOnly
  <2>2. CASE exec' = [exec EXCEPT ![c][t].pc = "preparing", ![c][t].mode = "review"]
    <3> DEFINE f == [e EXCEPT !.pc = "preparing", !.mode = "review"]
    <3>1. exec' = [exec EXCEPT ![c][t] = f]
      BY <2>2, TypeParts DEF ExecOK
    <3>2. f \in Execs /\ f.attempt = e.attempt /\ f.mode = "review"
      BY <1>0, StateNames DEF Execs, Modes
    <3> HIDE DEF f
    <3> QED BY <2>1, <3>1, <3>2, OneCoroutine DEF Attending, Unlaunched
  <2>3. CASE \E pc \in {"withdrawing", "accepting", "failing"} : Goto(c, t, pc)
    BY <1>a, <2>1, <2>3, GentleGoto
  <2> QED BY <1>6, <2>2, <2>3 DEF Judge
<1>7. CASE Accept(c, t)
  <2>1. /\ e.attempt \in Ids /\ ~Unlaunched(e) /\ ~Attending(e) /\ e.pc \notin {"spawned", "working"}
        /\ UNCHANGED <<agents, recov>>
    BY <1>7 DEF Accept, At, HasAttempt, Attempting, Unlaunched, Attending
  <2>2. CASE UNCHANGED attempt
    BY <1>7, <1>a, <2>1, <2>2, GentleGoto DEF Accept
  <2>3. CASE attempt' = Finished(e.attempt, "accepted")
    <3>1. \E pc \in {"unblocking", "limbo", "failing", "losing"} : Goto(c, t, pc)
      BY <1>7 DEF Accept
    <3>2. PICK row \in AttemptRows :
            /\ attempt' = [attempt EXCEPT ![e.attempt] = row]
            /\ row.task = attempt[e.attempt].task /\ row.by = attempt[e.attempt].by
            /\ row.status # "absent" /\ row.status # "running"
      BY <1>0, <2>1, <2>3, RowOfAttempt
    <3> QED BY <1>a, <2>1, <3>1, <3>2, GentleGoto
  <2> QED BY <1>7, <2>2, <2>3 DEF Accept
<1>8. CASE CloseAttempt(c, t)
  <2>1. /\ ~Unlaunched(e) /\ ~Attending(e) /\ e.pc \notin {"spawned", "working"}
        /\ e.pc \in {"closing", "losing", "withdrawing"}
        /\ UNCHANGED <<agents, recov>>
    BY <1>8 DEF CloseAttempt, At, Outcome, Unlaunched, Attending
  <2>2. \E pc \in {"releasing", "done"} : Goto(c, t, pc)
    BY <1>8 DEF CloseAttempt
  <2>3. CASE e.attempt = NoAttempt
    BY <1>8, <1>a, <2>1, <2>2, <2>3, GentleGoto DEF CloseAttempt
  <2>4. CASE e.attempt # NoAttempt
    <3>1. e.attempt \in Ids
      BY <1>0, <2>4 DEF Execs
    <3>2. Outcome[e.pc] \in {"accepted", "failed", "cancelled", "abandoned"}
      BY <2>1 DEF Outcome
    <3>3. attempt' = Finished(e.attempt, Outcome[e.pc])
      BY <1>8, <2>4 DEF CloseAttempt
    <3>4. \E row \in AttemptRows :
            /\ Finished(e.attempt, Outcome[e.pc]) = [attempt EXCEPT ![e.attempt] = row]
            /\ row.task = attempt[e.attempt].task /\ row.by = attempt[e.attempt].by
            /\ row.status # "absent" /\ row.status # "running"
      BY <1>0, <3>1, <3>2, RowOfAttempt
    <3>5. PICK row \in AttemptRows :
            /\ attempt' = [attempt EXCEPT ![e.attempt] = row]
            /\ row.task = attempt[e.attempt].task /\ row.by = attempt[e.attempt].by
            /\ row.status # "absent" /\ row.status # "running"
      BY <3>3, <3>4
    <3> QED BY <1>a, <2>1, <2>2, <3>1, <3>5, GentleGoto
  <2> QED BY <2>3, <2>4
<1> QED BY <1>1, <1>2, <1>3, <1>4, <1>5, <1>6, <1>7, <1>8 DEF ExecStep

\* The steps that leave attempts and coroutines alone.
LEMMA GentleElsewhere ==
    ASSUME UNCHANGED <<attempt, exec>>, agents' \subseteq agents,
           \A c \in Coordinators : recov'[c].attempts \subseteq recov[c].attempts
    PROVE  Gentle
BY DEF Gentle, GentleAttempt, GentleExec

\* The coroutines of c that end, or are cancelled.
LEMMA GentleDrop ==
    ASSUME ExecOK, NEW c \in Coordinators, NEW g, exec' = [exec EXCEPT ![c] = g],
           \A t \in Tasks : GentleExec(c, t) \/ g[t] \in {Idle, exec[c][t]},
           UNCHANGED <<attempt, recov>>, agents' \subseteq agents
    PROVE  Gentle
PROOF
<1>1. ASSUME NEW d \in Coordinators, NEW t \in Tasks
      PROVE  GentleExec(d, t)
  <2>1. exec'[d][t] = IF d = c THEN g[t] ELSE exec[d][t]
    BY DEF ExecOK
  <2> QED BY <2>1 DEF GentleExec, Idle, Unlaunched
<1> QED BY <1>1 DEF Gentle, GentleAttempt

LEMMA GentleCancel ==
    ASSUME SwarmTypeOK, HasAttempt, NEW c \in Coordinators, CancelAll(c), UNCHANGED <<attempt, recov>>
    PROVE  Gentle
PROOF
<1>0. ExecOK
  BY TypeParts
<1> DEFINE g == [t \in Tasks |-> Cancelled(exec[c][t])]
<1>1. exec' = [exec EXCEPT ![c] = g] /\ agents' = agents \ Attended(c)
  BY DEF CancelAll
<1>2. ASSUME NEW t \in Tasks
      PROVE  GentleExec(c, t)
  <2> DEFINE e == exec[c][t]
             f == exec'[c][t]
  <2>1. f = Cancelled(e)
    BY <1>0, <1>1 DEF ExecOK
  <2>2. e \in Execs /\ (e.pc \in Attempting => e.attempt \in Ids)
    BY <1>0, GotoType DEF HasAttempt
  <2>3. f.attempt = e.attempt /\ f.pc \notin Attempting
    BY <2>1, <2>2, CancelledType
  <2>4. Attending(e) => <<e.attempt, "worker">> \notin agents'
    BY <1>1 DEF Attended, Attending
  <2>5. ~Unlaunched(f)
    BY <2>3 DEF Unlaunched, Attempting
  <2> QED BY <2>3, <2>4, <2>5 DEF GentleExec
<1>3. UNCHANGED <<attempt, recov>> /\ agents' \subseteq agents
  BY <1>1
<1> HIDE DEF g
<1> QED BY <1>0, <1>1, <1>2, <1>3, GentleDrop

LEMMA CoordGentle ==
    ASSUME SwarmTypeOK, HasAttempt, AgentInv, NEW c \in Coordinators, CoordStep(c),
           ~RecoverRead(c), ~\E t \in Tasks : ExecStep(c, t)
    PROVE  Gentle
PROOF
<1>0. ExecOK /\ CoordOK /\ StoreOK
  BY TypeParts
<1>a. \A d \in Coordinators : UNCHANGED recov => recov'[d].attempts \subseteq recov[d].attempts
  OBVIOUS
<1>1. CASE AcquireLease(c) \/ LeaseRefused(c) \/ RecoverEnds(c) \/ Poll(c) \/ ClaimsEnd(c) \/ Leave(c)
  BY <1>1, <1>a, GentleElsewhere
  DEF AcquireLease, LeaseRefused, RecoverEnds, Poll, ClaimsEnd, Leave, CoordOnly
<1>2. CASE RecoverScan(c) \/ RecoverTask(c)
  <2>1. \E S : recov' = [recov EXCEPT ![c].tasks = S]
    BY <1>2 DEF RecoverScan, RecoverTask
  <2>2. \A d \in Coordinators : recov'[d].attempts \subseteq recov[d].attempts
    BY <1>0, <2>1 DEF CoordOK
  <2>3. UNCHANGED <<attempt, exec, agents>>
    BY <1>2 DEF RecoverScan, RecoverTask
  <2> QED BY <2>2, <2>3, GentleElsewhere
<1>3. CASE AbandonAttempt(c)
  <2>1. PICK i \in recov[c].attempts :
          attempt' = Finished(i, "abandoned") /\ recov' = [recov EXCEPT ![c].attempts = @ \ {i}]
    BY <1>3 DEF AbandonAttempt
  <2>2. i \in Ids
    BY <1>0, <2>1 DEF CoordOK
  <2>3. /\ <<i, "worker">> \notin agents
        /\ \A d \in Coordinators, t \in Tasks : exec[d][t].attempt = i => ~Unlaunched(exec[d][t])
        /\ attempt[i].status # "absent"
    BY <2>1, <2>2 DEF AgentInv, RecovDead, Fresh
  <2>4. \A j \in Ids : GentleAttempt(j)
    <3>1. PICK row \in AttemptRows :
            /\ Finished(i, "abandoned") = [attempt EXCEPT ![i] = row]
            /\ row.task = attempt[i].task /\ row.by = attempt[i].by
            /\ row.status # "absent" /\ row.status # "running"
      BY <1>0, <2>2, RowOfAttempt
    <3>2. \A j \in Ids : attempt'[j] = IF j = i THEN row ELSE attempt[j]
      BY <1>0, <2>1, <3>1 DEF StoreOK
    <3>3. GentleAttempt(i)
      BY <2>2, <2>3, <3>1, <3>2 DEF GentleAttempt
    <3>4. \A j \in Ids : j # i => GentleAttempt(j)
      BY <3>2 DEF GentleAttempt
    <3> QED BY <3>3, <3>4
  <2>5. UNCHANGED <<exec, agents>>
    BY <1>3 DEF AbandonAttempt
  <2>6. \A d \in Coordinators : recov'[d].attempts \subseteq recov[d].attempts
    BY <1>0, <2>1 DEF CoordOK
  <2> QED BY <2>4, <2>5, <2>6 DEF Gentle, GentleExec
<1>4. CASE ClaimNext(c)
  <2>1. PICK t \in Open(c) :
        IF t \in Busy(c)
        THEN UNCHANGED exec
        ELSE exec' = [exec EXCEPT ![c][t] = [Idle EXCEPT !.pc = "fetching", !.version = task[t].version + 1]]
    BY <1>4 DEF ClaimNext
  <2>2. t \in Tasks /\ UNCHANGED <<attempt, agents, recov>>
    BY <1>4, QueueAssumption DEF ClaimNext, Open, Claimable, Coordinators
  <2>3. CASE UNCHANGED exec
    BY <1>a, <2>2, <2>3, GentleElsewhere
  <2>4. CASE t \notin Busy(c)
    <3> DEFINE f == [Idle EXCEPT !.pc = "fetching", !.version = task[t].version + 1]
    <3>1. ~Unlaunched(f) /\ f.attempt = NoAttempt
      BY DEF Idle, Unlaunched
    <3>2. \A d \in Coordinators, u \in Tasks : exec'[d][u] = exec[d][u] \/ exec'[d][u] = f
      BY <1>0, <2>1, <2>4 DEF ExecOK
    <3>3. \A d \in Coordinators, u \in Tasks : GentleExec(d, u)
      BY <3>1, <3>2 DEF GentleExec
    <3> QED BY <2>2, <3>3 DEF Gentle, GentleAttempt
  <2> QED BY <2>1, <2>3, <2>4
<1>5. CASE Collect(c) \/ Stopped(c)
  <2>1. \E g : exec' = [exec EXCEPT ![c] = g] /\ \A t \in Tasks : g[t] \in {Idle, exec[c][t]}
    <3>1. CASE Collect(c)
      <4>1. exec' = [exec EXCEPT ![c] = [t \in Tasks |-> IF exec[c][t].pc = "done" THEN Idle ELSE exec[c][t]]]
        BY <3>1 DEF Collect
      <4> DEFINE g == [t \in Tasks |-> IF exec[c][t].pc = "done" THEN Idle ELSE exec[c][t]]
      <4>2. \A t \in Tasks : g[t] \in {Idle, exec[c][t]}
        OBVIOUS
      <4>3. exec' = [exec EXCEPT ![c] = g]
        BY <4>1
      <4> HIDE DEF g
      <4> QED BY <4>2, <4>3
    <3>2. CASE Stopped(c)
      <4>1. exec' = [exec EXCEPT ![c] = [t \in Tasks |-> Idle]]
        BY <3>2 DEF Stopped
      <4> DEFINE g == [t \in Tasks |-> Idle]
      <4>2. \A t \in Tasks : g[t] \in {Idle, exec[c][t]}
        OBVIOUS
      <4>3. exec' = [exec EXCEPT ![c] = g]
        BY <4>1
      <4> HIDE DEF g
      <4> QED BY <4>2, <4>3
    <3> QED BY <1>5, <3>1, <3>2
  <2>2. UNCHANGED <<attempt, recov, agents>>
    BY <1>5 DEF Collect, Stopped
  <2> QED BY <1>0, <2>1, <2>2, GentleDrop
<1>6. CASE StopRunning(c) \/ LoopRaises(c)
  BY <1>6, GentleCancel DEF StopRunning, LoopRaises
<1> QED BY <1>1, <1>2, <1>3, <1>4, <1>5, <1>6 DEF CoordStep

LEMMA OtherGentle ==
    ASSUME SwarmTypeOK, HasAttempt, AgentInv,
           \/ \E c \in Coordinators : Begin(c) \/ Heartbeat(c) \/ Crash(c) \/ Signal(c)
           \/ SwarmOperator \/ LeaseExpires
           \/ \E i \in Ids, m \in Modes : AgentExits(i, m)
           \/ UNCHANGED swarmVars
    PROVE  Gentle
PROOF
<1>1. CASE \/ \E c \in Coordinators : Begin(c) \/ Heartbeat(c) \/ Signal(c)
           \/ SwarmOperator \/ LeaseExpires
           \/ \E i \in Ids, m \in Modes : AgentExits(i, m)
           \/ UNCHANGED swarmVars
  <2>1. UNCHANGED <<attempt, exec, recov>> /\ agents' \subseteq agents
    BY <1>1 DEF Begin, Heartbeat, Signal, SwarmOperator, RequestStop, Rerun, ApplyRevision,
                LeaseExpires, AgentExits, CoordOnly, swarmVars
  <2>2. \A c \in Coordinators : recov'[c].attempts \subseteq recov[c].attempts
    BY <2>1
  <2> QED BY <2>1, <2>2, GentleElsewhere
<1>2. ASSUME NEW c \in Coordinators, Crash(c)
      PROVE  Gentle
  <2>1. exec' = [exec EXCEPT ![c] = [t \in Tasks |-> Idle]] /\ UNCHANGED <<attempt, recov, agents>>
    BY <1>2 DEF Crash
  <2>2. \A t \in Tasks : [u \in Tasks |-> Idle][t] \in {Idle, exec[c][t]}
    OBVIOUS
  <2>3. ExecOK
    BY TypeParts
  <2> QED BY <2>1, <2>2, <2>3, GentleDrop
<1> QED BY <1>1, <1>2

\* What a recovery may take over: attempts whose agent was launched and is gone.
LEMMA RecoverReadKeeps ==
    ASSUME SwarmTypeOK, AgentInv, NEW c \in Coordinators, RecoverRead(c)
    PROVE  AgentInv'
PROOF
<1>0. CoordOK /\ ExecOK
  BY TypeParts
<1>1. UNCHANGED <<attempt, agents, exec>>
  BY DEF RecoverRead
<1>2. CASE UNCHANGED recov
  BY <1>1, <1>2 DEF AgentInv, Fresh, ExecAttempts, ExecAttempt, AgentsRun, RecovDead, OneRunning
<1>3. CASE /\ \A i \in Ids : attempt[i].status = "running" => ~Ambiguous(c, i)
           /\ recov' = [recov EXCEPT ![c].attempts = {i \in Ids : attempt[i].status = "running"}]
  <2>1. \A d \in Coordinators : \A i \in recov'[d].attempts :
            \/ i \in recov[d].attempts
            \/ i \in Ids /\ attempt[i].status = "running" /\ ~Ambiguous(c, i)
    BY <1>0, <1>3 DEF CoordOK
  <2>2. \A i \in Ids, d \in Coordinators, t \in Tasks :
            attempt[i].pgid /\ exec[d][t].attempt = i => ~Unlaunched(exec[d][t])
    <3>1. ASSUME NEW i \in Ids, NEW d \in Coordinators, NEW t \in Tasks, exec[d][t].attempt = i,
                 Unlaunched(exec[d][t])
          PROVE  ~attempt[i].pgid
      <4>1. ExecAttempt(d, t) /\ i # NoAttempt
        BY StateNames DEF AgentInv, ExecAttempts
      <4> QED BY <3>1, <4>1 DEF ExecAttempt
    <3> QED BY <3>1
  <2>3. RecovDead'
    BY <1>1, <2>1, <2>2 DEF AgentInv, RecovDead, Ambiguous, Modes
  <2>4. Fresh'
    BY <1>1, <2>1 DEF AgentInv, Fresh
  <2> QED BY <1>1, <2>3, <2>4 DEF AgentInv, ExecAttempts, ExecAttempt, AgentsRun, OneRunning
<1> QED BY <1>2, <1>3 DEF RecoverRead

\* A new attempt is the only running one of its task, and has no agent.
LEMMA OpenKeeps ==
    ASSUME SwarmTypeOK, HasAttempt, AgentInv, NEW c \in Coordinators, NEW t \in Tasks,
           OpenAttempt(c, t), ~UNCHANGED attempt
    PROVE  AgentInv'
PROOF
<1> DEFINE e == exec[c][t]
<1>0. StoreOK /\ CoordOK /\ ExecOK /\ e \in Execs
  BY TypeParts, GotoType
<1>1. /\ Running(t) = {} /\ UNCHANGED <<agents, recov>> /\ e.pc = "opening"
      /\ \E i \in Ids :
            /\ NewAttempt(i)
            /\ attempt' = [attempt EXCEPT ![i] = [task |-> t, by |-> c, pgid |-> FALSE,
                                                  status |-> "running"]]
            /\ \E after \in {[e EXCEPT !.pc = "preparing", !.attempt = i], [e EXCEPT !.pc = "limbo"]} :
                  exec' = [exec EXCEPT ![c][t] = after]
  BY DEF OpenAttempt, At
<1>2. PICK i \in Ids, f \in Execs :
        /\ attempt[i].status = "absent"
        /\ attempt' = [attempt EXCEPT ![i] = [task |-> t, by |-> c, pgid |-> FALSE, status |-> "running"]]
        /\ exec' = [exec EXCEPT ![c][t] = f]
        /\ f.attempt = i \/ (f.attempt = e.attempt /\ f.pc = "limbo")
        /\ f.pc \notin {"spawned", "working"}
  <2>1. PICK i \in Ids :
            /\ NewAttempt(i)
            /\ attempt' = [attempt EXCEPT ![i] = [task |-> t, by |-> c, pgid |-> FALSE,
                                                  status |-> "running"]]
            /\ \E after \in {[e EXCEPT !.pc = "preparing", !.attempt = i], [e EXCEPT !.pc = "limbo"]} :
                  exec' = [exec EXCEPT ![c][t] = after]
    BY <1>1
  <2>2. /\ [e EXCEPT !.pc = "preparing", !.attempt = i] \in Execs
        /\ [e EXCEPT !.pc = "preparing", !.attempt = i].attempt = i
        /\ [e EXCEPT !.pc = "preparing", !.attempt = i].pc = "preparing"
        /\ [e EXCEPT !.pc = "limbo"] \in Execs
        /\ [e EXCEPT !.pc = "limbo"].attempt = e.attempt
        /\ [e EXCEPT !.pc = "limbo"].pc = "limbo"
    BY <1>0, StateNames DEF Execs
  <2> QED BY <2>1, <2>2 DEF NewAttempt
<1>3. \A j \in Ids : attempt'[j] = IF j = i THEN [task |-> t, by |-> c, pgid |-> FALSE, status |-> "running"]
                                    ELSE attempt[j]
  BY <1>0, <1>2 DEF StoreOK
<1>4. \A d \in Coordinators, u \in Tasks : exec'[d][u] = IF d = c /\ u = t THEN f ELSE exec[d][u]
  BY <1>0, <1>2 DEF ExecOK
<1>5. (\A m \in Modes : <<i, m>> \notin agents) /\ \A d \in Coordinators : i \notin recov[d].attempts
  BY <1>2 DEF AgentInv, Fresh
<1>6. <<i, "worker">> \notin agents
  BY <1>5 DEF Modes
<1>7. Fresh'
  BY <1>1, <1>3 DEF AgentInv, Fresh
<1>8. ASSUME NEW d \in Coordinators, NEW u \in Tasks
      PROVE  ExecAttempt(d, u)'
  <2>1. (ExecAttempt(d, u) /\ exec[d][u].attempt # i) \/ exec[d][u].attempt = NoAttempt
    BY <1>2 DEF AgentInv, ExecAttempts, ExecAttempt
  <2>2. exec[d][u].attempt \in Ids \cup {NoAttempt}
    BY <1>0 DEF ExecOK, Execs
  <2>3. CASE d = c /\ u = t /\ f.attempt = i
    BY <1>1, <1>3, <1>4, <1>6, <2>3 DEF ExecAttempt
  <2>4. CASE d = c /\ u = t /\ f.attempt = e.attempt /\ f.pc = "limbo"
    BY <1>1, <1>3, <1>4, <2>1, <2>2, <2>4 DEF ExecAttempt, Attending, Unlaunched
  <2>5. CASE ~(d = c /\ u = t)
    BY <1>1, <1>3, <1>4, <2>1, <2>2, <2>5 DEF ExecAttempt
  <2> QED BY <1>2, <2>3, <2>4, <2>5
<1>9. AgentsRun'
  BY <1>1, <1>3 DEF AgentInv, AgentsRun
<1>10. RecovDead'
  <2>1. ASSUME NEW d \in Coordinators, NEW j \in recov[d].attempts, NEW b \in Coordinators, NEW u \in Tasks,
               exec'[b][u].attempt = j
        PROVE  ~Unlaunched(exec'[b][u])
    <3>1. j # i
      BY <1>5
    <3>2. CASE b = c /\ u = t
      BY <1>2, <1>4, <2>1, <3>1, <3>2 DEF Unlaunched
    <3>3. CASE ~(b = c /\ u = t)
      BY <1>4, <2>1, <3>3 DEF AgentInv, RecovDead
    <3> QED BY <3>2, <3>3
  <2> QED BY <1>1, <2>1 DEF AgentInv, RecovDead
<1>11. OneRunning'
  <2>1. \A j \in Ids : attempt[j].task = t => attempt[j].status # "running"
    BY <1>1 DEF Running
  <2> QED BY <1>3, <2>1 DEF AgentInv, OneRunning
<1> QED BY <1>7, <1>8, <1>9, <1>10, <1>11 DEF AgentInv, ExecAttempts

\* The agent of an attempt that is running is launched by its own coroutine.
LEMMA LaunchKeeps ==
    ASSUME SwarmTypeOK, HasAttempt, AgentInv, NEW c \in Coordinators, NEW t \in Tasks, Launch(c, t)
    PROVE  AgentInv'
PROOF
<1> DEFINE e == exec[c][t]
<1>0. ExecOK /\ StoreOK
  BY TypeParts
<1>1. /\ agents' = agents \cup {<<e.attempt, e.mode>>} /\ UNCHANGED <<attempt, recov>>
      /\ Goto(c, t, "spawned") /\ e.pc = "preparing"
  BY DEF Launch, At
<1>2. e.attempt \in Ids /\ e.attempt # NoAttempt
  BY <1>1, StateNames DEF HasAttempt, Attempting
<1>3. /\ attempt[e.attempt].task = t /\ attempt[e.attempt].by = c
      /\ attempt[e.attempt].status # "absent"
      /\ Unlaunched(e) => attempt[e.attempt].status = "running" /\ ~attempt[e.attempt].pgid
      /\ <<e.attempt, "worker">> \notin agents
  BY <1>1, <1>2 DEF AgentInv, ExecAttempts, ExecAttempt, Attending
<1>4. \A i \in Ids : <<i, "worker">> \in agents' =>
                <<i, "worker">> \in agents \/ (i = e.attempt /\ Unlaunched(e))
  BY <1>1 DEF Unlaunched
<1>5. \A d \in Coordinators, u \in Tasks :
        /\ exec'[d][u].attempt = exec[d][u].attempt /\ exec'[d][u].mode = exec[d][u].mode
        /\ exec'[d][u].pc = IF d = c /\ u = t THEN "spawned" ELSE exec[d][u].pc
  BY <1>0, <1>1 DEF Goto, ExecOK, Execs
<1>6. Fresh'
  BY <1>1, <1>3 DEF AgentInv, Fresh
<1>7. ASSUME NEW d \in Coordinators, NEW u \in Tasks
      PROVE  ExecAttempt(d, u)'
  <2>1. ExecAttempt(d, u) /\ (exec[d][u].attempt = NoAttempt \/ exec[d][u].attempt \in Ids)
    BY <1>0 DEF AgentInv, ExecAttempts, ExecOK, Execs
  <2>2. CASE d = c /\ u = t
    <3>1. ~Unlaunched(exec'[d][u]) /\ (Unlaunched(e) => Attending(exec'[d][u]))
      BY <1>5, <2>2 DEF Unlaunched, Attending
    <3> QED BY <1>1, <1>2, <1>3, <1>4, <1>5, <2>2, <3>1 DEF ExecAttempt
  <2>3. CASE ~(d = c /\ u = t)
    <3>1. exec[d][u].attempt # e.attempt
      BY <1>2, <1>3, <2>1, <2>3 DEF ExecAttempt
    <3>2. Attending(exec'[d][u]) = Attending(exec[d][u]) /\ Unlaunched(exec'[d][u]) = Unlaunched(exec[d][u])
      BY <1>5, <2>3 DEF Attending, Unlaunched
    <3> QED BY <1>1, <1>4, <1>5, <2>1, <3>1, <3>2 DEF ExecAttempt
  <2> QED BY <2>2, <2>3
<1>8. AgentsRun'
  BY <1>1, <1>3, <1>4 DEF AgentInv, AgentsRun
<1>9. RecovDead'
  <2>1. ASSUME NEW d \in Coordinators, NEW i \in recov[d].attempts
        PROVE  /\ <<i, "worker">> \notin agents'
               /\ \A b \in Coordinators, u \in Tasks : exec'[b][u].attempt = i => ~Unlaunched(exec'[b][u])
    <3>1. /\ <<i, "worker">> \notin agents
          /\ \A b \in Coordinators, u \in Tasks : exec[b][u].attempt = i => ~Unlaunched(exec[b][u])
          /\ i \in Ids
      BY TypeParts DEF AgentInv, RecovDead, CoordOK
    <3>2. <<i, "worker">> \notin agents'
      BY <1>4, <3>1
    <3>3. \A b \in Coordinators, u \in Tasks : exec'[b][u].attempt = i => ~Unlaunched(exec'[b][u])
      BY <1>5, <3>1 DEF Unlaunched
    <3> QED BY <3>2, <3>3
  <2> QED BY <1>1, <2>1 DEF RecovDead
<1>10. OneRunning'
  BY <1>1 DEF AgentInv, OneRunning
<1> QED BY <1>6, <1>7, <1>8, <1>9, <1>10 DEF AgentInv, ExecAttempts

LEMMA NextGentle ==
    ASSUME SwarmTypeOK, HasAttempt, AgentInv, [SwarmNext]_vars
    PROVE  \/ Gentle
           \/ \E c \in Coordinators : RecoverRead(c)
           \/ \E c \in Coordinators, t \in Tasks : Launch(c, t)
           \/ \E c \in Coordinators, t \in Tasks : OpenAttempt(c, t) /\ ~UNCHANGED attempt
PROOF
<1>1. UNCHANGED vars => UNCHANGED swarmVars
  BY DEF vars
<1>2. ASSUME NEW c \in Coordinators, CoordStep(c), ~RecoverRead(c), ~\E t \in Tasks : ExecStep(c, t)
      PROVE  Gentle
  BY <1>2, CoordGentle
<1> QED BY <1>1, <1>2, ExecGentle, OtherGentle DEF SwarmNext

LEMMA AgentStep ==
    ASSUME SwarmTypeOK, SwarmTypeOK', HasAttempt, AgentInv, [SwarmNext]_vars
    PROVE  AgentInv'
BY NextGentle, GentleKeeps, RecoverReadKeeps, LaunchKeeps, OpenKeeps

LEMMA AgentInit == SwarmInit => AgentInv
BY StateNames
DEF SwarmInit, AgentInv, Fresh, ExecAttempts, ExecAttempt, AgentsRun, RecovDead, OneRunning, Idle

\* At most one worker agent works on a task, however many coordinators crash,
\* stall, take over and recover, on however many hosts.
THEOREM OneAgentSafe == SwarmSpec => []OneWorkerAgent
PROOF
<1> DEFINE Inv == SwarmTypeOK /\ HasAttempt /\ AgentInv
<1>1. SwarmInit => Inv
  BY SwarmInitType, AgentInit
<1>2. Inv /\ [SwarmNext]_vars => Inv'
  BY SwarmStepType, AgentStep
<1>3. Inv => OneWorkerAgent
  BY AgentInvImplies, TypeParts
<1> QED BY <1>1, <1>2, <1>3, PTL DEF SwarmSpec

-----------------------------------------------------------------------------
(* A task is accepted once, and handed out after what it depends on.       *)

\* What a step but a new revision may do to the status of t.
StatusStep(t) ==
    \/ task'[t].status = task[t].status
    \/ task[t].status \in Active /\ task'[t].status \in {"PENDING", "IN_PROGRESS", "DONE", "FAILED"}
    \/ task[t].status = "PENDING" /\ task'[t].status = "CLAIMED" /\ t \notin waiting
    \/ task[t].status = "FAILED" /\ task'[t].status = "PENDING"

LEMMA FreedStatus ==
    ASSUME QueueTypeOK, NEW S, FreeAll(S, "PENDING"), \A t \in Tasks : t \in S => task[t].status \in Active
    PROVE  \A t \in Tasks : StatusStep(t)
PROOF
<1>1. ASSUME NEW t \in Tasks
      PROVE  StatusStep(t)
  <2>1. Freed(task[t], "PENDING").status = "PENDING"
    BY FreedRow DEF QueueTypeOK, TaskStatus
  <2> QED BY <2>1 DEF FreeAll, StatusStep
<1> QED BY <1>1

LEMMA RowStatus ==
    ASSUME QueueTypeOK, NEW t \in Tasks, NEW row, task' = [task EXCEPT ![t] = row],
           \/ task[t].status \in Active /\ row.status \in {"PENDING", "IN_PROGRESS", "DONE", "FAILED"}
           \/ task[t].status = "PENDING" /\ row.status = "CLAIMED" /\ t \notin waiting
           \/ task[t].status = "FAILED" /\ row.status = "PENDING"
           \/ task[t].status = row.status
    PROVE  \A u \in Tasks : StatusStep(u)
PROOF
<1>1. \A u \in Tasks : task'[u] = IF u = t THEN row ELSE task[u]
  BY DEF QueueTypeOK
<1> QED BY <1>1 DEF StatusStep

LEMMA CallStatus ==
    ASSUME QueueTypeOK, QueueCall
    PROVE  \A t \in Tasks : StatusStep(t)
PROOF
<1>0. \A t \in Tasks : task[t] \in Rows
  BY DEF QueueTypeOK
<1>1. ASSUME NEW c \in Coordinators, NEW t \in Open(c), Claim(c, t)
      PROVE  \A u \in Tasks : StatusStep(u)
  <2>1. t \in Tasks /\ t \notin waiting /\ task[t].status = "PENDING"
    BY QueueAssumption DEF Open, Claimable, Coordinators
  <2>2. task' = [task EXCEPT ![t] = ClaimedRow(task[t], c)]
    BY <1>1 DEF Claim, ClaimedRow
  <2>3. ClaimedRow(task[t], c).status = "CLAIMED"
    BY <1>0, <2>1, ClaimedRowType DEF Coordinators
  <2> QED BY <2>1, <2>2, <2>3, RowStatus
<1>2. ASSUME NEW t \in Tasks, NEW s \in {"IN_PROGRESS", "DONE", "FAILED"}, task[t].status \in Active,
             task' = [task EXCEPT ![t] = Moved(@, s)]
      PROVE  \A u \in Tasks : StatusStep(u)
  <2>1. Moved(task[t], s).status = s
    BY <1>0, MovedRow DEF TaskStatus, Active
  <2> QED BY <1>2, <2>1, RowStatus
<1>3. ASSUME NEW t \in Tasks,
             \/ Start(t, task[t].version)
             \/ \E cost \in Costs : Complete(t, task[t].version, cost)
             \/ Fail(t, task[t].version)
      PROVE  \A u \in Tasks : StatusStep(u)
  BY <1>2, <1>3 DEF Start, Complete, Fail, Matches, Active
<1>4. ASSUME NEW t \in Tasks, Release(t, task[t].version)
      PROVE  \A u \in Tasks : StatusStep(u)
  <2>1. Freed(task[t], "PENDING").status = "PENDING"
    BY <1>0, FreedRow DEF TaskStatus
  <2> QED BY <1>4, <2>1, RowStatus DEF Release, Matches
<1>5. CASE (\E c \in Coordinators : RegisterWorker(c)) \/ UNCHANGED queueVars
           \/ ReleaseStaleSnapshot \/ ReleaseStaleAbort \/ \E w \in Workers : HeartbeatAges(w)
  BY <1>5 DEF RegisterWorker, queueVars, ReleaseStaleSnapshot, ReleaseStaleAbort, HeartbeatAges, StatusStep
<1>6. CASE ReleaseStaleApply
  BY <1>6, FreedStatus DEF ReleaseStaleApply
<1>7. CASE ReleaseOfflineWorkers
  BY <1>7, FreedStatus DEF ReleaseOfflineWorkers, Held
<1>8. ASSUME NEW t \in Tasks, ClaimAges(t)
      PROVE  \A u \in Tasks : StatusStep(u)
  <2>1. [task[t] EXCEPT !.aged = TRUE].status = task[t].status
    BY <1>0 DEF Rows
  <2>2. task' = [task EXCEPT ![t] = [task[t] EXCEPT !.aged = TRUE]]
    BY <1>8 DEF ClaimAges
  <2> QED BY <2>1, <2>2, RowStatus
<1> QED BY <1>1, <1>3, <1>4, <1>5, <1>6, <1>7, <1>8 DEF QueueCall, SweepStep, TimeStep

LEMMA NextStatus ==
    ASSUME SwarmTypeOK, [SwarmNext]_vars
    PROVE  (\A t \in Tasks : StatusStep(t)) \/ \E r \in 1..Revisions : ApplyRevision(r)
PROOF
<1>0. QueueTypeOK
  BY TypeParts
<1>1. ASSUME NEW c \in Coordinators, Heartbeat(c)
      PROVE  \A t \in Tasks : StatusStep(t)
  <2>1. CASE lease.holder = c
    <3>1. ASSUME NEW t \in Tasks
          PROVE  StatusStep(t)
      <4>1. task[t] \in Rows /\ task'[t] \in {task[t], [task[t] EXCEPT !.aged = FALSE]}
        BY <1>0, <1>1, <2>1 DEF Heartbeat, QueueTypeOK
      <4> QED BY <4>1 DEF Rows, StatusStep
    <3> QED BY <3>1
  <2>2. CASE lease.holder # c
    BY <1>1, <2>2 DEF Heartbeat, queueVars, StatusStep
  <2> QED BY <2>1, <2>2
<1>2. ASSUME NEW t \in Tasks, Rerun(t)
      PROVE  \A u \in Tasks : StatusStep(u)
  <2>1. Freed(task[t], "PENDING").status = "PENDING"
    BY <1>0, FreedRow DEF TaskStatus, QueueTypeOK
  <2> QED BY <1>0, <1>2, <2>1, RowStatus DEF Rerun
<1>3. CASE UNCHANGED vars
  BY <1>3 DEF vars, queueVars, StatusStep
<1> QED BY <1>0, <1>1, <1>2, <1>3, SwarmCalls, CallStatus

\* The tasks of a revision come with it ...
FutureAbsent == \A t \in Tasks : RevisionOf[t] > applied => task[t].status = "ABSENT"

\* ... and wait as long as one they depend on is not done.
DependenciesDone == \A t \in Tasks :
    task[t].status # "ABSENT" /\ t \notin waiting => \A d \in Deps[t] : task[d].status = "DONE"

LEMMA RevisionRows ==
    ASSUME SwarmTypeOK, FutureAbsent, NEW r \in 1..Revisions, ApplyRevision(r), NEW t \in Tasks
    PROVE  /\ r > applied /\ applied' = r
           /\ RevisionOf[t] = r => task[t].status = "ABSENT" /\ (Deps[t] # {} => t \in waiting')
           /\ RevisionOf[t] # r => task'[t].status = task[t].status
                                    \/ (task[t].status = "PENDING" /\ task'[t].status = "SKIPPED")
           /\ t \in waiting => t \in waiting'
PROOF
<1>0. RevisionOf[t] \in Nat /\ applied \in Nat /\ r \in Nat /\ task[t] \in Rows
  BY SwarmAssumption DEF SwarmTypeOK, QueueTypeOK
<1>1. Freed(task[t], "SKIPPED").status = "SKIPPED"
  BY <1>0, FreedRow DEF TaskStatus
<1> QED BY <1>0, <1>1 DEF ApplyRevision, FutureAbsent

LEMMA DoneStays ==
    ASSUME SwarmTypeOK, FutureAbsent, [SwarmNext]_vars, NEW t \in Tasks, task[t].status = "DONE"
    PROVE  task'[t].status = "DONE"
BY NextStatus, RevisionRows DEF StatusStep, Active

LEMMA AbsentStays ==
    ASSUME SwarmTypeOK, [SwarmNext]_vars, NEW t \in Tasks, task[t].status = "ABSENT",
           task'[t].status # "ABSENT"
    PROVE  \E r \in 1..Revisions : ApplyRevision(r)
BY NextStatus DEF StatusStep, Active

\* Who writes the tags and the revision of the session.
LEMMA WaitingStep ==
    ASSUME [SwarmNext]_vars
    PROVE  \/ UNCHANGED <<waiting, applied>>
           \/ waiting' = waiting \ Unblocked /\ UNCHANGED applied
           \/ \E t \in Tasks : Rerun(t)
           \/ \E r \in 1..Revisions : ApplyRevision(r)
PROOF
<1>1. ASSUME NEW c \in Coordinators, NEW t \in Tasks, ExecStep(c, t)
      PROVE  UNCHANGED applied /\ (UNCHANGED waiting \/ waiting' = waiting \ Unblocked)
  BY <1>1 DEF ExecStep, Fetch, CheckBudget, StartTask, OpenAttempt, Launch, RecordPgid, ClearPgid, Judge,
              Accept, Unblock, Raise, FailTask, CloseAttempt, ReleaseTask, HandlerRaises, ExecOnly
<1>2. ASSUME NEW c \in Coordinators, CoordStep(c)
      PROVE  UNCHANGED applied /\ (UNCHANGED waiting \/ waiting' = waiting \ Unblocked)
  <2>1. CASE \E t \in Tasks : ExecStep(c, t)
    BY <1>1, <2>1
  <2>2. CASE ~\E t \in Tasks : ExecStep(c, t)
    BY <1>2, <2>2
    DEF CoordStep, AcquireLease, LeaseRefused, RecoverRead, AbandonAttempt, RecoverScan, RecoverTask,
        RecoverEnds, Poll, ClaimNext, ClaimsEnd, Collect, StopRunning, LoopRaises, Stopped, Leave, CoordOnly
  <2> QED BY <2>1, <2>2
<1>3. ASSUME NEW c \in Coordinators,
             Begin(c) \/ Heartbeat(c) \/ Crash(c) \/ Signal(c) \/ \E t \in Tasks : RunEnds(c, t)
      PROVE  UNCHANGED <<waiting, applied>>
  BY <1>3 DEF Begin, Heartbeat, Crash, Signal, RunEnds, CoordOnly
<1>4. CASE RequestStop \/ LeaseExpires \/ \E i \in Ids, m \in Modes : AgentExits(i, m)
  BY <1>4 DEF RequestStop, LeaseExpires, AgentExits
<1>5. CASE UNCHANGED swarmVars \/ UNCHANGED vars
  BY <1>5 DEF vars, swarmVars
<1> QED BY <1>2, <1>3, <1>4, <1>5 DEF SwarmNext, SwarmOperator

LEMMA FutureStep ==
    ASSUME SwarmTypeOK, FutureAbsent, [SwarmNext]_vars
    PROVE  FutureAbsent'
PROOF
<1>1. ASSUME NEW t \in Tasks, RevisionOf[t] > applied', task'[t].status # "ABSENT"
      PROVE  FALSE
  <2>0. RevisionOf[t] \in Nat /\ applied \in Nat
    BY SwarmAssumption DEF SwarmTypeOK
  <2>1. CASE \E r \in 1..Revisions : ApplyRevision(r)
    <3>1. PICK r \in 1..Revisions : ApplyRevision(r)
      BY <2>1
    <3>2. r > applied /\ applied' = r /\ r \in Nat
      BY <3>1, RevisionRows, SwarmAssumption
    <3>3. RevisionOf[t] > applied /\ RevisionOf[t] # r
      BY <1>1, <2>0, <3>2
    <3>4. task'[t].status = task[t].status \/ task[t].status = "PENDING"
      BY <3>1, <3>3, RevisionRows
    <3> QED BY <1>1, <3>3, <3>4 DEF FutureAbsent
  <2>2. CASE ~\E r \in 1..Revisions : ApplyRevision(r)
    <3>1. applied' = applied
      BY <2>2, WaitingStep DEF Rerun
    <3> QED BY <1>1, <2>2, <3>1, AbsentStays DEF FutureAbsent
  <2> QED BY <2>1, <2>2
<1> QED BY <1>1 DEF FutureAbsent

LEMMA DependenciesStep ==
    ASSUME SwarmTypeOK, FutureAbsent, DependenciesDone, [SwarmNext]_vars
    PROVE  DependenciesDone'
PROOF
<1>0. \A t \in Tasks : Deps[t] \subseteq Tasks
  BY QueueAssumption
<1>1. ASSUME NEW t \in Tasks, task'[t].status # "ABSENT", t \notin waiting', NEW d \in Deps[t]
      PROVE  task[d].status = "DONE"
  <2>1. CASE \E r \in 1..Revisions : ApplyRevision(r)
    <3>1. PICK r \in 1..Revisions : ApplyRevision(r)
      BY <2>1
    <3>2. RevisionOf[t] # r /\ t \notin waiting
      BY <1>1, <3>1, RevisionRows
    <3>3. task[t].status # "ABSENT"
      BY <1>1, <3>1, <3>2, RevisionRows
    <3> QED BY <1>1, <3>2, <3>3 DEF DependenciesDone
  <2>2. CASE ~\E r \in 1..Revisions : ApplyRevision(r)
    <3>1. task[t].status # "ABSENT"
      BY <1>1, <2>2, AbsentStays
    <3>2. CASE t \notin waiting
      BY <1>1, <3>1, <3>2 DEF DependenciesDone
    <3>3. CASE t \in waiting
      <4>1. ASSUME NEW u \in Tasks, Rerun(u)
            PROVE  t \in waiting'
        BY <3>3, <4>1 DEF Rerun
      <4>2. waiting' = waiting \ Unblocked
        BY <1>1, <2>2, <3>3, <4>1, WaitingStep
      <4> QED BY <1>1, <3>3, <4>2 DEF Unblocked
    <3> QED BY <3>2, <3>3
  <2> QED BY <2>1, <2>2
<1> QED BY <1>0, <1>1, DoneStays DEF DependenciesDone

\* Only an acceptance makes an attempt accepted.
LEMMA AcceptsOnly ==
    ASSUME SwarmTypeOK, HasAttempt, AgentInv, [SwarmNext]_vars,
           ~\E c \in Coordinators, t \in Tasks : Accept(c, t),
           NEW i \in Ids, attempt'[i].status = "accepted"
    PROVE  attempt[i].status = "accepted"
PROOF
<1>0. StoreOK /\ CoordOK /\ ExecOK
  BY TypeParts
<1>1. ASSUME NEW c \in Coordinators, NEW t \in Tasks, OpenAttempt(c, t)
      PROVE  attempt[i].status = "accepted"
  <2>1. CASE UNCHANGED attempt
    BY <2>1
  <2>2. CASE ~UNCHANGED attempt
    <3>1. PICK j \in Ids :
            attempt' = [attempt EXCEPT ![j] = [task |-> t, by |-> c, pgid |-> FALSE, status |-> "running"]]
      BY <1>1, <2>2 DEF OpenAttempt
    <3>2. attempt'[i] = attempt[i] \/ attempt'[i].status = "running"
      BY <1>0, <3>1 DEF StoreOK
    <3> QED BY <3>2
  <2> QED BY <2>1, <2>2
<1>2. ASSUME NEW c \in Coordinators, NEW t \in Tasks, RecordPgid(c, t)
      PROVE  attempt[i].status = "accepted"
  BY <1>0, <1>2 DEF RecordPgid, StoreOK, AttemptRows
<1>3. ASSUME NEW c \in Coordinators, NEW t \in Tasks, ClearPgid(c, t)
      PROVE  attempt[i].status = "accepted"
  BY <1>0, <1>3 DEF ClearPgid, StoreOK, AttemptRows
<1>4. ASSUME NEW c \in Coordinators, NEW t \in Tasks, CloseAttempt(c, t)
      PROVE  attempt[i].status = "accepted"
  <2> DEFINE e == exec[c][t]
  <2>1. CASE e.attempt = NoAttempt
    BY <1>4, <2>1 DEF CloseAttempt
  <2>2. CASE e.attempt # NoAttempt
    <3>1. e.attempt \in Ids
      BY <1>0, <2>2 DEF ExecOK, Execs
    <3>2. Outcome[e.pc] \in {"failed", "cancelled", "abandoned"}
      BY <1>4 DEF CloseAttempt, At, Outcome
    <3>3. attempt' = Finished(e.attempt, Outcome[e.pc])
      BY <1>4, <2>2 DEF CloseAttempt
    <3>4. i # e.attempt
      BY <1>0, <3>1, <3>2, <3>3, FinishedType
    <3>5. attempt'[i] = attempt[i]
      BY <1>0, <3>1, <3>2, <3>3, <3>4, FinishedType
    <3> QED BY <3>5
  <2> QED BY <2>1, <2>2
<1>5. ASSUME NEW c \in Coordinators, AbandonAttempt(c)
      PROVE  attempt[i].status = "accepted"
  <2>1. PICK j \in recov[c].attempts : attempt' = Finished(j, "abandoned")
    BY <1>5 DEF AbandonAttempt
  <2>2. j \in Ids
    BY <1>0, <2>1 DEF CoordOK
  <2> QED BY <1>0, <2>1, <2>2, FinishedType
<1>6. CASE UNCHANGED attempt
  BY <1>6
<1>7. ASSUME NEW c \in Coordinators, NEW t \in Tasks, ExecStep(c, t), ~Accept(c, t)
      PROVE  attempt[i].status = "accepted"
  BY <1>1, <1>2, <1>3, <1>4, <1>6, <1>7
  DEF ExecStep, Fetch, CheckBudget, StartTask, Launch, Judge, Unblock, Raise, FailTask, ReleaseTask,
      HandlerRaises, ExecOnly
<1>8. ASSUME NEW c \in Coordinators, CoordStep(c)
      PROVE  attempt[i].status = "accepted"
  <2>1. CASE \E t \in Tasks : ExecStep(c, t)
    BY <1>7, <2>1
  <2>2. CASE ~\E t \in Tasks : ExecStep(c, t)
    BY <1>5, <1>6, <1>8, <2>2
    DEF CoordStep, AcquireLease, LeaseRefused, RecoverRead, RecoverScan, RecoverTask, RecoverEnds, Poll,
        ClaimNext, ClaimsEnd, Collect, StopRunning, LoopRaises, CancelAll, Stopped, Leave, CoordOnly
  <2> QED BY <2>1, <2>2
<1>9. ASSUME NEW c \in Coordinators,
             Begin(c) \/ Heartbeat(c) \/ Crash(c) \/ Signal(c) \/ \E t \in Tasks : RunEnds(c, t)
      PROVE  UNCHANGED attempt
  BY <1>9 DEF Begin, Heartbeat, Crash, Signal, RunEnds, CoordOnly
<1>10. CASE SwarmOperator \/ LeaseExpires \/ (\E j \in Ids, m \in Modes : AgentExits(j, m))
            \/ UNCHANGED swarmVars \/ UNCHANGED vars
  <2>1. UNCHANGED attempt
    BY <1>10 DEF SwarmOperator, RequestStop, Rerun, ApplyRevision, LeaseExpires, AgentExits, vars, swarmVars
  <2> QED BY <1>6, <2>1
<1> QED BY <1>6, <1>8, <1>9, <1>10 DEF SwarmNext

LEMMA AcceptedStep ==
    ASSUME SwarmTypeOK, HasAttempt, AgentInv, FutureAbsent, AcceptedOnce, [SwarmNext]_vars
    PROVE  AcceptedOnce'
PROOF
<1>0. StoreOK /\ ExecOK
  BY TypeParts
<1>a. \A i \in Ids : attempt[i].status = "accepted" =>
        attempt[i].task \in Tasks /\ task'[attempt[i].task].status = "DONE"
  BY DoneStays DEF AcceptedOnce, AgentInv, Fresh
<1>1. ASSUME NEW c \in Coordinators, NEW t \in Tasks, Accept(c, t)
      PROVE  AcceptedOnce'
  <2> DEFINE n == exec[c][t].attempt
  <2>1. n \in Ids /\ attempt[n].task = t
    <3>1. n \in Ids /\ n # NoAttempt
      BY <1>1, StateNames DEF Accept, At, HasAttempt, Attempting
    <3>2. ExecAttempt(c, t)
      BY DEF AgentInv, ExecAttempts
    <3> QED BY <3>1, <3>2 DEF ExecAttempt
  <2>2. CASE UNCHANGED attempt
    BY <1>a, <2>2 DEF AcceptedOnce
  <2>3. CASE ~UNCHANGED attempt
    <3>1. /\ attempt[n].status = "running" /\ task[t].status \in Active
          /\ task' = [task EXCEPT ![t] = Moved(@, "DONE")]
          /\ attempt' = Finished(n, "accepted")
      BY <1>1, <2>3 DEF Accept, Complete, Matches
    <3>2. task'[t].status = "DONE"
      BY <3>1, MovedRow DEF SwarmTypeOK, QueueTypeOK, TaskStatus
    <3>3. \A j \in Ids : attempt[j].task = t => attempt[j].status # "accepted"
      BY <3>1 DEF AcceptedOnce, Active
    <3>4. \A j \in Ids : attempt[j].task = t /\ attempt[j].status = "running" => j = n
      BY <2>1, <3>1 DEF AgentInv, OneRunning
    <3>5. /\ attempt'[n].task = t /\ attempt'[n].status = "accepted"
          /\ \A j \in Ids : j # n => attempt'[j] = attempt[j]
      BY <1>0, <2>1, <3>1, FinishedType
    <3> QED BY <1>a, <2>1, <3>2, <3>3, <3>4, <3>5 DEF AcceptedOnce
  <2> QED BY <2>2, <2>3
<1>2. ASSUME NEW c \in Coordinators, NEW t \in Tasks, OpenAttempt(c, t)
      PROVE  AcceptedOnce'
  <2>1. CASE UNCHANGED attempt
    BY <1>a, <2>1 DEF AcceptedOnce
  <2>2. CASE ~UNCHANGED attempt
    <3>1. task[t].status = "IN_PROGRESS"
      BY <1>2, <2>2 DEF OpenAttempt
    <3>2. PICK n \in Ids :
            attempt' = [attempt EXCEPT ![n] = [task |-> t, by |-> c, pgid |-> FALSE, status |-> "running"]]
      BY <1>2, <2>2 DEF OpenAttempt
    <3>3. \A j \in Ids : attempt'[j] = IF j = n THEN [task |-> t, by |-> c, pgid |-> FALSE, status |-> "running"]
                                        ELSE attempt[j]
      BY <1>0, <3>2 DEF StoreOK
    <3>4. \A j \in Ids : attempt[j].task = t => attempt[j].status # "accepted"
      BY <3>1 DEF AcceptedOnce
    <3> QED BY <1>a, <3>3, <3>4 DEF AcceptedOnce
  <2> QED BY <2>1, <2>2
<1>3. CASE Gentle /\ ~\E c \in Coordinators, t \in Tasks : Accept(c, t)
  <2>1. \A i \in Ids : /\ attempt'[i].task = attempt[i].task
                       /\ attempt'[i].status = "running" => attempt[i].status = "running"
                       /\ attempt'[i].status = "accepted" => attempt[i].status = "accepted"
    BY <1>3, AcceptsOnly DEF Gentle, GentleAttempt
  <2> QED BY <1>a, <2>1 DEF AcceptedOnce
<1>4. CASE UNCHANGED attempt
  BY <1>a, <1>4 DEF AcceptedOnce
<1>5. ASSUME NEW c \in Coordinators, NEW t \in Tasks, RecoverRead(c) \/ Launch(c, t)
      PROVE  UNCHANGED attempt
  BY <1>5 DEF RecoverRead, Launch
<1>6. ASSUME NEW c \in Coordinators, RecoverRead(c)
      PROVE  UNCHANGED attempt
  BY <1>6 DEF RecoverRead
<1> QED BY <1>1, <1>2, <1>3, <1>4, <1>5, <1>6, NextGentle

\* What the swarm relies on: types, one agent, one acceptance, dependencies.
SwarmInv ==
    SwarmTypeOK /\ HasAttempt /\ AgentInv /\ FutureAbsent /\ DependenciesDone /\ AcceptedOnce

LEMMA SwarmInvInit == SwarmInit => SwarmInv
PROOF
<1>1. SwarmInit => FutureAbsent /\ DependenciesDone
  BY SwarmAssumption DEF SwarmInit, QueueInit, NoRow, FutureAbsent, DependenciesDone
<1>2. SwarmInit => AcceptedOnce
  BY DEF SwarmInit, AcceptedOnce
<1> QED BY <1>1, <1>2, SwarmInitType, AgentInit DEF SwarmInv

LEMMA SwarmInvStep == SwarmInv /\ [SwarmNext]_vars => SwarmInv'
BY SwarmStepType, AgentStep, FutureStep, DependenciesStep, AcceptedStep DEF SwarmInv

\* A task has at most one accepted attempt, and then it is done and nobody
\* works on it, whoever lost the claim, the lease or the attempt in between.
THEOREM AcceptedOnceSafe == SwarmSpec => []AcceptedOnce
PROOF
<1>1. SwarmInv => AcceptedOnce
  BY DEF SwarmInv
<1> QED BY <1>1, SwarmInvInit, SwarmInvStep, PTL DEF SwarmSpec

\* In a swarm session no task is claimed before everything it depends on is done.
THEOREM SwarmDependenciesFirst == SwarmSpec => DependenciesFirst
PROOF
<1>1. SwarmInv /\ [SwarmNext]_vars =>
        [\A t \in Tasks : task[t].status = "PENDING" /\ task'[t].status = "CLAIMED"
            => \A d \in Deps[t] : task[d].status = "DONE"]_queueVars
  <2> SUFFICES ASSUME SwarmInv, [SwarmNext]_vars, NEW t \in Tasks,
                      task[t].status = "PENDING", task'[t].status = "CLAIMED"
               PROVE  \A d \in Deps[t] : task[d].status = "DONE"
    OBVIOUS
  <2>1. ~\E r \in 1..Revisions : ApplyRevision(r)
    BY RevisionRows DEF SwarmInv
  <2>2. t \notin waiting
    BY <2>1, NextStatus DEF SwarmInv, StatusStep, Active
  <2> QED BY <2>2 DEF SwarmInv, DependenciesDone
<1> QED BY <1>1, SwarmInvInit, SwarmInvStep, PTL DEF SwarmSpec, DependenciesFirst

-----------------------------------------------------------------------------
(* What the swarm writes without the repository keeps its promises.        *)

\* A beat takes its mark from a row.
RowBeats(t) == task'[t] = [task[t] EXCEPT !.aged = FALSE]

LEMMA BeatsRow ==
    ASSUME QueueTypeOK, NEW t \in Tasks, RowBeats(t)
    PROVE  /\ task'[t].status = task[t].status
           /\ task'[t].version = task[t].version
           /\ task'[t].claimed_by = task[t].claimed_by
BY DEF RowBeats, QueueTypeOK, Rows

LEMMA HeartbeatRows ==
    ASSUME NEW c \in Coordinators, Heartbeat(c), NEW t \in Tasks
    PROVE  audit' = audit /\ (RowBeats(t) \/ task'[t] = task[t])
BY DEF Heartbeat, RowBeats, queueVars

\* A new revision creates its rows and skips what is still pending.
LEMMA RevisionRow ==
    ASSUME SwarmTypeOK, FutureAbsent, NEW r \in 1..Revisions, ApplyRevision(r), NEW t \in Tasks
    PROVE  \/ RowCreated(t) /\ audit'[t] = audit[t]
           \/ RowSkipped(t) /\ audit'[t] = [type |-> "SKIP", worker |-> NoWorker]
           \/ task'[t] = task[t] /\ audit'[t] = audit[t]
PROOF
<1> DEFINE new == {u \in Tasks : RevisionOf[u] = r}
           old == {u \in Tasks : task[u].status = "PENDING"}
<1>0. RevisionOf[t] = r => task[t].status = "ABSENT"
  BY RevisionRows
<1>1. /\ task'[t] = IF t \in new THEN NewRow ELSE IF t \in old THEN Freed(task[t], "SKIPPED") ELSE task[t]
      /\ audit'[t] = IF t \in old THEN [type |-> "SKIP", worker |-> NoWorker] ELSE audit[t]
  BY DEF ApplyRevision, RecordAll
<1>2. CASE t \in new
  BY <1>0, <1>1, <1>2 DEF RowCreated
<1>3. CASE t \in old
  BY <1>0, <1>1, <1>3 DEF RowSkipped
<1>4. CASE t \notin new /\ t \notin old
  BY <1>1, <1>4
<1> HIDE DEF new, old
<1> QED BY <1>2, <1>3, <1>4

\* A step of the swarm changes a row as the repository would, or beats.
LEMMA SwarmRows ==
    ASSUME SwarmTypeOK, FutureAbsent, [SwarmNext]_vars, NEW t \in Tasks
    PROVE  RowStep(t) \/ RowBeats(t)
PROOF
<1>0. QueueTypeOK
  BY TypeParts
<1>1. CASE task'[t] = task[t]
  BY <1>1 DEF RowStep, RowChange, RowQuiet
<1>2. CASE QueueCall
  BY <1>0, <1>1, <1>2, CallIsQueueStep, QueueStepRows DEF queueVars
<1>3. CASE \E c \in Coordinators : Heartbeat(c)
  BY <1>1, <1>3, HeartbeatRows
<1>4. CASE \E u \in Tasks : Rerun(u)
  <2>1. PICK u \in Tasks : Rerun(u)
    BY <1>4
  <2>2. task' = [task EXCEPT ![u] = Freed(task[u], "PENDING")] /\ task[u].status = "FAILED"
    BY <2>1 DEF Rerun
  <2>3. task'[t] = IF t = u THEN Freed(task[u], "PENDING") ELSE task[t]
    BY <1>0, <2>2 DEF QueueTypeOK
  <2> QED BY <1>1, <2>2, <2>3 DEF RowFreed, RowStep, RowChange, RowQuiet
<1>5. CASE \E r \in 1..Revisions : ApplyRevision(r)
  BY <1>1, <1>5, RevisionRow DEF RowStep, RowChange, RowQuiet
<1>6. CASE UNCHANGED vars
  BY <1>1, <1>6 DEF vars, queueVars
<1> QED BY <1>2, <1>3, <1>4, <1>5, <1>6, SwarmCalls

\* ... and writes the event that tells so.
LEMMA SwarmAgrees ==
    ASSUME SwarmTypeOK, FutureAbsent, AllAgree, [SwarmNext]_vars
    PROVE  AllAgree'
PROOF
<1>0. QueueTypeOK /\ (\A t \in Tasks : task[t] \in Rows) /\ "PENDING" \in TaskStatus /\ "SKIPPED" \in TaskStatus
  BY TypeParts DEF QueueTypeOK, TaskStatus
<1>1. CASE UNCHANGED queueVars
  BY <1>1 DEF queueVars, AllAgree
<1>2. CASE QueueCall
  BY <1>0, <1>1, <1>2, CallIsQueueStep, CallerStepAgrees, BackgroundAgrees, OperatorStepAgrees,
     ReimportStepAgrees DEF QueueNext
<1>3. ASSUME NEW c \in Coordinators, Heartbeat(c)
      PROVE  AllAgree'
  <2>1. audit' = audit
    BY <1>3 DEF Heartbeat, queueVars
  <2>2. \A t \in Tasks : task'[t].status = task[t].status /\ task'[t].claimed_by = task[t].claimed_by
    BY <1>0, <1>3, HeartbeatRows, BeatsRow
  <2> QED BY <1>0, <2>1, <2>2, SilentRowsAgree
<1>4. ASSUME NEW u \in Tasks, Rerun(u)
      PROVE  AllAgree'
  <2>1. task' = [task EXCEPT ![u] = Freed(task[u], "PENDING")] /\ Record(u, "RESET", NoWorker)
    BY <1>4 DEF Rerun
  <2>2. Agree(Freed(task[u], "PENDING"), [type |-> "RESET", worker |-> NoWorker])
    BY <1>0, FreedRow DEF Agree
  <2> QED BY <1>0, <2>1, <2>2, OneRowAgrees
<1>5. ASSUME NEW r \in 1..Revisions, ApplyRevision(r)
      PROVE  AllAgree'
  <2>1. ASSUME NEW t \in Tasks
        PROVE  Agree(task'[t], audit'[t])
    <3>1. Agree(task[t], audit[t]) /\ audit[t].type \in TransitionEvents
      BY <1>0 DEF AllAgree, QueueTypeOK, AuditEvents
    <3>2. CASE RowCreated(t) /\ audit'[t] = audit[t]
      <4>1. task[t].status = "ABSENT" /\ task'[t].status = "PENDING" /\ task'[t].claimed_by = NoWorker
        BY <3>2, OtherRows DEF RowCreated
      <4>2. audit[t].type \in {"NONE", "RELEASE", "RESET"}
        BY <3>1, <4>1 DEF Agree, TransitionEvents
      <4> QED BY <3>2, <4>1, <4>2 DEF Agree
    <3>3. CASE RowSkipped(t) /\ audit'[t] = [type |-> "SKIP", worker |-> NoWorker]
      <4>1. task'[t].status = "SKIPPED" /\ task'[t].claimed_by = NoWorker
        BY <1>0, <3>3, FreedRow DEF RowSkipped
      <4> QED BY <3>3, <4>1 DEF Agree
    <3>4. CASE task'[t] = task[t] /\ audit'[t] = audit[t]
      BY <3>1, <3>4
    <3> QED BY <1>5, <3>2, <3>3, <3>4, RevisionRow
  <2> QED BY <2>1 DEF AllAgree
<1> QED BY <1>1, <1>2, <1>3, <1>4, <1>5, SwarmCalls DEF vars

LEMMA SwarmAgreesSafe == SwarmSpec => [](SwarmInv /\ OwnedIffClaimed /\ AllAgree /\ AbsentAtZero)
PROOF
<1>1. SwarmInit => SwarmInv /\ OwnedIffClaimed /\ AllAgree /\ AbsentAtZero
  <2> SUFFICES ASSUME SwarmInit PROVE OwnedIffClaimed /\ AllAgree /\ AbsentAtZero
    BY SwarmInvInit
  <2>1. \A t \in Tasks : audit[t] = NoEvent /\ (task[t] = NewRow \/ task[t] = NoRow)
    BY DEF SwarmInit, QueueInit
  <2> QED BY <2>1, OtherRows DEF OwnedIffClaimed, AllAgree, Agree, NoEvent, AbsentAtZero, Active
<1>2. SwarmInv /\ OwnedIffClaimed /\ AllAgree /\ AbsentAtZero /\ [SwarmNext]_vars
        => SwarmInv' /\ OwnedIffClaimed' /\ AllAgree' /\ AbsentAtZero'
  <2> SUFFICES ASSUME SwarmInv, OwnedIffClaimed, AllAgree, AbsentAtZero, [SwarmNext]_vars
               PROVE  OwnedIffClaimed' /\ AllAgree' /\ AbsentAtZero'
    BY SwarmInvStep
  <2>0. QueueTypeOK /\ SwarmTypeOK /\ FutureAbsent
    BY TypeParts DEF SwarmInv
  <2>1. ASSUME NEW t \in Tasks
        PROVE  OwnedRow(task'[t]) /\ (task'[t].status = "ABSENT" => task'[t].version = 0)
    <3>1. OwnedRow(task[t])
      BY DEF OwnedIffClaimed, OwnedRow
    <3>2. CASE RowStep(t)
      BY <2>0, <3>1, <3>2, OwnedStep, AbsentStep
    <3>3. CASE RowBeats(t)
      BY <2>0, <3>1, <3>3, BeatsRow DEF OwnedRow, AbsentAtZero
    <3> QED BY <2>0, <3>2, <3>3, SwarmRows
  <2> QED BY <2>0, <2>1, SwarmAgrees DEF OwnedIffClaimed, OwnedRow, AbsentAtZero
<1> QED BY <1>1, <1>2, PTL DEF SwarmSpec

\* Three writers of the swarm bypass the repository: the beat, the re-run and the
\* new revision.  The rows keep the repository's promises all the same: who owns
\* what, what the audit log tells, and the edges of the state machine.
THEOREM SwarmQueueSafe == SwarmSpec => [](OwnedIffClaimed /\ AuditTellsStatus) /\ ImplementsLifecycle
PROOF
<1>1. SwarmInit => Lifecycle!LifecycleInit
  BY OtherRows DEF SwarmInit, QueueInit, Lifecycle!LifecycleInit
<1>2. SwarmInv /\ AbsentAtZero /\ [SwarmNext]_vars
        => [Lifecycle!LifecycleNext]_(Lifecycle!lifecycleVars)
  <2> SUFFICES ASSUME SwarmInv, AbsentAtZero, [SwarmNext]_vars PROVE Lifecycle!LifecycleNext
    OBVIOUS
  <2>0. QueueTypeOK /\ SwarmTypeOK /\ FutureAbsent
    BY TypeParts DEF SwarmInv
  <2>1. ASSUME NEW t \in Tasks
        PROVE  LifecycleStep(t)
    <3>1. CASE RowStep(t)
      BY <2>0, <3>1, RowStepIsLifecycleStep
    <3>2. CASE RowBeats(t)
      <4>1. task'[t].status = task[t].status /\ task'[t].version = task[t].version
        BY <2>0, <3>2, BeatsRow
      <4>2. Lifecycle!Keep(t)
        BY <4>1 DEF Lifecycle!Keep, Lifecycle!Move
      <4> QED BY <4>2 DEF LifecycleStep
    <3> QED BY <2>0, <3>1, <3>2, SwarmRows
  <2> QED BY <2>1 DEF LifecycleStep, Lifecycle!LifecycleNext
<1> QED
  BY <1>1, <1>2, SwarmAgreesSafe, AllAgreeIsAuditTellsStatus, PTL
  DEF SwarmSpec, ImplementsLifecycle, Lifecycle!LifecycleSpec
=============================================================================
