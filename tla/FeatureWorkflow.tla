--------------------------- MODULE FeatureWorkflow ---------------------------
(***************************************************************************)
(* One feature of the product cockpit: its row (whilly/swarm/              *)
(* product_store.py), the jobs that plan, execute and publish it           *)
(* (whilly/api/product_workflow.py, whilly/swarm/product_workflow.py) and  *)
(* the administrator who edits, approves and stops it.                     *)
(*                                                                         *)
(* Every method of the store is one statement or one transaction.  A job   *)
(* runs under an advisory lock of Postgres that excludes the jobs of other *)
(* servers, but not the administrator; the lock goes when its connection   *)
(* breaks, and the job does not notice.  Any call of a job may raise,      *)
(* after its statement took effect or before it.  The digest of a binding  *)
(* covers its revision, so the revision stands for the digest.  The spec   *)
(* is known by the revision that wrote it; models, prompts, worktrees and  *)
(* the coordinator of the session (SwarmCoordinator) are left out but for  *)
(* what they decide.                                                       *)
(***************************************************************************)
EXTENDS Naturals

CONSTANTS Servers,      \* processes of the server, each with its jobs
          NoServer,     \* nobody holds the lock
          Budgets,      \* budgets an administrator sets
          FirstBudget,  \* the budget of a new feature
          MaxRevision,  \* bound: revisions of the feature
          MaxPlans      \* bound: plan revisions the planner proposes

ASSUME FeatureAssumption ==
    /\ NoServer \notin Servers
    /\ FirstBudget \in Budgets
    /\ MaxRevision \in Nat /\ MaxPlans \in Nat

VARIABLES feature,   \* the row of swarm_product_features
          binding,   \* the binding in swarm_product_specs that was written last
          session,   \* the plan revisions of the feature's session
          lock,      \* the server whose job holds the advisory lock
          job,       \* job[s]: the entry of the feature in jobs of server s
          granted,   \* history: digests an administrator approved and nobody revoked
          orphaned   \* history: digests whose job died or could not write

storeVars == <<feature, binding, granted>>
vars == <<feature, binding, session, lock, job, granted, orphaned>>

Null == 0  \* no digest, no plan, no specification
Digests == 1..MaxRevision
Contents == [spec : 0..MaxRevision, budget : Budgets, plan : 0..MaxPlans]
Unbound == [spec |-> Null, budget |-> FirstBudget, plan |-> Null]

Idle == [kind |-> "none", at |-> "idle", digest |-> Null, revision |-> 0, budget |-> FirstBudget,
         plan |-> Null, work |-> Null]

\* The approval the job of s was working for has nobody left to end it.
Orphan(s) == orphaned' = orphaned \cup ({job[s].digest} \ {Null})

\* Places of execute before and after begin_run, of plan, and of the handlers.
Before == {"reading", "permitting", "beginning"}
Guarded == {"applying", "importing", "starting", "checking", "working", "accepting", "finishing", "escalating"}
Planning == {"planning", "revoking", "asking", "preparing"}
Operating == Before \cup Guarded \cup Planning \cup {"publishing"}
Places == Operating \cup {"idle", "locking", "undoing", "failing", "unlocking"}

FeatureRows == [status : {"draft", "planned", "approved", "running", "blocked", "review"},
                revision : 0..MaxRevision, spec : 0..MaxRevision, budget : Budgets,
                plan : 0..MaxPlans, digest : 0..MaxRevision, approved : 0..MaxRevision]
Sessions == [proposed : 0..MaxPlans, applied : 0..MaxPlans, done : SUBSET (0..MaxPlans)]
Jobs == [kind : {"none", "plan", "execute", "publish"}, at : Places,
         digest : 0..MaxRevision, revision : 0..MaxRevision, budget : Budgets,
         plan : 0..MaxPlans, work : 0..MaxPlans]

FeatureTypeOK ==
    /\ feature \in FeatureRows
    /\ binding \in Contents
    /\ session \in Sessions
    /\ lock \in Servers \cup {NoServer}
    /\ job \in [Servers -> Jobs]
    /\ \A s \in Servers : job[s].kind = "none" => job[s].at = "idle"
    /\ granted \subseteq Digests /\ orphaned \subseteq Digests

FeatureInit ==
    /\ feature = [status |-> "draft", revision |-> 0, spec |-> Null, budget |-> FirstBudget,
                  plan |-> Null, digest |-> Null, approved |-> Null]
    /\ binding = Unbound
    /\ session = [proposed |-> 0, applied |-> Null, done |-> {}]
    /\ lock = NoServer
    /\ job = [s \in Servers |-> Idle]
    /\ granted = {} /\ orphaned = {}

-----------------------------------------------------------------------------
(* The store.                                                              *)

\* A digest that is cleared or replaced in the row is not approved any more.
Revoke == granted' = granted \ {feature.digest}

Invalidate ==
    /\ feature' = [feature EXCEPT !.status = "blocked", !.digest = Null, !.approved = Null]
    /\ Revoke
    /\ UNCHANGED binding

Mutable == feature.status # "running" /\ feature.revision < MaxRevision
NextRevision == feature.revision + 1

Prepare(revision, budget, plan) ==
    /\ Mutable /\ feature.revision = revision
    /\ feature' = [feature EXCEPT !.status = "planned", !.revision = NextRevision, !.spec = NextRevision,
                                  !.budget = budget, !.plan = plan,
                                  !.digest = NextRevision, !.approved = Null]
    /\ binding' = [spec |-> NextRevision, budget |-> budget, plan |-> plan]
    /\ Revoke

BeginRun(digest) ==
    /\ feature.status = "approved" /\ feature.approved = digest /\ digest # Null
    /\ feature' = [feature EXCEPT !.status = "running"]
    /\ UNCHANGED <<binding, granted>>

\* Fault: finish without expected_digest.
FinishAnyDigest(digest) ==
    /\ feature.approved # Null /\ feature.status \in {"running", "review"}
    /\ feature' = [feature EXCEPT !.status = "review"]
    /\ UNCHANGED <<binding, granted>>

Finish(digest) ==
    /\ feature.approved # Null /\ feature.status \in {"running", "review"}
    /\ feature.approved = digest
    /\ feature' = [feature EXCEPT !.status = "review"]
    /\ UNCHANGED <<binding, granted>>

\* The checks of require_feature_permission that read the row.
Permitted(plan) ==
    /\ feature.status \in {"approved", "running"}
    /\ feature.approved # Null /\ feature.approved = feature.digest
    /\ feature.plan = plan

-----------------------------------------------------------------------------
(* The administrator.                                                      *)

Edited == UNCHANGED <<binding, session, lock, job, orphaned>>

\* A page shows the revision and the digest, and may be old.
Approve(digest) ==
    /\ feature.status = "planned" /\ feature.revision = digest /\ feature.digest = digest
    /\ feature' = [feature EXCEPT !.status = "approved", !.approved = digest]
    /\ granted' = granted \cup {digest}
    /\ Edited

Draft(row) == [row EXCEPT !.status = "draft", !.revision = NextRevision, !.digest = Null, !.approved = Null]

SetSpec ==
    /\ Mutable
    /\ feature' = [Draft(feature) EXCEPT !.spec = NextRevision]
    /\ Revoke
    /\ Edited

\* Fault: the new budget leaves the approval alone.
SetBudgetQuietly(budget) ==
    /\ Mutable
    /\ feature' = [feature EXCEPT !.budget = budget]
    /\ UNCHANGED granted
    /\ Edited

SetBudget(budget) ==
    /\ Mutable
    /\ feature' = [Draft(feature) EXCEPT !.budget = budget]
    /\ Revoke
    /\ Edited

\* An improvement proposal is accepted into the specification; the owner
\* names the revision the page showed.
AcceptForPlanning(revision) ==
    /\ Mutable /\ feature.revision = revision
    /\ feature' = [Draft(feature) EXCEPT !.spec = NextRevision]
    /\ Revoke
    /\ Edited

\* stop: the row is invalidated first; then the job of this server is
\* cancelled, which is one of the ways to Raise.  The other servers are not
\* told.
Stop == Invalidate /\ Edited

-----------------------------------------------------------------------------
(* The jobs of a server.                                                   *)

Goto(s, at) == job' = [job EXCEPT ![s].at = at]

\* Nothing that was read so far is used again.
GotoAfresh(s, at) == job' = [job EXCEPT ![s] = [Idle EXCEPT !.kind = job[s].kind, !.at = at]]

Submit(s, kind) ==
    /\ job[s].at = "idle"
    /\ kind = "execute" => feature.status = "approved" /\ feature.approved # Null
    /\ kind = "publish" => feature.status = "review"
    /\ job' = [job EXCEPT ![s] = [Idle EXCEPT !.kind = kind, !.at = "locking"]]
    /\ UNCHANGED <<storeVars, session, lock, orphaned>>

FirstPlace == [plan |-> "planning", execute |-> "reading", publish |-> "publishing"]

TakeLock(s) ==
    /\ job[s].at = "locking" /\ lock = NoServer
    /\ lock' = s
    /\ Goto(s, FirstPlace[job[s].kind])
    /\ UNCHANGED <<storeVars, session, orphaned>>

\* The job ends and its connection is reset, which frees the lock; or the
\* lock was refused, or the job cancelled before it had it.
Unlock(s) ==
    /\ job[s].at \in {"unlocking", "locking"}
    /\ lock' = IF lock = s THEN NoServer ELSE lock
    /\ job' = [job EXCEPT ![s] = Idle]
    /\ UNCHANGED <<storeVars, session, orphaned>>

ReadFeature(s) ==
    /\ job[s].at = "reading"
    /\ job' = [job EXCEPT ![s].at = "permitting", ![s].digest = feature.approved, ![s].plan = feature.plan]
    /\ UNCHANGED <<storeVars, session>>

CheckPermission(s) ==
    /\ job[s].at = "permitting" /\ Permitted(job[s].plan)
    /\ Goto(s, "beginning")
    /\ UNCHANGED <<storeVars, session>>

\* A revision that is applied already is resumed; apply_revision looks at
\* the permission again.
ApplyOrResume(s) ==
    /\ job[s].at = "applying"
    /\ \/ session.applied = job[s].plan /\ Goto(s, "starting")
       \/ session.applied # job[s].plan /\ Permitted(job[s].plan) /\ Goto(s, "importing")
    /\ UNCHANGED <<storeVars, session>>

Import(s) ==
    /\ session.applied < job[s].plan
    /\ session' = [session EXCEPT !.applied = job[s].plan]
    /\ UNCHANGED storeVars

\* The coordinator works on the revision that is applied now, if permitted.
StartRounds(s) ==
    /\ job[s].at = "starting"
    /\ job' = [job EXCEPT ![s].at = "checking", ![s].work = session.applied]
    /\ UNCHANGED <<storeVars, session>>

CheckRun(s) ==
    /\ job[s].at = "checking" /\ Permitted(job[s].work)
    /\ Goto(s, "working")
    /\ UNCHANGED <<storeVars, session>>

\* The last task of the plan is done but for its acceptance.
PermitAccept(s) ==
    /\ job[s].at = "working" /\ job[s].work \notin session.done /\ Permitted(job[s].work)
    /\ Goto(s, "accepting")
    /\ UNCHANGED <<storeVars, session>>

AcceptTask(s) ==
    /\ session' = [session EXCEPT !.done = @ \cup {job[s].work}]
    /\ UNCHANGED storeVars

\* The rounds end: every task of the plan read at the start is done, or some
\* are exhausted; anything else raises.
RoundsEnd(s) ==
    /\ job[s].at = "working"
    /\ Goto(s, IF job[s].plan \in session.done THEN "finishing" ELSE "escalating")
    /\ UNCHANGED <<storeVars, session>>

\* plan(), as a job or from execute after the escalation.
ReadForPlan(s) ==
    /\ job[s].at = "planning" /\ feature.status # "running"
    /\ job' = [job EXCEPT ![s].at = "revoking", ![s].revision = feature.revision, ![s].budget = feature.budget]
    /\ UNCHANGED <<storeVars, session>>

\* service.chat stores a proposed revision of the session's plan.
Propose(s) ==
    /\ session.proposed < MaxPlans
    /\ session' = [session EXCEPT !.proposed = @ + 1]
    /\ UNCHANGED storeVars

\* The candidates are published, or, in execute, the reason why not is kept
\* as the blocker.
Publish(s) ==
    /\ job[s].at = "publishing"
    /\ GotoAfresh(s, "unlocking")
    /\ UNCHANGED <<storeVars, session>>

-----------------------------------------------------------------------------
(* The statement a call of the job is about, and what follows.             *)

Statement(s) ==
    \/ job[s].at = "beginning" /\ BeginRun(job[s].digest) /\ UNCHANGED session
    \/ job[s].at = "importing" /\ Import(s)
    \/ job[s].at = "accepting" /\ AcceptTask(s)
    \/ job[s].at = "finishing" /\ Finish(job[s].digest) /\ UNCHANGED session
    \/ job[s].at \in {"escalating", "revoking", "undoing", "failing"} /\ Invalidate /\ UNCHANGED session
    \/ job[s].at = "asking" /\ Propose(s)
    \/ job[s].at = "preparing" /\ Prepare(job[s].revision, job[s].budget, job[s].work) /\ UNCHANGED session

After == [beginning |-> "applying", importing |-> "starting", accepting |-> "working",
          finishing |-> "publishing", escalating |-> "planning", revoking |-> "asking",
          asking |-> "preparing", preparing |-> "unlocking", undoing |-> "failing", failing |-> "unlocking"]

\* A statement is done and the job goes on; chat answers with the revision
\* it has proposed.
StatementDone(s) ==
    /\ Statement(s)
    /\ CASE job[s].at = "asking" ->
                job' = [job EXCEPT ![s].at = "preparing", ![s].work = session.proposed + 1]
         [] job[s].at \in {"finishing", "escalating", "preparing", "failing"} -> GotoAfresh(s, After[job[s].at])
         [] OTHER -> Goto(s, After[job[s].at])

\* The try block of execute has a handler of its own inside that of submit.
InTry(s) == job[s].kind = "execute" /\ job[s].at \notin Before

\* Fault: except Exception, which lets a cancellation pass.
HandlerOfException(s, cancelled) ==
    IF cancelled THEN "unlocking" ELSE IF InTry(s) THEN "undoing" ELSE "failing"

Handler(s, cancelled) == IF InTry(s) THEN "undoing" ELSE "failing"

\* A call raises: an error, a refusal, a budget, a time limit, a drift of the
\* registry, a lost answer or the cancellation by stop or by a shutdown.
Raise(s) ==
    /\ job[s].at \in Operating
    /\ Statement(s) \/ UNCHANGED <<storeVars, session>>
    /\ \E cancelled \in BOOLEAN :
        job' = [job EXCEPT ![s] = [Idle EXCEPT !.kind = job[s].kind, !.digest = job[s].digest,
                                               !.at = Handler(s, cancelled)]]

\* The handler is interrupted, or the database is gone.
HandlerFails(s) ==
    /\ job[s].at \in {"undoing", "failing"}
    /\ Statement(s) \/ UNCHANGED <<storeVars, session>>
    /\ IF job[s].at = "undoing"
         THEN Goto(s, "failing") /\ UNCHANGED orphaned
         ELSE GotoAfresh(s, "unlocking") /\ Orphan(s)

-----------------------------------------------------------------------------
(* What breaks.                                                            *)

\* The connection of the lock breaks; the job uses others and goes on.
LoseLock ==
    /\ lock # NoServer
    /\ lock' = NoServer
    /\ UNCHANGED <<storeVars, session, job, orphaned>>

Crash(s) ==
    /\ job[s].at # "idle"
    /\ Orphan(s)
    /\ lock' = IF lock = s THEN NoServer ELSE lock
    /\ job' = [job EXCEPT ![s] = Idle]
    /\ UNCHANGED <<storeVars, session>>

-----------------------------------------------------------------------------

\* Steps of a job that nobody else has to make happen.
JobStep(s) ==
    \/ TakeLock(s) \/ Unlock(s)
    \/ /\ \/ ReadFeature(s) \/ CheckPermission(s) \/ ApplyOrResume(s) \/ StartRounds(s)
          \/ CheckRun(s) \/ PermitAccept(s) \/ RoundsEnd(s) \/ ReadForPlan(s) \/ Publish(s) \/ StatementDone(s) \/ Raise(s)
       /\ UNCHANGED <<lock, orphaned>>
    \/ HandlerFails(s) /\ UNCHANGED lock

AdminStep ==
    \/ \E d \in Digests : Approve(d)
    \/ SetSpec
    \/ \E b \in Budgets : SetBudget(b)
    \/ \E r \in 0..MaxRevision : AcceptForPlanning(r)
    \/ Stop
    \/ \E s \in Servers, kind \in {"plan", "execute", "publish"} : Submit(s, kind)

FeatureNext ==
    \/ \E s \in Servers : JobStep(s) \/ Crash(s)
    \/ AdminStep
    \/ LoseLock

FeatureSpec == FeatureInit /\ [][FeatureNext]_vars

\* The event loop of a server runs its jobs; planner and coordinator have
\* time limits.
JobFairness == \A s \in Servers : WF_vars(JobStep(s))

-----------------------------------------------------------------------------

\* Whatever is approved or running was approved by an administrator, who saw
\* exactly the specification, budget and plan that are in the row, and
\* nothing has revoked that approval since: no edit, stop, plan or failure.
ApprovalCovers ==
    /\ feature.status \in {"approved", "running", "review"} => feature.approved # Null
    /\ feature.approved # Null =>
        /\ feature.approved = feature.digest
        /\ feature.approved \in granted
        /\ binding = [spec |-> feature.spec, budget |-> feature.budget, plan |-> feature.plan]

\* A feature that is marked running has a job that will take the mark away,
\* unless that job died or could not write.
RunningHasRunner ==
    feature.status = "running" =>
        \/ feature.approved \in orphaned
        \/ \E s \in Servers :
            /\ job[s].kind = "execute" /\ job[s].digest = feature.approved
            /\ job[s].at \in Guarded \cup {"undoing", "failing"}

\* A feature under review has had every task of its approved plan accepted,
\* also when another job ran, or a new plan was approved, in the meantime.
ReviewEarned == feature.status = "review" => feature.plan \in session.done

\* Revisions only grow and what is done stays done; the digest that is in the
\* row stands for the same specification, budget and plan as long as it
\* stays; once an edit, a stop, a plan or a failure has taken it out it never
\* returns and is never approved again, so that a page, a job or a request
\* that still names it is refused for good.
DigestStands ==
    /\ feature.revision <= feature'.revision
    /\ session.done \subseteq session'.done
    /\ feature'.digest = feature.digest /\ feature.digest # Null =>
        /\ feature'.spec = feature.spec
        /\ feature'.budget = feature.budget
        /\ feature'.plan = feature.plan
    /\ \A d \in 1..feature.revision :
        d # feature.digest => feature'.digest # d /\ d \notin granted'

DigestsFinal == [][DigestStands]_vars

\* A run comes to an end: with a result, or blocked.
RunsEnd ==
    JobFairness => (feature.status = "running" ~> feature.status # "running" \/ feature.approved \in orphaned)
=============================================================================
