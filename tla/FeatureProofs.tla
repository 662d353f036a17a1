---------------------------- MODULE FeatureProofs ----------------------------
(***************************************************************************)
(* Theorems about FeatureWorkflow for every value of its constants.        *)
(*                                                                         *)
(* A step changes the row of the feature in one of seven ways (StoreStep)  *)
(* and at most one job.  What is said of the row alone follows from the    *)
(* ways of the row; what relates jobs and row needs one case per action.   *)
(***************************************************************************)
EXTENDS FeatureWorkflow, TLAPS

-----------------------------------------------------------------------------
(* Steps.                                                                  *)

\* What an edit does to the row.
Redraft ==
    /\ Mutable
    /\ feature' \in FeatureRows
    /\ feature'.status = "draft" /\ feature'.revision = NextRevision
    /\ feature'.digest = Null /\ feature'.approved = Null
    /\ Revoke
    /\ UNCHANGED binding

Approval(d) ==
    /\ feature.status = "planned" /\ feature.digest = d
    /\ feature' = [feature EXCEPT !.status = "approved", !.approved = d]
    /\ granted' = granted \cup {d}
    /\ UNCHANGED binding

StoreStep ==
    \/ UNCHANGED storeVars
    \/ Invalidate
    \/ Redraft
    \/ \E d \in Digests : Approval(d)
    \/ \E d \in 0..MaxRevision : BeginRun(d) \/ Finish(d)
    \/ \E r \in 0..MaxRevision, b \in Budgets, p \in 0..MaxPlans : Prepare(r, b, p)

\* The statement of a job is one of these steps, and the session only grows.
LEMMA StatementSteps ==
    ASSUME FeatureTypeOK, NEW s \in Servers, Statement(s) \/ UNCHANGED <<storeVars, session>>
    PROVE  /\ StoreStep
           /\ session' \in Sessions
           /\ session.done \subseteq session'.done
PROOF
<1> USE FeatureAssumption
<1>1. job[s] \in Jobs  BY DEF FeatureTypeOK
<1>2. CASE UNCHANGED <<storeVars, session>>
  BY <1>2 DEF StoreStep, storeVars, FeatureTypeOK
<1>3. CASE job[s].at = "beginning" /\ BeginRun(job[s].digest) /\ UNCHANGED session
  BY <1>1, <1>3 DEF StoreStep, FeatureTypeOK, Jobs
<1>4. CASE job[s].at = "importing" /\ Import(s)
  BY <1>1, <1>4 DEF StoreStep, FeatureTypeOK, Jobs, Import, Sessions, storeVars
<1>5. CASE job[s].at = "accepting" /\ AcceptTask(s)
  BY <1>1, <1>5 DEF StoreStep, FeatureTypeOK, Jobs, AcceptTask, Sessions, storeVars
<1>6. CASE job[s].at = "finishing" /\ Finish(job[s].digest) /\ UNCHANGED session
  BY <1>1, <1>6 DEF StoreStep, FeatureTypeOK, Jobs
<1>7. CASE job[s].at \in {"escalating", "revoking", "undoing", "failing"} /\ Invalidate /\ UNCHANGED session
  BY <1>7 DEF StoreStep, FeatureTypeOK
<1>8. CASE job[s].at = "asking" /\ Propose(s)
  BY <1>1, <1>8 DEF StoreStep, FeatureTypeOK, Propose, Sessions, storeVars
<1>9. CASE job[s].at = "preparing" /\ Prepare(job[s].revision, job[s].budget,
      job[s].work) /\ UNCHANGED session
  BY <1>1, <1>9 DEF StoreStep, FeatureTypeOK, Jobs
<1> QED BY <1>2, <1>3, <1>4, <1>5, <1>6, <1>7, <1>8, <1>9 DEF Statement

LEMMA IdleJob ==
    /\ Idle \in Jobs
    /\ Idle.kind = "none" /\ Idle.at = "idle" /\ Idle.digest = Null
BY FeatureAssumption DEF Idle, Jobs, Null, Places

LEMMA GotoJob ==
    ASSUME FeatureTypeOK, NEW s \in Servers, NEW at \in Places, Goto(s, at) \/ GotoAfresh(s, at)
    PROVE  \E row \in Jobs : job' = [job EXCEPT ![s] = row] /\ row.at = at /\ row.kind = job[s].kind
PROOF
<1> USE FeatureAssumption
<1>1. job[s] \in Jobs  BY DEF FeatureTypeOK
<1>2. CASE Goto(s, at)
  <2>1. [job[s] EXCEPT !.at = at] \in Jobs  BY <1>1 DEF Jobs
  <2> QED BY <1>1, <1>2, <2>1 DEF Goto, FeatureTypeOK, Jobs
<1>3. CASE GotoAfresh(s, at)
  <2>1. [Idle EXCEPT !.kind = job[s].kind, !.at = at] \in Jobs  BY <1>1, IdleJob DEF Jobs
  <2>2. [Idle EXCEPT !.kind = job[s].kind, !.at = at].at = at  BY IdleJob DEF Jobs
  <2>3. [Idle EXCEPT !.kind = job[s].kind, !.at = at].kind = job[s].kind  BY IdleJob DEF Jobs
  <2> QED BY <1>3, <2>1, <2>2, <2>3 DEF GotoAfresh
<1> QED BY <1>2, <1>3

LEMMA AfterPlaces ==
    /\ After["beginning"] = "applying" /\ After["importing"] = "starting"
    /\ After["accepting"] = "working" /\ After["finishing"] = "publishing"
    /\ After["escalating"] = "planning" /\ After["revoking"] = "asking"
    /\ After["preparing"] = "unlocking" /\ After["undoing"] = "failing"
    /\ After["failing"] = "unlocking"
BY DEF After

\* The rows that the statements write.
LEMMA WrittenRows ==
    ASSUME NEW row \in FeatureRows, NEW r \in 0..MaxRevision, NEW b \in Budgets, NEW p \in 0..MaxPlans
    PROVE  /\ [row EXCEPT !.status = "blocked", !.digest = Null, !.approved = Null] \in FeatureRows
           /\ [row EXCEPT !.status = "planned", !.revision = r, !.spec = r, !.budget = b, !.plan = p,
                          !.digest = r, !.approved = Null] \in FeatureRows
PROOF
<1>1. Null \in 0..MaxRevision  BY FeatureAssumption DEF Null
<1> QED BY <1>1 DEF FeatureRows

LEMMA DraftRows ==
    ASSUME NEW row \in FeatureRows, Mutable, feature \in FeatureRows, NEW b \in Budgets
    PROVE  /\ NextRevision \in 0..MaxRevision
           /\ [Draft(row) EXCEPT !.spec = NextRevision] \in FeatureRows
           /\ [Draft(row) EXCEPT !.budget = b] \in FeatureRows
           /\ [Draft(row) EXCEPT !.spec = NextRevision].status = "draft"
           /\ [Draft(row) EXCEPT !.spec = NextRevision].revision = NextRevision
           /\ [Draft(row) EXCEPT !.spec = NextRevision].digest = Null
           /\ [Draft(row) EXCEPT !.spec = NextRevision].approved = Null
           /\ [Draft(row) EXCEPT !.budget = b].status = "draft"
           /\ [Draft(row) EXCEPT !.budget = b].revision = NextRevision
           /\ [Draft(row) EXCEPT !.budget = b].digest = Null
           /\ [Draft(row) EXCEPT !.budget = b].approved = Null
PROOF
<1>1. Null \in 0..MaxRevision  BY FeatureAssumption DEF Null
<1>2. NextRevision \in 0..MaxRevision  BY FeatureAssumption DEF Mutable, NextRevision, FeatureRows
<1>3. /\ Draft(row) \in FeatureRows
      /\ Draft(row).status = "draft" /\ Draft(row).revision = NextRevision
      /\ Draft(row).digest = Null /\ Draft(row).approved = Null
  BY <1>1, <1>2 DEF Draft, FeatureRows
<1> QED BY <1>2, <1>3 DEF FeatureRows

\* Every step of the system.
LEMMA Steps ==
    ASSUME FeatureTypeOK, FeatureNext
    PROVE  StoreStep /\ session' \in Sessions /\ session.done \subseteq session'.done
PROOF
<1> USE FeatureAssumption
<1>1. ASSUME NEW s \in Servers, JobStep(s) \/ Crash(s)
      PROVE  Statement(s) \/ UNCHANGED <<storeVars, session>>
  BY <1>1 DEF JobStep, Crash, TakeLock, Unlock, ReadFeature, CheckPermission, ApplyOrResume, StartRounds,
              CheckRun, PermitAccept,
              RoundsEnd, ReadForPlan, Publish, StatementDone, Raise, HandlerFails
<1>2. CASE \E s \in Servers : JobStep(s) \/ Crash(s)  BY <1>1, <1>2, StatementSteps
<1>3. CASE LoseLock  BY <1>3 DEF LoseLock, StoreStep, storeVars, FeatureTypeOK
<1>4. CASE AdminStep
  <2>1. session' = session  BY <1>4 DEF AdminStep, Approve, SetSpec, SetBudget, AcceptForPlanning, Stop,
                                        Submit, Edited
  <2>2. StoreStep
    <3>1. CASE \E d \in Digests : Approve(d)  BY <3>1 DEF Approve, Approval, Edited, StoreStep
    <3>2. CASE SetSpec \/ \E r \in 0..MaxRevision : AcceptForPlanning(r)
      <4>1. Mutable /\ feature \in FeatureRows  BY <3>2 DEF SetSpec, AcceptForPlanning, FeatureTypeOK
      <4> QED BY <3>2, <4>1, DraftRows DEF SetSpec, AcceptForPlanning, Edited, Redraft, StoreStep
    <3>3. ASSUME NEW b \in Budgets, SetBudget(b)
          PROVE  StoreStep
      <4>1. Mutable /\ feature \in FeatureRows  BY <3>3 DEF SetBudget, FeatureTypeOK
      <4>2. Redraft  BY <3>3, <4>1, DraftRows DEF SetBudget, Edited, Redraft
      <4> QED BY <4>2 DEF StoreStep
    <3>4. CASE Stop  BY <3>4 DEF Stop, StoreStep
    <3>5. CASE \E s \in Servers, kind \in {"plan", "execute", "publish"} : Submit(s, kind)
      BY <3>5 DEF Submit, StoreStep
    <3> QED BY <1>4, <3>1, <3>2, <3>3, <3>4, <3>5 DEF AdminStep
  <2> QED BY <2>1, <2>2 DEF FeatureTypeOK
<1> QED BY <1>2, <1>3, <1>4 DEF FeatureNext

LEMMA StoreTypes ==
    ASSUME FeatureTypeOK, StoreStep
    PROVE  feature' \in FeatureRows /\ binding' \in Contents /\ granted' \subseteq Digests
PROOF
<1> USE FeatureAssumption
<1>1. CASE UNCHANGED storeVars  BY <1>1 DEF FeatureTypeOK, storeVars
<1>2. CASE Invalidate  BY <1>2, WrittenRows DEF FeatureTypeOK, Invalidate, Revoke, FeatureRows
<1>3. CASE Redraft  BY <1>3 DEF FeatureTypeOK, Redraft, Revoke
<1>4. CASE \E d \in Digests : Approval(d)  BY <1>4 DEF FeatureTypeOK, Approval, FeatureRows, Digests
<1>5. CASE \E d \in 0..MaxRevision : BeginRun(d) \/ Finish(d)
  BY <1>5 DEF FeatureTypeOK, BeginRun, Finish, FeatureRows
<1>6. ASSUME NEW r \in 0..MaxRevision, NEW b \in Budgets, NEW p \in 0..MaxPlans, Prepare(r, b, p)
      PROVE  feature' \in FeatureRows /\ binding' \in Contents /\ granted' \subseteq Digests
  <2>1. NextRevision \in 0..MaxRevision  BY <1>6, DraftRows DEF Prepare, FeatureTypeOK
  <2> QED BY <1>6, <2>1, WrittenRows DEF FeatureTypeOK, Prepare, Revoke, Contents
<1> QED BY <1>1, <1>2, <1>3, <1>4, <1>5, <1>6 DEF StoreStep

\* A job changes alone, and its row keeps its type.
LEMMA JobTypes ==
    ASSUME FeatureTypeOK, NEW s \in Servers, JobStep(s)
    PROVE  \E row \in Jobs : /\ job' = [job EXCEPT ![s] = row]
                             /\ row.kind = "none" => row.at = "idle"
PROOF
<1> USE FeatureAssumption
<1>1. job[s] \in Jobs /\ feature \in FeatureRows /\ session \in Sessions  BY DEF FeatureTypeOK
<1>0. job[s].at # "idle" /\ job[s].kind # "none"
  BY DEF JobStep, TakeLock, Unlock, ReadFeature, CheckPermission, ApplyOrResume, StartRounds,
         CheckRun, PermitAccept, RoundsEnd,
         ReadForPlan, Publish, StatementDone, Statement, Raise, HandlerFails, FeatureTypeOK,
         Operating, Before, Guarded, Planning
<1>2. CASE TakeLock(s)
  <2>1. job[s].kind \in {"plan", "execute", "publish"}  BY <1>1, <1>2, <1>0 DEF TakeLock, Jobs
  <2>2. FirstPlace[job[s].kind] \in Places
    BY <2>1 DEF FirstPlace, Places, Operating, Before, Planning
  <2> QED BY <1>2, <2>2, <1>0, GotoJob DEF TakeLock
<1>3. CASE Unlock(s)  BY <1>3, IdleJob DEF Unlock
<1>4. CASE ReadFeature(s)
  <2>1. [job[s] EXCEPT !.at = "permitting", !.digest = feature.approved, !.plan = feature.plan] \in Jobs
    BY <1>1 DEF Jobs, FeatureRows, Places, Operating, Before
  <2>2. [job[s] EXCEPT !.at = "permitting", !.digest = feature.approved,
        !.plan = feature.plan].kind # "none"
    BY <1>0, <1>1 DEF Jobs
  <2> QED BY <1>4, <2>1, <2>2 DEF ReadFeature
<1>5. CASE CheckPermission(s) \/ ApplyOrResume(s) \/ CheckRun(s) \/ PermitAccept(s) \/ RoundsEnd(s) \/ Publish(s)
  BY <1>0, <1>5, GotoJob DEF CheckPermission, ApplyOrResume, CheckRun, PermitAccept, RoundsEnd, Publish, Places,
                             Operating, Before, Guarded
<1>6. CASE StartRounds(s)
  <2>1. [job[s] EXCEPT !.at = "checking", !.work = session.applied] \in Jobs
    BY <1>1 DEF Jobs, Sessions, Places, Operating, Guarded
  <2>2. [job[s] EXCEPT !.at = "checking", !.work = session.applied].kind # "none"
    BY <1>0, <1>1 DEF Jobs
  <2> QED BY <1>6, <2>1, <2>2 DEF StartRounds
<1>7. CASE ReadForPlan(s)
  <2>1. [job[s] EXCEPT !.at = "revoking", !.revision = feature.revision, !.budget = feature.budget] \in Jobs
    BY <1>1 DEF Jobs, FeatureRows, Places, Operating, Planning
  <2>2. [job[s] EXCEPT !.at = "revoking", !.revision = feature.revision,
        !.budget = feature.budget].kind # "none"
    BY <1>0, <1>1 DEF Jobs
  <2> QED BY <1>7, <2>1, <2>2 DEF ReadForPlan
<1>8. CASE StatementDone(s)
  <2>1. CASE job[s].at = "asking"
    <3>1. session.proposed + 1 \in 0..MaxPlans
      BY <1>1, <1>8, <2>1 DEF StatementDone, Statement, Propose, Sessions
    <3>2. [job[s] EXCEPT !.at = "preparing", !.work = session.proposed + 1] \in Jobs
      BY <1>1, <3>1 DEF Jobs, Places, Operating, Planning
    <3>3. [job[s] EXCEPT !.at = "preparing", !.work = session.proposed + 1].kind # "none"
      BY <1>0, <1>1 DEF Jobs
    <3>4. job' = [job EXCEPT ![s].at = "preparing", ![s].work = session.proposed + 1]
      BY <1>8, <2>1 DEF StatementDone
    <3> QED BY <3>2, <3>3, <3>4
  <2>2. CASE job[s].at # "asking"
    <3>1. job[s].at \in {"beginning", "importing", "accepting", "finishing", "escalating", "revoking",
                         "undoing", "failing", "preparing"}
      BY <1>8, <2>2 DEF StatementDone, Statement
    <3>2. After[job[s].at] \in Places
      BY <3>1, AfterPlaces DEF Places, Operating, Guarded, Planning
    <3>3. Goto(s, After[job[s].at]) \/ GotoAfresh(s, After[job[s].at])
      BY <1>8, <2>2 DEF StatementDone
    <3> QED BY <1>0, <3>2, <3>3, GotoJob
  <2> QED BY <2>1, <2>2
<1>9. CASE Raise(s)
  <2>1. PICK cancelled \in BOOLEAN :
            job' = [job EXCEPT ![s] = [Idle EXCEPT !.kind = job[s].kind, !.digest = job[s].digest,
                                                   !.at = Handler(s, cancelled)]]
    BY <1>9 DEF Raise
  <2>2. Handler(s, cancelled) \in Places  BY DEF Handler, Places
  <2>3. [Idle EXCEPT !.kind = job[s].kind, !.digest = job[s].digest, !.at = Handler(s, cancelled)] \in Jobs
    BY <1>1, <2>2, IdleJob DEF Jobs
  <2>4. [Idle EXCEPT !.kind = job[s].kind, !.digest = job[s].digest, !.at = Handler(s,
        cancelled)].kind # "none"
    BY <1>0, IdleJob DEF Jobs
  <2> QED BY <2>1, <2>3, <2>4
<1>10. CASE HandlerFails(s)
  BY <1>0, <1>10, GotoJob DEF HandlerFails, Places
<1> QED BY <1>2, <1>3, <1>4, <1>5, <1>6, <1>7, <1>8, <1>9, <1>10 DEF JobStep

-----------------------------------------------------------------------------
(* Types.                                                                  *)

\* Every variable keeps its type in every step.
THEOREM FeatureTypeSafe == FeatureSpec => []FeatureTypeOK
PROOF
<1> USE FeatureAssumption
<1>1. FeatureInit => FeatureTypeOK
  BY IdleJob DEF FeatureInit, FeatureTypeOK, FeatureRows, Contents, Unbound, Sessions, Null
<1>2. FeatureTypeOK /\ [FeatureNext]_vars => FeatureTypeOK'
  <2> SUFFICES ASSUME FeatureTypeOK, [FeatureNext]_vars PROVE FeatureTypeOK'  OBVIOUS
  <2>1. CASE UNCHANGED vars  BY <2>1 DEF FeatureTypeOK, vars
  <2>2. CASE FeatureNext
    <3>1. feature' \in FeatureRows /\ binding' \in Contents /\ granted' \subseteq Digests /\ session' \in Sessions
      BY <2>2, Steps, StoreTypes
    <3>2. ASSUME NEW s \in Servers
          PROVE  ({job[s].digest} \ {Null}) \subseteq Digests
      BY DEF FeatureTypeOK, Jobs, Digests, Null
    <3>3. ASSUME NEW s \in Servers, JobStep(s)
          PROVE  FeatureTypeOK'
      <4>1. /\ job' \in [Servers -> Jobs]
            /\ \A z \in Servers : job'[z].kind = "none" => job'[z].at = "idle"
        BY <3>3, JobTypes DEF FeatureTypeOK
      <4>2. lock' \in Servers \cup {NoServer}
        BY <3>3 DEF JobStep, TakeLock, Unlock, FeatureTypeOK
      <4>3. orphaned' \subseteq Digests
        BY <3>2, <3>3 DEF JobStep, TakeLock, Unlock, HandlerFails, Orphan, FeatureTypeOK
      <4> QED BY <3>1, <4>1, <4>2, <4>3 DEF FeatureTypeOK
    <3>4. ASSUME NEW s \in Servers, Crash(s)
          PROVE  FeatureTypeOK'
      BY <3>1, <3>2, <3>4, IdleJob DEF Crash, Orphan, FeatureTypeOK
    <3>5. CASE LoseLock  BY <3>1, <3>5 DEF LoseLock, FeatureTypeOK
    <3>6. CASE AdminStep
      <4>1. ASSUME NEW s \in Servers, NEW kind \in {"plan", "execute", "publish"}, Submit(s, kind)
            PROVE  FeatureTypeOK'
        <5>1. /\ [Idle EXCEPT !.kind = kind, !.at = "locking"] \in Jobs
              /\ [Idle EXCEPT !.kind = kind, !.at = "locking"].kind # "none"
          BY IdleJob DEF Jobs, Places
        <5> QED BY <3>1, <4>1, <5>1 DEF Submit, FeatureTypeOK
      <4>2. CASE Edited  BY <3>1, <4>2 DEF Edited, FeatureTypeOK
      <4> QED BY <3>6, <4>1, <4>2 DEF AdminStep, Approve, SetSpec, SetBudget, AcceptForPlanning, Stop
    <3> QED BY <2>2, <3>3, <3>4, <3>5, <3>6 DEF FeatureNext
  <2> QED BY <2>1, <2>2
<1> QED BY <1>1, <1>2, PTL DEF FeatureSpec

-----------------------------------------------------------------------------
(* Approval.                                                               *)

ApprovalInv ==
    /\ feature.status \in {"approved", "running", "review"} <=> feature.approved # Null
    /\ feature.approved # Null => feature.approved = feature.digest /\ feature.approved \in granted
    /\ feature.digest # Null =>
        /\ feature.digest = feature.revision
        /\ binding = [spec |-> feature.spec, budget |-> feature.budget, plan |-> feature.plan]

LEMMA ApprovalStep ==
    ASSUME FeatureTypeOK, ApprovalInv, StoreStep
    PROVE  ApprovalInv'
PROOF
<1>1. CASE UNCHANGED storeVars  BY <1>1 DEF ApprovalInv, storeVars
<1>2. CASE Invalidate  BY <1>2 DEF ApprovalInv, Invalidate, FeatureTypeOK, FeatureRows, Null
<1>3. CASE Redraft  BY <1>3 DEF ApprovalInv, Redraft, Null
<1>4. CASE \E d \in Digests : Approval(d)
  BY <1>4 DEF ApprovalInv, Approval, FeatureTypeOK, FeatureRows, Digests, Null
<1>5. CASE \E d \in 0..MaxRevision : BeginRun(d) \/ Finish(d)
  BY <1>5 DEF ApprovalInv, BeginRun, Finish, FeatureTypeOK, FeatureRows
<1>6. ASSUME NEW r \in 0..MaxRevision, NEW b \in Budgets, NEW p \in 0..MaxPlans, Prepare(r, b, p)
      PROVE  ApprovalInv'
  <2>1. /\ feature'.status = "planned" /\ feature'.approved = Null
        /\ feature'.digest = NextRevision /\ feature'.revision = NextRevision
        /\ feature'.spec = NextRevision /\ feature'.budget = b /\ feature'.plan = p
    BY <1>6 DEF Prepare, FeatureTypeOK, FeatureRows
  <2>2. binding' = [spec |-> NextRevision, budget |-> b, plan |-> p]  BY <1>6 DEF Prepare
  <2> QED BY <2>1, <2>2 DEF ApprovalInv
<1> QED BY <1>1, <1>2, <1>3, <1>4, <1>5, <1>6 DEF StoreStep

THEOREM ApprovalInvSafe == FeatureSpec => []ApprovalInv
PROOF
<1>1. FeatureInit => ApprovalInv  BY DEF FeatureInit, ApprovalInv, Null
<1>2. FeatureTypeOK /\ ApprovalInv /\ [FeatureNext]_vars => ApprovalInv'
  BY Steps, ApprovalStep DEF ApprovalInv, vars
<1> QED BY <1>1, <1>2, FeatureTypeSafe, PTL DEF FeatureSpec

\* Whatever is approved or runs was approved for the specification, budget
\* and plan that are in the row, and nothing has revoked that approval: no
\* sequence of edits, stops, stale plans and failures runs other work.
THEOREM ApprovalSafe == FeatureSpec => []ApprovalCovers
PROOF
<1>1. ApprovalInv => ApprovalCovers  BY DEF ApprovalInv, ApprovalCovers
<1> QED BY <1>1, ApprovalInvSafe, PTL

-----------------------------------------------------------------------------
(* Digests.                                                                *)

\* Nothing but the digest in the row is approved: whoever takes it out
\* revokes it.
GrantInv == granted \subseteq {feature.digest} \ {Null}

LEMMA GrantStep ==
    ASSUME FeatureTypeOK, GrantInv, StoreStep
    PROVE  GrantInv'
PROOF
<1>1. feature \in FeatureRows  BY DEF FeatureTypeOK
<1>2. CASE UNCHANGED storeVars  BY <1>2 DEF GrantInv, storeVars
<1>3. CASE Invalidate \/ Redraft  BY <1>3 DEF GrantInv, Invalidate, Redraft, Revoke
<1>4. CASE \E d \in Digests : Approval(d)
  BY <1>1, <1>4 DEF GrantInv, Approval, FeatureRows, Digests, Null
<1>5. CASE \E d \in 0..MaxRevision : BeginRun(d) \/ Finish(d)
  BY <1>1, <1>5 DEF GrantInv, BeginRun, Finish, FeatureRows
<1>6. CASE \E r \in 0..MaxRevision, b \in Budgets, p \in 0..MaxPlans : Prepare(r, b, p)
  BY <1>6 DEF GrantInv, Prepare, Revoke
<1> QED BY <1>2, <1>3, <1>4, <1>5, <1>6 DEF StoreStep

\* What a step does to the digest: it leaves the row alone, clears it, or
\* draws the next revision, which was in no row before.
LEMMA RowMoves ==
    ASSUME FeatureTypeOK, ApprovalInv, StoreStep
    PROVE  /\ feature.revision <= feature'.revision
           /\ \/ feature'.digest = Null
              \/ /\ feature'.digest = feature.digest
                 /\ feature'.spec = feature.spec
                 /\ feature'.budget = feature.budget
                 /\ feature'.plan = feature.plan
              \/ feature'.digest = feature.revision + 1 /\ feature'.status = "planned"
PROOF
<1>1. feature \in FeatureRows /\ feature.revision \in Nat  BY DEF FeatureTypeOK, FeatureRows
<1>2. CASE UNCHANGED storeVars  BY <1>1, <1>2 DEF storeVars
<1>3. CASE Invalidate  BY <1>1, <1>3 DEF Invalidate, FeatureRows
<1>4. CASE Redraft  BY <1>1, <1>4 DEF Redraft, NextRevision
<1>5. CASE \E d \in Digests : Approval(d)  BY <1>1, <1>5 DEF Approval, FeatureRows
<1>6. CASE \E d \in 0..MaxRevision : BeginRun(d) \/ Finish(d)
  BY <1>1, <1>6 DEF BeginRun, Finish, FeatureRows
<1>7. CASE \E r \in 0..MaxRevision, b \in Budgets, p \in 0..MaxPlans : Prepare(r, b, p)
  BY <1>1, <1>7 DEF Prepare, NextRevision, FeatureRows
<1> QED BY <1>2, <1>3, <1>4, <1>5, <1>6, <1>7 DEF StoreStep

\* A digest is never used twice: while it is in the row it stands for the
\* same specification, budget and plan, and once it is out no plan brings it
\* back and no administrator approves it again, whatever the page showed.
THEOREM DigestsSafe == FeatureSpec => DigestsFinal
PROOF
<1>1. FeatureInit => GrantInv  BY DEF FeatureInit, GrantInv
<1>2. FeatureTypeOK /\ GrantInv /\ [FeatureNext]_vars => GrantInv'
  BY Steps, GrantStep DEF GrantInv, vars
<1>3. FeatureTypeOK /\ ApprovalInv /\ GrantInv' /\ [FeatureNext]_vars => [DigestStands]_vars
  <2> SUFFICES ASSUME FeatureTypeOK, ApprovalInv, GrantInv', FeatureNext
               PROVE  DigestStands
    OBVIOUS
  <2>1. feature.revision \in Nat  BY DEF FeatureTypeOK, FeatureRows
  <2>2. StoreStep /\ session.done \subseteq session'.done  BY Steps
  <2>3. ASSUME feature'.digest = feature.digest, feature.digest # Null
        PROVE  /\ feature'.spec = feature.spec /\ feature'.budget = feature.budget
               /\ feature'.plan = feature.plan
    <3>1. feature.digest = feature.revision  BY <2>3 DEF ApprovalInv
    <3> QED BY <2>1, <2>2, <2>3, <3>1, RowMoves
  <2>4. ASSUME NEW d \in 1..feature.revision, d # feature.digest
        PROVE  feature'.digest # d /\ d \notin granted'
    <3>1. feature'.digest # d  BY <2>1, <2>2, <2>4, RowMoves DEF Null
    <3> QED BY <3>1 DEF GrantInv
  <2> QED BY <2>2, <2>3, <2>4, RowMoves DEF DigestStands
<1> QED BY <1>1, <1>2, <1>3, FeatureTypeSafe, ApprovalInvSafe, PTL DEF FeatureSpec, DigestsFinal

-----------------------------------------------------------------------------
(* Runs.                                                                   *)

Executing == Before \cup Guarded

KindInv == \A s \in Servers : job[s].at \in Executing => job[s].kind = "execute"

\* The places of a job after a step of its own.
LEMMA JobPlaces ==
    ASSUME FeatureTypeOK, KindInv, NEW s \in Servers, JobStep(s)
    PROVE  KindInv'
PROOF
<1> USE FeatureAssumption
<1>1. job[s] \in Jobs  BY DEF FeatureTypeOK
<1>2. ASSUME NEW row \in Jobs, job' = [job EXCEPT ![s] = row],
             row.at \in Executing => row.kind = "execute"
      PROVE  KindInv'
  BY <1>2 DEF KindInv, FeatureTypeOK
<1>3. ASSUME NEW at \in Places, Goto(s, at) \/ GotoAfresh(s, at),
             at \in Executing => job[s].kind = "execute"
      PROVE  KindInv'
  BY <1>2, <1>3, GotoJob
<1>4. CASE TakeLock(s)
  <2>1. job[s].kind \in {"plan", "execute", "publish"}
    BY <1>1, <1>4 DEF TakeLock, Jobs, FeatureTypeOK
  <2>2. FirstPlace[job[s].kind] \in Places
    BY <2>1 DEF FirstPlace, Places, Operating, Before, Planning
  <2>3. FirstPlace[job[s].kind] \in Executing => job[s].kind = "execute"
    BY <2>1 DEF FirstPlace, Executing, Before, Guarded
  <2> QED BY <1>3, <1>4, <2>2, <2>3 DEF TakeLock
<1>5. CASE Unlock(s)
  BY <1>2, <1>5, IdleJob DEF Unlock, Executing, Before, Guarded
<1>6. CASE ReadFeature(s) \/ StartRounds(s)
  <2>1. job[s].kind = "execute"
    BY <1>6 DEF ReadFeature, StartRounds, KindInv, Executing, Before, Guarded
  <2> QED BY <1>6, <2>1 DEF ReadFeature, StartRounds, KindInv, FeatureTypeOK, Jobs
<1>7. CASE CheckPermission(s) \/ ApplyOrResume(s) \/ CheckRun(s) \/ PermitAccept(s) \/ RoundsEnd(s)
  <2>1. job[s].kind = "execute"
    BY <1>7 DEF CheckPermission, ApplyOrResume, CheckRun, PermitAccept, RoundsEnd, KindInv, Executing, Before, Guarded
  <2> QED BY <1>3, <1>7, <2>1 DEF CheckPermission, ApplyOrResume, CheckRun, PermitAccept, RoundsEnd, Places,
                                  Operating, Before, Guarded
<1>8. CASE Publish(s)
  BY <1>3, <1>8 DEF Publish, Places, Executing, Before, Guarded
<1>9. CASE ReadForPlan(s)
  BY <1>9 DEF ReadForPlan, KindInv, FeatureTypeOK, Jobs, Executing, Before, Guarded
<1>10. CASE StatementDone(s)
  <2>1. CASE job[s].at = "asking"
    BY <1>10, <2>1 DEF StatementDone, KindInv, FeatureTypeOK, Jobs, Executing, Before, Guarded
  <2>2. CASE job[s].at \in {"beginning", "importing", "accepting"}
    <3>1. job[s].kind = "execute"  BY <2>2 DEF KindInv, Executing, Before, Guarded
    <3>2. Goto(s, After[job[s].at])  BY <1>10, <2>2 DEF StatementDone
    <3>3. After[job[s].at] \in Places  BY <2>2, AfterPlaces DEF Places, Operating, Guarded
    <3> QED BY <1>3, <3>1, <3>2, <3>3
  <2>3. CASE job[s].at \in {"finishing", "escalating", "revoking", "undoing", "failing", "preparing"}
    <3>1. Goto(s, After[job[s].at]) \/ GotoAfresh(s, After[job[s].at])  BY <1>10, <2>3 DEF StatementDone
    <3>2. After[job[s].at] \in Places \ Executing
      BY <2>3, AfterPlaces DEF Places, Operating, Planning, Executing, Before, Guarded
    <3> QED BY <1>3, <3>1, <3>2
  <2> QED BY <1>10, <2>1, <2>2, <2>3 DEF StatementDone, Statement
<1>11. CASE Raise(s)
  BY <1>11, <1>1, IdleJob DEF Raise, Handler, KindInv, FeatureTypeOK, Jobs, Executing, Before, Guarded
<1>12. CASE HandlerFails(s)
  BY <1>3, <1>12 DEF HandlerFails, Places, Executing, Before, Guarded
<1> QED BY <1>4, <1>5, <1>6, <1>7, <1>8, <1>9, <1>10, <1>11, <1>12 DEF JobStep

THEOREM KindSafe == FeatureSpec => []KindInv
PROOF
<1>1. FeatureInit => KindInv  BY IdleJob DEF FeatureInit, KindInv, Executing, Before, Guarded
<1>2. FeatureTypeOK /\ KindInv /\ [FeatureNext]_vars => KindInv'
  <2> SUFFICES ASSUME FeatureTypeOK, KindInv, [FeatureNext]_vars PROVE KindInv'  OBVIOUS
  <2>1. CASE UNCHANGED job  BY <2>1 DEF KindInv
  <2>2. ASSUME NEW s \in Servers, JobStep(s) PROVE KindInv'  BY <2>2, JobPlaces
  <2>3. ASSUME NEW s \in Servers, Crash(s) PROVE KindInv'
    BY <2>3, IdleJob DEF Crash, KindInv, FeatureTypeOK, Executing, Before, Guarded
  <2>4. ASSUME NEW s \in Servers, NEW kind \in {"plan", "execute", "publish"}, Submit(s, kind)
        PROVE  KindInv'
    BY <2>4, IdleJob DEF Submit, KindInv, FeatureTypeOK, Jobs, Executing, Before, Guarded
  <2> QED BY <2>1, <2>2, <2>3, <2>4 DEF FeatureNext, AdminStep, Approve, SetSpec, SetBudget,
                                        AcceptForPlanning, Stop, Edited, LoseLock, vars
<1> QED BY <1>1, <1>2, FeatureTypeSafe, PTL DEF FeatureSpec

\* The job of s will take the mark "running" away.
Runs(s) ==
    /\ job[s].kind = "execute" /\ job[s].digest = feature.approved
    /\ job[s].at \in Guarded \cup {"undoing", "failing"}

\* A job that runs goes on running, ends the run or is recorded.
LEMMA RunnerMoves ==
    ASSUME FeatureTypeOK, ApprovalInv, NEW s \in Servers, Runs(s), JobStep(s) \/ Crash(s),
           feature.status = "running", feature'.status = "running", feature'.approved = feature.approved
    PROVE  feature.approved \in orphaned' \/ Runs(s)'
PROOF
<1> USE DEF Runs, Guarded
<1>1. job[s] \in Jobs /\ feature \in FeatureRows /\ job \in [Servers -> Jobs]  BY DEF FeatureTypeOK
<1>2. feature.approved # Null  BY DEF ApprovalInv
<1>3. ~Invalidate  BY <1>1 DEF Invalidate, FeatureRows
<1>4. ~Finish(job[s].digest)  BY <1>1 DEF Finish, FeatureRows
<1>5. CASE Crash(s)  BY <1>2, <1>5 DEF Crash, Orphan
<1>6. CASE StartRounds(s)  BY <1>1, <1>6 DEF StartRounds, Jobs
<1>7. CASE ApplyOrResume(s) \/ CheckRun(s) \/ PermitAccept(s) \/ RoundsEnd(s)
  BY <1>1, <1>7 DEF ApplyOrResume, CheckRun, PermitAccept, RoundsEnd, Goto, Jobs
<1>8. CASE StatementDone(s)
  <2>1. job[s].at \in {"importing", "accepting"}  BY <1>3, <1>4, <1>8 DEF StatementDone, Statement
  <2>2. job' = [job EXCEPT ![s].at = After[job[s].at]]  BY <1>8, <2>1 DEF StatementDone, Goto
  <2>3. After[job[s].at] \in Guarded  BY <2>1, AfterPlaces
  <2> QED BY <1>1, <2>2, <2>3 DEF Jobs
<1>9. CASE Raise(s)
  <2>1. InTry(s)  BY <1>9 DEF Raise, InTry, Operating, Before, Planning
  <2> QED BY <1>1, <1>9, <2>1, IdleJob DEF Raise, Handler, Jobs
<1>10. CASE HandlerFails(s)
  BY <1>1, <1>2, <1>10 DEF HandlerFails, Goto, Orphan, Jobs
<1>11. ~(TakeLock(s) \/ Unlock(s) \/ ReadFeature(s) \/ CheckPermission(s) \/ ReadForPlan(s) \/ Publish(s))
  BY DEF TakeLock, Unlock, ReadFeature, CheckPermission, ReadForPlan, Publish
<1> QED BY <1>5, <1>6, <1>7, <1>8, <1>9, <1>10, <1>11 DEF JobStep

\* A run begins with a job that runs it.
LEMMA RunnerBegins ==
    ASSUME FeatureTypeOK, KindInv, NEW s \in Servers, JobStep(s),
           feature.status # "running", feature'.status = "running"
    PROVE  Runs(s)'
PROOF
<1>1. job[s] \in Jobs /\ feature \in FeatureRows /\ job \in [Servers -> Jobs]  BY DEF FeatureTypeOK
<1>2. Statement(s) /\ (StatementDone(s) \/ Raise(s) \/ HandlerFails(s))
  BY DEF JobStep, TakeLock, Unlock, ReadFeature, CheckPermission, ApplyOrResume, StartRounds,
         CheckRun, PermitAccept, RoundsEnd,
         ReadForPlan, Publish, StatementDone, Raise, HandlerFails, storeVars
<1>3. job[s].at = "beginning" /\ BeginRun(job[s].digest)
  BY <1>1, <1>2 DEF Statement, Import, AcceptTask, Finish, Invalidate, Propose, Prepare, storeVars,
                    FeatureRows
<1>4. feature'.approved = job[s].digest  BY <1>1, <1>3 DEF BeginRun, FeatureRows
<1>5. job[s].kind = "execute"  BY <1>3 DEF KindInv, Executing, Before
<1>6. CASE StatementDone(s)
  BY <1>1, <1>3, <1>4, <1>5, <1>6, AfterPlaces DEF StatementDone, Goto, Runs, Guarded, Jobs
<1>7. CASE Raise(s)
  <2>1. ~InTry(s)  BY <1>3 DEF InTry, Before
  <2> QED BY <1>1, <1>4, <1>5, <1>7, <2>1, IdleJob DEF Raise, Handler, Runs, Jobs
<1> QED BY <1>2, <1>3, <1>6, <1>7 DEF HandlerFails

\* A feature that is marked running has a job that will take the mark away,
\* whatever is raised, cancelled or interrupted on any number of servers,
\* unless that job died or could not write.
THEOREM RunnerSafe == FeatureSpec => []RunningHasRunner
PROOF
<1>1. FeatureInit => RunningHasRunner  BY DEF FeatureInit, RunningHasRunner
<1>2. FeatureTypeOK /\ ApprovalInv /\ KindInv /\ RunningHasRunner /\ [FeatureNext]_vars => RunningHasRunner'
  <2> SUFFICES ASSUME FeatureTypeOK, ApprovalInv, KindInv, RunningHasRunner, [FeatureNext]_vars,
                      feature'.status = "running"
               PROVE  feature'.approved \in orphaned' \/ \E s \in Servers : Runs(s)'
    BY DEF RunningHasRunner, Runs
  <2>1. CASE UNCHANGED vars  BY <2>1 DEF RunningHasRunner, Runs, vars
  <2>2. CASE FeatureNext /\ feature.status # "running"
    <3>1. \E s \in Servers : JobStep(s)
      BY <2>2 DEF FeatureNext, AdminStep, Approve, SetSpec, SetBudget, AcceptForPlanning, Stop, Draft,
                  Submit, Invalidate, LoseLock, Crash, storeVars, FeatureTypeOK, FeatureRows
    <3> QED BY <2>2, <3>1, RunnerBegins
  <2>3. CASE FeatureNext /\ feature.status = "running"
    <3>1. StoreStep  BY <2>3, Steps
    <3>2. feature'.approved = feature.approved
      BY <2>3, <3>1 DEF StoreStep, storeVars, Invalidate, Redraft, Approval, BeginRun, Finish, Prepare,
                        Mutable,
                        FeatureTypeOK, FeatureRows
    <3>3. orphaned \subseteq orphaned'
      BY <2>3 DEF FeatureNext, JobStep, TakeLock, Unlock, HandlerFails, Crash, Orphan, AdminStep, Approve,
                  SetSpec, SetBudget, AcceptForPlanning, Stop, Edited, Submit, LoseLock
    <3>4. CASE feature.approved \in orphaned  BY <3>2, <3>3, <3>4
    <3>5. ASSUME NEW r \in Servers, Runs(r)
          PROVE  feature'.approved \in orphaned' \/ \E s \in Servers : Runs(s)'
      <4>1. CASE job'[r] = job[r]  BY <3>2, <3>5, <4>1 DEF Runs
      <4>2. CASE JobStep(r) \/ Crash(r)  BY <2>3, <3>2, <3>5, <4>2, RunnerMoves
      <4>3. ASSUME NEW s \in Servers \ {r}, JobStep(s) \/ Crash(s)
            PROVE  job'[r] = job[r]
        BY <4>3, JobTypes DEF Crash, FeatureTypeOK
      <4>4. ASSUME NEW s \in Servers, NEW kind \in {"plan", "execute", "publish"}, Submit(s, kind)
            PROVE  job'[r] = job[r]
        BY <3>5, <4>4 DEF Submit, Runs, Guarded, FeatureTypeOK
      <4>5. CASE UNCHANGED job  BY <4>1, <4>5
      <4> QED BY <2>3, <4>1, <4>2, <4>3, <4>4, <4>5
              DEF FeatureNext, AdminStep, Approve, SetSpec, SetBudget, AcceptForPlanning, Stop, Edited,
                  LoseLock
    <3> QED BY <2>3, <3>4, <3>5 DEF RunningHasRunner, Runs
  <2> QED BY <2>1, <2>2, <2>3
<1> QED BY <1>1, <1>2, FeatureTypeSafe, ApprovalInvSafe, KindSafe, PTL DEF FeatureSpec

-----------------------------------------------------------------------------
(* Reviews.                                                                *)

Reads == {"permitting", "beginning"} \cup Guarded

\* A job that has read the row knows the plan its digest stands for: digests
\* are never used twice.
ReadInv == \A s \in Servers :
    /\ job[s].digest <= feature.revision
    /\ job[s].at \in Reads /\ job[s].digest # Null /\ job[s].digest = feature.digest => job[s].plan = feature.plan

FinishInv == \A s \in Servers : job[s].at = "finishing" => job[s].plan \in session.done

\* What a step of a job leaves of what it has read.
LEMMA JobReads ==
    ASSUME FeatureTypeOK, NEW s \in Servers, JobStep(s) \/ Crash(s)
    PROVE  /\ \A z \in Servers \ {s} : job'[z] = job[z]
           /\ \/ ReadFeature(s) /\ UNCHANGED storeVars
              \/ /\ job'[s].digest \in {Null, job[s].digest}
                 /\ job'[s].at \in Reads =>
                        job[s].at \in Reads /\ job'[s].digest = job[s].digest /\ job'[s].plan = job[s].plan
           /\ job'[s].at = "finishing" => job'[s].plan \in session.done
PROOF
<1> USE DEF Reads, Guarded
<1>1. job[s] \in Jobs /\ job \in [Servers -> Jobs]  BY DEF FeatureTypeOK
<1>2. CASE TakeLock(s)
  <2>1. job[s].kind \in {"plan", "execute", "publish"}  BY <1>1, <1>2 DEF TakeLock, Jobs, FeatureTypeOK
  <2>2. FirstPlace[job[s].kind] \notin Reads  BY <2>1 DEF FirstPlace
  <2> QED BY <1>1, <1>2, <2>2 DEF TakeLock, Goto, Jobs
<1>3. CASE Unlock(s) \/ Crash(s)  BY <1>1, <1>3, IdleJob DEF Unlock, Crash
<1>4. CASE ReadFeature(s)  BY <1>1, <1>4 DEF ReadFeature, Jobs
<1>5. CASE CheckPermission(s) \/ ApplyOrResume(s) \/ CheckRun(s) \/ PermitAccept(s) \/ RoundsEnd(s)
  BY <1>1, <1>5 DEF CheckPermission, ApplyOrResume, CheckRun, PermitAccept, RoundsEnd, Goto, Jobs
<1>6. CASE StartRounds(s)  BY <1>1, <1>6 DEF StartRounds, Jobs
<1>7. CASE ReadForPlan(s)  BY <1>1, <1>7 DEF ReadForPlan, Jobs
<1>8. CASE Publish(s)  BY <1>1, <1>8, IdleJob DEF Publish, GotoAfresh, Jobs
<1>9. CASE StatementDone(s)
  <2>1. CASE job[s].at = "asking"  BY <1>1, <1>9, <2>1 DEF StatementDone, Jobs
  <2>2. CASE job[s].at \in {"beginning", "importing", "accepting"}
    <3>1. After[job[s].at] \in {"applying", "starting", "working"}  BY <2>2, AfterPlaces
    <3>2. job' = [job EXCEPT ![s].at = After[job[s].at]]  BY <1>9, <2>2 DEF StatementDone, Goto
    <3> QED BY <1>1, <2>2, <3>1, <3>2 DEF Jobs
  <2>3. CASE job[s].at \in {"finishing", "escalating", "preparing", "failing"}
    <3>1. After[job[s].at] \notin Reads  BY <2>3, AfterPlaces
    <3>2. GotoAfresh(s, After[job[s].at])  BY <1>9, <2>3 DEF StatementDone
    <3> QED BY <1>1, <3>1, <3>2, IdleJob DEF GotoAfresh, Jobs
  <2>4. CASE job[s].at \in {"revoking", "undoing"}
    <3>1. After[job[s].at] \notin Reads  BY <2>4, AfterPlaces
    <3>2. job' = [job EXCEPT ![s].at = After[job[s].at]]  BY <1>9, <2>4 DEF StatementDone, Goto
    <3> QED BY <1>1, <3>1, <3>2 DEF Jobs
  <2> QED BY <1>9, <2>1, <2>2, <2>3, <2>4 DEF StatementDone, Statement
<1>10. CASE Raise(s)  BY <1>1, <1>10, IdleJob DEF Raise, Handler, Jobs
<1>11. CASE HandlerFails(s)
  <2>1. CASE Goto(s, "failing")  BY <1>1, <2>1 DEF Goto, Jobs
  <2>2. CASE GotoAfresh(s, "unlocking")  BY <1>1, <2>2, IdleJob DEF GotoAfresh, Jobs
  <2> QED BY <1>11, <2>1, <2>2 DEF HandlerFails
<1> QED BY <1>2, <1>3, <1>4, <1>5, <1>6, <1>7, <1>8, <1>9, <1>10, <1>11 DEF JobStep

LEMMA ReadStep ==
    ASSUME FeatureTypeOK, ApprovalInv, ReadInv, FeatureNext
    PROVE  ReadInv'
PROOF
<1>1. StoreStep  BY Steps
<1>2. feature \in FeatureRows /\ feature.revision \in Nat /\ job \in [Servers -> Jobs]
  BY DEF FeatureTypeOK, FeatureRows
<1>3. ASSUME NEW z \in Servers, job'[z].digest \in {Null, job[z].digest},
             job'[z].at \in Reads => /\ job[z].at \in Reads
                                     /\ job'[z].digest = job[z].digest /\ job'[z].plan = job[z].plan
      PROVE  /\ job'[z].digest <= feature'.revision
             /\ (job'[z].at \in Reads /\ job'[z].digest # Null /\ job'[z].digest = feature'.digest) =>
                    job'[z].plan = feature'.plan
  <2>1. job[z].digest \in Nat /\ job[z].digest <= feature.revision /\ feature'.revision \in Nat
    BY <1>1, <1>2, StoreTypes DEF ReadInv, Jobs, FeatureRows
  <2> QED BY <1>1, <1>2, <1>3, <2>1, RowMoves DEF ReadInv, Null
<1>4. CASE UNCHANGED job  BY <1>3, <1>4 DEF ReadInv
<1>5. ASSUME NEW s \in Servers, JobStep(s) \/ Crash(s)
      PROVE  ReadInv'
  <2>1. CASE ReadFeature(s) /\ UNCHANGED storeVars
    <3>1. /\ job'[s].digest = feature.approved /\ job'[s].plan = feature.plan
          /\ feature' = feature
      BY <1>2, <2>1 DEF ReadFeature, Jobs, storeVars
    <3>2. feature.approved <= feature.revision
      BY <1>2 DEF ApprovalInv, FeatureRows, Null
    <3>3. \A z \in Servers \ {s} : job'[z] = job[z]  BY <1>5, JobReads
    <3> QED BY <3>1, <3>2, <3>3 DEF ReadInv
  <2>2. CASE ~(ReadFeature(s) /\ UNCHANGED storeVars)
    <3>1. ASSUME NEW z \in Servers
          PROVE  /\ job'[z].digest \in {Null, job[z].digest}
                 /\ job'[z].at \in Reads => /\ job[z].at \in Reads
                                            /\ job'[z].digest = job[z].digest /\ job'[z].plan = job[z].plan
      BY <1>5, <2>2, JobReads
    <3> QED BY <1>3, <3>1 DEF ReadInv
  <2> QED BY <2>1, <2>2
<1>6. ASSUME NEW s \in Servers, NEW kind \in {"plan", "execute", "publish"}, Submit(s, kind)
      PROVE  ReadInv'
  <2>1. [Idle EXCEPT !.kind = kind, !.at = "locking"].digest = Null
        /\ [Idle EXCEPT !.kind = kind, !.at = "locking"].at = "locking"
    BY IdleJob DEF Jobs
  <2>2. ASSUME NEW z \in Servers
        PROVE  /\ job'[z].digest \in {Null, job[z].digest}
               /\ job'[z].at \in Reads => /\ job[z].at \in Reads
                                          /\ job'[z].digest = job[z].digest /\ job'[z].plan = job[z].plan
    BY <1>2, <1>6, <2>1 DEF Submit, Reads, Guarded
  <2> QED BY <1>3, <2>2 DEF ReadInv
<1> QED BY <1>4, <1>5, <1>6 DEF FeatureNext, AdminStep, Approve, SetSpec, SetBudget, AcceptForPlanning,
                                Stop,
                                Edited, LoseLock

LEMMA FinishStep ==
    ASSUME FeatureTypeOK, FinishInv, FeatureNext
    PROVE  FinishInv'
PROOF
<1>1. session.done \subseteq session'.done  BY Steps
<1>2. CASE UNCHANGED job  BY <1>1, <1>2 DEF FinishInv
<1>3. ASSUME NEW s \in Servers, JobStep(s) \/ Crash(s)
      PROVE  FinishInv'
  BY <1>1, <1>3, JobReads DEF FinishInv
<1>4. ASSUME NEW s \in Servers, NEW kind \in {"plan", "execute", "publish"}, Submit(s, kind)
      PROVE  FinishInv'
  <2>1. [Idle EXCEPT !.kind = kind, !.at = "locking"].at = "locking"  BY IdleJob DEF Jobs
  <2> QED BY <1>1, <1>4, <2>1 DEF FinishInv, Submit, FeatureTypeOK
<1> QED BY <1>2, <1>3, <1>4 DEF FeatureNext, AdminStep, Approve, SetSpec, SetBudget, AcceptForPlanning,
                                Stop,
                                Edited, LoseLock

\* A review begins with a job that has seen its plan done.
LEMMA ReviewBegins ==
    ASSUME FeatureTypeOK, FeatureNext, feature.status # "review", feature'.status = "review"
    PROVE  \E s \in Servers : job[s].at = "finishing" /\ Finish(job[s].digest)
PROOF
<1>1. feature \in FeatureRows  BY DEF FeatureTypeOK
<1>2. PICK s \in Servers : JobStep(s)
  BY <1>1 DEF FeatureNext, AdminStep, Approve, SetSpec, SetBudget, AcceptForPlanning, Stop, Draft,
              Submit, Invalidate, LoseLock, Crash, storeVars, FeatureRows
<1>3. Statement(s)
  BY <1>2 DEF JobStep, TakeLock, Unlock, ReadFeature, CheckPermission, ApplyOrResume, StartRounds,
              CheckRun, PermitAccept, RoundsEnd,
              ReadForPlan, Publish, StatementDone, Raise, HandlerFails, storeVars
<1>4. job[s].at = "finishing" /\ Finish(job[s].digest)
  BY <1>1, <1>3 DEF Statement, Import, AcceptTask, BeginRun, Invalidate, Propose, Prepare, storeVars,
                    FeatureRows
<1> QED BY <1>4

\* A feature under review has had every task of its approved plan accepted,
\* also when a job of another server, whose lock is lost, finishes late or a
\* new plan was approved in the meantime.
THEOREM ReviewSafe == FeatureSpec => []ReviewEarned
PROOF
<1>1. FeatureInit => ReadInv /\ FinishInv /\ ReviewEarned
  BY IdleJob DEF FeatureInit, ReadInv, FinishInv, ReviewEarned, Null, Reads, Guarded
<1>2. FeatureTypeOK /\ ApprovalInv /\ ReadInv /\ FinishInv /\ ReviewEarned /\ [FeatureNext]_vars
        => ReadInv' /\ FinishInv' /\ ReviewEarned'
  <2> SUFFICES ASSUME FeatureTypeOK, ApprovalInv, ReadInv, FinishInv, ReviewEarned, [FeatureNext]_vars
               PROVE  ReadInv' /\ FinishInv' /\ ReviewEarned'
    OBVIOUS
  <2>1. CASE UNCHANGED vars  BY <2>1 DEF ReadInv, FinishInv, ReviewEarned, vars
  <2>2. CASE FeatureNext
    <3>1. ReadInv' /\ FinishInv'  BY <2>2, ReadStep, FinishStep
    <3>2. StoreStep /\ session.done \subseteq session'.done  BY <2>2, Steps
    <3>3. ASSUME feature.status = "review", feature'.status = "review"
          PROVE  feature'.plan \in session'.done
      <4>1. feature'.plan = feature.plan
        BY <3>2, <3>3 DEF StoreStep, storeVars, Invalidate, Redraft, Approval, BeginRun, Finish, Prepare,
                          FeatureTypeOK, FeatureRows
      <4> QED BY <3>2, <3>3, <4>1 DEF ReviewEarned
    <3>4. ASSUME feature.status # "review", feature'.status = "review"
          PROVE  feature'.plan \in session'.done
      <4>1. PICK s \in Servers : job[s].at = "finishing" /\ Finish(job[s].digest)
        BY <2>2, <3>4, ReviewBegins
      <4>2. job[s].plan = feature.plan
        BY <4>1 DEF Finish, ApprovalInv, ReadInv, Reads, Guarded
      <4>3. feature'.plan = feature.plan  BY <4>1 DEF Finish, FeatureTypeOK, FeatureRows
      <4> QED BY <3>2, <4>1, <4>2, <4>3 DEF FinishInv
    <3> QED BY <3>1, <3>3, <3>4 DEF ReviewEarned
  <2> QED BY <2>1, <2>2
<1> QED BY <1>1, <1>2, FeatureTypeSafe, ApprovalInvSafe, PTL DEF FeatureSpec
=============================================================================
