----------------------------- MODULE ProductSaga -----------------------------
(***************************************************************************)
(* A product change: publication, merge, compensation, stage and production *)
(* delivery of one change set over several repositories                    *)
(* (whilly/swarm/product_publication.py, product_merge.py,                 *)
(* product_delivery.py, gitlab_change_transport.py).                       *)
(*                                                                         *)
(* A coordinator is a process that makes one call at a time.  A step is    *)
(* one transaction of the store, one effect on GitLab or on the delivery   *)
(* port, or one read that a later step relies on; reads that nothing       *)
(* separates from the next step are part of it.  Between any two steps the *)
(* process may be killed, or another coordinator may take its steps: no    *)
(* lock is held across calls, the versions and the receipts are all there  *)
(* is.  A call that raises before it has changed anything is no step.      *)
(*                                                                         *)
(* An effect is done, or is not, or is done and its answer is lost.  What  *)
(* the digests bind never changes but for the registry file, see Rebind;   *)
(* arguments are those of the approved plan.                               *)
(***************************************************************************)
EXTENDS ChangeSet

CONSTANTS Coordinators,
          MaxRetries,  \* bound: calls that take a change set out of ROLLBACK_FAILED
          MaxFaults,   \* bound: processes killed, foreign commits, edits of the registry
          MaxBlocks    \* bound: the highest version that is still put on hold

ASSUME SagaAssumption == MaxRetries \in Nat /\ MaxFaults \in Nat /\ MaxBlocks \in Nat

VARIABLES job,      \* job[c]: the call coordinator c is in
          mr,       \* mr[r]: the merge request of r in GitLab
          moved,    \* moved[r]: the target branch is not at the baseline any more
          bound,    \* the registry file is the one that was approved
          done,     \* done[e]: how often effect e was done
          retries, faults

gitlabVars == <<mr, moved, bound, done>>
vars == <<storeVars, job, gitlabVars, retries, faults>>

\* Where a call is.  A pair "x" and "x_write" is a read and the write that
\* names the version it has read.
EffectPoints == {"look", "guard", "intend", "perform", "record"}
Points == EffectPoints \cup
    {"idle", "pipeline", "mr_write", "green_write",
     "ready", "ready_write", "start", "start_write", "merge", "target", "merge_write", "merged_write",
     "broken", "broken_write", "undo", "undo_write", "revert", "revert_open", "bind", "revert_write",
     "revert_failed", "failed_write", "stuck", "stuck_write", "undone_write",
     "stage_write", "deploy", "artifact", "artifact_write", "accepting", "accepting_write",
     "accept", "accept_write", "roll", "roll_write"}

\* todo: repositories the loop has not done yet; at: the current one; ver: the
\* version that was read; act, result: the effect under way and its outcome;
\* saw: merged_any in merge_all, merge_effect in _compensate, a green pipeline
\* in publication.
Jobs == [at: Points, todo: SUBSET Repos, cur: Repos \cup {Product}, ver: Nat, saw: BOOLEAN,
         act: Acts \cup {"deliver_prod", "none"}, result: Outcomes \cup {NoReceipt}]
Idle == [at |-> "idle", todo |-> {}, cur |-> Product, ver |-> 0, saw |-> FALSE,
         act |-> "none", result |-> NoReceipt]

SagaTypeOK ==
    /\ StoreTypeOK
    /\ job \in [Coordinators -> Jobs]
    /\ \A c \in Coordinators : job[c].at \in EffectPoints => <<job[c].act, job[c].cur>> \in Effects
    /\ mr \in [Repos -> {"none", "opened", "merged", "reverted"}]
    /\ moved \in [Repos -> BOOLEAN] /\ bound \in BOOLEAN
    /\ done \in [Effects -> Nat]
    /\ retries \in Nat /\ faults \in 0..MaxFaults

SagaInit ==
    /\ StoreInit
    /\ job = [c \in Coordinators |-> Idle]
    /\ mr = [r \in Repos |-> "none"]
    /\ moved = [r \in Repos |-> FALSE]
    /\ bound = TRUE
    /\ done = [e \in Effects |-> 0]
    /\ retries = 0 /\ faults = 0

-----------------------------------------------------------------------------
(* Steps of a call. *)

At(c, point) == job[c].at = point
Goto(c, point) == job' = [job EXCEPT ![c].at = point]
End(c) == job' = [job EXCEPT ![c] = Idle]
Fresh(point, todo) == [Idle EXCEPT !.at = point, !.todo = todo]
Begin(c, point, todo) == job' = [job EXCEPT ![c] = Fresh(point, todo)]
\* The loop body for r is over; it begins at `point` again.
Proceed(c, point) ==
    job' = [job EXCEPT ![c] =
        [@ EXCEPT !.at = point, !.todo = job[c].todo \ {job[c].cur}, !.cur = Product, !.ver = 0,
                  !.act = "none", !.result = NoReceipt]]

\* The loop has nothing to do for r.
Skip(c, r, saw) == job' = [job EXCEPT ![c] = [@ EXCEPT !.todo = job[c].todo \ {r}, !.saw = saw]]
\* The repository was moved by c, which keeps the row that it wrote.
Onward(c, point) == job' = [job EXCEPT ![c] = [@ EXCEPT !.at = point, !.ver = job[c].ver + 1]]

\* A read step.
Reading == UNCHANGED <<storeVars, gitlabVars, retries, faults>>

\* get(): c remembers the version of the change set, or of repository r.
ReadProduct(c, point) == job' = [job EXCEPT ![c] = [@ EXCEPT !.at = point, !.ver = product.ver]]
ReadRepo(c, r, point, saw) ==
    job' = [job EXCEPT ![c] = [@ EXCEPT !.at = point, !.cur = r, !.ver = repo[r].ver, !.saw = saw]]

\* transition() with the version read: `then` when it returns, `else` when it raises.
Writes(c, target, kind, then, else) ==
    \/ Move(job[c].ver, target, kind) /\ then
    \/ /\ ~(product.ver = job[c].ver /\ MayMove(target, kind))
       /\ UNCHANGED storeVars /\ else

\* transition_repo() for the current repository.
WritesRepo(c, target, kind, merge, then, else) ==
    LET r == job[c].cur
    IN  \/ MoveRepo(r, job[c].ver, target, kind, merge) /\ then
        \/ /\ ~(repo[r].ver = job[c].ver /\ MayMoveRepo(r, target, kind))
           /\ UNCHANGED storeVars /\ else

\* Fault: the repositories come in no particular order.
AnyOrder(S) == S

Lowest(S) == {r \in S : \A s \in S : Rank[r] <= Rank[s]}
Highest(S) == {r \in S : \A s \in S : Rank[s] <= Rank[r]}

-----------------------------------------------------------------------------
(* An external effect: _effect in product_delivery.py and in               *)
(* gitlab_change_transport.py, and _merge_effect there, which are alike.   *)

Effect(c) == <<job[c].act, job[c].cur>>
\* What the digest of the request tells apart.
Request(c) == IF job[c].act \in {"push", "mr_open"} THEN job[c].ver ELSE 0

Attempt(c, r, act) == job' = [job EXCEPT ![c] = [@ EXCEPT !.at = "look", !.cur = r, !.act = act]]

\* The effect is over; the version and the loop are kept.
Leave(c, point, saw) ==
    job' = [job EXCEPT ![c] = [@ EXCEPT !.at = point, !.saw = saw, !.act = "none", !.result = NoReceipt]]
\* An exception leaves the loop.
Abandon(c, point) == job' = [job EXCEPT ![c] = [Idle EXCEPT !.at = point, !.saw = job[c].saw]]

\* Where a call goes on when its effect has returned.
Returns(c, result) ==
    CASE job[c].act = "push" ->
            job' = [job EXCEPT ![c] = [@ EXCEPT !.at = "look", !.act = "mr_open", !.result = NoReceipt]]
      [] job[c].act = "mr_open" -> Leave(c, "pipeline", FALSE)
      [] job[c].act = "merge" -> Leave(c, "merge_write", TRUE)
      [] job[c].act = "revert" -> Leave(c, "revert_write", job[c].saw)
      [] job[c].act = "deliver_stage" ->
            IF result = "negative" THEN Abandon(c, "roll") ELSE Leave(c, "artifact", FALSE)
      [] job[c].act = "accept_stage" ->
            IF result = "negative" THEN Abandon(c, "roll") ELSE Proceed(c, "accept")
      [] job[c].act \in {"deliver_prod", "none"} -> End(c)

\* Fault: a revert that raises is taken for done.
RevertErrorSwallowed(c) ==
    CASE job[c].act = "merge" -> Abandon(c, "broken")
      [] job[c].act = "revert" -> Leave(c, "revert_write", job[c].saw)
      [] job[c].act \in {"deliver_stage", "accept_stage"} -> Abandon(c, "roll")
      [] OTHER -> End(c)

\* Where it goes on when the effect has raised.
Raises(c) ==
    CASE job[c].act = "merge" -> Abandon(c, "broken")
      [] job[c].act = "revert" -> Leave(c, "revert_failed", job[c].saw)
      [] job[c].act \in {"deliver_stage", "accept_stage"} -> Abandon(c, "roll")
      [] OTHER -> End(c)

\* Fault: a receipt answers for the effect whatever it says.
LookAnyReceipt(c) ==
    /\ At(c, "look")
    /\ IF receipts[Effect(c)].result = NoReceipt
       THEN Goto(c, IF job[c].act \in {"push", "mr_open"} THEN "guard" ELSE "intend")
       ELSE Returns(c, "passed")
    /\ Reading

\* A receipt of the same request answers for the effect; any other asks for a
\* reconciliation by hand.
Look(c) ==
    LET receipt == receipts[Effect(c)]
        result == receipt.result
    IN  /\ At(c, "look")
        /\ CASE result = NoReceipt ->
                   Goto(c, IF job[c].act \in {"push", "mr_open"} THEN "guard" ELSE "intend")
             [] result \in {"passed", "negative"} /\ receipt.request = Request(c) -> Returns(c, result)
             [] OTHER -> Raises(c)
        /\ Reading

\* Fault: whether the row was inserted is not looked at.
IntendBlindly(c) ==
    /\ At(c, "intend")
    /\ ClaimEffect(Effect(c)) /\ Goto(c, "perform")
    /\ UNCHANGED <<product, repo, gitlabVars, retries, faults>>

\* The intent is recorded before the effect; whoever finds another's gives up.
Intend(c) ==
    /\ At(c, "intend")
    /\ IF Claimed(Effect(c)) THEN Raises(c) /\ UNCHANGED receipts
       ELSE ClaimEffect(Effect(c)) /\ Goto(c, "perform")
    /\ UNCHANGED <<product, repo, gitlabVars, retries, faults>>

\* What GitLab and the delivery port check before they do the effect.
Doable(act, r) ==
    /\ act = "merge" => ~moved[r] /\ mr[r] = "opened"
    /\ act = "revert" => mr[r] = "merged"

\* The effect is done, and answered or not.  A probe may answer that a check
\* has not passed, a deployment may be acknowledged for something else.
Perform(c) ==
    LET act == job[c].act
        r == job[c].cur
        \* execute() returns or raises
        answers == {"passed", "unavailable"} \cup
                   IF act \in {"deliver_stage", "accept_stage"} THEN {"negative"} ELSE {}
    IN  /\ At(c, "perform") /\ Doable(act, r)
        /\ done' = [done EXCEPT ![Effect(c)] = @ + 1]
        /\ mr' = CASE act = "mr_open" -> [mr EXCEPT ![r] = "opened"]
                   [] act = "merge" -> [mr EXCEPT ![r] = "merged"]
                   [] act = "revert" -> [mr EXCEPT ![r] = "reverted"]
                   [] OTHER -> mr
        /\ moved' = IF act \in {"merge", "revert"} THEN [moved EXCEPT ![r] = TRUE] ELSE moved
        /\ \E answer \in answers :
              job' = [job EXCEPT ![c] = [@ EXCEPT !.at = "record", !.result = answer]]
        /\ UNCHANGED <<storeVars, bound, retries, faults>>

\* Nothing is done: a check fails, or the service is away.
PerformFails(c) ==
    /\ At(c, "perform")
    /\ job' = [job EXCEPT ![c] = [@ EXCEPT !.at = "record", !.result = "unavailable"]]
    /\ Reading

Record(c) ==
    LET result == job[c].result
    IN  /\ At(c, "record")
        /\ RecordEffect(Effect(c), result, Request(c))
        /\ IF result = "unavailable" THEN Raises(c) ELSE Returns(c, result)
        /\ UNCHANGED <<product, repo, gitlabVars, retries, faults>>

EffectStep(c) == Look(c) \/ Intend(c) \/ Perform(c) \/ PerformFails(c) \/ Record(c)

-----------------------------------------------------------------------------
(* Publication: ProductPublicationBackend.prepare_repo_change.             *)

Offset == [LOCAL_VERIFIED |-> 0, MR_OPEN |-> 1, PIPELINE_GREEN |-> 2]

\* _recheck, for a request that names version `version`.
Rechecked(r, version) ==
    /\ product.status \in {"EXECUTING", "VERIFYING_REPOS"} /\ bound
    /\ repo[r].status \in DOMAIN Offset
    /\ repo[r].ver = version + Offset[repo[r].status]

PublishCall(c, r) ==
    /\ At(c, "idle") /\ ~moved[r]
    /\ \E version \in 1..repo[r].ver :
          /\ Rechecked(r, version)
          /\ job' = [job EXCEPT ![c] =
                [Idle EXCEPT !.at = "look", !.cur = r, !.ver = version, !.act = "push"]]
    /\ Reading

\* before_effect and _remote_binding, before a push or the opening of a request.
Guard(c) ==
    LET r == job[c].cur
    IN  /\ At(c, "guard")
        /\ IF Rechecked(r, job[c].ver) /\ ~moved[r] THEN Goto(c, "intend") ELSE End(c)
        /\ Reading

\* The pipeline is read, green or not, then the repository again.
Pipeline(c) ==
    LET r == job[c].cur
    IN  /\ At(c, "pipeline")
        /\ \E green \in BOOLEAN :
              IF ~Rechecked(r, job[c].ver) THEN End(c)
              ELSE CASE repo[r].status = "LOCAL_VERIFIED" -> ReadRepo(c, r, "mr_write", green)
                     [] repo[r].status = "MR_OPEN" /\ green -> ReadRepo(c, r, "green_write", green)
                     [] OTHER -> End(c)
        /\ Reading

MrWrite(c) ==
    /\ At(c, "mr_write")
    /\ WritesRepo(c, "MR_OPEN", "work", FALSE,
          IF job[c].saw THEN Onward(c, "green_write")
          ELSE End(c),
          End(c))
    /\ UNCHANGED <<gitlabVars, retries, faults>>

GreenWrite(c) ==
    /\ At(c, "green_write")
    /\ WritesRepo(c, "PIPELINE_GREEN", "exact_sha_pipeline", FALSE, End(c), End(c))
    /\ UNCHANGED <<gitlabVars, retries, faults>>

PublishStep(c) == Guard(c) \/ Pipeline(c) \/ MrWrite(c) \/ GreenWrite(c)

-----------------------------------------------------------------------------
(* ProductMergeCoordinator.merge_all.                                      *)

\* verify_barrier: every mandatory repository is ready, published as recorded,
\* and its merge request and target are what they were.
Barrier ==
    /\ product.approved /\ bound
    /\ Mandatory # {}
    /\ \A r \in Mandatory :
          /\ repo[r].status \in {"PIPELINE_GREEN", "READY_TO_MERGE"}
          /\ repo[r].kind = "exact_sha_pipeline"
          /\ mr[r] = "opened" /\ ~moved[r]

MergeCall(c) ==
    /\ At(c, "idle")
    /\ \/ product.status = "READY_TO_MERGE" /\ Barrier /\ Begin(c, "ready", Mandatory)
       \/ /\ product.status = "MERGING"
          /\ job' = [job EXCEPT ![c] = [Fresh("merge", Mandatory) EXCEPT !.saw = Landed # {}]]
       \/ /\ \/ product.status \in {"PARTIAL_MERGE", "ROLLING_BACK"}
             \/ product.status = "ROLLBACK_FAILED" /\ retries < MaxRetries
          /\ Begin(c, "undo", {})
    /\ Reading

Ready(c) ==
    /\ At(c, "ready")
    /\ \/ job[c].todo = {} /\ ReadProduct(c, "start_write")
       \/ \E r \in Lowest(job[c].todo) :
             IF ~bound THEN End(c)
             ELSE IF repo[r].status = "PIPELINE_GREEN" THEN ReadRepo(c, r, "ready_write", FALSE)
             ELSE Skip(c, r, job[c].saw)
    /\ Reading

ReadyWrite(c) ==
    /\ At(c, "ready_write")
    /\ WritesRepo(c, "READY_TO_MERGE", "work", FALSE, Proceed(c, "ready"), End(c))
    /\ UNCHANGED <<gitlabVars, retries, faults>>

StartWrite(c) ==
    /\ At(c, "start_write")
    /\ Writes(c, "MERGING", "work",
          job' = [job EXCEPT ![c] = [Fresh("merge", Mandatory) EXCEPT !.saw = Landed # {}]],
          End(c))
    /\ UNCHANGED <<gitlabVars, retries, faults>>

\* _assert_binding, then the repository as it is now.
Merge(c) ==
    /\ At(c, "merge")
    /\ \/ job[c].todo = {} /\ ReadProduct(c, "merged_write")
       \/ \E r \in Lowest(job[c].todo) :
             IF ~bound THEN Abandon(c, "broken")
             ELSE IF r \in Landed
             THEN Skip(c, r, TRUE)
             ELSE IF repo[r].status # "READY_TO_MERGE" THEN Abandon(c, "broken")
             ELSE ReadRepo(c, r, "target", job[c].saw)
    /\ Reading

\* read_target_sha: at the baseline, or moved, or GitLab is away.
Target(c) ==
    /\ At(c, "target")
    /\ \/ ~moved[job[c].cur] /\ Attempt(c, job[c].cur, "merge")
       \/ Abandon(c, "broken")
    /\ Reading

MergeWrite(c) ==
    /\ At(c, "merge_write")
    /\ WritesRepo(c, "MERGED", "work", TRUE, Proceed(c, "merge"), Abandon(c, "broken"))
    /\ UNCHANGED <<gitlabVars, retries, faults>>

Broken(c) == At(c, "broken") /\ ReadProduct(c, "broken_write") /\ Reading

BrokenWrite(c) ==
    /\ At(c, "broken_write")
    /\ IF job[c].saw
       THEN Writes(c, "PARTIAL_MERGE", "failure", Begin(c, "undo", {}), End(c))
       ELSE Writes(c, "FAILED", "failure", End(c), End(c))
    /\ UNCHANGED <<gitlabVars, retries, faults>>

MergedWrite(c) ==
    /\ At(c, "merged_write")
    /\ Writes(c, "MERGED", "work", End(c), End(c))
    /\ UNCHANGED <<gitlabVars, retries, faults>>

MergeStep(c) ==
    \/ Ready(c) \/ ReadyWrite(c) \/ StartWrite(c)
    \/ Merge(c) \/ Target(c) \/ MergeWrite(c) \/ MergedWrite(c)
    \/ Broken(c) \/ BrokenWrite(c)

-----------------------------------------------------------------------------
(* ProductMergeCoordinator._compensate.                                    *)

Undo(c) ==
    /\ At(c, "undo")
    /\ IF \/ product.status = "PARTIAL_MERGE"
          \/ product.status = "ROLLBACK_FAILED" /\ retries < MaxRetries
       THEN ReadProduct(c, "undo_write")
       ELSE IF product.status = "ROLLING_BACK" THEN Begin(c, "revert", Mandatory) ELSE End(c)
    /\ Reading

UndoWrite(c) ==
    /\ At(c, "undo_write")
    /\ Writes(c, "ROLLING_BACK", "failure", Begin(c, "revert", Mandatory), End(c))
    /\ retries' = IF product.status = "ROLLBACK_FAILED" /\ product'.status = "ROLLING_BACK"
                  THEN retries + 1 ELSE retries
    /\ UNCHANGED <<gitlabVars, faults>>

\* The next repository in reverse order, if it is recorded as merged.
Revert(c) ==
    /\ At(c, "revert")
    /\ \/ job[c].todo = {} /\ ReadProduct(c, "undone_write")
       \/ \E r \in Highest(job[c].todo) :
             IF repo[r].status \in {"MERGED", "ARTIFACT_READY", "ROLLBACK_FAILED"}
             THEN ReadRepo(c, r, "revert_open", repo[r].merge)
             ELSE IF repo[r].status = "REVERT_OPEN" THEN ReadRepo(c, r, "bind", repo[r].merge)
             ELSE Skip(c, r, job[c].saw)
    /\ Reading

RevertOpen(c) ==
    /\ At(c, "revert_open")
    /\ WritesRepo(c, "REVERT_OPEN", "work", job[c].saw,
          Onward(c, "bind"),
          End(c))
    /\ UNCHANGED <<gitlabVars, retries, faults>>

\* _assert_binding; the revert needs the commit of the merge.
Bind(c) ==
    /\ At(c, "bind")
    /\ IF bound /\ job[c].saw THEN Attempt(c, job[c].cur, "revert") ELSE Goto(c, "revert_failed")
    /\ Reading

RevertWrite(c) ==
    /\ At(c, "revert_write")
    /\ WritesRepo(c, "REVERTED", "work", FALSE, Proceed(c, "revert"), Goto(c, "revert_failed"))
    /\ UNCHANGED <<gitlabVars, retries, faults>>

RevertFailed(c) ==
    LET r == job[c].cur
    IN  /\ At(c, "revert_failed")
        /\ IF repo[r].status = "REVERT_OPEN"
           THEN ReadRepo(c, r, "failed_write", job[c].saw)
           ELSE ReadProduct(c, "stuck_write")
        /\ Reading

FailedWrite(c) ==
    /\ At(c, "failed_write")
    /\ WritesRepo(c, "ROLLBACK_FAILED", "failure", job[c].saw, Goto(c, "stuck"), End(c))
    /\ UNCHANGED <<gitlabVars, retries, faults>>

Stuck(c) == At(c, "stuck") /\ ReadProduct(c, "stuck_write") /\ Reading

StuckWrite(c) ==
    /\ At(c, "stuck_write")
    /\ Writes(c, "ROLLBACK_FAILED", "failure", End(c), End(c))
    /\ UNCHANGED <<gitlabVars, retries, faults>>

UndoneWrite(c) ==
    /\ At(c, "undone_write")
    /\ Writes(c, "ROLLED_BACK", "work", End(c), End(c))
    /\ UNCHANGED <<gitlabVars, retries, faults>>

UndoStep(c) ==
    \/ Undo(c) \/ UndoWrite(c) \/ Revert(c) \/ RevertOpen(c) \/ Bind(c) \/ RevertWrite(c)
    \/ RevertFailed(c) \/ FailedWrite(c) \/ Stuck(c) \/ StuckWrite(c) \/ UndoneWrite(c)

-----------------------------------------------------------------------------
(* ProductDeliveryCoordinator: deliver_stage and deliver_prod.             *)

StageCall(c) ==
    /\ At(c, "idle")
    /\ product.status \in {"MERGED", "DEPLOYING_STAGE", "ACCEPTING_STAGE"}
    /\ IF ~bound THEN Begin(c, "roll", {})
       ELSE IF product.status = "MERGED" THEN ReadProduct(c, "stage_write")
       ELSE Begin(c, "deploy", Mandatory)
    /\ Reading

StageWrite(c) ==
    /\ At(c, "stage_write")
    /\ Writes(c, "DEPLOYING_STAGE", "work", Begin(c, "deploy", Mandatory), End(c))
    /\ UNCHANGED <<gitlabVars, retries, faults>>

\* _assert_binding, then the deployment of the next repository; after the last
\* one the change set is read again.
Deploy(c) ==
    /\ At(c, "deploy")
    /\ \/ /\ job[c].todo = {}
          /\ IF product.status = "DEPLOYING_STAGE"
             THEN ReadProduct(c, "accepting_write")
             ELSE Begin(c, "accept", Mandatory)
       \/ \E r \in Lowest(job[c].todo) :
             IF bound THEN Attempt(c, r, "deliver_stage") ELSE Abandon(c, "roll")
    /\ Reading

Artifact(c) ==
    LET r == job[c].cur
    IN  /\ At(c, "artifact")
        /\ IF repo[r].status = "MERGED" THEN ReadRepo(c, r, "artifact_write", FALSE)
           ELSE Proceed(c, "deploy")
        /\ Reading

ArtifactWrite(c) ==
    /\ At(c, "artifact_write")
    /\ WritesRepo(c, "ARTIFACT_READY", "work", FALSE, Proceed(c, "deploy"), End(c))
    /\ UNCHANGED <<gitlabVars, retries, faults>>

AcceptingWrite(c) ==
    /\ At(c, "accepting_write")
    /\ Writes(c, "ACCEPTING_STAGE", "work", Begin(c, "accept", Mandatory), End(c))
    /\ UNCHANGED <<gitlabVars, retries, faults>>

Accept(c) ==
    /\ At(c, "accept")
    /\ \/ job[c].todo = {} /\ ReadProduct(c, "accept_write")
       \/ \E r \in Lowest(job[c].todo) :
             IF bound THEN Attempt(c, r, "accept_stage") ELSE Abandon(c, "roll")
    /\ Reading

AcceptWrite(c) ==
    /\ At(c, "accept_write")
    /\ Writes(c, "DONE", "stage_acceptance", End(c), End(c))
    /\ UNCHANGED <<gitlabVars, retries, faults>>

\* _rollback_boundary.
Roll(c) == At(c, "roll") /\ ReadProduct(c, "roll_write") /\ Reading

RollWrite(c) ==
    /\ At(c, "roll_write")
    /\ Writes(c, "ROLLING_BACK", "failure", End(c), End(c))
    /\ UNCHANGED <<gitlabVars, retries, faults>>

\* With the approval that is bound to the stage acceptance.
ProdCall(c) ==
    /\ At(c, "idle") /\ product.status = "DONE" /\ bound
    /\ Attempt(c, Product, "deliver_prod")
    /\ Reading

DeliveryStep(c) ==
    \/ StageWrite(c) \/ Deploy(c) \/ Artifact(c) \/ ArtifactWrite(c)
    \/ AcceptingWrite(c) \/ Accept(c) \/ AcceptWrite(c) \/ Roll(c) \/ RollWrite(c)

-----------------------------------------------------------------------------
(* Everybody else. *)

Fault == faults < MaxFaults /\ faults' = faults + 1

\* The process of c is killed.
Crash(c) ==
    /\ ~At(c, "idle") /\ End(c)
    /\ Fault /\ UNCHANGED <<storeVars, gitlabVars, retries>>

\* Somebody else's commit on a target branch.
Drift(r) ==
    /\ ~moved[r] /\ moved' = [moved EXCEPT ![r] = TRUE]
    /\ Fault /\ UNCHANGED <<storeVars, job, mr, bound, done, retries>>

\* The registry file is edited, or put back.
Rebind ==
    /\ bound' = ~bound
    /\ Fault /\ UNCHANGED <<storeVars, job, mr, moved, done, retries>>

\* Callers of ProductChangeSetService, which nothing in the repository drives:
\* they plan, implement, put on hold and give up.
ClientKinds == {"approval", "impact_graph", "work", "failure"}

ClientMove(target, kind) ==
    /\ product.status \in Pre \cup Waiting
    /\ target \in Waiting => product.ver < MaxBlocks
    /\ target \in Pre \cup Waiting \cup {"FAILED"}
    /\ Move(product.ver, target, kind)
    /\ UNCHANGED <<job, gitlabVars, retries, faults>>

ClientMoveRepo(r, target, kind) ==
    /\ repo[r].status \in RepoPre \cup {"BLOCKED"}
    /\ target = "BLOCKED" => repo[r].ver < MaxBlocks
    /\ \/ target \in {"WORKTREE_READY", "IMPLEMENTING", "LOCAL_VERIFIED",
                      "NOT_IMPACTED", "BLOCKED", "FAILED"}
       \/ repo[r].status = "BLOCKED"
    /\ MoveRepo(r, repo[r].ver, target, kind, FALSE)
    /\ UNCHANGED <<job, gitlabVars, retries, faults>>

Environment ==
    \/ \E r \in Repos : Drift(r)
    \/ Rebind
    \/ \E target \in Statuses, kind \in ClientKinds : ClientMove(target, kind)
    \/ \E r \in Repos, target \in RepoStatuses, kind \in ClientKinds : ClientMoveRepo(r, target, kind)

-----------------------------------------------------------------------------

CallStep(c) == EffectStep(c) \/ PublishStep(c) \/ MergeStep(c) \/ UndoStep(c) \/ DeliveryStep(c)

Call(c) == (\E r \in Repos : PublishCall(c, r)) \/ MergeCall(c) \/ StageCall(c) \/ ProdCall(c)

SagaNext ==
    \/ \E c \in Coordinators : CallStep(c) \/ Call(c) \/ Crash(c)
    \/ Environment

SagaSpec == SagaInit /\ [][SagaNext]_vars

-----------------------------------------------------------------------------

\* No effect on GitLab or on the delivery port is done twice, whichever
\* coordinators race for it, are killed between its intent and its receipt, or
\* ask again after a lost answer.
EffectsOnce == \A e \in Effects : done[e] <= 1

\* What the record says was done was done.  Beyond the merge everything
\* mandatory is merged in GitLab; the change set is done only with every stage
\* deployed and accepted, and production is delivered after that.
SuccessIsReal ==
    /\ \A r \in Landed : mr[r] = "merged"
    /\ product.status \in {"MERGED", "DEPLOYING_STAGE", "ACCEPTING_STAGE", "DONE"} =>
          \A r \in Mandatory : mr[r] = "merged"
    /\ product.status = "DONE" =>
          \A r \in Mandatory : done[<<"deliver_stage", r>>] = 1 /\ done[<<"accept_stage", r>>] = 1
    /\ done[<<"deliver_prod", Product>>] > 0 => product.status = "DONE"

\* Nothing is pushed, merged or deployed for a change that nobody approved.
ApprovedFirst == \A e \in Effects : done[e] > 0 => product.approved

\* A repository is merged after those it depends on, and one that is recorded as
\* merged is reverted before them.
DependencyOrder ==
    \A r \in Mandatory : \A d \in Deps[r] \cap Mandatory :
        /\ mr[r] = "merged" => mr[d] \in {"merged", "reverted"}
        /\ mr[d] = "reverted" => r \notin Unresolved

\* A repository recorded as reverted is reverted in GitLab, one that is reverted
\* there is on its way to that record, and none is put up for a revert that was
\* not merged, however often compensation is interrupted, raced and retried.
RollbackIsReal ==
    /\ \A r \in Reverted : mr[r] = "reverted"
    /\ \A r \in Unresolved : mr[r] \in {"merged", "reverted"}
    /\ \A r \in Repos : mr[r] = "reverted" =>
          repo[r].status \in {"REVERT_OPEN", "REVERTED", "ROLLBACK_FAILED"}

\* "Prevent generic failure after an observed merge"; "rollback completion SHALL
\* require observed reverts without unresolved merged parts": a change set that
\* failed or is rolled back leaves nothing merged of which there is a receipt.
ObservedMergeUndone ==
    product.status \in {"FAILED", "ROLLED_BACK"} =>
        \A r \in Repos : receipts[<<"merge", r>>].result = "passed" => mr[r] # "merged"
=============================================================================
