------------------------------ MODULE ChangeSet ------------------------------
(***************************************************************************)
(* The record of one product change: a change set over several             *)
(* repositories (whilly/swarm/change_set.py) and the store that keeps it   *)
(* (whilly/swarm/change_set_store.py).                                     *)
(*                                                                         *)
(* Every method of the store is one transaction behind a lock on the       *)
(* change set's row.  A caller names the version it has read; a move of    *)
(* the change set or of a repository that does not fit the version, the    *)
(* edges or the guards raises and changes nothing.  Evidence is reduced to *)
(* what a guard or a later reader looks at: its kind, whether it is        *)
(* passed, and whether it holds the commit of the repository's merge.      *)
(***************************************************************************)
EXTENDS Naturals, Sequences, FiniteSets

CONSTANTS Repos,    \* the projects of the registry
          Deps,     \* Deps[r]: the repositories r depends on
          Rank,     \* a numbering that _dependency_order follows
          Product   \* repo_id of an effect on the product as a whole

ASSUME ChangeSetAssumption ==
    /\ Repos # {} /\ Product \notin Repos
    /\ Deps \in [Repos -> SUBSET Repos]
    /\ Rank \in [Repos -> Nat]
    /\ \A r, s \in Repos : Rank[r] = Rank[s] => r = s
    /\ \A r \in Repos : \A d \in Deps[r] : Rank[d] < Rank[r]

VARIABLES product,  \* the row of product_change_sets
          repo,     \* repo[r]: the row of repo_changes
          receipts  \* receipts[e]: the row of external_effect_receipts of effect e

storeVars == <<product, repo, receipts>>

Forward == <<"DRAFT", "PLANNED", "EXECUTING", "VERIFYING_REPOS", "VERIFYING_INTEGRATION",
             "READY_TO_MERGE", "MERGING", "MERGED", "DEPLOYING_STAGE", "ACCEPTING_STAGE", "DONE">>
RepoForward == <<"PLANNED", "WORKTREE_READY", "IMPLEMENTING", "LOCAL_VERIFIED", "MR_OPEN",
                 "PIPELINE_GREEN", "READY_TO_MERGE", "MERGED", "ARTIFACT_READY">>

Pre == {Forward[i] : i \in 1..6}
RepoPre == {RepoForward[i] : i \in 1..7}

Waiting == {"BLOCKED", "MANUAL_DECISION_REQUIRED"}
Statuses == {Forward[i] : i \in 1..11} \cup Waiting \cup
            {"FAILED", "PARTIAL_MERGE", "ROLLING_BACK", "ROLLED_BACK", "ROLLBACK_FAILED"}
RepoStatuses == {RepoForward[i] : i \in 1..9} \cup
                {"NOT_IMPACTED", "BLOCKED", "FAILED", "REVERT_OPEN", "REVERTED", "ROLLBACK_FAILED"}
NoStatus == "NULL"

Edges ==
    {<<Forward[i], Forward[i + 1]>> : i \in 1..10}
    \cup (Pre \X (Waiting \cup {"FAILED"}))
    \cup ({"MERGING"} \X {"FAILED", "PARTIAL_MERGE"})
    \cup ({"MERGED", "DEPLOYING_STAGE", "ACCEPTING_STAGE", "PARTIAL_MERGE", "ROLLBACK_FAILED"}
             \X {"ROLLING_BACK"})
    \cup ({"ROLLING_BACK"} \X {"ROLLED_BACK", "ROLLBACK_FAILED"})

RepoEdges ==
    {<<RepoForward[i], RepoForward[i + 1]>> : i \in 1..8}
    \cup (RepoPre \X {"BLOCKED", "FAILED"})
    \cup {<<"PLANNED", "NOT_IMPACTED">>}
    \cup ({"MERGED", "ARTIFACT_READY", "ROLLBACK_FAILED"} \X {"REVERT_OPEN"})
    \cup ({"REVERT_OPEN"} \X {"REVERTED", "ROLLBACK_FAILED"})

\* The kinds of evidence some guard asks for; "work" is any other that is
\* passed, "failure" any that is not.
Kinds == {"approval", "impact_graph", "exact_sha_pipeline", "stage_acceptance", "work", "failure"}
Passed(kind) == kind # "failure"

\* A deployment that was acknowledged for the wrong artifact, or a probe that
\* answered and was not passed, leaves a receipt that is passed all the same: "negative".
Acts == {"push", "mr_open", "merge", "revert", "deliver_stage", "accept_stage"}
Effects == (Acts \X Repos) \cup {<<"deliver_prod", Product>>}
Outcomes == {"passed", "negative", "unavailable"}
NoReceipt == "none"

Rows == [status: Statuses, ver: Nat, resume: Statuses \cup {NoStatus}, approved: BOOLEAN]
RepoRows == [status: RepoStatuses, ver: Nat, mandatory: BOOLEAN,
             resume: RepoStatuses \cup {NoStatus}, kind: Kinds, merge: BOOLEAN]
\* request stands for the digest of the request the receipt answers: the version
\* of the repository it names, or 0.
ReceiptRows == [intent: BOOLEAN, result: Outcomes \cup {NoReceipt}, request: Nat]

StoreTypeOK ==
    /\ product \in Rows
    /\ repo \in [Repos -> RepoRows]
    /\ receipts \in [Effects -> ReceiptRows]

\* create(): a draft with every repository of the registry, approved already or not.
StoreInit ==
    /\ \E approved \in BOOLEAN :
          product = [status |-> "DRAFT", ver |-> 1, resume |-> NoStatus, approved |-> approved]
    /\ repo = [r \in Repos |-> [status |-> "PLANNED", ver |-> 1, mandatory |-> TRUE,
                                resume |-> NoStatus, kind |-> "failure", merge |-> FALSE]]
    /\ receipts = [e \in Effects |-> [intent |-> FALSE, result |-> NoReceipt, request |-> 0]]

-----------------------------------------------------------------------------

Mandatory == {r \in Repos : repo[r].mandatory}
Landed == {r \in Repos : repo[r].status \in {"MERGED", "ARTIFACT_READY"}}
\* Merged, and not recorded as reverted.
Unresolved == {r \in Repos :
    repo[r].status \in {"MERGED", "ARTIFACT_READY", "REVERT_OPEN", "ROLLBACK_FAILED"}}
Reverted == {r \in Repos : repo[r].status = "REVERTED"}

Setbacks == {"BLOCKED", "FAILED", "MANUAL_DECISION_REQUIRED", "PARTIAL_MERGE", "ROLLBACK_FAILED"}

\* ProductChangeSet.transition accepts the move.
MayMove(target, kind) ==
    /\ IF product.status \in Waiting
       THEN target = product.resume
       ELSE <<product.status, target>> \in Edges
    /\ target # "ROLLING_BACK" => (Passed(kind) <=> target \notin Setbacks)
    /\ target = "EXECUTING" => product.approved \/ kind = "approval"
    /\ target = "FAILED" => Unresolved \cup Reverted = {}
    /\ target = "PARTIAL_MERGE" => Unresolved \cup Reverted # {}
    /\ target = "ROLLED_BACK" => Unresolved = {} /\ Reverted # {}
    /\ target = "MERGED" => Mandatory # {} /\ Mandatory \subseteq Landed
    /\ target = "DONE" => /\ kind = "stage_acceptance"
                          /\ Mandatory # {}
                          /\ \A r \in Mandatory : repo[r].status = "ARTIFACT_READY"

\* Fault: the approval that comes with the evidence is not kept.
MoveForgettingApproval(version, target, kind) ==
    /\ product.ver = version /\ MayMove(target, kind)
    /\ product' = [product EXCEPT !.status = target, !.ver = @ + 1,
                      !.resume = IF target \in Waiting THEN product.status ELSE NoStatus]
    /\ UNCHANGED <<repo, receipts>>

\* ProductChangeSetStore.transition, when it returns.
Move(version, target, kind) ==
    /\ product.ver = version /\ MayMove(target, kind)
    /\ product' = [status |-> target, ver |-> product.ver + 1,
                   resume |-> IF target \in Waiting THEN product.status ELSE NoStatus,
                   approved |-> product.approved \/ target = "EXECUTING"]
    /\ UNCHANGED <<repo, receipts>>

\* Fault: a repository may be recorded as merged in any phase of the product.
PhasesOfMergeUnchecked(target) ==
    CASE target = "NOT_IMPACTED" -> {"DRAFT", "PLANNED"}
      [] target \in {"REVERT_OPEN", "REVERTED", "ROLLBACK_FAILED"} -> {"ROLLING_BACK", "ROLLBACK_FAILED"}
      [] target \in {"MERGED", "ARTIFACT_READY"} -> Statuses
      [] OTHER -> {"EXECUTING", "VERIFYING_REPOS", "VERIFYING_INTEGRATION", "READY_TO_MERGE", "MERGING"}

\* The product phases in which the store lets a repository move to target.
Phases(target) ==
    CASE target = "NOT_IMPACTED" -> {"DRAFT", "PLANNED"}
      [] target \in {"REVERT_OPEN", "REVERTED", "ROLLBACK_FAILED"} -> {"ROLLING_BACK", "ROLLBACK_FAILED"}
      [] target \in {"MERGED", "ARTIFACT_READY"} ->
            {"MERGING", "MERGED", "DEPLOYING_STAGE", "ACCEPTING_STAGE"}
      [] OTHER -> {"EXECUTING", "VERIFYING_REPOS", "VERIFYING_INTEGRATION", "READY_TO_MERGE", "MERGING"}

\* RepoChange.transition accepts the move, in this phase of the product.
MayMoveRepo(r, target, kind) ==
    /\ product.status \in Phases(target)
    /\ \/ <<repo[r].status, target>> \in RepoEdges
       \/ repo[r].status = "BLOCKED" /\ target = repo[r].resume
    /\ Passed(kind) <=> target \notin Setbacks
    /\ target = "NOT_IMPACTED" => kind = "impact_graph"

\* Fault: the UPDATE does not add to the version.
MoveRepoKeepingVersion(r, version, target, kind, merge) ==
    /\ repo[r].ver = version /\ MayMoveRepo(r, target, kind)
    /\ repo' = [repo EXCEPT ![r] =
          [@ EXCEPT !.status = target, !.mandatory = @ /\ target # "NOT_IMPACTED",
                    !.resume = IF target = "BLOCKED" THEN repo[r].status ELSE NoStatus,
                    !.kind = kind, !.merge = merge]]
    /\ UNCHANGED <<product, receipts>>

\* ProductChangeSetStore.transition_repo, when it returns; merge: the evidence
\* holds the commit of the merge.
MoveRepo(r, version, target, kind, merge) ==
    /\ repo[r].ver = version /\ MayMoveRepo(r, target, kind)
    /\ repo' = [repo EXCEPT ![r] =
          [status |-> target, ver |-> @.ver + 1,
           mandatory |-> @.mandatory /\ target # "NOT_IMPACTED",
           resume |-> IF target = "BLOCKED" THEN @.status ELSE NoStatus,
           kind |-> kind, merge |-> merge]]
    /\ UNCHANGED <<product, receipts>>

\* record_effect of an intent: the first one to insert the row owns the effect.
Claimed(e) == receipts[e].intent
ClaimEffect(e) == receipts' = [receipts EXCEPT ![e].intent = TRUE]

\* record_effect of an outcome: ON CONFLICT DO NOTHING.
RecordEffect(e, result, request) ==
    IF receipts[e].result = NoReceipt
    THEN receipts' = [receipts EXCEPT ![e].result = result, ![e].request = request]
    ELSE UNCHANGED receipts

\* The store under callers of any kind: each of its methods, with any argument
\* (a caller of transition holds whatever version it once read).
StoreNext ==
    \/ \E version \in Nat, target \in Statuses, kind \in Kinds : Move(version, target, kind)
    \/ \E r \in Repos, version \in Nat, target \in RepoStatuses, kind \in Kinds, merge \in BOOLEAN :
          MoveRepo(r, version, target, kind, merge)
    \/ /\ \E e \in Effects :
             \/ ClaimEffect(e)
             \/ \E result \in Outcomes, request \in Nat : RecordEffect(e, result, request)
       /\ UNCHANGED <<product, repo>>

StoreSpec == StoreInit /\ [][StoreNext]_storeVars

-----------------------------------------------------------------------------

\* What the record says of its end.  A change set that failed has nothing
\* merged, one that is rolled back has nothing merged that is not reverted, and
\* one that is merged, or beyond, has all its mandatory repositories merged; a
\* repository that moves later does not make any of it false.
RecordConsistent ==
    /\ product.status = "FAILED" => Unresolved \cup Reverted = {}
    /\ product.status = "ROLLED_BACK" => Unresolved = {} /\ Reverted # {}
    /\ product.status \in {"MERGED", "DEPLOYING_STAGE", "ACCEPTING_STAGE", "DONE"} =>
          Mandatory # {} /\ Mandatory \subseteq Landed
    /\ product.status = "DONE" => \A r \in Mandatory : repo[r].status = "ARTIFACT_READY"

\* What a reader may rely on after it has read.  A row at the version that was
\* read is the row that was read; an end stays; a repository that was left out
\* of the change is never taken in again; an intent is not withdrawn and an
\* outcome not overwritten.
RecordStays ==
    /\ product'.ver >= product.ver /\ (product'.ver = product.ver => product' = product)
    /\ product.status \in {"DONE", "FAILED", "ROLLED_BACK"} => product' = product
    /\ product.approved => product'.approved
    /\ \A r \in Repos :
          /\ repo'[r].ver >= repo[r].ver /\ (repo'[r].ver = repo[r].ver => repo'[r] = repo[r])
          /\ repo[r].status \in {"FAILED", "NOT_IMPACTED", "REVERTED"} => repo'[r] = repo[r]
          /\ repo'[r].mandatory => repo[r].mandatory
    /\ \A e \in Effects :
          /\ receipts[e].intent => receipts'[e].intent
          /\ receipts[e].result # NoReceipt =>
                /\ receipts'[e].result = receipts[e].result
                /\ receipts'[e].request = receipts[e].request
RecordKept == [][RecordStays]_storeVars
=============================================================================
