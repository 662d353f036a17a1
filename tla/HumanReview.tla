---------------------------- MODULE HumanReview ----------------------------
(***************************************************************************)
(* The worker's side of a human-review checkpoint (whilly/pipeline/        *)
(* human_review.py), shared by the local and the remote worker: before a   *)
(* task is completed, its human_review.* events must end in an approval.   *)
(* The queue's side of it is ReviewHeld of TaskQueue.                      *)
(***************************************************************************)
EXTENDS TaskQueue

CONSTANTS ReviewTasks,  \* tasks with a human-review checkpoint
          StageOf       \* StageOf[t]: stage_id of that checkpoint, "" if none

ASSUME ReviewAssumption ==
    /\ ReviewTasks \subseteq Tasks
    /\ StageOf \in [Tasks -> Stages]

AnyDecisionApproves(t) == \E i \in DOMAIN review[t] : review[t][i].type \in Decisions  \* fault

\* The last decision that matches the checkpoint approves it; a checkpoint
\* without a stage matches the decisions of every stage.
HumanReviewApproved(t) ==
    LET matching == {i \in DOMAIN review[t] :
                        /\ review[t][i].type \in Decisions
                        /\ StageOf[t] = "" \/ review[t][i].stage = StageOf[t]}
    IN  \E i \in matching : (\A j \in matching : j <= i) /\ review[t][i].type = "approved"

\* A task with a review checkpoint is DONE only if somebody approved it.
ReviewedBeforeDone ==
    \A t \in ReviewTasks : task[t].status = "DONE" =>
        \E i \in DOMAIN review[t] : review[t][i].type = "approved"
=============================================================================
