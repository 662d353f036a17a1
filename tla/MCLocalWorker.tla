--------------------------- MODULE MCLocalWorker ---------------------------
(* Small instances of LocalWorker for TLC. *)
EXTENDS LocalWorker, TLC

CONSTANTS t1, t2, w1, w2

AllEligible == [w \in Workers |-> Tasks]
\* Nobody carries the tags of t2.
OnlyFirst == [w \in Workers |-> {t1}]
NoDeps == [t \in Tasks |-> {}]

\* The checkpoint of a task names no stage, or the stage qa.
AnyStage == [t \in Tasks |-> ""]
QaStage == [t \in Tasks |-> "qa"]

\* t2 is the repair task of t1.
NoRepair == [t \in Tasks |-> NoTask]
OneRepair == [t \in Tasks |-> IF t = t1 THEN t2 ELSE NoTask]

\* The worker loops, the reviewers and the soft reset: what decides about a
\* review.  The sweeps, crashes, pauses, shutdowns and edits are in the runs of LocalSpec.
ReviewNext ==
    \/ \E w \in Workers : LoopStep(w) \/ RunEnds(w) \/ VerifyEnds(w) \/ Boot(w)
    \/ /\ \/ \E t \in Tasks, d \in Decisions, s \in Stages : RecordReview(t, d, s)
          \/ \E cut \in Cuts : ResetKeepTasks(cut)
       /\ UNCHANGED localVars

ReviewSpec == LocalInit /\ [][ReviewNext]_vars

\* Everything but the archiving of the plan, which matters to edits only, and
\* the revocation of a bearer, which frees the claims of a worker as the
\* offline sweep does.
FenceNext ==
    \/ \E w \in Workers : ProcessStep(w)
    \/ /\ Background \/ OperatorStep
       /\ plan'.archived = plan.archived
       /\ \A w \in Workers : worker'[w].token = worker[w].token
       /\ UNCHANGED localVars

FenceSpec == LocalInit /\ [][FenceNext]_vars

WorkerSymmetry == Permutations(Workers)
=============================================================================
