--------------------------- MODULE MCRemoteWorker ---------------------------
(* Small instances of RemoteWorker for TLC. *)
EXTENDS RemoteWorker, TLC

CONSTANTS t1, t2, r1, w2

AllEligible == [w \in Workers |-> Tasks]
\* Nobody carries the tags of t2.
OnlyFirst == [w \in Workers |-> {t1}]
NoDeps == [t \in Tasks |-> {}]
AnyStage == [t \in Tasks |-> ""]

\* t2 is the repair task of t1.
OneRepair == [t \in Tasks |-> IF t = t1 THEN t2 ELSE NoTask]
NoRepair == [t \in Tasks |-> NoTask]

\* What happens to the claims behind the worker's back.  Heartbeats that age,
\* which free claims like the visibility sweep, and the operator's edits, resets
\* and decisions are left to the runs of TaskQueue and LocalWorker.
Disturbance ==
    \/ ReleaseStaleSnapshot \/ ReleaseStaleApply
    \/ \E t \in Tasks : ClaimAges(t)
    \/ PauseWorkers \/ ResumeWorkers
    \/ \E w \in RemoteWorkers : RevokeWorkerBearer(w)

RemoteStep == (\E w \in RemoteWorkers : ProcessStep(w)) \/ LateArrives

\* t1 is approved before any worker runs, so that the loop completes it, or
\* never, so that the loop holds it.
Approve ==
    /\ \A w \in Workers : worker[w].status = "absent"
    /\ task = [t \in Tasks |-> IF t \in InitialTasks THEN NewRow ELSE NoRow]
    /\ RecordReview(t1, "approved", "")
    /\ UNCHANGED remoteVars

Approved == \E i \in DOMAIN review[t1] : review[t1][i].type = "approved"

\* With the approval: the remote worker alone, and a URL that stays.
ApprovedNext ==
    /\ RemoteStep \/ (Disturbance /\ UNCHANGED remoteVars)
    /\ rotated' = rotated

\* Without it: with a local worker, skips and rotations.
UnapprovedNext ==
    \/ RemoteStep
    \/ (\E w \in Workers \ RemoteWorkers : PeerStep(w)) /\ UNCHANGED remoteVars
    \/ (Disturbance \/ \E t \in Tasks : SkipTask(t, task[t].version)) /\ UNCHANGED remoteVars

\* (A human_review.required event decides nothing here and is not recorded.)
TransportNext ==
    /\ IF Approved THEN ApprovedNext ELSE UnapprovedNext \/ Approve
    /\ \A i \in DOMAIN review'[t1] : review'[t1][i].type # "required"

TransportSpec == RemoteInit /\ [][TransportNext]_vars
=============================================================================
