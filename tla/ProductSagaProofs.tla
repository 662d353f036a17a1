------------------------- MODULE ProductSagaProofs -------------------------
(***************************************************************************)
(* Theorems about ProductSaga for every value of its constants: any number *)
(* of repositories and coordinators, any dependencies, and any schedule of *)
(* kills, lost answers, foreign commits and retries.                       *)
(***************************************************************************)
EXTENDS ProductSaga, TLAPS

-----------------------------------------------------------------------------
(* The states and edges, spelled out.                                      *)

LEMMA Phrases ==
    /\ Pre = {"DRAFT", "PLANNED", "EXECUTING", "VERIFYING_REPOS", "VERIFYING_INTEGRATION",
              "READY_TO_MERGE"}
    /\ RepoPre = {"PLANNED", "WORKTREE_READY", "IMPLEMENTING", "LOCAL_VERIFIED", "MR_OPEN",
                  "PIPELINE_GREEN", "READY_TO_MERGE"}
    /\ Statuses = {"DRAFT", "PLANNED", "EXECUTING", "VERIFYING_REPOS", "VERIFYING_INTEGRATION",
                   "READY_TO_MERGE", "MERGING", "MERGED", "DEPLOYING_STAGE", "ACCEPTING_STAGE",
                   "DONE", "BLOCKED", "MANUAL_DECISION_REQUIRED", "FAILED", "PARTIAL_MERGE",
                   "ROLLING_BACK", "ROLLED_BACK", "ROLLBACK_FAILED"}
    /\ RepoStatuses = {"PLANNED", "WORKTREE_READY", "IMPLEMENTING", "LOCAL_VERIFIED", "MR_OPEN",
                       "PIPELINE_GREEN", "READY_TO_MERGE", "MERGED", "ARTIFACT_READY",
                       "NOT_IMPACTED", "BLOCKED", "FAILED", "REVERT_OPEN", "REVERTED",
                       "ROLLBACK_FAILED"}
PROOF
<1>1. \A i \in 1..6 : i \in {1, 2, 3, 4, 5, 6}
  OBVIOUS
<1>2. \A i \in 1..7 : i \in {1, 2, 3, 4, 5, 6, 7}
  OBVIOUS
<1>3. \A i \in 1..9 : i \in {1, 2, 3, 4, 5, 6, 7, 8, 9}
  OBVIOUS
<1>4. \A i \in 1..11 : i \in {1, 2, 3, 4, 5, 6, 7, 8, 9, 10, 11}
  OBVIOUS
<1>5. /\ Forward[1] = "DRAFT" /\ Forward[2] = "PLANNED" /\ Forward[3] = "EXECUTING"
      /\ Forward[4] = "VERIFYING_REPOS" /\ Forward[5] = "VERIFYING_INTEGRATION"
      /\ Forward[6] = "READY_TO_MERGE" /\ Forward[7] = "MERGING" /\ Forward[8] = "MERGED"
      /\ Forward[9] = "DEPLOYING_STAGE" /\ Forward[10] = "ACCEPTING_STAGE" /\ Forward[11] = "DONE"
  BY DEF Forward
<1>6. /\ RepoForward[1] = "PLANNED" /\ RepoForward[2] = "WORKTREE_READY"
      /\ RepoForward[3] = "IMPLEMENTING" /\ RepoForward[4] = "LOCAL_VERIFIED"
      /\ RepoForward[5] = "MR_OPEN" /\ RepoForward[6] = "PIPELINE_GREEN"
      /\ RepoForward[7] = "READY_TO_MERGE" /\ RepoForward[8] = "MERGED"
      /\ RepoForward[9] = "ARTIFACT_READY"
  BY DEF RepoForward
<1>7. /\ {Forward[i] : i \in 1..6} = {Forward[1], Forward[2], Forward[3], Forward[4], Forward[5], Forward[6]}
      /\ {Forward[i] : i \in 1..11} =
            {Forward[1], Forward[2], Forward[3], Forward[4], Forward[5], Forward[6], Forward[7],
             Forward[8], Forward[9], Forward[10], Forward[11]}
  BY <1>1, <1>4
<1>8. /\ {RepoForward[i] : i \in 1..7} =
            {RepoForward[1], RepoForward[2], RepoForward[3], RepoForward[4], RepoForward[5],
             RepoForward[6], RepoForward[7]}
      /\ {RepoForward[i] : i \in 1..9} =
            {RepoForward[1], RepoForward[2], RepoForward[3], RepoForward[4], RepoForward[5],
             RepoForward[6], RepoForward[7], RepoForward[8], RepoForward[9]}
  BY <1>2, <1>3
<1>9. Pre = {"DRAFT", "PLANNED", "EXECUTING", "VERIFYING_REPOS", "VERIFYING_INTEGRATION",
             "READY_TO_MERGE"}
  BY <1>5, <1>7 DEF Pre
<1>10. RepoPre = {"PLANNED", "WORKTREE_READY", "IMPLEMENTING", "LOCAL_VERIFIED", "MR_OPEN",
                  "PIPELINE_GREEN", "READY_TO_MERGE"}
  BY <1>6, <1>8 DEF RepoPre
<1>11. Statuses = {"DRAFT", "PLANNED", "EXECUTING", "VERIFYING_REPOS", "VERIFYING_INTEGRATION",
                   "READY_TO_MERGE", "MERGING", "MERGED", "DEPLOYING_STAGE", "ACCEPTING_STAGE",
                   "DONE", "BLOCKED", "MANUAL_DECISION_REQUIRED", "FAILED", "PARTIAL_MERGE",
                   "ROLLING_BACK", "ROLLED_BACK", "ROLLBACK_FAILED"}
  BY <1>5, <1>7 DEF Statuses, Waiting
<1>12. RepoStatuses = {"PLANNED", "WORKTREE_READY", "IMPLEMENTING", "LOCAL_VERIFIED", "MR_OPEN",
                       "PIPELINE_GREEN", "READY_TO_MERGE", "MERGED", "ARTIFACT_READY",
                       "NOT_IMPACTED", "BLOCKED", "FAILED", "REVERT_OPEN", "REVERTED",
                       "ROLLBACK_FAILED"}
  BY <1>6, <1>8 DEF RepoStatuses
<1> QED BY <1>9, <1>10, <1>11, <1>12

LEMMA ForwardEdges ==
    ASSUME NEW s, NEW t, <<s, t>> \in Edges
    PROVE  \/ s \in Pre /\ t \in Pre \cup {"MERGING"} \cup Waiting \cup {"FAILED"}
           \/ s = "MERGING" /\ t \in {"MERGED", "FAILED", "PARTIAL_MERGE"}
           \/ s = "MERGED" /\ t \in {"DEPLOYING_STAGE", "ROLLING_BACK"}
           \/ s = "DEPLOYING_STAGE" /\ t \in {"ACCEPTING_STAGE", "ROLLING_BACK"}
           \/ s = "ACCEPTING_STAGE" /\ t \in {"DONE", "ROLLING_BACK"}
           \/ s \in {"PARTIAL_MERGE", "ROLLBACK_FAILED"} /\ t = "ROLLING_BACK"
           \/ s = "ROLLING_BACK" /\ t \in {"ROLLED_BACK", "ROLLBACK_FAILED"}
PROOF
<1>1. /\ Forward[1] = "DRAFT" /\ Forward[2] = "PLANNED" /\ Forward[3] = "EXECUTING"
      /\ Forward[4] = "VERIFYING_REPOS" /\ Forward[5] = "VERIFYING_INTEGRATION"
      /\ Forward[6] = "READY_TO_MERGE" /\ Forward[7] = "MERGING" /\ Forward[8] = "MERGED"
      /\ Forward[9] = "DEPLOYING_STAGE" /\ Forward[10] = "ACCEPTING_STAGE" /\ Forward[11] = "DONE"
  BY DEF Forward
<1>2. CASE <<s, t>> \in {<<Forward[i], Forward[i + 1]>> : i \in 1..10}
  <2>1. PICK i \in 1..10 : s = Forward[i] /\ t = Forward[i + 1]
    BY <1>2
  <2>2. i \in {1, 2, 3, 4, 5, 6, 7, 8, 9, 10}
    OBVIOUS
  <2>3. i + 1 \in {2, 3, 4, 5, 6, 7, 8, 9, 10, 11}
    OBVIOUS
  <2>4. CASE i \in {1, 2, 3, 4, 5, 6}
    BY <2>1, <2>4, <1>1, Phrases
  <2>5. CASE i \in {7, 8, 9, 10}
    BY <2>1, <2>5, <1>1, Phrases
  <2> QED BY <2>2, <2>4, <2>5
<1>3. CASE ~(<<s, t>> \in {<<Forward[i], Forward[i + 1]>> : i \in 1..10})
  BY <1>3 DEF Edges
<1> QED BY <1>2, <1>3

LEMMA PlannedEdges ==
    ASSUME NEW s, NEW t, <<s, t>> \in Edges, s \in {"DRAFT", "PLANNED"}
    PROVE  t \in {"PLANNED", "EXECUTING", "FAILED"} \cup Waiting
PROOF
<1>1. /\ Forward[1] = "DRAFT" /\ Forward[2] = "PLANNED" /\ Forward[3] = "EXECUTING"
      /\ Forward[4] = "VERIFYING_REPOS" /\ Forward[5] = "VERIFYING_INTEGRATION"
      /\ Forward[6] = "READY_TO_MERGE" /\ Forward[7] = "MERGING" /\ Forward[8] = "MERGED"
      /\ Forward[9] = "DEPLOYING_STAGE" /\ Forward[10] = "ACCEPTING_STAGE" /\ Forward[11] = "DONE"
  BY DEF Forward
<1>2. CASE <<s, t>> \in {<<Forward[i], Forward[i + 1]>> : i \in 1..10}
  <2>1. PICK i \in 1..10 : s = Forward[i] /\ t = Forward[i + 1]
    BY <1>2
  <2>2. i \in {1, 2, 3, 4, 5, 6, 7, 8, 9, 10}
    OBVIOUS
  <2>3. i \in {1, 2}
    BY <1>1, <2>1, <2>2
  <2> QED BY <1>1, <2>1, <2>3
<1>3. CASE ~(<<s, t>> \in {<<Forward[i], Forward[i + 1]>> : i \in 1..10})
  BY <1>3 DEF Edges
<1> QED BY <1>2, <1>3

LEMMA RepoEdgeCases ==
    ASSUME NEW s, NEW t, <<s, t>> \in RepoEdges
    PROVE  \/ /\ s \in RepoPre /\ t \in RepoPre \cup {"MERGED", "BLOCKED", "FAILED", "NOT_IMPACTED"}
              /\ t = "MERGED" => s = "READY_TO_MERGE"
           \/ s = "MERGED" /\ t \in {"ARTIFACT_READY", "REVERT_OPEN"}
           \/ s \in {"ARTIFACT_READY", "ROLLBACK_FAILED"} /\ t = "REVERT_OPEN"
           \/ s = "REVERT_OPEN" /\ t \in {"REVERTED", "ROLLBACK_FAILED"}
PROOF
<1>1. /\ RepoForward[1] = "PLANNED" /\ RepoForward[2] = "WORKTREE_READY"
      /\ RepoForward[3] = "IMPLEMENTING" /\ RepoForward[4] = "LOCAL_VERIFIED"
      /\ RepoForward[5] = "MR_OPEN" /\ RepoForward[6] = "PIPELINE_GREEN"
      /\ RepoForward[7] = "READY_TO_MERGE" /\ RepoForward[8] = "MERGED"
      /\ RepoForward[9] = "ARTIFACT_READY"
  BY DEF RepoForward
<1>2. CASE <<s, t>> \in {<<RepoForward[i], RepoForward[i + 1]>> : i \in 1..8}
  <2>1. PICK i \in 1..8 : s = RepoForward[i] /\ t = RepoForward[i + 1]
    BY <1>2
  <2>2. i \in {1, 2, 3, 4, 5, 6, 7, 8}
    OBVIOUS
  <2>3. CASE i \in {1, 2, 3, 4, 5, 6}
    BY <2>1, <2>3, <1>1, Phrases
  <2>4. CASE i \in {7, 8}
    BY <2>1, <2>4, <1>1, Phrases
  <2> QED BY <2>2, <2>3, <2>4
<1>3. CASE ~(<<s, t>> \in {<<RepoForward[i], RepoForward[i + 1]>> : i \in 1..8})
  BY <1>3, Phrases DEF RepoEdges
<1> QED BY <1>2, <1>3

-----------------------------------------------------------------------------
(* Types: the jobs.                                                        *)

\* The points at which a call works on one repository.
RepoPoints == {"pipeline", "mr_write", "green_write", "ready_write", "target", "merge_write",
               "revert_open", "bind", "revert_write", "revert_failed", "failed_write",
               "artifact", "artifact_write"}
PlainPoints == Points \ (EffectPoints \cup RepoPoints)

Sound(j) ==
    /\ j \in Jobs
    /\ j.at \in EffectPoints => <<j.act, j.cur>> \in Effects
    /\ j.at \in RepoPoints => j.cur \in Repos

JobsOK ==
    /\ job \in [Coordinators -> Jobs]
    /\ \A c \in Coordinators : Sound(job[c])

LEMMA JobChange ==
    ASSUME JobsOK, NEW c \in Coordinators, NEW j, Sound(j), job' = [job EXCEPT ![c] = j]
    PROVE  JobsOK'
PROOF
<1>1. j \in Jobs
  BY DEF Sound
<1>2. job' \in [Coordinators -> Jobs]
  BY <1>1 DEF JobsOK
<1>3. \A d \in Coordinators : job'[d] = IF d = c THEN j ELSE job[d]
  BY DEF JobsOK
<1>4. \A d \in Coordinators : Sound(job'[d])
  BY <1>3 DEF JobsOK
<1> QED BY <1>2, <1>4 DEF JobsOK, Sound

LEMMA EffectCur ==
    ASSUME NEW act, NEW r, <<act, r>> \in Effects
    PROVE  /\ act \in Acts \cup {"deliver_prod", "none"} /\ r \in Repos \cup {Product}
           /\ act # "deliver_prod" => act \in Acts /\ r \in Repos
BY DEF Effects, Acts

LEMMA EffectOf ==
    ASSUME NEW act \in Acts, NEW r \in Repos
    PROVE  <<act, r>> \in Effects
BY DEF Effects

LEMMA EndSound ==
    ASSUME JobsOK, NEW c \in Coordinators, End(c)
    PROVE  JobsOK'
PROOF
<1>1. Sound(Idle)
  BY DEF Sound, Idle, Jobs, Points, EffectPoints, RepoPoints
<1> QED BY <1>1, JobChange DEF End

LEMMA FreshSound ==
    ASSUME NEW point \in PlainPoints, NEW todo \in SUBSET Repos, NEW saw \in BOOLEAN
    PROVE  Sound([Fresh(point, todo) EXCEPT !.saw = saw])
BY DEF Sound, Fresh, Idle, Jobs, PlainPoints

LEMMA BeginSound ==
    ASSUME JobsOK, NEW c \in Coordinators, NEW point \in PlainPoints, NEW todo \in SUBSET Repos,
           Begin(c, point, todo)
    PROVE  JobsOK'
PROOF
<1>1. Sound(Fresh(point, todo))
  BY DEF Sound, Fresh, Idle, Jobs, PlainPoints
<1> QED BY <1>1, JobChange DEF Begin

LEMMA GotoSound ==
    ASSUME JobsOK, NEW c \in Coordinators, NEW point \in Points, Goto(c, point),
           point \in EffectPoints => <<job[c].act, job[c].cur>> \in Effects,
           point \in RepoPoints => job[c].cur \in Repos
    PROVE  JobsOK'
PROOF
<1> DEFINE j == [job[c] EXCEPT !.at = point]
<1>1. job[c] \in Jobs
  BY DEF JobsOK
<1>2. Sound(j)
  BY <1>1 DEF Sound, Jobs
<1>3. job' = [job EXCEPT ![c] = j]
  BY <1>1 DEF Goto, JobsOK
<1> QED BY <1>2, <1>3, JobChange

LEMMA ProceedSound ==
    ASSUME JobsOK, NEW c \in Coordinators, NEW point \in PlainPoints, Proceed(c, point)
    PROVE  JobsOK'
PROOF
<1> DEFINE j == [job[c] EXCEPT !.at = point, !.todo = @ \ {job[c].cur},
                               !.cur = Product, !.ver = 0, !.act = "none", !.result = NoReceipt]
<1>1. job[c] \in Jobs
  BY DEF JobsOK
<1>2. Sound(j)
  BY <1>1 DEF Sound, Jobs, PlainPoints
<1>3. job' = [job EXCEPT ![c] = j]
  BY DEF Proceed
<1> QED BY <1>2, <1>3, JobChange

LEMMA ReadProductSound ==
    ASSUME JobsOK, NEW c \in Coordinators, NEW point \in PlainPoints, product.ver \in Nat,
           ReadProduct(c, point)
    PROVE  JobsOK'
PROOF
<1> DEFINE j == [job[c] EXCEPT !.at = point, !.ver = product.ver]
<1>1. job[c] \in Jobs
  BY DEF JobsOK
<1>2. Sound(j)
  BY <1>1 DEF Sound, Jobs, PlainPoints
<1>3. job' = [job EXCEPT ![c] = j]
  BY DEF ReadProduct
<1> QED BY <1>2, <1>3, JobChange

LEMMA ReadRepoSound ==
    ASSUME JobsOK, NEW c \in Coordinators, NEW r \in Repos, NEW point \in RepoPoints,
           NEW saw \in BOOLEAN, repo[r].ver \in Nat, ReadRepo(c, r, point, saw)
    PROVE  JobsOK'
PROOF
<1> DEFINE j == [job[c] EXCEPT !.at = point, !.cur = r, !.ver = repo[r].ver, !.saw = saw]
<1>1. job[c] \in Jobs
  BY DEF JobsOK
<1>2. point \in Points /\ point \notin EffectPoints
  BY DEF Points, RepoPoints, EffectPoints
<1>3. Sound(j)
  BY <1>1, <1>2 DEF Sound, Jobs
<1>4. job' = [job EXCEPT ![c] = j]
  BY DEF ReadRepo
<1> QED BY <1>3, <1>4, JobChange

LEMMA AttemptSound ==
    ASSUME JobsOK, NEW c \in Coordinators, NEW r, NEW act, <<act, r>> \in Effects, Attempt(c, r, act)
    PROVE  JobsOK'
PROOF
<1> DEFINE j == [job[c] EXCEPT !.at = "look", !.cur = r, !.act = act]
<1>1. job[c] \in Jobs
  BY DEF JobsOK
<1>2. "look" \in EffectPoints /\ "look" \in Points /\ "look" \notin RepoPoints
  BY DEF EffectPoints, Points, RepoPoints
<1>3. act \in Acts \cup {"deliver_prod", "none"} /\ r \in Repos \cup {Product}
  BY EffectCur
<1>4. Sound(j)
  BY <1>1, <1>2, <1>3 DEF Sound, Jobs
<1>5. job' = [job EXCEPT ![c] = j]
  BY DEF Attempt
<1> QED BY <1>4, <1>5, JobChange

LEMMA LeaveSound ==
    ASSUME JobsOK, NEW c \in Coordinators, NEW point \in RepoPoints, NEW saw \in BOOLEAN,
           job[c].cur \in Repos, Leave(c, point, saw)
    PROVE  JobsOK'
PROOF
<1> DEFINE j == [job[c] EXCEPT !.at = point, !.saw = saw, !.act = "none", !.result = NoReceipt]
<1>1. job[c] \in Jobs
  BY DEF JobsOK
<1>2. point \in Points /\ point \notin EffectPoints
  BY DEF Points, RepoPoints, EffectPoints
<1>3. Sound(j)
  BY <1>1, <1>2 DEF Sound, Jobs
<1>4. job' = [job EXCEPT ![c] = j]
  BY DEF Leave
<1> QED BY <1>3, <1>4, JobChange

LEMMA AbandonSound ==
    ASSUME JobsOK, NEW c \in Coordinators, NEW point \in PlainPoints, Abandon(c, point)
    PROVE  JobsOK'
PROOF
<1> DEFINE j == [Idle EXCEPT !.at = point, !.saw = job[c].saw]
<1>1. job[c] \in Jobs
  BY DEF JobsOK
<1>2. Sound(j)
  BY <1>1 DEF Sound, Jobs, PlainPoints, Idle
<1>3. job' = [job EXCEPT ![c] = j]
  BY DEF Abandon
<1> QED BY <1>2, <1>3, JobChange

LEMMA SkipSound ==
    ASSUME JobsOK, NEW c \in Coordinators, NEW r \in Repos, NEW saw \in BOOLEAN, Skip(c, r, saw)
    PROVE  JobsOK'
PROOF
<1> DEFINE j == [job[c] EXCEPT !.todo = job[c].todo \ {r}, !.saw = saw]
<1>1. job[c] \in Jobs /\ Sound(job[c])
  BY DEF JobsOK
<1>2. Sound(j)
  BY <1>1 DEF Sound, Jobs
<1>3. job' = [job EXCEPT ![c] = j]
  BY DEF Skip
<1> QED BY <1>2, <1>3, JobChange

LEMMA OnwardSound ==
    ASSUME JobsOK, NEW c \in Coordinators, NEW point \in RepoPoints, job[c].cur \in Repos,
           Onward(c, point)
    PROVE  JobsOK'
PROOF
<1> DEFINE j == [job[c] EXCEPT !.at = point, !.ver = job[c].ver + 1]
<1>1. job[c] \in Jobs
  BY DEF JobsOK
<1>2. point \in Points /\ point \notin EffectPoints
  BY DEF Points, RepoPoints, EffectPoints
<1>0. job[c].ver + 1 \in Nat
  BY <1>1 DEF Jobs
<1>3. Sound(j)
  <2>1. j \in Jobs
    BY <1>0, <1>1, <1>2 DEF Jobs
  <2>2. j.at = point /\ j.cur = job[c].cur
    BY <1>1 DEF Jobs
  <2> QED BY <1>2, <2>1, <2>2 DEF Sound
<1>4. job' = [job EXCEPT ![c] = j]
  BY DEF Onward
<1> QED BY <1>3, <1>4, JobChange

LEMMA ReturnsSound ==
    ASSUME JobsOK, NEW c \in Coordinators, job[c].at \in EffectPoints, NEW result, Returns(c, result)
    PROVE  JobsOK'
PROOF
<1>1. job[c] \in Jobs /\ <<job[c].act, job[c].cur>> \in Effects /\ job[c].saw \in BOOLEAN
  BY DEF JobsOK, Sound, Jobs
<1>2. job[c].act \in Acts => job[c].cur \in Repos
  BY <1>1, EffectCur DEF Acts
<1>3. CASE job[c].act = "push"
  <2> DEFINE j == [job[c] EXCEPT !.at = "look", !.act = "mr_open", !.result = NoReceipt]
  <2>1. "look" \in EffectPoints /\ "look" \in Points /\ "look" \notin RepoPoints
    BY DEF EffectPoints, Points, RepoPoints
  <2>2. "mr_open" \in Acts /\ job[c].cur \in Repos
    BY <1>2, <1>3 DEF Acts
  <2>3. <<"mr_open", job[c].cur>> \in Effects
    BY <2>2, EffectOf
  <2>4. Sound(j)
    BY <1>1, <2>1, <2>2, <2>3 DEF Sound, Jobs
  <2>5. job' = [job EXCEPT ![c] = j]
    BY <1>3 DEF Returns
  <2> QED BY <2>4, <2>5, JobChange
<1>4. CASE job[c].act \in {"mr_open", "merge", "revert"}
  <2>1. job[c].cur \in Repos
    BY <1>2, <1>4 DEF Acts
  <2>2. \E point \in RepoPoints, saw \in BOOLEAN : Leave(c, point, saw)
    BY <1>1, <1>4 DEF Returns, RepoPoints
  <2> QED BY <2>1, <2>2, LeaveSound
<1>5. CASE job[c].act \in {"deliver_stage", "accept_stage"}
  <2>1. job[c].cur \in Repos
    BY <1>2, <1>5 DEF Acts
  <2>2. "roll" \in PlainPoints /\ "accept" \in PlainPoints /\ "artifact" \in RepoPoints
    BY DEF PlainPoints, RepoPoints, Points, EffectPoints
  <2>3. \/ Abandon(c, "roll")
        \/ Leave(c, "artifact", FALSE)
        \/ Proceed(c, "accept")
    BY <1>5 DEF Returns
  <2> QED BY <2>1, <2>2, <2>3, LeaveSound, AbandonSound, ProceedSound
<1>6. CASE job[c].act \in {"deliver_prod", "none"}
  BY <1>6, EndSound DEF Returns
<1>7. job[c].act \in {"push", "mr_open", "merge", "revert", "deliver_stage", "accept_stage",
                      "deliver_prod", "none"}
  BY <1>1 DEF Jobs, Acts
<1> QED BY <1>3, <1>4, <1>5, <1>6, <1>7

LEMMA RaisesSound ==
    ASSUME JobsOK, NEW c \in Coordinators, job[c].at \in EffectPoints, Raises(c)
    PROVE  JobsOK'
PROOF
<1>1. job[c] \in Jobs /\ <<job[c].act, job[c].cur>> \in Effects /\ job[c].saw \in BOOLEAN
  BY DEF JobsOK, Sound, Jobs
<1>2. job[c].act = "revert" => job[c].cur \in Repos
  BY <1>1, EffectCur DEF Acts
<1>3. "roll" \in PlainPoints /\ "broken" \in PlainPoints /\ "revert_failed" \in RepoPoints
  BY DEF PlainPoints, RepoPoints, Points, EffectPoints
<1>4. \/ Abandon(c, "broken")
      \/ job[c].act = "revert" /\ Leave(c, "revert_failed", job[c].saw)
      \/ Abandon(c, "roll")
      \/ End(c)
  BY DEF Raises
<1> QED BY <1>1, <1>2, <1>3, <1>4, LeaveSound, AbandonSound, EndSound

-----------------------------------------------------------------------------
(* Types: the store.                                                       *)

LEMMA MoveTyped ==
    ASSUME StoreTypeOK, NEW version, NEW target \in Statuses, NEW kind, Move(version, target, kind)
    PROVE  StoreTypeOK'
PROOF
<1>1. product \in Rows
  BY DEF StoreTypeOK
<1>2. (product.approved \/ target = "EXECUTING") \in BOOLEAN
  BY <1>1 DEF Rows
<1>3. product' \in Rows
  BY <1>1, <1>2 DEF Move, Rows
<1> QED BY <1>3 DEF Move, StoreTypeOK

LEMMA MoveRepoTyped ==
    ASSUME StoreTypeOK, NEW r \in Repos, NEW version, NEW target \in RepoStatuses, NEW kind \in Kinds,
           NEW merge \in BOOLEAN, MoveRepo(r, version, target, kind, merge)
    PROVE  StoreTypeOK'
PROOF
<1> DEFINE row == [status |-> target, ver |-> repo[r].ver + 1,
                   mandatory |-> repo[r].mandatory /\ target # "NOT_IMPACTED",
                   resume |-> IF target = "BLOCKED" THEN repo[r].status ELSE NoStatus,
                   kind |-> kind, merge |-> merge]
<1>1. repo[r] \in RepoRows
  BY DEF StoreTypeOK
<1>2. (repo[r].mandatory /\ target # "NOT_IMPACTED") \in BOOLEAN
  BY <1>1 DEF RepoRows
<1>3. row \in RepoRows
  BY <1>1, <1>2 DEF RepoRows
<1>4. repo' = [repo EXCEPT ![r] = row]
  BY DEF MoveRepo
<1> QED BY <1>3, <1>4 DEF MoveRepo, StoreTypeOK

\* A step moves the product along, or one repository, or neither.
StoreStep ==
    \/ \E target \in Statuses, kind \in Kinds : Move(product.ver, target, kind)
    \/ \E r \in Repos, target \in RepoStatuses, kind \in Kinds, merge \in BOOLEAN :
          MoveRepo(r, repo[r].ver, target, kind, merge)
    \/ UNCHANGED <<product, repo>>

-----------------------------------------------------------------------------
(* Types: the steps of a call keep the jobs in order.                      *)

LEMMA PlainSet ==
    {"idle", "ready", "start", "start_write", "merge", "merged_write", "broken", "broken_write",
     "undo", "undo_write", "revert", "stuck", "stuck_write", "undone_write",
     "stage_write", "deploy", "accepting", "accepting_write", "accept", "accept_write",
     "roll", "roll_write"} = PlainPoints
BY DEF PlainPoints, Points, EffectPoints, RepoPoints

LEMMA CurAt ==
    ASSUME JobsOK, NEW c \in Coordinators
    PROVE  /\ job[c] \in Jobs /\ job[c].todo \subseteq Repos
           /\ job[c].saw \in BOOLEAN /\ job[c].ver \in Nat
           /\ job[c].at \in EffectPoints => <<job[c].act, job[c].cur>> \in Effects
           /\ job[c].at \in RepoPoints => job[c].cur \in Repos
BY DEF JobsOK, Sound, Jobs

LEMMA VersTyped ==
    ASSUME StoreTypeOK
    PROVE  /\ product.ver \in Nat
           /\ \A r \in Repos : repo[r].ver \in Nat /\ repo[r].merge \in BOOLEAN
           /\ Mandatory \subseteq Repos
BY DEF StoreTypeOK, Rows, RepoRows, Mandatory

LEMMA EffectJobs ==
    ASSUME StoreTypeOK, JobsOK, NEW c \in Coordinators, EffectStep(c)
    PROVE  JobsOK'
PROOF
<1>1. CASE Look(c)
  <2>1. job[c].at \in EffectPoints /\ "guard" \in Points /\ "intend" \in Points
        /\ "guard" \notin RepoPoints /\ "intend" \notin RepoPoints
    BY <1>1 DEF Look, At, EffectPoints, Points, RepoPoints
  <2>2. \/ Goto(c, "guard") \/ Goto(c, "intend")
        \/ \E result : Returns(c, result)
        \/ Raises(c)
    BY <1>1 DEF Look
  <2> QED BY <2>1, <2>2, CurAt, GotoSound, ReturnsSound, RaisesSound
<1>2. CASE Intend(c)
  <2>1. job[c].at \in EffectPoints /\ "perform" \in Points /\ "perform" \notin RepoPoints
    BY <1>2 DEF Intend, At, EffectPoints, Points, RepoPoints
  <2>2. Raises(c) \/ Goto(c, "perform")
    BY <1>2 DEF Intend
  <2> QED BY <2>1, <2>2, CurAt, GotoSound, RaisesSound
<1>3. CASE Perform(c) \/ PerformFails(c)
  <2>1. PICK answer \in Outcomes :
          job' = [job EXCEPT ![c] = [@ EXCEPT !.at = "record", !.result = answer]]
    BY <1>3 DEF Perform, PerformFails, Outcomes
  <2> DEFINE j == [job[c] EXCEPT !.at = "record", !.result = answer]
  <2>2. "record" \in EffectPoints /\ "record" \in Points /\ "record" \notin RepoPoints
    BY DEF EffectPoints, Points, RepoPoints
  <2>3. job[c] \in Jobs /\ <<job[c].act, job[c].cur>> \in Effects
    BY <1>3, CurAt DEF Perform, PerformFails, At, EffectPoints
  <2>4. Sound(j)
    BY <2>2, <2>3 DEF Sound, Jobs
  <2>5. job' = [job EXCEPT ![c] = j]
    BY <2>1
  <2> QED BY <2>4, <2>5, JobChange
<1>4. CASE Record(c)
  <2>1. job[c].at \in EffectPoints
    BY <1>4 DEF Record, At, EffectPoints
  <2>2. Raises(c) \/ \E result : Returns(c, result)
    BY <1>4 DEF Record
  <2> QED BY <2>1, <2>2, ReturnsSound, RaisesSound
<1> QED BY <1>1, <1>2, <1>3, <1>4 DEF EffectStep

LEMMA PublishJobs ==
    ASSUME StoreTypeOK, JobsOK, NEW c \in Coordinators, PublishStep(c)
    PROVE  JobsOK'
PROOF
<1>1. CASE Guard(c)
  <2>1. /\ job[c].at \in EffectPoints
        /\ "intend" \in Points /\ "intend" \notin RepoPoints
    BY <1>1 DEF Guard, At, EffectPoints, Points, RepoPoints
  <2>2. Goto(c, "intend") \/ End(c)
    BY <1>1 DEF Guard
  <2> QED BY <2>1, <2>2, CurAt, GotoSound, EndSound
<1>2. CASE Pipeline(c)
  <2>1. /\ job[c].cur \in Repos
        /\ "mr_write" \in RepoPoints /\ "green_write" \in RepoPoints
    BY <1>2, CurAt DEF Pipeline, At, RepoPoints
  <2>2. \/ \E point \in RepoPoints, green \in BOOLEAN : ReadRepo(c, job[c].cur, point, green)
        \/ End(c)
    BY <1>2, <2>1 DEF Pipeline
  <2> QED BY <2>1, <2>2, VersTyped, ReadRepoSound, EndSound
<1>3. CASE MrWrite(c)
  <2>1. /\ job[c].cur \in Repos
        /\ "green_write" \in RepoPoints
    BY <1>3, CurAt DEF MrWrite, At, RepoPoints
  <2>2. Onward(c, "green_write") \/ End(c)
    BY <1>3 DEF MrWrite, WritesRepo
  <2> QED BY <2>1, <2>2, OnwardSound, EndSound
<1>4. CASE GreenWrite(c)
  BY <1>4, EndSound DEF GreenWrite, WritesRepo
<1> QED BY <1>1, <1>2, <1>3, <1>4 DEF PublishStep

LEMMA MergeJobs ==
    ASSUME StoreTypeOK, JobsOK, NEW c \in Coordinators, MergeStep(c)
    PROVE  JobsOK'
PROOF
<1> USE PlainSet
<1>1. CASE Ready(c)
  <2>1. \/ ReadProduct(c, "start_write")
        \/ \E r \in Repos : ReadRepo(c, r, "ready_write", FALSE) \/ Skip(c, r, job[c].saw)
        \/ End(c)
    BY <1>1, CurAt DEF Ready, Lowest
  <2>2. "ready_write" \in RepoPoints
    BY DEF RepoPoints
  <2>3. ASSUME NEW r \in Repos, ReadRepo(c, r, "ready_write", FALSE)
        PROVE  JobsOK'
    BY <2>2, <2>3, VersTyped, ReadRepoSound
  <2>4. ASSUME NEW r \in Repos, Skip(c, r, job[c].saw)
        PROVE  JobsOK'
    BY <2>4, CurAt, SkipSound
  <2>5. ReadProduct(c, "start_write") => JobsOK'
    BY VersTyped, ReadProductSound
  <2> QED BY <2>1, <2>3, <2>4, <2>5, EndSound
<1>2. CASE ReadyWrite(c)
  BY <1>2, EndSound, ProceedSound DEF ReadyWrite, WritesRepo
<1>3. CASE StartWrite(c)
  <2>1. \/ job' = [job EXCEPT ![c] = [Fresh("merge", Mandatory) EXCEPT !.saw = Landed # {}]]
        \/ End(c)
    BY <1>3 DEF StartWrite, Writes
  <2>2. (Landed # {}) \in BOOLEAN
    OBVIOUS
  <2>3. Sound([Fresh("merge", Mandatory) EXCEPT !.saw = Landed # {}])
    BY <2>2, VersTyped, FreshSound
  <2> QED BY <2>1, <2>3, JobChange, EndSound
<1>4. CASE Merge(c)
  <2>1. \/ ReadProduct(c, "merged_write")
        \/ \E r \in Repos : ReadRepo(c, r, "target", job[c].saw) \/ Skip(c, r, TRUE)
        \/ Abandon(c, "broken")
    BY <1>4, CurAt DEF Merge, Lowest
  <2>2. "target" \in RepoPoints
    BY DEF RepoPoints
  <2>3. ASSUME NEW r \in Repos, ReadRepo(c, r, "target", job[c].saw)
        PROVE  JobsOK'
    <3>1. job[c].saw \in BOOLEAN /\ repo[r].ver \in Nat
      BY CurAt, VersTyped
    <3> QED BY <2>2, <2>3, <3>1, ReadRepoSound
  <2>4. ASSUME NEW r \in Repos, Skip(c, r, TRUE)
        PROVE  JobsOK'
    BY <2>4, SkipSound
  <2>5. ReadProduct(c, "merged_write") => JobsOK'
    BY VersTyped, ReadProductSound
  <2> QED BY <2>1, <2>3, <2>4, <2>5, AbandonSound
<1>5. CASE Target(c)
  <2>1. job[c].cur \in Repos
    BY <1>5, CurAt DEF Target, At, RepoPoints
  <2>2. <<"merge", job[c].cur>> \in Effects
    BY <2>1, EffectOf DEF Acts
  <2>3. Attempt(c, job[c].cur, "merge") \/ Abandon(c, "broken")
    BY <1>5 DEF Target
  <2> QED BY <2>2, <2>3, AttemptSound, AbandonSound
<1>6. CASE MergeWrite(c)
  BY <1>6, ProceedSound, AbandonSound DEF MergeWrite, WritesRepo
<1>7. CASE MergedWrite(c)
  BY <1>7, EndSound DEF MergedWrite, Writes
<1>8. CASE Broken(c)
  BY <1>8, VersTyped, ReadProductSound DEF Broken
<1>9. CASE BrokenWrite(c)
  <2>1. Begin(c, "undo", {}) \/ End(c)
    BY <1>9 DEF BrokenWrite, Writes
  <2> QED BY <2>1, BeginSound, EndSound
<1> QED BY <1>1, <1>2, <1>3, <1>4, <1>5, <1>6, <1>7, <1>8, <1>9 DEF MergeStep

LEMMA UndoJobs ==
    ASSUME StoreTypeOK, JobsOK, NEW c \in Coordinators, UndoStep(c)
    PROVE  JobsOK'
PROOF
<1> USE PlainSet
<1> {"revert_open", "bind", "revert_write", "revert_failed", "failed_write"} \subseteq RepoPoints
  BY DEF RepoPoints
<1>1. CASE Undo(c)
  <2>1. ReadProduct(c, "undo_write") \/ Begin(c, "revert", Mandatory) \/ End(c)
    BY <1>1 DEF Undo
  <2> QED BY <2>1, VersTyped, ReadProductSound, BeginSound, EndSound
<1>2. CASE UndoWrite(c)
  <2>1. Begin(c, "revert", Mandatory) \/ End(c)
    BY <1>2 DEF UndoWrite, Writes
  <2> QED BY <2>1, VersTyped, BeginSound, EndSound
<1>3. CASE Revert(c)
  <2>1. \/ ReadProduct(c, "undone_write")
        \/ \E r \in Repos, point \in RepoPoints : ReadRepo(c, r, point, repo[r].merge)
        \/ \E r \in Repos : Skip(c, r, job[c].saw)
    BY <1>3, CurAt DEF Revert, Highest
  <2>2. ASSUME NEW r \in Repos, NEW point \in RepoPoints, ReadRepo(c, r, point, repo[r].merge)
        PROVE  JobsOK'
    BY <2>2, VersTyped, ReadRepoSound
  <2>3. ASSUME NEW r \in Repos, Skip(c, r, job[c].saw)
        PROVE  JobsOK'
    BY <2>3, CurAt, SkipSound
  <2>4. ReadProduct(c, "undone_write") => JobsOK'
    BY VersTyped, ReadProductSound
  <2> QED BY <2>1, <2>2, <2>3, <2>4
<1>4. CASE RevertOpen(c)
  <2>1. job[c].cur \in Repos
    BY <1>4, CurAt DEF RevertOpen, At
  <2>2. Onward(c, "bind") \/ End(c)
    BY <1>4 DEF RevertOpen, WritesRepo
  <2> QED BY <2>1, <2>2, OnwardSound, EndSound
<1>5. CASE Bind(c)
  <2>1. job[c].cur \in Repos
    BY <1>5, CurAt DEF Bind, At
  <2>2. <<"revert", job[c].cur>> \in Effects
    BY <2>1, EffectOf DEF Acts
  <2>3. "revert_failed" \in Points /\ "revert_failed" \notin EffectPoints
    BY DEF Points, EffectPoints
  <2>4. Attempt(c, job[c].cur, "revert") \/ Goto(c, "revert_failed")
    BY <1>5 DEF Bind
  <2> QED BY <2>1, <2>2, <2>3, <2>4, AttemptSound, GotoSound
<1>6. CASE RevertWrite(c)
  <2>1. job[c].cur \in Repos
    BY <1>6, CurAt DEF RevertWrite, At
  <2>2. "revert_failed" \in Points /\ "revert_failed" \notin EffectPoints
    BY DEF Points, EffectPoints
  <2>3. Proceed(c, "revert") \/ Goto(c, "revert_failed")
    BY <1>6 DEF RevertWrite, WritesRepo
  <2> QED BY <2>1, <2>2, <2>3, ProceedSound, GotoSound
<1>7. CASE RevertFailed(c)
  <2>1. job[c].cur \in Repos /\ job[c].saw \in BOOLEAN
    BY <1>7, CurAt DEF RevertFailed, At
  <2>2. ReadRepo(c, job[c].cur, "failed_write", job[c].saw) \/ ReadProduct(c, "stuck_write")
    BY <1>7 DEF RevertFailed
  <2> QED BY <2>1, <2>2, VersTyped, ReadRepoSound, ReadProductSound
<1>8. CASE FailedWrite(c)
  <2>1. "stuck" \in Points /\ "stuck" \notin EffectPoints /\ "stuck" \notin RepoPoints
    BY DEF Points, EffectPoints, RepoPoints
  <2>2. Goto(c, "stuck") \/ End(c)
    BY <1>8 DEF FailedWrite, WritesRepo
  <2> QED BY <2>1, <2>2, GotoSound, EndSound
<1>9. CASE Stuck(c)
  BY <1>9, VersTyped, ReadProductSound DEF Stuck
<1>10. CASE StuckWrite(c) \/ UndoneWrite(c)
  BY <1>10, EndSound DEF StuckWrite, UndoneWrite, Writes
<1> QED BY <1>1, <1>2, <1>3, <1>4, <1>5, <1>6, <1>7, <1>8, <1>9, <1>10 DEF UndoStep

LEMMA DeliveryJobs ==
    ASSUME StoreTypeOK, JobsOK, NEW c \in Coordinators, DeliveryStep(c)
    PROVE  JobsOK'
PROOF
<1> USE PlainSet
<1>1. CASE StageWrite(c)
  <2>1. Begin(c, "deploy", Mandatory) \/ End(c)
    BY <1>1 DEF StageWrite, Writes
  <2> QED BY <2>1, VersTyped, BeginSound, EndSound
<1>2. CASE Deploy(c)
  <2>1. \/ ReadProduct(c, "accepting_write") \/ Begin(c, "accept", Mandatory)
        \/ \E r \in Repos : Attempt(c, r, "deliver_stage")
        \/ Abandon(c, "roll")
    BY <1>2, CurAt DEF Deploy, Lowest
  <2>2. \A r \in Repos : <<"deliver_stage", r>> \in Effects
    BY EffectOf DEF Acts
  <2> QED BY <2>1, <2>2, VersTyped, ReadProductSound, BeginSound, AttemptSound, AbandonSound
<1>3. CASE Artifact(c)
  <2>1. job[c].cur \in Repos /\ "artifact_write" \in RepoPoints
    BY <1>3, CurAt DEF Artifact, At, RepoPoints
  <2>2. ReadRepo(c, job[c].cur, "artifact_write", FALSE) \/ Proceed(c, "deploy")
    BY <1>3 DEF Artifact
  <2> QED BY <2>1, <2>2, VersTyped, ReadRepoSound, ProceedSound
<1>4. CASE ArtifactWrite(c)
  BY <1>4, ProceedSound, EndSound DEF ArtifactWrite, WritesRepo
<1>5. CASE AcceptingWrite(c)
  <2>1. Begin(c, "accept", Mandatory) \/ End(c)
    BY <1>5 DEF AcceptingWrite, Writes
  <2> QED BY <2>1, VersTyped, BeginSound, EndSound
<1>6. CASE Accept(c)
  <2>1. \/ ReadProduct(c, "accept_write")
        \/ \E r \in Repos : Attempt(c, r, "accept_stage")
        \/ Abandon(c, "roll")
    BY <1>6, CurAt DEF Accept, Lowest
  <2>2. \A r \in Repos : <<"accept_stage", r>> \in Effects
    BY EffectOf DEF Acts
  <2> QED BY <2>1, <2>2, VersTyped, ReadProductSound, AttemptSound, AbandonSound
<1>7. CASE AcceptWrite(c) \/ RollWrite(c)
  BY <1>7, EndSound DEF AcceptWrite, RollWrite, Writes
<1>8. CASE Roll(c)
  BY <1>8, VersTyped, ReadProductSound DEF Roll
<1> QED BY <1>1, <1>2, <1>3, <1>4, <1>5, <1>6, <1>7, <1>8 DEF DeliveryStep

LEMMA CallJobs ==
    ASSUME StoreTypeOK, JobsOK, NEW c \in Coordinators, Call(c)
    PROVE  JobsOK'
PROOF
<1> USE PlainSet
<1>1. ASSUME NEW r \in Repos, PublishCall(c, r)
      PROVE  JobsOK'
  <2>1. PICK version \in 1..repo[r].ver :
          job' = [job EXCEPT ![c] =
              [Idle EXCEPT !.at = "look", !.cur = r, !.ver = version, !.act = "push"]]
    BY <1>1 DEF PublishCall
  <2>2. version \in Nat
    BY VersTyped
  <2>3. "look" \in EffectPoints /\ "look" \in Points /\ "look" \notin RepoPoints
    BY DEF EffectPoints, Points, RepoPoints
  <2>4. "push" \in Acts /\ <<"push", r>> \in Effects
    BY EffectOf DEF Acts
  <2>5. Sound([Idle EXCEPT !.at = "look", !.cur = r, !.ver = version, !.act = "push"])
    BY <2>2, <2>3, <2>4 DEF Sound, Jobs, Idle
  <2> QED BY <2>1, <2>5, JobChange
<1>2. CASE MergeCall(c)
  <2>1. \/ Begin(c, "ready", Mandatory) \/ Begin(c, "undo", {})
        \/ job' = [job EXCEPT ![c] = [Fresh("merge", Mandatory) EXCEPT !.saw = Landed # {}]]
    BY <1>2 DEF MergeCall
  <2>2. (Landed # {}) \in BOOLEAN
    OBVIOUS
  <2>3. Sound([Fresh("merge", Mandatory) EXCEPT !.saw = Landed # {}])
    BY <2>2, VersTyped, FreshSound
  <2> QED BY <2>1, <2>3, VersTyped, BeginSound, JobChange
<1>3. CASE StageCall(c)
  <2>1. \/ Begin(c, "roll", {}) \/ ReadProduct(c, "stage_write")
        \/ Begin(c, "deploy", Mandatory)
    BY <1>3 DEF StageCall
  <2> QED BY <2>1, VersTyped, BeginSound, ReadProductSound
<1>4. CASE ProdCall(c)
  <2>1. <<"deliver_prod", Product>> \in Effects
    BY DEF Effects
  <2> QED BY <1>4, <2>1, AttemptSound DEF ProdCall
<1> QED BY <1>1, <1>2, <1>3, <1>4 DEF Call

-----------------------------------------------------------------------------
(* Types: every step.                                                      *)

GitLabOK ==
    /\ mr \in [Repos -> {"none", "opened", "merged", "reverted"}]
    /\ moved \in [Repos -> BOOLEAN] /\ bound \in BOOLEAN
    /\ done \in [Effects -> Nat]
    /\ retries \in Nat /\ faults \in 0..MaxFaults

TypeInv == StoreTypeOK /\ JobsOK /\ GitLabOK

\* What a step may do to everything but the jobs.
Safe == StoreStep /\ StoreTypeOK' /\ GitLabOK'

LEMMA ReadingSafe ==
    ASSUME TypeInv, Reading
    PROVE  Safe
BY DEF TypeInv, Reading, Safe, StoreStep, StoreTypeOK, GitLabOK, storeVars, gitlabVars

LEMMA ProductSafe ==
    ASSUME TypeInv, NEW target \in Statuses, NEW kind \in Kinds, NEW version,
           Move(version, target, kind) \/ UNCHANGED storeVars
    PROVE  StoreStep /\ StoreTypeOK'
PROOF
<1>1. CASE Move(version, target, kind)
  <2>1. Move(product.ver, target, kind)
    BY <1>1 DEF Move
  <2>2. StoreTypeOK'
    BY <1>1, MoveTyped DEF TypeInv
  <2> QED BY <2>1, <2>2 DEF StoreStep
<1>2. CASE UNCHANGED storeVars
  BY <1>2 DEF StoreStep, storeVars, StoreTypeOK, TypeInv
<1> QED BY <1>1, <1>2

LEMMA RepoSafe ==
    ASSUME TypeInv, NEW r \in Repos, NEW target \in RepoStatuses, NEW kind \in Kinds, NEW version,
           NEW merge \in BOOLEAN,
           MoveRepo(r, version, target, kind, merge) \/ UNCHANGED storeVars
    PROVE  StoreStep /\ StoreTypeOK'
PROOF
<1>1. CASE MoveRepo(r, version, target, kind, merge)
  <2>1. MoveRepo(r, repo[r].ver, target, kind, merge)
    BY <1>1 DEF MoveRepo
  <2>2. StoreTypeOK'
    BY <1>1, MoveRepoTyped DEF TypeInv
  <2> QED BY <2>1, <2>2 DEF StoreStep
<1>2. CASE UNCHANGED storeVars
  BY <1>2 DEF StoreStep, storeVars, StoreTypeOK, TypeInv
<1> QED BY <1>1, <1>2

LEMMA GitLabSame ==
    ASSUME TypeInv, UNCHANGED <<gitlabVars, retries, faults>>
    PROVE  GitLabOK'
BY DEF TypeInv, GitLabOK, gitlabVars

LEMMA ReceiptsTyped ==
    ASSUME StoreTypeOK, NEW e \in Effects, UNCHANGED <<product, repo>>,
           \/ UNCHANGED receipts
           \/ ClaimEffect(e)
           \/ \E result \in Outcomes \cup {NoReceipt}, request \in Nat : RecordEffect(e, result, request)
    PROVE  StoreTypeOK'
PROOF
<1>1. receipts[e] \in ReceiptRows
  BY DEF StoreTypeOK
<1>2. CASE ClaimEffect(e)
  <2>1. receipts' = [receipts EXCEPT ![e] = [receipts[e] EXCEPT !.intent = TRUE]]
    BY <1>2 DEF ClaimEffect, StoreTypeOK
  <2>2. [receipts[e] EXCEPT !.intent = TRUE] \in ReceiptRows
    BY <1>1 DEF ReceiptRows
  <2> QED BY <2>1, <2>2 DEF StoreTypeOK
<1>3. ASSUME NEW result \in Outcomes \cup {NoReceipt}, NEW request \in Nat,
             RecordEffect(e, result, request)
      PROVE  StoreTypeOK'
  <2> DEFINE row == [receipts[e] EXCEPT !.result = result, !.request = request]
  <2>1. row \in ReceiptRows
    BY <1>1 DEF ReceiptRows
  <2>2. receipts' = receipts \/ receipts' = [receipts EXCEPT ![e] = row]
    BY <1>3 DEF RecordEffect, StoreTypeOK
  <2> QED BY <2>1, <2>2 DEF StoreTypeOK
<1> QED BY <1>2, <1>3 DEF StoreTypeOK

LEMMA EffectSafe ==
    ASSUME TypeInv, NEW c \in Coordinators, EffectStep(c)
    PROVE  Safe
PROOF
<1> DEFINE e == Effect(c)
<1>1. job[c].at \in EffectPoints => e \in Effects
  BY CurAt DEF Effect, TypeInv
<1>2. CASE Look(c) \/ PerformFails(c)
  BY <1>2, ReadingSafe DEF Look, PerformFails
<1>3. CASE Intend(c)
  <2>1. e \in Effects
    BY <1>1, <1>3 DEF Intend, At, EffectPoints
  <2>2. StoreTypeOK'
    BY <1>3, <2>1, ReceiptsTyped DEF Intend, TypeInv
  <2>3. UNCHANGED <<product, repo>> /\ GitLabOK'
    BY <1>3, GitLabSame DEF Intend
  <2> QED BY <2>2, <2>3 DEF Safe, StoreStep
<1>4. CASE Perform(c)
  <2>1. e \in Effects /\ (job[c].act \in Acts => job[c].cur \in Repos)
    BY <1>1, <1>4, EffectCur DEF Perform, At, EffectPoints, Effect, Acts
  <2>2. done[e] + 1 \in Nat
    BY <2>1 DEF TypeInv, GitLabOK
  <2>3. done' \in [Effects -> Nat]
    BY <1>4, <2>2 DEF Perform, TypeInv, GitLabOK
  <2>4. mr' \in [Repos -> {"none", "opened", "merged", "reverted"}]
    BY <1>4 DEF Perform, TypeInv, GitLabOK
  <2>5. moved' \in [Repos -> BOOLEAN]
    BY <1>4 DEF Perform, TypeInv, GitLabOK
  <2>6. UNCHANGED <<storeVars, bound, retries, faults>>
    BY <1>4 DEF Perform
  <2>7. GitLabOK'
    BY <2>3, <2>4, <2>5, <2>6 DEF TypeInv, GitLabOK
  <2> QED BY <2>6, <2>7 DEF Safe, StoreStep, StoreTypeOK, storeVars, TypeInv
<1>5. CASE Record(c)
  <2>1. e \in Effects
    BY <1>1, <1>5 DEF Record, At, EffectPoints
  <2>2. job[c].result \in Outcomes \cup {NoReceipt} /\ Request(c) \in Nat
    BY DEF TypeInv, JobsOK, Jobs, Request
  <2>3. RecordEffect(e, job[c].result, Request(c)) /\ UNCHANGED <<product, repo>>
    BY <1>5 DEF Record
  <2>4. StoreTypeOK'
    BY <2>1, <2>2, <2>3, ReceiptsTyped DEF TypeInv
  <2>5. GitLabOK'
    BY <1>5, GitLabSame DEF Record
  <2> QED BY <2>3, <2>4, <2>5 DEF Safe, StoreStep
<1> QED BY <1>2, <1>3, <1>4, <1>5 DEF EffectStep

LEMMA PublishSafe ==
    ASSUME TypeInv, NEW c \in Coordinators, PublishStep(c)
    PROVE  Safe
PROOF
<1> USE Phrases DEF Kinds
<1>1. CASE Guard(c) \/ Pipeline(c)
  BY <1>1, ReadingSafe DEF Guard, Pipeline
<1>2. CASE MrWrite(c)
  <2>1. job[c].cur \in Repos /\ job[c].saw \in BOOLEAN
    BY <1>2, CurAt DEF MrWrite, At, RepoPoints, TypeInv
  <2>2. MoveRepo(job[c].cur, job[c].ver, "MR_OPEN", "work", FALSE) \/ UNCHANGED storeVars
    BY <1>2 DEF MrWrite, WritesRepo
  <2>3. StoreStep /\ StoreTypeOK'
    BY <2>1, <2>2, RepoSafe
  <2> QED BY <1>2, <2>3, GitLabSame DEF MrWrite, Safe
<1>3. CASE GreenWrite(c)
  <2>1. job[c].cur \in Repos /\ job[c].saw \in BOOLEAN
    BY <1>3, CurAt DEF GreenWrite, At, RepoPoints, TypeInv
  <2>2. MoveRepo(job[c].cur, job[c].ver, "PIPELINE_GREEN", "exact_sha_pipeline", FALSE) \/ UNCHANGED storeVars
    BY <1>3 DEF GreenWrite, WritesRepo
  <2>3. StoreStep /\ StoreTypeOK'
    BY <2>1, <2>2, RepoSafe
  <2> QED BY <1>3, <2>3, GitLabSame DEF GreenWrite, Safe
<1> QED BY <1>1, <1>2, <1>3 DEF PublishStep

LEMMA MergeSafe ==
    ASSUME TypeInv, NEW c \in Coordinators, MergeStep(c)
    PROVE  Safe
PROOF
<1> USE Phrases DEF Kinds
<1>1. CASE Ready(c) \/ Merge(c) \/ Target(c) \/ Broken(c)
  BY <1>1, ReadingSafe DEF Ready, Merge, Target, Broken
<1>2. CASE ReadyWrite(c)
  <2>1. job[c].cur \in Repos /\ job[c].saw \in BOOLEAN
    BY <1>2, CurAt DEF ReadyWrite, At, RepoPoints, TypeInv
  <2>2. MoveRepo(job[c].cur, job[c].ver, "READY_TO_MERGE", "work", FALSE) \/ UNCHANGED storeVars
    BY <1>2 DEF ReadyWrite, WritesRepo
  <2>3. StoreStep /\ StoreTypeOK'
    BY <2>1, <2>2, RepoSafe
  <2> QED BY <1>2, <2>3, GitLabSame DEF ReadyWrite, Safe
<1>3. CASE StartWrite(c)
  <2>1. StoreStep /\ StoreTypeOK'
    BY <1>3, ProductSafe DEF StartWrite, Writes
  <2> QED BY <1>3, <2>1, GitLabSame DEF StartWrite, Safe
<1>4. CASE MergeWrite(c)
  <2>1. job[c].cur \in Repos /\ job[c].saw \in BOOLEAN
    BY <1>4, CurAt DEF MergeWrite, At, RepoPoints, TypeInv
  <2>2. MoveRepo(job[c].cur, job[c].ver, "MERGED", "work", TRUE) \/ UNCHANGED storeVars
    BY <1>4 DEF MergeWrite, WritesRepo
  <2>3. StoreStep /\ StoreTypeOK'
    BY <2>1, <2>2, RepoSafe
  <2> QED BY <1>4, <2>3, GitLabSame DEF MergeWrite, Safe
<1>5. CASE MergedWrite(c)
  <2>1. StoreStep /\ StoreTypeOK'
    BY <1>5, ProductSafe DEF MergedWrite, Writes
  <2> QED BY <1>5, <2>1, GitLabSame DEF MergedWrite, Safe
<1>6. CASE BrokenWrite(c)
  <2>1. StoreStep /\ StoreTypeOK'
    BY <1>6, ProductSafe DEF BrokenWrite, Writes
  <2> QED BY <1>6, <2>1, GitLabSame DEF BrokenWrite, Safe
<1> QED BY <1>1, <1>2, <1>3, <1>4, <1>5, <1>6 DEF MergeStep

LEMMA UndoSafe ==
    ASSUME TypeInv, NEW c \in Coordinators, UndoStep(c)
    PROVE  Safe
PROOF
<1> USE Phrases DEF Kinds
<1>1. CASE Undo(c) \/ Revert(c) \/ Bind(c) \/ RevertFailed(c) \/ Stuck(c)
  BY <1>1, ReadingSafe DEF Undo, Revert, Bind, RevertFailed, Stuck
<1>2. CASE RevertOpen(c)
  <2>1. job[c].cur \in Repos /\ job[c].saw \in BOOLEAN
    BY <1>2, CurAt DEF RevertOpen, At, RepoPoints, TypeInv
  <2>2. MoveRepo(job[c].cur, job[c].ver, "REVERT_OPEN", "work", job[c].saw) \/ UNCHANGED storeVars
    BY <1>2 DEF RevertOpen, WritesRepo
  <2>3. StoreStep /\ StoreTypeOK'
    BY <2>1, <2>2, RepoSafe
  <2> QED BY <1>2, <2>3, GitLabSame DEF RevertOpen, Safe
<1>3. CASE RevertWrite(c)
  <2>1. job[c].cur \in Repos /\ job[c].saw \in BOOLEAN
    BY <1>3, CurAt DEF RevertWrite, At, RepoPoints, TypeInv
  <2>2. MoveRepo(job[c].cur, job[c].ver, "REVERTED", "work", FALSE) \/ UNCHANGED storeVars
    BY <1>3 DEF RevertWrite, WritesRepo
  <2>3. StoreStep /\ StoreTypeOK'
    BY <2>1, <2>2, RepoSafe
  <2> QED BY <1>3, <2>3, GitLabSame DEF RevertWrite, Safe
<1>4. CASE FailedWrite(c)
  <2>1. job[c].cur \in Repos /\ job[c].saw \in BOOLEAN
    BY <1>4, CurAt DEF FailedWrite, At, RepoPoints, TypeInv
  <2>2. MoveRepo(job[c].cur, job[c].ver, "ROLLBACK_FAILED", "failure", job[c].saw) \/ UNCHANGED storeVars
    BY <1>4 DEF FailedWrite, WritesRepo
  <2>3. StoreStep /\ StoreTypeOK'
    BY <2>1, <2>2, RepoSafe
  <2> QED BY <1>4, <2>3, GitLabSame DEF FailedWrite, Safe
<1>5. CASE StuckWrite(c)
  <2>1. StoreStep /\ StoreTypeOK'
    BY <1>5, ProductSafe DEF StuckWrite, Writes
  <2> QED BY <1>5, <2>1, GitLabSame DEF StuckWrite, Safe
<1>6. CASE UndoneWrite(c)
  <2>1. StoreStep /\ StoreTypeOK'
    BY <1>6, ProductSafe DEF UndoneWrite, Writes
  <2> QED BY <1>6, <2>1, GitLabSame DEF UndoneWrite, Safe
<1>7. CASE UndoWrite(c)
  <2>1. StoreStep /\ StoreTypeOK'
    BY <1>7, ProductSafe DEF UndoWrite, Writes
  <2>2. retries' \in Nat
    BY <1>7 DEF UndoWrite, TypeInv, GitLabOK
  <2>3. GitLabOK'
    BY <1>7, <2>2 DEF UndoWrite, TypeInv, GitLabOK, gitlabVars
  <2> QED BY <2>1, <2>3 DEF Safe
<1> QED BY <1>1, <1>2, <1>3, <1>4, <1>5, <1>6, <1>7 DEF UndoStep

LEMMA DeliverySafe ==
    ASSUME TypeInv, NEW c \in Coordinators, DeliveryStep(c)
    PROVE  Safe
PROOF
<1> USE Phrases DEF Kinds
<1>1. CASE Deploy(c) \/ Artifact(c) \/ Accept(c) \/ Roll(c)
  BY <1>1, ReadingSafe DEF Deploy, Artifact, Accept, Roll
<1>2. CASE StageWrite(c)
  <2>1. StoreStep /\ StoreTypeOK'
    BY <1>2, ProductSafe DEF StageWrite, Writes
  <2> QED BY <1>2, <2>1, GitLabSame DEF StageWrite, Safe
<1>3. CASE ArtifactWrite(c)
  <2>1. job[c].cur \in Repos /\ job[c].saw \in BOOLEAN
    BY <1>3, CurAt DEF ArtifactWrite, At, RepoPoints, TypeInv
  <2>2. MoveRepo(job[c].cur, job[c].ver, "ARTIFACT_READY", "work", FALSE) \/ UNCHANGED storeVars
    BY <1>3 DEF ArtifactWrite, WritesRepo
  <2>3. StoreStep /\ StoreTypeOK'
    BY <2>1, <2>2, RepoSafe
  <2> QED BY <1>3, <2>3, GitLabSame DEF ArtifactWrite, Safe
<1>4. CASE AcceptingWrite(c)
  <2>1. StoreStep /\ StoreTypeOK'
    BY <1>4, ProductSafe DEF AcceptingWrite, Writes
  <2> QED BY <1>4, <2>1, GitLabSame DEF AcceptingWrite, Safe
<1>5. CASE AcceptWrite(c)
  <2>1. StoreStep /\ StoreTypeOK'
    BY <1>5, ProductSafe DEF AcceptWrite, Writes
  <2> QED BY <1>5, <2>1, GitLabSame DEF AcceptWrite, Safe
<1>6. CASE RollWrite(c)
  <2>1. StoreStep /\ StoreTypeOK'
    BY <1>6, ProductSafe DEF RollWrite, Writes
  <2> QED BY <1>6, <2>1, GitLabSame DEF RollWrite, Safe
<1> QED BY <1>1, <1>2, <1>3, <1>4, <1>5, <1>6 DEF DeliveryStep

LEMMA OthersSafe ==
    ASSUME TypeInv,
           \/ \E c \in Coordinators : Call(c) \/ Crash(c)
           \/ Environment
    PROVE  Safe
PROOF
<1>1. ASSUME NEW c \in Coordinators, Call(c)
      PROVE  Safe
  BY <1>1, ReadingSafe DEF Call, PublishCall, MergeCall, StageCall, ProdCall
<1>2. ASSUME Fault, UNCHANGED <<storeVars, mr, done, retries>>,
             moved' \in [Repos -> BOOLEAN], bound' \in BOOLEAN
      PROVE  Safe
  <2>1. faults' \in 0..MaxFaults
    BY <1>2, SagaAssumption DEF Fault, TypeInv, GitLabOK
  <2>2. GitLabOK'
    BY <1>2, <2>1 DEF TypeInv, GitLabOK
  <2> QED BY <1>2, <2>2 DEF Safe, StoreStep, StoreTypeOK, TypeInv, storeVars
<1>3. ASSUME NEW c \in Coordinators, Crash(c)
      PROVE  Safe
  BY <1>2, <1>3 DEF Crash, TypeInv, GitLabOK, gitlabVars
<1>4. ASSUME NEW r \in Repos, Drift(r)
      PROVE  Safe
  BY <1>2, <1>4 DEF Drift, TypeInv, GitLabOK
<1>5. CASE Rebind
  BY <1>2, <1>5 DEF Rebind, TypeInv, GitLabOK
<1>6. ASSUME NEW target \in Statuses, NEW kind \in ClientKinds, ClientMove(target, kind)
      PROVE  Safe
  <2>1. kind \in Kinds
    BY DEF ClientKinds, Kinds
  <2>2. Move(product.ver, target, kind)
    BY <1>6 DEF ClientMove
  <2>3. StoreStep /\ StoreTypeOK'
    BY <2>1, <2>2, ProductSafe
  <2> QED BY <1>6, <2>3, GitLabSame DEF ClientMove, Safe
<1>7. ASSUME NEW r \in Repos, NEW target \in RepoStatuses, NEW kind \in ClientKinds,
             ClientMoveRepo(r, target, kind)
      PROVE  Safe
  <2>1. kind \in Kinds
    BY DEF ClientKinds, Kinds
  <2>2. MoveRepo(r, repo[r].ver, target, kind, FALSE)
    BY <1>7 DEF ClientMoveRepo
  <2>3. StoreStep /\ StoreTypeOK'
    BY <2>1, <2>2, RepoSafe
  <2> QED BY <1>7, <2>3, GitLabSame DEF ClientMoveRepo, Safe
<1> QED BY <1>1, <1>3, <1>4, <1>5, <1>6, <1>7 DEF Environment

LEMMA OthersJobs ==
    ASSUME TypeInv, \/ \E c \in Coordinators : Call(c) \/ Crash(c)
                    \/ Environment
    PROVE  JobsOK'
PROOF
<1>1. ASSUME NEW c \in Coordinators, Call(c)
      PROVE  JobsOK'
  BY <1>1, CallJobs DEF TypeInv
<1>2. ASSUME NEW c \in Coordinators, Crash(c)
      PROVE  JobsOK'
  BY <1>2, EndSound DEF Crash, TypeInv
<1>3. Environment => UNCHANGED job
  BY DEF Environment, Drift, Rebind, ClientMove, ClientMoveRepo
<1>4. UNCHANGED job => JobsOK'
  BY DEF TypeInv, JobsOK, Sound
<1> QED BY <1>1, <1>2, <1>3, <1>4

LEMMA TypeInit == SagaInit => TypeInv
PROOF
<1> SUFFICES ASSUME SagaInit PROVE TypeInv
  OBVIOUS
<1>1. product \in Rows
  BY Phrases DEF SagaInit, StoreInit, Rows
<1>2. repo \in [Repos -> RepoRows]
  BY Phrases DEF SagaInit, StoreInit, RepoRows, Kinds
<1>3. receipts \in [Effects -> ReceiptRows]
  BY DEF SagaInit, StoreInit, ReceiptRows
<1>4. Sound(Idle)
  BY DEF Sound, Idle, Jobs, Points, EffectPoints, RepoPoints
<1>5. JobsOK
  BY <1>4 DEF SagaInit, JobsOK, Sound
<1>6. GitLabOK
  BY SagaAssumption DEF SagaInit, GitLabOK
<1> QED BY <1>1, <1>2, <1>3, <1>5, <1>6 DEF TypeInv, StoreTypeOK

LEMMA SafeStep ==
    ASSUME TypeInv, SagaNext
    PROVE  Safe
PROOF
<1>1. ASSUME NEW c \in Coordinators, CallStep(c)
      PROVE  Safe
  BY <1>1, EffectSafe, PublishSafe, MergeSafe, UndoSafe, DeliverySafe DEF CallStep
<1> QED BY <1>1, OthersSafe DEF SagaNext

LEMMA TypeStep ==
    ASSUME TypeInv, [SagaNext]_vars
    PROVE  TypeInv'
PROOF
<1>1. CASE SagaNext
  <2>1. ASSUME NEW c \in Coordinators, CallStep(c)
        PROVE  JobsOK'
    BY <2>1, EffectJobs, PublishJobs, MergeJobs, UndoJobs, DeliveryJobs DEF CallStep, TypeInv
  <2>2. JobsOK'
    BY <1>1, <2>1, OthersJobs DEF SagaNext
  <2> QED BY <1>1, <2>2, SafeStep DEF Safe, TypeInv
<1>2. CASE UNCHANGED vars
  BY <1>2 DEF vars, gitlabVars, storeVars, TypeInv, StoreTypeOK, JobsOK, GitLabOK, Sound
<1> QED BY <1>1, <1>2

LEMMA TypeAlways == SagaSpec => []TypeInv
PROOF
<1>1. SagaInit => TypeInv
  BY TypeInit
<1>2. TypeInv /\ [SagaNext]_vars => TypeInv'
  BY TypeStep
<1> QED BY <1>1, <1>2, PTL DEF SagaSpec

\* Every row, receipt and job keeps its type, for any number of repositories
\* and coordinators; a call that works on a repository has one, and an effect
\* that is under way is an effect (product_merge.py, product_delivery.py).
THEOREM SagaTypeSafe == SagaSpec => []SagaTypeOK
PROOF
<1>1. TypeInv => SagaTypeOK
  BY DEF TypeInv, JobsOK, Sound, GitLabOK, SagaTypeOK
<1> QED BY <1>1, TypeAlways, PTL

-----------------------------------------------------------------------------
(* What the record says of its end.                                        *)

Late == {"MERGED", "DEPLOYING_STAGE", "ACCEPTING_STAGE", "DONE"}

\* A hold is resumed where it was entered, before the merge.
RecordInv == RecordConsistent /\ (product.status \in Waiting => product.resume \in Pre)

LEMMA RecordByMove ==
    ASSUME StoreTypeOK, RecordInv, NEW target \in Statuses, NEW kind \in Kinds,
           Move(product.ver, target, kind)
    PROVE  RecordInv'
PROOF
<1>1. /\ product'.status = target
      /\ target \in Waiting => product'.resume = product.status
      /\ UNCHANGED repo
  BY DEF Move
<1>2. /\ UNCHANGED <<Unresolved, Reverted, Mandatory, Landed>>
  BY <1>1 DEF Unresolved, Reverted, Mandatory, Landed
<1>3. /\ target = "FAILED" => Unresolved \cup Reverted = {}
      /\ target = "ROLLED_BACK" => Unresolved = {} /\ Reverted # {}
      /\ target = "MERGED" => Mandatory # {} /\ Mandatory \subseteq Landed
      /\ target = "DONE" => /\ Mandatory # {}
                            /\ \A r \in Mandatory : repo[r].status = "ARTIFACT_READY"
      /\ IF product.status \in Waiting THEN target = product.resume
         ELSE <<product.status, target>> \in Edges
  BY DEF Move, MayMove
<1>4. CASE product.status \in Waiting
  <2>1. target \in Pre
    BY <1>3, <1>4 DEF RecordInv
  <2> QED BY <2>1, <1>1, <1>4, Phrases DEF RecordInv, RecordConsistent, Waiting
<1>5. CASE product.status \notin Waiting
  <2>1. <<product.status, target>> \in Edges
    BY <1>3, <1>5
  <2>2. /\ target \in Waiting => product.status \in Pre
        /\ target = "DEPLOYING_STAGE" => product.status = "MERGED"
        /\ target = "ACCEPTING_STAGE" => product.status = "DEPLOYING_STAGE"
    BY <2>1, ForwardEdges, Phrases DEF Waiting
  <2>3. target \in {"DEPLOYING_STAGE", "ACCEPTING_STAGE"} =>
          Mandatory # {} /\ Mandatory \subseteq Landed
    BY <2>2 DEF RecordInv, RecordConsistent
  <2>4. target = "DONE" => Mandatory \subseteq Landed
    BY <1>3 DEF Mandatory, Landed
  <2>5. RecordConsistent'
    BY <1>1, <1>2, <1>3, <2>3, <2>4 DEF RecordConsistent
  <2>6. product'.status \in Waiting => product'.resume \in Pre
    BY <1>1, <2>2
  <2> QED BY <2>5, <2>6 DEF RecordInv
<1> QED BY <1>4, <1>5

LEMMA RecordByMoveRepo ==
    ASSUME StoreTypeOK, RecordInv, NEW r \in Repos, NEW target \in RepoStatuses, NEW kind \in Kinds,
           NEW merge \in BOOLEAN, MoveRepo(r, repo[r].ver, target, kind, merge)
    PROVE  RecordInv'
PROOF
<1>1. /\ repo'[r].status = target
      /\ repo'[r].mandatory = (repo[r].mandatory /\ target # "NOT_IMPACTED")
      /\ \A s \in Repos \ {r} : repo'[s] = repo[s]
      /\ UNCHANGED product
  BY DEF MoveRepo, StoreTypeOK
<1>2. product.status \in Phases(target)
  BY DEF MoveRepo, MayMoveRepo
<1>3. product.status \notin {"FAILED", "ROLLED_BACK", "DONE"}
  BY <1>2 DEF Phases
<1>4. product.status \in Late => target \in {"MERGED", "ARTIFACT_READY"}
  BY <1>2 DEF Phases, Late
<1>5. ASSUME product.status \in Late
      PROVE  Mandatory' = Mandatory /\ Landed \subseteq Landed'
  <2>1. target \in {"MERGED", "ARTIFACT_READY"}
    BY <1>4, <1>5
  <2>2. \A s \in Repos : repo'[s].mandatory = repo[s].mandatory
    BY <1>1, <2>1 DEF StoreTypeOK, RepoRows
  <2>3. Mandatory' = Mandatory
    BY <2>2 DEF Mandatory
  <2>4. Landed \subseteq Landed'
    BY <1>1, <2>1 DEF Landed
  <2> QED BY <2>3, <2>4
<1>6. product.status \in Late => Mandatory' # {} /\ Mandatory' \subseteq Landed'
  BY <1>5 DEF RecordInv, RecordConsistent, Late
<1>7. RecordConsistent'
  BY <1>1, <1>3, <1>6 DEF RecordConsistent, Late
<1> QED BY <1>1, <1>7 DEF RecordInv

LEMMA RecordStep ==
    ASSUME TypeInv, RecordInv, [SagaNext]_vars
    PROVE  RecordInv'
PROOF
<1>1. CASE UNCHANGED <<product, repo>>
  BY <1>1 DEF RecordInv, RecordConsistent, Unresolved, Reverted, Mandatory, Landed
<1>2. SagaNext => StoreStep
  BY SafeStep DEF Safe
<1>3. UNCHANGED vars => UNCHANGED <<product, repo>>
  BY DEF vars, storeVars
<1> QED BY <1>1, <1>2, <1>3, RecordByMove, RecordByMoveRepo DEF StoreStep, TypeInv

\* However late a coordinator moves a repository: a change set recorded as
\* failed has nothing merged, one rolled back nothing that is not reverted, one
\* merged or beyond has all its mandatory repositories merged
\* (change_set_store.py, transition and transition_repo).
THEOREM RecordSafe == SagaSpec => []RecordConsistent
PROOF
<1>1. SagaInit => RecordInv
  BY DEF SagaInit, StoreInit, RecordInv, RecordConsistent, Waiting
<1>2. TypeInv /\ RecordInv /\ [SagaNext]_vars => RecordInv'
  BY RecordStep
<1>3. RecordInv => RecordConsistent
  BY DEF RecordInv
<1> QED BY <1>1, <1>2, <1>3, TypeAlways, PTL DEF SagaSpec

-----------------------------------------------------------------------------
(* No effect is done twice.                                                *)

\* What was done has an intent; who is about to do an effect owns its intent,
\* is alone, and it was not done.
OnceInv ==
    /\ \A e \in Effects : done[e] <= 1 /\ (done[e] > 0 => receipts[e].intent)
    /\ \A c \in Coordinators : At(c, "perform") =>
          /\ receipts[Effect(c)].intent /\ done[Effect(c)] = 0
          /\ \A d \in Coordinators \ {c} : At(d, "perform") => Effect(d) # Effect(c)

\* A step of c that does not end before an effect.
Elsewhere(c) ==
    /\ \A d \in Coordinators \ {c} : job'[d] = job[d]
    /\ job'[c].at # "perform"

\* Nor between an effect and its record.
Apart(c) == Elsewhere(c) /\ job'[c].at # "record"

LEMMA PlainMoves ==
    ASSUME JobsOK, NEW c \in Coordinators
    PROVE  /\ End(c) => Apart(c)
           /\ \A j : job' = [job EXCEPT ![c] = j] /\ j.at # "perform" /\ j.at # "record" => Apart(c)
           /\ \A p, todo : Begin(c, p, todo) /\ p # "perform" /\ p # "record" => Apart(c)
           /\ \A p : Goto(c, p) /\ p # "perform" /\ p # "record" => Apart(c)
           /\ \A p : Proceed(c, p) /\ p # "perform" /\ p # "record" => Apart(c)
           /\ \A r, saw : Skip(c, r, saw) /\ job[c].at \notin {"perform", "record"} => Apart(c)
           /\ \A p : Onward(c, p) /\ p # "perform" /\ p # "record" => Apart(c)
           /\ \A p : ReadProduct(c, p) /\ p # "perform" /\ p # "record" => Apart(c)
           /\ \A r, p, saw : ReadRepo(c, r, p, saw) /\ p # "perform" /\ p # "record" => Apart(c)
           /\ \A r, act : Attempt(c, r, act) => Apart(c)
           /\ \A p, saw : Leave(c, p, saw) /\ p # "perform" /\ p # "record" => Apart(c)
           /\ \A p : Abandon(c, p) /\ p # "perform" /\ p # "record" => Apart(c)
PROOF
<1>1. job \in [Coordinators -> Jobs] /\ job[c] \in Jobs
  BY DEF JobsOK
<1> USE DEF Apart, Elsewhere, Jobs
<1>2. End(c) => Apart(c)
  BY <1>1 DEF End, Idle
<1>3. \A j : job' = [job EXCEPT ![c] = j] /\ j.at # "perform" /\ j.at # "record" => Apart(c)
  BY <1>1
<1>4. \A p, todo : Begin(c, p, todo) /\ p # "perform" /\ p # "record" => Apart(c)
  BY <1>1 DEF Begin, Fresh, Idle
<1>5. \A p : Goto(c, p) /\ p # "perform" /\ p # "record" => Apart(c)
  BY <1>1 DEF Goto
<1>6. \A p : Proceed(c, p) /\ p # "perform" /\ p # "record" => Apart(c)
  BY <1>1 DEF Proceed
<1>7. \A r, saw : Skip(c, r, saw) /\ job[c].at \notin {"perform", "record"} => Apart(c)
  BY <1>1 DEF Skip
<1>8. \A p : Onward(c, p) /\ p # "perform" /\ p # "record" => Apart(c)
  BY <1>1 DEF Onward
<1>9. \A p : ReadProduct(c, p) /\ p # "perform" /\ p # "record" => Apart(c)
  BY <1>1 DEF ReadProduct
<1>10. \A r, p, saw : ReadRepo(c, r, p, saw) /\ p # "perform" /\ p # "record" => Apart(c)
  BY <1>1 DEF ReadRepo
<1>11. \A r, act : Attempt(c, r, act) => Apart(c)
  BY <1>1 DEF Attempt
<1>12. \A p, saw : Leave(c, p, saw) /\ p # "perform" /\ p # "record" => Apart(c)
  BY <1>1 DEF Leave
<1>13. \A p : Abandon(c, p) /\ p # "perform" /\ p # "record" => Apart(c)
  BY <1>1 DEF Abandon, Idle
<1> QED BY <1>2, <1>3, <1>4, <1>5, <1>6, <1>7, <1>8, <1>9, <1>10, <1>11, <1>12, <1>13

LEMMA EndsApart ==
    ASSUME JobsOK, NEW c \in Coordinators, Raises(c) \/ \E result : Returns(c, result)
    PROVE  Apart(c)
PROOF
<1>1. Raises(c) => Apart(c)
  BY PlainMoves DEF Raises
<1>2. job[c].act \in {"push", "mr_open", "merge", "revert", "deliver_stage", "accept_stage",
                      "deliver_prod", "none"}
  BY DEF JobsOK, Jobs, Acts
<1>3. ASSUME NEW result, Returns(c, result), job[c].act = "push"
      PROVE  Apart(c)
  <2> DEFINE j == [job[c] EXCEPT !.at = "look", !.act = "mr_open", !.result = NoReceipt]
  <2>1. job' = [job EXCEPT ![c] = j]
    BY <1>3 DEF Returns
  <2>2. j.at # "perform" /\ j.at # "record"
    BY DEF JobsOK, Jobs
  <2> QED BY <2>1, <2>2, PlainMoves
<1>4. ASSUME NEW result, Returns(c, result), job[c].act # "push"
      PROVE  Apart(c)
  BY <1>2, <1>4, PlainMoves DEF Returns
<1> QED BY <1>1, <1>3, <1>4

LEMMA CallApart ==
    ASSUME JobsOK, NEW c \in Coordinators,
           \/ Look(c) \/ Record(c) \/ PublishStep(c) \/ MergeStep(c) \/ UndoStep(c) \/ DeliveryStep(c)
           \/ Call(c) \/ Crash(c)
    PROVE  Apart(c)
PROOF
<1>1. CASE Look(c) \/ Record(c)
  BY <1>1, EndsApart, PlainMoves DEF Look, Record
<1>2. CASE PublishStep(c)
  BY <1>2, PlainMoves DEF PublishStep, Guard, Pipeline, MrWrite, GreenWrite, WritesRepo
<1>3. CASE MergeStep(c)
  <2>1. CASE Ready(c)
    BY <2>1, PlainMoves DEF Ready, At
  <2>2. CASE StartWrite(c)
    <3>1. [Fresh("merge", Mandatory) EXCEPT !.saw = Landed # {}].at \notin {"perform", "record"}
      BY DEF Fresh, Idle
    <3> QED BY <2>2, <3>1, PlainMoves DEF StartWrite, Writes
  <2>3. CASE Merge(c)
    BY <2>3, PlainMoves DEF Merge, At
  <2>4. CASE BrokenWrite(c)
    BY <2>4, PlainMoves DEF BrokenWrite, Writes
  <2>5. CASE ReadyWrite(c) \/ MergeWrite(c)
    BY <2>5, PlainMoves DEF ReadyWrite, MergeWrite, WritesRepo
  <2>6. CASE Target(c) \/ MergedWrite(c) \/ Broken(c)
    BY <2>6, PlainMoves DEF Target, MergedWrite, Broken, Writes
  <2> QED BY <1>3, <2>1, <2>2, <2>3, <2>4, <2>5, <2>6 DEF MergeStep
<1>4. CASE UndoStep(c)
  <2>1. CASE Undo(c) \/ UndoWrite(c)
    BY <2>1, PlainMoves DEF Undo, UndoWrite, Writes
  <2>2. CASE Revert(c)
    BY <2>2, PlainMoves DEF Revert, At
  <2>3. CASE RevertOpen(c) \/ RevertWrite(c) \/ FailedWrite(c)
    BY <2>3, PlainMoves DEF RevertOpen, RevertWrite, FailedWrite, WritesRepo
  <2>4. CASE Bind(c) \/ RevertFailed(c) \/ Stuck(c)
    BY <2>4, PlainMoves DEF Bind, RevertFailed, Stuck
  <2>5. CASE StuckWrite(c) \/ UndoneWrite(c)
    BY <2>5, PlainMoves DEF StuckWrite, UndoneWrite, Writes
  <2> QED BY <1>4, <2>1, <2>2, <2>3, <2>4, <2>5 DEF UndoStep
<1>5. CASE DeliveryStep(c)
  <2>1. CASE StageWrite(c) \/ AcceptingWrite(c) \/ AcceptWrite(c) \/ RollWrite(c)
    BY <2>1, PlainMoves DEF StageWrite, AcceptingWrite, AcceptWrite, RollWrite, Writes
  <2>2. CASE Deploy(c) \/ Artifact(c) \/ Accept(c) \/ Roll(c)
    BY <2>2, PlainMoves DEF Deploy, Artifact, Accept, Roll
  <2>3. CASE ArtifactWrite(c)
    BY <2>3, PlainMoves DEF ArtifactWrite, WritesRepo
  <2> QED BY <1>5, <2>1, <2>2, <2>3 DEF DeliveryStep
<1>6. CASE Call(c)
  <2>1. ASSUME NEW r \in Repos, PublishCall(c, r)
        PROVE  Apart(c)
    <3>1. PICK version \in 1..repo[r].ver :
            job' = [job EXCEPT ![c] =
                [Idle EXCEPT !.at = "look", !.cur = r, !.ver = version, !.act = "push"]]
      BY <2>1 DEF PublishCall
    <3>2. [Idle EXCEPT !.at = "look", !.cur = r, !.ver = version, !.act = "push"].at \notin {"perform", "record"}
      BY DEF Idle
    <3> QED BY <3>1, <3>2, PlainMoves
  <2>2. CASE MergeCall(c)
    <3>1. [Fresh("merge", Mandatory) EXCEPT !.saw = Landed # {}].at \notin {"perform", "record"}
      BY DEF Fresh, Idle
    <3> QED BY <2>2, <3>1, PlainMoves DEF MergeCall
  <2>3. CASE StageCall(c) \/ ProdCall(c)
    BY <2>3, PlainMoves DEF StageCall, ProdCall
  <2> QED BY <1>6, <2>1, <2>2, <2>3 DEF Call
<1>7. CASE Crash(c)
  BY <1>7, PlainMoves DEF Crash
<1> QED BY <1>1, <1>2, <1>3, <1>4, <1>5, <1>6, <1>7

Kept ==
    /\ UNCHANGED done
    /\ \A e \in Effects : receipts[e].intent => receipts'[e].intent

LEMMA StoreKept ==
    ASSUME TypeInv, UNCHANGED done,
           \/ UNCHANGED receipts
           \/ \E e, result, request : RecordEffect(e, result, request)
    PROVE  Kept
PROOF
<1>1. ASSUME NEW e, NEW result, NEW request, RecordEffect(e, result, request), NEW f \in Effects
      PROVE  receipts'[f].intent = receipts[f].intent
  BY <1>1 DEF RecordEffect, TypeInv, StoreTypeOK, ReceiptRows
<1> QED BY <1>1 DEF Kept

LEMMA CallQuiet ==
    ASSUME NEW c \in Coordinators,
           \/ PublishStep(c) \/ MergeStep(c) \/ UndoStep(c) \/ DeliveryStep(c)
           \/ Call(c) \/ Crash(c)
    PROVE  UNCHANGED done /\ UNCHANGED receipts
PROOF
<1> USE DEF gitlabVars, storeVars, Reading
<1>1. CASE PublishStep(c)
  BY <1>1 DEF PublishStep, Guard, Pipeline, MrWrite, GreenWrite, WritesRepo, MoveRepo
<1>2. CASE MergeStep(c)
  <2>1. UNCHANGED done
    BY <1>2 DEF MergeStep, Ready, ReadyWrite, StartWrite, Merge, Target, MergeWrite, MergedWrite,
                Broken, BrokenWrite
  <2>2. UNCHANGED receipts
    BY <1>2 DEF MergeStep, Ready, ReadyWrite, StartWrite, Merge, Target, MergeWrite, MergedWrite,
                Broken, BrokenWrite, Writes, WritesRepo, Move, MoveRepo
  <2> QED BY <2>1, <2>2
<1>3. CASE UndoStep(c)
  <2>1. UNCHANGED done
    BY <1>3 DEF UndoStep, Undo, UndoWrite, Revert, RevertOpen, Bind, RevertWrite, RevertFailed,
                FailedWrite, Stuck, StuckWrite, UndoneWrite
  <2>2. UNCHANGED receipts
    BY <1>3 DEF UndoStep, Undo, UndoWrite, Revert, RevertOpen, Bind, RevertWrite, RevertFailed,
                FailedWrite, Stuck, StuckWrite, UndoneWrite, Writes, WritesRepo, Move, MoveRepo
  <2> QED BY <2>1, <2>2
<1>4. CASE DeliveryStep(c)
  <2>1. UNCHANGED done
    BY <1>4 DEF DeliveryStep, StageWrite, Deploy, Artifact, ArtifactWrite, AcceptingWrite, Accept,
                AcceptWrite, Roll, RollWrite
  <2>2. UNCHANGED receipts
    BY <1>4 DEF DeliveryStep, StageWrite, Deploy, Artifact, ArtifactWrite, AcceptingWrite, Accept,
                AcceptWrite, Roll, RollWrite, Writes, WritesRepo, Move, MoveRepo
  <2> QED BY <2>1, <2>2
<1>5. CASE Call(c) \/ Crash(c)
  BY <1>5 DEF Call, PublishCall, MergeCall, StageCall, ProdCall, Crash
<1> QED BY <1>1, <1>2, <1>3, <1>4, <1>5

LEMMA CallKept ==
    ASSUME TypeInv, NEW c \in Coordinators,
           \/ Look(c) \/ Record(c) \/ PublishStep(c) \/ MergeStep(c) \/ UndoStep(c) \/ DeliveryStep(c)
           \/ Call(c) \/ Crash(c)
    PROVE  Kept
PROOF
<1>1. CASE Look(c) \/ Record(c)
  BY <1>1, StoreKept DEF Look, Record, Reading, gitlabVars, storeVars
<1> QED BY <1>1, CallQuiet, StoreKept

LEMMA OnceKept ==
    ASSUME TypeInv, OnceInv, Kept,
           UNCHANGED job \/ \E c \in Coordinators : Elsewhere(c)
    PROVE  OnceInv'
PROOF
<1>1. \A e \in Effects : done'[e] <= 1 /\ (done'[e] > 0 => receipts'[e].intent)
  BY DEF OnceInv, Kept
<1>2. \A c \in Coordinators : At(c, "perform")' => job'[c] = job[c] /\ At(c, "perform")
  BY DEF Elsewhere, At
<1>3. ASSUME NEW c \in Coordinators, At(c, "perform")'
      PROVE  /\ receipts'[Effect(c)'].intent /\ done'[Effect(c)'] = 0
             /\ \A d \in Coordinators \ {c} : At(d, "perform")' => Effect(d)' # Effect(c)'
  <2>1. At(c, "perform") /\ Effect(c)' = Effect(c)
    BY <1>2, <1>3 DEF Effect
  <2>2. Effect(c) \in Effects
    BY <2>1, CurAt DEF TypeInv, At, Effect, EffectPoints
  <2>3. receipts'[Effect(c)].intent /\ done'[Effect(c)] = 0
    BY <2>1, <2>2 DEF OnceInv, Kept
  <2>4. ASSUME NEW d \in Coordinators \ {c}, At(d, "perform")'
        PROVE  Effect(d)' # Effect(c)'
    <3>1. At(d, "perform") /\ Effect(d)' = Effect(d)
      BY <1>2, <2>4 DEF Effect
    <3> QED BY <2>1, <3>1 DEF OnceInv
  <2> QED BY <2>1, <2>3, <2>4
<1> QED BY <1>1, <1>3 DEF OnceInv

LEMMA OnceIntend ==
    ASSUME TypeInv, OnceInv, NEW c \in Coordinators, Intend(c)
    PROVE  OnceInv'
PROOF
<1> DEFINE e == Effect(c)
<1>1. e \in Effects
  BY CurAt DEF TypeInv, Intend, At, Effect, EffectPoints
<1>2. UNCHANGED done
  BY DEF Intend, gitlabVars
<1>3. CASE Claimed(e)
  <2>1. Raises(c) /\ UNCHANGED receipts
    BY <1>3 DEF Intend
  <2>2. Kept
    BY <1>2, <2>1 DEF Kept
  <2>3. Elsewhere(c)
    BY <2>1, EndsApart DEF TypeInv, Apart
  <2> QED BY <2>2, <2>3, OnceKept
<1>4. CASE ~Claimed(e)
  <2>1. ClaimEffect(e) /\ Goto(c, "perform")
    BY <1>4 DEF Intend
  <2>2. /\ receipts'[e].intent
        /\ \A f \in Effects \ {e} : receipts'[f] = receipts[f]
    BY <1>1, <2>1 DEF ClaimEffect, TypeInv, StoreTypeOK, ReceiptRows
  <2>3. done[e] = 0
    BY <1>1, <1>4 DEF OnceInv, Claimed, TypeInv, GitLabOK
  <2>4. \A d \in Coordinators : At(d, "perform") => Effect(d) # e
    BY <1>4 DEF OnceInv, Claimed
  <2>5. /\ \A d \in Coordinators \ {c} : job'[d] = job[d]
        /\ job'[c].act = job[c].act /\ job'[c].cur = job[c].cur
    BY <2>1 DEF Goto, TypeInv, JobsOK, Jobs
  <2>6. \A d \in Coordinators : Effect(d)' = Effect(d)
    BY <2>5 DEF Effect
  <2>7. \A d \in Coordinators \ {c} : At(d, "perform")' => At(d, "perform") /\ Effect(d) \in Effects
    BY <2>5, CurAt DEF At, Effect, TypeInv, EffectPoints
  <2>8. \A f \in Effects : done'[f] <= 1 /\ (done'[f] > 0 => receipts'[f].intent)
    BY <1>2, <2>2 DEF OnceInv
  <2>9. ASSUME NEW d \in Coordinators, At(d, "perform")'
        PROVE  /\ receipts'[Effect(d)'].intent /\ done'[Effect(d)'] = 0
               /\ \A k \in Coordinators \ {d} : At(k, "perform")' => Effect(k)' # Effect(d)'
    <3>1. CASE d = c
      BY <1>2, <2>2, <2>3, <2>4, <2>6, <2>7, <3>1
    <3>2. CASE d # c
      <4>1. At(d, "perform") /\ Effect(d) \in Effects /\ Effect(d) # e
        BY <2>4, <2>7, <2>9, <3>2
      <4>2. receipts'[Effect(d)'].intent /\ done'[Effect(d)'] = 0
        BY <1>2, <2>2, <2>6, <4>1 DEF OnceInv
      <4>3. ASSUME NEW k \in Coordinators \ {d}, At(k, "perform")'
            PROVE  Effect(k)' # Effect(d)'
        <5>1. CASE k = c
          BY <2>6, <4>1, <5>1
        <5>2. CASE k # c
          BY <2>6, <2>7, <4>1, <4>3, <5>2 DEF OnceInv
        <5> QED BY <5>1, <5>2
      <4> QED BY <4>2, <4>3
    <3> QED BY <3>1, <3>2
  <2> QED BY <2>8, <2>9 DEF OnceInv
<1> QED BY <1>3, <1>4

LEMMA OncePerform ==
    ASSUME TypeInv, OnceInv, NEW c \in Coordinators, Perform(c)
    PROVE  OnceInv'
PROOF
<1> DEFINE e == Effect(c)
<1>1. e \in Effects /\ receipts[e].intent /\ done[e] = 0
  BY CurAt DEF TypeInv, Perform, At, Effect, EffectPoints, OnceInv
<1>2. /\ done'[e] = 1
      /\ \A f \in Effects \ {e} : done'[f] = done[f]
      /\ UNCHANGED receipts
  BY <1>1 DEF Perform, TypeInv, GitLabOK, storeVars
<1>3. /\ \A d \in Coordinators \ {c} : job'[d] = job[d]
      /\ ~At(c, "perform")'
  BY DEF Perform, At, TypeInv, JobsOK, Jobs
<1>4. \A f \in Effects : done'[f] <= 1 /\ (done'[f] > 0 => receipts'[f].intent)
  BY <1>1, <1>2 DEF OnceInv
<1>5. ASSUME NEW d \in Coordinators, At(d, "perform")'
      PROVE  /\ receipts'[Effect(d)'].intent /\ done'[Effect(d)'] = 0
             /\ \A k \in Coordinators \ {d} : At(k, "perform")' => Effect(k)' # Effect(d)'
  <2>1. d # c /\ At(d, "perform") /\ Effect(d)' = Effect(d)
    BY <1>3, <1>5 DEF At, Effect
  <2>2. Effect(d) \in Effects /\ Effect(d) # e
    BY <2>1, CurAt DEF TypeInv, At, Effect, EffectPoints, OnceInv, Perform
  <2>3. receipts'[Effect(d)'].intent /\ done'[Effect(d)'] = 0
    BY <1>2, <2>1, <2>2 DEF OnceInv
  <2>4. ASSUME NEW k \in Coordinators \ {d}, At(k, "perform")'
        PROVE  Effect(k)' # Effect(d)'
    <3>1. At(k, "perform") /\ Effect(k)' = Effect(k)
      BY <1>3, <2>4 DEF At, Effect
    <3> QED BY <2>1, <3>1 DEF OnceInv
  <2> QED BY <2>3, <2>4
<1> QED BY <1>4, <1>5 DEF OnceInv

LEMMA OnceStep ==
    ASSUME TypeInv, OnceInv, [SagaNext]_vars
    PROVE  OnceInv'
PROOF
<1>1. ASSUME NEW c \in Coordinators, CallStep(c) \/ Call(c) \/ Crash(c)
      PROVE  OnceInv'
  <2>1. CASE PerformFails(c)
    <3>1. Elsewhere(c)
      BY <2>1 DEF PerformFails, Elsewhere, TypeInv, JobsOK, Jobs
    <3>2. Kept
      BY <2>1, StoreKept DEF PerformFails, Reading, storeVars, gitlabVars
    <3> QED BY <3>1, <3>2, OnceKept
  <2>2. CASE \/ Look(c) \/ Record(c) \/ PublishStep(c) \/ MergeStep(c) \/ UndoStep(c)
             \/ DeliveryStep(c) \/ Call(c) \/ Crash(c)
    BY <2>2, CallApart, CallKept, OnceKept DEF TypeInv, Apart
  <2> QED BY <1>1, <2>1, <2>2, OnceIntend, OncePerform DEF CallStep, EffectStep
<1>2. CASE Environment
  <2>1. UNCHANGED job /\ UNCHANGED done /\ UNCHANGED receipts
    BY <1>2 DEF Environment, Drift, Rebind, ClientMove, ClientMoveRepo, Move, MoveRepo,
                gitlabVars, storeVars
  <2> QED BY <2>1, StoreKept, OnceKept
<1>3. CASE UNCHANGED vars
  <2>1. UNCHANGED job /\ UNCHANGED done /\ UNCHANGED receipts
    BY <1>3 DEF vars, gitlabVars, storeVars
  <2> QED BY <2>1, StoreKept, OnceKept
<1> QED BY <1>1, <1>2, <1>3 DEF SagaNext

\* No push, merge, revert, deployment or check is done twice, whatever number of
\* coordinators ask for it, are killed on the way or lose the answer: only the
\* one that inserted the intent does it (_effect and _merge_effect).
THEOREM OnceSafe == SagaSpec => []EffectsOnce
PROOF
<1>1. SagaInit => OnceInv
  BY DEF SagaInit, StoreInit, OnceInv, At, Idle
<1>2. TypeInv /\ OnceInv /\ [SagaNext]_vars => OnceInv'
  BY OnceStep
<1>3. OnceInv => EffectsOnce
  BY DEF OnceInv, EffectsOnce
<1> QED BY <1>1, <1>2, <1>3, TypeAlways, PTL DEF SagaSpec

-----------------------------------------------------------------------------
(* The coordinators are callers of the store.                              *)

\* What is about to be recorded is an outcome.
AnswerInv == \A c \in Coordinators : At(c, "record") => job[c].result \in Outcomes

LEMMA AnswerStep ==
    ASSUME TypeInv, AnswerInv, [SagaNext]_vars
    PROVE  AnswerInv'
PROOF
<1>1. ASSUME UNCHANGED job \/ \E c \in Coordinators : Apart(c)
      PROVE  AnswerInv'
  BY <1>1 DEF AnswerInv, Apart, Elsewhere, At
<1>2. ASSUME NEW c \in Coordinators, CallStep(c) \/ Call(c) \/ Crash(c)
      PROVE  AnswerInv'
  <2>1. CASE Perform(c) \/ PerformFails(c)
    <3>1. PICK answer \in Outcomes :
            job' = [job EXCEPT ![c] = [@ EXCEPT !.at = "record", !.result = answer]]
      BY <2>1 DEF Perform, PerformFails, Outcomes
    <3>2. job'[c].result \in Outcomes /\ \A d \in Coordinators \ {c} : job'[d] = job[d]
      BY <3>1 DEF TypeInv, JobsOK, Jobs
    <3> QED BY <3>2 DEF AnswerInv, At
  <2>2. CASE Intend(c)
    <3>1. CASE Raises(c)
      BY <3>1, <1>1, EndsApart DEF TypeInv
    <3>2. CASE Goto(c, "perform")
      <4>1. job'[c].at = "perform" /\ \A d \in Coordinators \ {c} : job'[d] = job[d]
        BY <3>2 DEF Goto, TypeInv, JobsOK, Jobs
      <4> QED BY <4>1 DEF AnswerInv, At
    <3> QED BY <2>2, <3>1, <3>2 DEF Intend
  <2>3. CASE ~(Perform(c) \/ PerformFails(c) \/ Intend(c))
    BY <1>2, <2>3, <1>1, CallApart DEF CallStep, EffectStep, TypeInv
  <2> QED BY <2>1, <2>2, <2>3
<1>3. Environment \/ UNCHANGED vars => UNCHANGED job
  BY DEF Environment, Drift, Rebind, ClientMove, ClientMoveRepo, vars
<1> QED BY <1>1, <1>2, <1>3 DEF SagaNext

LEMMA AnswerAlways == SagaSpec => []AnswerInv
PROOF
<1>1. SagaInit => AnswerInv
  BY DEF SagaInit, AnswerInv, At, Idle
<1>2. TypeInv /\ AnswerInv /\ [SagaNext]_vars => AnswerInv'
  BY AnswerStep
<1> QED BY <1>1, <1>2, TypeAlways, PTL DEF SagaSpec

ReceiptStep ==
    \/ UNCHANGED receipts
    \/ \E e \in Effects :
          \/ ClaimEffect(e)
          \/ \E result \in Outcomes, request \in Nat : RecordEffect(e, result, request)

LEMMA SagaReceipts ==
    ASSUME TypeInv, AnswerInv, SagaNext
    PROVE  ReceiptStep
PROOF
<1>1. ASSUME NEW c \in Coordinators, CallStep(c) \/ Call(c) \/ Crash(c)
      PROVE  ReceiptStep
  <2>1. job[c].at \in EffectPoints => Effect(c) \in Effects
    BY CurAt DEF Effect, TypeInv
  <2>2. CASE Intend(c)
    BY <2>1, <2>2 DEF Intend, At, EffectPoints, ReceiptStep
  <2>3. CASE Record(c)
    <3>1. Effect(c) \in Effects /\ job[c].result \in Outcomes
      BY <2>1, <2>3 DEF Record, At, EffectPoints, AnswerInv
    <3>2. Request(c) \in Nat
      BY DEF TypeInv, JobsOK, Jobs, Request
    <3> QED BY <2>3, <3>1, <3>2 DEF Record, ReceiptStep
  <2>4. CASE Look(c) \/ Perform(c) \/ PerformFails(c)
    BY <2>4 DEF Look, Perform, PerformFails, Reading, storeVars, ReceiptStep
  <2> QED BY <1>1, <2>2, <2>3, <2>4, CallQuiet DEF CallStep, EffectStep, ReceiptStep
<1>2. Environment => UNCHANGED receipts
  BY DEF Environment, Drift, Rebind, ClientMove, ClientMoveRepo, Move, MoveRepo, storeVars
<1> QED BY <1>1, <1>2 DEF SagaNext, ReceiptStep

LEMMA StoreMapped ==
    ASSUME TypeInv, StoreStep, ReceiptStep
    PROVE  [StoreNext]_storeVars
PROOF
<1>1. product.ver \in Nat /\ \A r \in Repos : repo[r].ver \in Nat
  BY VersTyped DEF TypeInv
<1>2. ASSUME NEW target \in Statuses, NEW kind \in Kinds, Move(product.ver, target, kind)
      PROVE  StoreNext
  BY <1>1, <1>2 DEF StoreNext
<1>3. ASSUME NEW r \in Repos, NEW target \in RepoStatuses, NEW kind \in Kinds,
             NEW merge \in BOOLEAN, MoveRepo(r, repo[r].ver, target, kind, merge)
      PROVE  StoreNext
  BY <1>1, <1>3 DEF StoreNext
<1>4. CASE UNCHANGED <<product, repo>>
  BY <1>4 DEF ReceiptStep, StoreNext, storeVars
<1> QED BY <1>2, <1>3, <1>4 DEF StoreStep

\* Whatever the coordinators, the clients and the faults do, the record of the
\* change only ever changes as one method of the store changes it: no step
\* moves two rows, or a row and a receipt (product_merge.py and
\* product_delivery.py over change_set_store.py).
THEOREM SagaImplementsStore == SagaSpec => StoreSpec
PROOF
<1>1. SagaInit => StoreInit
  BY DEF SagaInit
<1>2. TypeInv /\ AnswerInv /\ [SagaNext]_vars => [StoreNext]_storeVars
  <2> SUFFICES ASSUME TypeInv, AnswerInv, [SagaNext]_vars
               PROVE  [StoreNext]_storeVars
    OBVIOUS
  <2>1. CASE SagaNext
    BY <2>1, SafeStep, SagaReceipts, StoreMapped DEF Safe
  <2>2. CASE UNCHANGED vars
    BY <2>2 DEF vars
  <2> QED BY <2>1, <2>2
<1> QED BY <1>1, <1>2, TypeAlways, AnswerAlways, PTL DEF SagaSpec, StoreSpec

-----------------------------------------------------------------------------
(* What the store itself keeps, whoever calls it.                          *)

LEMMA StoreNextCases ==
    ASSUME StoreTypeOK, [StoreNext]_storeVars
    PROVE  \/ \E target \in Statuses, kind \in Kinds : Move(product.ver, target, kind)
           \/ \E r \in Repos, target \in RepoStatuses, kind \in Kinds, merge \in BOOLEAN :
                 MoveRepo(r, repo[r].ver, target, kind, merge)
           \/ UNCHANGED <<product, repo>> /\ ReceiptStep
PROOF
<1>1. ASSUME NEW version, NEW target \in Statuses, NEW kind \in Kinds, Move(version, target, kind)
      PROVE  Move(product.ver, target, kind)
  BY <1>1 DEF Move
<1>2. ASSUME NEW r \in Repos, NEW version, NEW target \in RepoStatuses, NEW kind \in Kinds,
             NEW merge \in BOOLEAN, MoveRepo(r, version, target, kind, merge)
      PROVE  MoveRepo(r, repo[r].ver, target, kind, merge)
  BY <1>2 DEF MoveRepo
<1>3. CASE UNCHANGED storeVars
  BY <1>3 DEF storeVars, ReceiptStep
<1>4. CASE StoreNext
  <2>1. CASE \E version \in Nat, target \in Statuses, kind \in Kinds : Move(version, target, kind)
    BY <2>1, <1>1
  <2>2. CASE \E r \in Repos, version \in Nat, target \in RepoStatuses, kind \in Kinds,
                merge \in BOOLEAN : MoveRepo(r, version, target, kind, merge)
    BY <2>2, <1>2
  <2> QED BY <1>4, <2>1, <2>2 DEF StoreNext, ReceiptStep
<1> QED BY <1>3, <1>4

LEMMA StoreTyped ==
    ASSUME StoreTypeOK, [StoreNext]_storeVars
    PROVE  StoreTypeOK'
PROOF
<1>1. UNCHANGED storeVars => StoreTypeOK'
  BY DEF storeVars, StoreTypeOK
<1>2. ASSUME UNCHANGED <<product, repo>>, NEW e \in Effects,
             \/ ClaimEffect(e)
             \/ \E result \in Outcomes, request \in Nat : RecordEffect(e, result, request)
      PROVE  StoreTypeOK'
  BY <1>2, ReceiptsTyped
<1> QED BY <1>1, <1>2, StoreNextCases, MoveTyped, MoveRepoTyped DEF ReceiptStep, storeVars

LEMMA StoreInitOK == StoreInit => StoreTypeOK /\ RecordInv
PROOF
<1> SUFFICES ASSUME StoreInit PROVE StoreTypeOK /\ RecordInv
  OBVIOUS
<1>1. product \in Rows
  BY Phrases DEF StoreInit, Rows
<1>2. repo \in [Repos -> RepoRows]
  BY Phrases DEF StoreInit, RepoRows, Kinds
<1>3. receipts \in [Effects -> ReceiptRows]
  BY DEF StoreInit, ReceiptRows
<1>4. RecordInv
  BY DEF StoreInit, RecordInv, RecordConsistent, Waiting
<1> QED BY <1>1, <1>2, <1>3, <1>4 DEF StoreTypeOK

LEMMA StoreAlways == StoreSpec => [](StoreTypeOK /\ RecordInv)
PROOF
<1>1. StoreTypeOK /\ RecordInv /\ [StoreNext]_storeVars => (StoreTypeOK /\ RecordInv)'
  <2> SUFFICES ASSUME StoreTypeOK, RecordInv, [StoreNext]_storeVars
               PROVE  (StoreTypeOK /\ RecordInv)'
    OBVIOUS
  <2>1. UNCHANGED <<product, repo>> => RecordInv'
    BY DEF RecordInv, RecordConsistent, Unresolved, Reverted, Mandatory, Landed
  <2>2. RecordInv'
    BY <2>1, StoreNextCases, RecordByMove, RecordByMoveRepo
  <2> QED BY <2>2, StoreTyped
<1> QED BY <1>1, StoreInitOK, PTL DEF StoreSpec

\* The record of the end is consistent for callers of any kind, with whatever
\* version, target and evidence they come: the guards of transition and
\* transition_repo alone see to it (change_set_store.py).
THEOREM StoreRecordSafe == StoreSpec => []RecordConsistent
PROOF
<1>1. RecordInv => RecordConsistent
  BY DEF RecordInv
<1> QED BY <1>1, StoreAlways, PTL

LEMMA MoveStays ==
    ASSUME StoreTypeOK, NEW target \in Statuses, NEW kind, Move(product.ver, target, kind)
    PROVE  RecordStays
PROOF
<1>1. product.ver \in Nat /\ product'.ver = product.ver + 1
  BY VersTyped DEF Move
<1>2. product.approved => product'.approved
  BY DEF Move
<1>3. product.status \notin {"DONE", "FAILED", "ROLLED_BACK"}
  BY ForwardEdges, Phrases DEF Move, MayMove, Waiting
<1>4. UNCHANGED repo /\ UNCHANGED receipts
  BY DEF Move
<1> QED BY <1>1, <1>2, <1>3, <1>4, VersTyped DEF RecordStays

LEMMA MoveRepoStays ==
    ASSUME StoreTypeOK, NEW r \in Repos, NEW target \in RepoStatuses, NEW kind, NEW merge,
           MoveRepo(r, repo[r].ver, target, kind, merge)
    PROVE  RecordStays
PROOF
<1>1. repo[r].ver \in Nat /\ repo'[r].ver = repo[r].ver + 1
  BY VersTyped DEF MoveRepo, StoreTypeOK
<1>2. repo'[r].mandatory => repo[r].mandatory
  BY DEF MoveRepo, StoreTypeOK
<1>3. repo[r].status \notin {"FAILED", "NOT_IMPACTED", "REVERTED"}
  BY RepoEdgeCases, Phrases DEF MoveRepo, MayMoveRepo
<1>4. \A s \in Repos \ {r} : repo'[s] = repo[s]
  BY DEF MoveRepo, StoreTypeOK
<1>5. UNCHANGED product /\ UNCHANGED receipts
  BY DEF MoveRepo
<1>6. ASSUME NEW s \in Repos
      PROVE  /\ repo'[s].ver >= repo[s].ver /\ (repo'[s].ver = repo[s].ver => repo'[s] = repo[s])
             /\ repo[s].status \in {"FAILED", "NOT_IMPACTED", "REVERTED"} => repo'[s] = repo[s]
             /\ repo'[s].mandatory => repo[s].mandatory
  <2>1. repo[s].ver \in Nat
    BY VersTyped
  <2> QED BY <1>1, <1>2, <1>3, <1>4, <2>1
<1> QED BY <1>5, <1>6, VersTyped DEF RecordStays

LEMMA ReceiptStays ==
    ASSUME StoreTypeOK, UNCHANGED <<product, repo>>, ReceiptStep
    PROVE  RecordStays
PROOF
<1>1. ASSUME NEW f \in Effects
      PROVE  /\ receipts[f].intent => receipts'[f].intent
             /\ receipts[f].result # NoReceipt =>
                   /\ receipts'[f].result = receipts[f].result
                   /\ receipts'[f].request = receipts[f].request
  <2>1. CASE UNCHANGED receipts
    BY <2>1
  <2>2. ASSUME NEW e \in Effects, ClaimEffect(e)
        PROVE  /\ receipts[f].intent => receipts'[f].intent
               /\ receipts'[f].result = receipts[f].result
               /\ receipts'[f].request = receipts[f].request
    BY <2>2 DEF ClaimEffect, StoreTypeOK, ReceiptRows
  <2>3. ASSUME NEW e \in Effects, NEW result, NEW request, RecordEffect(e, result, request)
        PROVE  /\ receipts[f].intent => receipts'[f].intent
               /\ receipts[f].result # NoReceipt => receipts'[f] = receipts[f]
    BY <2>3 DEF RecordEffect, StoreTypeOK, ReceiptRows
  <2> QED BY <2>1, <2>2, <2>3 DEF ReceiptStep
<1> QED BY <1>1, VersTyped DEF RecordStays

\* A row that still has the version that was read is the row that was read: the
\* compare-and-set of transition and transition_repo misses no change.  No end
\* is left, no intent withdrawn and no outcome overwritten, whoever calls
\* (change_set_store.py).
THEOREM StoreKeptSafe == StoreSpec => RecordKept
PROOF
<1>1. StoreTypeOK /\ [StoreNext]_storeVars => [RecordStays]_storeVars
  BY StoreNextCases, MoveStays, MoveRepoStays, ReceiptStays
<1> QED BY <1>1, StoreAlways, PTL DEF StoreSpec, RecordKept

\* So it is under the coordinators, the clients and their faults.
THEOREM SagaKeptSafe == SagaSpec => RecordKept
BY SagaImplementsStore, StoreKeptSafe, PTL

-----------------------------------------------------------------------------
(* Nothing is done for a change that nobody approved.                      *)

\* The phases before which no approval is asked for; a hold or a failure may
\* have been entered from one of them.
Asked == {"DRAFT", "PLANNED", "FAILED"} \cup Waiting

\* A change that is worked on is approved, also while it is held; a call is
\* only made for such a change, and works on it to its end.
ApprovalInv ==
    /\ product.status \notin Asked => product.approved
    /\ product.status \in Waiting /\ product.resume \notin Asked => product.approved
    /\ \A c \in Coordinators : ~At(c, "idle") => product.approved
    /\ ApprovedFirst

LEMMA ApprovalByMove ==
    ASSUME StoreTypeOK, RecordInv, ApprovalInv, NEW target \in Statuses, NEW kind,
           Move(product.ver, target, kind)
    PROVE  /\ product'.status \notin Asked => product'.approved
           /\ product'.status \in Waiting /\ product'.resume \notin Asked => product'.approved
PROOF
<1>1. /\ product'.status = target
      /\ target \in Waiting => product'.resume = product.status
      /\ product.approved \/ target = "EXECUTING" => product'.approved
      /\ IF product.status \in Waiting THEN target = product.resume
         ELSE <<product.status, target>> \in Edges
  BY DEF Move, MayMove
<1>2. CASE product.status \in Waiting
  <2>1. target \in Pre
    BY <1>1, <1>2 DEF RecordInv
  <2> QED BY <1>1, <1>2, <2>1, Phrases DEF ApprovalInv, Waiting
<1>3. CASE product.status \notin Waiting
  <2>1. <<product.status, target>> \in Edges
    BY <1>1, <1>3
  <2>2. product.status \in {"DRAFT", "PLANNED"} => target \in Asked \cup {"EXECUTING"}
    BY <2>1, PlannedEdges DEF Asked
  <2>3. product.status # "FAILED"
    BY <2>1, ForwardEdges, Phrases
  <2> QED BY <1>1, <1>3, <2>2, <2>3 DEF ApprovalInv, Asked
<1> QED BY <1>2, <1>3

\* A step of the store, whose jobs and effects are under way for a change that
\* is approved.
LEMMA ApprovalKept ==
    ASSUME TypeInv, RecordInv, ApprovalInv, StoreStep,
           \A c \in Coordinators : ~At(c, "idle")' => product.approved,
           \A e \in Effects : done'[e] = done[e] \/ product.approved
    PROVE  ApprovalInv'
PROOF
<1>1. product.approved => product'.approved
  <2>1. ASSUME NEW target, NEW kind, Move(product.ver, target, kind)
        PROVE  product.approved => product'.approved
    BY <2>1 DEF Move
  <2>2. StoreStep => \/ UNCHANGED product
                     \/ \E target \in Statuses, kind \in Kinds : Move(product.ver, target, kind)
    BY DEF StoreStep, MoveRepo
  <2> QED BY <2>1, <2>2
<1>2. /\ product'.status \notin Asked => product'.approved
      /\ product'.status \in Waiting /\ product'.resume \notin Asked => product'.approved
  <2>1. CASE UNCHANGED product
    BY <2>1 DEF ApprovalInv
  <2>2. StoreStep => \/ UNCHANGED product
                     \/ \E target \in Statuses, kind \in Kinds : Move(product.ver, target, kind)
    BY DEF StoreStep, MoveRepo
  <2> QED BY <2>1, <2>2, ApprovalByMove DEF TypeInv
<1>3. ApprovedFirst'
  BY <1>1 DEF ApprovalInv, ApprovedFirst
<1> QED BY <1>1, <1>2, <1>3 DEF ApprovalInv

LEMMA BusyCall ==
    ASSUME NEW c \in Coordinators, CallStep(c)
    PROVE  ~At(c, "idle")
PROOF
<1> USE DEF At
<1>1. EffectStep(c) \/ PublishStep(c) => ~At(c, "idle")
  BY DEF EffectStep, Look, Intend, Perform, PerformFails, Record,
         PublishStep, Guard, Pipeline, MrWrite, GreenWrite
<1>2. MergeStep(c) => ~At(c, "idle")
  BY DEF MergeStep, Ready, ReadyWrite, StartWrite, Merge, Target, MergeWrite, MergedWrite,
         Broken, BrokenWrite
<1>3. UndoStep(c) => ~At(c, "idle")
  BY DEF UndoStep, Undo, UndoWrite, Revert, RevertOpen, Bind, RevertWrite, RevertFailed,
         FailedWrite, Stuck, StuckWrite, UndoneWrite
<1>4. DeliveryStep(c) => ~At(c, "idle")
  BY DEF DeliveryStep, StageWrite, Deploy, Artifact, ArtifactWrite, AcceptingWrite, Accept,
         AcceptWrite, Roll, RollWrite
<1> QED BY <1>1, <1>2, <1>3, <1>4 DEF CallStep

LEMMA ApprovalStep ==
    ASSUME TypeInv, RecordInv, ApprovalInv, [SagaNext]_vars
    PROVE  ApprovalInv'
PROOF
<1>1. ASSUME NEW c \in Coordinators, CallStep(c) \/ Call(c) \/ Crash(c)
      PROVE  ApprovalInv'
  <2>1. StoreStep
    BY <1>1, SafeStep DEF SagaNext, Safe
  <2>2. product.approved
    <3>1. CallStep(c) \/ Crash(c) => product.approved
      BY BusyCall DEF Crash, ApprovalInv
    <3>2. Call(c) => product.status \notin Asked
      BY DEF Call, PublishCall, Rechecked, MergeCall, StageCall, ProdCall, Asked, Waiting
    <3> QED BY <1>1, <3>1, <3>2 DEF ApprovalInv
  <2> QED BY <2>1, <2>2, ApprovalKept
<1>2. CASE Environment \/ UNCHANGED vars
  <2>1. UNCHANGED job /\ UNCHANGED done
    BY <1>2 DEF Environment, Drift, Rebind, ClientMove, ClientMoveRepo, vars, gitlabVars
  <2>2. StoreStep
    BY <1>2, SafeStep DEF SagaNext, Safe, StoreStep, vars, storeVars
  <2>3. \A c \in Coordinators : ~At(c, "idle")' => product.approved
    BY <2>1 DEF ApprovalInv, At
  <2> QED BY <2>1, <2>2, <2>3, ApprovalKept
<1> QED BY <1>1, <1>2 DEF SagaNext

\* Whatever a stale or restarted coordinator, a client or a fault does, no
\* branch is pushed, nothing merged, reverted or deployed for a change set
\* without its recorded approval, and none is lost on the way
\* (change_set.py, transition to EXECUTING; the entry checks of
\* product_publication.py, product_merge.py and product_delivery.py).
THEOREM ApprovedSafe == SagaSpec => []ApprovedFirst
PROOF
<1>1. SagaInit => ApprovalInv /\ RecordInv
  BY DEF SagaInit, StoreInit, ApprovalInv, ApprovedFirst, Asked, Waiting, At, Idle,
         RecordInv, RecordConsistent
<1>2. TypeInv /\ RecordInv /\ ApprovalInv /\ [SagaNext]_vars => RecordInv' /\ ApprovalInv'
  BY RecordStep, ApprovalStep
<1>3. ApprovalInv => ApprovedFirst
  BY DEF ApprovalInv
<1> QED BY <1>1, <1>2, <1>3, TypeAlways, PTL DEF SagaSpec

-----------------------------------------------------------------------------
(* The record and GitLab.                                                  *)

Post == product.status \notin Pre \cup Waiting
Rolling == product.status \in {"ROLLING_BACK", "ROLLED_BACK", "ROLLBACK_FAILED"}
Undone == {"REVERT_OPEN", "REVERTED", "ROLLBACK_FAILED"}
Gone == {"merged", "reverted"}
Did(act, r) == done[<<act, r>>] > 0

\* c is at one of these points, or an effect of this kind is under way.
Doing(c, points, act) ==
    job[c].at \in points \/ (job[c].at \in EffectPoints /\ job[c].act = act)

\* What a call relies on: what it has done itself or seen done, in the order of
\* its loop, and the phase of the product, which is not left.
MergeFits(c) ==
    LET j == job[c]
    IN  /\ Doing(c, {"merge", "target", "merge_write"}, "merge") =>
              Post /\ \A d \in Mandatory \ j.todo : mr[d] \in Gone
        /\ Doing(c, {"target", "merge_write"}, "merge") => j.cur \in Lowest(j.todo)
        /\ j.at = "merge_write" => mr[j.cur] \in Gone

UndoFits(c) ==
    LET j == job[c]
    IN  /\ Doing(c, {"revert", "revert_open", "bind", "revert_write"}, "revert") =>
              Rolling /\ \A r \in Mandatory \ j.todo : r \notin Unresolved
        /\ Doing(c, {"revert_open", "bind", "revert_write"}, "revert") => j.cur \in Highest(j.todo)
        /\ Doing(c, {"bind", "revert_write"}, "revert") => repo[j.cur].status \in Undone
        /\ j.at = "revert_write" => mr[j.cur] = "reverted"

DeployFits(c) ==
    LET j == job[c]
    IN  /\ Doing(c, {"deploy", "artifact", "artifact_write", "accepting_write"}, "deliver_stage") =>
              Post /\ \A d \in Mandatory \ j.todo : Did("deliver_stage", d)
        /\ j.at \in {"artifact", "artifact_write"} => Did("deliver_stage", j.cur)
        /\ j.at = "accepting_write" => j.todo = {}

AcceptFits(c) ==
    LET j == job[c]
    IN  /\ Doing(c, {"accept", "accept_write"}, "accept_stage") =>
              /\ Post
              /\ \A d \in Mandatory : Did("deliver_stage", d)
              /\ \A d \in Mandatory \ j.todo : Did("accept_stage", d)
        /\ j.at = "accept_write" => j.todo = {}

EffectFits(c) ==
    LET j == job[c]
    IN  /\ j.at = "record" /\ j.result # "unavailable" => Did(j.act, j.cur)
        /\ Doing(c, {}, "deliver_prod") => product.status = "DONE"

Fits(c) == MergeFits(c) /\ UndoFits(c) /\ DeployFits(c) /\ AcceptFits(c) /\ EffectFits(c)

AllFit == \A c \in Coordinators : Fits(c)

\* The merge request goes one way, and the receipts and the record follow it.
RequestInv == \A r \in Repos : /\ mr[r] # "none" => Did("mr_open", r)
                               /\ Did("merge", r) => mr[r] \in Gone
                               /\ Did("revert", r) => mr[r] = "reverted"
ReceiptInv == \A e \in Effects : receipts[e].result \in {"passed", "negative"} => done[e] > 0
RowInv ==
    \A r \in Repos : /\ repo[r].status = "BLOCKED" => repo[r].resume \in RepoPre
                     /\ repo[r].status \in Undone => Rolling
                     /\ repo[r].status \in {"MERGED", "ARTIFACT_READY"} => mr[r] = "merged"
DoneInv ==
    /\ product.status = "DONE" =>
          \A r \in Mandatory : Did("deliver_stage", r) /\ Did("accept_stage", r)
    /\ done[<<"deliver_prod", Product>>] > 0 => product.status = "DONE"

RealInv == RequestInv /\ ReceiptInv /\ RowInv /\ DoneInv /\ RollbackIsReal /\ DependencyOrder

LEMMA RepoMoves ==
    ASSUME TypeInv, RowInv, NEW r \in Repos, NEW version, NEW target, NEW kind, NEW merge,
           MoveRepo(r, version, target, kind, merge)
    PROVE  /\ repo'[r].status = target
           /\ repo'[r].mandatory = (repo[r].mandatory /\ target # "NOT_IMPACTED")
           /\ target = "BLOCKED" => repo'[r].resume = repo[r].status /\ repo[r].status \in RepoPre
           /\ \A s \in Repos \ {r} : repo'[s] = repo[s]
           /\ UNCHANGED <<product, receipts>>
           /\ product.status \in Phases(target)
           /\ \/ repo[r].status = "BLOCKED" /\ target \in RepoPre
              \/ /\ repo[r].status \in RepoPre
                 /\ target \in RepoPre \cup {"MERGED", "BLOCKED", "FAILED", "NOT_IMPACTED"}
                 /\ target = "MERGED" => repo[r].status = "READY_TO_MERGE"
              \/ repo[r].status = "MERGED" /\ target \in {"ARTIFACT_READY", "REVERT_OPEN"}
              \/ repo[r].status \in {"ARTIFACT_READY", "ROLLBACK_FAILED"} /\ target = "REVERT_OPEN"
              \/ repo[r].status = "REVERT_OPEN" /\ target \in {"REVERTED", "ROLLBACK_FAILED"}
PROOF
<1>1. /\ repo'[r].status = target
      /\ repo'[r].mandatory = (repo[r].mandatory /\ target # "NOT_IMPACTED")
      /\ target = "BLOCKED" => repo'[r].resume = repo[r].status
      /\ \A s \in Repos \ {r} : repo'[s] = repo[s]
      /\ UNCHANGED <<product, receipts>>
  BY DEF MoveRepo, TypeInv, StoreTypeOK
<1>2. /\ product.status \in Phases(target)
      /\ \/ <<repo[r].status, target>> \in RepoEdges
         \/ repo[r].status = "BLOCKED" /\ target = repo[r].resume
  BY DEF MoveRepo, MayMoveRepo
<1>3. CASE repo[r].status = "BLOCKED" /\ target = repo[r].resume
  BY <1>1, <1>2, <1>3, Phrases DEF RowInv
<1>4. CASE <<repo[r].status, target>> \in RepoEdges
  BY <1>1, <1>2, <1>4, RepoEdgeCases, Phrases
<1> QED BY <1>2, <1>3, <1>4

LEMMA ProductMoves ==
    ASSUME TypeInv, RecordInv, NEW version, NEW target, NEW kind, Move(version, target, kind)
    PROVE  /\ product'.status = target
           /\ UNCHANGED <<repo, receipts>>
           /\ Post => Post'
           /\ Rolling => Rolling'
           /\ product.status # "DONE"
           /\ target = "DONE" => kind = "stage_acceptance"
PROOF
<1>1. product'.status = target /\ UNCHANGED <<repo, receipts>>
  BY DEF Move
<1>2. IF product.status \in Waiting THEN target = product.resume
      ELSE <<product.status, target>> \in Edges
  BY DEF Move, MayMove
<1>3. CASE product.status \in Waiting
  BY <1>1, <1>2, <1>3, Phrases DEF RecordInv, Post, Rolling, Waiting, Move, MayMove
<1>4. CASE product.status \notin Waiting
  <2>1. <<product.status, target>> \in Edges
    BY <1>2, <1>4
  <2> QED BY <1>1, <2>1, ForwardEdges, Phrases DEF Post, Rolling, Waiting, Move, MayMove
<1> QED BY <1>3, <1>4

-----------------------------------------------------------------------------
(* What no step takes back.                                                *)

Steady ==
    /\ \A e \in Effects : done[e] > 0 => done'[e] > 0
    /\ \A r \in Repos : /\ mr[r] \in Gone => mr'[r] \in Gone
                        /\ mr[r] = "reverted" => mr'[r] = "reverted"
                        /\ repo[r].status \in Undone => repo'[r].status \in Undone
    /\ Mandatory' \subseteq Mandatory
    /\ Post => Post' /\ Mandatory' = Mandatory
    /\ Rolling => Rolling' /\ Unresolved' \subseteq Unresolved
    /\ product.status = "DONE" => product'.status = "DONE"

LEMMA SteadyStore ==
    ASSUME TypeInv, RecordInv, RowInv, StoreStep, UNCHANGED <<mr, done>>
    PROVE  Steady
PROOF
<1> USE DEF Post, Rolling, Undone
<1>1. \A e \in Effects : done[e] > 0 => done'[e] > 0
  OBVIOUS
<1>2. ASSUME NEW target \in Statuses, NEW kind \in Kinds, Move(product.ver, target, kind)
      PROVE  Steady
  <2>1. /\ UNCHANGED repo /\ (Post => Post') /\ (Rolling => Rolling') /\ product.status # "DONE"
    BY <1>2, ProductMoves
  <2>2. UNCHANGED <<Mandatory, Unresolved>>
    BY <2>1 DEF Mandatory, Unresolved
  <2> QED BY <1>1, <2>1, <2>2 DEF Steady
<1>3. ASSUME NEW r \in Repos, NEW target \in RepoStatuses, NEW kind \in Kinds, NEW merge \in BOOLEAN,
             MoveRepo(r, repo[r].ver, target, kind, merge)
      PROVE  Steady
  <2>1. /\ repo'[r].status = target
        /\ repo'[r].mandatory = (repo[r].mandatory /\ target # "NOT_IMPACTED")
        /\ \A s \in Repos \ {r} : repo'[s] = repo[s]
        /\ UNCHANGED product
        /\ product.status \in Phases(target)
    BY <1>3, RepoMoves
  <2>2. \/ repo[r].status = "BLOCKED" /\ target \in RepoPre
        \/ repo[r].status \in RepoPre
        \/ repo[r].status = "MERGED" /\ target \in {"ARTIFACT_READY", "REVERT_OPEN"}
        \/ repo[r].status \in {"ARTIFACT_READY", "ROLLBACK_FAILED"} /\ target = "REVERT_OPEN"
        \/ repo[r].status = "REVERT_OPEN" /\ target \in {"REVERTED", "ROLLBACK_FAILED"}
    BY <1>3, RepoMoves
  <2>3. repo[r].status \in Undone => target \in Undone
    BY <2>2, Phrases
  <2>4. \A s \in Repos : repo[s].status \in Undone => repo'[s].status \in Undone
    BY <2>1, <2>3
  <2>5. Mandatory' \subseteq Mandatory
    BY <2>1 DEF Mandatory
  <2>6. Post => target # "NOT_IMPACTED"
    BY <2>1, Phrases DEF Phases
  <2>7. Post => Mandatory' = Mandatory
    <3>1. target # "NOT_IMPACTED" => repo'[r].mandatory = repo[r].mandatory
      BY <2>1 DEF TypeInv, StoreTypeOK, RepoRows
    <3> QED BY <2>1, <2>6, <3>1 DEF Mandatory
  <2>8. Rolling => target \in Undone
    BY <2>1 DEF Phases
  <2>9. Rolling => repo[r].status \in {"MERGED", "ARTIFACT_READY", "ROLLBACK_FAILED", "REVERT_OPEN"}
    BY <2>2, <2>8, Phrases, RepoMoves, <1>3
  <2>10. Rolling => Unresolved' \subseteq Unresolved
    BY <2>1, <2>9 DEF Unresolved
  <2>11. /\ Post => Post'
         /\ Rolling => Rolling'
         /\ product.status = "DONE" => product'.status = "DONE"
    BY <2>1
  <2> QED BY <1>1, <2>4, <2>5, <2>7, <2>10, <2>11 DEF Steady
<1>4. CASE UNCHANGED <<product, repo>>
  BY <1>1, <1>4 DEF Steady, Mandatory, Unresolved
<1> QED BY <1>2, <1>3, <1>4 DEF StoreStep

\* What an effect does, and to whom.
LEMMA PerformDoes ==
    ASSUME TypeInv, OnceInv, RequestInv, NEW c \in Coordinators, Perform(c)
    PROVE  /\ <<job[c].act, job[c].cur>> \in Effects
           /\ job[c].act \in Acts => job[c].cur \in Repos
           /\ \A e \in Effects : done[e] > 0 => done'[e] > 0
           /\ done'[<<job[c].act, job[c].cur>>] = 1
           /\ \A e \in Effects \ {<<job[c].act, job[c].cur>>} : done'[e] = done[e]
           /\ \A r \in Repos : r # job[c].cur => mr'[r] = mr[r]
           /\ job[c].act \in {"mr_open", "merge", "revert"} => job[c].cur \in Repos
           /\ job[c].act = "mr_open" => mr[job[c].cur] = "none" /\ mr'[job[c].cur] = "opened"
           /\ job[c].act = "merge" => mr[job[c].cur] = "opened" /\ mr'[job[c].cur] = "merged"
           /\ job[c].act = "revert" => mr[job[c].cur] = "merged" /\ mr'[job[c].cur] = "reverted"
           /\ job[c].act \notin {"mr_open", "merge", "revert"} => mr' = mr
           /\ UNCHANGED storeVars
PROOF
<1> DEFINE e == <<job[c].act, job[c].cur>>
<1>1. e \in Effects /\ done[e] = 0
  BY CurAt DEF TypeInv, Perform, At, Effect, EffectPoints, OnceInv
<1>2. job[c].act \in Acts => job[c].cur \in Repos
  BY <1>1, EffectCur DEF Acts
<1>3. /\ done'[e] = 1
      /\ \A f \in Effects \ {e} : done'[f] = done[f]
      /\ \A f \in Effects : done[f] > 0 => done'[f] > 0
  BY <1>1 DEF Perform, Effect, TypeInv, GitLabOK
<1>4. job[c].act \in {"mr_open", "merge", "revert"} => job[c].cur \in Repos
  BY <1>2 DEF Acts
<1>5. job[c].act = "mr_open" => mr[job[c].cur] = "none" /\ mr'[job[c].cur] = "opened"
  <2>1. job[c].act = "mr_open" => ~Did("mr_open", job[c].cur)
    BY <1>1 DEF Did
  <2> QED BY <1>4, <2>1 DEF RequestInv, Perform, TypeInv, GitLabOK
<1>6. /\ job[c].act = "merge" => mr[job[c].cur] = "opened" /\ mr'[job[c].cur] = "merged"
      /\ job[c].act = "revert" => mr[job[c].cur] = "merged" /\ mr'[job[c].cur] = "reverted"
      /\ job[c].act \notin {"mr_open", "merge", "revert"} => mr' = mr
      /\ \A r \in Repos : r # job[c].cur => mr'[r] = mr[r]
      /\ UNCHANGED storeVars
  BY <1>4 DEF Perform, Doable, TypeInv, GitLabOK
<1> QED BY <1>1, <1>2, <1>3, <1>4, <1>5, <1>6

LEMMA SteadyPerform ==
    ASSUME TypeInv, OnceInv, RequestInv, NEW c \in Coordinators, Perform(c)
    PROVE  Steady
PROOF
<1>1. \A e \in Effects : done[e] > 0 => done'[e] > 0
  BY PerformDoes
<1>2. \A r \in Repos : /\ mr[r] \in Gone => mr'[r] \in Gone
                       /\ mr[r] = "reverted" => mr'[r] = "reverted"
  BY PerformDoes DEF Gone
<1>3. UNCHANGED <<product, repo>>
  BY PerformDoes DEF storeVars
<1> QED BY <1>1, <1>2, <1>3 DEF Steady, Mandatory, Unresolved, Post, Rolling

\* GitLab changes by Perform only.
LEMMA GitLabKept ==
    ASSUME SagaNext
    PROVE  UNCHANGED <<mr, done>> \/ \E c \in Coordinators : Perform(c)
PROOF
<1> USE DEF gitlabVars, Reading
<1>1. ASSUME NEW c \in Coordinators, EffectStep(c), ~Perform(c)
      PROVE  UNCHANGED <<mr, done>>
  BY <1>1 DEF EffectStep, Look, Intend, PerformFails, Record
<1>2. ASSUME NEW c \in Coordinators, PublishStep(c)
      PROVE  UNCHANGED <<mr, done>>
  BY <1>2 DEF PublishStep, Guard, Pipeline, MrWrite, GreenWrite
<1>3. ASSUME NEW c \in Coordinators, MergeStep(c)
      PROVE  UNCHANGED <<mr, done>>
  BY <1>3 DEF MergeStep, Ready, ReadyWrite, StartWrite, Merge, Target, MergeWrite, MergedWrite,
              Broken, BrokenWrite
<1>4. ASSUME NEW c \in Coordinators, UndoStep(c)
      PROVE  UNCHANGED <<mr, done>>
  BY <1>4 DEF UndoStep, Undo, UndoWrite, Revert, RevertOpen, Bind, RevertWrite, RevertFailed,
              FailedWrite, Stuck, StuckWrite, UndoneWrite
<1>5. ASSUME NEW c \in Coordinators, DeliveryStep(c)
      PROVE  UNCHANGED <<mr, done>>
  BY <1>5 DEF DeliveryStep, StageWrite, Deploy, Artifact, ArtifactWrite, AcceptingWrite, Accept,
              AcceptWrite, Roll, RollWrite
<1>6. ASSUME NEW c \in Coordinators, Call(c) \/ Crash(c)
      PROVE  UNCHANGED <<mr, done>>
  BY <1>6 DEF Call, PublishCall, MergeCall, StageCall, ProdCall, Crash
<1>7. Environment => UNCHANGED <<mr, done>>
  BY DEF Environment, Drift, Rebind, ClientMove, ClientMoveRepo
<1> QED BY <1>1, <1>2, <1>3, <1>4, <1>5, <1>6, <1>7 DEF SagaNext, CallStep

LEMMA SteadyStep ==
    ASSUME TypeInv, RecordInv, OnceInv, RealInv, SagaNext
    PROVE  Steady
PROOF
<1>1. StoreStep
  BY SafeStep DEF Safe
<1>2. CASE UNCHANGED <<mr, done>>
  BY <1>1, <1>2, SteadyStore DEF RealInv
<1>3. CASE \E c \in Coordinators : Perform(c)
  BY <1>3, SteadyPerform DEF RealInv
<1> QED BY <1>2, <1>3, GitLabKept

\* A call that does not move keeps what it relies on.
LEMMA FitsSteady ==
    ASSUME TypeInv, Steady, NEW c \in Coordinators, Fits(c), job'[c] = job[c]
    PROVE  Fits(c)'
PROOF
<1> DEFINE j == job[c]
<1>1. j \in Jobs /\ j.cur \in Repos \cup {Product} /\ j.todo \subseteq Repos
  BY DEF TypeInv, JobsOK, Jobs
<1>2. j.at \in RepoPoints => j.cur \in Repos
  BY DEF TypeInv, JobsOK, Sound
<1>3. j.at \in EffectPoints => <<j.act, j.cur>> \in Effects /\ (j.act \in Acts => j.cur \in Repos)
  BY EffectCur DEF TypeInv, JobsOK, Sound, Acts
<1>4. Mandatory \subseteq Repos
  BY DEF Mandatory
<1>5. \A act \in Acts, r \in Repos : Did(act, r) => Did(act, r)'
  BY EffectOf DEF Steady, Did
<1>6. MergeFits(c)'
  <2>1. j.at = "merge_write" => j.cur \in Repos
    BY <1>2 DEF RepoPoints
  <2> QED BY <1>4, <2>1 DEF Fits, MergeFits, Doing, Steady
<1>7. UndoFits(c)'
  <2>1. Doing(c, {"bind", "revert_write"}, "revert") => j.cur \in Repos
    BY <1>2, <1>3 DEF RepoPoints, Doing, Acts
  <2>2. Rolling => Post
    BY Phrases DEF Rolling, Post, Waiting
  <2>3. j.at = "revert_write" => j.cur \in Repos
    BY <1>2 DEF RepoPoints
  <2>4. Doing(c, {"revert", "revert_open", "bind", "revert_write"}, "revert")' =>
          Rolling' /\ \A r \in Mandatory' \ j.todo : r \notin Unresolved'
    BY <2>2 DEF Fits, UndoFits, Doing, Steady
  <2>5. Doing(c, {"revert_open", "bind", "revert_write"}, "revert")' => j.cur \in Highest(j.todo)
    BY DEF Fits, UndoFits, Doing
  <2>6. Doing(c, {"bind", "revert_write"}, "revert")' => repo'[j.cur].status \in Undone
    BY <2>1 DEF Fits, UndoFits, Doing, Steady
  <2>7. j.at = "revert_write" => mr'[j.cur] = "reverted"
    BY <2>3 DEF Fits, UndoFits, Steady
  <2> QED BY <2>4, <2>5, <2>6, <2>7 DEF UndoFits, Undone, Highest
<1>8. DeployFits(c)'
  <2>1. j.at \in {"artifact", "artifact_write"} => j.cur \in Repos
    BY <1>2 DEF RepoPoints
  <2>2. "deliver_stage" \in Acts
    BY DEF Acts
  <2> QED BY <1>4, <1>5, <2>1, <2>2 DEF Fits, DeployFits, Doing, Steady
<1>9. AcceptFits(c)'
  <2>1. "deliver_stage" \in Acts /\ "accept_stage" \in Acts
    BY DEF Acts
  <2> QED BY <1>4, <1>5, <2>1 DEF Fits, AcceptFits, Doing, Steady
<1>10. EffectFits(c)'
  <2>1. j.at = "record" /\ j.result # "unavailable" => done'[<<j.act, j.cur>>] > 0
    BY <1>3 DEF Fits, EffectFits, Did, Steady, EffectPoints
  <2> QED BY <2>1 DEF Fits, EffectFits, Doing, Steady, Did
<1> QED BY <1>6, <1>7, <1>8, <1>9, <1>10 DEF Fits

-----------------------------------------------------------------------------
(* The record follows GitLab.                                              *)

LEMMA RealPerform ==
    ASSUME TypeInv, OnceInv, RealInv, NEW c \in Coordinators, Fits(c), Perform(c)
    PROVE  RealInv'
PROOF
<1> DEFINE act == job[c].act
           x == job[c].cur
<1>1. /\ \A e \in Effects : done[e] > 0 => done'[e] > 0
      /\ \A e \in Effects \ {<<act, x>>} : done'[e] = done[e]
      /\ act \in {"mr_open", "merge", "revert"} => x \in Repos
      /\ act = "mr_open" => mr[x] = "none" /\ mr'[x] = "opened"
      /\ act = "merge" => mr[x] = "opened" /\ mr'[x] = "merged"
      /\ act = "revert" => mr[x] = "merged" /\ mr'[x] = "reverted"
      /\ act \notin {"mr_open", "merge", "revert"} => mr' = mr
      /\ \A r \in Repos : r # x => mr'[r] = mr[r]
      /\ done'[<<act, x>>] = 1
  BY PerformDoes DEF RealInv
<1>2. UNCHANGED <<product, repo, receipts>>
  BY PerformDoes DEF RealInv, storeVars
<1>3. UNCHANGED <<Mandatory, Unresolved, Reverted>>
  BY <1>2 DEF Mandatory, Unresolved, Reverted
<1>4. job[c].at = "perform" /\ "perform" \in EffectPoints
  BY DEF Perform, At, EffectPoints
<1>5. act = "revert" => /\ repo[x].status \in Undone
                        /\ x \in Highest(job[c].todo)
                        /\ \A r \in Mandatory \ job[c].todo : r \notin Unresolved
  BY <1>4 DEF Fits, UndoFits, Doing
<1>6. act = "merge" => /\ x \in Lowest(job[c].todo)
                       /\ \A r \in Mandatory \ job[c].todo : mr[r] \in Gone
  BY <1>4 DEF Fits, MergeFits, Doing
<1>7. act = "deliver_prod" => product.status = "DONE"
  BY <1>4 DEF Fits, EffectFits, Doing
<1>8. RequestInv'
  <2>1. ASSUME NEW r \in Repos, mr'[r] # "none"
        PROVE  done'[<<"mr_open", r>>] > 0
    <3>1. <<"mr_open", r>> \in Effects
      BY EffectOf DEF Acts
    <3>2. CASE mr[r] # "none"
      BY <1>1, <3>1, <3>2 DEF RealInv, RequestInv, Did
    <3>3. CASE mr[r] = "none"
      <4>1. act = "mr_open" /\ x = r
        BY <1>1, <2>1, <3>3
      <4> QED BY <1>1, <4>1
    <3> QED BY <3>2, <3>3
  <2>2. ASSUME NEW r \in Repos, done'[<<"merge", r>>] > 0
        PROVE  mr'[r] \in Gone
    <3>1. <<"merge", r>> \in Effects
      BY EffectOf DEF Acts
    <3>2. CASE <<"merge", r>> = <<act, x>>
      BY <1>1, <3>2 DEF Gone
    <3>3. CASE <<"merge", r>> # <<act, x>>
      <4>1. mr[r] \in Gone
        BY <1>1, <2>2, <3>1, <3>3 DEF RealInv, RequestInv, Did
      <4> QED BY <1>1, <4>1 DEF Gone
    <3> QED BY <3>2, <3>3
  <2>3. ASSUME NEW r \in Repos, done'[<<"revert", r>>] > 0
        PROVE  mr'[r] = "reverted"
    <3>1. <<"revert", r>> \in Effects
      BY EffectOf DEF Acts
    <3>2. CASE <<"revert", r>> = <<act, x>>
      BY <1>1, <3>2
    <3>3. CASE <<"revert", r>> # <<act, x>>
      <4>1. mr[r] = "reverted"
        BY <1>1, <2>3, <3>1, <3>3 DEF RealInv, RequestInv, Did
      <4> QED BY <1>1, <4>1
    <3> QED BY <3>2, <3>3
  <2> QED BY <2>1, <2>2, <2>3 DEF RequestInv, Did, Gone
<1>9. ReceiptInv'
  BY <1>1, <1>2 DEF RealInv, ReceiptInv
<1>10. RowInv'
  <2>1. ASSUME NEW r \in Repos, repo[r].status \in {"MERGED", "ARTIFACT_READY"}
        PROVE  mr'[r] = "merged"
    <3>1. mr[r] = "merged"
      BY <2>1 DEF RealInv, RowInv
    <3>2. ~(act = "revert" /\ x = r)
      BY <1>5, <2>1 DEF Undone
    <3> QED BY <1>1, <3>1, <3>2
  <2> QED BY <1>2, <2>1 DEF RealInv, RowInv, Rolling, Undone
<1>11. DoneInv'
  <2>1. \A r \in Mandatory : r \in Repos
    BY DEF Mandatory
  <2>2. \A r \in Repos : <<"deliver_stage", r>> \in Effects /\ <<"accept_stage", r>> \in Effects
    BY EffectOf DEF Acts
  <2>3. <<"deliver_prod", Product>> \in Effects
    BY DEF Effects
  <2>4. product.status = "DONE" =>
          \A r \in Mandatory : done'[<<"deliver_stage", r>>] > 0 /\ done'[<<"accept_stage", r>>] > 0
    BY <1>1, <2>1, <2>2 DEF RealInv, DoneInv, Did
  <2>5. done'[<<"deliver_prod", Product>>] > 0 => product.status = "DONE"
    BY <1>1, <1>7, <2>3 DEF RealInv, DoneInv
  <2> QED BY <1>2, <1>3, <2>4, <2>5 DEF DoneInv, Did
<1>12. RollbackIsReal'
  <2>1. \A r \in Reverted : mr'[r] = "reverted"
    <3>1. \A r \in Reverted : r \in Repos /\ mr[r] = "reverted"
      BY DEF RealInv, RollbackIsReal, Reverted
    <3> QED BY <1>1, <3>1
  <2>2. \A r \in Unresolved : mr'[r] \in {"merged", "reverted"}
    <3>1. \A r \in Unresolved : r \in Repos /\ mr[r] \in {"merged", "reverted"}
      BY DEF RealInv, RollbackIsReal, Unresolved
    <3> QED BY <1>1, <3>1
  <2>3. \A r \in Repos : mr'[r] = "reverted" =>
           repo[r].status \in {"REVERT_OPEN", "REVERTED", "ROLLBACK_FAILED"}
    BY <1>1, <1>5 DEF RealInv, RollbackIsReal, Undone
  <2> QED BY <1>2, <1>3, <2>1, <2>2, <2>3 DEF RollbackIsReal
<1>13. DependencyOrder'
  <2>1. ASSUME NEW r \in Mandatory, NEW d \in Deps[r] \cap Mandatory
        PROVE  /\ mr'[r] = "merged" => mr'[d] \in {"merged", "reverted"}
               /\ mr'[d] = "reverted" => r \notin Unresolved
    <3>1. /\ r \in Repos /\ d \in Repos /\ Rank[d] < Rank[r]
          /\ Rank[d] \in Nat /\ Rank[r] \in Nat
      BY <2>1, ChangeSetAssumption DEF Mandatory
    <3>2. /\ mr[r] = "merged" => mr[d] \in {"merged", "reverted"}
          /\ mr[d] = "reverted" => r \notin Unresolved
      BY <2>1 DEF RealInv, DependencyOrder
    <3>3. mr[d] \in {"merged", "reverted"} => mr'[d] \in {"merged", "reverted"}
      BY <1>1, <3>1
    <3>4. CASE act = "merge" /\ x = r
      <4>1. d \notin job[c].todo
        BY <1>6, <3>1, <3>4 DEF Lowest
      <4>2. mr[d] \in {"merged", "reverted"}
        BY <1>6, <2>1, <3>4, <4>1 DEF Gone
      <4>3. mr'[d] = mr[d]
        BY <1>1, <3>1, <3>4
      <4> QED BY <3>2, <4>2, <4>3
    <3>5. CASE act = "revert" /\ x = d
      <4>1. r \notin job[c].todo
        BY <1>5, <3>1, <3>5 DEF Highest
      <4>2. r \notin Unresolved
        BY <1>5, <2>1, <3>5, <4>1
      <4>3. mr'[r] = mr[r]
        BY <1>1, <3>1, <3>5
      <4> QED BY <3>2, <3>3, <4>2, <4>3
    <3>6. CASE ~(act = "merge" /\ x = r) /\ ~(act = "revert" /\ x = d)
      <4>1. mr'[r] = "merged" => mr[r] = "merged"
        BY <1>1, <3>1, <3>6
      <4>2. mr'[d] = "reverted" => mr[d] = "reverted"
        BY <1>1, <3>1, <3>6
      <4> QED BY <3>2, <3>3, <4>1, <4>2
    <3> QED BY <3>4, <3>5, <3>6
  <2> QED BY <1>3, <2>1 DEF DependencyOrder
<1> QED BY <1>8, <1>9, <1>10, <1>11, <1>12, <1>13 DEF RealInv

\* Nothing is recorded that was not done.
Earned ==
    /\ \A r \in Repos :
          /\ repo'[r].status = "MERGED" /\ repo[r].status # "MERGED" => mr[r] \in Gone
          /\ repo'[r].status = "REVERTED" /\ repo[r].status # "REVERTED" => mr[r] = "reverted"
    /\ product'.status = "DONE" /\ product.status # "DONE" =>
          \A r \in Mandatory : Did("deliver_stage", r) /\ Did("accept_stage", r)
    /\ ReceiptInv'

LEMMA RealByMove ==
    ASSUME TypeInv, RecordInv, RealInv, Earned, UNCHANGED <<mr, done>>,
           NEW target \in Statuses, NEW kind \in Kinds, Move(product.ver, target, kind)
    PROVE  RealInv'
PROOF
<1>1. /\ UNCHANGED repo /\ (Rolling => Rolling') /\ product.status # "DONE"
  BY ProductMoves
<1>2. UNCHANGED <<Mandatory, Unresolved, Reverted>>
  BY <1>1 DEF Mandatory, Unresolved, Reverted
<1>3. RequestInv' /\ ReceiptInv'
  BY DEF RealInv, RequestInv, Did, Earned
<1>4. RowInv'
  BY <1>1 DEF RealInv, RowInv
<1>5. DoneInv'
  BY <1>1, <1>2 DEF RealInv, DoneInv, Earned, Did
<1>6. RollbackIsReal' /\ DependencyOrder'
  BY <1>1, <1>2 DEF RealInv, RollbackIsReal, DependencyOrder
<1> QED BY <1>3, <1>4, <1>5, <1>6 DEF RealInv

LEMMA RealByMoveRepo ==
    ASSUME TypeInv, RecordInv, RealInv, Earned, UNCHANGED <<mr, done>>,
           NEW x \in Repos, NEW target \in RepoStatuses, NEW kind \in Kinds, NEW merge \in BOOLEAN,
           MoveRepo(x, repo[x].ver, target, kind, merge)
    PROVE  RealInv'
PROOF
<1>0. RowInv
  BY DEF RealInv
<1>1. /\ repo'[x].status = target
      /\ target = "BLOCKED" => repo'[x].resume = repo[x].status /\ repo[x].status \in RepoPre
      /\ \A s \in Repos \ {x} : repo'[s] = repo[s]
      /\ UNCHANGED <<product, receipts>>
      /\ product.status \in Phases(target)
  BY <1>0, RepoMoves
<1>2. \/ repo[x].status = "BLOCKED" /\ target \in RepoPre
      \/ /\ repo[x].status \in RepoPre
         /\ target \in RepoPre \cup {"MERGED", "BLOCKED", "FAILED", "NOT_IMPACTED"}
      \/ repo[x].status = "MERGED" /\ target \in {"ARTIFACT_READY", "REVERT_OPEN"}
      \/ repo[x].status \in {"ARTIFACT_READY", "ROLLBACK_FAILED"} /\ target = "REVERT_OPEN"
      \/ repo[x].status = "REVERT_OPEN" /\ target \in {"REVERTED", "ROLLBACK_FAILED"}
  BY <1>0, RepoMoves
<1>3. Mandatory' \subseteq Mandatory /\ (product.status = "DONE" => Mandatory' = Mandatory)
  <2>1. Steady
    BY <1>0, SteadyStore DEF StoreStep
  <2>2. product.status = "DONE" => Post
    BY Phrases DEF Post, Waiting
  <2> QED BY <2>1, <2>2 DEF Steady
<1>4. target \in Undone => Rolling
  BY <1>1 DEF Phases, Undone, Rolling
<1>5. target = "MERGED" => ~Rolling /\ repo[x].status \in RepoPre /\ mr[x] \in Gone
  <2>1. target = "MERGED" => ~Rolling
    BY <1>1 DEF Phases, Rolling
  <2>2. target = "MERGED" => repo[x].status \in RepoPre
    BY <1>2, Phrases
  <2> QED BY <1>1, <2>1, <2>2, Phrases DEF Earned
<1>6. RequestInv' /\ ReceiptInv'
  BY DEF RealInv, RequestInv, Did, Earned
<1>7. target \in {"MERGED", "ARTIFACT_READY"} => mr[x] = "merged"
  <2>1. CASE target = "MERGED"
    <3>1. repo[x].status \notin {"REVERT_OPEN", "REVERTED", "ROLLBACK_FAILED"}
      BY <1>5, <2>1, Phrases
    <3> QED BY <1>5, <2>1, <3>1 DEF Gone, RealInv, RollbackIsReal
  <2>2. CASE target = "ARTIFACT_READY"
    <3>1. repo[x].status = "MERGED"
      BY <1>2, <2>2, Phrases
    <3> QED BY <1>0, <3>1 DEF RowInv
  <2> QED BY <2>1, <2>2
<1>8. RowInv'
  BY <1>0, <1>1, <1>4, <1>7 DEF RowInv, Rolling, Undone
<1>9. DoneInv'
  BY <1>1, <1>3 DEF RealInv, DoneInv, Did
<1>10. RollbackIsReal'
  <2>1. \A r \in Reverted' : mr'[r] = "reverted"
    <3>1. target = "REVERTED" => mr[x] = "reverted"
      <4>1. target = "REVERTED" => repo[x].status # "REVERTED"
        BY <1>2, Phrases
      <4> QED BY <1>1, <4>1 DEF Earned
    <3> QED BY <1>1, <3>1 DEF RealInv, RollbackIsReal, Reverted
  <2>2. \A r \in Unresolved' : mr'[r] \in {"merged", "reverted"}
    <3>1. target \in {"REVERT_OPEN", "ROLLBACK_FAILED"} => x \in Unresolved
      BY <1>2, Phrases DEF Unresolved
    <3> QED BY <1>1, <1>7, <3>1 DEF RealInv, RollbackIsReal, Unresolved
  <2>3. \A r \in Repos : mr'[r] = "reverted" =>
           repo'[r].status \in {"REVERT_OPEN", "REVERTED", "ROLLBACK_FAILED"}
    <3>1. repo[x].status \in {"REVERT_OPEN", "REVERTED", "ROLLBACK_FAILED"} =>
            target \in {"REVERT_OPEN", "REVERTED", "ROLLBACK_FAILED"}
      BY <1>2, Phrases
    <3> QED BY <1>1, <3>1 DEF RealInv, RollbackIsReal
  <2> QED BY <2>1, <2>2, <2>3 DEF RollbackIsReal
<1>11. DependencyOrder'
  <2>1. ASSUME NEW r \in Mandatory', NEW d \in Deps[r] \cap Mandatory'
        PROVE  /\ mr[r] = "merged" => mr[d] \in {"merged", "reverted"}
               /\ mr[d] = "reverted" => r \notin Unresolved'
    <3>1. r \in Mandatory /\ d \in Deps[r] \cap Mandatory /\ r \in Repos /\ d \in Repos
      BY <1>3 DEF Mandatory
    <3>2. /\ mr[r] = "merged" => mr[d] \in {"merged", "reverted"}
          /\ mr[d] = "reverted" => r \notin Unresolved
      BY <3>1 DEF RealInv, DependencyOrder
    <3>3. mr[d] = "reverted" => Rolling
      BY <1>0, <3>1 DEF RealInv, RollbackIsReal, RowInv, Undone
    <3>4. Rolling => Unresolved' \subseteq Unresolved
      <4>1. Steady
        BY <1>0, SteadyStore DEF StoreStep
      <4> QED BY <4>1 DEF Steady
    <3> QED BY <3>2, <3>3, <3>4
  <2> QED BY <2>1 DEF DependencyOrder
<1> QED BY <1>6, <1>8, <1>9, <1>10, <1>11 DEF RealInv

LEMMA RealByStore ==
    ASSUME TypeInv, RecordInv, RealInv, StoreStep, Earned, UNCHANGED <<mr, done>>
    PROVE  RealInv'
PROOF
<1>1. CASE UNCHANGED <<product, repo>>
  <2>1. UNCHANGED <<Mandatory, Unresolved, Reverted>>
    BY <1>1 DEF Mandatory, Unresolved, Reverted
  <2>2. RequestInv' /\ ReceiptInv' /\ DoneInv'
    BY <1>1, <2>1 DEF RealInv, RequestInv, Did, Earned, DoneInv
  <2>3. RowInv' /\ RollbackIsReal' /\ DependencyOrder'
    BY <1>1, <2>1 DEF RealInv, RowInv, RollbackIsReal, DependencyOrder, Rolling
  <2> QED BY <2>2, <2>3 DEF RealInv
<1> QED BY <1>1, RealByMove, RealByMoveRepo DEF StoreStep

-----------------------------------------------------------------------------
(* Every step records what was done only.                                  *)

LEMMA EarnedByRepo ==
    ASSUME TypeInv, RealInv, UNCHANGED done, NEW x \in Repos, NEW target \in RepoStatuses,
           NEW version, NEW kind \in Kinds, NEW merge \in BOOLEAN,
           MoveRepo(x, version, target, kind, merge) \/ UNCHANGED storeVars,
           target = "MERGED" => mr[x] \in Gone,
           target = "REVERTED" => mr[x] = "reverted"
    PROVE  Earned
PROOF
<1>1. UNCHANGED <<product, receipts>>
  BY DEF MoveRepo, storeVars
<1>2. \A r \in Repos : repo'[r].status # repo[r].status => r = x /\ repo'[r].status = target
  BY DEF MoveRepo, storeVars, TypeInv, StoreTypeOK
<1>3. ReceiptInv'
  BY <1>1 DEF RealInv, ReceiptInv
<1> QED BY <1>1, <1>2, <1>3 DEF Earned

LEMMA EarnedByProduct ==
    ASSUME TypeInv, RealInv, UNCHANGED done, NEW target, NEW version, NEW kind,
           Move(version, target, kind) \/ UNCHANGED storeVars,
           target = "DONE" =>
               \A r \in Mandatory : Did("deliver_stage", r) /\ Did("accept_stage", r)
    PROVE  Earned
PROOF
<1>1. UNCHANGED <<repo, receipts>>
  BY DEF Move, storeVars
<1>2. product'.status # product.status => product'.status = target
  BY DEF Move, storeVars
<1>3. ReceiptInv'
  BY <1>1 DEF RealInv, ReceiptInv
<1> QED BY <1>1, <1>2, <1>3 DEF Earned

LEMMA EarnedByRead ==
    ASSUME TypeInv, RealInv, UNCHANGED <<storeVars, done>>
    PROVE  Earned
BY DEF Earned, storeVars, RealInv, ReceiptInv

LEMMA EarnedByEffect ==
    ASSUME TypeInv, RealInv, NEW c \in Coordinators, Fits(c), EffectStep(c), ~Perform(c)
    PROVE  Earned
PROOF
<1> DEFINE e == Effect(c)
<1>1. job[c].at \in EffectPoints => e \in Effects
  BY CurAt DEF Effect, TypeInv
<1>2. CASE Look(c) \/ PerformFails(c)
  BY <1>2, EarnedByRead DEF Look, PerformFails, Reading, gitlabVars
<1>3. CASE Intend(c)
  <2>1. e \in Effects
    BY <1>1, <1>3 DEF Intend, At, EffectPoints
  <2>2. \A f \in Effects : receipts'[f].result = receipts[f].result
    BY <1>3, <2>1 DEF Intend, ClaimEffect, TypeInv, StoreTypeOK, ReceiptRows
  <2>3. UNCHANGED <<product, repo, done>>
    BY <1>3 DEF Intend, gitlabVars
  <2> QED BY <2>2, <2>3 DEF Earned, RealInv, ReceiptInv
<1>4. CASE Record(c)
  <2>1. e \in Effects
    BY <1>1, <1>4 DEF Record, At, EffectPoints
  <2>2. job[c].result # "unavailable" => done[e] > 0
    BY <1>4 DEF Record, At, Fits, EffectFits, Did, Effect
  <2>3. \A f \in Effects : receipts'[f].result # receipts[f].result =>
            f = e /\ receipts'[f].result = job[c].result
    BY <1>4, <2>1 DEF Record, RecordEffect, TypeInv, StoreTypeOK, ReceiptRows
  <2>4. UNCHANGED <<product, repo, done>>
    BY <1>4 DEF Record, gitlabVars
  <2>5. ReceiptInv'
    BY <2>2, <2>3, <2>4 DEF RealInv, ReceiptInv
  <2> QED BY <2>4, <2>5 DEF Earned
<1> QED BY <1>2, <1>3, <1>4 DEF EffectStep

LEMMA EarnedByCall ==
    ASSUME TypeInv, RealInv, NEW c \in Coordinators, Fits(c),
           PublishStep(c) \/ MergeStep(c) \/ UndoStep(c) \/ DeliveryStep(c) \/ Call(c) \/ Crash(c)
    PROVE  Earned
PROOF
<1> USE Phrases DEF gitlabVars, Kinds
<1>1. CASE PublishStep(c)
  <2>1. CASE Guard(c) \/ Pipeline(c)
    BY <2>1, EarnedByRead DEF Guard, Pipeline, Reading
  <2>2. CASE MrWrite(c)
    <3>1. job[c].cur \in Repos /\ job[c].saw \in BOOLEAN
      BY <2>2, CurAt DEF MrWrite, At, RepoPoints, TypeInv
    <3>2. MoveRepo(job[c].cur, job[c].ver, "MR_OPEN", "work", FALSE) \/ UNCHANGED storeVars
      BY <2>2 DEF MrWrite, WritesRepo
    <3>3. UNCHANGED done
      BY <2>2 DEF MrWrite
    <3> QED BY <3>1, <3>2, <3>3, EarnedByRepo
  <2>3. CASE GreenWrite(c)
    <3>1. job[c].cur \in Repos /\ job[c].saw \in BOOLEAN
      BY <2>3, CurAt DEF GreenWrite, At, RepoPoints, TypeInv
    <3>2. MoveRepo(job[c].cur, job[c].ver, "PIPELINE_GREEN", "exact_sha_pipeline", FALSE) \/ UNCHANGED storeVars
      BY <2>3 DEF GreenWrite, WritesRepo
    <3>3. UNCHANGED done
      BY <2>3 DEF GreenWrite
    <3> QED BY <3>1, <3>2, <3>3, EarnedByRepo
  <2> QED BY <1>1, <2>1, <2>2, <2>3 DEF PublishStep
<1>2. CASE MergeStep(c)
  <2>1. CASE Ready(c) \/ Merge(c) \/ Target(c) \/ Broken(c)
    BY <2>1, EarnedByRead DEF Ready, Merge, Target, Broken, Reading
  <2>2. CASE ReadyWrite(c)
    <3>1. job[c].cur \in Repos /\ job[c].saw \in BOOLEAN
      BY <2>2, CurAt DEF ReadyWrite, At, RepoPoints, TypeInv
    <3>2. MoveRepo(job[c].cur, job[c].ver, "READY_TO_MERGE", "work", FALSE) \/ UNCHANGED storeVars
      BY <2>2 DEF ReadyWrite, WritesRepo
    <3>3. UNCHANGED done
      BY <2>2 DEF ReadyWrite
    <3> QED BY <3>1, <3>2, <3>3, EarnedByRepo
  <2>3. CASE MergeWrite(c)
    <3>1. job[c].cur \in Repos /\ mr[job[c].cur] \in Gone
      BY <2>3, CurAt DEF MergeWrite, At, RepoPoints, TypeInv, Fits, MergeFits
    <3>2. MoveRepo(job[c].cur, job[c].ver, "MERGED", "work", TRUE) \/ UNCHANGED storeVars
      BY <2>3 DEF MergeWrite, WritesRepo
    <3>3. UNCHANGED done
      BY <2>3 DEF MergeWrite
    <3> QED BY <3>1, <3>2, <3>3, EarnedByRepo
  <2>4. CASE StartWrite(c)
    BY <2>4, EarnedByProduct DEF StartWrite, Writes
  <2>5. CASE BrokenWrite(c)
    BY <2>5, EarnedByProduct DEF BrokenWrite, Writes
  <2>6. CASE MergedWrite(c)
    BY <2>6, EarnedByProduct DEF MergedWrite, Writes
  <2> QED BY <1>2, <2>1, <2>2, <2>3, <2>4, <2>5, <2>6 DEF MergeStep
<1>3. CASE UndoStep(c)
  <2>1. CASE Undo(c) \/ Revert(c) \/ Bind(c) \/ RevertFailed(c) \/ Stuck(c)
    BY <2>1, EarnedByRead DEF Undo, Revert, Bind, RevertFailed, Stuck, Reading
  <2>2. CASE RevertOpen(c)
    <3>1. job[c].cur \in Repos /\ job[c].saw \in BOOLEAN
      BY <2>2, CurAt DEF RevertOpen, At, RepoPoints, TypeInv
    <3>2. MoveRepo(job[c].cur, job[c].ver, "REVERT_OPEN", "work", job[c].saw) \/ UNCHANGED storeVars
      BY <2>2 DEF RevertOpen, WritesRepo
    <3>3. UNCHANGED done
      BY <2>2 DEF RevertOpen
    <3> QED BY <3>1, <3>2, <3>3, EarnedByRepo
  <2>3. CASE RevertWrite(c)
    <3>1. job[c].cur \in Repos /\ mr[job[c].cur] = "reverted"
      BY <2>3, CurAt DEF RevertWrite, At, RepoPoints, TypeInv, Fits, UndoFits
    <3>2. MoveRepo(job[c].cur, job[c].ver, "REVERTED", "work", FALSE) \/ UNCHANGED storeVars
      BY <2>3 DEF RevertWrite, WritesRepo
    <3>3. UNCHANGED done
      BY <2>3 DEF RevertWrite
    <3> QED BY <3>1, <3>2, <3>3, EarnedByRepo
  <2>4. CASE FailedWrite(c)
    <3>1. job[c].cur \in Repos /\ job[c].saw \in BOOLEAN
      BY <2>4, CurAt DEF FailedWrite, At, RepoPoints, TypeInv
    <3>2. MoveRepo(job[c].cur, job[c].ver, "ROLLBACK_FAILED", "failure", job[c].saw) \/ UNCHANGED storeVars
      BY <2>4 DEF FailedWrite, WritesRepo
    <3>3. UNCHANGED done
      BY <2>4 DEF FailedWrite
    <3> QED BY <3>1, <3>2, <3>3, EarnedByRepo
  <2>5. CASE UndoWrite(c)
    BY <2>5, EarnedByProduct DEF UndoWrite, Writes
  <2>6. CASE StuckWrite(c)
    BY <2>6, EarnedByProduct DEF StuckWrite, Writes
  <2>7. CASE UndoneWrite(c)
    BY <2>7, EarnedByProduct DEF UndoneWrite, Writes
  <2> QED BY <1>3, <2>1, <2>2, <2>3, <2>4, <2>5, <2>6, <2>7 DEF UndoStep
<1>4. CASE DeliveryStep(c)
  <2>1. CASE Deploy(c) \/ Artifact(c) \/ Accept(c) \/ Roll(c)
    BY <2>1, EarnedByRead DEF Deploy, Artifact, Accept, Roll, Reading
  <2>2. CASE ArtifactWrite(c)
    <3>1. job[c].cur \in Repos /\ job[c].saw \in BOOLEAN
      BY <2>2, CurAt DEF ArtifactWrite, At, RepoPoints, TypeInv
    <3>2. MoveRepo(job[c].cur, job[c].ver, "ARTIFACT_READY", "work", FALSE) \/ UNCHANGED storeVars
      BY <2>2 DEF ArtifactWrite, WritesRepo
    <3>3. UNCHANGED done
      BY <2>2 DEF ArtifactWrite
    <3> QED BY <3>1, <3>2, <3>3, EarnedByRepo
  <2>3. CASE StageWrite(c)
    BY <2>3, EarnedByProduct DEF StageWrite, Writes
  <2>4. CASE AcceptingWrite(c)
    BY <2>4, EarnedByProduct DEF AcceptingWrite, Writes
  <2>5. CASE RollWrite(c)
    BY <2>5, EarnedByProduct DEF RollWrite, Writes
  <2>6. CASE AcceptWrite(c)
    <3>1. \A r \in Mandatory : Did("deliver_stage", r) /\ Did("accept_stage", r)
      BY <2>6 DEF AcceptWrite, At, Fits, AcceptFits, Doing
    <3> QED BY <2>6, <3>1, EarnedByProduct DEF AcceptWrite, Writes
  <2> QED BY <1>4, <2>1, <2>2, <2>3, <2>4, <2>5, <2>6 DEF DeliveryStep
<1>5. CASE Call(c) \/ Crash(c)
  BY <1>5, EarnedByRead DEF Call, PublishCall, MergeCall, StageCall, ProdCall, Crash, Reading
<1> QED BY <1>1, <1>2, <1>3, <1>4, <1>5

LEMMA EarnedByOthers ==
    ASSUME TypeInv, RealInv, Environment
    PROVE  Earned
PROOF
<1> USE DEF gitlabVars
<1>1. ASSUME NEW target \in Statuses, NEW kind \in ClientKinds, ClientMove(target, kind)
      PROVE  Earned
  <2>1. target # "DONE"
    BY <1>1, Phrases DEF ClientMove, Waiting
  <2> QED BY <1>1, <2>1, EarnedByProduct DEF ClientMove
<1>2. ASSUME NEW r \in Repos, NEW target \in RepoStatuses, NEW kind \in ClientKinds,
             ClientMoveRepo(r, target, kind)
      PROVE  Earned
  <2>1. MoveRepo(r, repo[r].ver, target, kind, FALSE)
    BY <1>2 DEF ClientMoveRepo
  <2>2. repo[r].status = "BLOCKED" => target \in RepoPre
    BY <2>1, RepoMoves, Phrases DEF RealInv
  <2>3. target \notin {"MERGED", "REVERTED"}
    BY <1>2, <2>2, Phrases DEF ClientMoveRepo
  <2>4. kind \in Kinds
    BY DEF ClientKinds, Kinds
  <2>5. UNCHANGED done
    BY <1>2 DEF ClientMoveRepo
  <2> QED BY <2>1, <2>3, <2>4, <2>5, EarnedByRepo
<1>3. CASE Rebind \/ \E r \in Repos : Drift(r)
  BY <1>3, EarnedByRead DEF Rebind, Drift
<1> QED BY <1>1, <1>2, <1>3 DEF Environment

LEMMA RealStep ==
    ASSUME TypeInv, RecordInv, OnceInv, RealInv, AllFit, SagaNext
    PROVE  RealInv'
PROOF
<1>1. ASSUME NEW c \in Coordinators, Perform(c)
      PROVE  RealInv'
  BY <1>1, RealPerform DEF AllFit
<1>2. ASSUME NEW c \in Coordinators, CallStep(c) \/ Call(c) \/ Crash(c), ~Perform(c)
      PROVE  Earned
  BY <1>2, EarnedByEffect, EarnedByCall DEF AllFit, CallStep
<1>3. CASE ~\E c \in Coordinators : Perform(c)
  <2>1. Earned
    BY <1>2, <1>3, EarnedByOthers DEF SagaNext
  <2>2. UNCHANGED <<mr, done>>
    BY <1>3, GitLabKept
  <2>3. StoreStep
    BY SafeStep DEF Safe
  <2> QED BY <2>1, <2>2, <2>3, RealByStore
<1> QED BY <1>1, <1>3

-----------------------------------------------------------------------------
(* Every step leaves its call with what it relies on.                      *)

LEMMA NewJob ==
    ASSUME JobsOK, NEW c \in Coordinators
    PROVE  /\ End(c) => job'[c].at = "idle"
           /\ \A p, todo : Begin(c, p, todo) => job'[c].at = p /\ job'[c].todo = todo
           /\ \A p : Goto(c, p) => /\ job'[c].at = p /\ job'[c].todo = job[c].todo
                                   /\ job'[c].cur = job[c].cur /\ job'[c].act = job[c].act
                                   /\ job'[c].result = job[c].result
           /\ \A p : Proceed(c, p) => job'[c].at = p /\ job'[c].todo = job[c].todo \ {job[c].cur}
           /\ \A r, saw : Skip(c, r, saw) =>
                  job'[c].at = job[c].at /\ job'[c].todo = job[c].todo \ {r}
           /\ \A p : Onward(c, p) => /\ job'[c].at = p /\ job'[c].todo = job[c].todo
                                     /\ job'[c].cur = job[c].cur
           /\ \A p : ReadProduct(c, p) => job'[c].at = p /\ job'[c].todo = job[c].todo
           /\ \A r, p, saw : ReadRepo(c, r, p, saw) =>
                  job'[c].at = p /\ job'[c].todo = job[c].todo /\ job'[c].cur = r
           /\ \A r, act : Attempt(c, r, act) => /\ job'[c].at = "look" /\ job'[c].todo = job[c].todo
                                                /\ job'[c].cur = r /\ job'[c].act = act
           /\ \A p, saw : Leave(c, p, saw) => /\ job'[c].at = p /\ job'[c].todo = job[c].todo
                                              /\ job'[c].cur = job[c].cur
           /\ \A p : Abandon(c, p) => job'[c].at = p
PROOF
<1>1. job \in [Coordinators -> Jobs] /\ job[c] \in Jobs
  BY DEF JobsOK
<1> USE DEF Jobs
<1>2. End(c) => job'[c].at = "idle"
  BY <1>1 DEF End, Idle
<1>3. \A p, todo : Begin(c, p, todo) => job'[c].at = p /\ job'[c].todo = todo
  BY <1>1 DEF Begin, Fresh, Idle
<1>4. \A p : Goto(c, p) => /\ job'[c].at = p /\ job'[c].todo = job[c].todo
                           /\ job'[c].cur = job[c].cur /\ job'[c].act = job[c].act
                           /\ job'[c].result = job[c].result
  BY <1>1 DEF Goto
<1>5. \A p : Proceed(c, p) => job'[c].at = p /\ job'[c].todo = job[c].todo \ {job[c].cur}
  BY <1>1 DEF Proceed
<1>6. \A r, saw : Skip(c, r, saw) => job'[c].at = job[c].at /\ job'[c].todo = job[c].todo \ {r}
  BY <1>1 DEF Skip
<1>7. \A p : Onward(c, p) => /\ job'[c].at = p /\ job'[c].todo = job[c].todo
                             /\ job'[c].cur = job[c].cur
  BY <1>1 DEF Onward
<1>8. \A p : ReadProduct(c, p) => job'[c].at = p /\ job'[c].todo = job[c].todo
  BY <1>1 DEF ReadProduct
<1>9. \A r, p, saw : ReadRepo(c, r, p, saw) =>
          job'[c].at = p /\ job'[c].todo = job[c].todo /\ job'[c].cur = r
  BY <1>1 DEF ReadRepo
<1>10. \A r, act : Attempt(c, r, act) => /\ job'[c].at = "look" /\ job'[c].todo = job[c].todo
                                         /\ job'[c].cur = r /\ job'[c].act = act
  BY <1>1 DEF Attempt
<1>11. \A p, saw : Leave(c, p, saw) => /\ job'[c].at = p /\ job'[c].todo = job[c].todo
                                       /\ job'[c].cur = job[c].cur
  BY <1>1 DEF Leave
<1>12. \A p : Abandon(c, p) => job'[c].at = p
  BY <1>1 DEF Abandon, Idle
<1> QED BY <1>2, <1>3, <1>4, <1>5, <1>6, <1>7, <1>8, <1>9, <1>10, <1>11, <1>12

MergePoints == {"merge", "target", "merge_write"}
UndoPoints == {"revert", "revert_open", "bind", "revert_write"}
DeployPoints == {"deploy", "artifact", "artifact_write", "accepting_write"}
AcceptPoints == {"accept", "accept_write"}
BusyPoints == MergePoints \cup UndoPoints \cup DeployPoints \cup AcceptPoints \cup EffectPoints

\* A call is in one of its loops, or relies on nothing.
LEMMA OneLoop ==
    ASSUME NEW c \in Coordinators
    PROVE  /\ job'[c].at \notin BusyPoints => Fits(c)'
           /\ job'[c].at = "look" /\ job'[c].act \in {"push", "mr_open"} => Fits(c)'
           /\ MergeFits(c)' /\ job'[c].at \in MergePoints => Fits(c)'
           /\ MergeFits(c)' /\ job'[c].at = "look" /\ job'[c].act = "merge" => Fits(c)'
           /\ UndoFits(c)' /\ job'[c].at \in UndoPoints => Fits(c)'
           /\ UndoFits(c)' /\ job'[c].at = "look" /\ job'[c].act = "revert" => Fits(c)'
           /\ DeployFits(c)' /\ job'[c].at \in DeployPoints => Fits(c)'
           /\ DeployFits(c)' /\ job'[c].at = "look" /\ job'[c].act = "deliver_stage" => Fits(c)'
           /\ AcceptFits(c)' /\ job'[c].at \in AcceptPoints => Fits(c)'
           /\ AcceptFits(c)' /\ job'[c].at = "look" /\ job'[c].act = "accept_stage" => Fits(c)'
           /\ /\ job'[c].at = "look" /\ job'[c].act = "deliver_prod" /\ product'.status = "DONE"
              => Fits(c)'
PROOF
<1> USE DEF BusyPoints, MergePoints, UndoPoints, DeployPoints, AcceptPoints, EffectPoints, Doing
<1>1. job'[c].at \in UndoPoints \cup DeployPoints \cup AcceptPoints
        \/ job'[c].at \notin BusyPoints
        \/ (job'[c].at = "look" /\ job'[c].act # "merge") => MergeFits(c)'
  BY DEF MergeFits
<1>2. job'[c].at \in MergePoints \cup DeployPoints \cup AcceptPoints
        \/ job'[c].at \notin BusyPoints
        \/ (job'[c].at = "look" /\ job'[c].act # "revert") => UndoFits(c)'
  BY DEF UndoFits
<1>3. job'[c].at \in MergePoints \cup UndoPoints \cup AcceptPoints
        \/ job'[c].at \notin BusyPoints
        \/ (job'[c].at = "look" /\ job'[c].act # "deliver_stage") => DeployFits(c)'
  BY DEF DeployFits
<1>4. job'[c].at \in MergePoints \cup UndoPoints \cup DeployPoints
        \/ job'[c].at \notin BusyPoints
        \/ (job'[c].at = "look" /\ job'[c].act # "accept_stage") => AcceptFits(c)'
  BY DEF AcceptFits
<1>5. job'[c].at \notin EffectPoints \/ (job'[c].at = "look" /\ job'[c].act # "deliver_prod")
        \/ (job'[c].at = "look" /\ product'.status = "DONE") => EffectFits(c)'
  BY DEF EffectFits
<1>6. Fits(c)' <=> /\ MergeFits(c)' /\ UndoFits(c)' /\ DeployFits(c)' /\ AcceptFits(c)'
                   /\ EffectFits(c)'
  BY DEF Fits
<1>7. job'[c].at \notin BusyPoints => Fits(c)'
  BY <1>1, <1>2, <1>3, <1>4, <1>5, <1>6
<1>8. job'[c].at = "look" /\ job'[c].act \in {"push", "mr_open"} => Fits(c)'
  BY <1>1, <1>2, <1>3, <1>4, <1>5, <1>6
<1>9. MergeFits(c)' /\ job'[c].at \in MergePoints => Fits(c)'
  BY <1>2, <1>3, <1>4, <1>5, <1>6
<1>10. MergeFits(c)' /\ job'[c].at = "look" /\ job'[c].act = "merge" => Fits(c)'
  BY <1>2, <1>3, <1>4, <1>5, <1>6
<1>11. UndoFits(c)' /\ job'[c].at \in UndoPoints => Fits(c)'
  BY <1>1, <1>3, <1>4, <1>5, <1>6
<1>12. UndoFits(c)' /\ job'[c].at = "look" /\ job'[c].act = "revert" => Fits(c)'
  BY <1>1, <1>3, <1>4, <1>5, <1>6
<1>13. DeployFits(c)' /\ job'[c].at \in DeployPoints => Fits(c)'
  BY <1>1, <1>2, <1>4, <1>5, <1>6
<1>14. DeployFits(c)' /\ job'[c].at = "look" /\ job'[c].act = "deliver_stage" => Fits(c)'
  BY <1>1, <1>2, <1>4, <1>5, <1>6
<1>15. AcceptFits(c)' /\ job'[c].at \in AcceptPoints => Fits(c)'
  BY <1>1, <1>2, <1>3, <1>5, <1>6
<1>16. AcceptFits(c)' /\ job'[c].at = "look" /\ job'[c].act = "accept_stage" => Fits(c)'
  BY <1>1, <1>2, <1>3, <1>5, <1>6
<1>17. job'[c].at = "look" /\ job'[c].act = "deliver_prod" /\ product'.status = "DONE" => Fits(c)'
  BY <1>1, <1>2, <1>3, <1>4, <1>5, <1>6
<1> QED BY <1>7, <1>8, <1>9, <1>10, <1>11, <1>12, <1>13, <1>14, <1>15, <1>16, <1>17

\* Nothing that a call relies on changes.
Quiet == UNCHANGED <<product, repo, mr, done>>

LEMMA QuietSame ==
    ASSUME Quiet
    PROVE  /\ UNCHANGED <<Mandatory, Unresolved, Post, Rolling>>
           /\ Landed' = Landed
           /\ \A act, r : Did(act, r)' = Did(act, r)
BY DEF Quiet, Mandatory, Unresolved, Post, Rolling, Landed, Did

\* An effect goes on.
LEMMA SameEffect ==
    ASSUME TypeInv, Steady, NEW c \in Coordinators, Fits(c),
           job[c].at \in EffectPoints, job'[c].at \in EffectPoints,
           job'[c].act = job[c].act, job'[c].cur = job[c].cur, job'[c].todo = job[c].todo,
           job'[c].at = "record" /\ job'[c].result # "unavailable" => Did(job[c].act, job[c].cur)'
    PROVE  Fits(c)'
PROOF
<1> DEFINE j == job[c]
<1> USE DEF EffectPoints
<1>1. Mandatory \subseteq Repos /\ (j.act \in Acts => j.cur \in Repos)
  BY CurAt, EffectCur DEF Mandatory, TypeInv, Acts
<1>2. \A act \in Acts, r \in Repos : done[<<act, r>>] > 0 => done'[<<act, r>>] > 0
  BY EffectOf DEF Steady
<1>3. MergeFits(c)'
  BY <1>1 DEF Fits, MergeFits, Doing, Steady
<1>4. UndoFits(c)'
  <2>1. Rolling => Post
    BY Phrases DEF Rolling, Post, Waiting
  <2>2. j.act = "revert" => j.cur \in Repos
    BY <1>1 DEF Acts
  <2>3. Doing(c, UndoPoints, "revert")' =>
          Rolling' /\ \A r \in Mandatory' \ j.todo : r \notin Unresolved'
    BY <2>1 DEF Fits, UndoFits, Doing, Steady, UndoPoints
  <2>4. Doing(c, UndoPoints, "revert")' => j.cur \in Highest(j.todo)
    BY DEF Fits, UndoFits, Doing, UndoPoints
  <2>5. Doing(c, UndoPoints, "revert")' => repo'[j.cur].status \in Undone
    BY <2>2 DEF Fits, UndoFits, Doing, Steady, UndoPoints
  <2>6. job'[c].cur = j.cur /\ job'[c].todo = j.todo /\ job'[c].at \in EffectPoints
    OBVIOUS
  <2> QED BY <2>3, <2>4, <2>5, <2>6 DEF UndoFits, Doing, UndoPoints, Undone, Highest
<1>5. DeployFits(c)'
  <2>1. "deliver_stage" \in Acts
    BY DEF Acts
  <2> QED BY <1>1, <1>2, <2>1 DEF Fits, DeployFits, Doing, Steady, Did
<1>6. AcceptFits(c)'
  <2>1. "deliver_stage" \in Acts /\ "accept_stage" \in Acts
    BY DEF Acts
  <2> QED BY <1>1, <1>2, <2>1 DEF Fits, AcceptFits, Doing, Steady, Did
<1>7. EffectFits(c)'
  <2>1. Doing(c, {}, "deliver_prod")' => product'.status = "DONE"
    BY DEF Fits, EffectFits, Doing, Steady
  <2> QED BY <2>1 DEF EffectFits
<1> QED BY <1>3, <1>4, <1>5, <1>6, <1>7 DEF Fits

\* It raises.
LEMMA RaisesFits ==
    ASSUME TypeInv, NEW c \in Coordinators, Raises(c)
    PROVE  Fits(c)'
PROOF
<1>1. job'[c].at \in {"broken", "roll", "revert_failed", "idle"}
  BY NewJob DEF Raises, TypeInv
<1>2. job'[c].at \notin BusyPoints
  BY <1>1 DEF BusyPoints, MergePoints, UndoPoints, DeployPoints, AcceptPoints, EffectPoints
<1> QED BY <1>2, OneLoop

\* It returns, and it was done.
LEMMA ReturnsFits ==
    ASSUME TypeInv, RealInv, Quiet, NEW c \in Coordinators, Fits(c), job[c].at \in EffectPoints,
           Did(job[c].act, job[c].cur), NEW result, Returns(c, result)
    PROVE  Fits(c)'
PROOF
<1> DEFINE j == job[c]
<1> USE QuietSame
<1>1. j.act \in Acts => j.cur \in Repos
  BY CurAt, EffectCur DEF TypeInv, Acts
<1>2. CASE j.act = "push"
  <2>1. job'[c].at = "look" /\ job'[c].act = "mr_open"
    BY <1>2 DEF Returns, TypeInv, JobsOK, Jobs
  <2> QED BY <2>1, OneLoop
<1>3. CASE j.act = "merge"
  <2>1. job'[c].at = "merge_write" /\ job'[c].todo = j.todo /\ job'[c].cur = j.cur
    BY <1>3, NewJob DEF Returns, TypeInv
  <2>2. Post /\ \A d \in Mandatory \ j.todo : mr[d] \in Gone
    BY <1>3 DEF Fits, MergeFits, Doing
  <2>3. j.cur \in Lowest(j.todo)
    BY <1>3 DEF Fits, MergeFits, Doing
  <2>4. mr[j.cur] \in Gone
    BY <1>1, <1>3 DEF RealInv, RequestInv, Acts
  <2>5. MergeFits(c)'
    BY <2>1, <2>2, <2>3, <2>4 DEF MergeFits, Quiet, Lowest, Gone
  <2> QED BY <2>1, <2>5, OneLoop DEF MergePoints
<1>4. CASE j.act = "revert"
  <2>1. job'[c].at = "revert_write" /\ job'[c].todo = j.todo /\ job'[c].cur = j.cur
    BY <1>4, NewJob DEF Returns, TypeInv
  <2>2. /\ Rolling /\ \A r \in Mandatory \ j.todo : r \notin Unresolved
        /\ j.cur \in Highest(j.todo) /\ repo[j.cur].status \in Undone
    BY <1>4 DEF Fits, UndoFits, Doing
  <2>3. mr[j.cur] = "reverted"
    BY <1>1, <1>4 DEF RealInv, RequestInv, Acts
  <2>4. UndoFits(c)'
    BY <2>1, <2>2, <2>3 DEF UndoFits, Quiet, Highest, Undone
  <2> QED BY <2>1, <2>4, OneLoop DEF UndoPoints
<1>5. CASE j.act = "deliver_stage" /\ Leave(c, "artifact", FALSE)
  <2>1. job'[c].at = "artifact" /\ job'[c].todo = j.todo /\ job'[c].cur = j.cur
    BY <1>5, NewJob DEF TypeInv
  <2>2. Post /\ \A d \in Mandatory \ j.todo : Did("deliver_stage", d)
    BY <1>5 DEF Fits, DeployFits, Doing
  <2>3. Did("deliver_stage", j.cur)
    BY <1>5
  <2>4. DeployFits(c)'
    BY <2>1, <2>2, <2>3 DEF DeployFits, Did, Quiet
  <2> QED BY <2>1, <2>4, OneLoop DEF DeployPoints
<1>6. CASE j.act = "accept_stage" /\ Proceed(c, "accept")
  <2>1. job'[c].at = "accept" /\ job'[c].todo = j.todo \ {j.cur}
    BY <1>6, NewJob DEF TypeInv
  <2>2. /\ Post
        /\ \A d \in Mandatory : Did("deliver_stage", d)
        /\ \A d \in Mandatory \ j.todo : Did("accept_stage", d)
    BY <1>6 DEF Fits, AcceptFits, Doing
  <2>3. Did("accept_stage", j.cur)
    BY <1>6
  <2>4. \A d \in Mandatory \ job'[c].todo : Did("accept_stage", d)
    BY <2>1, <2>2, <2>3
  <2>5. AcceptFits(c)'
    BY <2>1, <2>2, <2>4 DEF AcceptFits, Did, Quiet
  <2> QED BY <2>1, <2>5, OneLoop DEF AcceptPoints
<1>7. CASE \/ j.act = "mr_open"
           \/ j.act \in {"deliver_stage", "accept_stage"} /\ Abandon(c, "roll")
           \/ j.act \in {"deliver_prod", "none"}
  <2>1. job'[c].at \in {"pipeline", "roll", "idle"}
    BY <1>7, NewJob DEF Returns, TypeInv
  <2>2. job'[c].at \notin BusyPoints
    BY <2>1 DEF BusyPoints, MergePoints, UndoPoints, DeployPoints, AcceptPoints, EffectPoints
  <2> QED BY <2>2, OneLoop
<1>8. j.act \in {"push", "mr_open", "merge", "revert", "deliver_stage", "accept_stage",
                 "deliver_prod", "none"}
  BY DEF TypeInv, JobsOK, Jobs, Acts
<1>9. /\ j.act = "deliver_stage" => Abandon(c, "roll") \/ Leave(c, "artifact", FALSE)
      /\ j.act = "accept_stage" => Abandon(c, "roll") \/ Proceed(c, "accept")
  BY DEF Returns
<1> QED BY <1>2, <1>3, <1>4, <1>5, <1>6, <1>7, <1>8, <1>9

LEMMA EffectNewFits ==
    ASSUME TypeInv, RealInv, Steady, NEW c \in Coordinators, Fits(c), EffectStep(c)
    PROVE  Fits(c)'
PROOF
<1> DEFINE e == Effect(c)
<1>1. job[c].at \in EffectPoints
  BY DEF EffectStep, Look, Intend, Perform, PerformFails, Record, At, EffectPoints
<1>2. e \in Effects
  BY <1>1, CurAt DEF Effect, TypeInv
<1>3. CASE Look(c)
  <2>1. Quiet
    BY <1>3 DEF Look, Reading, Quiet, storeVars, gitlabVars
  <2>2. ASSUME NEW p \in {"guard", "intend"}, Goto(c, p)
        PROVE  Fits(c)'
    <3>1. /\ job'[c].at = p /\ p \in EffectPoints /\ p # "record"
          /\ job'[c].act = job[c].act /\ job'[c].cur = job[c].cur /\ job'[c].todo = job[c].todo
      BY <2>2, NewJob DEF TypeInv, EffectPoints
    <3> QED BY <1>1, <3>1, SameEffect
  <2>3. \/ \E p \in {"guard", "intend"} : Goto(c, p)
        \/ /\ receipts[e].result \in {"passed", "negative"}
           /\ \E result : Returns(c, result)
        \/ Raises(c)
    BY <1>3 DEF Look
  <2>4. receipts[e].result \in {"passed", "negative"} => Did(job[c].act, job[c].cur)
    BY <1>2 DEF RealInv, ReceiptInv, Did, Effect
  <2> QED BY <1>1, <2>1, <2>2, <2>3, <2>4, ReturnsFits, RaisesFits
<1>4. CASE Intend(c)
  <2>1. CASE Goto(c, "perform")
    <3>1. /\ job'[c].at = "perform" /\ "perform" \in EffectPoints
          /\ job'[c].act = job[c].act /\ job'[c].cur = job[c].cur /\ job'[c].todo = job[c].todo
      BY <2>1, NewJob DEF TypeInv, EffectPoints
    <3> QED BY <1>1, <3>1, SameEffect
  <2> QED BY <1>4, <2>1, RaisesFits DEF Intend
<1>5. CASE Perform(c) \/ PerformFails(c)
  <2>1. PICK answer \in Outcomes :
          job' = [job EXCEPT ![c] = [@ EXCEPT !.at = "record", !.result = answer]]
    BY <1>5 DEF Perform, PerformFails, Outcomes
  <2>2. /\ job'[c].at = "record" /\ "record" \in EffectPoints
        /\ job'[c].act = job[c].act /\ job'[c].cur = job[c].cur /\ job'[c].todo = job[c].todo
    BY <2>1 DEF TypeInv, JobsOK, Jobs, EffectPoints
  <2>3. job'[c].result # "unavailable" => Did(job[c].act, job[c].cur)'
    <3>1. PerformFails(c) => job'[c].result = "unavailable"
      BY DEF PerformFails, TypeInv, JobsOK, Jobs
    <3>2. Perform(c) => done'[e] = done[e] + 1
      BY <1>2 DEF Perform, TypeInv, GitLabOK
    <3>3. done[e] \in Nat /\ job'[c].act = job[c].act /\ job'[c].cur = job[c].cur
      BY <1>2, <2>2 DEF TypeInv, GitLabOK
    <3> QED BY <1>5, <3>1, <3>2, <3>3 DEF Did, Effect
  <2> QED BY <1>1, <2>2, <2>3, SameEffect
<1>6. CASE Record(c)
  <2>1. Quiet
    BY <1>6 DEF Record, Quiet, gitlabVars
  <2>2. job[c].result # "unavailable" => Did(job[c].act, job[c].cur)
    BY <1>6 DEF Record, At, Fits, EffectFits
  <2>3. \/ Raises(c)
        \/ job[c].result # "unavailable" /\ \E result : Returns(c, result)
    BY <1>6 DEF Record
  <2> QED BY <1>1, <2>1, <2>2, <2>3, ReturnsFits, RaisesFits
<1> QED BY <1>3, <1>4, <1>5, <1>6 DEF EffectStep

LEMMA PublishNewFits ==
    ASSUME TypeInv, Steady, NEW c \in Coordinators, Fits(c),
           PublishStep(c) \/ \E r \in Repos : PublishCall(c, r)
    PROVE  Fits(c)'
PROOF
<1>1. CASE Guard(c)
  <2>1. job[c].at \in EffectPoints /\ "intend" \in EffectPoints
    BY <1>1 DEF Guard, At, EffectPoints
  <2>2. CASE Goto(c, "intend")
    <3>1. /\ job'[c].at = "intend"
          /\ job'[c].act = job[c].act /\ job'[c].cur = job[c].cur /\ job'[c].todo = job[c].todo
      BY <2>2, NewJob DEF TypeInv
    <3> QED BY <2>1, <3>1, SameEffect
  <2>3. CASE End(c)
    <3>1. job'[c].at = "idle"
      BY <2>3, NewJob DEF TypeInv
    <3> QED BY <3>1, OneLoop DEF BusyPoints, MergePoints, UndoPoints, DeployPoints, AcceptPoints,
                                EffectPoints
  <2> QED BY <1>1, <2>2, <2>3 DEF Guard
<1>2. CASE Pipeline(c) \/ MrWrite(c) \/ GreenWrite(c)
  <2>1. \/ End(c) \/ Onward(c, "green_write")
        \/ \E green \in BOOLEAN : \/ ReadRepo(c, job[c].cur, "mr_write", green)
                                 \/ ReadRepo(c, job[c].cur, "green_write", green)
    BY <1>2 DEF Pipeline, MrWrite, GreenWrite, WritesRepo
  <2>2. job'[c].at \in {"idle", "mr_write", "green_write"}
    BY <2>1, NewJob DEF TypeInv
  <2> QED BY <2>2, OneLoop DEF BusyPoints, MergePoints, UndoPoints, DeployPoints, AcceptPoints,
                               EffectPoints
<1>3. ASSUME NEW r \in Repos, PublishCall(c, r)
      PROVE  Fits(c)'
  <2>1. job'[c].at = "look" /\ job'[c].act = "push"
    BY <1>3 DEF PublishCall, TypeInv, JobsOK, Idle
  <2> QED BY <2>1, OneLoop
<1> QED BY <1>1, <1>2, <1>3 DEF PublishStep

LEMMA MergeNewFits ==
    ASSUME TypeInv, RealInv, Steady, NEW c \in Coordinators, Fits(c), MergeStep(c) \/ MergeCall(c)
    PROVE  Fits(c)'
PROOF
<1> DEFINE j == job[c]
<1> USE DEF BusyPoints, MergePoints, UndoPoints, DeployPoints, AcceptPoints, EffectPoints
<1>1. Mandatory \subseteq Repos /\ job[c] \in Jobs
  BY DEF Mandatory, TypeInv, JobsOK
<1>2. ASSUME Post', job'[c].at = "merge", job'[c].todo = Mandatory, Mandatory' = Mandatory
      PROVE  Fits(c)'
  <2>1. MergeFits(c)'
    BY <1>2 DEF MergeFits, Doing
  <2> QED BY <1>2, <2>1, OneLoop
<1>3. CASE Ready(c) \/ ReadyWrite(c) \/ Broken(c) \/ BrokenWrite(c) \/ MergedWrite(c)
  <2>1. CASE Ready(c)
    <3>1. /\ job[c].at = "ready"
          /\ \/ ReadProduct(c, "start_write") \/ End(c)
             \/ \E r \in Repos, saw \in BOOLEAN : ReadRepo(c, r, "ready_write", saw)
             \/ \E r : Skip(c, r, job[c].saw)
      BY <2>1, <1>1 DEF Ready, At, Lowest, Jobs
    <3>2. job'[c].at \in {"ready", "start_write", "ready_write", "idle"}
      BY <3>1, NewJob DEF TypeInv
    <3> QED BY <3>2, OneLoop
  <2>2. CASE ReadyWrite(c)
    <3>1. job'[c].at \in {"ready", "idle"}
      BY <2>2, NewJob DEF ReadyWrite, WritesRepo, TypeInv
    <3> QED BY <3>1, OneLoop
  <2>3. CASE Broken(c)
    <3>1. job'[c].at = "broken_write"
      BY <2>3, NewJob DEF Broken, TypeInv
    <3> QED BY <3>1, OneLoop
  <2>4. CASE BrokenWrite(c)
    <3>1. job'[c].at \in {"undo", "idle"}
      BY <2>4, NewJob DEF BrokenWrite, Writes, TypeInv
    <3> QED BY <3>1, OneLoop
  <2>5. CASE MergedWrite(c)
    <3>1. job'[c].at = "idle"
      BY <2>5, NewJob DEF MergedWrite, Writes, TypeInv
    <3> QED BY <3>1, OneLoop
  <2> QED BY <1>3, <2>1, <2>2, <2>3, <2>4, <2>5
<1>4. CASE StartWrite(c)
  <2>1. CASE End(c)
    <3>1. job'[c].at = "idle"
      BY <2>1, NewJob DEF TypeInv
    <3> QED BY <3>1, OneLoop
  <2>2. CASE ~End(c)
    <3>1. /\ Move(job[c].ver, "MERGING", "work")
          /\ job' = [job EXCEPT ![c] = [Fresh("merge", Mandatory) EXCEPT !.saw = Landed # {}]]
      BY <1>4, <2>2 DEF StartWrite, Writes
    <3>2. job'[c].at = "merge" /\ job'[c].todo = Mandatory
      BY <3>1 DEF Fresh, Idle, TypeInv, JobsOK
    <3>3. product'.status = "MERGING" /\ Mandatory' = Mandatory
      BY <3>1 DEF Move, Mandatory
    <3>4. Post'
      BY <3>3, Phrases DEF Post, Waiting
    <3> QED BY <1>2, <3>2, <3>3, <3>4
  <2> QED BY <2>1, <2>2
<1>5. CASE Merge(c)
  <2>1. Quiet
    BY <1>5 DEF Merge, Reading, Quiet, storeVars, gitlabVars
  <2>2. Post /\ \A d \in Mandatory \ j.todo : mr[d] \in Gone
    BY <1>5 DEF Merge, At, Fits, MergeFits, Doing
  <2>3. \/ ReadProduct(c, "merged_write")
        \/ Abandon(c, "broken")
        \/ \E r \in Lowest(j.todo) : r \in Landed /\ Skip(c, r, TRUE)
        \/ \E r \in Lowest(j.todo) : ReadRepo(c, r, "target", job[c].saw)
    BY <1>5 DEF Merge
  <2>4. ASSUME NEW r \in Lowest(j.todo), r \in Landed, Skip(c, r, TRUE)
        PROVE  Fits(c)'
    <3>1. job'[c].at = "merge" /\ job'[c].todo = j.todo \ {r}
      BY <1>5, <2>4, NewJob DEF Merge, At, TypeInv
    <3>2. mr[r] \in Gone
      BY <2>4 DEF RealInv, RowInv, Landed, Gone
    <3>3. \A d \in Mandatory \ job'[c].todo : mr[d] \in Gone
      BY <2>2, <3>1, <3>2
    <3>4. MergeFits(c)'
      BY <2>1, <2>2, <3>1, <3>3, QuietSame DEF MergeFits, Doing, Quiet, Gone
    <3> QED BY <3>1, <3>4, OneLoop
  <2>5. ASSUME NEW r \in Lowest(j.todo), ReadRepo(c, r, "target", job[c].saw)
        PROVE  Fits(c)'
    <3>1. job'[c].at = "target" /\ job'[c].todo = j.todo /\ job'[c].cur = r
      BY <2>5, NewJob DEF TypeInv
    <3>2. MergeFits(c)'
      BY <2>1, <2>2, <3>1, QuietSame DEF MergeFits, Doing, Quiet, Gone, Lowest
    <3> QED BY <3>1, <3>2, OneLoop
  <2>6. CASE ReadProduct(c, "merged_write") \/ Abandon(c, "broken")
    <3>1. job'[c].at \in {"merged_write", "broken"}
      BY <2>6, NewJob DEF TypeInv
    <3> QED BY <3>1, OneLoop
  <2> QED BY <2>3, <2>4, <2>5, <2>6
<1>6. CASE Target(c)
  <2>1. CASE Attempt(c, job[c].cur, "merge")
    <3>1. Quiet
      BY <1>6 DEF Target, Reading, Quiet, storeVars, gitlabVars
    <3>2. /\ Post /\ \A d \in Mandatory \ j.todo : mr[d] \in Gone
          /\ j.cur \in Lowest(j.todo)
      BY <1>6 DEF Target, At, Fits, MergeFits, Doing
    <3>3. /\ job'[c].at = "look" /\ job'[c].act = "merge"
          /\ job'[c].todo = j.todo /\ job'[c].cur = j.cur
      BY <2>1, NewJob DEF TypeInv
    <3>4. MergeFits(c)'
      BY <3>1, <3>2, <3>3, QuietSame DEF MergeFits, Doing, Quiet, Gone, Lowest
    <3> QED BY <3>3, <3>4, OneLoop
  <2>2. CASE Abandon(c, "broken")
    <3>1. job'[c].at = "broken"
      BY <2>2, NewJob DEF TypeInv
    <3> QED BY <3>1, OneLoop
  <2> QED BY <1>6, <2>1, <2>2 DEF Target
<1>7. CASE MergeWrite(c)
  <2>1. CASE Proceed(c, "merge")
    <3>1. /\ Post /\ \A d \in Mandatory \ j.todo : mr[d] \in Gone
          /\ mr[j.cur] \in Gone
      BY <1>7 DEF MergeWrite, At, Fits, MergeFits, Doing
    <3>2. job'[c].at = "merge" /\ job'[c].todo = j.todo \ {j.cur}
      BY <2>1, NewJob DEF TypeInv
    <3>3. Post' /\ Mandatory' = Mandatory
      BY <3>1 DEF Steady
    <3>4. \A d \in Mandatory' \ job'[c].todo : mr'[d] \in Gone
      BY <1>1, <3>1, <3>2, <3>3 DEF Steady
    <3>5. MergeFits(c)'
      BY <3>2, <3>3, <3>4 DEF MergeFits, Doing, Gone
    <3> QED BY <3>2, <3>5, OneLoop
  <2>2. CASE Abandon(c, "broken")
    <3>1. job'[c].at = "broken"
      BY <2>2, NewJob DEF TypeInv
    <3> QED BY <3>1, OneLoop
  <2> QED BY <1>7, <2>1, <2>2 DEF MergeWrite, WritesRepo
<1>8. CASE MergeCall(c)
  <2>1. CASE Begin(c, "ready", Mandatory) \/ Begin(c, "undo", {})
    <3>1. job'[c].at \in {"ready", "undo"}
      BY <2>1, NewJob DEF TypeInv
    <3> QED BY <3>1, OneLoop
  <2>2. CASE ~(Begin(c, "ready", Mandatory) \/ Begin(c, "undo", {}))
    <3>1. /\ product.status = "MERGING"
          /\ job' = [job EXCEPT ![c] = [Fresh("merge", Mandatory) EXCEPT !.saw = Landed # {}]]
      BY <1>8, <2>2 DEF MergeCall
    <3>2. job'[c].at = "merge" /\ job'[c].todo = Mandatory
      BY <3>1 DEF Fresh, Idle, TypeInv, JobsOK
    <3>3. product'.status = "MERGING" /\ Mandatory' = Mandatory
      BY <1>8, <3>1 DEF MergeCall, Reading, storeVars, Mandatory
    <3>4. Post'
      BY <3>3, Phrases DEF Post, Waiting
    <3> QED BY <1>2, <3>2, <3>3, <3>4
  <2> QED BY <2>1, <2>2
<1> QED BY <1>3, <1>4, <1>5, <1>6, <1>7, <1>8 DEF MergeStep

LEMMA UndoNewFits ==
    ASSUME TypeInv, RealInv, Steady, NEW c \in Coordinators, Fits(c), UndoStep(c)
    PROVE  Fits(c)'
PROOF
<1> DEFINE j == job[c]
<1> USE DEF BusyPoints, MergePoints, UndoPoints, DeployPoints, AcceptPoints, EffectPoints
<1>1. /\ Mandatory \subseteq Repos /\ Mandatory' \subseteq Mandatory
      /\ \A r \in Repos : repo[r].merge \in BOOLEAN
      /\ job[c].saw \in BOOLEAN
  BY VersTyped, CurAt DEF Mandatory, TypeInv, Steady
<1>2. ASSUME Rolling', job'[c].at = "revert", job'[c].todo = Mandatory
      PROVE  Fits(c)'
  <2>1. UndoFits(c)'
    BY <1>1, <1>2 DEF UndoFits, Doing
  <2> QED BY <1>2, <2>1, OneLoop
<1>3. CASE Undo(c)
  <2>1. CASE product.status = "ROLLING_BACK" /\ Begin(c, "revert", Mandatory)
    <3>1. job'[c].at = "revert" /\ job'[c].todo = Mandatory
      BY <2>1, NewJob DEF TypeInv
    <3>2. Rolling'
      BY <2>1 DEF Steady, Rolling
    <3> QED BY <1>2, <3>1, <3>2
  <2>2. CASE ReadProduct(c, "undo_write") \/ End(c)
    <3>1. job'[c].at \in {"undo_write", "idle"}
      BY <2>2, NewJob DEF TypeInv
    <3> QED BY <3>1, OneLoop
  <2> QED BY <1>3, <2>1, <2>2 DEF Undo
<1>4. CASE UndoWrite(c)
  <2>1. CASE End(c)
    <3>1. job'[c].at = "idle"
      BY <2>1, NewJob DEF TypeInv
    <3> QED BY <3>1, OneLoop
  <2>2. CASE ~End(c)
    <3>1. Move(job[c].ver, "ROLLING_BACK", "failure") /\ Begin(c, "revert", Mandatory)
      BY <1>4, <2>2 DEF UndoWrite, Writes
    <3>2. job'[c].at = "revert" /\ job'[c].todo = Mandatory
      BY <3>1, NewJob DEF TypeInv
    <3>3. Rolling'
      BY <3>1 DEF Move, Rolling
    <3> QED BY <1>2, <3>2, <3>3
  <2> QED BY <2>1, <2>2
<1>5. CASE Revert(c)
  <2>1. Quiet
    BY <1>5 DEF Revert, Reading, Quiet, storeVars, gitlabVars
  <2>2. Rolling /\ \A r \in Mandatory \ j.todo : r \notin Unresolved
    BY <1>5 DEF Revert, At, Fits, UndoFits, Doing
  <2>3. \/ ReadProduct(c, "undone_write")
        \/ \E r \in Highest(j.todo), saw \in BOOLEAN : ReadRepo(c, r, "revert_open", saw)
        \/ \E r \in Highest(j.todo), saw \in BOOLEAN :
              repo[r].status = "REVERT_OPEN" /\ ReadRepo(c, r, "bind", saw)
        \/ \E r \in Highest(j.todo), saw \in BOOLEAN :
              r \notin Unresolved /\ Skip(c, r, saw)
    <3>1. Highest(j.todo) \subseteq Repos
      BY CurAt DEF Highest, TypeInv
    <3> QED BY <1>1, <1>5, <3>1 DEF Revert, Unresolved
  <2>4. CASE ReadProduct(c, "undone_write")
    <3>1. job'[c].at = "undone_write"
      BY <2>4, NewJob DEF TypeInv
    <3> QED BY <3>1, OneLoop
  <2>5. ASSUME NEW r \in Highest(j.todo), NEW saw \in BOOLEAN, ReadRepo(c, r, "revert_open", saw)
        PROVE  Fits(c)'
    <3>1. job'[c].at = "revert_open" /\ job'[c].todo = j.todo /\ job'[c].cur = r
      BY <2>5, NewJob DEF TypeInv
    <3>2. UndoFits(c)'
      BY <2>1, <2>2, <3>1, QuietSame DEF UndoFits, Doing, Highest
    <3> QED BY <3>1, <3>2, OneLoop
  <2>6. ASSUME NEW r \in Highest(j.todo), NEW saw \in BOOLEAN,
               repo[r].status = "REVERT_OPEN", ReadRepo(c, r, "bind", saw)
        PROVE  Fits(c)'
    <3>1. job'[c].at = "bind" /\ job'[c].todo = j.todo /\ job'[c].cur = r
      BY <2>6, NewJob DEF TypeInv
    <3>2. UndoFits(c)'
      BY <2>1, <2>2, <2>6, <3>1, QuietSame DEF UndoFits, Doing, Highest, Quiet, Undone
    <3> QED BY <3>1, <3>2, OneLoop
  <2>7. ASSUME NEW r \in Highest(j.todo), NEW saw \in BOOLEAN, r \notin Unresolved, Skip(c, r, saw)
        PROVE  Fits(c)'
    <3>1. job'[c].at = "revert" /\ job'[c].todo = j.todo \ {r}
      BY <1>5, <2>7, NewJob DEF TypeInv, Revert, At
    <3>2. UndoFits(c)'
      BY <2>1, <2>2, <2>7, <3>1, QuietSame DEF UndoFits, Doing
    <3> QED BY <3>1, <3>2, OneLoop
  <2> QED BY <2>3, <2>4, <2>5, <2>6, <2>7
<1>6. CASE RevertOpen(c)
  <2>1. CASE End(c)
    <3>1. job'[c].at = "idle"
      BY <2>1, NewJob DEF TypeInv
    <3> QED BY <3>1, OneLoop
  <2>2. CASE ~End(c)
    <3>1. /\ MoveRepo(j.cur, job[c].ver, "REVERT_OPEN", "work", job[c].saw)
          /\ Onward(c, "bind")
      BY <1>6, <2>2 DEF RevertOpen, WritesRepo
    <3>2. job'[c].at = "bind" /\ job'[c].todo = j.todo /\ job'[c].cur = j.cur
      BY <3>1, NewJob DEF TypeInv
    <3>3. j.cur \in Repos
      BY <1>6, CurAt DEF RevertOpen, At, RepoPoints, TypeInv
    <3>4. repo'[j.cur].status = "REVERT_OPEN"
      BY <3>1, <3>3 DEF MoveRepo, TypeInv, StoreTypeOK
    <3>5. /\ Rolling /\ \A r \in Mandatory \ j.todo : r \notin Unresolved
          /\ j.cur \in Highest(j.todo)
      BY <1>6 DEF RevertOpen, At, Fits, UndoFits, Doing
    <3>6. Rolling' /\ \A r \in Mandatory' \ j.todo : r \notin Unresolved'
      BY <1>1, <3>5 DEF Steady
    <3>7. UndoFits(c)'
      BY <3>2, <3>4, <3>5, <3>6 DEF UndoFits, Doing, Highest, Undone
    <3> QED BY <3>2, <3>7, OneLoop
  <2> QED BY <2>1, <2>2
<1>7. CASE Bind(c)
  <2>1. CASE Attempt(c, job[c].cur, "revert")
    <3>1. Quiet
      BY <1>7 DEF Bind, Reading, Quiet, storeVars, gitlabVars
    <3>2. /\ Rolling /\ \A r \in Mandatory \ j.todo : r \notin Unresolved
          /\ j.cur \in Highest(j.todo) /\ repo[j.cur].status \in Undone
      BY <1>7 DEF Bind, At, Fits, UndoFits, Doing
    <3>3. /\ job'[c].at = "look" /\ job'[c].act = "revert"
          /\ job'[c].todo = j.todo /\ job'[c].cur = j.cur
      BY <2>1, NewJob DEF TypeInv
    <3>4. UndoFits(c)'
      BY <3>1, <3>2, <3>3, QuietSame DEF UndoFits, Doing, Quiet, Undone, Highest
    <3> QED BY <3>3, <3>4, OneLoop
  <2>2. CASE Goto(c, "revert_failed")
    <3>1. job'[c].at = "revert_failed"
      BY <2>2, NewJob DEF TypeInv
    <3> QED BY <3>1, OneLoop
  <2> QED BY <1>7, <2>1, <2>2 DEF Bind
<1>8. CASE RevertWrite(c)
  <2>1. CASE Goto(c, "revert_failed")
    <3>1. job'[c].at = "revert_failed"
      BY <2>1, NewJob DEF TypeInv
    <3> QED BY <3>1, OneLoop
  <2>2. CASE ~Goto(c, "revert_failed")
    <3>1. MoveRepo(j.cur, job[c].ver, "REVERTED", "work", FALSE) /\ Proceed(c, "revert")
      BY <1>8, <2>2 DEF RevertWrite, WritesRepo
    <3>2. job'[c].at = "revert" /\ job'[c].todo = j.todo \ {j.cur}
      BY <3>1, NewJob DEF TypeInv
    <3>3. j.cur \in Repos
      BY <1>8, CurAt DEF RevertWrite, At, RepoPoints, TypeInv
    <3>4. j.cur \notin Unresolved'
      BY <3>1, <3>3 DEF MoveRepo, TypeInv, StoreTypeOK, Unresolved
    <3>5. Rolling /\ \A r \in Mandatory \ j.todo : r \notin Unresolved
      BY <1>8 DEF RevertWrite, At, Fits, UndoFits, Doing
    <3>6. Rolling' /\ \A r \in Mandatory' \ job'[c].todo : r \notin Unresolved'
      BY <1>1, <3>2, <3>4, <3>5 DEF Steady
    <3>7. UndoFits(c)'
      BY <3>2, <3>6 DEF UndoFits, Doing
    <3> QED BY <3>2, <3>7, OneLoop
  <2> QED BY <2>1, <2>2
<1>9. CASE RevertFailed(c)
  <2>1. job'[c].at \in {"failed_write", "stuck_write"}
    BY <1>9, <1>1, NewJob DEF RevertFailed, TypeInv
  <2> QED BY <2>1, OneLoop
<1>10. CASE FailedWrite(c)
  <2>1. job'[c].at \in {"stuck", "idle"}
    BY <1>10, NewJob DEF FailedWrite, WritesRepo, TypeInv
  <2> QED BY <2>1, OneLoop
<1>11. CASE Stuck(c) \/ StuckWrite(c) \/ UndoneWrite(c)
  <2>1. job'[c].at \in {"stuck_write", "idle"}
    BY <1>11, NewJob DEF Stuck, StuckWrite, UndoneWrite, Writes, TypeInv
  <2> QED BY <2>1, OneLoop
<1> QED BY <1>3, <1>4, <1>5, <1>6, <1>7, <1>8, <1>9, <1>10, <1>11 DEF UndoStep

LEMMA DeliveryNewFits ==
    ASSUME TypeInv, RealInv, Steady, NEW c \in Coordinators, Fits(c),
           DeliveryStep(c) \/ StageCall(c) \/ ProdCall(c)
    PROVE  Fits(c)'
PROOF
<1> DEFINE j == job[c]
<1> USE DEF BusyPoints, MergePoints, UndoPoints, DeployPoints, AcceptPoints, EffectPoints
<1>1. Mandatory \subseteq Repos /\ Mandatory' \subseteq Mandatory
  BY DEF Mandatory, Steady
<1>2. ASSUME Post', job'[c].at = "deploy", job'[c].todo = Mandatory
      PROVE  Fits(c)'
  <2>1. DeployFits(c)'
    BY <1>1, <1>2 DEF DeployFits, Doing
  <2> QED BY <1>2, <2>1, OneLoop
<1>3. ASSUME Post, \A d \in Mandatory : Did("deliver_stage", d),
             job'[c].at = "accept", job'[c].todo = Mandatory
      PROVE  Fits(c)'
  <2>1. \A d \in Mandatory : <<"deliver_stage", d>> \in Effects
    BY <1>1, EffectOf DEF Acts
  <2>2. \A d \in Mandatory' : done'[<<"deliver_stage", d>>] > 0
    BY <1>1, <1>3, <2>1 DEF Steady, Did
  <2>3. AcceptFits(c)'
    BY <1>1, <1>3, <2>2 DEF AcceptFits, Doing, Steady, Did
  <2> QED BY <1>3, <2>3, OneLoop
<1>4. CASE StageCall(c)
  <2>1. CASE Begin(c, "deploy", Mandatory)
    <3>1. job'[c].at = "deploy" /\ job'[c].todo = Mandatory
      BY <2>1, NewJob DEF TypeInv
    <3>2. Post
      BY <1>4, Phrases DEF StageCall, Post, Waiting
    <3> QED BY <1>2, <3>1, <3>2 DEF Steady
  <2>2. CASE ReadProduct(c, "stage_write") \/ Begin(c, "roll", {})
    <3>1. job'[c].at \in {"stage_write", "roll"}
      BY <2>2, NewJob DEF TypeInv
    <3> QED BY <3>1, OneLoop
  <2> QED BY <1>4, <2>1, <2>2 DEF StageCall
<1>5. CASE StageWrite(c)
  <2>1. CASE End(c)
    <3>1. job'[c].at = "idle"
      BY <2>1, NewJob DEF TypeInv
    <3> QED BY <3>1, OneLoop
  <2>2. CASE ~End(c)
    <3>1. Move(job[c].ver, "DEPLOYING_STAGE", "work") /\ Begin(c, "deploy", Mandatory)
      BY <1>5, <2>2 DEF StageWrite, Writes
    <3>2. job'[c].at = "deploy" /\ job'[c].todo = Mandatory
      BY <3>1, NewJob DEF TypeInv
    <3>3. Post'
      BY <3>1, Phrases DEF Move, Post, Waiting
    <3> QED BY <1>2, <3>2, <3>3
  <2> QED BY <2>1, <2>2
<1>6. CASE Deploy(c)
  <2>1. Quiet
    BY <1>6 DEF Deploy, Reading, Quiet, storeVars, gitlabVars
  <2>2. Post /\ \A d \in Mandatory \ j.todo : Did("deliver_stage", d)
    BY <1>6 DEF Deploy, At, Fits, DeployFits, Doing
  <2>3. \/ j.todo = {} /\ ReadProduct(c, "accepting_write")
        \/ j.todo = {} /\ Begin(c, "accept", Mandatory)
        \/ \E r \in Lowest(j.todo) : Attempt(c, r, "deliver_stage")
        \/ Abandon(c, "roll")
    BY <1>6 DEF Deploy
  <2>4. CASE j.todo = {} /\ ReadProduct(c, "accepting_write")
    <3>1. job'[c].at = "accepting_write" /\ job'[c].todo = {}
      BY <2>4, NewJob DEF TypeInv
    <3>2. DeployFits(c)'
      BY <2>1, <2>2, <2>4, <3>1, QuietSame DEF DeployFits, Doing, Did, Quiet
    <3> QED BY <3>1, <3>2, OneLoop
  <2>5. CASE j.todo = {} /\ Begin(c, "accept", Mandatory)
    <3>1. job'[c].at = "accept" /\ job'[c].todo = Mandatory
      BY <2>5, NewJob DEF TypeInv
    <3> QED BY <1>3, <2>2, <2>5, <3>1
  <2>6. ASSUME NEW r \in Lowest(j.todo), Attempt(c, r, "deliver_stage")
        PROVE  Fits(c)'
    <3>1. /\ job'[c].at = "look" /\ job'[c].act = "deliver_stage"
          /\ job'[c].todo = j.todo /\ job'[c].cur = r
      BY <2>6, NewJob DEF TypeInv
    <3>2. DeployFits(c)'
      BY <2>1, <2>2, <3>1, QuietSame DEF DeployFits, Doing, Did, Quiet
    <3> QED BY <3>1, <3>2, OneLoop
  <2>7. CASE Abandon(c, "roll")
    <3>1. job'[c].at = "roll"
      BY <2>7, NewJob DEF TypeInv
    <3> QED BY <3>1, OneLoop
  <2> QED BY <2>3, <2>4, <2>5, <2>6, <2>7
<1>7. CASE Artifact(c) \/ ArtifactWrite(c)
  <2>1. j.cur \in Repos
    BY <1>7, CurAt DEF Artifact, ArtifactWrite, At, RepoPoints, TypeInv
  <2>2. /\ Post /\ \A d \in Mandatory \ j.todo : Did("deliver_stage", d)
        /\ Did("deliver_stage", j.cur)
    BY <1>7 DEF Artifact, ArtifactWrite, At, Fits, DeployFits, Doing
  <2>3. \A d \in Repos : Did("deliver_stage", d) => done'[<<"deliver_stage", d>>] > 0
    BY EffectOf DEF Steady, Did, Acts
  <2>4. /\ Post' /\ \A d \in Mandatory' \ j.todo : done'[<<"deliver_stage", d>>] > 0
        /\ done'[<<"deliver_stage", j.cur>>] > 0
    BY <1>1, <2>1, <2>2, <2>3 DEF Steady
  <2>5. \/ End(c) \/ Proceed(c, "deploy")
        \/ \E saw \in BOOLEAN : ReadRepo(c, j.cur, "artifact_write", saw)
    BY <1>7 DEF Artifact, ArtifactWrite, WritesRepo
  <2>6. CASE End(c)
    <3>1. job'[c].at = "idle"
      BY <2>6, NewJob DEF TypeInv
    <3> QED BY <3>1, OneLoop
  <2>7. CASE Proceed(c, "deploy")
    <3>1. job'[c].at = "deploy" /\ job'[c].todo = j.todo \ {j.cur}
      BY <2>7, NewJob DEF TypeInv
    <3>2. DeployFits(c)'
      BY <2>4, <3>1 DEF DeployFits, Doing, Did
    <3> QED BY <3>1, <3>2, OneLoop
  <2>8. ASSUME NEW saw \in BOOLEAN, ReadRepo(c, j.cur, "artifact_write", saw)
        PROVE  Fits(c)'
    <3>1. job'[c].at = "artifact_write" /\ job'[c].todo = j.todo /\ job'[c].cur = j.cur
      BY <2>8, NewJob DEF TypeInv
    <3>2. DeployFits(c)'
      BY <2>4, <3>1 DEF DeployFits, Doing, Did
    <3> QED BY <3>1, <3>2, OneLoop
  <2> QED BY <2>5, <2>6, <2>7, <2>8
<1>8. CASE AcceptingWrite(c)
  <2>1. CASE End(c)
    <3>1. job'[c].at = "idle"
      BY <2>1, NewJob DEF TypeInv
    <3> QED BY <3>1, OneLoop
  <2>2. CASE Begin(c, "accept", Mandatory)
    <3>1. Post /\ \A d \in Mandatory : Did("deliver_stage", d)
      BY <1>8 DEF AcceptingWrite, At, Fits, DeployFits, Doing
    <3>2. job'[c].at = "accept" /\ job'[c].todo = Mandatory
      BY <2>2, NewJob DEF TypeInv
    <3> QED BY <1>3, <3>1, <3>2
  <2> QED BY <1>8, <2>1, <2>2 DEF AcceptingWrite, Writes
<1>9. CASE Accept(c)
  <2>1. Quiet
    BY <1>9 DEF Accept, Reading, Quiet, storeVars, gitlabVars
  <2>2. /\ Post
        /\ \A d \in Mandatory : Did("deliver_stage", d)
        /\ \A d \in Mandatory \ j.todo : Did("accept_stage", d)
    BY <1>9 DEF Accept, At, Fits, AcceptFits, Doing
  <2>3. \/ j.todo = {} /\ ReadProduct(c, "accept_write")
        \/ \E r \in Lowest(j.todo) : Attempt(c, r, "accept_stage")
        \/ Abandon(c, "roll")
    BY <1>9 DEF Accept
  <2>4. CASE j.todo = {} /\ ReadProduct(c, "accept_write")
    <3>1. job'[c].at = "accept_write" /\ job'[c].todo = {}
      BY <2>4, NewJob DEF TypeInv
    <3>2. AcceptFits(c)'
      BY <2>1, <2>2, <2>4, <3>1, QuietSame DEF AcceptFits, Doing, Did, Quiet
    <3> QED BY <3>1, <3>2, OneLoop
  <2>5. ASSUME NEW r \in Lowest(j.todo), Attempt(c, r, "accept_stage")
        PROVE  Fits(c)'
    <3>1. /\ job'[c].at = "look" /\ job'[c].act = "accept_stage"
          /\ job'[c].todo = j.todo /\ job'[c].cur = r
      BY <2>5, NewJob DEF TypeInv
    <3>2. AcceptFits(c)'
      BY <2>1, <2>2, <3>1, QuietSame DEF AcceptFits, Doing, Did, Quiet
    <3> QED BY <3>1, <3>2, OneLoop
  <2>6. CASE Abandon(c, "roll")
    <3>1. job'[c].at = "roll"
      BY <2>6, NewJob DEF TypeInv
    <3> QED BY <3>1, OneLoop
  <2> QED BY <2>3, <2>4, <2>5, <2>6
<1>10. CASE AcceptWrite(c) \/ Roll(c) \/ RollWrite(c)
  <2>1. job'[c].at \in {"idle", "roll_write"}
    BY <1>10, NewJob DEF AcceptWrite, Roll, RollWrite, Writes, TypeInv
  <2> QED BY <2>1, OneLoop
<1>11. CASE ProdCall(c)
  <2>1. job'[c].at = "look" /\ job'[c].act = "deliver_prod"
    BY <1>11, NewJob DEF ProdCall, TypeInv
  <2>2. product'.status = "DONE"
    BY <1>11 DEF ProdCall, Reading, storeVars
  <2> QED BY <2>1, <2>2, OneLoop
<1> QED BY <1>4, <1>5, <1>6, <1>7, <1>8, <1>9, <1>10, <1>11 DEF DeliveryStep

LEMMA FitStep ==
    ASSUME TypeInv, RecordInv, OnceInv, RealInv, AllFit, SagaNext
    PROVE  AllFit'
PROOF
<1>1. Steady
  BY SteadyStep
<1>2. ASSUME UNCHANGED job
      PROVE  AllFit'
  BY <1>1, <1>2, FitsSteady DEF AllFit
<1>3. Environment => UNCHANGED job
  BY DEF Environment, Drift, Rebind, ClientMove, ClientMoveRepo
<1>4. ASSUME NEW c \in Coordinators, CallStep(c) \/ Call(c) \/ Crash(c)
      PROVE  AllFit'
  <2>1. \A d \in Coordinators \ {c} : job'[d] = job[d]
    <3>1. EffectStep(c) => \A d \in Coordinators \ {c} : job'[d] = job[d]
      <4>1. Perform(c) \/ PerformFails(c) => \A d \in Coordinators \ {c} : job'[d] = job[d]
        BY DEF Perform, PerformFails, TypeInv, JobsOK
      <4>2. Intend(c) => \A d \in Coordinators \ {c} : job'[d] = job[d]
        <5>1. Goto(c, "perform") => \A d \in Coordinators \ {c} : job'[d] = job[d]
          BY DEF Goto, TypeInv, JobsOK
        <5> QED BY <5>1, EndsApart DEF Intend, Apart, Elsewhere, TypeInv
      <4> QED BY <4>1, <4>2, CallApart DEF EffectStep, Apart, Elsewhere, TypeInv
    <3> QED BY <1>4, <3>1, CallApart DEF CallStep, Apart, Elsewhere, TypeInv
  <2>2. \A d \in Coordinators \ {c} : Fits(d)'
    BY <1>1, <2>1, FitsSteady DEF AllFit
  <2>3. Fits(c)'
    <3>1. CASE Crash(c)
      <4>1. job'[c].at = "idle"
        BY <3>1, NewJob DEF Crash, TypeInv
      <4> QED BY <4>1, OneLoop DEF BusyPoints, MergePoints, UndoPoints, DeployPoints, AcceptPoints,
                                  EffectPoints
    <3>2. CASE CallStep(c) \/ Call(c)
      BY <1>1, <3>2, EffectNewFits, PublishNewFits, MergeNewFits, UndoNewFits, DeliveryNewFits
         DEF CallStep, Call, AllFit
    <3> QED BY <1>4, <3>1, <3>2
  <2> QED BY <2>2, <2>3 DEF AllFit
<1> QED BY <1>2, <1>3, <1>4 DEF SagaNext

-----------------------------------------------------------------------------
(* The theorems.                                                           *)

LEMMA RealInit == SagaInit => RealInv /\ AllFit
PROOF
<1> SUFFICES ASSUME SagaInit PROVE RealInv /\ AllFit
  OBVIOUS
<1> USE DEF SagaInit, StoreInit
<1>1. \A e \in Effects : done[e] = 0 /\ receipts[e].result = NoReceipt
  OBVIOUS
<1>2. \A r \in Repos : repo[r].status = "PLANNED" /\ mr[r] = "none"
  OBVIOUS
<1>3. product.status = "DRAFT"
  OBVIOUS
<1>4. ASSUME NEW act \in Acts, NEW r \in Repos
      PROVE  ~Did(act, r)
  <2>1. <<act, r>> \in Effects
    BY EffectOf
  <2>2. done[<<act, r>>] = 0
    BY <1>1, <2>1
  <2> QED BY <2>2 DEF Did
<1>5. RequestInv
  BY <1>2, <1>4 DEF RequestInv, Acts
<1>6. ReceiptInv /\ RowInv /\ DoneInv
  <2>1. <<"deliver_prod", Product>> \in Effects
    BY DEF Effects
  <2> QED BY <1>1, <1>2, <1>3, <2>1 DEF ReceiptInv, RowInv, DoneInv, NoReceipt, Undone
<1>7. RollbackIsReal /\ DependencyOrder
  BY <1>2 DEF RollbackIsReal, DependencyOrder, Reverted, Unresolved, Mandatory
<1>8. AllFit
  <2>1. \A c \in Coordinators : job[c].at = "idle"
    BY DEF Idle
  <2> QED BY <2>1 DEF AllFit, Fits, MergeFits, UndoFits, DeployFits, AcceptFits, EffectFits, Doing,
                      EffectPoints
<1> QED BY <1>5, <1>6, <1>7, <1>8 DEF RealInv

SagaInv == TypeInv /\ RecordInv /\ OnceInv /\ RealInv /\ AllFit

LEMMA SagaAlways == SagaSpec => []SagaInv
PROOF
<1>1. SagaInit => SagaInv
  <2>1. SagaInit => RecordInv
    BY DEF SagaInit, StoreInit, RecordInv, RecordConsistent, Waiting
  <2>2. SagaInit => OnceInv
    BY DEF SagaInit, StoreInit, OnceInv, At, Idle
  <2> QED BY <2>1, <2>2, TypeInit, RealInit DEF SagaInv
<1>2. ASSUME SagaInv, [SagaNext]_vars
      PROVE  SagaInv'
  <2>1. TypeInv' /\ RecordInv' /\ OnceInv'
    BY <1>2, TypeStep, RecordStep, OnceStep DEF SagaInv
  <2>2. CASE SagaNext
    BY <1>2, <2>1, <2>2, RealStep, FitStep DEF SagaInv
  <2>3. CASE UNCHANGED vars
    <3>1. UNCHANGED <<product, repo, receipts, job, mr, done>>
      BY <2>3 DEF vars, storeVars, gitlabVars
    <3>2. RealInv'
      BY <1>2, <3>1 DEF SagaInv, RealInv, RequestInv, ReceiptInv, RowInv, DoneInv, RollbackIsReal,
            DependencyOrder, Did, Rolling, Mandatory, Reverted, Unresolved
    <3>3. AllFit'
      BY <1>2, <3>1 DEF SagaInv, AllFit, Fits, MergeFits, UndoFits, DeployFits, AcceptFits,
            EffectFits, Doing, Did, Post, Rolling, Mandatory, Unresolved
    <3> QED BY <2>1, <3>2, <3>3 DEF SagaInv
  <2> QED BY <1>2, <2>1, <2>2, <2>3
<1> QED BY <1>1, <1>2, PTL DEF SagaSpec

\* What the record says was done was done: a repository recorded as merged is
\* merged in GitLab, a change set that is done has every stage deployed and
\* accepted, production is delivered after that (merge_all, deliver_stage,
\* deliver_prod), for any dependencies and any schedule of kills and lost answers.
THEOREM SuccessSafe == SagaSpec => []SuccessIsReal
PROOF
<1>1. SagaInv => SuccessIsReal
  <2> SUFFICES ASSUME SagaInv PROVE SuccessIsReal
    OBVIOUS
  <2>1. \A r \in Landed : mr[r] = "merged"
    BY DEF SagaInv, RealInv, RowInv, Landed
  <2>2. product.status \in {"MERGED", "DEPLOYING_STAGE", "ACCEPTING_STAGE", "DONE"} =>
          \A r \in Mandatory : mr[r] = "merged"
    BY <2>1 DEF SagaInv, RecordInv, RecordConsistent
  <2>3. product.status = "DONE" =>
          \A r \in Mandatory : done[<<"deliver_stage", r>>] = 1 /\ done[<<"accept_stage", r>>] = 1
    <3>1. \A r \in Mandatory :
            <<"deliver_stage", r>> \in Effects /\ <<"accept_stage", r>> \in Effects
      BY EffectOf DEF Mandatory, Acts
    <3>2. \A e \in Effects : done[e] \in Nat /\ done[e] <= 1
      BY DEF SagaInv, TypeInv, GitLabOK, OnceInv
    <3>3. \A e \in Effects : done[e] > 0 => done[e] = 1
      BY <3>2
    <3> QED BY <3>1, <3>3 DEF SagaInv, RealInv, DoneInv, Did
  <2> QED BY <2>1, <2>2, <2>3 DEF SuccessIsReal, SagaInv, RealInv, DoneInv
<1> QED BY <1>1, SagaAlways, PTL

\* Whatever interrupts, races and repeats compensation, what is recorded as
\* reverted is reverted, and only what is recorded for it (_compensate).
THEOREM RollbackSafe == SagaSpec => []RollbackIsReal
PROOF
<1>1. SagaInv => RollbackIsReal
  BY DEF SagaInv, RealInv
<1> QED BY <1>1, SagaAlways, PTL

\* Merges follow the dependencies and reverts go against them, for any graph of
\* repositories that _dependency_order can put in order.
THEOREM OrderSafe == SagaSpec => []DependencyOrder
PROOF
<1>1. SagaInv => DependencyOrder
  BY DEF SagaInv, RealInv
<1> QED BY <1>1, SagaAlways, PTL
=============================================================================
