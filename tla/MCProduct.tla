----------------------------- MODULE MCProduct -----------------------------
(* Small instances of ProductSaga for TLC. *)
EXTENDS ProductSaga, TLC

CONSTANTS a, b, k1, k2

Chain == [r \in Repos |-> IF r = b THEN {a} ELSE {}]
Order == [r \in Repos |-> IF r = b THEN 2 ELSE 1]
CoordinatorSymmetry == Permutations(Coordinators)

\* A change set that was planned, with b published and a about to be; the
\* faults and the retries share one bound.
Published == {"push", "mr_open"} \X {b}
Plain == [status |-> "LOCAL_VERIFIED", ver |-> 4, mandatory |-> TRUE,
          resume |-> NoStatus, kind |-> "work", merge |-> FALSE]
Green == [Plain EXCEPT !.status = "PIPELINE_GREEN", !.ver = 6, !.kind = "exact_sha_pipeline"]

LateInit ==
    /\ product = [status |-> "EXECUTING", ver |-> 3, resume |-> NoStatus, approved |-> TRUE]
    /\ repo = [r \in Repos |-> IF r = b THEN Green ELSE Plain]
    /\ receipts = [e \in Effects |-> IF e \in Published THEN [intent |-> TRUE, result |-> "passed", request |-> Plain.ver]
                                     ELSE [intent |-> FALSE, result |-> NoReceipt, request |-> 0]]
    /\ job = [c \in Coordinators |-> Idle]
    /\ mr = [r \in Repos |-> IF r = b THEN "opened" ELSE "none"]
    /\ moved = [r \in Repos |-> FALSE]
    /\ bound = TRUE
    /\ done = [e \in Effects |-> IF e \in Published THEN 1 ELSE 0]
    /\ retries \in 0..MaxRetries /\ faults = MaxRetries - retries

\* A draft, and no faults.
DraftInit ==
    /\ StoreInit
    /\ job = [c \in Coordinators |-> Idle]
    /\ mr = [r \in Repos |-> "none"]
    /\ moved = [r \in Repos |-> FALSE]
    /\ bound = TRUE
    /\ done = [e \in Effects |-> 0]
    /\ retries = MaxRetries /\ faults = MaxFaults

\* a is published when b has been, or is not impacted; the repositories are
\* worked on while no coordinator is in a call.
ProductNext ==
    \/ \E c \in Coordinators :
          \/ CallStep(c) \/ MergeCall(c) \/ StageCall(c) \/ ProdCall(c) \/ Crash(c)
          \/ repo[b].status \in {"PIPELINE_GREEN", "NOT_IMPACTED"} /\ PublishCall(c, a)
    \/ \E r \in Repos : Drift(r)
    \/ Rebind
    \/ \E target \in Statuses, kind \in ClientKinds : ClientMove(target, kind)
    \/ /\ \A c \in Coordinators : At(c, "idle")
       /\ \E r \in Repos, target \in RepoStatuses, kind \in ClientKinds : ClientMoveRepo(r, target, kind)

ProductSpec == (LateInit \/ DraftInit) /\ [][ProductNext]_vars
=============================================================================
