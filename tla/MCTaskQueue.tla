---------------------------- MODULE MCTaskQueue ----------------------------
(* A small instance of TaskQueue for TLC. *)
EXTENDS TaskQueue, TLC

CONSTANTS t1, t2, t3, w1, w2,
          RowVersions   \* bound: version of t1 in the scope "row"

VARIABLE scope  \* what this behaviour is about; never changes

\* Every worker carries the tags of every task.
AllEligible == [w \in Workers |-> Tasks]

NoDeps == [t \in Tasks |-> {}]

\* Scope "row": every step there is, as long as it is about t1 alone; the
\* other tasks are only imported and deleted with the plan.
RowStep ==
    /\ QueueNext
    /\ task'[t1].version <= RowVersions
    /\ plan'.spent = 0
    /\ \E row \in {NewRow, NoRow} : \A t \in Tasks \ {t1} : task'[t] = row
    /\ \A t \in Tasks \ {t1} : review'[t] = << >>

\* Scope "money": one worker, and only the steps that move money or let a
\* task run again.
MoneyStep ==
    /\ CallerStep \/ \E cut \in Cuts : ResetKeepTasks(cut)
    /\ \A t \in Tasks : review'[t] = << >>
    /\ Cardinality({w \in Workers : worker'[w].status # "absent"}) <= 1

RunInit == QueueInit /\ scope \in {"row", "money"}
RunNext ==
    /\ UNCHANGED scope
    /\ \/ scope = "row" /\ RowStep
       \/ scope = "money" /\ MoneyStep
RunSpec == RunInit /\ [][RunNext]_<<queueVars, scope>>

WorkerSymmetry == Permutations(Workers)
=============================================================================
