--------------------------- MODULE TaskLifecycle ---------------------------
(***************************************************************************)
(* What a task row promises to everyone who looks at it, whoever writes it *)
(* (whilly/core/state_machine.py): its status moves only along the edges   *)
(* of _VALID_TRANSITIONS and every move adds exactly one to its version,   *)
(* the counter all optimistic locks compare against.                       *)
(*                                                                         *)
(* The operator's commands are the only other writers of the two columns:  *)
(* an edit and a soft reset also add one; a row can be created, and it can *)
(* be deleted, after which its version starts again at 0.                  *)
(*                                                                         *)
(* One statement of the repository may move several rows (the sweeps), so  *)
(* a step of this specification moves any set of rows, each by one of its  *)
(* own edges.  TaskQueue implements this specification.                    *)
(***************************************************************************)
EXTENDS Naturals

CONSTANT Tasks          \* the task ids of one plan

VARIABLES status,       \* status[t]: tasks.status, "ABSENT" when there is no row
          version       \* version[t]: tasks.version

lifecycleVars == <<status, version>>

\* TaskStatus of core/models.py.
Statuses == {"PENDING", "CLAIMED", "IN_PROGRESS", "DONE", "FAILED", "SKIPPED"}

\* _VALID_TRANSITIONS: <<transition, from, to>>.
ValidTransitions ==
    { <<"CLAIM",    "PENDING",     "CLAIMED">>,
      <<"START",    "CLAIMED",     "IN_PROGRESS">>,
      <<"COMPLETE", "CLAIMED",     "DONE">>,
      <<"COMPLETE", "IN_PROGRESS", "DONE">>,
      <<"FAIL",     "CLAIMED",     "FAILED">>,
      <<"FAIL",     "IN_PROGRESS", "FAILED">>,
      <<"SKIP",     "PENDING",     "SKIPPED">>,
      <<"SKIP",     "CLAIMED",     "SKIPPED">>,
      <<"SKIP",     "IN_PROGRESS", "SKIPPED">>,
      <<"RELEASE",  "CLAIMED",     "PENDING">>,
      <<"RELEASE",  "IN_PROGRESS", "PENDING">> }

Move(t, from, to, v) ==
    /\ status[t] = from
    /\ status'[t] = to
    /\ version'[t] = v

\* apply_transition: an edge of the table, and the version plus one.
ApplyTransition(t) ==
    \E e \in ValidTransitions : Move(t, e[2], e[3], version[t] + 1)

\* patch_task: the columns an operator may edit are not modelled, the bump is.
Edit(t) == \E s \in Statuses : Move(t, s, s, version[t] + 1)

\* reset_plan(keep_tasks=True) puts every row back to PENDING.
Reset(t) == \E s \in Statuses : Move(t, s, "PENDING", version[t] + 1)

\* insert_task, insert_repair_task and the plan import; delete_task and the
\* cascade of reset_plan(keep_tasks=False).
Create(t) == Move(t, "ABSENT", "PENDING", 0)
Remove(t) == \E s \in Statuses : Move(t, s, "ABSENT", 0)

Keep(t) == Move(t, status[t], status[t], version[t])

LifecycleInit ==
    /\ status \in [Tasks -> {"PENDING", "ABSENT"}]
    /\ version = [t \in Tasks |-> 0]

LifecycleNext ==
    \A t \in Tasks :
        \/ ApplyTransition(t)
        \/ Edit(t)
        \/ Reset(t)
        \/ Create(t)
        \/ Remove(t)
        \/ Keep(t)

LifecycleSpec == LifecycleInit /\ [][LifecycleNext]_lifecycleVars
=============================================================================
