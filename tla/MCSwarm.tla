-------------------------------- MODULE MCSwarm --------------------------------
(* Small instances of SwarmCoordinator for TLC. *)
EXTENDS SwarmCoordinator, TLC

CONSTANTS t1, t2, t3, c1, c2

AllEligible == [c \in Coordinators |-> Tasks]
OneHost == [c \in Coordinators |-> "h"]
Chain == [t \in Tasks |-> IF t = t2 THEN {t1} ELSE {}]
NoDeps == [t \in Tasks |-> {}]
TwoRevisions == [t \in Tasks |-> IF t = t3 THEN 2 ELSE 1]

\* Everything but the sweeps (claims are freed by the coordinator that takes
\* over), signals (the stop flag of the session does the same) and the exits of
\* agents that are waited for (RunEnds).  c1 comes first and may crash or stall;
\* c2 takes over.
SessionNext ==
    \/ Begin(c1) \/ Crash(c1)
    \/ coord[c1].pc # "off" /\ ~lease.live /\ Begin(c2)
    \/ \E c \in Coordinators :
        \/ CoordStep(c) \/ Heartbeat(c)
        \/ \E t \in Tasks : RunEnds(c, t)
    \/ lease.holder = c1 /\ (RequestStop \/ LeaseExpires)
    \/ \E t \in Tasks : Rerun(t)
    \/ \E r \in 1..Revisions : ApplyRevision(r)
    \/ \E i \in Ids, m \in Modes :
        attempt[i].by = c1 /\ coord[c1].pc = "dead" /\ AgentExits(i, m)

SessionSpec == SwarmInit /\ [][SessionNext]_vars

\* t2 is followed up to its claim, and t3 no further than its import.  A stop
\* of c1 is followed as long as t1 has not been claimed again, and the answers
\* that are lost are those to c1.
FollowsFirst ==
    /\ task[t2].version <= 1 /\ task[t3].version = 0
    /\ lease.stop \/ (coord[c1].stop /\ ~coord[c1].lost) => task[t1].version <= 3
    /\ \A t \in Tasks : exec[c2][t].pc # "limbo"

\* From the fifth version of t1 on, the rest of the plan is not followed.
SecondLife == task[t1].version > 4 => applied = 1 /\ task[t2].version = 0
=============================================================================
