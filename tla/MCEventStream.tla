--------------------------- MODULE MCEventStream ---------------------------
(* Small instances of EventStream for TLC. *)
EXTENDS EventStream, TLC

CONSTANTS c1

\* Two transactions at a time; the clients have asked before the second one has
\* committed; before the last id is drawn the server is not stopped.
FewNext ==
    /\ StreamNext
    /\ Cardinality(open') <= 2
    /\ asked' = Clients \/ Cardinality(table') <= 1
    /\ server' = "serving" \/ last = MaxId

FewSpec == StreamInit /\ [][FewNext]_vars
=============================================================================
