--------------------------- MODULE MCEventFlusher ---------------------------
(* Small instances of EventFlusher for TLC. *)
EXTENDS EventFlusher, TLC

CONSTANTS r1, r2, r3

RecordSymmetry == Permutations(Records)
=============================================================================
