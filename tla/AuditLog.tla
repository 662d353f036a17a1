------------------------------ MODULE AuditLog ------------------------------
(***************************************************************************)
(* What the batch writer of the audit log promises to the handlers that    *)
(* give it events (whilly/api/event_flusher.py): a record that was taken   *)
(* is held until the database has answered that it is written.  An answer  *)
(* that is lost leaves it held, and it is written again; only an exception *)
(* that ends the writer may give up what is held.  A row is never taken    *)
(* back, and no row is written that nobody gave.                           *)
(*                                                                         *)
(* Where a record is held, in how many hands, in which order and in        *)
(* batches of what size is left open.  EventFlusher implements this        *)
(* specification.                                                          *)
(***************************************************************************)
EXTENDS Naturals

CONSTANT Records  \* events the handlers enqueue, each once

VARIABLES sent,   \* the records that were taken
          held,   \* those that are in the hands of the writer
          rows,   \* rows[r]: how many rows of events hold record r
          lost,   \* how many answers were lost
          ended   \* an exception has ended one of the writer's coroutines

logVars == <<sent, held, rows, lost, ended>>

LogInit ==
    /\ sent = {} /\ held = {}
    /\ rows = [r \in Records |-> 0]
    /\ lost = 0
    /\ ended = FALSE

Accept(r) ==
    /\ r \notin sent
    /\ sent' = sent \cup {r} /\ held' = held \cup {r}
    /\ UNCHANGED <<rows, lost, ended>>

\* One INSERT of several rows, in one transaction.
Written(S) == rows' = [r \in Records |-> IF r \in S THEN rows[r] + 1 ELSE rows[r]]

Commit(S) ==
    /\ Written(S)
    /\ held' = held \ S
    /\ UNCHANGED <<sent, lost, ended>>

CommitUnanswered(S) ==
    /\ Written(S)
    /\ lost' = lost + 1
    /\ UNCHANGED <<sent, held, ended>>

GiveUp(S) ==
    /\ ended' = TRUE
    /\ held' = held \ S
    /\ UNCHANGED <<sent, rows, lost>>

LogNext ==
    \/ \E r \in Records : Accept(r)
    \/ \E S \in SUBSET held : Commit(S) \/ CommitUnanswered(S) \/ GiveUp(S)

LogSpec == LogInit /\ [][LogNext]_logVars
=============================================================================
