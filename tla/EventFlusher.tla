---------------------------- MODULE EventFlusher ----------------------------
(***************************************************************************)
(* The batch writer of the control plane's audit log                       *)
(* (whilly/api/event_flusher.py) and the lifespan that owns it             *)
(* (create_app in whilly/adapters/transport/server.py).                    *)
(*                                                                         *)
(* Request handlers enqueue records; two coroutines take batches from the  *)
(* queue and insert them: run(), for as long as the server runs and then   *)
(* once more through drain(), and the lifespan's own call of drain() when  *)
(* the server shuts down.  A coroutine yields at an await only, so taking a *)
(* batch is one step and everything may happen while an insert is under    *)
(* way.  The checkpoint file, which nothing reads back, is left out, and   *)
(* so are the wake-up at batch_limit and the length of the timer: a tick   *)
(* may come at any time.                                                   *)
(***************************************************************************)
EXTENDS Naturals, Sequences, Functions

CONSTANTS Records,      \* events the handlers enqueue, each once
          Orphans,      \* those whose task or plan is deleted before the insert
          BatchLimit,   \* batch_limit
          Retries,      \* length of retry_backoffs
          Failures,     \* what a failing insert can do, see InsertFails
          MaxLost       \* bound: answers that are lost after the commit

ASSUME FlusherAssumption ==
    /\ Orphans \subseteq Records
    /\ BatchLimit \in Nat \ {0}
    /\ Retries \in Nat
    /\ Failures \subseteq {"refused", "ambiguous", "not_postgres"}
    /\ MaxLost \in Nat

Drainers == {"run", "exit"}

VARIABLES queue,    \* the asyncio.Queue
          rows,     \* rows[r]: how many rows of events hold record r
          sent,     \* the records that were enqueued
          pc,       \* pc[d]: what coroutine d does when it is not flushing
          phase,    \* phase[d]: where d is inside _drain_once
          batch,    \* batch[d]: the records d is inserting
          attempt,  \* attempt[d]: failed attempts for batch[d]
          late,     \* late[d]: the deadline of d's drain() has passed
          stop,     \* the lifespan's stop event
          up,       \* Postgres accepts inserts
          lost      \* how many answers were lost

flusherVars == <<queue, rows, sent, pc, phase, batch, attempt, late, stop, up, lost>>

FlusherTypeOK ==
    /\ queue \in Seq(Records)
    /\ rows \in [Records -> Nat]
    /\ sent \subseteq Records
    /\ pc \in [Drainers -> {"wait", "drain", "done", "failed"}]
    /\ phase \in [Drainers -> {"out", "take", "insert"}]
    /\ batch \in [Drainers -> Seq(Records)]
    /\ \A d \in Drainers : Len(batch[d]) <= BatchLimit
    /\ attempt \in [Drainers -> 0..Retries]
    /\ late \in [Drainers -> BOOLEAN]
    /\ stop \in BOOLEAN /\ up \in BOOLEAN
    /\ lost \in 0..MaxLost

FlusherInit ==
    /\ queue = << >>
    /\ rows = [r \in Records |-> 0]
    /\ sent = {}
    /\ pc = [d \in Drainers |-> "wait"]
    /\ phase = [d \in Drainers |-> "out"]
    /\ batch = [d \in Drainers |-> << >>]
    /\ attempt = [d \in Drainers |-> 0]
    /\ late = [d \in Drainers |-> FALSE]
    /\ stop = FALSE
    /\ up = TRUE
    /\ lost = 0

-----------------------------------------------------------------------------

\* No request is served any more when the lifespan exits.
Enqueue(r) ==
    /\ ~stop /\ r \notin sent
    /\ queue' = Append(queue, r)
    /\ sent' = sent \cup {r}
    /\ UNCHANGED <<rows, pc, phase, batch, attempt, late, stop, up, lost>>

\* The lifespan exits: the stop event is set, then drain() is called.
Shutdown ==
    /\ ~stop
    /\ stop' = TRUE
    /\ pc' = [pc EXCEPT !["exit"] = "drain"]
    /\ UNCHANGED <<queue, rows, sent, phase, batch, attempt, late, up, lost>>

\* run(): the timer fires, or the queue has reached the batch limit.
Tick ==
    /\ pc["run"] = "wait" /\ phase["run"] = "out"
    /\ ~stop /\ queue # << >>
    /\ phase' = [phase EXCEPT !["run"] = "take"]
    /\ UNCHANGED <<queue, rows, sent, pc, batch, attempt, late, stop, up, lost>>

\* Fault: a run() that looks at stop only when there is something to flush.
StopSeenWithWork ==
    /\ pc["run"] = "wait" /\ phase["run"] = "out" /\ stop /\ queue # << >>
    /\ pc' = [pc EXCEPT !["run"] = "drain"]
    /\ UNCHANGED <<queue, rows, sent, phase, batch, attempt, late, stop, up, lost>>

\* run(): stop is set, the final drain begins.
StopSeen ==
    /\ pc["run"] = "wait" /\ phase["run"] = "out" /\ stop
    /\ pc' = [pc EXCEPT !["run"] = "drain"]
    /\ UNCHANGED <<queue, rows, sent, phase, batch, attempt, late, stop, up, lost>>

\* drain(): the loop ends on an empty queue or after the deadline.
DrainChecks(d) ==
    /\ pc[d] = "drain" /\ phase[d] = "out"
    /\ IF queue = << >> \/ late[d]
       THEN pc' = [pc EXCEPT ![d] = "done"] /\ UNCHANGED phase
       ELSE phase' = [phase EXCEPT ![d] = "take"] /\ UNCHANGED pc
    /\ UNCHANGED <<queue, rows, sent, batch, attempt, late, stop, up, lost>>

DeadlinePasses(d) ==
    /\ pc[d] = "drain" /\ ~late[d]
    /\ late' = [late EXCEPT ![d] = TRUE]
    /\ UNCHANGED <<queue, rows, sent, pc, phase, batch, attempt, stop, up, lost>>

\* _drain_once: the next batch, until the queue is empty.
TakeBatch(d) ==
    LET n == IF Len(queue) < BatchLimit THEN Len(queue) ELSE BatchLimit
    IN  /\ phase[d] = "take"
        /\ phase' = [phase EXCEPT ![d] = IF queue = << >> THEN "out" ELSE "insert"]
        /\ batch' = [batch EXCEPT ![d] = SubSeq(queue, 1, n)]
        /\ queue' = SubSeq(queue, n + 1, Len(queue))
        /\ attempt' = [attempt EXCEPT ![d] = 0]
        /\ UNCHANGED <<rows, sent, pc, late, stop, up, lost>>

\* Postgres takes the batch of d: it is up, and no record of the batch breaks
\* a foreign key of events.
Accepts(d) == up /\ Range(batch[d]) \cap Orphans = {}

\* The rows of events once the batch of d is committed.
Inserted(d) == [r \in Records |-> IF r \in Range(batch[d]) THEN rows[r] + 1 ELSE rows[r]]

InsertOk(d) ==
    /\ phase[d] = "insert" /\ Accepts(d)
    /\ rows' = Inserted(d)
    /\ batch' = [batch EXCEPT ![d] = << >>]
    /\ phase' = [phase EXCEPT ![d] = "take"]
    /\ UNCHANGED <<queue, sent, pc, attempt, late, stop, up, lost>>

\* Fault: a batch whose retries are exhausted is given up.
RetryThenDrop(d) ==
    IF attempt[d] < Retries
    THEN attempt' = [attempt EXCEPT ![d] = @ + 1] /\ UNCHANGED <<queue, batch, phase>>
    ELSE /\ batch' = [batch EXCEPT ![d] = << >>]
         /\ phase' = [phase EXCEPT ![d] = "take"]
         /\ UNCHANGED <<queue, attempt>>

\* Fault: every failed attempt puts the batch back on the queue.
RequeueAndRetry(d) ==
    /\ queue' = queue \o batch[d]
    /\ IF attempt[d] < Retries
       THEN attempt' = [attempt EXCEPT ![d] = @ + 1] /\ UNCHANGED <<batch, phase>>
       ELSE /\ batch' = [batch EXCEPT ![d] = << >>]
            /\ phase' = [phase EXCEPT ![d] = "take"]
            /\ UNCHANGED attempt

\* A PostgresError: try again after the backoff; after the last one the
\* batch goes back to the tail of the queue and _drain_once goes on.
RetryOrRequeue(d) ==
    IF attempt[d] < Retries
    THEN attempt' = [attempt EXCEPT ![d] = @ + 1] /\ UNCHANGED <<queue, batch, phase>>
    ELSE /\ queue' = queue \o batch[d]
         /\ batch' = [batch EXCEPT ![d] = << >>]
         /\ phase' = [phase EXCEPT ![d] = "take"]
         /\ UNCHANGED attempt

\* The server answers with an error (a broken foreign key is one), or the
\* session is closed before the commit.
InsertFails(d) ==
    /\ "refused" \in Failures
    /\ phase[d] = "insert" /\ ~Accepts(d)
    /\ RetryOrRequeue(d)
    /\ UNCHANGED <<rows, sent, pc, late, stop, up, lost>>

\* The connection breaks after the commit and before the answer: asyncpg
\* raises a PostgresError here as well.
AnswerLost(d) ==
    /\ "ambiguous" \in Failures
    /\ phase[d] = "insert" /\ Accepts(d)
    /\ lost < MaxLost
    /\ lost' = lost + 1
    /\ rows' = Inserted(d)
    /\ RetryOrRequeue(d)
    /\ up' = FALSE
    /\ UNCHANGED <<sent, pc, late, stop>>

\* Any other exception (a refused connection is an OSError) leaves
\* _flush_batch with the batch.  The lifespan logs it and goes on; in run() it
\* ends the task group, which ends the server, or cancels a drain() of the
\* lifespan that is under way.
FlushRaises(d) ==
    LET cancelled == d = "run" /\ pc["exit"] = "drain"
        over == IF cancelled THEN Drainers ELSE {d}
    IN  /\ "not_postgres" \in Failures
        /\ phase[d] = "insert" /\ ~up
        /\ batch' = [e \in Drainers |-> IF e \in over THEN << >> ELSE batch[e]]
        /\ phase' = [e \in Drainers |-> IF e \in over THEN "out" ELSE phase[e]]
        /\ pc' = [e \in Drainers |-> IF e \in over THEN "failed"
                                      ELSE IF d = "run" /\ pc[e] = "wait" THEN "drain" ELSE pc[e]]
        /\ stop' = TRUE
        /\ UNCHANGED <<queue, rows, sent, attempt, late, up, lost>>

\* Postgres goes away and comes back.
DatabaseFlips == up' = ~up /\ UNCHANGED <<queue, rows, sent, pc, phase, batch, attempt, late, stop, lost>>

-----------------------------------------------------------------------------

DrainerStep(d) ==
    DrainChecks(d) \/ TakeBatch(d) \/ InsertOk(d) \/ InsertFails(d) \/ AnswerLost(d) \/ FlushRaises(d)

RunStep == Tick \/ StopSeen \/ DrainerStep("run")
ExitStep == DrainerStep("exit")

FlusherNext ==
    \/ \E r \in Records : Enqueue(r)
    \/ Shutdown
    \/ RunStep
    \/ ExitStep
    \/ \E d \in Drainers : DeadlinePasses(d)
    \/ DatabaseFlips

\* asyncio runs every coroutine that is ready, an insert returns or raises,
\* and the clock goes on.
FlusherSpec ==
    /\ FlusherInit /\ [][FlusherNext]_flusherVars
    /\ WF_flusherVars(RunStep) /\ WF_flusherVars(ExitStep)
    /\ \A d \in Drainers : WF_flusherVars(DeadlinePasses(d))
-----------------------------------------------------------------------------

\* An exception that is no PostgresError has left _flush_batch.
Escaped == \E d \in Drainers : pc[d] = "failed"

\* The records in the hands of the process.
Held == Range(queue) \cup UNION {Range(batch[d]) : d \in Drainers}

Log == INSTANCE AuditLog WITH held <- Held, ended <- Escaped

\* What the audit log promises to the handlers: a step of the two coroutines is
\* a step of AuditLog, or none at all.
ImplementsLog == Log!LogSpec

\* "Events are never dropped": an enqueued record is written or still held by
\* the process.  No failed attempt, re-enqueued batch or race of the two
\* coroutines drops it; only an exception that _flush_batch does not catch may.
DroppedOnlyByEscape ==
    \/ Escaped
    \/ \A r \in sent : rows[r] > 0 \/ r \in Range(queue) \/ \E d \in Drainers : r \in Range(batch[d])

\* A record is written once, and once more for every answer of the database
\* that was lost: neither a retry nor the second coroutine inserts a batch that
\* is in another's hands, or in the table, for any other reason.
CopiesByLossOnly ==
    \A r \in Records : rows[r] <= lost + 1

\* Postgres is up for good from some time on, and takes every record enqueued.
HealthyAgain == <>[](up /\ sent \cap Orphans = {})

\* Then a record that was enqueued reaches the table, unless a shutdown ran
\* out of time or an exception ended a coroutine before.
DeliveredOnceUp ==
    HealthyAgain => \A r \in Records : (r \in sent) ~> (rows[r] > 0 \/ Escaped \/ \E d \in Drainers : late[d])

\* Then a shutdown ends.
ShutdownEnds ==
    HealthyAgain => (stop ~> \A d \in Drainers : pc[d] \in {"done", "failed"})
=============================================================================
