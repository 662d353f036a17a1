------------------------- MODULE EventFlusherProofs -------------------------
(***************************************************************************)
(* For any number of records, any batch limit and any number of retries:   *)
(* the flusher loses nothing unless an exception leaves _flush_batch that   *)
(* is no PostgresError, and writes nothing twice but for lost answers.     *)
(***************************************************************************)
EXTENDS EventFlusher, TLAPS

-----------------------------------------------------------------------------
(* What the queue operations do to the set of records in a sequence.       *)

LEMMA AppendKeeps ==
    ASSUME NEW S, NEW q \in Seq(S), NEW r \in S
    PROVE  /\ Append(q, r) \in Seq(S)
           /\ \A x \in Range(q) : x \in Range(Append(q, r))
           /\ r \in Range(Append(q, r))
PROOF
<1>1. Append(q, r) \in Seq(S) /\ Len(Append(q, r)) = Len(q) + 1 /\ Len(q) \in Nat
  OBVIOUS
<1>2. \A i \in 1..Len(q) : Append(q, r)[i] = q[i]
  OBVIOUS
<1>3. Append(q, r)[Len(q) + 1] = r
  OBVIOUS
<1> QED BY <1>1, <1>2, <1>3 DEF Range

LEMMA ConcatKeeps ==
    ASSUME NEW S, NEW q \in Seq(S), NEW b \in Seq(S)
    PROVE  /\ q \o b \in Seq(S)
           /\ \A x \in Range(q) \cup Range(b) : x \in Range(q \o b)
PROOF
<1>1. q \o b \in Seq(S) /\ Len(q \o b) = Len(q) + Len(b) /\ Len(q) \in Nat /\ Len(b) \in Nat
  OBVIOUS
<1>2. \A i \in 1..Len(q) : (q \o b)[i] = q[i] /\ i \in 1..Len(q \o b)
  BY <1>1
<1>3. \A i \in 1..Len(b) : (q \o b)[Len(q) + i] = b[i] /\ Len(q) + i \in 1..Len(q \o b)
  BY <1>1
<1>4. ASSUME NEW x \in Range(q) PROVE x \in Range(q \o b)
  <2>1. PICK i \in 1..Len(q) : q[i] = x
    BY DEF Range
  <2> QED BY <1>1, <1>2, <2>1 DEF Range
<1>5. ASSUME NEW x \in Range(b) PROVE x \in Range(q \o b)
  <2>1. PICK i \in 1..Len(b) : b[i] = x
    BY DEF Range
  <2> QED BY <1>1, <1>3, <2>1 DEF Range
<1> QED BY <1>1, <1>4, <1>5

\* The first n records and the others are all of them.
LEMMA SplitKeeps ==
    ASSUME NEW S, NEW q \in Seq(S), NEW n \in Nat, n <= Len(q)
    PROVE  /\ SubSeq(q, 1, n) \in Seq(S) /\ Len(SubSeq(q, 1, n)) = n
           /\ SubSeq(q, n + 1, Len(q)) \in Seq(S)
           /\ \A x \in Range(q) : x \in Range(SubSeq(q, 1, n)) \/ x \in Range(SubSeq(q, n + 1, Len(q)))
PROOF
<1> DEFINE a == SubSeq(q, 1, n)
           b == SubSeq(q, n + 1, Len(q))
<1>1. a \in Seq(S) /\ Len(a) = n /\ b \in Seq(S) /\ Len(b) = Len(q) - n /\ Len(q) \in Nat
  OBVIOUS
<1>2. \A i \in 1..n : a[i] = q[i]
  OBVIOUS
<1>3. \A i \in 1..(Len(q) - n) : b[i] = q[n + i]
  OBVIOUS
<1> HIDE DEF a, b
<1>4. ASSUME NEW x \in Range(q) PROVE x \in Range(a) \/ x \in Range(b)
  <2>1. PICK i \in 1..Len(q) : q[i] = x
    BY DEF Range
  <2>2. CASE i <= n
    <3>1. i \in 1..n /\ a[i] = x
      BY <1>1, <1>2, <2>1, <2>2
    <3> QED BY <1>1, <3>1 DEF Range
  <2>3. CASE ~(i <= n)
    <3>1. i - n \in 1..(Len(q) - n) /\ n + (i - n) = i
      BY <1>1, <2>3
    <3>2. b[i - n] = x
      BY <1>3, <2>1, <3>1
    <3> QED BY <1>1, <3>1, <3>2 DEF Range
  <2> QED BY <2>2, <2>3
<1> QED BY <1>1, <1>4 DEF a, b

-----------------------------------------------------------------------------
(* Types.                                                                  *)

LEMMA RetryType ==
    ASSUME FlusherTypeOK, NEW d \in Drainers, RetryOrRequeue(d)
    PROVE  /\ queue' \in Seq(Records)
           /\ phase' \in [Drainers -> {"out", "take", "insert"}]
           /\ batch' \in [Drainers -> Seq(Records)]
           /\ \A e \in Drainers : Len(batch'[e]) <= BatchLimit
           /\ attempt' \in [Drainers -> 0..Retries]
PROOF
<1>0. Retries \in Nat /\ BatchLimit \in Nat
  BY FlusherAssumption
<1>1. CASE attempt[d] < Retries
  <2>1. UNCHANGED <<queue, batch, phase>> /\ attempt' = [attempt EXCEPT ![d] = @ + 1]
    BY <1>1 DEF RetryOrRequeue
  <2>2. attempt[d] + 1 \in 0..Retries
    BY <1>0, <1>1 DEF FlusherTypeOK
  <2> QED BY <2>1, <2>2 DEF FlusherTypeOK
<1>2. CASE ~(attempt[d] < Retries)
  <2>1. /\ queue' = queue \o batch[d]
        /\ batch' = [batch EXCEPT ![d] = << >>]
        /\ phase' = [phase EXCEPT ![d] = "take"]
        /\ UNCHANGED attempt
    BY <1>2 DEF RetryOrRequeue
  <2>2. queue' \in Seq(Records)
    BY <2>1, ConcatKeeps DEF FlusherTypeOK
  <2>3. << >> \in Seq(Records) /\ Len(<< >>) = 0
    OBVIOUS
  <2> QED BY <1>0, <2>1, <2>2, <2>3 DEF FlusherTypeOK
<1> QED BY <1>1, <1>2

LEMMA DrainerType ==
    ASSUME FlusherTypeOK, NEW d \in Drainers, DrainerStep(d)
    PROVE  FlusherTypeOK'
PROOF
<1>0. /\ Retries \in Nat /\ BatchLimit \in Nat
      /\ << >> \in Seq(Records) /\ Len(<< >>) = 0
  BY FlusherAssumption
<1>1. CASE DrainChecks(d)
  BY <1>1 DEF DrainChecks, FlusherTypeOK
<1>2. CASE TakeBatch(d)
  <2> DEFINE n == IF Len(queue) < BatchLimit THEN Len(queue) ELSE BatchLimit
  <2>1. n \in Nat /\ n <= Len(queue) /\ n <= BatchLimit
    BY <1>0 DEF FlusherTypeOK
  <2>2. /\ phase' = [phase EXCEPT ![d] = IF queue = << >> THEN "out" ELSE "insert"]
        /\ batch' = [batch EXCEPT ![d] = SubSeq(queue, 1, n)]
        /\ queue' = SubSeq(queue, n + 1, Len(queue))
        /\ attempt' = [attempt EXCEPT ![d] = 0]
        /\ UNCHANGED <<rows, sent, pc, late, stop, up, lost>>
    BY <1>2 DEF TakeBatch
  <2> HIDE DEF n
  <2>3. /\ SubSeq(queue, 1, n) \in Seq(Records) /\ Len(SubSeq(queue, 1, n)) = n
        /\ SubSeq(queue, n + 1, Len(queue)) \in Seq(Records)
    BY <2>1, SplitKeeps DEF FlusherTypeOK
  <2>4. 0 \in 0..Retries
    BY <1>0
  <2> QED BY <2>1, <2>2, <2>3, <2>4 DEF FlusherTypeOK
<1>a. Inserted(d) \in [Records -> Nat]
  BY DEF Inserted, FlusherTypeOK
<1>3. CASE InsertOk(d)
  BY <1>0, <1>a, <1>3 DEF InsertOk, FlusherTypeOK
<1>4. CASE InsertFails(d)
  BY <1>4, RetryType DEF InsertFails, FlusherTypeOK
<1>5. CASE AnswerLost(d)
  <2>1. lost' \in 0..MaxLost
    BY <1>5, FlusherAssumption DEF AnswerLost, FlusherTypeOK
  <2> QED BY <1>a, <1>5, <2>1, RetryType DEF AnswerLost, FlusherTypeOK
<1>6. CASE FlushRaises(d)
  BY <1>0, <1>6 DEF FlushRaises, FlusherTypeOK
<1> QED BY <1>1, <1>2, <1>3, <1>4, <1>5, <1>6 DEF DrainerStep

LEMMA FlusherStepType == FlusherTypeOK /\ [FlusherNext]_flusherVars => FlusherTypeOK'
PROOF
<1> SUFFICES ASSUME FlusherTypeOK, [FlusherNext]_flusherVars PROVE FlusherTypeOK'
  OBVIOUS
<1>1. ASSUME NEW r \in Records, Enqueue(r)
      PROVE  FlusherTypeOK'
  <2>1. queue' \in Seq(Records)
    BY <1>1, AppendKeeps DEF Enqueue, FlusherTypeOK
  <2> QED BY <1>1, <2>1 DEF Enqueue, FlusherTypeOK
<1>2. CASE Shutdown \/ Tick \/ StopSeen
  BY <1>2 DEF Shutdown, Tick, StopSeen, FlusherTypeOK
<1>3. ASSUME NEW d \in Drainers, DrainerStep(d)
      PROVE  FlusherTypeOK'
  BY <1>3, DrainerType
<1>4. ASSUME NEW d \in Drainers, DeadlinePasses(d)
      PROVE  FlusherTypeOK'
  BY <1>4 DEF DeadlinePasses, FlusherTypeOK
<1>5. CASE DatabaseFlips
  BY <1>5 DEF DatabaseFlips, FlusherTypeOK
<1>6. CASE UNCHANGED flusherVars
  BY <1>6 DEF flusherVars, FlusherTypeOK
<1> QED
  BY <1>1, <1>2, <1>3, <1>4, <1>5, <1>6 DEF FlusherNext, RunStep, ExitStep, Drainers

\* Batches never exceed the batch limit, attempts never exceed the retries.
THEOREM FlusherTypeSafe == FlusherSpec => []FlusherTypeOK
PROOF
<1>1. FlusherInit => FlusherTypeOK
  <2>1. << >> \in Seq(Records) /\ Len(<< >>) = 0 /\ 0 \in 0..Retries /\ 0 \in 0..MaxLost /\ BatchLimit \in Nat
    BY FlusherAssumption
  <2> SUFFICES ASSUME FlusherInit PROVE FlusherTypeOK
    OBVIOUS
  <2>2. \A d \in Drainers : batch[d] = << >>
    BY DEF FlusherInit
  <2>3. /\ batch \in [Drainers -> Seq(Records)]
        /\ \A d \in Drainers : Len(batch[d]) <= BatchLimit
    BY <2>1, <2>2 DEF FlusherInit
  <2>4. queue \in Seq(Records) /\ rows \in [Records -> Nat]
    BY <2>1 DEF FlusherInit
  <2> QED BY <2>1, <2>3, <2>4 DEF FlusherInit, FlusherTypeOK
<1> QED BY <1>1, FlusherStepType, PTL DEF FlusherSpec

-----------------------------------------------------------------------------
(* Nothing is dropped.                                                     *)

\* r is in the table, on the queue or in a batch.
Kept(r) == rows[r] > 0 \/ r \in Range(queue) \/ \E d \in Drainers : r \in Range(batch[d])

\* The strengthening: a coroutine that is not inserting has nothing in its
\* hands that the next batch could overwrite.
HandsEmpty == \A d \in Drainers : phase[d] # "insert" => batch[d] = << >>

\* A failed attempt keeps the batch, or puts it back on the queue.
LEMMA RetryKeeps ==
    ASSUME FlusherTypeOK, NEW d \in Drainers, RetryOrRequeue(d), NEW r,
           r \in Range(queue) \/ \E e \in Drainers : r \in Range(batch[e])
    PROVE  r \in Range(queue') \/ \E e \in Drainers : r \in Range(batch'[e])
PROOF
<1>1. CASE attempt[d] < Retries
  BY <1>1 DEF RetryOrRequeue
<1>2. CASE ~(attempt[d] < Retries)
  <2>1. queue' = queue \o batch[d] /\ batch' = [batch EXCEPT ![d] = << >>]
    BY <1>2 DEF RetryOrRequeue
  <2>2. \A x \in Range(queue) \cup Range(batch[d]) : x \in Range(queue')
    BY <2>1, ConcatKeeps DEF FlusherTypeOK
  <2>3. \A e \in Drainers : e # d => batch'[e] = batch[e]
    BY <2>1 DEF FlusherTypeOK
  <2> QED BY <2>2, <2>3
<1> QED BY <1>1, <1>2

LEMMA DrainerKeeps ==
    ASSUME FlusherTypeOK, HandsEmpty,
           NEW d \in Drainers, DrainerStep(d), ~Escaped', NEW r \in Records, Kept(r)
    PROVE  Kept(r)'
PROOF
<1>a. /\ rows[r] \in Nat
      /\ Inserted(d)[r] >= rows[r]
      /\ r \in Range(batch[d]) => Inserted(d)[r] > 0
  BY DEF FlusherTypeOK, Inserted
<1>b. \A e \in Drainers : batch \in [Drainers -> Seq(Records)]
  BY DEF FlusherTypeOK
<1>1. CASE DrainChecks(d)
  BY <1>1 DEF DrainChecks, Kept
<1>2. CASE TakeBatch(d)
  <2> DEFINE n == IF Len(queue) < BatchLimit THEN Len(queue) ELSE BatchLimit
  <2>1. n \in Nat /\ n <= Len(queue)
    BY FlusherAssumption DEF FlusherTypeOK
  <2>2. /\ batch' = [batch EXCEPT ![d] = SubSeq(queue, 1, n)]
        /\ queue' = SubSeq(queue, n + 1, Len(queue))
        /\ rows' = rows
    BY <1>2 DEF TakeBatch
  <2> HIDE DEF n
  <2>3. \A x \in Range(queue) : x \in Range(batch'[d]) \/ x \in Range(queue')
    BY <1>b, <2>1, <2>2, SplitKeeps DEF FlusherTypeOK
  <2>4. \A e \in Drainers : e # d => batch'[e] = batch[e]
    BY <1>b, <2>2
  <2>5. r \notin Range(batch[d])
    BY <1>2 DEF TakeBatch, HandsEmpty, Range
  <2> QED BY <2>2, <2>3, <2>4, <2>5 DEF Kept
<1>3. CASE InsertOk(d)
  <2>1. /\ rows' = Inserted(d) /\ queue' = queue
        /\ \A e \in Drainers : e # d => batch'[e] = batch[e]
    BY <1>b, <1>3 DEF InsertOk
  <2>2. CASE r \in Range(batch[d])
    BY <1>a, <2>1, <2>2 DEF Kept
  <2>3. CASE r \notin Range(batch[d])
    <3>1. rows'[r] = rows[r]
      BY <2>1, <2>3 DEF Inserted
    <3> QED BY <2>1, <2>3, <3>1 DEF Kept
  <2> QED BY <2>2, <2>3
<1>4. CASE InsertFails(d)
  BY <1>4, RetryKeeps DEF InsertFails, Kept
<1>5. CASE AnswerLost(d)
  <2>1. rows' = Inserted(d) /\ RetryOrRequeue(d)
    BY <1>5 DEF AnswerLost
  <2>2. rows[r] > 0 => rows'[r] > 0
    BY <1>a, <2>1 DEF FlusherTypeOK, Inserted
  <2> QED BY <2>1, <2>2, RetryKeeps DEF Kept
<1>6. ~FlushRaises(d)
  BY DEF FlushRaises, Escaped, FlusherTypeOK
<1> QED BY <1>1, <1>2, <1>3, <1>4, <1>5, <1>6 DEF DrainerStep

LEMMA HandsEmptyStep ==
    ASSUME FlusherTypeOK, HandsEmpty, [FlusherNext]_flusherVars
    PROVE  HandsEmpty'
PROOF
<1>0. DOMAIN phase = Drainers /\ DOMAIN batch = Drainers
  BY DEF FlusherTypeOK
<1>1. ASSUME NEW r \in Records, Enqueue(r)
      PROVE  HandsEmpty'
  BY <1>1 DEF Enqueue, HandsEmpty
<1>2. CASE Shutdown \/ Tick \/ StopSeen
  BY <1>0, <1>2 DEF Shutdown, Tick, StopSeen, HandsEmpty
<1>3. ASSUME NEW d \in Drainers, DrainerStep(d)
      PROVE  HandsEmpty'
  <2> SUFFICES ASSUME NEW e \in Drainers, phase'[e] # "insert" PROVE batch'[e] = << >>
    BY DEF HandsEmpty
  <2>1. CASE DrainChecks(d)
    BY <1>0, <2>1 DEF DrainChecks, HandsEmpty
  <2>2. CASE TakeBatch(d)
    <3>1. CASE e = d
      <4>1. queue = << >> /\ batch'[e] = SubSeq(queue, 1, IF Len(queue) < BatchLimit THEN Len(queue) ELSE BatchLimit)
        BY <1>0, <2>2, <3>1 DEF TakeBatch
      <4>2. Len(queue) = 0 /\ 0 < BatchLimit
        BY <4>1, FlusherAssumption
      <4>3. batch'[e] = SubSeq(queue, 1, 0)
        BY <4>1, <4>2
      <4> QED BY <4>1, <4>3
    <3>2. CASE e # d
      BY <1>0, <2>2, <3>2 DEF TakeBatch, HandsEmpty
    <3> QED BY <3>1, <3>2
  <2>3. CASE InsertOk(d)
    BY <1>0, <2>3 DEF InsertOk, HandsEmpty
  <2>4. CASE InsertFails(d) \/ AnswerLost(d)
    <3>1. phase[d] = "insert" /\ RetryOrRequeue(d)
      BY <2>4 DEF InsertFails, AnswerLost
    <3> QED BY <1>0, <3>1 DEF RetryOrRequeue, HandsEmpty
  <2>5. CASE FlushRaises(d)
    BY <1>0, <2>5 DEF FlushRaises, HandsEmpty
  <2> QED BY <1>3, <2>1, <2>2, <2>3, <2>4, <2>5 DEF DrainerStep
<1>4. ASSUME NEW d \in Drainers, DeadlinePasses(d)
      PROVE  HandsEmpty'
  BY <1>4 DEF DeadlinePasses, HandsEmpty
<1>5. CASE DatabaseFlips \/ UNCHANGED flusherVars
  BY <1>5 DEF DatabaseFlips, flusherVars, HandsEmpty
<1> QED
  BY <1>1, <1>2, <1>3, <1>4, <1>5 DEF FlusherNext, RunStep, ExitStep, Drainers

\* The lifespan drains after it has set the stop event only.
ExitWaits == stop \/ pc["exit"] = "wait"

LEMMA ExitWaitsStep ==
    ASSUME FlusherTypeOK, ExitWaits, [FlusherNext]_flusherVars
    PROVE  ExitWaits'
PROOF
<1>1. CASE Shutdown \/ Tick \/ StopSeen
  BY <1>1 DEF Shutdown, Tick, StopSeen, ExitWaits, FlusherTypeOK
<1>2. ASSUME NEW d \in Drainers, DrainerStep(d)
      PROVE  ExitWaits'
  <2>1. CASE DrainChecks(d)
    <3>1. stop' = stop /\ pc[d] = "drain" /\ \A e \in Drainers : e # d => pc'[e] = pc[e]
      BY <2>1 DEF DrainChecks, FlusherTypeOK
    <3> QED BY <3>1 DEF ExitWaits, Drainers
  <2>2. CASE FlushRaises(d)
    BY <2>2 DEF FlushRaises, ExitWaits
  <2>3. CASE TakeBatch(d) \/ InsertOk(d) \/ InsertFails(d) \/ AnswerLost(d)
    BY <2>3 DEF TakeBatch, InsertOk, InsertFails, AnswerLost, ExitWaits
  <2> QED BY <1>2, <2>1, <2>2, <2>3 DEF DrainerStep
<1>3. CASE \/ DatabaseFlips \/ UNCHANGED flusherVars
           \/ \E d \in Drainers : DeadlinePasses(d)
           \/ \E r \in Records : Enqueue(r)
  BY <1>3 DEF DatabaseFlips, DeadlinePasses, Enqueue, flusherVars, ExitWaits
<1> QED BY <1>1, <1>2, <1>3 DEF FlusherNext, RunStep, ExitStep, Drainers

\* An exception that has escaped is not forgotten.
LEMMA EscapedStays ==
    ASSUME FlusherTypeOK, ExitWaits, Escaped, [FlusherNext]_flusherVars
    PROVE  Escaped'
PROOF
<1>1. PICK e \in Drainers : pc[e] = "failed"
  BY DEF Escaped
<1> SUFFICES pc'[e] = "failed"
  BY DEF Escaped
<1>2. ASSUME NEW r \in Records, Enqueue(r)
      PROVE  pc'[e] = "failed"
  BY <1>1, <1>2 DEF Enqueue
<1>3. CASE Shutdown
  <2>1. ~stop /\ pc' = [pc EXCEPT !["exit"] = "drain"]
    BY <1>3 DEF Shutdown
  <2> QED BY <1>1, <2>1 DEF ExitWaits, FlusherTypeOK
<1>4. CASE Tick \/ StopSeen
  BY <1>1, <1>4 DEF Tick, StopSeen, FlusherTypeOK
<1>5. ASSUME NEW d \in Drainers, DrainerStep(d)
      PROVE  pc'[e] = "failed"
  <2>1. CASE DrainChecks(d)
    BY <1>1, <2>1 DEF DrainChecks, FlusherTypeOK
  <2>2. CASE FlushRaises(d)
    BY <1>1, <2>2 DEF FlushRaises, FlusherTypeOK
  <2>3. CASE TakeBatch(d) \/ InsertOk(d) \/ InsertFails(d) \/ AnswerLost(d)
    BY <1>1, <2>3 DEF TakeBatch, InsertOk, InsertFails, AnswerLost
  <2> QED BY <1>5, <2>1, <2>2, <2>3 DEF DrainerStep
<1>6. CASE DatabaseFlips \/ UNCHANGED flusherVars \/ \E d \in Drainers : DeadlinePasses(d)
  BY <1>1, <1>6 DEF DatabaseFlips, DeadlinePasses, flusherVars
<1> QED BY <1>2, <1>3, <1>4, <1>5, <1>6 DEF FlusherNext, RunStep, ExitStep, Drainers

LEMMA KeptStep ==
    ASSUME FlusherTypeOK, HandsEmpty, ExitWaits, DroppedOnlyByEscape, [FlusherNext]_flusherVars
    PROVE  DroppedOnlyByEscape'
PROOF
<1> SUFFICES ASSUME ~Escaped', NEW r \in sent' PROVE Kept(r)'
  BY DEF DroppedOnlyByEscape, Kept
<1>e. ~Escaped
  BY EscapedStays
<1>0. /\ \A x \in sent : Kept(x)
      /\ sent \subseteq Records
  BY <1>e DEF DroppedOnlyByEscape, Kept, FlusherTypeOK
<1>1. ASSUME NEW x \in Records, Enqueue(x)
      PROVE  Kept(r)'
  <2>1. queue' = Append(queue, x) /\ sent' = sent \cup {x} /\ UNCHANGED <<rows, batch>>
    BY <1>1 DEF Enqueue
  <2>2. x \in Range(queue') /\ \A y \in Range(queue) : y \in Range(queue')
    BY <2>1, AppendKeeps DEF FlusherTypeOK
  <2> QED BY <1>0, <2>1, <2>2 DEF Kept
<1>2. CASE \/ Shutdown \/ Tick \/ StopSeen \/ DatabaseFlips \/ UNCHANGED flusherVars
           \/ \E d \in Drainers : DeadlinePasses(d)
  <2>1. UNCHANGED <<queue, rows, batch, sent>>
    BY <1>2 DEF Shutdown, Tick, StopSeen, DatabaseFlips, DeadlinePasses, flusherVars
  <2> QED BY <1>0, <2>1 DEF Kept
<1>3. ASSUME NEW d \in Drainers, DrainerStep(d)
      PROVE  Kept(r)'
  <2>1. sent' = sent
    BY <1>3
    DEF DrainerStep, DrainChecks, TakeBatch, InsertOk, InsertFails, AnswerLost, FlushRaises
  <2> QED BY <1>0, <1>3, <2>1, DrainerKeeps
<1> QED BY <1>1, <1>2, <1>3 DEF FlusherNext, RunStep, ExitStep, Drainers

\* Unless an exception escapes that is no PostgresError, an enqueued record is
\* in the table or still held by the process, whatever the two coroutines do.
THEOREM NothingDropped == FlusherSpec => []DroppedOnlyByEscape
PROOF
<1>1. FlusherInit => HandsEmpty /\ ExitWaits /\ DroppedOnlyByEscape
  BY DEF FlusherInit, HandsEmpty, ExitWaits, DroppedOnlyByEscape, Drainers
<1>2. FlusherTypeOK /\ HandsEmpty /\ ExitWaits /\ [FlusherNext]_flusherVars
      => HandsEmpty' /\ ExitWaits'
  BY HandsEmptyStep, ExitWaitsStep
<1>3. FlusherTypeOK /\ HandsEmpty /\ ExitWaits /\ DroppedOnlyByEscape /\ [FlusherNext]_flusherVars
      => DroppedOnlyByEscape'
  BY KeptStep
<1> QED BY <1>1, <1>2, <1>3, FlusherTypeSafe, PTL DEF FlusherSpec

-----------------------------------------------------------------------------
(* Nothing is written twice.                                               *)

NoRepeat(q) == \A i, j \in 1..Len(q) : q[i] = q[j] => i = j

LEMMA AppendApart ==
    ASSUME NEW S, NEW q \in Seq(S), NEW r \in S, NoRepeat(q), r \notin Range(q)
    PROVE  NoRepeat(Append(q, r)) /\ \A x \in Range(Append(q, r)) : x \in Range(q) \/ x = r
PROOF
<1> DEFINE a == Append(q, r)
<1>1. Len(a) = Len(q) + 1 /\ Len(q) \in Nat /\ DOMAIN a = 1..Len(a) /\ DOMAIN q = 1..Len(q)
  OBVIOUS
<1>2. (\A i \in 1..Len(q) : a[i] = q[i]) /\ a[Len(q) + 1] = r
  OBVIOUS
<1>3. \A i \in 1..Len(q) : q[i] # r
  BY <1>1 DEF Range
<1> HIDE DEF a
<1>4. \A i \in 1..Len(a) : i \in 1..Len(q) \/ i = Len(q) + 1
  BY <1>1
<1>5. NoRepeat(a)
  BY <1>1, <1>2, <1>3, <1>4 DEF NoRepeat
<1>6. \A x \in Range(a) : x \in Range(q) \/ x = r
  BY <1>1, <1>2, <1>4 DEF Range
<1> QED BY <1>5, <1>6 DEF a

LEMMA ConcatApart ==
    ASSUME NEW S, NEW q \in Seq(S), NEW b \in Seq(S), NoRepeat(q), NoRepeat(b),
           \A x \in Range(b) : x \notin Range(q)
    PROVE  NoRepeat(q \o b) /\ \A x \in Range(q \o b) : x \in Range(q) \/ x \in Range(b)
PROOF
<1> DEFINE c == q \o b
<1>1. /\ Len(c) = Len(q) + Len(b) /\ Len(q) \in Nat /\ Len(b) \in Nat
      /\ DOMAIN c = 1..Len(c) /\ DOMAIN q = 1..Len(q) /\ DOMAIN b = 1..Len(b)
  OBVIOUS
<1>2. /\ \A i \in 1..Len(q) : c[i] = q[i]
      /\ \A i \in 1..Len(c) : i > Len(q) => c[i] = b[i - Len(q)]
  BY <1>1
<1> HIDE DEF c
<1>3. \A i \in 1..Len(c) : i \in 1..Len(q) \/ (i > Len(q) /\ i - Len(q) \in 1..Len(b))
  BY <1>1
<1>4. \A i \in 1..Len(q), j \in 1..Len(b) : q[i] # b[j]
  BY <1>1 DEF Range
<1>5. NoRepeat(c)
  <2> SUFFICES ASSUME NEW i \in 1..Len(c), NEW j \in 1..Len(c), c[i] = c[j] PROVE i = j
    BY DEF NoRepeat
  <2>1. CASE i \in 1..Len(q) /\ j \in 1..Len(q)
    BY <1>2, <2>1 DEF NoRepeat
  <2>2. CASE i > Len(q) /\ j > Len(q)
    <3>1. i - Len(q) = j - Len(q)
      BY <1>1, <1>2, <1>3, <2>2 DEF NoRepeat
    <3> QED BY <1>1, <3>1
  <2>3. CASE i \in 1..Len(q) /\ j > Len(q)
    BY <1>1, <1>2, <1>3, <1>4, <2>3
  <2>4. CASE i > Len(q) /\ j \in 1..Len(q)
    BY <1>1, <1>2, <1>3, <1>4, <2>4
  <2> QED BY <1>3, <2>1, <2>2, <2>3, <2>4
<1>6. ASSUME NEW x \in Range(c) PROVE x \in Range(q) \/ x \in Range(b)
  <2>1. PICK i \in 1..Len(c) : c[i] = x
    BY <1>1 DEF Range
  <2>2. CASE i \in 1..Len(q)
    BY <1>1, <1>2, <2>1, <2>2 DEF Range
  <2>3. CASE i > Len(q) /\ i - Len(q) \in 1..Len(b)
    BY <1>1, <1>2, <2>1, <2>3 DEF Range
  <2> QED BY <1>3, <2>2, <2>3
<1> QED BY <1>5, <1>6 DEF c

LEMMA SplitApart ==
    ASSUME NEW S, NEW q \in Seq(S), NEW n \in Nat, n <= Len(q), NoRepeat(q)
    PROVE  /\ NoRepeat(SubSeq(q, 1, n)) /\ NoRepeat(SubSeq(q, n + 1, Len(q)))
           /\ \A x \in Range(SubSeq(q, 1, n)) :
                    x \in Range(q) /\ x \notin Range(SubSeq(q, n + 1, Len(q)))
           /\ \A x \in Range(SubSeq(q, n + 1, Len(q))) : x \in Range(q)
PROOF
<1> DEFINE a == SubSeq(q, 1, n)
           b == SubSeq(q, n + 1, Len(q))
<1>1. /\ Len(a) = n /\ Len(b) = Len(q) - n /\ Len(q) \in Nat
      /\ DOMAIN a = 1..n /\ DOMAIN b = 1..(Len(q) - n) /\ DOMAIN q = 1..Len(q)
  OBVIOUS
<1>2a. \A i \in 1..n : a[i] = q[i]
  OBVIOUS
<1>3a. \A i \in 1..(Len(q) - n) : b[i] = q[n + i]
  OBVIOUS
<1> HIDE DEF a, b
<1>2. \A i \in 1..n : a[i] = q[i] /\ i \in 1..Len(q)
  BY <1>1, <1>2a
<1>3. \A i \in 1..(Len(q) - n) : b[i] = q[n + i] /\ n + i \in 1..Len(q)
  BY <1>1, <1>3a
<1>4. NoRepeat(a)
  BY <1>1, <1>2 DEF NoRepeat
<1>5. NoRepeat(b)
  <2> SUFFICES ASSUME NEW i \in 1..Len(b), NEW j \in 1..Len(b), b[i] = b[j] PROVE i = j
    BY DEF NoRepeat
  <2>1. n + i = n + j
    BY <1>1, <1>3 DEF NoRepeat
  <2> QED BY <1>1, <2>1
<1>6. ASSUME NEW x \in Range(a) PROVE x \in Range(q) /\ x \notin Range(b)
  <2>1. PICK i \in 1..n : a[i] = x
    BY <1>1 DEF Range
  <2>2. x = q[i] /\ i \in 1..Len(q)
    BY <1>2, <2>1
  <2>3. ASSUME NEW j \in 1..(Len(q) - n), b[j] = x PROVE FALSE
    <3>1. i = n + j
      BY <1>3, <2>2, <2>3 DEF NoRepeat
    <3> QED BY <1>1, <3>1
  <2> QED BY <1>1, <2>2, <2>3 DEF Range
<1>7. ASSUME NEW x \in Range(b) PROVE x \in Range(q)
  <2>1. PICK j \in 1..(Len(q) - n) : b[j] = x
    BY <1>1 DEF Range
  <2>2. q[n + j] = x /\ n + j \in 1..Len(q)
    BY <1>3, <2>1
  <2> QED BY <1>1, <2>2 DEF Range
<1> QED BY <1>4, <1>5, <1>6, <1>7 DEF a, b

\* The strengthening of CopiesByLossOnly: a record is in one place at most, and
\* while the process holds it, every copy in the table is of a lost answer.
OncePlaced(r) ==
    /\ rows[r] <= lost + 1
    /\ r \in Range(queue) \/ (\E d \in Drainers : r \in Range(batch[d])) =>
            r \in sent /\ rows[r] <= lost
    /\ rows[r] > 0 => r \in sent
    /\ \A d \in Drainers : r \in Range(batch[d]) =>
            /\ r \notin Range(queue)
            /\ \A e \in Drainers : r \in Range(batch[e]) => e = d

Apart ==
    /\ NoRepeat(queue)
    /\ \A d \in Drainers : NoRepeat(batch[d])
    /\ \A r \in Records : OncePlaced(r)

LEMMA EmptyApart == NoRepeat(<< >>) /\ \A x : x \notin Range(<< >>)
BY DEF NoRepeat, Range

\* A failed attempt moves records, and brings none into the process.
LEMMA RetryApart ==
    ASSUME FlusherTypeOK, Apart, NEW d \in Drainers, RetryOrRequeue(d)
    PROVE  /\ NoRepeat(queue')
           /\ \A e \in Drainers : NoRepeat(batch'[e])
           /\ \A r \in Records :
                 /\ r \in Range(queue') => r \in Range(queue) \/ \E e \in Drainers : r \in Range(batch[e])
                 /\ \A e \in Drainers : r \in Range(batch'[e]) =>
                       r \in Range(batch[e]) /\ r \notin Range(queue')
PROOF
<1>0. /\ queue \in Seq(Records) /\ batch[d] \in Seq(Records)
      /\ batch \in [Drainers -> Seq(Records)]
  BY DEF FlusherTypeOK
<1>r. \A x \in Range(queue) \cup Range(batch[d]) : x \in Records
  BY <1>0 DEF Range
<1>1. CASE attempt[d] < Retries
  BY <1>1 DEF RetryOrRequeue, Apart, OncePlaced
<1>2. CASE ~(attempt[d] < Retries)
  <2>1. queue' = queue \o batch[d] /\ batch' = [batch EXCEPT ![d] = << >>]
    BY <1>2 DEF RetryOrRequeue
  <2>2. \A x \in Range(batch[d]) : x \notin Range(queue)
    BY <1>r DEF Apart, OncePlaced
  <2>3. /\ NoRepeat(queue')
        /\ \A x \in Range(queue') : x \in Range(queue) \/ x \in Range(batch[d])
    BY <1>0, <2>1, <2>2, ConcatApart DEF Apart
  <2>4. batch'[d] = << >> /\ \A e \in Drainers : e # d => batch'[e] = batch[e]
    BY <1>0, <2>1
  <2>5. \A e \in Drainers : NoRepeat(batch'[e])
    BY <2>4, EmptyApart DEF Apart
  <2>6. ASSUME NEW r \in Records, NEW e \in Drainers, r \in Range(batch'[e])
        PROVE  r \in Range(batch[e]) /\ r \notin Range(queue')
    <3>1. e # d /\ r \in Range(batch[e])
      BY <2>4, <2>6, EmptyApart
    <3>2. r \notin Range(queue) /\ r \notin Range(batch[d])
      BY <3>1 DEF Apart, OncePlaced
    <3> QED BY <2>3, <3>1, <3>2
  <2> QED BY <2>3, <2>5, <2>6
<1> QED BY <1>1, <1>2

LEMMA DrainerApart ==
    ASSUME FlusherTypeOK, HandsEmpty, Apart,
           NEW d \in Drainers, DrainerStep(d)
    PROVE  Apart'
PROOF
<1>0. /\ queue \in Seq(Records) /\ batch \in [Drainers -> Seq(Records)]
      /\ rows \in [Records -> Nat] /\ lost \in Nat
  BY FlusherAssumption DEF FlusherTypeOK
<1>1. CASE DrainChecks(d)
  BY <1>1 DEF DrainChecks, Apart, OncePlaced
<1>2. CASE TakeBatch(d)
  <2> DEFINE n == IF Len(queue) < BatchLimit THEN Len(queue) ELSE BatchLimit
  <2>1. n \in Nat /\ n <= Len(queue)
    BY <1>0, FlusherAssumption
  <2>2. /\ batch' = [batch EXCEPT ![d] = SubSeq(queue, 1, n)]
        /\ queue' = SubSeq(queue, n + 1, Len(queue))
        /\ rows' = rows /\ sent' = sent /\ lost' = lost
    BY <1>2 DEF TakeBatch
  <2> HIDE DEF n
  <2>3. /\ batch'[d] = SubSeq(queue, 1, n)
        /\ \A e \in Drainers : e # d => batch'[e] = batch[e]
    BY <1>0, <2>2
  <2>4. /\ NoRepeat(batch'[d]) /\ NoRepeat(queue')
        /\ \A x \in Range(batch'[d]) : x \in Range(queue) /\ x \notin Range(queue')
        /\ \A x \in Range(queue') : x \in Range(queue)
    BY <1>0, <2>1, <2>2, <2>3, SplitApart DEF Apart
  <2>5. \A e \in Drainers : NoRepeat(batch'[e])
    BY <2>3, <2>4 DEF Apart
  <2>6. ASSUME NEW r \in Records PROVE OncePlaced(r)'
    <3>1. OncePlaced(r)
      BY DEF Apart
    <3>2. \A e \in Drainers : e # d => (r \in Range(batch'[e]) <=> r \in Range(batch[e]))
      BY <2>3
    <3>3. \A e \in Drainers : r \in Range(batch[e]) => r \notin Range(queue)
      BY <3>1 DEF OncePlaced
    <3>4. ASSUME NEW e \in Drainers, r \in Range(batch'[e])
          PROVE  /\ r \notin Range(queue')
                 /\ \A f \in Drainers : r \in Range(batch'[f]) => f = e
      BY <2>4, <3>1, <3>2, <3>3, <3>4 DEF OncePlaced
    <3>5. r \in Range(queue') \/ (\E e \in Drainers : r \in Range(batch'[e])) =>
                r \in sent /\ rows[r] <= lost
      BY <2>4, <3>1, <3>2 DEF OncePlaced
    <3> QED BY <2>2, <3>1, <3>4, <3>5 DEF OncePlaced
  <2> QED BY <2>4, <2>5, <2>6 DEF Apart
<1>3. CASE InsertOk(d)
  <2>1. /\ rows' = Inserted(d) /\ queue' = queue /\ sent' = sent /\ lost' = lost
        /\ batch'[d] = << >>
        /\ \A e \in Drainers : e # d => batch'[e] = batch[e]
    BY <1>0, <1>3 DEF InsertOk
  <2>2. \A e \in Drainers : NoRepeat(batch'[e])
    BY <2>1, EmptyApart DEF Apart
  <2>3. ASSUME NEW r \in Records PROVE OncePlaced(r)'
    <3>1. OncePlaced(r) /\ rows[r] \in Nat
      BY <1>0 DEF Apart
    <3>2. rows'[r] = IF r \in Range(batch[d]) THEN rows[r] + 1 ELSE rows[r]
      BY <2>1 DEF Inserted
    <3>3. \A e \in Drainers : r \in Range(batch'[e]) => e # d /\ r \in Range(batch[e])
      BY <2>1, EmptyApart
    <3>4. CASE r \in Range(batch[d])
      <4>1. rows[r] <= lost /\ r \in sent /\ r \notin Range(queue) /\ rows'[r] <= lost + 1
        BY <1>0, <3>1, <3>2, <3>4 DEF OncePlaced
      <4>2. \A e \in Drainers : r \notin Range(batch'[e])
        BY <3>1, <3>3, <3>4 DEF OncePlaced
      <4> QED BY <2>1, <4>1, <4>2 DEF OncePlaced
    <3>5. CASE r \notin Range(batch[d])
      BY <2>1, <3>1, <3>2, <3>3, <3>5 DEF OncePlaced
    <3> QED BY <3>4, <3>5
  <2> QED BY <2>1, <2>2, <2>3 DEF Apart
<1>4. CASE InsertFails(d)
  <2>1. RetryOrRequeue(d) /\ UNCHANGED <<rows, sent, lost>>
    BY <1>4 DEF InsertFails
  <2>2. ASSUME NEW r \in Records PROVE OncePlaced(r)'
    <3>1. OncePlaced(r)
      BY DEF Apart
    <3> QED BY <2>1, <3>1, RetryApart DEF OncePlaced
  <2> QED BY <2>1, <2>2, RetryApart DEF Apart
<1>5. CASE AnswerLost(d)
  <2>1. RetryOrRequeue(d) /\ rows' = Inserted(d) /\ lost' = lost + 1 /\ sent' = sent
    BY <1>5 DEF AnswerLost
  <2>2. ASSUME NEW r \in Records PROVE OncePlaced(r)'
    <3>1. OncePlaced(r) /\ rows[r] \in Nat
      BY <1>0 DEF Apart
    <3>2. rows'[r] = IF r \in Range(batch[d]) THEN rows[r] + 1 ELSE rows[r]
      BY <2>1 DEF Inserted
    <3>3. rows'[r] <= lost' /\ (rows'[r] > 0 => r \in sent)
      BY <1>0, <2>1, <3>1, <3>2 DEF OncePlaced
    <3>4. /\ r \in Range(queue') => r \in sent
          /\ \A e \in Drainers : r \in Range(batch'[e]) =>
                r \in sent /\ r \in Range(batch[e]) /\ r \notin Range(queue')
      BY <2>1, <3>1, RetryApart DEF OncePlaced
    <3>5. rows'[r] <= lost' + 1
      BY <1>0, <2>1, <3>1, <3>2, <3>3
    <3> QED BY <2>1, <3>1, <3>3, <3>4, <3>5 DEF OncePlaced
  <2> QED BY <2>1, <2>2, RetryApart DEF Apart
<1>6. CASE FlushRaises(d)
  <2>1. /\ \A e \in Drainers : batch'[e] = << >> \/ batch'[e] = batch[e]
        /\ UNCHANGED <<queue, rows, sent, lost>>
    BY <1>6 DEF FlushRaises
  <2>2. \A e \in Drainers : NoRepeat(batch'[e])
    BY <2>1, EmptyApart DEF Apart
  <2>3. ASSUME NEW r \in Records PROVE OncePlaced(r)'
    <3>1. OncePlaced(r) /\ \A e \in Drainers : r \in Range(batch'[e]) => r \in Range(batch[e])
      BY <2>1, EmptyApart DEF Apart
    <3> QED BY <2>1, <3>1 DEF OncePlaced
  <2> QED BY <2>1, <2>2, <2>3 DEF Apart
<1> QED BY <1>1, <1>2, <1>3, <1>4, <1>5, <1>6 DEF DrainerStep

LEMMA ApartStep ==
    ASSUME FlusherTypeOK, HandsEmpty, Apart, [FlusherNext]_flusherVars
    PROVE  Apart'
PROOF
<1>1. ASSUME NEW x \in Records, Enqueue(x)
      PROVE  Apart'
  <2>1. /\ queue' = Append(queue, x) /\ sent' = sent \cup {x} /\ x \notin sent
        /\ UNCHANGED <<rows, batch, lost>>
    BY <1>1 DEF Enqueue
  <2>2. x \notin Range(queue) /\ ~(rows[x] > 0) /\ \A d \in Drainers : x \notin Range(batch[d])
    BY <2>1 DEF Apart, OncePlaced
  <2>3. /\ NoRepeat(queue')
        /\ \A y \in Range(queue') : y \in Range(queue) \/ y = x
    BY <2>1, <2>2, AppendApart DEF FlusherTypeOK, Apart
  <2>4. ASSUME NEW r \in Records PROVE OncePlaced(r)'
    <3>1. OncePlaced(r) /\ rows[r] \in Nat /\ lost \in Nat
      BY FlusherAssumption DEF Apart, FlusherTypeOK
    <3> QED BY <2>1, <2>2, <2>3, <3>1 DEF OncePlaced
  <2> QED BY <2>1, <2>3, <2>4 DEF Apart
<1>2. CASE \/ Shutdown \/ Tick \/ StopSeen \/ DatabaseFlips \/ UNCHANGED flusherVars
           \/ \E d \in Drainers : DeadlinePasses(d)
  <2>1. UNCHANGED <<queue, rows, batch, sent, lost>>
    BY <1>2 DEF Shutdown, Tick, StopSeen, DatabaseFlips, DeadlinePasses, flusherVars
  <2> QED BY <2>1 DEF Apart, OncePlaced
<1>3. ASSUME NEW d \in Drainers, DrainerStep(d)
      PROVE  Apart'
  BY <1>3, DrainerApart
<1> QED BY <1>1, <1>2, <1>3 DEF FlusherNext, RunStep, ExitStep, Drainers

\* A record is written once, and once more for every answer that was lost.
THEOREM NothingTwice == FlusherSpec => []CopiesByLossOnly
PROOF
<1>1. FlusherInit => HandsEmpty /\ Apart
  <2> SUFFICES ASSUME FlusherInit PROVE HandsEmpty /\ Apart
    OBVIOUS
  <2>1. queue = << >> /\ \A d \in Drainers : batch[d] = << >>
    BY DEF FlusherInit
  <2>2. lost = 0 /\ \A r \in Records : rows[r] = 0
    BY DEF FlusherInit
  <2> QED BY <2>1, <2>2, EmptyApart DEF HandsEmpty, Apart, OncePlaced
<1>2. FlusherTypeOK /\ HandsEmpty /\ [FlusherNext]_flusherVars => HandsEmpty'
  BY HandsEmptyStep
<1>3. FlusherTypeOK /\ HandsEmpty /\ Apart /\ [FlusherNext]_flusherVars => Apart'
  BY ApartStep
<1>4. Apart => CopiesByLossOnly
  BY DEF Apart, OncePlaced, CopiesByLossOnly
<1> QED BY <1>1, <1>2, <1>3, <1>4, FlusherTypeSafe, PTL DEF FlusherSpec

-----------------------------------------------------------------------------
(* The flusher implements the audit log.                                   *)

LEMMA HeldIs ==
    /\ \A r : r \in Held <=> r \in Range(queue) \/ \E d \in Drainers : r \in Range(batch[d])
    /\ (\A r : r \in Held <=> r \in Range(queue) \/ \E d \in Drainers : r \in Range(batch[d]))'
BY DEF Held

\* A step that moves no record out of the process, into it or into the table.
LEMMA LogSame ==
    ASSUME UNCHANGED <<sent, rows, lost>>, Held' = Held,
           \A d \in Drainers : pc'[d] = "failed" <=> pc[d] = "failed"
    PROVE  UNCHANGED Log!logVars
PROOF
<1>1. Escaped' = Escaped
  BY DEF Escaped
<1> QED BY <1>1 DEF Log!logVars

LEMMA RetryHolds ==
    ASSUME FlusherTypeOK, Apart, NEW d \in Drainers, RetryOrRequeue(d)
    PROVE  Held' = Held
PROOF
<1>1. ASSUME NEW r, r \in Held PROVE r \in Held'
  BY <1>1, HeldIs, RetryKeeps
<1>2. ASSUME NEW r, r \in Held' PROVE r \in Held
  <2>1. CASE attempt[d] < Retries
    BY <1>2, <2>1, HeldIs DEF RetryOrRequeue
  <2>2. CASE ~(attempt[d] < Retries)
    <3>1. queue' = queue \o batch[d] /\ batch' = [batch EXCEPT ![d] = << >>]
      BY <2>2 DEF RetryOrRequeue
    <3>2. batch'[d] = << >> /\ \A e \in Drainers : e # d => batch'[e] = batch[e]
      BY <3>1 DEF FlusherTypeOK
    <3>3. \A x \in Range(queue') : x \in Range(queue) \/ x \in Range(batch[d])
      <4>1. queue \in Seq(Records) /\ batch[d] \in Seq(Records)
        BY DEF FlusherTypeOK
      <4>2. \A x \in Range(batch[d]) : x \in Records
        BY <4>1 DEF Range
      <4>3. \A x \in Range(batch[d]) : x \notin Range(queue)
        BY <4>2 DEF Apart, OncePlaced
      <4> QED BY <3>1, <4>1, <4>3, ConcatApart DEF Apart
    <3> QED BY <1>2, <3>2, <3>3, HeldIs, EmptyApart
  <2> QED BY <2>1, <2>2
<1> QED BY <1>1, <1>2

LEMMA TakeHolds ==
    ASSUME FlusherTypeOK, HandsEmpty, Apart, NEW d \in Drainers, TakeBatch(d)
    PROVE  Held' = Held
PROOF
<1> DEFINE n == IF Len(queue) < BatchLimit THEN Len(queue) ELSE BatchLimit
<1>1. n \in Nat /\ n <= Len(queue)
  BY FlusherAssumption DEF FlusherTypeOK
<1>2. /\ batch' = [batch EXCEPT ![d] = SubSeq(queue, 1, n)]
      /\ queue' = SubSeq(queue, n + 1, Len(queue))
      /\ batch[d] = << >>
  BY DEF TakeBatch, HandsEmpty
<1> HIDE DEF n
<1>3. batch'[d] = SubSeq(queue, 1, n) /\ \A e \in Drainers : e # d => batch'[e] = batch[e]
  BY <1>2 DEF FlusherTypeOK
<1>4. \A x : x \in Range(queue) <=> x \in Range(batch'[d]) \/ x \in Range(queue')
  BY <1>1, <1>2, <1>3, SplitKeeps, SplitApart DEF FlusherTypeOK, Apart
<1>5. \A x : x \in Held' <=> x \in Held
  BY <1>2, <1>3, <1>4, HeldIs, EmptyApart
<1> QED BY <1>5

LEMMA LogByDrainer ==
    ASSUME FlusherTypeOK, HandsEmpty, ExitWaits, Apart, NEW d \in Drainers, DrainerStep(d)
    PROVE  [Log!LogNext]_(Log!logVars)
PROOF
<1>1. CASE DrainChecks(d)
  <2>1. UNCHANGED <<sent, rows, lost, queue, batch>>
    BY <1>1 DEF DrainChecks
  <2>2. \A e \in Drainers : pc'[e] = "failed" <=> pc[e] = "failed"
    BY <1>1 DEF DrainChecks, FlusherTypeOK
  <2> QED BY <2>1, <2>2, LogSame DEF Held
<1>2. CASE TakeBatch(d)
  BY <1>2, TakeHolds, LogSame DEF TakeBatch
<1>3. CASE InsertFails(d)
  BY <1>3, RetryHolds, LogSame DEF InsertFails
<1>4. CASE InsertOk(d)
  <2> DEFINE S == Range(batch[d])
  <2>1. /\ rows' = Inserted(d) /\ UNCHANGED <<queue, sent, lost, pc>>
        /\ batch'[d] = << >> /\ \A e \in Drainers : e # d => batch'[e] = batch[e]
    BY <1>4 DEF InsertOk, FlusherTypeOK
  <2>2. \A x \in S : x \in Records
    BY DEF FlusherTypeOK, Range
  <2>3. \A x \in S : x \notin Range(queue) /\ \A e \in Drainers : x \in Range(batch[e]) => e = d
    BY <2>2 DEF Apart, OncePlaced
  <2>4. \A x : x \in Held' <=> x \in Held /\ x \notin S
    BY <2>1, <2>3, HeldIs, EmptyApart
  <2>5. Held' = Held \ S /\ S \in SUBSET Held
    BY <2>4, HeldIs
  <2>6. Escaped' = Escaped
    BY <2>1 DEF Escaped
  <2>7. Log!Commit(S)
    BY <2>1, <2>5, <2>6 DEF Log!Commit, Log!Written, Inserted
  <2> QED BY <2>5, <2>7 DEF Log!LogNext
<1>5. CASE AnswerLost(d)
  <2> DEFINE S == Range(batch[d])
  <2>1. rows' = Inserted(d) /\ lost' = lost + 1 /\ UNCHANGED <<sent, pc>> /\ RetryOrRequeue(d)
    BY <1>5 DEF AnswerLost
  <2>2. Held' = Held /\ S \in SUBSET Held
    BY <2>1, RetryHolds, HeldIs
  <2>3. Escaped' = Escaped
    BY <2>1 DEF Escaped
  <2>4. Log!CommitUnanswered(S)
    BY <2>1, <2>2, <2>3 DEF Log!CommitUnanswered, Log!Written, Inserted
  <2> QED BY <2>2, <2>4 DEF Log!LogNext
<1>6. CASE FlushRaises(d)
  <2> DEFINE S == Held \ Held'
  <2>1. /\ \A e \in Drainers : batch'[e] = << >> \/ batch'[e] = batch[e]
        /\ UNCHANGED <<queue, rows, sent, lost>>
        /\ pc'[d] = "failed"
    BY <1>6 DEF FlushRaises
  <2>2. \A x : x \in Held' => x \in Held
    BY <2>1, HeldIs, EmptyApart
  <2>3. Held' = Held \ S /\ S \in SUBSET Held
    BY <2>2
  <2>4. Escaped' = TRUE
    BY <2>1 DEF Escaped
  <2>5. Log!GiveUp(S)
    BY <2>1, <2>3, <2>4 DEF Log!GiveUp
  <2> QED BY <2>3, <2>5 DEF Log!LogNext
<1> QED BY <1>1, <1>2, <1>3, <1>4, <1>5, <1>6 DEF DrainerStep

LEMMA LogStep ==
    ASSUME FlusherTypeOK, HandsEmpty, ExitWaits, Apart, [FlusherNext]_flusherVars
    PROVE  [Log!LogNext]_(Log!logVars)
PROOF
<1>1. ASSUME NEW x \in Records, Enqueue(x)
      PROVE  Log!Accept(x)
  <2>1. /\ x \notin sent /\ queue' = Append(queue, x) /\ sent' = sent \cup {x}
        /\ UNCHANGED <<rows, batch, lost, pc>>
    BY <1>1 DEF Enqueue
  <2>2. x \notin Range(queue)
    BY <2>1 DEF Apart, OncePlaced
  <2>3. \A y : y \in Range(queue') <=> y \in Range(queue) \/ y = x
    BY <2>1, <2>2, AppendKeeps, AppendApart DEF FlusherTypeOK, Apart
  <2>4. \A y : y \in Held' <=> y \in Held \/ y = x
    BY <2>1, <2>3, HeldIs
  <2>5. Held' = Held \cup {x}
    BY <2>4
  <2>6. Escaped' = Escaped
    BY <2>1 DEF Escaped
  <2> QED BY <2>1, <2>5, <2>6 DEF Log!Accept
<1>2. CASE \/ Shutdown \/ Tick \/ StopSeen \/ DatabaseFlips \/ UNCHANGED flusherVars
           \/ \E d \in Drainers : DeadlinePasses(d)
  <2>1. UNCHANGED <<queue, rows, batch, sent, lost>>
    BY <1>2 DEF Shutdown, Tick, StopSeen, DatabaseFlips, DeadlinePasses, flusherVars
  <2>2. \A d \in Drainers : pc'[d] = "failed" <=> pc[d] = "failed"
    <3>1. CASE Shutdown
      BY <3>1 DEF Shutdown, ExitWaits, FlusherTypeOK
    <3>2. CASE StopSeen
      BY <3>2 DEF StopSeen, FlusherTypeOK
    <3> QED BY <1>2, <3>1, <3>2 DEF Tick, DatabaseFlips, DeadlinePasses, flusherVars
  <2> QED BY <2>1, <2>2, LogSame DEF Held
<1> QED BY <1>1, <1>2, LogByDrainer DEF FlusherNext, RunStep, ExitStep, Drainers, Log!LogNext

\* Whatever the two coroutines, a shutdown, a failing or unanswering database
\* do: a record is in the hands of the process from the enqueue to the answer of
\* its insert, a batch is one transaction, and only an exception that leaves
\* _flush_batch lets go of records (event_flusher.py).
THEOREM FlusherImplementsLog == FlusherSpec => ImplementsLog
PROOF
<1>1. FlusherInit => HandsEmpty /\ ExitWaits /\ Apart /\ Log!LogInit
  <2> SUFFICES ASSUME FlusherInit PROVE HandsEmpty /\ ExitWaits /\ Apart /\ Log!LogInit
    OBVIOUS
  <2>1. queue = << >> /\ \A d \in Drainers : batch[d] = << >> /\ pc[d] = "wait"
    BY DEF FlusherInit
  <2>2. lost = 0 /\ \A r \in Records : rows[r] = 0
    BY DEF FlusherInit
  <2>3. HandsEmpty /\ ExitWaits /\ Apart
    BY <2>1, <2>2, EmptyApart DEF HandsEmpty, ExitWaits, Drainers, Apart, OncePlaced
  <2>4. Held = {}
    BY <2>1, HeldIs, EmptyApart
  <2>5. Escaped = FALSE
    BY <2>1 DEF Escaped
  <2> QED BY <2>3, <2>4, <2>5 DEF FlusherInit, Log!LogInit
<1>2. FlusherTypeOK /\ HandsEmpty /\ ExitWaits /\ Apart /\ [FlusherNext]_flusherVars
      => HandsEmpty' /\ ExitWaits' /\ Apart' /\ [Log!LogNext]_(Log!logVars)
  BY HandsEmptyStep, ExitWaitsStep, ApartStep, LogStep
<1> QED BY <1>1, <1>2, FlusherTypeSafe, PTL DEF FlusherSpec, ImplementsLog, Log!LogSpec
=============================================================================
