------------------------- MODULE EventStreamProofs -------------------------
(***************************************************************************)
(* For any number of clients and ids, any queue length and any cap of the  *)
(* replay: a client receives events once and in order, and what it misses  *)
(* has one of the causes that GapsHaveCause lists.                         *)
(***************************************************************************)
EXTENDS EventStream, FiniteSetTheorems, TLAPS

-----------------------------------------------------------------------------
(* Sequences.                                                              *)

\* Numbers in order, but for those in X, which may be below what precedes them.
Ordered(q, X) == \A m, n \in DOMAIN q : m < n /\ q[n] \notin X => q[m] < q[n]

LEMMA AppendFacts ==
    ASSUME NEW S, NEW q \in Seq(S), NEW x \in S
    PROVE  /\ Append(q, x) \in Seq(S)
           /\ Len(Append(q, x)) = Len(q) + 1
           /\ Range(Append(q, x)) = Range(q) \cup {x}
           /\ \A n \in 1..Len(q) : Append(q, x)[n] = q[n]
           /\ Append(q, x)[Len(q) + 1] = x
PROOF
<1>1. /\ Append(q, x) \in Seq(S) /\ Len(Append(q, x)) = Len(q) + 1 /\ Len(q) \in Nat
      /\ \A n \in 1..Len(q) : Append(q, x)[n] = q[n]
      /\ Append(q, x)[Len(q) + 1] = x
      /\ DOMAIN q = 1..Len(q) /\ DOMAIN Append(q, x) = 1..(Len(q) + 1)
  OBVIOUS
<1>2. ASSUME NEW y \in Range(Append(q, x)) PROVE y \in Range(q) \cup {x}
  <2>1. PICK n \in 1..(Len(q) + 1) : y = Append(q, x)[n]
    BY <1>1 DEF Range
  <2>2. CASE n = Len(q) + 1
    BY <1>1, <2>1, <2>2
  <2>3. CASE n # Len(q) + 1
    <3>1. n \in 1..Len(q)
      BY <1>1, <2>3
    <3> QED BY <1>1, <2>1, <3>1 DEF Range
  <2> QED BY <2>2, <2>3
<1>3. ASSUME NEW y \in Range(q) PROVE y \in Range(Append(q, x))
  <2>1. PICK n \in 1..Len(q) : y = q[n]
    BY <1>1 DEF Range
  <2>2. n \in 1..(Len(q) + 1)
    BY <1>1
  <2> QED BY <1>1, <2>1, <2>2 DEF Range
<1>4. x \in Range(Append(q, x))
  <2>1. Len(q) + 1 \in 1..(Len(q) + 1)
    BY <1>1
  <2> QED BY <1>1, <2>1 DEF Range
<1> QED BY <1>1, <1>2, <1>3, <1>4

LEMMA TailFacts ==
    ASSUME NEW S, NEW q \in Seq(S), q # << >>
    PROVE  /\ Tail(q) \in Seq(S)
           /\ Len(Tail(q)) = Len(q) - 1
           /\ Head(q) \in S /\ Head(q) = q[1]
           /\ Range(q) = Range(Tail(q)) \cup {Head(q)}
           /\ \A n \in 1..(Len(q) - 1) : Tail(q)[n] = q[n + 1]
           /\ DOMAIN Tail(q) = 1..(Len(q) - 1)
PROOF
<1>1. /\ Tail(q) \in Seq(S) /\ Len(Tail(q)) = Len(q) - 1 /\ Len(q) \in Nat /\ Len(q) >= 1
      /\ Head(q) \in S /\ Head(q) = q[1]
      /\ DOMAIN q = 1..Len(q) /\ DOMAIN Tail(q) = 1..(Len(q) - 1)
  OBVIOUS
<1>2. \A n \in 1..(Len(q) - 1) : Tail(q)[n] = q[n + 1] /\ n + 1 \in 1..Len(q)
  BY <1>1
<1>3. ASSUME NEW y \in Range(q) PROVE y \in Range(Tail(q)) \cup {Head(q)}
  <2>1. PICK n \in 1..Len(q) : y = q[n]
    BY <1>1 DEF Range
  <2>2. CASE n = 1
    BY <1>1, <2>1, <2>2
  <2>3. CASE n # 1
    <3>1. n - 1 \in 1..(Len(q) - 1) /\ (n - 1) + 1 = n
      BY <1>1, <2>3
    <3>2. Tail(q)[n - 1] = y
      BY <1>2, <2>1, <3>1
    <3> QED BY <1>1, <3>1, <3>2 DEF Range
  <2> QED BY <2>2, <2>3
<1>4. ASSUME NEW y \in Range(Tail(q)) PROVE y \in Range(q)
  <2>1. PICK n \in 1..(Len(q) - 1) : y = Tail(q)[n]
    BY <1>1 DEF Range
  <2> QED BY <1>1, <1>2, <2>1 DEF Range
<1>5. 1 \in 1..Len(q)
  BY <1>1
<1>6. Head(q) \in Range(q)
  BY <1>1, <1>5 DEF Range
<1> QED BY <1>1, <1>2, <1>3, <1>4, <1>6

LEMMA WiderSeq ==
    ASSUME NEW S, NEW T, S \subseteq T, NEW q \in Seq(S)
    PROVE  q \in Seq(T) /\ Range(q) \subseteq S
PROOF
<1>1. Len(q) \in Nat /\ q \in [1..Len(q) -> S]
  OBVIOUS
<1>2. q \in [1..Len(q) -> T]
  BY <1>1
<1> QED BY <1>1, <1>2 DEF Range

LEMMA OrderedTail ==
    ASSUME NEW q \in Seq(Nat), NEW X, q # << >>, Ordered(q, X)
    PROVE  /\ Ordered(Tail(q), X)
           /\ \A y \in Range(Tail(q)) : y \notin X => Head(q) < y
PROOF
<1>1. /\ Len(q) \in Nat /\ Len(q) >= 1 /\ DOMAIN q = 1..Len(q) /\ DOMAIN Tail(q) = 1..(Len(q) - 1)
      /\ \A n \in 1..(Len(q) - 1) : Tail(q)[n] = q[n + 1] /\ n + 1 \in 1..Len(q)
      /\ Head(q) = q[1]
  BY TailFacts
<1>2. ASSUME NEW m \in DOMAIN Tail(q), NEW n \in DOMAIN Tail(q), m < n, Tail(q)[n] \notin X
      PROVE  Tail(q)[m] < Tail(q)[n]
  <2>1. m + 1 \in DOMAIN q /\ n + 1 \in DOMAIN q /\ m + 1 < n + 1
    BY <1>1, <1>2
  <2>2. q[n + 1] \notin X
    BY <1>1, <1>2
  <2>3. q[m + 1] < q[n + 1]
    BY <2>1, <2>2 DEF Ordered
  <2> QED BY <1>1, <2>3
<1>3. ASSUME NEW y \in Range(Tail(q)), y \notin X PROVE Head(q) < y
  <2>1. PICK n \in 1..(Len(q) - 1) : y = Tail(q)[n]
    BY <1>1 DEF Range
  <2>2. 1 \in DOMAIN q /\ n + 1 \in DOMAIN q /\ 1 < n + 1 /\ q[n + 1] = y
    BY <1>1, <2>1
  <2> QED BY <1>1, <1>3, <2>2 DEF Ordered
<1> QED BY <1>2, <1>3 DEF Ordered

LEMMA OrderedAppend ==
    ASSUME NEW q \in Seq(Nat), NEW X, NEW x \in Nat, Ordered(q, X),
           x \notin X => \A y \in Range(q) : y < x
    PROVE  Ordered(Append(q, x), X)
PROOF
<1>1. /\ Len(q) \in Nat /\ DOMAIN q = 1..Len(q) /\ DOMAIN Append(q, x) = 1..(Len(q) + 1)
      /\ \A n \in 1..Len(q) : Append(q, x)[n] = q[n]
      /\ Append(q, x)[Len(q) + 1] = x
  OBVIOUS
<1> SUFFICES ASSUME NEW m \in 1..(Len(q) + 1), NEW n \in 1..(Len(q) + 1), m < n, Append(q, x)[n] \notin X
             PROVE  Append(q, x)[m] < Append(q, x)[n]
  BY <1>1 DEF Ordered
<1>2. m \in 1..Len(q)
  BY <1>1
<1>3. CASE n = Len(q) + 1
  <2>1. q[m] \in Range(q)
    BY <1>1, <1>2 DEF Range
  <2> QED BY <1>1, <1>2, <1>3, <2>1
<1>4. CASE n # Len(q) + 1
  <2>1. n \in 1..Len(q)
    BY <1>1, <1>4
  <2> QED BY <1>1, <1>2, <2>1 DEF Ordered
<1> QED BY <1>3, <1>4

-----------------------------------------------------------------------------
(* Types.                                                                  *)

Entries == {Drop} \cup Ids

Streams == [at : {"off", "asking", "replaying", "live"}, listed : BOOLEAN, mark : Nat,
            queue : Seq(Entries), rows : SUBSET Ids, rest : SUBSET Ids]

LEMMA OffType == Off \in Streams /\ Off.queue = << >> /\ Off.rows = {} /\ Off.rest = {} /\ Off.at = "off"
PROOF
<1>1. << >> \in Seq(Entries) /\ 0 \in Nat
  OBVIOUS
<1> QED BY <1>1 DEF Off, Streams, None

Requeue(s, q) == [s EXCEPT !.listed = FALSE, !.queue = q]

LEMMA Requeued ==
    ASSUME NEW s \in Streams, NEW q \in Seq(Entries)
    PROVE  /\ Requeue(s, q) \in Streams /\ Requeue(s, q).queue = q
           /\ Requeue(s, q).at = s.at /\ Requeue(s, q).mark = s.mark
           /\ Requeue(s, q).rows = s.rows /\ Requeue(s, q).rest = s.rest
PROOF
<1>1. FALSE \in BOOLEAN
  OBVIOUS
<1>2. Requeue(s, q) \in Streams
  BY <1>1 DEF Streams, Requeue
<1>3. /\ Requeue(s, q).queue = q /\ Requeue(s, q).at = s.at /\ Requeue(s, q).mark = s.mark
      /\ Requeue(s, q).rows = s.rows /\ Requeue(s, q).rest = s.rest
  BY DEF Streams, Requeue
<1> QED BY <1>2, <1>3

LEMMA Unlisted == ASSUME NEW s \in Streams, NEW q PROVE ~Requeue(s, q).listed
PROOF BY DEF Streams, Requeue

\* What _send_drop_sentinel leaves of a stream.
LEMMA DroppedFacts ==
    ASSUME NEW s \in Streams, Len(s.queue) <= QueueMax
    PROVE  /\ Dropped(s) \in Streams /\ Len(Dropped(s).queue) <= QueueMax
           /\ Dropped(s).at = s.at /\ Dropped(s).mark = s.mark
           /\ Dropped(s).rows = s.rows /\ Dropped(s).rest = s.rest
           /\ ~Dropped(s).listed
           /\ \/ Len(s.queue) < QueueMax /\ Dropped(s).queue = Append(s.queue, Drop)
              \/ /\ Len(s.queue) >= QueueMax /\ s.queue # << >>
                 /\ Dropped(s).queue = Append(Tail(s.queue), Drop)
                 /\ Evicts(s) = {Head(s.queue)}
           /\ Evicts(s) \subseteq Range(s.queue)
PROOF
<1>0. QueueMax \in Nat /\ QueueMax >= 1
  BY StreamAssumption
<1>1. s.queue \in Seq(Entries) /\ Len(s.queue) \in Nat /\ Drop \in Entries
  BY DEF Streams, Entries
<1>2. CASE Len(s.queue) < QueueMax
  <2>1. Dropped(s) = Requeue(s, Append(s.queue, Drop)) /\ Evicts(s) = {}
    BY <1>2 DEF Dropped, Evicts, Requeue
  <2>2. Append(s.queue, Drop) \in Seq(Entries) /\ Len(Append(s.queue, Drop)) = Len(s.queue) + 1
    BY <1>1, AppendFacts
  <2>a. Append(s.queue, Drop) \in Seq(Entries)
    BY <2>2
  <2>b. ~Dropped(s).listed
    BY <2>1, Unlisted, Zenon
  <2>c. Requeue(s, Append(s.queue, Drop)) \in Streams
    BY <2>a, Requeued, Zenon
  <2>d. /\ Requeue(s, Append(s.queue, Drop)).queue = Append(s.queue, Drop)
        /\ Requeue(s, Append(s.queue, Drop)).at = s.at /\ Requeue(s, Append(s.queue, Drop)).mark = s.mark
        /\ Requeue(s, Append(s.queue, Drop)).rows = s.rows /\ Requeue(s, Append(s.queue, Drop)).rest = s.rest
    BY <2>a, Requeued, Zenon
  <2>3. /\ Dropped(s) \in Streams /\ Dropped(s).queue = Append(s.queue, Drop)
        /\ Dropped(s).at = s.at /\ Dropped(s).mark = s.mark
        /\ Dropped(s).rows = s.rows /\ Dropped(s).rest = s.rest
    BY <2>1, <2>c, <2>d, Zenon
  <2> QED BY <1>0, <1>1, <1>2, <2>1, <2>2, <2>3, <2>b
<1>3. CASE ~(Len(s.queue) < QueueMax)
  <2>0. s.queue # << >>
    BY <1>0, <1>1, <1>3
  <2>1. /\ Dropped(s) = Requeue(s, Append(Tail(s.queue), Drop))
        /\ Evicts(s) = {s.queue[1]}
    BY <1>3 DEF Dropped, Evicts, Requeue
  <2>2. /\ Tail(s.queue) \in Seq(Entries) /\ Len(Tail(s.queue)) = Len(s.queue) - 1
        /\ Head(s.queue) = s.queue[1] /\ Head(s.queue) \in Range(s.queue)
    BY <1>1, <2>0, TailFacts
  <2>3. /\ Append(Tail(s.queue), Drop) \in Seq(Entries)
        /\ Len(Append(Tail(s.queue), Drop)) = Len(Tail(s.queue)) + 1
    BY <1>1, <2>2, AppendFacts
  <2>a. Append(Tail(s.queue), Drop) \in Seq(Entries)
    BY <2>3
  <2>b. ~Dropped(s).listed
    BY <2>1, Unlisted, Zenon
  <2>c. Requeue(s, Append(Tail(s.queue), Drop)) \in Streams
    BY <2>a, Requeued, Zenon
  <2>d. /\ Requeue(s, Append(Tail(s.queue), Drop)).queue = Append(Tail(s.queue), Drop)
        /\ Requeue(s, Append(Tail(s.queue), Drop)).at = s.at
        /\ Requeue(s, Append(Tail(s.queue), Drop)).mark = s.mark
        /\ Requeue(s, Append(Tail(s.queue), Drop)).rows = s.rows
        /\ Requeue(s, Append(Tail(s.queue), Drop)).rest = s.rest
    BY <2>a, Requeued, Zenon
  <2>4. /\ Dropped(s) \in Streams /\ Dropped(s).queue = Append(Tail(s.queue), Drop)
        /\ Dropped(s).at = s.at /\ Dropped(s).mark = s.mark
        /\ Dropped(s).rows = s.rows /\ Dropped(s).rest = s.rest
    BY <2>1, <2>c, <2>d, Zenon
  <2> QED BY <1>0, <1>1, <1>3, <2>0, <2>1, <2>2, <2>3, <2>4, <2>b
<1> QED BY <1>2, <1>3

LEMMA TypedStreams ==
    ASSUME StreamTypeOK
    PROVE  /\ stream \in [Clients -> Streams]
           /\ \A c \in Clients : /\ stream[c] \in Streams
                                 /\ stream[c].queue \in Seq(Entries) /\ stream[c].mark \in Nat
                                 /\ Len(stream[c].queue) <= QueueMax
PROOF
BY DEF StreamTypeOK, Streams, Entries

\* The part of StreamTypeOK that a client's steps touch.
ClientTypes(f, g) ==
    /\ f \in [Clients -> Streams]
    /\ \A c \in Clients : Len(f[c].queue) <= QueueMax
    /\ g \in [Clients -> Seq(Ids)]

LEMMA InitTypes == ASSUME StreamInit PROVE StreamTypeOK
PROOF
<1>1. << >> \in Seq(Ids) /\ Len(<< >>) = 0 /\ 0 \in 0..MaxId /\ QueueMax \in Nat
  BY StreamAssumption
<1>2. Off \in Streams /\ Off.queue = << >>
  BY OffType
<1> QED BY <1>1, <1>2 DEF StreamInit, StreamTypeOK, Streams, Entries

\* A step of one client that replaces its stream, and perhaps sends an id.
LEMMA OneStreamTypes ==
    ASSUME StreamTypeOK, NEW c \in Clients, NEW s \in Streams, Len(s.queue) <= QueueMax,
           stream' = [stream EXCEPT ![c] = s],
           \/ seen' = seen
           \/ \E i \in Ids : seen' = [seen EXCEPT ![c] = Append(@, i)]
    PROVE  ClientTypes(stream', seen')
PROOF
<1>1. stream \in [Clients -> Streams] /\ \A d \in Clients : Len(stream[d].queue) <= QueueMax
  BY TypedStreams
<1>2. stream' \in [Clients -> Streams] /\ \A d \in Clients : Len(stream'[d].queue) <= QueueMax
  BY <1>1
<1>3. seen \in [Clients -> Seq(Ids)]
  BY DEF StreamTypeOK
<1>4. seen' \in [Clients -> Seq(Ids)]
  <2>1. ASSUME NEW i \in Ids, seen' = [seen EXCEPT ![c] = Append(@, i)]
        PROVE  seen' \in [Clients -> Seq(Ids)]
    <3>1. Append(seen[c], i) \in Seq(Ids)
      BY <1>3, AppendFacts
    <3> QED BY <1>3, <2>1, <3>1
  <2> QED BY <1>3, <2>1
<1> QED BY <1>2, <1>4 DEF ClientTypes

LEMMA SendsTypes ==
    ASSUME StreamTypeOK, NEW c \in Clients, NEW i \in Ids, NEW s \in Streams,
           Len(s.queue) <= QueueMax, Sends(c, i, s)
    PROVE  ClientTypes(stream', seen')
PROOF
<1> DEFINE r == [s EXCEPT !.mark = IF i > @ THEN i ELSE @]
<1>1. r \in Streams /\ r.queue = s.queue
  <2>1. i \in Nat /\ s.mark \in Nat
    BY StreamAssumption DEF Ids, Streams
  <2> QED BY <2>1 DEF Streams
<1>2. stream' = [stream EXCEPT ![c] = r] /\ seen' = [seen EXCEPT ![c] = Append(@, i)]
  BY DEF Sends
<1> HIDE DEF r
<1> QED BY <1>1, <1>2, OneStreamTypes

LEMMA ReceivesTypes ==
    ASSUME StreamTypeOK, NEW c \in Clients, Receives(c)
    PROVE  /\ Rest(c) \in Streams /\ Len(Rest(c).queue) <= QueueMax
           /\ Head(stream[c].queue) \in Entries
           /\ Rest(c) = [stream[c] EXCEPT !.queue = Tail(stream[c].queue)]
PROOF
<1>1. stream[c] \in Streams /\ stream[c].queue \in Seq(Entries) /\ Len(stream[c].queue) <= QueueMax
  BY TypedStreams
<1>2. stream[c].queue # << >>
  BY DEF Receives
<1>3. /\ Tail(stream[c].queue) \in Seq(Entries) /\ Len(Tail(stream[c].queue)) = Len(stream[c].queue) - 1
      /\ Head(stream[c].queue) \in Entries
  BY <1>1, <1>2, TailFacts
<1>4. QueueMax \in Nat /\ Len(stream[c].queue) \in Nat
  BY <1>1, StreamAssumption
<1>5. Rest(c) = [stream[c] EXCEPT !.queue = Tail(stream[c].queue)]
  BY DEF Rest
<1>6. Rest(c) \in Streams /\ Rest(c).queue = Tail(stream[c].queue)
  BY <1>1, <1>3, <1>5 DEF Streams
<1> QED BY <1>1, <1>3, <1>4, <1>5, <1>6

\* A step that leaves the database and the server alone.
LEMMA ClientStepTypes ==
    ASSUME StreamTypeOK, UNCHANGED tableVars, UNCHANGED serverVars, UNCHANGED evicted,
           ClientTypes(stream', seen'),
           asked' \subseteq Clients, start' \in [Clients -> SUBSET Ids],
           forgotten' \in [Clients -> SUBSET Ids], cut' \in [Clients -> SUBSET Ids]
    PROVE  StreamTypeOK'
PROOF
BY DEF StreamTypeOK, ClientTypes, Streams, Entries, tableVars, serverVars

LEMMA EndsTypes ==
    ASSUME StreamTypeOK, NEW c \in Clients, Ends(c)
    PROVE  StreamTypeOK'
PROOF
<1>1. ClientTypes(stream', seen')
  <2>1. Off \in Streams /\ Len(Off.queue) <= QueueMax
    BY OffType, StreamAssumption
  <2> QED BY <2>1, OneStreamTypes DEF Ends
<1> QED BY <1>1, ClientStepTypes DEF Ends, StreamTypeOK

\* The rows that a replay yields, and those it leaves out.
LEMMA ReplayFacts ==
    ASSUME StreamTypeOK, NEW c \in Clients
    PROVE  /\ Replayed(c) \subseteq Missing(c)
           /\ Missing(c) = {i \in table : i > stream[c].mark}
           /\ \A i \in Replayed(c), j \in Missing(c) \ Replayed(c) : i < j
PROOF
<1>1. table \in SUBSET Ids /\ Ids \subseteq Nat /\ Missing(c) \subseteq table
  BY StreamAssumption DEF StreamTypeOK, Ids, Missing
<1>2. IsFiniteSet(Ids)
  BY FS_Interval, StreamAssumption DEF Ids
<1>3. ASSUME NEW i \in Replayed(c), NEW j \in Missing(c) \ Replayed(c) PROVE i < j
  <2> DEFINE below(k) == {l \in Missing(c) : l <= k}
  <2>1. i \in Nat /\ j \in Nat /\ i \in Missing(c)
    BY <1>1 DEF Replayed
  <2>2. Cardinality(below(i)) <= ReplayLimit /\ ~(Cardinality(below(j)) <= ReplayLimit)
    BY DEF Replayed
  <2>3. SUFFICES ASSUME j <= i PROVE FALSE
    BY <2>1
  <2>4. below(j) \subseteq below(i) /\ below(i) \subseteq Ids
    <3>1. ASSUME NEW l \in Missing(c), l <= j PROVE l <= i
      <4>1. l \in Nat
        BY <1>1
      <4> QED BY <2>1, <2>3, <3>1, <4>1
    <3>2. Missing(c) \subseteq Ids
      BY <1>1
    <3> QED BY <3>1, <3>2
  <2>5. IsFiniteSet(below(i)) /\ IsFiniteSet(below(j))
    BY <1>2, <2>4, FS_Subset
  <2>6. Cardinality(below(j)) <= Cardinality(below(i))
    BY <2>4, <2>5, FS_Subset
  <2>7. Cardinality(below(i)) \in Nat /\ Cardinality(below(j)) \in Nat /\ ReplayLimit \in Nat
    BY <2>5, FS_CardinalityType, StreamAssumption
  <2> HIDE DEF below
  <2> QED BY <2>2, <2>6, <2>7
<1> QED BY <1>3 DEF Replayed, Missing

LEMMA StreamStepTypes ==
    ASSUME StreamTypeOK, NEW c \in Clients, GeneratorStep(c) \/ Subscribe(c) \/ Disconnect(c)
    PROVE  StreamTypeOK'
PROOF
<1>0. /\ stream[c] \in Streams /\ Len(stream[c].queue) <= QueueMax
      /\ table \in SUBSET Ids /\ asked \subseteq Clients /\ cut \in [Clients -> SUBSET Ids]
      /\ start \in [Clients -> SUBSET Ids] /\ forgotten \in [Clients -> SUBSET Ids]
  BY TypedStreams DEF StreamTypeOK
<1>1. CASE Replay(c)
  <2> DEFINE s == [stream[c] EXCEPT !.at = "replaying", !.rows = Replayed(c), !.rest = Missing(c) \ Replayed(c)]
  <2>1. Replayed(c) \in SUBSET Ids /\ Missing(c) \ Replayed(c) \in SUBSET Ids
    BY <1>0, ReplayFacts
  <2>2. s \in Streams /\ s.queue = stream[c].queue
    BY <1>0, <2>1 DEF Streams
  <2>3. stream' = [stream EXCEPT ![c] = s] /\ seen' = seen
    BY <1>1 DEF Replay
  <2> HIDE DEF s
  <2>4. ClientTypes(stream', seen')
    BY <1>0, <2>2, <2>3, OneStreamTypes
  <2> QED BY <1>0, <1>1, <2>4, ClientStepTypes DEF Replay
<1>2. CASE YieldRow(c)
  <2>1. PICK i \in stream[c].rows : Sends(c, i, [stream[c] EXCEPT !.rows = @ \ {i}])
    BY <1>2 DEF YieldRow
  <2> DEFINE s == [stream[c] EXCEPT !.rows = @ \ {i}]
  <2>2. i \in Ids /\ s \in Streams /\ s.queue = stream[c].queue
    BY <1>0 DEF Streams
  <2>3. Sends(c, i, s)
    BY <2>1
  <2> HIDE DEF s
  <2>4. ClientTypes(stream', seen')
    BY <1>0, <2>2, <2>3, SendsTypes
  <2> QED BY <1>0, <1>2, <2>4, ClientStepTypes DEF YieldRow
<1>3. CASE ReplayEnds(c)
  <2> DEFINE s == [stream[c] EXCEPT !.at = "live", !.rest = {}]
  <2>1. s \in Streams /\ s.queue = stream[c].queue
    BY <1>0 DEF Streams
  <2>2. stream' = [stream EXCEPT ![c] = s] /\ seen' = seen
    BY <1>3 DEF ReplayEnds
  <2> HIDE DEF s
  <2>3. ClientTypes(stream', seen')
    BY <1>0, <2>1, <2>2, OneStreamTypes
  <2>4. cut' \in [Clients -> SUBSET Ids]
    <3>1. stream[c].rest \in SUBSET Ids
      BY <1>0 DEF Streams
    <3>2. cut' = [cut EXCEPT ![c] = @ \cup stream[c].rest]
      BY <1>3 DEF ReplayEnds
    <3> QED BY <1>0, <3>1, <3>2
  <2> QED BY <1>0, <1>3, <2>3, <2>4, ClientStepTypes DEF ReplayEnds
<1>4. CASE PassedOver(c)
  <2>1. Rest(c) \in Streams /\ Len(Rest(c).queue) <= QueueMax
    BY <1>4, ReceivesTypes DEF PassedOver
  <2>2. ClientTypes(stream', seen')
    BY <1>4, <2>1, OneStreamTypes DEF PassedOver
  <2> QED BY <1>0, <1>4, <2>2, ClientStepTypes DEF PassedOver
<1>5. CASE PassedOn(c)
  <2>1. Rest(c) \in Streams /\ Len(Rest(c).queue) <= QueueMax /\ Head(stream[c].queue) \in Entries
    BY <1>5, ReceivesTypes DEF PassedOn
  <2>2. Head(stream[c].queue) \in Ids
    <3>1. Head(stream[c].queue) > stream[c].mark /\ stream[c].mark \in Nat
      BY <1>0, <1>5 DEF PassedOn, Streams
    <3> QED BY <2>1, <3>1 DEF Entries, Drop
  <2>3. ClientTypes(stream', seen')
    BY <1>5, <2>1, <2>2, SendsTypes DEF PassedOn
  <2> QED BY <1>0, <1>5, <2>3, ClientStepTypes DEF PassedOn
<1>6. CASE DropSeen(c) \/ Disconnect(c)
  BY <1>6, EndsTypes DEF DropSeen, Disconnect
<1>7. CASE Subscribe(c)
  <2> DEFINE s == [Off EXCEPT !.at = IF Position(c) = None THEN "live" ELSE "asking",
                              !.listed = TRUE, !.mark = Position(c)]
  <2>1. Position(c) \in Nat
    <3>1. seen[c] \in Seq(Ids) /\ Ids \subseteq Nat
      BY StreamAssumption DEF StreamTypeOK, Ids
    <3>2. seen[c] # << >> => Len(seen[c]) \in DOMAIN seen[c] /\ seen[c][Len(seen[c])] \in Ids
      BY <3>1
    <3> QED BY <3>1, <3>2 DEF Position, None
  <2>2. s.queue = << >> /\ s \in Streams
    <3>1. << >> \in Seq(Entries)
      OBVIOUS
    <3> QED BY <2>1, <3>1, OffType DEF Streams, Off
  <2>3. stream' = [stream EXCEPT ![c] = s] /\ seen' = seen
    BY <1>7 DEF Subscribe
  <2> HIDE DEF s
  <2>4. ClientTypes(stream', seen')
    <3>1. Len(s.queue) <= QueueMax
      BY <2>2, StreamAssumption
    <3> QED BY <2>2, <2>3, <3>1, OneStreamTypes
  <2>5. asked' \subseteq Clients /\ start' \in [Clients -> SUBSET Ids]
    BY <1>0, <1>7 DEF Subscribe
  <2>6. forgotten' \in [Clients -> SUBSET Ids]
    BY <1>0, <1>7 DEF Subscribe
  <2> QED BY <1>0, <1>7, <2>4, <2>5, <2>6, ClientStepTypes DEF Subscribe
<1> QED BY <1>1, <1>2, <1>3, <1>4, <1>5, <1>6, <1>7 DEF GeneratorStep

\* A stream that the broker knows has not been told to end.
UntoldStream(c) == stream[c].listed => Drop \notin Range(stream[c].queue)
Untold == \A c \in Clients : UntoldStream(c)

\* FanOut and DropAll take nothing but ids out of the queues.
LEMMA EvictsIds ==
    ASSUME StreamTypeOK, Untold, NEW c \in Clients, stream[c].listed
    PROVE  Evicts(stream[c]) \in SUBSET Ids
PROOF
<1>1. stream[c] \in Streams /\ stream[c].queue \in Seq(Entries) /\ Len(stream[c].queue) <= QueueMax
  BY TypedStreams
<1>2. Range(stream[c].queue) \subseteq Entries
  BY <1>1 DEF Range
<1>3. Range(stream[c].queue) \subseteq Ids
  BY <1>2 DEF Untold, UntoldStream, Entries
<1> QED BY <1>1, <1>3, DroppedFacts

\* What FanOut makes of one stream.
LEMMA FanOutStream ==
    ASSUME StreamTypeOK, Untold, FanOut, NEW c \in Clients
    PROVE  /\ Head(notices) \in Ids
           /\ \/ /\ ~stream[c].listed
                 /\ stream'[c] = stream[c] /\ evicted'[c] = evicted[c]
              \/ /\ stream[c].listed /\ Len(stream[c].queue) >= QueueMax
                 /\ stream'[c] = Dropped(stream[c]) /\ evicted'[c] = evicted[c] \cup Evicts(stream[c])
              \/ /\ stream[c].listed /\ Len(stream[c].queue) < QueueMax
                 /\ stream'[c] = [stream[c] EXCEPT !.queue = Append(stream[c].queue, Head(notices))]
                 /\ evicted'[c] = evicted[c]
PROOF
<1>1. notices \in Seq(Ids) /\ notices # << >>
  BY DEF StreamTypeOK, FanOut
<1>2. Head(notices) \in Ids
  BY <1>1, TailFacts
<1>3. /\ stream[c].queue \in Seq(Entries) /\ Len(stream[c].queue) \in Nat /\ QueueMax \in Nat
      /\ evicted \in [Clients -> SUBSET Ids]
  <2>1. evicted \in [Clients -> SUBSET Ids]
    BY DEF StreamTypeOK
  <2>2. stream[c].queue \in Seq(Entries)
    BY TypedStreams
  <2> QED BY <2>1, <2>2, StreamAssumption
<1> DEFINE full == {d \in Clients : stream[d].listed /\ Len(stream[d].queue) >= QueueMax}
<1>4. /\ stream'[c] = IF ~stream[c].listed THEN stream[c]
                      ELSE IF c \in full THEN Dropped(stream[c])
                      ELSE [stream[c] EXCEPT !.queue = Append(stream[c].queue, Head(notices))]
      /\ evicted'[c] = IF c \in full THEN evicted[c] \cup Evicts(stream[c]) ELSE evicted[c]
  BY DEF FanOut
<1>5. c \in full <=> stream[c].listed /\ Len(stream[c].queue) >= QueueMax
  OBVIOUS
<1> HIDE DEF full
<1>6. CASE ~stream[c].listed
  BY <1>2, <1>4, <1>5, <1>6, Zenon
<1>7. CASE stream[c].listed /\ c \in full
  BY <1>2, <1>4, <1>5, <1>7, Zenon
<1>8. CASE stream[c].listed /\ c \notin full
  <2>1. Len(stream[c].queue) < QueueMax
    BY <1>3, <1>5, <1>8
  <2> QED BY <1>2, <1>4, <1>5, <1>8, <2>1, Zenon
<1> QED BY <1>6, <1>7, <1>8

LEMMA PutFacts ==
    ASSUME NEW s \in Streams, NEW i \in Entries, Len(s.queue) < QueueMax
    PROVE  LET r == [s EXCEPT !.queue = Append(s.queue, i)]
           IN  /\ r \in Streams /\ Len(r.queue) <= QueueMax
               /\ r.queue = Append(s.queue, i)
               /\ r.at = s.at /\ r.mark = s.mark /\ r.rows = s.rows /\ r.rest = s.rest
PROOF
<1>1. s.queue \in Seq(Entries) /\ Len(s.queue) \in Nat /\ QueueMax \in Nat
  BY StreamAssumption DEF Streams
<1>2. Append(s.queue, i) \in Seq(Entries) /\ Len(Append(s.queue, i)) = Len(s.queue) + 1
  BY <1>1, AppendFacts
<1> DEFINE r == [s EXCEPT !.queue = Append(s.queue, i)]
<1>3. r \in Streams
  BY <1>2 DEF Streams
<1>4. r.queue = Append(s.queue, i) /\ r.at = s.at /\ r.mark = s.mark /\ r.rows = s.rows /\ r.rest = s.rest
  BY DEF Streams
<1>5. Len(Append(s.queue, i)) <= QueueMax
  BY <1>1, <1>2
<1> HIDE DEF r
<1>6. Len(r.queue) <= QueueMax
  BY <1>4, <1>5
<1> QED BY <1>3, <1>4, <1>6 DEF r

LEMMA FanOutTypes == ASSUME StreamTypeOK, Untold, FanOut PROVE StreamTypeOK'
PROOF
<1>1. ASSUME NEW c \in Clients
      PROVE  /\ stream'[c] \in Streams /\ Len(stream'[c].queue) <= QueueMax
             /\ evicted'[c] \in SUBSET Ids
  <2>1. stream[c] \in Streams /\ Len(stream[c].queue) <= QueueMax /\ evicted[c] \in SUBSET Ids
    BY TypedStreams DEF StreamTypeOK
  <2>2. CASE stream'[c] = stream[c] /\ evicted'[c] = evicted[c]
    BY <2>1, <2>2
  <2>3. CASE /\ stream[c].listed /\ stream'[c] = Dropped(stream[c])
             /\ evicted'[c] = evicted[c] \cup Evicts(stream[c])
    BY <2>1, <2>3, DroppedFacts, EvictsIds
  <2>4. CASE /\ Len(stream[c].queue) < QueueMax
             /\ stream'[c] = [stream[c] EXCEPT !.queue = Append(stream[c].queue, Head(notices))]
             /\ evicted'[c] = evicted[c]
    <3>1. Head(notices) \in Entries
      BY FanOutStream DEF Entries
    <3> QED BY <2>1, <2>4, <3>1, PutFacts
  <2> QED BY <2>2, <2>3, <2>4, FanOutStream
<1>2. DOMAIN stream' = Clients /\ DOMAIN evicted' = Clients
  BY DEF FanOut
<1>3. stream' \in [Clients -> Streams] /\ evicted' \in [Clients -> SUBSET Ids]
  <2>1. /\ stream' = [c \in Clients |-> stream'[c]] /\ evicted' = [c \in Clients |-> evicted'[c]]
    BY DEF FanOut
  <2> QED BY <1>1, <2>1
<1>4. notices' \in Seq(Ids)
  <2>1. notices \in Seq(Ids) /\ notices # << >> /\ notices' = Tail(notices)
    BY DEF StreamTypeOK, FanOut
  <2> QED BY <2>1, TailFacts
<1>5. UNCHANGED <<tableVars, server, listener, lost, seen, asked, start, forgotten, cut>>
  BY DEF FanOut
<1> QED BY <1>1, <1>3, <1>4, <1>5 DEF StreamTypeOK, Streams, Entries, tableVars

\* What DropAll makes of one stream.
LEMMA DropAllStream ==
    ASSUME StreamTypeOK, DropAll, NEW c \in Clients
    PROVE  \/ /\ ~stream[c].listed
              /\ stream'[c] = stream[c] /\ evicted'[c] = evicted[c]
           \/ /\ stream[c].listed
              /\ stream'[c] = Dropped(stream[c]) /\ evicted'[c] = evicted[c] \cup Evicts(stream[c])
PROOF
<1>1. /\ stream'[c] = IF stream[c].listed THEN Dropped(stream[c]) ELSE stream[c]
      /\ evicted'[c] = IF stream[c].listed THEN evicted[c] \cup Evicts(stream[c]) ELSE evicted[c]
  BY DEF DropAll
<1> QED BY <1>1, Zenon

LEMMA DropAllTypes == ASSUME StreamTypeOK, Untold, DropAll PROVE StreamTypeOK'
PROOF
<1>1. ASSUME NEW c \in Clients
      PROVE  /\ stream'[c] \in Streams /\ Len(stream'[c].queue) <= QueueMax
             /\ evicted'[c] \in SUBSET Ids
  <2>1. stream[c] \in Streams /\ Len(stream[c].queue) <= QueueMax /\ evicted[c] \in SUBSET Ids
    BY TypedStreams DEF StreamTypeOK
  <2>2. CASE stream'[c] = stream[c] /\ evicted'[c] = evicted[c]
    BY <2>1, <2>2
  <2>3. CASE /\ stream[c].listed /\ stream'[c] = Dropped(stream[c])
             /\ evicted'[c] = evicted[c] \cup Evicts(stream[c])
    BY <2>1, <2>3, DroppedFacts, EvictsIds
  <2> QED BY <2>2, <2>3, DropAllStream
<1>2. stream' \in [Clients -> Streams] /\ evicted' \in [Clients -> SUBSET Ids]
  <2>1. /\ stream' = [c \in Clients |-> stream'[c]] /\ evicted' = [c \in Clients |-> evicted'[c]]
    BY DEF DropAll
  <2> QED BY <1>1, <2>1
<1>3. UNCHANGED <<tableVars, listener, notices, lost, seen, asked, start, forgotten, cut>> /\ server' = "stopped"
  BY DEF DropAll
<1> QED BY <1>1, <1>2, <1>3 DEF StreamTypeOK, Streams, Entries, tableVars

LEMMA ServerTypes ==
    ASSUME StreamTypeOK,
           \/ DrawId \/ (\E i \in open : Rollback(i) \/ Commit(i))
           \/ Connect \/ ConnectionLost \/ ListenerEnds \/ Stop \/ Restart
    PROVE  StreamTypeOK'
PROOF
<1>0. MaxId \in Nat
  BY StreamAssumption
<1>1. CASE DrawId
  BY <1>0, <1>1 DEF StreamTypeOK, DrawId, serverVars, clientVars, Ids
<1>2. CASE \E i \in open : Rollback(i)
  BY <1>2 DEF StreamTypeOK, Rollback, serverVars, clientVars
<1>3. ASSUME NEW i \in open, Commit(i) PROVE StreamTypeOK'
  <2>1. i \in Ids /\ notices \in Seq(Ids) /\ lost \in SUBSET Ids
    BY DEF StreamTypeOK
  <2>2. notices' \in Seq(Ids) /\ lost' \in SUBSET Ids
    BY <1>3, <2>1, AppendFacts DEF Commit
  <2>3. /\ open' \in SUBSET Ids /\ table' \in SUBSET Ids /\ late' \in SUBSET Ids
        /\ UNCHANGED <<last, server, listener, clientVars>>
    BY <1>3, <2>1 DEF StreamTypeOK, Commit
  <2> QED BY <2>2, <2>3 DEF StreamTypeOK, clientVars
<1>4. CASE Connect \/ Stop \/ Restart
  BY <1>4 DEF StreamTypeOK, Connect, Stop, Restart, tableVars, clientVars
<1>5. CASE ConnectionLost \/ ListenerEnds
  <2>1. Range(notices) \in SUBSET Ids
    BY DEF StreamTypeOK, Range
  <2>2. << >> \in Seq(Ids)
    OBVIOUS
  <2>3. lost' \in SUBSET Ids /\ notices' \in Seq(Ids)
    BY <1>5, <2>1, <2>2 DEF StreamTypeOK, ConnectionLost, ListenerEnds, Hangup
  <2> QED BY <1>5, <2>3 DEF StreamTypeOK, ConnectionLost, ListenerEnds, Hangup, tableVars, clientVars
<1> QED BY <1>1, <1>2, <1>3, <1>4, <1>5

-----------------------------------------------------------------------------
(* The invariant.  An event that is due, that is committed, not excused    *)
(* and not seen, is ahead of all that the client has seen, and it is on    *)
(* its way: among the rows of the replay, in the queue, or, as long as the *)
(* broker knows the stream, among the notices.  What has been committed in *)
(* order stays in order on that way.                                       *)

Due(c) == {i \in table : i \notin Excused(c) \cup Range(seen[c])}
Rows(c) == stream[c].rows \cup stream[c].rest

NoticesKnown ==
    /\ open \cup table \subseteq 1..last /\ open \cap table = {}
    /\ Range(notices) \subseteq table
NoticesInOrder == Ordered(notices, late)

Known(c) ==
    /\ Range(seen[c]) \subseteq table
    /\ Range(stream[c].queue) \subseteq table \cup {Drop}
    /\ Rows(c) \subseteq table

Marked(c) == stream[c].at # "off" => stream[c].mark = Position(c)

RowsInOrder(c) ==
    /\ stream[c].at # "replaying" => Rows(c) = {}
    /\ \A r \in Rows(c) : r > stream[c].mark
    /\ \A r \in stream[c].rows, s \in stream[c].rest : r < s

SeenInOrder(c) == Ordered(seen[c], {})
QueueInOrder(c) == Ordered(stream[c].queue, late \cup {Drop})
QueueFirst(c) == \A q \in Range(stream[c].queue), n \in Range(notices) \ late : q < n
RowsFirst(c) == \A i \in Due(c) : i \in Rows(c) \/ \A r \in Rows(c) : r < i
NothingBelow(c) == \A i \in Due(c) : ~(i < Position(c))

Coming(c) ==
    stream[c].at \in {"replaying", "live"} =>
        \A i \in Due(c) :
            \/ i \in Rows(c) \cup Range(stream[c].queue)
            \/ stream[c].listed /\ i \in Range(notices)
            \/ ~stream[c].listed /\ \A q \in Range(stream[c].queue) : q < i

ClientInv(c) ==
    /\ Known(c) /\ Marked(c) /\ UntoldStream(c)
    /\ RowsInOrder(c) /\ SeenInOrder(c) /\ QueueInOrder(c) /\ QueueFirst(c)
    /\ RowsFirst(c) /\ NothingBelow(c) /\ Coming(c)

StreamInv == StreamTypeOK /\ NoticesKnown /\ NoticesInOrder /\ \A c \in Clients : ClientInv(c)

USE DEF Rows

LEMMA InvImpliesProperties == StreamInv => InOrderOnce /\ GapsHaveCause
PROOF
<1>1. ASSUME StreamInv PROVE InOrderOnce
  BY <1>1 DEF StreamInv, ClientInv, SeenInOrder, Ordered, InOrderOnce
<1>2. ASSUME StreamInv PROVE GapsHaveCause
  BY <1>2 DEF StreamInv, ClientInv, NothingBelow, Due, GapsHaveCause
<1> QED BY <1>1, <1>2

LEMMA InitInv == StreamInit => StreamInv
PROOF
<1> SUFFICES ASSUME StreamInit PROVE StreamInv
  OBVIOUS
<1>1. StreamTypeOK
  BY InitTypes
<1>2. Range(<< >>) = {} /\ \A X : Ordered(<< >>, X)
  BY DEF Range, Ordered
<1>3. NoticesKnown /\ NoticesInOrder
  BY <1>2 DEF StreamInit, NoticesKnown, NoticesInOrder
<1>4. ASSUME NEW c \in Clients PROVE ClientInv(c)
  <2>1. stream[c] = Off /\ seen[c] = << >> /\ table = {} /\ notices = << >>
    BY DEF StreamInit
  <2>2. Off.queue = << >> /\ Off.rows = {} /\ Off.rest = {} /\ Off.at = "off" /\ Due(c) = {}
    BY <2>1, OffType DEF Due
  <2>3. Known(c) /\ Marked(c) /\ UntoldStream(c) /\ RowsInOrder(c) /\ SeenInOrder(c)
    BY <1>2, <2>1, <2>2 DEF Known, Marked, UntoldStream, RowsInOrder, SeenInOrder
  <2>4. QueueInOrder(c) /\ QueueFirst(c)
    BY <1>2, <2>1, <2>2 DEF QueueInOrder, QueueFirst
  <2>5. RowsFirst(c) /\ NothingBelow(c) /\ Coming(c)
    BY <2>2 DEF RowsFirst, NothingBelow, Coming
  <2> QED BY <2>3, <2>4, <2>5 DEF ClientInv
<1> QED BY <1>1, <1>3, <1>4 DEF StreamInv

\* A client of which nothing changes.
LEMMA ClientFrame ==
    ASSUME NEW c \in Clients, ClientInv(c), UNCHANGED <<table, late, lost, notices>>,
           stream'[c] = stream[c], seen'[c] = seen[c],
           start'[c] = start[c], forgotten'[c] = forgotten[c],
           evicted'[c] = evicted[c], cut'[c] = cut[c]
    PROVE  ClientInv(c)'
PROOF
<1>1. Due(c)' = Due(c) /\ Position(c)' = Position(c) /\ Rows(c)' = Rows(c)
  BY DEF Due, Position, Excused
<1>2. Known(c)' /\ Marked(c)' /\ UntoldStream(c)' /\ RowsInOrder(c)' /\ SeenInOrder(c)'
  BY <1>1 DEF ClientInv, Known, Marked, UntoldStream, RowsInOrder, SeenInOrder
<1>3. QueueInOrder(c)' /\ QueueFirst(c)' /\ RowsFirst(c)' /\ NothingBelow(c)'
  BY <1>1 DEF ClientInv, QueueInOrder, QueueFirst, RowsFirst, NothingBelow
<1>4. Coming(c)'
  BY <1>1, Zenon DEF ClientInv, Coming
<1> QED BY <1>2, <1>3, <1>4 DEF ClientInv

LEMMA PositionFacts ==
    ASSUME StreamTypeOK, NEW c \in Clients
    PROVE  /\ Position(c) \in Nat
           /\ Position(c) # None => seen[c] # << >> /\ Position(c) \in Range(seen[c])
           /\ Position(c) = None => seen[c] = << >> /\ Range(seen[c]) = {}
           /\ SeenInOrder(c) => \A x \in Range(seen[c]) : x <= Position(c)
PROOF
<1>1. seen[c] \in Seq(Ids) /\ Ids \subseteq Nat \ {0}
  BY StreamAssumption DEF StreamTypeOK, Ids
<1>2. CASE seen[c] = << >>
  BY <1>2 DEF Position, None, Range
<1>3. CASE seen[c] # << >>
  <2>0. /\ Len(seen[c]) \in Nat \ {0} /\ DOMAIN seen[c] = 1..Len(seen[c])
        /\ \A n \in 1..Len(seen[c]) : seen[c][n] \in Ids
    BY <1>1, <1>3
  <2>1. /\ Len(seen[c]) \in Nat \ {0} /\ DOMAIN seen[c] = 1..Len(seen[c])
        /\ \A n \in 1..Len(seen[c]) : seen[c][n] \in Nat \ {0}
    BY <1>1, <2>0
  <2>2. Position(c) = seen[c][Len(seen[c])] /\ Len(seen[c]) \in DOMAIN seen[c]
    BY <1>3, <2>1 DEF Position
  <2>3. Position(c) \in Nat \ {0} /\ Position(c) \in Range(seen[c])
    BY <2>1, <2>2 DEF Range
  <2>4. ASSUME SeenInOrder(c), NEW x \in Range(seen[c]) PROVE x <= Position(c)
    <3>1. PICK n \in 1..Len(seen[c]) : x = seen[c][n]
      BY <2>1 DEF Range
    <3>2. CASE n = Len(seen[c])
      BY <2>1, <2>2, <3>1, <3>2
    <3>3. CASE n < Len(seen[c])
      BY <2>1, <2>2, <2>4, <3>1, <3>3 DEF SeenInOrder, Ordered
    <3> QED BY <2>1, <3>2, <3>3
  <2> QED BY <1>3, <2>3, <2>4 DEF None
<1> QED BY <1>2, <1>3

\* A frame with an id that is larger than the last one.
LEMMA SentFacts ==
    ASSUME StreamTypeOK, NEW c \in Clients, NEW i \in Ids, i > Position(c), SeenInOrder(c),
           seen' = [seen EXCEPT ![c] = Append(@, i)]
    PROVE  /\ Position(c)' = i /\ SeenInOrder(c)'
           /\ Range(seen'[c]) = Range(seen[c]) \cup {i}
PROOF
<1>1. seen[c] \in Seq(Ids) /\ Ids \subseteq Nat /\ seen'[c] = Append(seen[c], i)
  BY StreamAssumption DEF StreamTypeOK, Ids
<1>2. /\ Len(seen'[c]) = Len(seen[c]) + 1 /\ seen'[c][Len(seen[c]) + 1] = i
      /\ Range(seen'[c]) = Range(seen[c]) \cup {i}
  BY <1>1, AppendFacts
<1>3. Position(c)' = i
  <2>1. seen'[c] # << >>
    BY <1>1
  <2> QED BY <1>2, <2>1 DEF Position
<1>4. SeenInOrder(c)'
  <2>1. \A x \in Range(seen[c]) : x < i
    <3>1. \A x \in Range(seen[c]) : x \in Nat
      BY <1>1, WiderSeq
    <3>2. \A x \in Range(seen[c]) : x <= Position(c) /\ Position(c) \in Nat
      BY PositionFacts
    <3>3. i \in Nat
      BY <1>1
    <3> QED BY <3>1, <3>2, <3>3
  <2>2. seen[c] \in Seq(Nat) /\ i \in Nat
    BY <1>1, WiderSeq
  <2> QED BY <1>1, <2>1, <2>2, OrderedAppend DEF SeenInOrder
<1> QED BY <1>2, <1>3, <1>4

-----------------------------------------------------------------------------
(* Steps of a stream.                                                      *)

\* What the conjuncts about the queue say is about the queue alone.
LEMMA QueueKept ==
    ASSUME NEW c \in Clients, ClientInv(c), UNCHANGED <<table, late, notices>>,
           stream'[c].queue = stream[c].queue
    PROVE  QueueInOrder(c)' /\ QueueFirst(c)'
PROOF
BY DEF ClientInv, QueueInOrder, QueueFirst

LEMMA ReplayInv ==
    ASSUME StreamInv, NEW c \in Clients, Replay(c)
    PROVE  ClientInv(c)'
PROOF
<1>0. ClientInv(c) /\ StreamTypeOK
  BY DEF StreamInv
<1>1. /\ stream[c].at = "asking" /\ stream'[c].at = "replaying"
      /\ stream'[c].rows = Replayed(c) /\ stream'[c].rest = Missing(c) \ Replayed(c)
      /\ stream'[c].queue = stream[c].queue /\ stream'[c].mark = stream[c].mark
      /\ UNCHANGED <<tableVars, serverVars, seen, asked, start, forgotten, evicted, cut>>
  BY <1>0, TypedStreams DEF Replay, Streams
<1>2. stream'[c].listed = stream[c].listed
  BY <1>0, TypedStreams DEF Replay, Streams
<1>3. Due(c)' = Due(c) /\ Position(c)' = Position(c)
  BY <1>1 DEF Due, Position, Excused, tableVars, serverVars
<1>4. Rows(c)' = {i \in table : i > stream[c].mark} /\ stream[c].mark = Position(c)
  BY <1>0, <1>1, ReplayFacts DEF ClientInv, Marked
<1>5. Known(c)' /\ Marked(c)' /\ UntoldStream(c)'
  BY <1>0, <1>1, <1>2, <1>3, <1>4 DEF ClientInv, Known, Marked, UntoldStream, tableVars
<1>6. RowsInOrder(c)'
  BY <1>0, <1>1, <1>4, ReplayFacts DEF RowsInOrder
<1>7. SeenInOrder(c)' /\ QueueInOrder(c)' /\ QueueFirst(c)'
  BY <1>0, <1>1, QueueKept DEF ClientInv, SeenInOrder, tableVars, serverVars
<1>8. \A i \in Due(c) : i \in Rows(c)'
  <2> TAKE i \in Due(c)
  <2>1. i \in table /\ i \notin Range(seen[c]) /\ ~(i < Position(c))
    BY <1>0 DEF Due, ClientInv, NothingBelow
  <2>2. i \in Nat \ {0} /\ Position(c) \in Nat /\ i # Position(c)
    BY <1>0, <2>1, PositionFacts, StreamAssumption DEF StreamTypeOK, Ids, None
  <2> QED BY <1>4, <2>1, <2>2
<1>9. RowsFirst(c)' /\ NothingBelow(c)' /\ Coming(c)'
  BY <1>0, <1>3, <1>8 DEF ClientInv, RowsFirst, NothingBelow, Coming
<1> QED BY <1>5, <1>6, <1>7, <1>9 DEF ClientInv

LEMMA YieldRowInv ==
    ASSUME StreamInv, NEW c \in Clients, YieldRow(c)
    PROVE  ClientInv(c)'
PROOF
<1>0. ClientInv(c) /\ StreamTypeOK /\ stream[c] \in Streams
  BY TypedStreams DEF StreamInv
<1>1. PICK i \in stream[c].rows : /\ \A j \in stream[c].rows : i <= j
                                  /\ Sends(c, i, [stream[c] EXCEPT !.rows = @ \ {i}])
  BY DEF YieldRow
<1>2. i \in table /\ i \in Ids /\ i \in Nat /\ table \subseteq Nat
  BY <1>0, StreamAssumption DEF ClientInv, Known, StreamTypeOK, Ids
<1>3. stream[c].at = "replaying" /\ stream[c].mark = Position(c) /\ i > stream[c].mark
  BY <1>0 DEF YieldRow, ClientInv, Marked, RowsInOrder
<1>4. /\ stream'[c].at = "replaying" /\ stream'[c].mark = i
      /\ stream'[c].rows = stream[c].rows \ {i} /\ stream'[c].rest = stream[c].rest
      /\ stream'[c].queue = stream[c].queue
  BY <1>0, <1>1, <1>3 DEF Sends, Streams, StreamTypeOK
<1>5. stream'[c].listed = stream[c].listed
  BY <1>0, <1>1 DEF Sends, Streams, StreamTypeOK
<1>6. seen' = [seen EXCEPT ![c] = Append(@, i)] /\ UNCHANGED <<tableVars, serverVars, asked, start, forgotten, evicted, cut>>
  BY <1>1 DEF Sends, YieldRow
<1>7. Position(c)' = i /\ SeenInOrder(c)' /\ Range(seen'[c]) = Range(seen[c]) \cup {i}
  BY <1>0, <1>2, <1>3, <1>6, SentFacts DEF ClientInv
<1>8. Due(c)' = Due(c) \ {i} /\ Rows(c)' \subseteq Rows(c) /\ Rows(c) \ {i} \subseteq Rows(c)'
  BY <1>4, <1>6, <1>7 DEF Due, Excused, tableVars, serverVars
<1>9. \A r \in Rows(c)' : r > i
  <2> TAKE r \in Rows(c)'
  <2>1. CASE r \in stream[c].rest
    BY <1>0, <2>1 DEF ClientInv, RowsInOrder
  <2>2. CASE r \in stream[c].rows \ {i}
    <3>1. r \in Nat /\ i <= r /\ r # i
      BY <1>0, <1>1, <1>2, <2>2 DEF ClientInv, Known
    <3> QED BY <1>2, <3>1
  <2> QED BY <1>4, <2>1, <2>2
<1>10. Known(c)' /\ Marked(c)' /\ UntoldStream(c)' /\ RowsInOrder(c)'
  BY <1>0, <1>2, <1>4, <1>5, <1>6, <1>7, <1>9
     DEF ClientInv, Known, Marked, UntoldStream, RowsInOrder, tableVars
<1>11. QueueInOrder(c)' /\ QueueFirst(c)'
  BY <1>0, <1>4, <1>6, QueueKept DEF tableVars, serverVars
<1>12. NothingBelow(c)'
  <2> SUFFICES ASSUME NEW j \in Due(c)' PROVE ~(j < i)
    BY <1>7 DEF NothingBelow
  <2>1. j \in Due(c) /\ j # i /\ j \in Nat
    BY <1>2, <1>8 DEF Due
  <2>2. j \in Rows(c) \/ i < j
    BY <1>0, <2>1 DEF ClientInv, RowsFirst
  <2> QED BY <1>2, <1>8, <1>9, <2>1, <2>2
<1>13. RowsFirst(c)' /\ Coming(c)'
  BY <1>0, <1>3, <1>4, <1>5, <1>6, <1>8 DEF ClientInv, RowsFirst, Coming, serverVars
<1> QED BY <1>7, <1>10, <1>11, <1>12, <1>13 DEF ClientInv

LEMMA ReplayEndsInv ==
    ASSUME StreamInv, NEW c \in Clients, ReplayEnds(c)
    PROVE  ClientInv(c)'
PROOF
<1>0. ClientInv(c) /\ StreamTypeOK /\ stream[c] \in Streams
  BY TypedStreams DEF StreamInv
<1>1. /\ stream[c].at = "replaying" /\ stream[c].rows = {}
      /\ stream'[c].at = "live" /\ stream'[c].rows = {} /\ stream'[c].rest = {}
      /\ stream'[c].queue = stream[c].queue /\ stream'[c].mark = stream[c].mark
      /\ cut'[c] = cut[c] \cup stream[c].rest
      /\ UNCHANGED <<tableVars, serverVars, seen, asked, start, forgotten, evicted>>
  BY <1>0 DEF ReplayEnds, Streams, StreamTypeOK
<1>2. stream'[c].listed = stream[c].listed
  BY <1>0 DEF ReplayEnds, Streams, StreamTypeOK
<1>3. Due(c)' = Due(c) \ Rows(c) /\ Position(c)' = Position(c) /\ Rows(c)' = {}
  BY <1>1 DEF Due, Position, Excused, tableVars, serverVars
<1>4. Known(c)' /\ Marked(c)' /\ UntoldStream(c)' /\ RowsInOrder(c)' /\ SeenInOrder(c)'
  BY <1>0, <1>1, <1>2, <1>3
     DEF ClientInv, Known, Marked, UntoldStream, RowsInOrder, SeenInOrder, tableVars
<1>5. QueueInOrder(c)' /\ QueueFirst(c)'
  BY <1>0, <1>1, QueueKept DEF tableVars, serverVars
<1>6. RowsFirst(c)' /\ NothingBelow(c)' /\ Coming(c)'
  BY <1>0, <1>1, <1>2, <1>3 DEF ClientInv, RowsFirst, NothingBelow, Coming, serverVars
<1> QED BY <1>4, <1>5, <1>6 DEF ClientInv

LEMMA EndsInv ==
    ASSUME StreamInv, NEW c \in Clients, Ends(c)
    PROVE  ClientInv(c)'
PROOF
<1>0. ClientInv(c) /\ StreamTypeOK
  BY DEF StreamInv
<1>1. stream'[c] = Off /\ UNCHANGED <<tableVars, serverVars, seen, asked, start, forgotten, evicted, cut>>
  BY <1>0 DEF Ends, StreamTypeOK
<1>2. Due(c)' = Due(c) /\ Position(c)' = Position(c) /\ Rows(c)' = {}
  BY <1>1, OffType DEF Due, Position, Excused, tableVars, serverVars
<1>3. stream'[c].queue = << >> /\ stream'[c].at = "off" /\ Range(<< >>) = {} /\ \A X : Ordered(<< >>, X)
  BY <1>1, OffType DEF Range, Ordered
<1>4. Known(c)' /\ Marked(c)' /\ UntoldStream(c)' /\ RowsInOrder(c)' /\ SeenInOrder(c)'
  BY <1>0, <1>1, <1>2, <1>3
     DEF ClientInv, Known, Marked, UntoldStream, RowsInOrder, SeenInOrder, tableVars
<1>5. QueueInOrder(c)' /\ QueueFirst(c)'
  BY <1>3 DEF QueueInOrder, QueueFirst
<1>6. RowsFirst(c)' /\ NothingBelow(c)' /\ Coming(c)'
  BY <1>0, <1>2, <1>3 DEF ClientInv, RowsFirst, NothingBelow, Coming
<1> QED BY <1>4, <1>5, <1>6 DEF ClientInv

LEMMA SubscribeInv ==
    ASSUME StreamInv, NEW c \in Clients, Subscribe(c)
    PROVE  ClientInv(c)'
PROOF
<1>0. ClientInv(c) /\ StreamTypeOK
  BY DEF StreamInv
<1>1. /\ stream'[c].at = IF Position(c) = None THEN "live" ELSE "asking"
      /\ stream'[c].queue = << >> /\ stream'[c].mark = Position(c)
      /\ stream'[c].rows = {} /\ stream'[c].rest = {}
      /\ start'[c] = IF c \in asked THEN start[c] ELSE table
      /\ forgotten'[c] = IF c \in asked /\ Position(c) = None
                         THEN forgotten[c] \cup (table \ (start[c] \cup Range(notices)))
                         ELSE forgotten[c]
      /\ stream'[c].listed
      /\ UNCHANGED <<tableVars, serverVars, seen, evicted, cut>>
  BY <1>0 DEF Subscribe, Off, StreamTypeOK
<1>2. Position(c)' = Position(c) /\ Rows(c)' = {} /\ stream'[c].at # "replaying"
  BY <1>1 DEF Position
<1>3. Range(<< >>) = {} /\ \A X : Ordered(<< >>, X)
  BY DEF Range, Ordered
<1>4. CASE c \notin asked
  <2>1. Due(c)' = {}
    BY <1>1, <1>4 DEF Due, Excused, tableVars, serverVars
  <2> QED BY <1>0, <1>1, <1>2, <1>3, <2>1
      DEF ClientInv, Known, Marked, UntoldStream, RowsInOrder, SeenInOrder, QueueInOrder, QueueFirst,
          RowsFirst, NothingBelow, Coming, tableVars
<1>5. CASE c \in asked /\ Position(c) = None
  <2>1. Due(c)' \subseteq Range(notices)' /\ Due(c)' \subseteq Nat
    BY <1>0, <1>1, <1>5, StreamAssumption DEF Due, Excused, tableVars, serverVars, StreamTypeOK, Ids
  <2>2. RowsFirst(c)' /\ NothingBelow(c)' /\ Coming(c)'
    BY <1>1, <1>2, <1>5, <2>1 DEF RowsFirst, NothingBelow, Coming, None
  <2> QED BY <1>0, <1>1, <1>2, <1>3, <2>2
      DEF ClientInv, Known, Marked, UntoldStream, RowsInOrder, SeenInOrder, QueueInOrder, QueueFirst,
          tableVars
<1>6. CASE c \in asked /\ Position(c) # None
  <2>1. Due(c)' = Due(c) /\ stream'[c].at = "asking"
    BY <1>1, <1>6 DEF Due, Excused, tableVars, serverVars
  <2> QED BY <1>0, <1>1, <1>2, <1>3, <2>1
      DEF ClientInv, Known, Marked, UntoldStream, RowsInOrder, SeenInOrder, QueueInOrder, QueueFirst,
          RowsFirst, NothingBelow, Coming, tableVars
<1> QED BY <1>4, <1>5, <1>6

\* The head of a queue and what is left of the queue.
LEMMA RestFacts ==
    ASSUME StreamInv, NEW c \in Clients, Receives(c)
    PROVE  LET h == Head(stream[c].queue)
               q == Tail(stream[c].queue)
           IN  /\ h \in Nat /\ (h # Drop => h \in table /\ h \in Ids)
               /\ Range(stream[c].queue) = Range(q) \cup {h}
               /\ Ordered(q, late \cup {Drop})
               /\ \A y \in Range(q) : y \notin late \cup {Drop} => h < y
               /\ Rest(c) \in Streams /\ Rest(c).queue = q
               /\ Rest(c).at = "live" /\ Rest(c).mark = stream[c].mark
               /\ Rest(c).rows = {} /\ Rest(c).rest = {}
PROOF
<1>0. ClientInv(c) /\ StreamTypeOK /\ stream[c] \in Streams /\ stream[c].queue \in Seq(Entries)
  BY TypedStreams DEF StreamInv
<1>1. stream[c].at = "live" /\ stream[c].queue # << >>
  BY DEF Receives
<1>2. Entries \subseteq Nat /\ stream[c].queue \in Seq(Nat)
  <2>1. Entries \subseteq Nat
    BY StreamAssumption DEF Entries, Ids, Drop
  <2> QED BY <1>0, <2>1, WiderSeq
<1>3. /\ Head(stream[c].queue) \in Nat
      /\ Range(stream[c].queue) = Range(Tail(stream[c].queue)) \cup {Head(stream[c].queue)}
  BY <1>1, <1>2, TailFacts
<1>4. Head(stream[c].queue) # Drop => Head(stream[c].queue) \in table /\ Head(stream[c].queue) \in Ids
  BY <1>0, <1>3 DEF ClientInv, Known, StreamTypeOK
<1>5. /\ Ordered(Tail(stream[c].queue), late \cup {Drop})
      /\ \A y \in Range(Tail(stream[c].queue)) : y \notin late \cup {Drop} => Head(stream[c].queue) < y
  BY <1>0, <1>1, <1>2, OrderedTail DEF ClientInv, QueueInOrder
<1>6. /\ Rest(c) \in Streams /\ Rest(c) = [stream[c] EXCEPT !.queue = Tail(stream[c].queue)]
  BY <1>0, ReceivesTypes
<1>7. /\ Rest(c).queue = Tail(stream[c].queue) /\ Rest(c).at = stream[c].at /\ Rest(c).mark = stream[c].mark
      /\ Rest(c).rows = stream[c].rows /\ Rest(c).rest = stream[c].rest
  BY <1>0, <1>6 DEF Streams
<1>8. stream[c].rows = {} /\ stream[c].rest = {}
  BY <1>0, <1>1 DEF ClientInv, RowsInOrder
<1> QED BY <1>1, <1>3, <1>4, <1>5, <1>6, <1>7, <1>8

LEMMA RestListed == ASSUME StreamTypeOK, NEW c \in Clients PROVE Rest(c).listed = stream[c].listed
PROOF BY TypedStreams DEF Rest, Streams

LEMMA PassedOverInv ==
    ASSUME StreamInv, NEW c \in Clients, PassedOver(c)
    PROVE  ClientInv(c)'
PROOF
<1>0. ClientInv(c) /\ StreamTypeOK /\ Receives(c)
  BY DEF StreamInv, PassedOver
<1> DEFINE h == Head(stream[c].queue)
           q == Tail(stream[c].queue)
<1>1. /\ h \in Nat /\ Range(stream[c].queue) = Range(q) \cup {h} /\ Ordered(q, late \cup {Drop})
      /\ Rest(c).queue = q /\ Rest(c).at = "live" /\ Rest(c).mark = stream[c].mark
      /\ Rest(c).rows = {} /\ Rest(c).rest = {}
  BY <1>0, RestFacts
<1>2. stream'[c] = Rest(c) /\ h \in 1..stream[c].mark /\ UNCHANGED <<tableVars, serverVars, seen, asked, start, forgotten, evicted, cut>>
  BY <1>0 DEF PassedOver, StreamTypeOK
<1> HIDE DEF h, q
<1>3. stream'[c].listed = stream[c].listed
  BY <1>0, <1>2, RestListed
<1>4. Due(c)' = Due(c) /\ Position(c)' = Position(c) /\ Rows(c)' = {}
  BY <1>1, <1>2 DEF Due, Position, Excused, tableVars, serverVars
<1>5. stream[c].at = "live" /\ stream[c].mark = Position(c) /\ Position(c) \in Nat
  BY <1>0, PositionFacts DEF Receives, ClientInv, Marked
<1>6. h \notin Due(c)
  <2>1. SUFFICES ASSUME h \in Due(c) PROVE FALSE
    OBVIOUS
  <2>2. ~(h < Position(c)) /\ h \notin Range(seen[c])
    BY <1>0, <2>1 DEF ClientInv, NothingBelow, Due
  <2>3. h = Position(c) /\ Position(c) # None
    BY <1>1, <1>2, <1>5, <2>2 DEF None
  <2> QED BY <1>0, <2>2, <2>3, PositionFacts
<1>7. Known(c)' /\ Marked(c)' /\ UntoldStream(c)' /\ RowsInOrder(c)' /\ SeenInOrder(c)'
  BY <1>0, <1>1, <1>2, <1>3, <1>4, <1>5
     DEF ClientInv, Known, Marked, UntoldStream, RowsInOrder, SeenInOrder, tableVars
<1>8. QueueInOrder(c)' /\ QueueFirst(c)'
  BY <1>0, <1>1, <1>2 DEF ClientInv, QueueInOrder, QueueFirst, tableVars, serverVars
<1>9. RowsFirst(c)' /\ NothingBelow(c)'
  BY <1>0, <1>4 DEF ClientInv, RowsFirst, NothingBelow
<1>10. Coming(c)'
  <2> SUFFICES ASSUME NEW i \in Due(c)
               PROVE  \/ i \in Range(q)
                      \/ stream[c].listed /\ i \in Range(notices)
                      \/ ~stream[c].listed /\ \A x \in Range(q) : x < i
    BY <1>1, <1>2, <1>3, <1>4 DEF Coming, serverVars
  <2>1. i # h /\ stream[c].rows = {} /\ stream[c].rest = {}
    BY <1>0, <1>5, <1>6 DEF ClientInv, RowsInOrder
  <2> QED BY <1>0, <1>1, <1>5, <2>1 DEF ClientInv, Coming
<1> QED BY <1>7, <1>8, <1>9, <1>10 DEF ClientInv

LEMMA PassedOnInv ==
    ASSUME StreamInv, NEW c \in Clients, PassedOn(c)
    PROVE  ClientInv(c)'
PROOF
<1>0. ClientInv(c) /\ StreamTypeOK /\ Receives(c)
  BY DEF StreamInv, PassedOn
<1> DEFINE h == Head(stream[c].queue)
           q == Tail(stream[c].queue)
<1>1. /\ h \in Nat /\ Range(stream[c].queue) = Range(q) \cup {h} /\ Ordered(q, late \cup {Drop})
      /\ (h # Drop => h \in table /\ h \in Ids)
      /\ \A y \in Range(q) : y \notin late \cup {Drop} => h < y
      /\ Rest(c) \in Streams /\ Rest(c).queue = q /\ Rest(c).at = "live" /\ Rest(c).mark = stream[c].mark
      /\ Rest(c).rows = {} /\ Rest(c).rest = {}
  BY <1>0, RestFacts
<1>2. /\ stream[c].at = "live" /\ stream[c].mark = Position(c) /\ Position(c) \in Nat
      /\ stream[c].rows = {} /\ stream[c].rest = {}
  BY <1>0, PositionFacts DEF Receives, ClientInv, Marked, RowsInOrder
<1>3. /\ h > stream[c].mark /\ Sends(c, h, Rest(c))
      /\ UNCHANGED <<tableVars, serverVars, asked, start, forgotten, evicted, cut>>
  BY DEF PassedOn
<1> HIDE DEF h, q
<1>4. h \in table /\ h \in Ids /\ table \subseteq Nat \ {0}
  BY <1>0, <1>1, <1>2, <1>3, StreamAssumption DEF Drop, StreamTypeOK, Ids
<1>5. /\ stream'[c].at = "live" /\ stream'[c].mark = h /\ stream'[c].queue = q
      /\ stream'[c].rows = {} /\ stream'[c].rest = {}
      /\ seen' = [seen EXCEPT ![c] = Append(@, h)]
  BY <1>0, <1>1, <1>3 DEF Sends, Streams, StreamTypeOK
<1>6. stream'[c].listed = stream[c].listed
  <2>1. stream'[c].listed = Rest(c).listed
    BY <1>0, <1>1, <1>3 DEF Sends, Streams, StreamTypeOK
  <2> QED BY <1>0, <2>1, RestListed
<1>7. Position(c)' = h /\ SeenInOrder(c)' /\ Range(seen'[c]) = Range(seen[c]) \cup {h}
  BY <1>0, <1>2, <1>3, <1>4, <1>5, SentFacts DEF ClientInv
<1>8. Due(c)' = Due(c) \ {h} /\ Rows(c)' = {}
  BY <1>3, <1>5, <1>7 DEF Due, Excused, tableVars, serverVars
<1>9. Known(c)' /\ Marked(c)' /\ UntoldStream(c)' /\ RowsInOrder(c)'
  BY <1>0, <1>1, <1>3, <1>4, <1>5, <1>6, <1>7
     DEF ClientInv, Known, Marked, UntoldStream, RowsInOrder, tableVars
<1>10. QueueInOrder(c)' /\ QueueFirst(c)'
  BY <1>0, <1>1, <1>3, <1>5 DEF ClientInv, QueueInOrder, QueueFirst, tableVars, serverVars
<1>11. ASSUME NEW i \in Due(c), i # h
       PROVE  /\ h < i
              /\ \/ i \in Range(q)
                 \/ stream[c].listed /\ i \in Range(notices)
                 \/ ~stream[c].listed /\ \A x \in Range(q) : x < i
  <2>1. i \in table /\ i \notin late /\ i # Drop
    BY <1>4 DEF Due, Excused, Drop
  <2>2. CASE i \in Range(q)
    BY <1>1, <2>1, <2>2
  <2>3. CASE stream[c].listed /\ i \in Range(notices)
    BY <1>0, <1>1, <2>1, <2>3 DEF ClientInv, QueueFirst
  <2>4. CASE ~stream[c].listed /\ \A x \in Range(stream[c].queue) : x < i
    BY <1>1, <2>4
  <2> QED BY <1>0, <1>1, <1>2, <1>11, <2>2, <2>3, <2>4 DEF ClientInv, Coming
<1>12. NothingBelow(c)' /\ RowsFirst(c)'
  <2> SUFFICES ASSUME NEW i \in Due(c), i # h PROVE ~(i < h)
    BY <1>7, <1>8 DEF NothingBelow, RowsFirst
  <2>1. i \in Nat /\ h \in Nat /\ h < i
    BY <1>1, <1>4, <1>11 DEF Due
  <2> QED BY <2>1
<1>13. Coming(c)'
  BY <1>3, <1>5, <1>6, <1>8, <1>11 DEF Coming, serverVars
<1> QED BY <1>7, <1>9, <1>10, <1>12, <1>13 DEF ClientInv

LEMMA ClientStepInv ==
    ASSUME StreamInv, NEW c \in Clients, GeneratorStep(c) \/ Subscribe(c) \/ Disconnect(c)
    PROVE  StreamInv'
PROOF
<1>0. StreamTypeOK /\ NoticesKnown /\ NoticesInOrder
  BY DEF StreamInv
<1>1. StreamTypeOK'
  BY <1>0, StreamStepTypes
<1>2. ClientInv(c)'
  BY ReplayInv, YieldRowInv, ReplayEndsInv, EndsInv, SubscribeInv, PassedOverInv, PassedOnInv
     DEF GeneratorStep, DropSeen, Disconnect
<1>3. /\ UNCHANGED <<tableVars, serverVars, evicted>>
      /\ \A d \in Clients \ {c} : /\ stream'[d] = stream[d] /\ seen'[d] = seen[d]
                                  /\ start'[d] = start[d] /\ forgotten'[d] = forgotten[d]
                                  /\ cut'[d] = cut[d]
  <2> USE <1>0 DEF StreamTypeOK
  <2>1. CASE Replay(c)
    BY <2>1 DEF Replay
  <2>2. CASE YieldRow(c)
    BY <2>2 DEF YieldRow, Sends
  <2>3. CASE ReplayEnds(c)
    BY <2>3 DEF ReplayEnds
  <2>4. CASE DropSeen(c) \/ Disconnect(c)
    BY <2>4 DEF DropSeen, Disconnect, Ends
  <2>5. CASE PassedOver(c)
    BY <2>5 DEF PassedOver
  <2>6. CASE PassedOn(c)
    BY <2>6 DEF PassedOn, Sends
  <2>7. CASE Subscribe(c)
    BY <2>7 DEF Subscribe
  <2> QED BY <2>1, <2>2, <2>3, <2>4, <2>5, <2>6, <2>7 DEF GeneratorStep
<1>4. NoticesKnown' /\ NoticesInOrder'
  BY <1>0, <1>3 DEF NoticesKnown, NoticesInOrder, tableVars, serverVars
<1>5. ASSUME NEW d \in Clients \ {c} PROVE ClientInv(d)'
  <2>1. ClientInv(d)
    BY DEF StreamInv
  <2> QED BY <1>3, <2>1, ClientFrame DEF tableVars, serverVars
<1> QED BY <1>1, <1>2, <1>4, <1>5 DEF StreamInv

-----------------------------------------------------------------------------
(* Steps of the database, the listener and the broker.                     *)

\* An id that is committed is after all that is committed, or late.
LEMMA CommitInv ==
    ASSUME StreamInv, NEW i \in open, Commit(i)
    PROVE  StreamInv'
PROOF
<1>0. StreamTypeOK /\ NoticesKnown /\ NoticesInOrder
  BY DEF StreamInv
<1>1. i \in Ids /\ i \in Nat /\ i # Drop /\ table \subseteq Nat /\ i \notin table /\ notices \in Seq(Nat)
  BY <1>0, StreamAssumption, WiderSeq DEF StreamTypeOK, Ids, NoticesKnown, Drop
<1>2. /\ table' = table \cup {i} /\ open' = open \ {i}
      /\ late' = IF \E j \in table : j > i THEN late \cup {i} ELSE late
      /\ UNCHANGED <<last, server, listener, stream, seen, asked, start, forgotten, evicted, cut>>
  BY DEF Commit, clientVars
<1>3. \/ late' = late \cup {i}
      \/ late' = late /\ \A j \in table : j < i
  BY <1>1, <1>2
<1>4. \/ notices' = Append(notices, i) /\ lost' = lost /\ Range(notices') = Range(notices) \cup {i}
      \/ notices' = notices /\ lost' = lost \cup {i}
  <2>1. \/ notices' = Append(notices, i) /\ lost' = lost
        \/ notices' = notices /\ lost' = lost \cup {i}
    BY DEF Commit
  <2>2. Range(Append(notices, i)) = Range(notices) \cup {i}
    BY <1>1, AppendFacts
  <2> QED BY <2>1, <2>2
<1>5. StreamTypeOK'
  BY <1>0, ServerTypes
<1>6. NoticesKnown'
  BY <1>0, <1>2, <1>4 DEF NoticesKnown
<1>7. NoticesInOrder'
  <2>1. Ordered(notices, late')
    BY <1>0, <1>3 DEF NoticesInOrder, Ordered
  <2>2. i \notin late' => \A y \in Range(notices) : y < i
    BY <1>0, <1>3 DEF NoticesKnown
  <2> QED BY <1>1, <1>4, <2>1, <2>2, OrderedAppend DEF NoticesInOrder
<1>8. ASSUME NEW c \in Clients PROVE ClientInv(c)'
  <2>0. ClientInv(c)
    BY DEF StreamInv
  <2>1. Position(c)' = Position(c) /\ Rows(c)' = Rows(c)
    BY <1>2 DEF Position
  <2>2. ASSUME NEW j \in Due(c)'
        PROVE  \/ j \in Due(c)
               \/ j = i /\ i \in Range(notices') /\ \A k \in table : k < i
    <3>1. j \in table \cup {i} /\ j \notin late' /\ j \notin lost'
      BY <1>2 DEF Due, Excused
    <3>2. CASE j = i
      BY <1>3, <1>4, <3>1, <3>2
    <3>3. CASE j # i
      <4>1. late \subseteq late' /\ lost \subseteq lost'
        BY <1>3, <1>4
      <4> QED BY <1>2, <3>1, <3>3, <4>1 DEF Due, Excused
    <3> QED BY <3>2, <3>3
  <2>3. Known(c)' /\ Marked(c)' /\ UntoldStream(c)' /\ RowsInOrder(c)' /\ SeenInOrder(c)'
    BY <1>2, <2>0, <2>1 DEF ClientInv, Known, Marked, UntoldStream, RowsInOrder, SeenInOrder
  <2>4. QueueInOrder(c)'
    BY <1>2, <1>3, <2>0 DEF ClientInv, QueueInOrder, Ordered
  <2>5. QueueFirst(c)'
    <3> SUFFICES ASSUME NEW q \in Range(stream[c].queue), NEW n \in Range(notices') \ late' PROVE q < n
      BY <1>2 DEF QueueFirst
    <3>1. CASE n \in Range(notices)
      BY <1>3, <2>0, <3>1 DEF ClientInv, QueueFirst
    <3>2. CASE n = i
      <4>1. q \in table \cup {Drop}
        BY <2>0 DEF ClientInv, Known
      <4>2. 0 < i
        BY <1>1 DEF Drop
      <4> QED BY <1>3, <3>2, <4>1, <4>2 DEF Drop
    <3> QED BY <1>4, <3>1, <3>2
  <2>6. RowsFirst(c)'
    BY <2>0, <2>1, <2>2 DEF ClientInv, RowsFirst, Known
  <2>7. NothingBelow(c)'
    <3>1. (\A k \in table : k < i) => ~(i < Position(c))
      <4>1. Position(c) \in table \cup {0} /\ Position(c) \in Nat
        BY <1>0, <2>0, PositionFacts DEF ClientInv, Known, None
      <4> QED BY <1>1, <4>1
    <3> QED BY <2>0, <2>1, <2>2, <3>1 DEF ClientInv, NothingBelow
  <2>8. Coming(c)'
    <3> SUFFICES ASSUME stream[c].at \in {"replaying", "live"}, NEW j \in Due(c)'
                 PROVE  \/ j \in Rows(c) \cup Range(stream[c].queue)
                        \/ stream[c].listed /\ j \in Range(notices')
                        \/ ~stream[c].listed /\ \A q \in Range(stream[c].queue) : q < j
      BY <1>2 DEF Coming
    <3>1. CASE j \in Due(c)
      <4>1. Range(notices) \subseteq Range(notices')
        BY <1>4
      <4> QED BY <2>0, <3>1, <4>1 DEF ClientInv, Coming
    <3>2. CASE j = i /\ i \in Range(notices') /\ \A k \in table : k < i
      <4>1. \A q \in Range(stream[c].queue) : q < i
        <5>1. 0 < i /\ Range(stream[c].queue) \subseteq table \cup {0}
          BY <1>1, <2>0 DEF ClientInv, Known, Drop
        <5> QED BY <3>2, <5>1
      <4> QED BY <3>2, <4>1
    <3> QED BY <2>2, <3>1, <3>2
  <2> QED BY <2>3, <2>4, <2>5, <2>6, <2>7, <2>8 DEF ClientInv
<1> QED BY <1>5, <1>6, <1>7, <1>8 DEF StreamInv

LEMMA HangupInv ==
    ASSUME StreamInv, ConnectionLost \/ ListenerEnds
    PROVE  StreamInv'
PROOF
<1>0. StreamTypeOK /\ NoticesKnown /\ NoticesInOrder
  BY DEF StreamInv
<1>1. /\ notices' = << >> /\ lost' = lost \cup Range(notices)
      /\ UNCHANGED <<last, open, table, late, stream, seen, asked, start, forgotten, evicted, cut>>
  BY DEF ConnectionLost, ListenerEnds, Hangup, tableVars, clientVars
<1>2. Range(<< >>) = {} /\ \A X : Ordered(<< >>, X)
  BY DEF Range, Ordered
<1>3. StreamTypeOK'
  BY <1>0, ServerTypes
<1>4. NoticesKnown' /\ NoticesInOrder'
  BY <1>0, <1>1, <1>2 DEF NoticesKnown, NoticesInOrder
<1>5. ASSUME NEW c \in Clients PROVE ClientInv(c)'
  <2>0. ClientInv(c)
    BY DEF StreamInv
  <2>1. Due(c)' = Due(c) \ Range(notices) /\ Position(c)' = Position(c) /\ Rows(c)' = Rows(c)
    BY <1>1 DEF Due, Excused, Position
  <2>2. Known(c)' /\ Marked(c)' /\ UntoldStream(c)' /\ RowsInOrder(c)' /\ SeenInOrder(c)'
    BY <1>1, <2>0, <2>1 DEF ClientInv, Known, Marked, UntoldStream, RowsInOrder, SeenInOrder
  <2>3. QueueInOrder(c)' /\ QueueFirst(c)' /\ RowsFirst(c)' /\ NothingBelow(c)'
    BY <1>1, <1>2, <2>0, <2>1 DEF ClientInv, QueueInOrder, QueueFirst, RowsFirst, NothingBelow
  <2>4. Coming(c)'
    BY <1>1, <2>0, <2>1 DEF ClientInv, Coming
  <2> QED BY <2>2, <2>3, <2>4 DEF ClientInv
<1> QED BY <1>3, <1>4, <1>5 DEF StreamInv

\* A stream that the broker gives up: what is due and not in its queue was
\* among the notices, and so is after all that is in the queue.
LEMMA DroppedInv ==
    ASSUME StreamInv, NEW c \in Clients, stream[c].listed,
           stream'[c] = Dropped(stream[c]), evicted'[c] = evicted[c] \cup Evicts(stream[c]),
           Range(notices') \subseteq Range(notices),
           UNCHANGED <<table, late, lost>>, seen'[c] = seen[c], start'[c] = start[c],
           forgotten'[c] = forgotten[c], cut'[c] = cut[c]
    PROVE  ClientInv(c)'
PROOF
<1>0. ClientInv(c) /\ StreamTypeOK /\ NoticesKnown /\ stream[c] \in Streams /\ Len(stream[c].queue) <= QueueMax
  BY TypedStreams DEF StreamInv
<1>1. Entries \subseteq Nat /\ stream[c].queue \in Seq(Nat) /\ Drop \in Nat /\ Range(stream[c].queue) \subseteq Nat
  <2>1. Entries \subseteq Nat
    BY StreamAssumption DEF Entries, Ids, Drop
  <2>2. stream[c].queue \in Seq(Entries)
    BY <1>0, TypedStreams
  <2> QED BY <2>1, <2>2, WiderSeq DEF Entries
<1>2. /\ stream'[c].at = stream[c].at /\ stream'[c].mark = stream[c].mark
      /\ stream'[c].rows = stream[c].rows /\ stream'[c].rest = stream[c].rest
      /\ ~stream'[c].listed
  BY <1>0, DroppedFacts
<1> DEFINE q == stream'[c].queue
<1>3. PICK o \in Seq(Nat) : /\ q = Append(o, Drop)
                            /\ Ordered(o, late \cup {Drop})
                            /\ Range(o) \subseteq Range(stream[c].queue)
                            /\ Range(stream[c].queue) \subseteq Range(o) \cup Evicts(stream[c])
  <2>1. CASE Dropped(stream[c]).queue = Append(stream[c].queue, Drop)
    <3>1. Ordered(stream[c].queue, late \cup {Drop})
      BY <1>0 DEF ClientInv, QueueInOrder
    <3> QED BY <1>1, <2>1, <3>1
  <2>2. CASE /\ stream[c].queue # << >> /\ Dropped(stream[c]).queue = Append(Tail(stream[c].queue), Drop)
             /\ Evicts(stream[c]) = {Head(stream[c].queue)}
    <3>1. Ordered(Tail(stream[c].queue), late \cup {Drop})
      BY <1>0, <1>1, <2>2, OrderedTail DEF ClientInv, QueueInOrder
    <3>2. /\ Tail(stream[c].queue) \in Seq(Nat)
          /\ Range(stream[c].queue) = Range(Tail(stream[c].queue)) \cup {Head(stream[c].queue)}
      BY <1>1, <2>2, TailFacts
    <3> QED BY <2>2, <3>1, <3>2
  <2> QED BY <1>0, <2>1, <2>2, DroppedFacts
<1>4. Range(q) = Range(o) \cup {Drop} /\ Ordered(q, late \cup {Drop})
  BY <1>1, <1>3, AppendFacts, OrderedAppend
<1> HIDE DEF q
<1>5. Due(c)' = Due(c) \ Evicts(stream[c]) /\ Position(c)' = Position(c) /\ Rows(c)' = Rows(c)
  BY <1>2 DEF Due, Excused, Position
<1>6. Known(c)' /\ Marked(c)' /\ UntoldStream(c)' /\ RowsInOrder(c)' /\ SeenInOrder(c)'
  BY <1>0, <1>2, <1>3, <1>4, <1>5
     DEF q, ClientInv, Known, Marked, UntoldStream, RowsInOrder, SeenInOrder
<1>7. \A n \in table : Drop < n
  BY <1>0, StreamAssumption DEF StreamTypeOK, Ids, Drop
<1>8. QueueInOrder(c)' /\ QueueFirst(c)'
  BY <1>0, <1>3, <1>4, <1>7 DEF q, ClientInv, QueueInOrder, QueueFirst, NoticesKnown
<1>9. RowsFirst(c)' /\ NothingBelow(c)'
  BY <1>0, <1>5 DEF ClientInv, RowsFirst, NothingBelow
<1>10. Coming(c)'
  <2> SUFFICES ASSUME stream[c].at \in {"replaying", "live"}, NEW i \in Due(c), i \notin Evicts(stream[c]),
                      i \notin Rows(c), i \notin Range(q)
               PROVE  \A x \in Range(q) : x < i
    BY <1>2, <1>5 DEF q, Coming
  <2>1. i \notin Range(stream[c].queue) /\ i \in table /\ i \notin late
    BY <1>3, <1>4 DEF Due, Excused
  <2>2. i \in Range(notices)
    BY <1>0, <2>1 DEF ClientInv, Coming
  <2>3. \A x \in Range(stream[c].queue) : x < i
    BY <1>0, <2>1, <2>2 DEF ClientInv, QueueFirst
  <2> QED BY <1>3, <1>4, <1>7, <2>1, <2>3
<1> QED BY <1>6, <1>8, <1>9, <1>10 DEF ClientInv

LEMMA FanOutInv ==
    ASSUME StreamInv, FanOut
    PROVE  StreamInv'
PROOF
<1>0. StreamTypeOK /\ NoticesKnown /\ NoticesInOrder /\ Untold
  BY DEF StreamInv, ClientInv, Untold
<1> DEFINE h == Head(notices)
<1>1. /\ notices # << >> /\ notices' = Tail(notices)
      /\ UNCHANGED <<tableVars, server, listener, lost, seen, asked, start, forgotten, cut>>
  BY DEF FanOut
<1>2. /\ notices \in Seq(Nat) /\ Range(notices) = Range(notices') \cup {h}
      /\ Ordered(notices', late) /\ \A y \in Range(notices') : y \notin late => h < y
  <2>1. notices \in Seq(Nat)
    BY <1>0, StreamAssumption, WiderSeq DEF StreamTypeOK, Ids
  <2> QED BY <1>0, <1>1, <2>1, TailFacts, OrderedTail DEF NoticesInOrder
<1> HIDE DEF h
<1>3. StreamTypeOK'
  BY <1>0, FanOutTypes
<1>4. NoticesKnown' /\ NoticesInOrder'
  BY <1>0, <1>1, <1>2 DEF NoticesKnown, NoticesInOrder, tableVars
<1>5. ASSUME NEW c \in Clients PROVE ClientInv(c)'
  <2>0. ClientInv(c) /\ stream[c] \in Streams
    BY TypedStreams DEF StreamInv
  <2>1. CASE ~stream[c].listed /\ stream'[c] = stream[c] /\ evicted'[c] = evicted[c]
    <3>1. Due(c)' = Due(c) /\ Position(c)' = Position(c) /\ Rows(c)' = Rows(c)
      BY <1>1, <2>1 DEF Due, Position, Excused, tableVars
    <3>2. Known(c)' /\ Marked(c)' /\ UntoldStream(c)' /\ RowsInOrder(c)' /\ SeenInOrder(c)'
      BY <1>1, <2>0, <2>1, <3>1
         DEF ClientInv, Known, Marked, UntoldStream, RowsInOrder, SeenInOrder, tableVars
    <3>3. QueueInOrder(c)' /\ QueueFirst(c)' /\ RowsFirst(c)' /\ NothingBelow(c)'
      BY <1>1, <1>2, <2>0, <2>1, <3>1
         DEF ClientInv, QueueInOrder, QueueFirst, RowsFirst, NothingBelow, tableVars
    <3>4. Coming(c)'
      BY <2>0, <2>1, <3>1 DEF ClientInv, Coming
    <3> QED BY <3>2, <3>3, <3>4 DEF ClientInv
  <2>2. CASE /\ stream[c].listed /\ stream'[c] = Dropped(stream[c])
             /\ evicted'[c] = evicted[c] \cup Evicts(stream[c])
    BY <1>1, <1>2, <2>2, DroppedInv DEF tableVars
  <2>3. CASE /\ stream[c].listed /\ Len(stream[c].queue) < QueueMax
             /\ stream'[c] = [stream[c] EXCEPT !.queue = Append(stream[c].queue, h)]
             /\ evicted'[c] = evicted[c]
    <3>0. h \in Entries /\ h \in table /\ h # Drop
      <4>1. h \in table
        BY <1>0, <1>2 DEF NoticesKnown
      <4>2. h \in Ids
        BY <1>0, <4>1 DEF StreamTypeOK
      <4> QED BY <4>1, <4>2, StreamAssumption DEF Entries, Ids, Drop
    <3>1. /\ stream'[c].queue = Append(stream[c].queue, h)
          /\ stream'[c].at = stream[c].at /\ stream'[c].mark = stream[c].mark
          /\ stream'[c].rows = stream[c].rows /\ stream'[c].rest = stream[c].rest
      BY <2>0, <2>3, <3>0, PutFacts
    <3>2. stream'[c].listed = stream[c].listed
      BY <2>0, <2>3 DEF Streams
    <3>3. Range(stream'[c].queue) = Range(stream[c].queue) \cup {h}
      BY <1>0, <3>0, <3>1, TypedStreams, AppendFacts DEF Streams
    <3>4. Due(c)' = Due(c) /\ Position(c)' = Position(c) /\ Rows(c)' = Rows(c)
      BY <1>1, <2>3, <3>1 DEF Due, Position, Excused, tableVars
    <3>5. Known(c)' /\ Marked(c)' /\ UntoldStream(c)' /\ RowsInOrder(c)' /\ SeenInOrder(c)'
      BY <1>1, <2>0, <3>0, <3>1, <3>2, <3>3, <3>4
         DEF ClientInv, Known, Marked, UntoldStream, RowsInOrder, SeenInOrder, tableVars
    <3>6. QueueInOrder(c)'
      <4>1. stream[c].queue \in Seq(Nat) /\ h \in Nat
        <5>1. Entries \subseteq Nat /\ stream[c].queue \in Seq(Entries)
          BY <1>0, TypedStreams, StreamAssumption DEF Entries, Ids, Drop
        <5> QED BY <3>0, <5>1, WiderSeq
      <4>2. h \notin late => \A y \in Range(stream[c].queue) : y < h
        BY <1>2, <2>0 DEF ClientInv, QueueFirst
      <4>3. Ordered(stream[c].queue, late \cup {Drop})
        BY <2>0 DEF ClientInv, QueueInOrder
      <4> QED BY <1>1, <3>1, <4>1, <4>2, <4>3, OrderedAppend DEF QueueInOrder, tableVars
    <3>7. QueueFirst(c)'
      BY <1>1, <1>2, <2>0, <3>3 DEF ClientInv, QueueFirst, tableVars
    <3>8. RowsFirst(c)' /\ NothingBelow(c)'
      BY <2>0, <3>4 DEF ClientInv, RowsFirst, NothingBelow
    <3>9. Coming(c)'
      BY <1>2, <2>0, <2>3, <3>1, <3>2, <3>3, <3>4 DEF ClientInv, Coming
    <3> QED BY <3>5, <3>6, <3>7, <3>8, <3>9 DEF ClientInv
  <2> QED BY <1>0, <2>1, <2>2, <2>3, FanOutStream DEF h
<1> QED BY <1>3, <1>4, <1>5 DEF StreamInv

LEMMA DropAllInv ==
    ASSUME StreamInv, DropAll
    PROVE  StreamInv'
PROOF
<1>0. StreamTypeOK /\ NoticesKnown /\ NoticesInOrder /\ Untold
  BY DEF StreamInv, ClientInv, Untold
<1>1. UNCHANGED <<tableVars, listener, notices, lost, seen, asked, start, forgotten, cut>>
  BY DEF DropAll
<1>2. StreamTypeOK'
  BY <1>0, DropAllTypes
<1>3. NoticesKnown' /\ NoticesInOrder'
  BY <1>0, <1>1 DEF NoticesKnown, NoticesInOrder, tableVars
<1>4. ASSUME NEW c \in Clients PROVE ClientInv(c)'
  <2>1. ClientInv(c)
    BY DEF StreamInv
  <2>2. CASE stream'[c] = stream[c] /\ evicted'[c] = evicted[c]
    BY <1>1, <2>1, <2>2, ClientFrame DEF tableVars
  <2>3. CASE /\ stream[c].listed /\ stream'[c] = Dropped(stream[c])
             /\ evicted'[c] = evicted[c] \cup Evicts(stream[c])
    BY <1>1, <2>3, DroppedInv DEF tableVars
  <2> QED BY <1>0, <2>2, <2>3, DropAllStream
<1> QED BY <1>2, <1>3, <1>4 DEF StreamInv

\* Steps that no stream and no row sees.
LEMMA QuietInv ==
    ASSUME StreamInv, DrawId \/ (\E i \in open : Rollback(i)) \/ Connect \/ Stop \/ Restart
    PROVE  StreamInv'
PROOF
<1>0. StreamTypeOK /\ NoticesKnown /\ NoticesInOrder
  BY DEF StreamInv
<1>1. UNCHANGED <<table, late, lost, notices, clientVars>>
  BY DEF DrawId, Rollback, Connect, Stop, Restart, tableVars, serverVars
<1>2. StreamTypeOK'
  BY <1>0, ServerTypes
<1>3. NoticesKnown'
  <2>1. open' \cap table = {} /\ open' \cup table \subseteq 1..last'
    <3>1. CASE DrawId
      BY <1>0, <3>1 DEF DrawId, NoticesKnown, StreamTypeOK
    <3>2. CASE ~DrawId
      BY <1>0, <3>2 DEF Rollback, Connect, Stop, Restart, tableVars, NoticesKnown
    <3> QED BY <3>1, <3>2
  <2> QED BY <1>0, <1>1, <2>1 DEF NoticesKnown
<1>4. NoticesInOrder'
  BY <1>0, <1>1 DEF NoticesInOrder
<1>5. ASSUME NEW c \in Clients PROVE ClientInv(c)'
  <2>1. ClientInv(c)
    BY DEF StreamInv
  <2> QED BY <1>1, <2>1, ClientFrame DEF clientVars
<1> QED BY <1>2, <1>3, <1>4, <1>5 DEF StreamInv

LEMMA StepInv == StreamInv /\ [StreamNext]_vars => StreamInv'
PROOF
<1> SUFFICES ASSUME StreamInv, [StreamNext]_vars PROVE StreamInv'
  OBVIOUS
<1>1. CASE StreamNext
  <2>1. CASE \E i \in open : Commit(i)
    BY <2>1, CommitInv
  <2>2. CASE \E c \in Clients : Subscribe(c) \/ GeneratorStep(c) \/ Disconnect(c)
    BY <2>2, ClientStepInv
  <2> QED BY <1>1, <2>1, <2>2, QuietInv, HangupInv, FanOutInv, DropAllInv DEF StreamNext
<1>2. CASE UNCHANGED vars
  <2>0. StreamTypeOK /\ NoticesKnown /\ NoticesInOrder
    BY DEF StreamInv
  <2>1. StreamTypeOK' /\ NoticesKnown' /\ NoticesInOrder'
    BY <1>2, <2>0
       DEF vars, tableVars, serverVars, clientVars, StreamTypeOK, NoticesKnown, NoticesInOrder
  <2>2. ASSUME NEW c \in Clients PROVE ClientInv(c)'
    <3>1. ClientInv(c)
      BY DEF StreamInv
    <3> QED BY <1>2, <3>1, ClientFrame DEF vars, tableVars, serverVars, clientVars
  <2> QED BY <2>1, <2>2 DEF StreamInv
<1> QED BY <1>1, <1>2

LEMMA AlwaysStreamInv == StreamSpec => []StreamInv
PROOF
BY InitInv, StepInv, PTL DEF StreamSpec

\* The database, the listener, the broker and the streams keep their types, no
\* queue grows beyond its bound, and no stream that the broker knows has been
\* told to end (sse.py, sse_endpoint.py).
THEOREM StreamTypeSafe == StreamSpec => [](StreamTypeOK /\ Untold)
PROOF
<1>1. StreamInv => StreamTypeOK /\ Untold
  BY DEF StreamInv, ClientInv, Untold
<1> QED BY <1>1, AlwaysStreamInv, PTL

\* A client receives each event once and in the order of the ids, over all its
\* connections (stream_event_source).
THEOREM OnceInOrderSafe == StreamSpec => []InOrderOnce
PROOF
BY AlwaysStreamInv, InvImpliesProperties, PTL

\* What a client has missed before the last id it saw has a cause that
\* GapsHaveCause lists: the handover from the replay to the queue loses nothing.
\* (A stream that breaks before its first frame hands nothing over: there is no
\* position to replay from.)
THEOREM GapsSafe == StreamSpec => []GapsHaveCause
PROOF
BY AlwaysStreamInv, InvImpliesProperties, PTL
=============================================================================
