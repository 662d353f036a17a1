----------------------------- MODULE EventStream -----------------------------
(***************************************************************************)
(* GET /events/stream: how a row of the events table reaches a browser     *)
(* (whilly/api/sse.py, whilly/api/sse_endpoint.py, the trigger of          *)
(* migration 011 and the lifespan of the server).                          *)
(*                                                                         *)
(* A transaction draws the ids of its rows from a sequence and commits     *)
(* later, so ids may appear out of order.  The trigger notifies at the     *)
(* commit; one connection of the server listens, and its callback copies   *)
(* the notice to the bounded queue of every subscriber.  A stream first    *)
(* replays what was committed after the id the client names in             *)
(* Last-Event-ID, then passes on its queue.  A client that is gone comes   *)
(* back with the id of the last frame it received; frames on the way when  *)
(* the connection breaks count as not sent.  The payloads, other frames    *)
(* than those with an id and the authentication are left out.              *)
(***************************************************************************)
EXTENDS Naturals, Sequences, FiniteSets, Functions

CONSTANTS Clients,      \* browsers, each with one stream at a time
          MaxId,        \* bound: ids drawn from events_id_seq
          QueueMax,     \* queue_maxsize
          ReplayLimit   \* REPLAY_LIMIT

ASSUME StreamAssumption == MaxId \in Nat /\ QueueMax \in Nat \ {0} /\ ReplayLimit \in Nat \ {0}

VARIABLES last,      \* the last id drawn
          open,      \* ids of transactions that have not ended
          table,     \* the ids in the events table
          server,    \* the lifespan: "serving", "stopping" or "stopped"
          listener,  \* the LISTEN connection: "down", "up", or "over" with the loop
          notices,   \* notices on their way to it
          stream,    \* stream[c]: the generator of c's response
          seen,      \* seen[c]: the ids of the frames c received, in order
          asked,     \* history: the clients that have made a request
          start,     \* history: start[c]: what was committed before c's first one
          forgotten, \* history: forgotten[c]: what was committed later, and notified
                     \* before a request of c that again named no position
          late,      \* history: ids committed after a larger one
          lost,      \* history: ids whose notice never reached the callback
          evicted,   \* history: evicted[c]: ids taken out of c's queue to make room
          cut        \* history: cut[c]: ids beyond the cap, of which c was told

tableVars == <<last, open, table, late>>
serverVars == <<server, listener, notices, lost>>
clientVars == <<stream, seen, asked, start, forgotten, evicted, cut>>
vars == <<tableVars, serverVars, clientVars>>

Ids == 1..MaxId
Drop == 0  \* _DropSentinel
None == 0  \* no Last-Event-ID

\* at: where the generator is; listed: the broker knows the subscriber; mark:
\* high_water_mark; rows, rest: what the replay still has to yield, and what it
\* leaves out.
Off == [at |-> "off", listed |-> FALSE, mark |-> None, queue |-> << >>, rows |-> {}, rest |-> {}]

StreamTypeOK ==
    /\ last \in 0..MaxId /\ open \subseteq Ids /\ table \subseteq Ids /\ late \subseteq Ids
    /\ server \in {"serving", "stopping", "stopped"}
    /\ listener \in {"down", "up", "over"}
    /\ notices \in Seq(Ids)
    /\ stream \in [Clients -> [at : {"off", "asking", "replaying", "live"}, listed : BOOLEAN, mark : Nat,
                               queue : Seq({Drop} \cup Ids), rows : SUBSET Ids, rest : SUBSET Ids]]
    /\ \A c \in Clients : Len(stream[c].queue) <= QueueMax
    /\ seen \in [Clients -> Seq(Ids)]
    /\ asked \subseteq Clients /\ lost \subseteq Ids
    /\ start \in [Clients -> SUBSET Ids] /\ forgotten \in [Clients -> SUBSET Ids]
    /\ evicted \in [Clients -> SUBSET Ids] /\ cut \in [Clients -> SUBSET Ids]

StreamInit ==
    /\ last = 0 /\ open = {} /\ table = {} /\ late = {}
    /\ server = "serving" /\ listener = "down" /\ notices = << >>
    /\ stream = [c \in Clients |-> Off]
    /\ seen = [c \in Clients |-> << >>]
    /\ asked = {}
    /\ start = [c \in Clients |-> {}]
    /\ forgotten = [c \in Clients |-> {}]
    /\ lost = {}
    /\ evicted = [c \in Clients |-> {}]
    /\ cut = [c \in Clients |-> {}]

-----------------------------------------------------------------------------
(* Transactions that insert events.                                        *)

DrawId ==
    /\ last < MaxId
    /\ last' = last + 1
    /\ open' = open \cup {last + 1}
    /\ UNCHANGED <<table, late, serverVars, clientVars>>

Rollback(i) ==
    /\ i \in open
    /\ open' = open \ {i}
    /\ UNCHANGED <<last, table, late, serverVars, clientVars>>

\* The notices of a session that listens are queued at the commit.
Commit(i) ==
    /\ i \in open
    /\ open' = open \ {i}
    /\ table' = table \cup {i}
    /\ late' = IF \E j \in table : j > i THEN late \cup {i} ELSE late
    /\ IF listener = "up" THEN notices' = Append(notices, i) /\ UNCHANGED lost
                          ELSE lost' = lost \cup {i} /\ UNCHANGED notices
    /\ UNCHANGED <<last, server, listener, clientVars>>

-----------------------------------------------------------------------------
(* event_notify_listener_loop.                                             *)

Connect ==
    /\ listener = "down" /\ server = "serving"
    /\ listener' = "up"
    /\ UNCHANGED <<tableVars, server, notices, lost, clientVars>>

\* The connection breaks, or the loop ends with the server.
Hangup(to) ==
    /\ listener' = to
    /\ notices' = << >>
    /\ lost' = lost \cup Range(notices)
    /\ UNCHANGED <<tableVars, server, clientVars>>

ConnectionLost == listener = "up" /\ Hangup("down")
ListenerEnds == listener # "over" /\ server = "stopping" /\ Hangup("over")

\* Fault: the sentinel is put although the queue is full.
DroppedUnbounded(s) == [s EXCEPT !.listed = FALSE, !.queue = Append(s.queue, Drop)]

\* Fault: a full queue gets no sentinel.
DroppedIfRoom(s) ==
    [s EXCEPT !.listed = FALSE,
              !.queue = IF Len(s.queue) < QueueMax THEN Append(s.queue, Drop) ELSE s.queue]

\* _send_drop_sentinel: at the tail, in place of the oldest entry if need be.
Dropped(s) ==
    [s EXCEPT !.listed = FALSE,
              !.queue = IF Len(s.queue) < QueueMax THEN Append(s.queue, Drop)
                        ELSE Append(Tail(s.queue), Drop)]
Evicts(s) == IF Len(s.queue) < QueueMax THEN {} ELSE {s.queue[1]}

\* fan_out: the callback copies the notice to every queue that has room.
FanOut ==
    LET i == Head(notices)
        full == {c \in Clients : stream[c].listed /\ Len(stream[c].queue) >= QueueMax}
    IN  /\ notices # << >>
        /\ notices' = Tail(notices)
        /\ stream' = [c \in Clients |->
                        IF ~stream[c].listed THEN stream[c]
                        ELSE IF c \in full THEN Dropped(stream[c])
                        ELSE [stream[c] EXCEPT !.queue = Append(stream[c].queue, i)]]
        /\ evicted' = [c \in Clients |->
                        IF c \in full THEN evicted[c] \cup Evicts(stream[c]) ELSE evicted[c]]
        /\ UNCHANGED <<tableVars, server, listener, lost, seen, asked, start, forgotten, cut>>

-----------------------------------------------------------------------------
(* The lifespan.                                                           *)

Stop ==
    /\ server = "serving"
    /\ server' = "stopping"
    /\ UNCHANGED <<tableVars, listener, notices, lost, clientVars>>

DropAll ==
    /\ server = "stopping" /\ listener = "over"
    /\ server' = "stopped"
    /\ stream' = [c \in Clients |-> IF stream[c].listed THEN Dropped(stream[c]) ELSE stream[c]]
    /\ evicted' = [c \in Clients |-> IF stream[c].listed THEN evicted[c] \cup Evicts(stream[c]) ELSE evicted[c]]
    /\ UNCHANGED <<tableVars, listener, notices, lost, seen, asked, start, forgotten, cut>>

Restart ==
    /\ server = "stopped" /\ \A c \in Clients : stream[c].at = "off"
    /\ server' = "serving" /\ listener' = "down"
    /\ UNCHANGED <<tableVars, notices, lost, clientVars>>

-----------------------------------------------------------------------------
(* stream_event_source.                                                    *)

\* Last-Event-ID of the next request.
Position(c) == IF seen[c] = << >> THEN None ELSE seen[c][Len(seen[c])]

\* The subscriber is registered before the replay asks the table.  A request
\* without a position, the first one or that of a client whose streams all
\* broke before their first frame, asks for no replay.
Subscribe(c) ==
    /\ server = "serving" /\ stream[c].at = "off"
    /\ stream' = [stream EXCEPT ![c] =
                    [Off EXCEPT !.at = IF Position(c) = None THEN "live" ELSE "asking",
                                !.listed = TRUE, !.mark = Position(c)]]
    /\ asked' = asked \cup {c}
    /\ start' = IF c \in asked THEN start ELSE [start EXCEPT ![c] = table]
    /\ forgotten' = IF c \in asked /\ Position(c) = None
                    THEN [forgotten EXCEPT ![c] = @ \cup (table \ (start[c] \cup Range(notices)))]
                    ELSE forgotten
    /\ UNCHANGED <<tableVars, serverVars, seen, evicted, cut>>

\* Fault: the first row after the mark is left out.
MissingFromNext(c) == {i \in table : i > stream[c].mark + 1}

\* Rows after the mark in the order of their ids, and no more than the limit.
Missing(c) == {i \in table : i > stream[c].mark}
Replayed(c) == {i \in Missing(c) : Cardinality({j \in Missing(c) : j <= i}) <= ReplayLimit}

\* Fault: a replay that fails is skipped.
ReplayErrorIgnored(c) ==
    /\ stream[c].at = "asking"
    /\ stream' = [stream EXCEPT ![c] = [@ EXCEPT !.at = "live"]]
    /\ UNCHANGED <<tableVars, serverVars, seen, asked, start, forgotten, evicted, cut>>

Replay(c) ==
    /\ stream[c].at = "asking"
    /\ stream' = [stream EXCEPT ![c] = [@ EXCEPT !.at = "replaying", !.rows = Replayed(c),
                                                 !.rest = Missing(c) \ Replayed(c)]]
    /\ UNCHANGED <<tableVars, serverVars, seen, asked, start, forgotten, evicted, cut>>

\* A frame with id i.
Sends(c, i, s) ==
    /\ seen' = [seen EXCEPT ![c] = Append(@, i)]
    /\ stream' = [stream EXCEPT ![c] = [s EXCEPT !.mark = IF i > @ THEN i ELSE @]]

YieldRow(c) ==
    /\ stream[c].at = "replaying"
    /\ \E i \in stream[c].rows :
        /\ \A j \in stream[c].rows : i <= j
        /\ Sends(c, i, [stream[c] EXCEPT !.rows = @ \ {i}])
    /\ UNCHANGED <<tableVars, serverVars, asked, start, forgotten, evicted, cut>>

\* The replay_truncated frame, if any, and then the queue.
ReplayEnds(c) ==
    /\ stream[c].at = "replaying" /\ stream[c].rows = {}
    /\ stream' = [stream EXCEPT ![c] = [@ EXCEPT !.at = "live", !.rest = {}]]
    /\ cut' = [cut EXCEPT ![c] = @ \cup stream[c].rest]
    /\ UNCHANGED <<tableVars, serverVars, seen, asked, start, forgotten, evicted>>

\* The generator returns, or is closed with its client: unsubscribe.
Ends(c) ==
    /\ stream' = [stream EXCEPT ![c] = Off]
    /\ UNCHANGED <<tableVars, serverVars, seen, asked, start, forgotten, evicted, cut>>

Receives(c) == stream[c].at = "live" /\ stream[c].queue # << >>
Rest(c) == [stream[c] EXCEPT !.queue = Tail(@)]

DropSeen(c) == Receives(c) /\ Head(stream[c].queue) = Drop /\ Ends(c)

\* At or below the mark: the replay had it, or a larger id came first.
PassedOver(c) ==
    /\ Receives(c) /\ Head(stream[c].queue) \in 1..stream[c].mark
    /\ stream' = [stream EXCEPT ![c] = Rest(c)]
    /\ UNCHANGED <<tableVars, serverVars, seen, asked, start, forgotten, evicted, cut>>

\* Fault: what the replay has yielded already is passed on again.
PassedOnAgain(c) ==
    /\ Receives(c) /\ Head(stream[c].queue) # Drop
    /\ Sends(c, Head(stream[c].queue), Rest(c))
    /\ UNCHANGED <<tableVars, serverVars, asked, start, forgotten, evicted, cut>>

PassedOn(c) ==
    /\ Receives(c) /\ Head(stream[c].queue) > stream[c].mark
    /\ Sends(c, Head(stream[c].queue), Rest(c))
    /\ UNCHANGED <<tableVars, serverVars, asked, start, forgotten, evicted, cut>>

\* The client goes away, or the replay query fails.
Disconnect(c) == stream[c].at # "off" /\ Ends(c)

-----------------------------------------------------------------------------

GeneratorStep(c) ==
    Replay(c) \/ YieldRow(c) \/ ReplayEnds(c) \/ DropSeen(c) \/ PassedOver(c) \/ PassedOn(c)

StreamNext ==
    \/ DrawId
    \/ \E i \in open : Rollback(i) \/ Commit(i)
    \/ Connect \/ ConnectionLost \/ ListenerEnds \/ FanOut
    \/ Stop \/ DropAll \/ Restart
    \/ \E c \in Clients : Subscribe(c) \/ GeneratorStep(c) \/ Disconnect(c)

StreamSpec == StreamInit /\ [][StreamNext]_vars

\* asyncio runs the callback and the generators, and the clients read.
StreamFairness == WF_vars(FanOut) /\ \A c \in Clients : WF_vars(GeneratorStep(c))
-----------------------------------------------------------------------------

\* A client receives an event once, and in the order of the ids, over all its
\* connections: whatever is notified during a replay, evicted, or committed late.
InOrderOnce == \A c \in Clients : \A m, n \in DOMAIN seen[c] : m < n => seen[c][m] < seen[c][n]

Excused(c) == start[c] \cup forgotten[c] \cup lost \cup evicted[c] \cup cut[c] \cup late

\* "So the replay-live handover stays gap-free": a client that sees an id has
\* seen every event before it that was committed since its first request, but
\* for those whose notice was lost with the listener's connection, taken out of
\* its full queue, cut off by the cap, committed after a larger id, or notified
\* before a later request of a client that had not received any frame yet: it
\* comes back with no position, and the server replays nothing.
GapsHaveCause ==
    \A c \in Clients : \A i \in table : i < Position(c) => i \in Range(seen[c]) \cup Excused(c)

\* While the listener is up and the client reads, every event comes through.
StreamDelivers ==
    StreamFairness => \A c \in Clients :
        <>[](listener = "up" /\ stream[c].at # "off") =>
            \A i \in Ids : (i \in table) ~> (i \in Range(seen[c]) \cup Excused(c))

\* A stream that the broker has given up ends, however full its queue was.
DroppedStreamsEnd ==
    StreamFairness => \A c \in Clients :
        (stream[c].at # "off" /\ ~stream[c].listed) ~> stream[c].at = "off"
=============================================================================
