------------------------------ MODULE LiveFeed ------------------------------
(***************************************************************************)
(* api-backend's way from Kafka to the log table and to the browsers.      *)
(*                                                                         *)
(*   topics -> consumer loop --- try_send ---> persistQ -> batch -> rows   *)
(*                    '--- broadcast --> ring -> one task per WebSocket    *)
(*                                                                         *)
(* The consumer commits its offsets automatically, so what was delivered   *)
(* and not stored is gone when the process ends, unless an earlier offset  *)
(* was the last to be committed; then it is delivered a second time.  A    *)
(* topic without a committed offset is read from its end.  An event        *)
(* arrives in two copies, the raw one and the one the router has           *)
(* normalised, with the same id and in either order.                       *)
(***************************************************************************)
EXTENDS Naturals, Sequences, FiniteSets

CONSTANTS Topic,        \* the topics the consumer subscribes to
          Feeds,        \* what the topics may hold: topic -> records, oldest first
          Str,          \* the strings of records and clients
          Uuid,         \* those that parse as a UUID
          Client,       \* WebSocket connections, each of which is opened once
          Query,        \* what a client may ask for when it connects
          Command,      \* subscribe messages a client may send
          LowerCase,    \* str::to_lowercase on the topic names of the clients
          PersistCap,   \* capacity of the persistence channel
          BatchMax,     \* entries of a micro-batch
          RingCap,      \* events the broadcast channel retains
          MaxFailures,  \* bound: failures of an INSERT or of a subscription
          MaxStops,     \* bound: ends of the process
          MaxCommands   \* bound: subscribe messages of one connection

Absent == "(absent)"    \* a JSON field that is not there, or a None
Number == "(number)"    \* a JSON value that is not a string
Unknown == "unknown"
NoTopics == <<Absent>>  \* a subscribe message without topics
NoOffset == 0           \* nothing was committed yet: a commit is of a record

EventTopics == {"aigis.events.raw", "aigis.events.norm", "aigis.events.process",
                "aigis.events.network", "aigis.events.file", "aigis.events.auth"}

Field == {"node_id", "agent_uuid", "payload.agent_uuid", "payload.node_id",
          "id", "event_id", "event_type", "query_name", "payload.query_name",
          "payload.event_type", "data.node_id", "data.event_type"}
LiveEvent == [channel : {"logs", "alerts", "heartbeats"}, node : Str, type : Str]
NoLive == [channel |-> Absent, node |-> Absent, type |-> Absent]

\* A record: whether it is JSON, the channel of the LiveEvent it can be read as
\* (Absent if as none) and its fields.
Record == [json : BOOLEAN, live : {Absent, "logs", "alerts", "heartbeats"},
           field : [Field -> Str]]

\* A LiveEvent has its node, a log also its type, both under "data"; what else
\* the object has serde ignores.
ASSUME FeedAssumption ==
    /\ Feeds \subseteq [Topic -> Seq(Record)]
    /\ \A f \in Feeds, t \in Topic : \A i \in DOMAIN f[t] :
          LET r == f[t][i]
          IN  /\ r.live # Absent =>
                    r.json /\ r.field["data.node_id"] \notin {Absent, Number}
              /\ r.live = "logs" => r.field["data.event_type"] \notin {Absent, Number}
ASSUME StringAssumption ==
    /\ {Absent, Number, Unknown, "", "logs", "alerts", "heartbeats"} \subseteq Str
    /\ Uuid \subseteq Str \ {Absent, Number}
ASSUME ClientAssumption ==
    /\ LowerCase \in [DOMAIN LowerCase -> Str]
    /\ \A q \in Query : /\ q.node \in Str
                        /\ q.topics \in Seq(DOMAIN LowerCase) \cup {NoTopics}
    /\ \A m \in Command : m.node \in Str /\ m.topics \in Seq(Str)
ASSUME FeedBounds ==
    /\ {PersistCap, BatchMax, RingCap} \subseteq Nat \ {0}
    /\ {MaxFailures, MaxStops, MaxCommands} \subseteq Nat

VARIABLES feed,         \* the records of the topics
          pos,          \* records of each topic that were delivered or skipped
          committed,    \* those the group is done with, or NoOffset
          begun,        \* topics of which this process was delivered a record
          fresh,        \* number of ids that were made up
          proc,         \* the process: "up", "stopping" or "down"
          reading,      \* the consumer loop runs
          persistQ,     \* the persistence channel
          batch,        \* the worker's micro-batch
          worker,       \* the worker: "recv", "insert" or "ended"
          last,         \* the worker ends after this INSERT
          rows,         \* table event_logs
          ring,         \* what this process has broadcast, oldest first
          shown,        \* history: everything that was ever broadcast
          conn,         \* the connections
          skipped,      \* history: records between two processes that a start
                        \* at the end of the topic left out
          dropped,      \* history: number of entries that were given up
          failures, stops   \* history

sinkVars == <<persistQ, batch, worker, last, rows>>
groupVars == <<pos, committed, begun, skipped>>
vars == <<feed, groupVars, fresh, proc, reading, sinkVars, ring, shown, conn,
          dropped, failures, stops>>

-----------------------------------------------------------------------------
(* Parsing *)

\* json.get(f1).or_else(|| json.get(f2)) ...: the first field that is there,
\* whatever its type.
First(r, names) ==
    LET there == {i \in DOMAIN names : r.field[names[i]] # Absent}
    IN  IF there = {} THEN Absent
        ELSE r.field[names[CHOOSE i \in there : \A j \in there : i <= j]]

as_str(v) == IF v = Number THEN Absent ELSE v

unwrap_or(v, default) == IF v = Absent THEN default ELSE v

NodeNames == <<"node_id", "agent_uuid", "payload.agent_uuid", "payload.node_id">>
TypeNames == <<"event_type", "query_name", "payload.query_name", "payload.event_type">>

NoEntity == [event_id |-> <<Absent, 0>>, node_id |-> Absent, event_type |-> Absent]

\* Mutant of parse_log_entity: the payload's own node comes first.
PayloadNodeFirst(t, r, n) ==
    LET node == as_str(First(r, <<"payload.agent_uuid", "payload.node_id", "node_id",
                                  "agent_uuid">>))
        id == as_str(First(r, <<"id", "event_id">>))
    IN  IF t \in EventTopics /\ r.json /\ node \in Uuid
        THEN [event_id |-> IF id \in Uuid THEN <<id, 0>> ELSE <<Absent, n>>,
              node_id |-> node,
              event_type |-> unwrap_or(as_str(First(r, TypeNames)), Unknown)]
        ELSE NoEntity

\* The row for a record: none unless it names its node by a UUID.  Without an
\* id that parses it gets a new one, here the number n.
parse_log_entity(t, r, n) ==
    LET node == as_str(First(r, NodeNames))
        id == as_str(First(r, <<"id", "event_id">>))
    IN  IF t \in EventTopics /\ r.json /\ node \in Uuid
        THEN [event_id |-> IF id \in Uuid THEN <<id, 0>> ELSE <<Absent, n>>,
              node_id |-> node,
              event_type |-> unwrap_or(as_str(First(r, TypeNames)), Unknown)]
        ELSE NoEntity

\* The live event for a record: as it is when it is one already, otherwise
\* by its topic.
parse_kafka_message(t, r) ==
    CASE r.live # Absent ->
           [channel |-> r.live, node |-> r.field["data.node_id"],
            type |-> IF r.live = "logs" THEN r.field["data.event_type"] ELSE Absent]
      [] r.live = Absent /\ r.json /\ t \in EventTopics ->
           [channel |-> "logs", node |-> unwrap_or(as_str(First(r, NodeNames)), Unknown),
            type |-> unwrap_or(as_str(First(r, TypeNames)), Unknown)]
      [] r.live = Absent /\ r.json /\ t \in {"aigis.alerts", "aigis.health"} ->
           [channel |-> IF t = "aigis.alerts" THEN "alerts" ELSE "heartbeats",
            node |-> unwrap_or(as_str(First(r, <<"node_id", "agent_uuid">>)), ""),
            type |-> Absent]
      [] OTHER -> NoLive

-----------------------------------------------------------------------------

New == [at |-> "new", next |-> 0, topics |-> <<>>, node |-> Absent, asked |-> 0,
           ack |-> [topics |-> <<>>, node |-> Absent], from |-> 0, sent |-> <<>>,
           missed |-> {}]
Closed == [New EXCEPT !.at = "closed"]

Init ==
    /\ feed \in Feeds
    /\ pos = [t \in Topic |-> 0] /\ committed = [t \in Topic |-> NoOffset]
    /\ begun = {} /\ skipped = {} /\ fresh = 0
    /\ proc = "up" /\ reading = TRUE
    /\ persistQ = <<>> /\ batch = <<>> /\ worker = "recv" /\ last = FALSE
    /\ rows = {} /\ ring = <<>> /\ shown = {}
    /\ conn = [c \in Client |-> New]
    /\ dropped = 0 /\ failures = 0 /\ stops = 0

-----------------------------------------------------------------------------
(* The consumer loop *)

\* Mutant of Persist: a full channel forgets its oldest entry.
PersistDropsOldest(e) ==
    IF e # NoEntity /\ worker # "ended"
    THEN /\ persistQ' = IF Len(persistQ) < PersistCap THEN Append(persistQ, e)
                        ELSE Append(Tail(persistQ), e)
         /\ UNCHANGED dropped
    ELSE /\ dropped' = dropped + (IF e = NoEntity THEN 0 ELSE 1)
         /\ UNCHANGED persistQ

\* persist_tx.try_send, whose error is ignored: the entry is dropped when the
\* channel is full or its receiver is gone.
Persist(e) ==
    IF e # NoEntity /\ worker # "ended" /\ Len(persistQ) < PersistCap
    THEN persistQ' = Append(persistQ, e) /\ UNCHANGED dropped
    ELSE /\ dropped' = dropped + (IF e = NoEntity THEN 0 ELSE 1)
         /\ UNCHANGED persistQ

\* One turn of the loop.  broadcast_tx.send never waits; without a receiver
\* the event is gone, which for those who subscribe later is the same.
\* select! chooses at random, so records are delivered after the token, too.
Deliver(t) ==
    /\ reading /\ pos[t] < Len(feed[t])
    /\ LET r == feed[t][pos[t] + 1]
           live == parse_kafka_message(t, r)
           e == parse_log_entity(t, r, fresh + 1)
       IN  /\ ring' = IF live = NoLive THEN ring ELSE Append(ring, live)
           /\ shown' = shown \cup ({live} \ {NoLive})
           /\ Persist(e)
           /\ fresh' = IF e.event_id = <<Absent, fresh + 1>> THEN fresh + 1 ELSE fresh
    /\ pos' = [pos EXCEPT ![t] = @ + 1] /\ begun' = begun \cup {t}
    /\ UNCHANGED <<committed, skipped, proc, reading, batch, worker, last, rows, conn,
                   failures, stops>>

\* The offsets a commit stores: those of the topics that delivered something.
Offsets == [t \in Topic |-> IF t \in begun THEN pos[t] ELSE committed[t]]

\* enable.auto.commit: what was delivered is committed, stored or not.
AutoCommit ==
    /\ reading /\ committed # Offsets
    /\ committed' = Offsets
    /\ UNCHANGED <<pos, begun, skipped, fresh, proc, reading, sinkVars, ring, shown, conn,
                   dropped, failures, stops>>

\* The loop sees the token; the consumer is closed, which commits, and
\* persist_tx is dropped.
LoopEnds ==
    /\ reading /\ proc = "stopping"
    /\ reading' = FALSE
    /\ committed' \in {committed, Offsets}
    /\ UNCHANGED <<pos, begun, skipped, fresh, proc, sinkVars, ring, shown, conn, dropped,
                   failures, stops>>

-----------------------------------------------------------------------------
(* The persistence worker *)

\* A received entry joins the batch; a full batch is inserted.
WorkerTake ==
    /\ worker = "recv" /\ persistQ # <<>>
    /\ batch' = Append(batch, Head(persistQ))
    /\ persistQ' = Tail(persistQ)
    /\ worker' = IF Len(batch') >= BatchMax THEN "insert" ELSE "recv"
    /\ UNCHANGED <<groupVars, fresh, proc, reading, last, rows, ring, shown, conn,
                   dropped, failures, stops>>

\* Mutant of FlushTick: the timer only flushes full batches.
FlushTickFull ==
    /\ worker = "recv" /\ Len(batch) >= BatchMax
    /\ worker' = "insert"
    /\ UNCHANGED <<groupVars, fresh, proc, reading, persistQ, batch, last, rows,
                   ring, shown, conn, dropped, failures, stops>>

\* The timer inserts what there is.
FlushTick ==
    /\ worker = "recv" /\ batch # <<>>
    /\ worker' = "insert"
    /\ UNCHANGED <<groupVars, fresh, proc, reading, persistQ, batch, last, rows,
                   ring, shown, conn, dropped, failures, stops>>

\* The worker sees the token, or that the loop has ended: it inserts its
\* batch and ends, and what the channel still holds is dropped with it.
WorkerStops ==
    /\ worker = "recv" /\ proc = "stopping"
    /\ last' = (batch # <<>>)
    /\ worker' = IF batch # <<>> THEN "insert" ELSE "ended"
    /\ IF batch # <<>> THEN UNCHANGED <<persistQ, dropped>>
       ELSE persistQ' = <<>> /\ dropped' = dropped + Len(persistQ)
    /\ UNCHANGED <<groupVars, fresh, proc, reading, batch, rows, ring, shown, conn,
                   failures, stops>>

Stored(S) == {e.event_id : e \in S}

\* Mutant of insert_batch: no ON CONFLICT clause and no key.
InsertAll(b) == rows \cup {b[i] : i \in DOMAIN b}

\* INSERT ... ON CONFLICT (event_id) DO NOTHING: the first row with an id stays.
insert_batch(b) ==
    rows \cup {b[i] : i \in {k \in DOMAIN b :
                        /\ b[k].event_id \notin Stored(rows)
                        /\ \A j \in DOMAIN b : j < k => b[j].event_id # b[k].event_id}}

\* The worker after its INSERT: the batch is cleared, stored or not; lost is
\* the number of entries that were not.
AfterInsert(lost) ==
    /\ batch' = <<>>
    /\ worker' = IF last THEN "ended" ELSE "recv"
    /\ persistQ' = IF last THEN <<>> ELSE persistQ
    /\ dropped' = dropped + lost + (IF last THEN Len(persistQ) ELSE 0)
    /\ last' = FALSE
    /\ UNCHANGED <<groupVars, fresh, proc, reading, ring, shown, conn, stops>>

Insert ==
    /\ worker = "insert"
    /\ rows' = insert_batch(batch)
    /\ AfterInsert(0)
    /\ UNCHANGED failures

\* The INSERT fails; a warning is logged.
InsertFails ==
    /\ worker = "insert" /\ failures < MaxFailures
    /\ failures' = failures + 1
    /\ AfterInsert(Len(batch))
    /\ UNCHANGED rows

-----------------------------------------------------------------------------
(* The process *)

\* Ctrl-C cancels the token; axum starts its graceful shutdown.
CtrlC ==
    /\ proc = "up" /\ stops < MaxStops
    /\ proc' = "stopping"
    /\ UNCHANGED <<groupVars, fresh, reading, sinkVars, ring, shown, conn, dropped,
                   failures, stops>>

\* The process ends: killed, or because main returns.  main does not wait for
\* the consumer or the worker, so this may come at any time after the token.
Exit ==
    /\ proc # "down" /\ stops < MaxStops
    /\ proc' = "down" /\ reading' = FALSE /\ stops' = stops + 1
    /\ persistQ' = <<>> /\ batch' = <<>> /\ worker' = "ended" /\ last' = FALSE
    /\ dropped' = dropped + Len(persistQ) + Len(batch)
    /\ ring' = <<>>
    /\ conn' = [c \in Client |-> IF conn[c].at = "open" THEN Closed ELSE conn[c]]
    /\ UNCHANGED <<groupVars, fresh, rows, shown, failures>>

\* Where a new process starts to read a topic: where the group has committed,
\* or, by auto.offset.reset = latest, at what happens to be the end by then.
StartsAt(t) == IF committed[t] = NoOffset THEN pos[t]..Len(feed[t]) ELSE {committed[t]}

\* The consumer gets its partitions; skipped are the records of the topics
\* read from their ends that came after the last one delivered.
Resume ==
    \E p \in [Topic -> UNION {StartsAt(t) : t \in Topic}] :
        /\ \A t \in Topic : p[t] \in StartsAt(t)
        /\ pos' = p /\ begun' = {}
        /\ skipped' = skipped \cup (UNION {{t} \X (pos[t] + 1 .. p[t]) :
                                          t \in {u \in Topic : committed[u] = NoOffset}})

\* A new process starts.  When the consumer cannot be created or subscribed,
\* the service runs on without it.
Start ==
    /\ proc = "down"
    /\ proc' = "up"
    /\ \/ Resume /\ reading' = TRUE /\ worker' = "recv" /\ UNCHANGED failures
       \/ /\ failures < MaxFailures
          /\ failures' = failures + 1
          /\ UNCHANGED <<pos, begun, skipped, reading, worker>>
    /\ UNCHANGED <<committed, fresh, persistQ, batch, last, rows, ring, shown, conn,
                   dropped, stops>>

-----------------------------------------------------------------------------
(* The task of a WebSocket *)

\* Defaults, or the names in lower case.
parse_topics(ts) ==
    IF ts = NoTopics THEN <<"logs", "alerts", "heartbeats">>
    ELSE [i \in DOMAIN ts |-> LowerCase[ts[i]]]

matches_filter(event, node, topics) ==
    /\ topics = <<>> \/ \E i \in DOMAIN topics : topics[i] \in {event.channel, "all"}
    /\ node # Absent => event.node = node

\* The socket is accepted: the task subscribes at the end of the ring.
Connect(c, q) ==
    /\ proc = "up" /\ conn[c].at = "new"
    /\ conn' = [conn EXCEPT ![c] =
                  [New EXCEPT !.at = "open", !.next = Len(ring) + 1,
                                 !.topics = parse_topics(q.topics), !.node = q.node,
                                 !.ack = [topics |-> parse_topics(q.topics),
                                          node |-> q.node],
                                 !.from = Len(ring) + 1]]
    /\ UNCHANGED <<groupVars, fresh, proc, reading, sinkVars, ring, shown, dropped,
                   failures, stops>>

Behind(c) == Len(ring) + 1 - conn[c].next

\* The next event, sent to the client when the filter in force lets it through.
Forward(c) ==
    /\ conn[c].at = "open" /\ Behind(c) \in 1..RingCap
    /\ LET i == conn[c].next
           through == matches_filter(ring[i], conn[c].node, conn[c].topics)
       IN  conn' = [conn EXCEPT ![c].next = i + 1,
                                ![c].sent = IF through THEN Append(@, i) ELSE @]
    /\ UNCHANGED <<groupVars, fresh, proc, reading, sinkVars, ring, shown, dropped,
                   failures, stops>>

\* RecvError::Lagged: the receiver moves to the oldest event the ring still
\* has; a warning is logged and the client is not told.
Lagged(c) ==
    /\ conn[c].at = "open" /\ Behind(c) > RingCap
    /\ LET oldest == Len(ring) + 1 - RingCap
       IN  conn' = [conn EXCEPT ![c].next = oldest,
                                ![c].missed = @ \cup (conn[c].next .. oldest - 1)]
    /\ UNCHANGED <<groupVars, fresh, proc, reading, sinkVars, ring, shown, dropped,
                   failures, stops>>

\* Mutant of Subscribe: a message without a node keeps the old filter on it.
SubscribeKeepsNode(c, m) ==
    /\ conn[c].at = "open" /\ conn[c].asked < MaxCommands
    /\ LET topics == IF m.topics = NoTopics THEN conn[c].topics ELSE m.topics
       IN  conn' = [conn EXCEPT ![c].topics = topics,
                                ![c].node = IF m.node = Absent THEN @ ELSE m.node,
                                ![c].asked = @ + 1,
                                ![c].ack = [topics |-> topics, node |-> m.node],
                                ![c].from = conn[c].next, ![c].sent = <<>>]
    /\ UNCHANGED <<groupVars, fresh, proc, reading, sinkVars, ring, shown, dropped,
                   failures, stops>>

\* A subscribe message replaces the topics if it has some and the node in any
\* case, and is acknowledged with the filter now in force.  Names stay in the
\* case the client wrote.  from and sent start a new stretch of the stream.
Subscribe(c, m) ==
    /\ conn[c].at = "open" /\ conn[c].asked < MaxCommands
    /\ LET topics == IF m.topics = NoTopics THEN conn[c].topics ELSE m.topics
       IN  conn' = [conn EXCEPT ![c].topics = topics, ![c].node = m.node,
                                ![c].asked = @ + 1,
                                ![c].ack = [topics |-> topics, node |-> m.node],
                                ![c].from = conn[c].next, ![c].sent = <<>>]
    /\ UNCHANGED <<groupVars, fresh, proc, reading, sinkVars, ring, shown, dropped,
                   failures, stops>>

\* The client leaves, or a send to it fails.
Close(c) ==
    /\ conn[c].at = "open"
    /\ conn' = [conn EXCEPT ![c] = Closed]
    /\ UNCHANGED <<groupVars, fresh, proc, reading, sinkVars, ring, shown, dropped,
                   failures, stops>>

-----------------------------------------------------------------------------

ConsumerNext == (\E t \in Topic : Deliver(t)) \/ AutoCommit \/ LoopEnds
WorkerNext == WorkerTake \/ FlushTick \/ WorkerStops \/ Insert \/ InsertFails
ProcessNext == CtrlC \/ Exit \/ Start
SocketNext ==
    \E c \in Client :
        \/ \E q \in Query : Connect(c, q)
        \/ \E m \in Command : Subscribe(c, m)
        \/ Forward(c) \/ Lagged(c) \/ Close(c)

\* What the topics hold is given.
Step(A) == A /\ UNCHANGED feed

Next == Step(ConsumerNext \/ WorkerNext \/ ProcessNext \/ SocketNext)

Spec == Init /\ [][Next]_vars

\* tokio runs the worker, its timer ticks and the database answers.  Nothing
\* is assumed of the broker, the process or the clients.
FairSpec ==
    /\ Spec
    /\ WF_vars(Step(FlushTick)) /\ WF_vars(Step(WorkerTake))
    /\ WF_vars(Step(Insert \/ InsertFails))

-----------------------------------------------------------------------------
(* Properties *)

Entity == [event_id : (Uuid \cup {Absent}) \X Nat, node_id : Uuid, event_type : Str]
Filter == [topics : Seq(Str), node : Str]

ConsumerTypes ==
    /\ feed \in Feeds
    /\ pos \in [Topic -> Nat] /\ committed \in [Topic -> Nat] /\ fresh \in Nat
    /\ begun \subseteq Topic /\ skipped \subseteq Topic \X Nat
    /\ proc \in {"up", "stopping", "down"} /\ reading \in BOOLEAN
SinkTypes ==
    /\ persistQ \in Seq(Entity) /\ Len(persistQ) <= PersistCap
    /\ batch \in Seq(Entity) /\ Len(batch) <= BatchMax
    /\ worker \in {"recv", "insert", "ended"} /\ last \in BOOLEAN
    /\ worker = "recv" => Len(batch) < BatchMax
    /\ rows \subseteq Entity
RingTypes ==
    /\ ring \in Seq(LiveEvent) /\ shown \subseteq LiveEvent
    /\ dropped \in Nat /\ failures \in Nat /\ stops \in Nat
Connection ==
    [at : {"new", "open", "closed"}, next : Nat, topics : Seq(Str), node : Str,
     asked : Nat, ack : Filter, from : Nat, sent : Seq(Nat), missed : SUBSET Nat]

\* Types of the variables, with the bounds of channel and batch.
TypeOK == ConsumerTypes /\ SinkTypes /\ RingTypes /\ conn \in [Client -> Connection]

\* An event that carries its id is stored once, however many copies of it are
\* delivered, in whatever batches, and however often a restart repeats them.
StoredOnce == \A e, f \in rows : e.event_id = f.event_id => e = f

\* A stored row stays as it is: neither the second copy of the event nor a
\* repetition after a restart changes what an analyst has already seen.
RowsStay == [][rows \subseteq rows']_vars

Elements(s) == {s[i] : i \in DOMAIN s}

\* The ids of the records of a topic up to the n-th.
IdsUpTo(t, n) ==
    {parse_log_entity(t, feed[t][i], 0).event_id : i \in 1..n} \ {<<Absent, 0>>}

\* Identified events all of whose copies were delivered and that are nowhere.
Lost ==
    (UNION {IdsUpTo(t, pos[t]) : t \in Topic})
        \ ((UNION {IdsUpTo(t, Len(feed[t])) \ IdsUpTo(t, pos[t]) : t \in Topic})
           \cup Stored(rows \cup Elements(persistQ) \cup Elements(batch)))

Skipped == {parse_log_entity(k[1], feed[k[1]][k[2]], 0).event_id : k \in skipped}

\* What is lost has a cause: an entry that was given up - the full channel
\* refused it, the INSERT of its batch failed, or channel or batch held it
\* when the worker or the process ended - or a record of a topic without a
\* committed offset from between two processes.  The other copy of the event
\* makes up for it or not; nothing else loses an event.
LossHasCause == Cardinality(Lost \ Skipped) <= dropped

LogOf(e) == [channel |-> "logs", node |-> e.node_id, type |-> e.event_type]

\* e can be of a record that serde reads as a live event, whatever else it has.
FromLive(e) ==
    \E t \in Topic : \E i \in DOMAIN feed[t] :
        /\ feed[t][i].live # Absent
        /\ parse_kafka_message(t, feed[t][i]) \in shown
        /\ \E n \in {0, e.event_id[2]} : e = parse_log_entity(t, feed[t][i], n)

\* The log and the live view agree: what is stored was shown, with the same
\* node and the same type, although each is parsed by a chain of its own;
\* but for a record that is a live event already and is shown as such, of
\* which the log takes the fields outside "data".
StoredWasShown == \A e \in rows : LogOf(e) \in shown \/ FromLive(e)

\* What a client has got since the server last told it its filter is exactly
\* what that filter promises: the events from there on that match it, in
\* order and once each, except those RingCap newer ones had overwritten.  An
\* event from before a change of the filter that is still in the ring is judged by
\* the new filter.
StreamKeepsPromise ==
    \A c \in Client : conn[c].at = "open" =>
        /\ Elements(conn[c].sent) =
              {i \in conn[c].from .. conn[c].next - 1 :
                  /\ i \notin conn[c].missed
                  /\ matches_filter(ring[i], conn[c].ack.node, conn[c].ack.topics)}
        /\ \A j, k \in DOMAIN conn[c].sent : j < k => conn[c].sent[j] < conn[c].sent[k]
        /\ \A i \in conn[c].missed : i + RingCap <= Len(ring)

\* Every entry that reached the channel is stored or its INSERT fails: no
\* batch waits for more entries to come.
EntriesSettle == <>[](persistQ = <<>> /\ batch = <<>>)

=============================================================================
