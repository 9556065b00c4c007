--------------------------- MODULE LiveFeedProofs ---------------------------
(***************************************************************************)
(* Theorems about LiveFeed.                                                *)
(*                                                                         *)
(* What is stored was shown because whatever is on its way to the table    *)
(* was (Shown), and it was because the two chains of parse_log_entity and  *)
(* parse_kafka_message meet (Agree), unless the record is a live event,    *)
(* which is shown as it is.  What a client was sent is judged by the       *)
(* filter it was told, because the filter in force is that one and the     *)
(* receiver never gets ahead of the ring (InStep).  What is lost is paid   *)
(* for step by step (LossKept): a delivery adds its own id at most, the    *)
(* worker and the process what they give up, and a restart only the ids of *)
(* the records it skips, because it goes back wherever there is a commit.  *)
(***************************************************************************)
EXTENDS LiveFeed, FiniteSetTheorems, WellFoundedInduction, TLAPS

\* Everything stored or on its way was shown, or is of a live event.
Shown ==
    \A e \in rows \cup Elements(persistQ) \cup Elements(batch) :
        LogOf(e) \in shown \/ FromLive(e)

\* A process that is down has no batch and no worker.
Down == proc = "down" => batch = <<>> /\ worker = "ended"

\* The receiver of an open connection.
InStep ==
    \A c \in Client : conn[c].at = "open" =>
        /\ conn[c].from >= 1 /\ conn[c].from <= conn[c].next
        /\ conn[c].next <= Len(ring) + 1
        /\ conn[c].ack = [topics |-> conn[c].topics, node |-> conn[c].node]
        /\ \A i \in conn[c].missed : i < conn[c].next

IInv == TypeOK /\ Down /\ StoredOnce /\ Shown /\ InStep /\ StreamKeepsPromise

USE DEF groupVars

-----------------------------------------------------------------------------
(* Parsing *)

\* The field names of the chains are at most four, and one of those that are
\* there is the first.
LEMMA Least ==
    ASSUME NEW T, T \subseteq 1..4, T # {}
    PROVE  /\ (CHOOSE i \in T : \A j \in T : i <= j) \in T
           /\ \A j \in T : (CHOOSE i \in T : \A k \in T : i <= k) <= j
<1>1. \E i \in T : \A j \in T : i <= j
  <2>1. CASE 1 \in T
    BY <2>1
  <2>2. CASE 1 \notin T /\ 2 \in T
    BY <2>2
  <2>3. CASE 1 \notin T /\ 2 \notin T /\ 3 \in T
    BY <2>3
  <2>4. CASE 1 \notin T /\ 2 \notin T /\ 3 \notin T
    <3>1. \A x \in T : x = 4
      BY <2>4
    <3>2. PICK x \in T : TRUE
      OBVIOUS
    <3> QED
      BY <3>1, <3>2
  <2> QED
    BY <2>1, <2>2, <2>3, <2>4
<1> QED
  BY <1>1

\* A chain of gets returns a string, and its first field if that is there.
LEMMA FirstField ==
    ASSUME NEW r \in Record, NEW names \in Seq(Field), Len(names) \in 1..4
    PROVE  /\ First(r, names) \in Str
           /\ r.field[names[1]] # Absent => First(r, names) = r.field[names[1]]
<1> DEFINE T == {i \in DOMAIN names : r.field[names[i]] # Absent}
           m == CHOOSE i \in T : \A j \in T : i <= j
<1>0. /\ DOMAIN names = 1..Len(names) /\ \A i \in DOMAIN names : names[i] \in Field
      /\ r.field \in [Field -> Str]
  BY DEF Record
<1>1. First(r, names) = IF T = {} THEN Absent ELSE r.field[names[m]]
  BY DEF First
<1>2. T \subseteq 1..4 /\ T \subseteq DOMAIN names
  BY <1>0
<1>3. ASSUME T # {} PROVE m \in T /\ \A j \in T : m <= j
  BY <1>2, <1>3, Least
<1>4. r.field[names[1]] # Absent => 1 \in T
  BY <1>0
<1>5. \A i \in T : i \in Nat /\ i >= 1
  BY <1>2
<1> HIDE DEF T, m
<1>6. First(r, names) \in Str
  <2>1. CASE T = {}
    BY <1>1, <2>1, StringAssumption
  <2>2. CASE T # {}
    <3>1. names[m] \in Field
      BY <1>0, <1>2, <1>3, <2>2
    <3> QED
      BY <1>0, <1>1, <2>2, <3>1
  <2> QED
    BY <2>1, <2>2
<1>7. ASSUME 1 \in T PROVE m = 1
  BY <1>3, <1>5, <1>7
<1>8. r.field[names[1]] # Absent => First(r, names) = r.field[names[1]]
  BY <1>1, <1>4, <1>7
<1> QED
  BY <1>6, <1>8

\* The three chains.
LEMMA Chains ==
    /\ NodeNames \in Seq(Field) /\ Len(NodeNames) = 4 /\ NodeNames[1] = "node_id"
    /\ TypeNames \in Seq(Field) /\ Len(TypeNames) = 4 /\ TypeNames[1] = "event_type"
    /\ <<"id", "event_id">> \in Seq(Field) /\ Len(<<"id", "event_id">>) = 2
    /\ <<"node_id", "agent_uuid">> \in Seq(Field) /\ Len(<<"node_id", "agent_uuid">>) = 2
<1>1. {"node_id", "agent_uuid", "payload.agent_uuid", "payload.node_id", "id", "event_id",
       "event_type", "query_name", "payload.query_name", "payload.event_type"} \subseteq Field
  BY DEF Field
<1>2. NodeNames \in Seq(Field) /\ Len(NodeNames) = 4 /\ NodeNames[1] = "node_id"
  BY <1>1 DEF NodeNames
<1>3. TypeNames \in Seq(Field) /\ Len(TypeNames) = 4 /\ TypeNames[1] = "event_type"
  BY <1>1 DEF TypeNames
<1>4. <<"id", "event_id">> \in Seq(Field) /\ Len(<<"id", "event_id">>) = 2
  BY <1>1
<1>5. <<"node_id", "agent_uuid">> \in Seq(Field) /\ Len(<<"node_id", "agent_uuid">>) = 2
  BY <1>1
<1> QED
  BY <1>2, <1>3, <1>4, <1>5

\* Defaults and conversions return strings.
LEMMA Strings ==
    \A v \in Str, d \in Str : as_str(v) \in Str /\ unwrap_or(v, d) \in Str
  BY StringAssumption DEF as_str, unwrap_or

\* A record becomes an entity or none.
LEMMA EntityType ==
    ASSUME NEW t, NEW r \in Record, NEW n \in Nat
    PROVE  parse_log_entity(t, r, n) \in Entity \cup {NoEntity}
<1> DEFINE node == as_str(First(r, NodeNames))
           id == as_str(First(r, <<"id", "event_id">>))
           type == unwrap_or(as_str(First(r, TypeNames)), Unknown)
<1>1. First(r, TypeNames) \in Str
  BY Chains, FirstField
<1>2. type \in Str
  BY <1>1, Strings, StringAssumption
<1> DEFINE x == IF id \in Uuid THEN <<id, 0>> ELSE <<Absent, n>>
<1>3. x \in (Uuid \cup {Absent}) \X Nat
  OBVIOUS
<1>4. parse_log_entity(t, r, n) =
        IF t \in EventTopics /\ r.json /\ node \in Uuid
        THEN [event_id |-> x, node_id |-> node, event_type |-> type] ELSE NoEntity
  BY DEF parse_log_entity
<1> HIDE DEF x, node, type
<1> QED
  BY <1>2, <1>3, <1>4 DEF Entity

\* Live events.
LEMMA LiveRecord ==
    \A ch \in {"logs", "alerts", "heartbeats"}, n \in Str, ty \in Str :
        [channel |-> ch, node |-> n, type |-> ty] \in LiveEvent
  BY DEF LiveEvent

\* A record becomes a live event or none.
LEMMA LiveType ==
    ASSUME NEW t, NEW r \in Record
    PROVE  parse_kafka_message(t, r) \in LiveEvent \cup {NoLive}
<1>1. First(r, NodeNames) \in Str /\ First(r, TypeNames) \in Str
  BY Chains, FirstField
<1>2. First(r, <<"node_id", "agent_uuid">>) \in Str
  <2> DEFINE names == <<"node_id", "agent_uuid">>
  <2>1. names \in Seq(Field) /\ Len(names) \in 1..4
    BY Chains
  <2> HIDE DEF names
  <2>2. First(r, names) \in Str
    BY <2>1, FirstField
  <2> QED
    BY <2>2 DEF names
<1>3. /\ unwrap_or(as_str(First(r, NodeNames)), Unknown) \in Str
      /\ unwrap_or(as_str(First(r, TypeNames)), Unknown) \in Str
      /\ unwrap_or(as_str(First(r, <<"node_id", "agent_uuid">>)), "") \in Str
  BY <1>1, <1>2, Strings, StringAssumption
<1>4. r.field["data.node_id"] \in Str /\ r.field["data.event_type"] \in Str
  BY DEF Record, Field
<1>5. CASE r.live # Absent
  <2>1. r.live \in {"logs", "alerts", "heartbeats"}
    BY <1>5 DEF Record
  <2>2. parse_kafka_message(t, r) =
           [channel |-> r.live, node |-> r.field["data.node_id"],
            type |-> IF r.live = "logs" THEN r.field["data.event_type"] ELSE Absent]
    BY <1>5 DEF parse_kafka_message
  <2> QED
    <3>1. (IF r.live = "logs" THEN r.field["data.event_type"] ELSE Absent) \in Str
      BY <1>4, StringAssumption
    <3> QED
      BY <1>4, <2>1, <2>2, <3>1, LiveRecord
<1>6. CASE r.live = Absent /\ r.json /\ t \in EventTopics
  <2>1. parse_kafka_message(t, r) =
           [channel |-> "logs", node |-> unwrap_or(as_str(First(r, NodeNames)), Unknown),
            type |-> unwrap_or(as_str(First(r, TypeNames)), Unknown)]
    BY <1>6 DEF parse_kafka_message, EventTopics
  <2> QED
    BY <1>3, <2>1, LiveRecord
<1>7. CASE r.live = Absent /\ ~(r.json /\ t \in EventTopics)
           /\ r.json /\ t \in {"aigis.alerts", "aigis.health"}
  <2>1. parse_kafka_message(t, r) =
           [channel |-> IF t = "aigis.alerts" THEN "alerts" ELSE "heartbeats",
            node |-> unwrap_or(as_str(First(r, <<"node_id", "agent_uuid">>)), ""),
            type |-> Absent]
    BY <1>7 DEF parse_kafka_message, EventTopics
  <2> QED
    BY <1>3, <2>1, StringAssumption, LiveRecord
<1>8. CASE r.live = Absent /\ ~(r.json /\ t \in EventTopics)
           /\ ~(r.json /\ t \in {"aigis.alerts", "aigis.health"})
  BY <1>8 DEF parse_kafka_message
<1> QED
  BY <1>5, <1>6, <1>7, <1>8

\* The chains meet: what a record that is not a live event is stored as is
\* what it is shown as.
LEMMA Agree ==
    ASSUME NEW t, NEW r \in Record, NEW n \in Nat, r.live = Absent,
           parse_log_entity(t, r, n) # NoEntity
    PROVE  /\ parse_kafka_message(t, r) = LogOf(parse_log_entity(t, r, n))
           /\ parse_kafka_message(t, r) # NoLive
<1> DEFINE node == as_str(First(r, NodeNames))
           type == unwrap_or(as_str(First(r, TypeNames)), Unknown)
           e == parse_log_entity(t, r, n)
<1>1. t \in EventTopics /\ r.json /\ node \in Uuid
  BY DEF parse_log_entity
<1>2. e.node_id = node /\ e.event_type = type
  BY <1>1 DEF parse_log_entity
<1>3. node # Absent
  BY <1>1, StringAssumption
<1> HIDE DEF e
<1>4. parse_kafka_message(t, r) =
         [channel |-> "logs", node |-> unwrap_or(node, Unknown), type |-> type]
  BY <1>1 DEF parse_kafka_message, EventTopics
<1>5. unwrap_or(node, Unknown) = node
  BY <1>3 DEF unwrap_or
<1> QED
  BY <1>2, <1>4, <1>5 DEF LogOf, NoLive, Absent, e

\* A live event is shown as it is.
LEMMA LiveShown ==
    ASSUME NEW t, NEW r \in Record, r.live # Absent
    PROVE  parse_kafka_message(t, r) # NoLive
<1>1. parse_kafka_message(t, r).channel = r.live
  BY DEF parse_kafka_message
<1> QED
  BY <1>1 DEF NoLive

\* The id of an entity has the number it was parsed with, or 0.
LEMMA IdNumber ==
    ASSUME NEW t, NEW r, NEW n, parse_log_entity(t, r, n) # NoEntity
    PROVE  \E m \in {0, parse_log_entity(t, r, n).event_id[2]} :
              parse_log_entity(t, r, n) = parse_log_entity(t, r, m)
<1> DEFINE id == as_str(First(r, <<"id", "event_id">>))
           x(k) == IF id \in Uuid THEN <<id, 0>> ELSE <<Absent, k>>
           e(k) == [event_id |-> x(k), node_id |-> as_str(First(r, NodeNames)),
                    event_type |-> unwrap_or(as_str(First(r, TypeNames)), Unknown)]
<1>1. \A k : parse_log_entity(t, r, k) = e(k)
  BY DEF parse_log_entity
<1>2. e(n).event_id = x(n)
  OBVIOUS
<1>3. x(n) = x(x(n)[2])
  OBVIOUS
<1> QED
  BY <1>1, <1>2, <1>3

-----------------------------------------------------------------------------
(* Types *)

\* What Deliver reads is a record of the topic.
LEMMA Delivered ==
    ASSUME TypeOK, NEW t \in Topic, Deliver(t)
    PROVE  pos[t] + 1 \in DOMAIN feed[t] /\ feed[t][pos[t] + 1] \in Record
<1>1. feed \in Feeds /\ pos[t] \in Nat /\ pos[t] < Len(feed[t])
  BY DEF TypeOK, ConsumerTypes, Deliver
<1>2. feed[t] \in Seq(Record)
  BY <1>1, FeedAssumption
<1> QED
  BY <1>1, <1>2

\* The consumer loop keeps the types.
LEMMA ConsumerKeepsTypes ==
    ASSUME TypeOK, ConsumerNext, UNCHANGED feed
    PROVE  TypeOK'
<1>0. ConsumerTypes /\ SinkTypes /\ RingTypes /\ conn \in [Client -> Connection]
  BY DEF TypeOK
<1>1. ASSUME NEW t \in Topic, Deliver(t) PROVE TypeOK'
  <2> DEFINE r == feed[t][pos[t] + 1]
             live == parse_kafka_message(t, r)
             e == parse_log_entity(t, r, fresh + 1)
  <2>1. r \in Record
    BY <1>1, Delivered
  <2>2. fresh \in Nat /\ fresh + 1 \in Nat /\ dropped \in Nat
    BY <1>0 DEF ConsumerTypes, RingTypes
  <2>3. live \in LiveEvent \cup {NoLive} /\ e \in Entity \cup {NoEntity}
    BY <2>1, <2>2, LiveType, EntityType
  <2>4. /\ ring' = IF live = NoLive THEN ring ELSE Append(ring, live)
        /\ shown' = shown \cup ({live} \ {NoLive})
        /\ Persist(e)
        /\ fresh' = IF e.event_id = <<Absent, fresh + 1>> THEN fresh + 1 ELSE fresh
        /\ pos' = [pos EXCEPT ![t] = @ + 1] /\ begun' = begun \cup {t}
        /\ UNCHANGED <<committed, skipped, proc, reading, batch, worker, last, rows, conn,
                       failures, stops>>
    BY <1>1 DEF Deliver
  <2> HIDE DEF r, live, e
  <2>5. ConsumerTypes'
    BY <1>0, <2>2, <2>4 DEF ConsumerTypes
  <2>6. persistQ' \in Seq(Entity) /\ Len(persistQ') <= PersistCap /\ dropped' \in Nat
    <3>1. persistQ \in Seq(Entity) /\ Len(persistQ) <= PersistCap /\ PersistCap \in Nat
      BY <1>0, FeedBounds DEF SinkTypes
    <3> QED
      BY <2>2, <2>3, <2>4, <3>1 DEF Persist
  <2>7. SinkTypes'
    BY <1>0, <2>4, <2>6 DEF SinkTypes
  <2>8. RingTypes'
    <3>1. ring \in Seq(LiveEvent) /\ shown \subseteq LiveEvent
      BY <1>0 DEF RingTypes
    <3>2. ring' \in Seq(LiveEvent) /\ shown' \subseteq LiveEvent
      BY <2>3, <2>4, <3>1
    <3> QED
      BY <1>0, <2>4, <2>6, <3>2 DEF RingTypes
  <2> QED
    BY <1>0, <2>4, <2>5, <2>7, <2>8 DEF TypeOK
<1>2. CASE AutoCommit \/ LoopEnds
  <2>0. committed' \in [Topic -> Nat]
    <3>1. Offsets \in [Topic -> Nat]
      BY <1>0 DEF Offsets, ConsumerTypes
    <3> QED
      BY <1>0, <1>2, <3>1 DEF ConsumerTypes, AutoCommit, LoopEnds
  <2>1. ConsumerTypes'
    BY <1>0, <1>2, <2>0 DEF ConsumerTypes, AutoCommit, LoopEnds
  <2>2. SinkTypes' /\ RingTypes' /\ conn' \in [Client -> Connection]
    BY <1>0, <1>2 DEF SinkTypes, RingTypes, AutoCommit, LoopEnds, sinkVars
  <2> QED
    BY <2>1, <2>2 DEF TypeOK
<1> QED
  BY <1>1, <1>2 DEF ConsumerNext

\* What is inserted are entities of the batch.
LEMMA InsertTypes == SinkTypes => insert_batch(batch) \subseteq Entity
  BY DEF SinkTypes, insert_batch

\* So does the persistence worker.
LEMMA WorkerKeepsTypes ==
    ASSUME TypeOK, WorkerNext, UNCHANGED feed
    PROVE  TypeOK'
<1>0. ConsumerTypes /\ SinkTypes /\ RingTypes /\ conn \in [Client -> Connection]
  BY DEF TypeOK
<1>b. PersistCap \in Nat /\ BatchMax \in Nat /\ BatchMax > 0
  BY FeedBounds
<1>e. <<>> \in Seq(Entity) /\ Len(<<>>) = 0
  OBVIOUS
<1>c. ConsumerTypes' /\ conn' \in [Client -> Connection]
  BY <1>0 DEF WorkerNext, WorkerTake, FlushTick, WorkerStops, Insert, InsertFails,
              AfterInsert, ConsumerTypes
<1>r. RingTypes'
  <2>1. Len(persistQ) \in Nat /\ Len(batch) \in Nat /\ dropped \in Nat
    BY <1>0 DEF SinkTypes, RingTypes
  <2>2. dropped' \in Nat
    <3>1. CASE WorkerTake \/ FlushTick \/ WorkerStops
      BY <2>1, <3>1 DEF WorkerTake, FlushTick, WorkerStops
    <3>2. CASE Insert
      BY <2>1, <3>2 DEF Insert, AfterInsert
    <3>3. CASE InsertFails
      <4> DEFINE n == Len(batch)
                 m == IF last THEN Len(persistQ) ELSE 0
      <4>1. dropped' = dropped + n + m
        BY <3>3 DEF InsertFails, AfterInsert
      <4>2. n \in Nat /\ m \in Nat
        BY <2>1
      <4> HIDE DEF n, m
      <4> QED
        BY <2>1, <4>1, <4>2
    <3> QED
      BY <3>1, <3>2, <3>3 DEF WorkerNext
  <2>3. UNCHANGED <<ring, shown, stops>>
    BY DEF WorkerNext, WorkerTake, FlushTick, WorkerStops, Insert, InsertFails, AfterInsert
  <2>4. failures' = failures \/ failures' = failures + 1
    BY DEF WorkerNext, WorkerTake, FlushTick, WorkerStops, Insert, InsertFails
  <2> QED
    BY <1>0, <2>2, <2>3, <2>4 DEF RingTypes
<1>1. CASE WorkerTake
  <2>1. /\ persistQ \in Seq(Entity) /\ persistQ # <<>> /\ Len(persistQ) <= PersistCap
        /\ batch \in Seq(Entity) /\ Len(batch) < BatchMax
    BY <1>0, <1>1 DEF SinkTypes, WorkerTake
  <2>2. /\ Head(persistQ) \in Entity /\ Tail(persistQ) \in Seq(Entity)
        /\ Len(Tail(persistQ)) <= PersistCap
    BY <1>b, <2>1
  <2>3. /\ batch' = Append(batch, Head(persistQ)) /\ persistQ' = Tail(persistQ)
        /\ worker' = IF Len(batch') >= BatchMax THEN "insert" ELSE "recv"
        /\ UNCHANGED <<last, rows>>
    BY <1>1 DEF WorkerTake
  <2>4. batch' \in Seq(Entity) /\ Len(batch') <= BatchMax /\ Len(batch') \in Nat
    BY <1>b, <2>1, <2>2, <2>3
  <2>5. SinkTypes'
    BY <1>0, <1>b, <2>2, <2>3, <2>4 DEF SinkTypes
  <2> QED
    BY <1>c, <1>r, <2>5 DEF TypeOK
<1>2. CASE FlushTick
  <2>1. SinkTypes'
    BY <1>0, <1>2 DEF SinkTypes, FlushTick
  <2> QED
    BY <1>c, <1>r, <2>1 DEF TypeOK
<1>3. CASE WorkerStops
  <2>1. SinkTypes'
    BY <1>0, <1>3, <1>b, <1>e DEF SinkTypes, WorkerStops
  <2> QED
    BY <1>c, <1>r, <2>1 DEF TypeOK
<1>4. CASE Insert \/ InsertFails
  <2>1. rows' \subseteq Entity
    BY <1>0, <1>4, InsertTypes DEF Insert, InsertFails, SinkTypes
  <2>2. PICK lost : AfterInsert(lost)
    BY <1>4 DEF Insert, InsertFails
  <2>3. SinkTypes'
    <3>1. batch' \in Seq(Entity) /\ Len(batch') < BatchMax /\ Len(batch') <= BatchMax
      BY <1>b, <1>e, <2>2 DEF AfterInsert
    <3>2. persistQ' \in Seq(Entity) /\ Len(persistQ') <= PersistCap
      BY <1>0, <1>b, <1>e, <2>2 DEF SinkTypes, AfterInsert
    <3>3. worker' \in {"recv", "insert", "ended"} /\ last' \in BOOLEAN
      BY <2>2 DEF AfterInsert
    <3> QED
      BY <2>1, <3>1, <3>2, <3>3 DEF SinkTypes
  <2> QED
    BY <1>c, <1>r, <2>3 DEF TypeOK
<1> QED
  BY <1>1, <1>2, <1>3, <1>4 DEF WorkerNext

\* Connections before and after their lives.
LEMMA Connections == New \in Connection /\ Closed \in Connection
<1>0. Absent \in Str
  BY StringAssumption
<1>1. <<>> \in Seq(Str) /\ <<>> \in Seq(Nat) /\ {} \in SUBSET Nat
  OBVIOUS
<1>2. [topics |-> <<>>, node |-> Absent] \in Filter
  BY <1>0, <1>1 DEF Filter
<1>3. New \in Connection
  BY <1>0, <1>1, <1>2 DEF New, Connection
<1>4. Closed = [New EXCEPT !.at = "closed"]
  BY DEF Closed
<1> HIDE DEF New
<1> QED
  BY <1>3, <1>4 DEF Connection

\* So do the starts and ends of the process.
LEMMA ProcessKeepsTypes ==
    ASSUME TypeOK, Down, ProcessNext, UNCHANGED feed
    PROVE  TypeOK'
<1>0. ConsumerTypes /\ SinkTypes /\ RingTypes /\ conn \in [Client -> Connection]
  BY DEF TypeOK
<1>b. PersistCap \in Nat /\ BatchMax \in Nat /\ BatchMax > 0
  BY FeedBounds
<1>e. <<>> \in Seq(Entity) /\ Len(<<>>) = 0 /\ <<>> \in Seq(LiveEvent)
  OBVIOUS
<1>1. CASE CtrlC
  <2>1. ConsumerTypes'
    BY <1>0, <1>1 DEF ConsumerTypes, CtrlC
  <2>2. SinkTypes' /\ RingTypes' /\ conn' \in [Client -> Connection]
    BY <1>0, <1>1 DEF SinkTypes, RingTypes, CtrlC, sinkVars
  <2> QED
    BY <2>1, <2>2 DEF TypeOK
<1>2. CASE Exit
  <2>1. ConsumerTypes'
    BY <1>0, <1>2 DEF ConsumerTypes, Exit
  <2>2. SinkTypes'
    <3>1. /\ persistQ' = <<>> /\ batch' = <<>> /\ worker' = "ended" /\ last' = FALSE
          /\ rows' = rows
      BY <1>2 DEF Exit
    <3>2. persistQ' \in Seq(Entity) /\ Len(persistQ') <= PersistCap
      BY <1>b, <1>e, <3>1
    <3>3. batch' \in Seq(Entity) /\ Len(batch') <= BatchMax
      BY <1>b, <1>e, <3>1
    <3> QED
      BY <1>0, <3>1, <3>2, <3>3 DEF SinkTypes
  <2>3. RingTypes'
    <3>1. Len(persistQ) \in Nat /\ Len(batch) \in Nat /\ dropped \in Nat /\ stops \in Nat
      BY <1>0 DEF SinkTypes, RingTypes
    <3>2. dropped' \in Nat /\ stops' \in Nat
      BY <1>2, <3>1 DEF Exit
    <3> QED
      BY <1>0, <1>2, <1>e, <3>2 DEF RingTypes, Exit
  <2>4. conn' \in [Client -> Connection]
    BY <1>0, <1>2, Connections DEF Exit
  <2> QED
    BY <2>1, <2>2, <2>3, <2>4 DEF TypeOK
<1>3. CASE Start
  <2>1. ConsumerTypes'
    <3>1. CASE Resume
      <4>1. \A t \in Topic : StartsAt(t) \subseteq Nat
        BY <1>0, FeedAssumption DEF StartsAt, ConsumerTypes
      <4>2. PICK p \in [Topic -> UNION {StartsAt(t) : t \in Topic}] :
               /\ \A t \in Topic : p[t] \in StartsAt(t)
               /\ pos' = p /\ begun' = {}
               /\ skipped' = skipped \cup (UNION {{t} \X (pos[t] + 1 .. p[t]) :
                                    t \in {u \in Topic : committed[u] = NoOffset}})
        BY <3>1 DEF Resume
      <4>3. p \in [Topic -> Nat] /\ \A t \in Topic : pos[t] + 1 .. p[t] \subseteq Nat
        BY <1>0, <4>1, <4>2 DEF ConsumerTypes
      <4>4. skipped' \subseteq Topic \X Nat
        BY <1>0, <4>2, <4>3 DEF ConsumerTypes
      <4> QED
        BY <1>0, <1>3, <4>2, <4>3, <4>4 DEF ConsumerTypes, Start
    <3>2. CASE UNCHANGED <<pos, begun, skipped, reading>>
      BY <1>0, <1>3, <3>2 DEF ConsumerTypes, Start
    <3> QED
      BY <1>3, <3>1, <3>2 DEF Start
  <2>2. RingTypes' /\ conn' \in [Client -> Connection]
    BY <1>0, <1>3 DEF RingTypes, Start
  <2>3. SinkTypes'
    <3>1. batch = <<>> /\ Len(batch) < BatchMax
      BY <1>3, <1>b, <1>e DEF Start, Down
    <3>2. worker' \in {"recv", "ended"} /\ UNCHANGED <<persistQ, batch, last, rows>>
      BY <1>3 DEF Start, Down
    <3> QED
      BY <1>0, <3>1, <3>2 DEF SinkTypes
  <2> QED
    BY <2>1, <2>2, <2>3 DEF TypeOK
<1> QED
  BY <1>1, <1>2, <1>3 DEF ProcessNext

\* The topics a client asks for.
LEMMA TopicsType ==
    ASSUME NEW q \in Query
    PROVE  parse_topics(q.topics) \in Seq(Str) /\ q.node \in Str
<1>1. q.node \in Str
  BY ClientAssumption
<1>2. CASE q.topics = NoTopics
  <2>1. parse_topics(q.topics) = <<"logs", "alerts", "heartbeats">>
    BY <1>2 DEF parse_topics
  <2>2. {"logs", "alerts", "heartbeats"} \subseteq Str
    BY StringAssumption
  <2> QED
    BY <1>1, <2>1, <2>2
<1>3. CASE q.topics # NoTopics
  <2> DEFINE ts == q.topics
  <2>1. ts \in Seq(DOMAIN LowerCase) /\ LowerCase \in [DOMAIN LowerCase -> Str]
    BY <1>3, ClientAssumption
  <2>2. parse_topics(q.topics) = [i \in DOMAIN ts |-> LowerCase[ts[i]]]
    BY <1>3 DEF parse_topics
  <2>3. \A i \in DOMAIN ts : LowerCase[ts[i]] \in Str
    BY <2>1
  <2>4. DOMAIN ts = 1..Len(ts) /\ Len(ts) \in Nat
    BY <2>1
  <2> HIDE DEF ts
  <2> QED
    BY <1>1, <2>2, <2>3, <2>4
<1> QED
  BY <1>2, <1>3

\* A step of a connection's task changes this connection only.
Turns(c, k) == k \in Connection /\ conn' = [conn EXCEPT ![c] = k]

\* Its steps, and what they make of the connection.
LEMMA SocketSteps ==
    ASSUME TypeOK, NEW c \in Client
    PROVE  /\ \A q \in Query : Connect(c, q) =>
                 Turns(c, [New EXCEPT !.at = "open", !.next = Len(ring) + 1,
                                      !.topics = parse_topics(q.topics), !.node = q.node,
                                      !.ack = [topics |-> parse_topics(q.topics),
                                               node |-> q.node],
                                      !.from = Len(ring) + 1])
           /\ Forward(c) =>
                 Turns(c, [conn[c] EXCEPT
                             !.next = conn[c].next + 1,
                             !.sent = IF matches_filter(ring[conn[c].next], conn[c].node,
                                                        conn[c].topics)
                                      THEN Append(conn[c].sent, conn[c].next)
                                      ELSE conn[c].sent])
           /\ Lagged(c) =>
                 Turns(c, [conn[c] EXCEPT
                             !.next = Len(ring) + 1 - RingCap,
                             !.missed = conn[c].missed
                                          \cup (conn[c].next .. Len(ring) - RingCap)])
           /\ \A m \in Command : Subscribe(c, m) =>
                 LET topics == IF m.topics = NoTopics THEN conn[c].topics ELSE m.topics
                 IN  Turns(c, [conn[c] EXCEPT
                                 !.topics = topics, !.node = m.node,
                                 !.asked = conn[c].asked + 1,
                                 !.ack = [topics |-> topics, node |-> m.node],
                                 !.from = conn[c].next, !.sent = <<>>])
           /\ Close(c) => Turns(c, Closed)
<1>0. conn \in [Client -> Connection] /\ conn[c] \in Connection
  BY DEF TypeOK
<1>1. Len(ring) \in Nat /\ RingCap \in Nat /\ RingCap > 0
  BY FeedBounds DEF TypeOK, RingTypes
<1>2. /\ conn[c].next \in Nat /\ conn[c].topics \in Seq(Str) /\ conn[c].node \in Str
      /\ conn[c].asked \in Nat /\ conn[c].sent \in Seq(Nat) /\ conn[c].missed \in SUBSET Nat
      /\ conn[c].from \in Nat /\ conn[c].ack \in Filter
  BY <1>0 DEF Connection
<1>3. ASSUME NEW q \in Query, Connect(c, q)
      PROVE  Turns(c, [New EXCEPT !.at = "open", !.next = Len(ring) + 1,
                                  !.topics = parse_topics(q.topics), !.node = q.node,
                                  !.ack = [topics |-> parse_topics(q.topics),
                                           node |-> q.node],
                                  !.from = Len(ring) + 1])
  <2>1. parse_topics(q.topics) \in Seq(Str) /\ q.node \in Str
    BY TopicsType
  <2>2. [topics |-> parse_topics(q.topics), node |-> q.node] \in Filter
    BY <2>1 DEF Filter
  <2>3. New \in Connection /\ Len(ring) + 1 \in Nat
    BY <1>1, Connections
  <2>4. [New EXCEPT !.at = "open", !.next = Len(ring) + 1,
                    !.topics = parse_topics(q.topics), !.node = q.node,
                    !.ack = [topics |-> parse_topics(q.topics), node |-> q.node],
                    !.from = Len(ring) + 1] \in Connection
    BY <2>1, <2>2, <2>3 DEF Connection
  <2> QED
    BY <1>3, <2>4 DEF Connect, Turns
<1>4. ASSUME Forward(c)
      PROVE  Turns(c, [conn[c] EXCEPT
                         !.next = conn[c].next + 1,
                         !.sent = IF matches_filter(ring[conn[c].next], conn[c].node,
                                                    conn[c].topics)
                                  THEN Append(conn[c].sent, conn[c].next)
                                  ELSE conn[c].sent])
  <2> DEFINE s == IF matches_filter(ring[conn[c].next], conn[c].node, conn[c].topics)
                  THEN Append(conn[c].sent, conn[c].next) ELSE conn[c].sent
             k == [conn[c] EXCEPT !.next = conn[c].next + 1, !.sent = s]
  <2>1. s \in Seq(Nat) /\ conn[c].next + 1 \in Nat
    BY <1>2
  <2>2. conn' = [conn EXCEPT ![c] = k]
    BY <1>0, <1>4 DEF Forward
  <2> HIDE DEF s
  <2>3. k \in Connection
    BY <1>0, <2>1 DEF Connection
  <2> QED
    BY <2>2, <2>3 DEF Turns, s
<1>5. ASSUME Lagged(c)
      PROVE  Turns(c, [conn[c] EXCEPT
                         !.next = Len(ring) + 1 - RingCap,
                         !.missed = conn[c].missed
                                      \cup (conn[c].next .. Len(ring) - RingCap)])
  <2> DEFINE oldest == Len(ring) + 1 - RingCap
             s == conn[c].missed \cup (conn[c].next .. oldest - 1)
             k == [conn[c] EXCEPT !.next = oldest, !.missed = s]
  <2>1. oldest \in Nat /\ oldest - 1 = Len(ring) - RingCap
    BY <1>1, <1>2, <1>5 DEF Lagged, Behind
  <2>2. s \in SUBSET Nat
    BY <1>2, <2>1
  <2>3. conn' = [conn EXCEPT ![c] = k]
    BY <1>0, <1>5 DEF Lagged
  <2>4. s = conn[c].missed \cup (conn[c].next .. Len(ring) - RingCap)
    BY <2>1
  <2> HIDE DEF s
  <2>5. k \in Connection
    BY <1>0, <2>1, <2>2 DEF Connection
  <2> QED
    BY <2>3, <2>4, <2>5 DEF Turns
<1>6. ASSUME NEW m \in Command, Subscribe(c, m)
      PROVE  LET topics == IF m.topics = NoTopics THEN conn[c].topics ELSE m.topics
             IN  Turns(c, [conn[c] EXCEPT
                             !.topics = topics, !.node = m.node,
                             !.asked = conn[c].asked + 1,
                             !.ack = [topics |-> topics, node |-> m.node],
                             !.from = conn[c].next, !.sent = <<>>])
  <2> DEFINE topics == IF m.topics = NoTopics THEN conn[c].topics ELSE m.topics
             k == [conn[c] EXCEPT !.topics = topics, !.node = m.node,
                                  !.asked = conn[c].asked + 1,
                                  !.ack = [topics |-> topics, node |-> m.node],
                                  !.from = conn[c].next, !.sent = <<>>]
  <2>1. topics \in Seq(Str) /\ m.node \in Str
    BY <1>2, ClientAssumption
  <2>2. conn' = [conn EXCEPT ![c] = k]
    BY <1>0, <1>6 DEF Subscribe
  <2> HIDE DEF topics
  <2>3. [topics |-> topics, node |-> m.node] \in Filter
    BY <2>1 DEF Filter
  <2>4. <<>> \in Seq(Nat) /\ conn[c].asked + 1 \in Nat
    BY <1>2
  <2>5. k \in Connection
    BY <1>0, <1>2, <2>1, <2>3, <2>4 DEF Connection
  <2> QED
    BY <2>2, <2>5 DEF Turns, topics
<1>7. Close(c) => Turns(c, Closed)
  BY Connections DEF Close, Turns
<1> QED
  BY <1>3, <1>4, <1>5, <1>6, <1>7

\* A step of a connection's task makes it another connection and leaves the
\* rest alone.
LEMMA SocketTurns ==
    ASSUME TypeOK, SocketNext
    PROVE  /\ \E c \in Client : \E k : Turns(c, k)
           /\ UNCHANGED <<groupVars, fresh, proc, reading, sinkVars, ring, shown,
                          dropped, failures, stops>>
<1>1. PICK c \in Client : \/ \E q \in Query : Connect(c, q)
                          \/ \E m \in Command : Subscribe(c, m)
                          \/ Forward(c) \/ Lagged(c) \/ Close(c)
  BY DEF SocketNext
<1>2. \E k : Turns(c, k)
  BY <1>1, SocketSteps
<1>3. UNCHANGED <<groupVars, fresh, proc, reading, sinkVars, ring, shown, dropped,
                  failures, stops>>
  BY <1>1 DEF Connect, Subscribe, Forward, Lagged, Close
<1> QED
  BY <1>2, <1>3

\* Every step keeps the types.
LEMMA NextTypes == TypeOK /\ Down /\ [Next]_vars => TypeOK'
<1> SUFFICES ASSUME TypeOK, Down, [Next]_vars PROVE TypeOK'
  OBVIOUS
<1>0. ConsumerTypes /\ SinkTypes /\ RingTypes /\ conn \in [Client -> Connection]
  BY DEF TypeOK
<1>1. ASSUME SocketNext, UNCHANGED feed PROVE TypeOK'
  <2>1. conn' \in [Client -> Connection]
    BY <1>0, <1>1, SocketTurns DEF Turns
  <2>2. ConsumerTypes' /\ SinkTypes' /\ RingTypes'
    <3>1. UNCHANGED <<groupVars, fresh, proc, reading, sinkVars, ring, shown,
                      dropped, failures, stops>>
      BY <1>1, SocketTurns
    <3> QED
      BY <1>0, <1>1, <3>1 DEF ConsumerTypes, SinkTypes, RingTypes, sinkVars
  <2> QED
    BY <2>1, <2>2 DEF TypeOK
<1>2. CASE UNCHANGED vars
  BY <1>0, <1>2 DEF vars, TypeOK, ConsumerTypes, SinkTypes, RingTypes, sinkVars
<1> QED
  BY <1>1, <1>2, ConsumerKeepsTypes, WorkerKeepsTypes, ProcessKeepsTypes DEF Next, Step

\* The batch and the worker end with the process.
LEMMA NextDown == TypeOK /\ Down /\ [Next]_vars => Down'
<1> SUFFICES ASSUME TypeOK, Down, [Next]_vars PROVE Down'
  OBVIOUS
<1> USE DEF Down
<1>1. CASE ConsumerNext
  BY <1>1 DEF ConsumerNext, Deliver, AutoCommit, LoopEnds, sinkVars
<1>2. CASE WorkerNext
  BY <1>2 DEF WorkerNext, WorkerTake, FlushTick, WorkerStops, Insert, InsertFails,
              AfterInsert
<1>3. CASE ProcessNext
  BY <1>3 DEF ProcessNext, CtrlC, Exit, Start, sinkVars
<1>4. CASE SocketNext
  BY <1>4, SocketTurns DEF sinkVars
<1>5. CASE UNCHANGED vars
  BY <1>5 DEF vars, sinkVars
<1> QED
  BY <1>1, <1>2, <1>3, <1>4, <1>5 DEF Next, Step

-----------------------------------------------------------------------------
(* Rows *)

\* Only an INSERT changes the table.
LEMMA RowsChange ==
    ASSUME TypeOK, [Next]_vars
    PROVE  rows' = rows \/ rows' = insert_batch(batch)
<1>1. CASE ConsumerNext \/ WorkerNext \/ ProcessNext
  BY <1>1 DEF ConsumerNext, Deliver, AutoCommit, LoopEnds, WorkerNext, WorkerTake,
              FlushTick, WorkerStops, Insert, InsertFails, ProcessNext, CtrlC, Exit, Start,
              sinkVars
<1>2. CASE SocketNext
  BY <1>2, SocketTurns DEF sinkVars
<1>3. CASE UNCHANGED vars
  BY <1>3 DEF vars, sinkVars
<1> QED
  BY <1>1, <1>2, <1>3 DEF Next, Step

\* It keeps what is there and adds what the batch has.
LEMMA InsertKeeps ==
    rows \subseteq insert_batch(batch) /\ insert_batch(batch) \subseteq rows \cup Elements(batch)
  BY DEF insert_batch, Elements

\* It adds no id twice.
LEMMA InsertOnce ==
    ASSUME TypeOK, StoredOnce
    PROVE  \A e, f \in insert_batch(batch) : e.event_id = f.event_id => e = f
<1> DEFINE K == {k \in DOMAIN batch :
                   /\ batch[k].event_id \notin Stored(rows)
                   /\ \A j \in DOMAIN batch : j < k => batch[j].event_id # batch[k].event_id}
<1>1. insert_batch(batch) = rows \cup {batch[i] : i \in K}
  BY DEF insert_batch
<1>2. K \subseteq Nat
  BY DEF TypeOK, SinkTypes
<1>3. \A e \in rows : e.event_id \in Stored(rows)
  BY DEF Stored
<1>4. \A i \in K : batch[i].event_id \notin Stored(rows)
  OBVIOUS
<1>5. \A i, j \in K : batch[i].event_id = batch[j].event_id => i = j
  BY <1>2
<1> HIDE DEF K
<1> QED
  BY <1>1, <1>3, <1>4, <1>5 DEF StoredOnce

\* Ids stay unique.
LEMMA NextOnce == TypeOK /\ StoredOnce /\ [Next]_vars => StoredOnce'
<1> SUFFICES ASSUME TypeOK, StoredOnce, [Next]_vars PROVE StoredOnce'
  OBVIOUS
<1>1. CASE rows' = rows
  BY <1>1 DEF StoredOnce
<1>2. CASE rows' = insert_batch(batch)
  BY <1>2, InsertOnce DEF StoredOnce
<1> QED
  BY <1>1, <1>2, RowsChange

\* The elements of a queue after it has grown or shrunk.
LEMMA QueueElements ==
    ASSUME NEW S, NEW q \in Seq(S), NEW e \in S
    PROVE  /\ Elements(Append(q, e)) = Elements(q) \cup {e}
           /\ Elements(<<>>) = {}
           /\ q # <<>> => Head(q) \in Elements(q) /\ Elements(Tail(q)) \subseteq Elements(q)
<1>1. Elements(Append(q, e)) = Elements(q) \cup {e}
  <2>1. /\ DOMAIN Append(q, e) = DOMAIN q \cup {Len(q) + 1} /\ Append(q, e)[Len(q) + 1] = e
        /\ \A i \in DOMAIN q : Append(q, e)[i] = q[i]
    OBVIOUS
  <2> QED
    BY <2>1 DEF Elements
<1>2. Elements(<<>>) = {}
  BY DEF Elements
<1>3. ASSUME q # <<>>
      PROVE  Head(q) \in Elements(q) /\ Elements(Tail(q)) \subseteq Elements(q)
  <2>1. /\ Head(q) = q[1] /\ 1 \in DOMAIN q
        /\ \A i \in DOMAIN Tail(q) : Tail(q)[i] = q[i + 1] /\ i + 1 \in DOMAIN q
    BY <1>3
  <2> QED
    BY <2>1 DEF Elements
<1> QED
  BY <1>1, <1>2, <1>3

\* Entries move from the channel to the batch and from there to the table.
LEMMA WorkerMoves ==
    ASSUME TypeOK, WorkerNext
    PROVE  rows' \cup Elements(persistQ') \cup Elements(batch')
             \subseteq rows \cup Elements(persistQ) \cup Elements(batch)
<1>0. persistQ \in Seq(Entity) /\ batch \in Seq(Entity)
  BY DEF TypeOK, SinkTypes
<1>1. CASE WorkerTake
  <2>1. /\ persistQ # <<>> /\ rows' = rows
        /\ batch' = Append(batch, Head(persistQ)) /\ persistQ' = Tail(persistQ)
    BY <1>1 DEF WorkerTake
  <2>2. Head(persistQ) \in Entity
    BY <1>0, <2>1
  <2>3. Elements(batch') = Elements(batch) \cup {Head(persistQ)}
    BY <1>0, <2>1, <2>2, QueueElements
  <2>4. Head(persistQ) \in Elements(persistQ) /\ Elements(persistQ') \subseteq Elements(persistQ)
    BY <1>0, <2>1, <2>2, QueueElements
  <2> QED
    BY <2>1, <2>3, <2>4
<1>2. CASE FlushTick
  BY <1>2 DEF FlushTick
<1>3. Elements(<<>>) = {}
  BY DEF Elements
<1>4. CASE WorkerStops
  <2>1. rows' = rows /\ batch' = batch /\ persistQ' \in {persistQ, <<>>}
    BY <1>4 DEF WorkerStops
  <2> QED
    BY <1>3, <2>1
<1>5. CASE Insert \/ InsertFails
  <2>1. batch' = <<>> /\ persistQ' \in {persistQ, <<>>}
    BY <1>5 DEF Insert, InsertFails, AfterInsert
  <2>2. rows' \subseteq rows \cup Elements(batch)
    BY <1>5, InsertKeeps DEF Insert, InsertFails
  <2> QED
    BY <1>3, <2>1, <2>2
<1> QED
  BY <1>1, <1>2, <1>4, <1>5 DEF WorkerNext

\* What is of a live event stays so.
LEMMA LiveStays ==
    ASSUME NEW e, FromLive(e), UNCHANGED feed, shown \subseteq shown'
    PROVE  FromLive(e)'
  BY DEF FromLive

\* Whatever is on its way was shown.
LEMMA NextShown == TypeOK /\ Shown /\ [Next]_vars => Shown'
<1> SUFFICES ASSUME TypeOK, Shown, [Next]_vars PROVE Shown'
  OBVIOUS
<1>0. persistQ \in Seq(Entity) /\ batch \in Seq(Entity)
  BY DEF TypeOK, SinkTypes
<1>1. ASSUME NEW t \in Topic, Deliver(t), UNCHANGED feed PROVE Shown'
  <2> DEFINE r == feed[t][pos[t] + 1]
             live == parse_kafka_message(t, r)
             e == parse_log_entity(t, r, fresh + 1)
  <2>1. fresh + 1 \in Nat
    BY DEF TypeOK, ConsumerTypes
  <2>2. r \in Record
    BY <1>1, Delivered
  <2>3. e \in Entity \cup {NoEntity}
    BY <2>1, <2>2, EntityType
  <2>5. Persist(e) /\ shown' = shown \cup ({live} \ {NoLive}) /\ UNCHANGED <<batch, rows>>
    BY <1>1 DEF Deliver
  <2>p. PICK d : d = e
    OBVIOUS
  <2>4. ASSUME e # NoEntity PROVE LogOf(d) \in shown' \/ FromLive(d)'
    <3>1. CASE r.live = Absent
      <4>1. live = LogOf(e) /\ live # NoLive
        BY <2>1, <2>2, <2>4, <3>1, Agree
      <4> QED
        BY <2>5, <2>p, <4>1
    <3>2. CASE r.live # Absent
      <4>1. live \in shown'
        BY <2>2, <2>5, <3>2, LiveShown
      <4>2. PICK m \in {0, d.event_id[2]} : d = parse_log_entity(t, r, m)
        BY <2>4, <2>p, IdNumber
      <4>3. pos[t] + 1 \in DOMAIN feed'[t] /\ r = feed'[t][pos[t] + 1]
        BY <1>1, Delivered
      <4> HIDE DEF r, e
      <4>4. /\ feed'[t][pos[t] + 1].live # Absent
            /\ parse_kafka_message(t, feed'[t][pos[t] + 1]) \in shown'
            /\ \E n \in {0, d.event_id[2]} :
                  d = parse_log_entity(t, feed'[t][pos[t] + 1], n)
        BY <3>2, <4>1, <4>2, <4>3
      <4>5. FromLive(d)'
                <=> \E u \in Topic : \E i \in DOMAIN feed'[u] :
                       /\ feed'[u][i].live # Absent
                       /\ parse_kafka_message(u, feed'[u][i]) \in shown'
                       /\ \E n \in {0, d.event_id[2]} : d = parse_log_entity(u, feed'[u][i], n)
        BY DEF FromLive
      <4> QED
        BY <4>3, <4>4, <4>5
    <3> QED
      BY <3>1, <3>2
  <2>l. \A x : FromLive(x) => FromLive(x)'
    BY <1>1, <2>5, LiveStays
  <2> HIDE DEF r, live, e
  <2>6. persistQ' = persistQ \/ (e # NoEntity /\ persistQ' = Append(persistQ, e))
    BY <2>5 DEF Persist
  <2>7. CASE persistQ' = persistQ
    BY <2>5, <2>7, <2>l DEF Shown
  <2>8. CASE e # NoEntity /\ persistQ' = Append(persistQ, e)
    <3>1. Elements(persistQ') = Elements(persistQ) \cup {d}
      BY <1>0, <2>3, <2>8, <2>p, QueueElements
    <3>2. LogOf(d) \in shown' \/ FromLive(d)'
      BY <2>4, <2>8
    <3>3. rows' \cup Elements(persistQ') \cup Elements(batch')
             = rows \cup Elements(persistQ) \cup Elements(batch) \cup {d}
      BY <2>5, <3>1
    <3>4. \A x \in rows \cup Elements(persistQ) \cup Elements(batch) :
             LogOf(x) \in shown' \/ FromLive(x)'
      BY <2>5, <2>l DEF Shown
    <3>5. Shown' <=> \A x \in rows' \cup Elements(persistQ') \cup Elements(batch') :
                        LogOf(x) \in shown' \/ FromLive(x)'
      BY DEF Shown, Elements, LogOf
    <3> QED
      BY <3>2, <3>3, <3>4, <3>5
  <2> QED
    BY <2>6, <2>7, <2>8
<1>2. ASSUME UNCHANGED <<feed, shown>>,
             rows' \cup Elements(persistQ') \cup Elements(batch')
               \subseteq rows \cup Elements(persistQ) \cup Elements(batch)
      PROVE  Shown'
  <2>1. \A d : FromLive(d) => FromLive(d)'
    BY <1>2, LiveStays
  <2> QED
    BY <1>2, <2>1 DEF Shown
<1>3. CASE Step(AutoCommit \/ LoopEnds \/ CtrlC \/ Start)
  <2>1. UNCHANGED <<feed, shown, rows, persistQ, batch>>
    BY <1>3 DEF Step, AutoCommit, LoopEnds, CtrlC, Start, sinkVars
  <2> QED
    BY <1>2, <2>1
<1>4. CASE Step(SocketNext)
  BY <1>2, <1>4, SocketTurns DEF Step, sinkVars
<1>5. CASE Step(WorkerNext)
  <2>1. UNCHANGED <<feed, shown>>
    BY <1>5 DEF Step, WorkerNext, WorkerTake, FlushTick, WorkerStops, Insert, InsertFails,
                AfterInsert
  <2> QED
    BY <1>2, <1>5, <2>1, WorkerMoves DEF Step
<1>6. CASE Step(Exit)
  <2>1. Elements(<<>>) = {}
    BY DEF Elements
  <2>2. persistQ' = <<>> /\ batch' = <<>> /\ UNCHANGED <<feed, rows, shown>>
    BY <1>6 DEF Step, Exit
  <2>3. Elements(persistQ') = {} /\ Elements(batch') = {}
    BY <2>1, <2>2
  <2> QED
    BY <1>2, <2>2, <2>3
<1>7. CASE UNCHANGED vars
  BY <1>2, <1>7 DEF vars, sinkVars
<1> QED
  BY <1>1, <1>3, <1>4, <1>5, <1>6, <1>7 DEF Next, Step, ConsumerNext, ProcessNext

-----------------------------------------------------------------------------
(* Connections *)

\* What InStep and StreamKeepsPromise say of one connection k when the ring is R.
Due(k, R) ==
    {i \in k.from .. k.next - 1 :
        i \notin k.missed /\ matches_filter(R[i], k.ack.node, k.ack.topics)}
Kept(k, R) ==
    /\ k.from >= 1 /\ k.from <= k.next /\ k.next <= Len(R) + 1
    /\ k.ack = [topics |-> k.topics, node |-> k.node]
    /\ \A i \in k.missed : i < k.next /\ i + RingCap <= Len(R)
    /\ Elements(k.sent) = Due(k, R)
    /\ \A i, j \in DOMAIN k.sent : i < j => k.sent[i] < k.sent[j]

\* The two say that of all open connections.
LEMMA AllKept ==
    InStep /\ StreamKeepsPromise
      <=> \A c \in Client : conn[c].at = "open" => Kept(conn[c], ring)
  BY DEF InStep, StreamKeepsPromise, Kept, Due

\* A ring that grows changes nothing for a connection.
LEMMA KeptGrows ==
    ASSUME NEW k \in Connection, NEW R \in Seq(LiveEvent), NEW e \in LiveEvent, Kept(k, R)
    PROVE  Kept(k, Append(R, e))
<1> DEFINE S == Append(R, e)
<1>0. /\ Len(R) \in Nat /\ Len(S) = Len(R) + 1
      /\ \A i \in 1..Len(R) : S[i] = R[i]
  OBVIOUS
<1>1. /\ k.from \in Nat /\ k.next \in Nat /\ k.missed \subseteq Nat
      /\ k.from >= 1 /\ k.next <= Len(R) + 1 /\ RingCap \in Nat
  BY FeedBounds DEF Kept, Connection
<1> HIDE DEF S
<1>2. \A i \in k.from .. k.next - 1 : S[i] = R[i]
  BY <1>0, <1>1
<1>3. Due(k, S) = Due(k, R)
  BY <1>2 DEF Due
<1>4. k.next <= Len(S) + 1 /\ \A i \in k.missed : i < k.next /\ i + RingCap <= Len(S)
  BY <1>0, <1>1 DEF Kept
<1>5. Kept(k, S)
  BY <1>3, <1>4 DEF Kept
<1> QED
  BY <1>5 DEF S

\* A connection or a subscription starts with an empty stretch.
LEMMA KeptFresh ==
    ASSUME NEW k \in Connection, NEW R \in Seq(LiveEvent),
           k.from = k.next, k.next >= 1, k.next <= Len(R) + 1, k.sent = <<>>,
           k.ack = [topics |-> k.topics, node |-> k.node],
           \A i \in k.missed : i < k.next /\ i + RingCap <= Len(R)
    PROVE  Kept(k, R)
<1>1. k.next \in Nat
  BY DEF Connection
<1>2. k.from .. k.next - 1 = {}
  BY <1>1
<1>3. Due(k, R) = {}
  BY <1>2 DEF Due
<1>4. Elements(k.sent) = {}
  BY DEF Elements
<1>5. \A i, j \in DOMAIN k.sent : i < j => k.sent[i] < k.sent[j]
  OBVIOUS
<1> QED
  BY <1>1, <1>3, <1>4, <1>5 DEF Kept

\* The next event is sent exactly if it is due.
LEMMA KeptForward ==
    ASSUME NEW k \in Connection, NEW l \in Connection, NEW R \in Seq(LiveEvent),
           Kept(k, R), k.next <= Len(R),
           l.next = k.next + 1, l.from = k.from, l.missed = k.missed, l.ack = k.ack,
           l.topics = k.topics, l.node = k.node,
           l.sent = IF matches_filter(R[k.next], k.node, k.topics)
                    THEN Append(k.sent, k.next) ELSE k.sent
    PROVE  Kept(l, R)
<1>0. /\ k.from \in Nat /\ k.next \in Nat /\ k.missed \subseteq Nat /\ k.sent \in Seq(Nat)
      /\ k.from >= 1 /\ k.from <= k.next /\ Len(R) \in Nat /\ k.next <= Len(R)
  BY DEF Kept, Connection
<1>1. /\ l.from >= 1 /\ l.from <= l.next /\ l.next <= Len(R) + 1
      /\ l.ack = [topics |-> l.topics, node |-> l.node]
  BY <1>0 DEF Kept
<1>2. \A i \in l.missed : i < l.next /\ i + RingCap <= Len(R)
  BY <1>0 DEF Kept
<1>3. k.next \notin k.missed
  BY <1>0 DEF Kept
<1>4. l.from .. l.next - 1 = (k.from .. k.next - 1) \cup {k.next}
  BY <1>0
<1>5. k.ack.node = k.node /\ k.ack.topics = k.topics
  BY DEF Kept
<1>6. \A j \in DOMAIN k.sent : k.sent[j] < k.next
  <2>1. \A j \in DOMAIN k.sent : k.sent[j] \in Due(k, R)
    BY DEF Kept, Elements
  <2> QED
    BY <1>0, <2>1 DEF Due
<1>7. CASE matches_filter(R[k.next], k.node, k.topics)
  <2>1. Due(l, R) = Due(k, R) \cup {k.next}
    BY <1>3, <1>4, <1>5, <1>7 DEF Due
  <2>2. Elements(l.sent) = Elements(k.sent) \cup {k.next}
    <3>1. l.sent = Append(k.sent, k.next)
      BY <1>7
    <3>2. k.sent \in Seq(Nat) /\ k.next \in Nat
      BY <1>0
    <3>3. \A q \in Seq(Nat), e \in Nat : Elements(Append(q, e)) = Elements(q) \cup {e}
      BY QueueElements
    <3> QED
      BY <3>1, <3>2, <3>3
  <2>3. \A i, j \in DOMAIN l.sent : i < j => l.sent[i] < l.sent[j]
    <3>1. l.sent = Append(k.sent, k.next)
      BY <1>7
    <3>2. /\ DOMAIN k.sent = 1..Len(k.sent) /\ Len(k.sent) \in Nat
          /\ DOMAIN l.sent = 1..(Len(k.sent) + 1) /\ l.sent[Len(k.sent) + 1] = k.next
          /\ \A i \in 1..Len(k.sent) : l.sent[i] = k.sent[i]
      BY <1>0, <3>1
    <3>3. \A i, j \in DOMAIN k.sent : i < j => k.sent[i] < k.sent[j]
      BY DEF Kept
    <3> QED
      BY <1>6, <3>2, <3>3
  <2> QED
    BY <1>1, <1>2, <2>1, <2>2, <2>3 DEF Kept
<1>8. CASE ~matches_filter(R[k.next], k.node, k.topics)
  <2>1. Due(l, R) = Due(k, R)
    BY <1>4, <1>5, <1>8 DEF Due
  <2> QED
    BY <1>1, <1>2, <1>8, <2>1 DEF Kept
<1> QED
  BY <1>7, <1>8

\* What was overwritten is missed and not due.
LEMMA KeptLagged ==
    ASSUME NEW k \in Connection, NEW l \in Connection, NEW R \in Seq(LiveEvent),
           Kept(k, R), Len(R) + 1 - k.next > RingCap,
           l.next = Len(R) + 1 - RingCap,
           l.missed = k.missed \cup (k.next .. Len(R) - RingCap),
           l.from = k.from, l.ack = k.ack, l.topics = k.topics, l.node = k.node,
           l.sent = k.sent
    PROVE  Kept(l, R)
<1>0. /\ k.from \in Nat /\ k.next \in Nat /\ k.missed \subseteq Nat
      /\ k.from >= 1 /\ k.from <= k.next /\ Len(R) \in Nat /\ RingCap \in Nat /\ RingCap > 0
  <2>1. RingCap \in Nat /\ RingCap > 0
    BY FeedBounds
  <2> QED
    BY <2>1 DEF Kept, Connection
<1>1. l.from >= 1 /\ l.from <= l.next /\ l.next <= Len(R) + 1
  BY <1>0
<1>2. l.ack = [topics |-> l.topics, node |-> l.node]
  BY DEF Kept
<1>3. \A i \in l.missed : i < l.next /\ i + RingCap <= Len(R)
  <2>1. \A i \in k.missed : i < k.next /\ i + RingCap <= Len(R)
    BY DEF Kept
  <2>2. \A i \in k.next .. Len(R) - RingCap : i < l.next /\ i + RingCap <= Len(R)
    BY <1>0
  <2>3. \A i \in k.missed : i < l.next
    BY <1>0, <2>1
  <2> QED
    BY <2>1, <2>2, <2>3
<1>4. l.from .. l.next - 1 = (k.from .. k.next - 1) \cup (k.next .. Len(R) - RingCap)
  BY <1>0
<1>5. \A i \in k.from .. k.next - 1 : i \notin k.next .. Len(R) - RingCap
  BY <1>0
<1>6. Due(l, R) = Due(k, R)
  BY <1>4, <1>5 DEF Due
<1> QED
  BY <1>1, <1>2, <1>3, <1>6 DEF Kept

\* Every step keeps the promise to every connection.
LEMMA NextKept ==
    TypeOK /\ InStep /\ StreamKeepsPromise /\ [Next]_vars
      => (InStep /\ StreamKeepsPromise)'
<1> SUFFICES ASSUME TypeOK, InStep, StreamKeepsPromise, [Next]_vars
             PROVE  (InStep /\ StreamKeepsPromise)'
  OBVIOUS
<1>0. /\ conn \in [Client -> Connection] /\ ring \in Seq(LiveEvent) /\ Len(ring) \in Nat
      /\ \A c \in Client : conn[c].at = "open" => Kept(conn[c], ring)
  BY AllKept DEF TypeOK, RingTypes
<1>s. SUFFICES \A c \in Client : conn'[c].at = "open" => Kept(conn'[c], ring')
  <2>1. (InStep /\ StreamKeepsPromise)'
          <=> (\A c \in Client : conn[c].at = "open" => Kept(conn[c], ring))'
    BY AllKept, PTL
  <2>2. (\A c \in Client : conn[c].at = "open" => Kept(conn[c], ring))'
          <=> \A c \in Client : conn'[c].at = "open" => Kept(conn'[c], ring')
    BY DEF Kept, Due, matches_filter, Elements
  <2> QED
    BY <2>1, <2>2
<1>1. ASSUME NEW t \in Topic, Deliver(t)
      PROVE  \A c \in Client : conn'[c].at = "open" => Kept(conn'[c], ring')
  <2> DEFINE live == parse_kafka_message(t, feed[t][pos[t] + 1])
  <2>1. live \in LiveEvent \cup {NoLive}
    BY <1>1, Delivered, LiveType
  <2>2. ring' = (IF live = NoLive THEN ring ELSE Append(ring, live)) /\ conn' = conn
    BY <1>1 DEF Deliver
  <2> HIDE DEF live
  <2>3. CASE live = NoLive
    BY <1>0, <2>2, <2>3
  <2>4. CASE live # NoLive
    BY <1>0, <2>1, <2>2, <2>4, KeptGrows
  <2> QED
    BY <2>3, <2>4
<1>2. CASE UNCHANGED <<conn, ring>>
  BY <1>0, <1>2
<1>3. CASE Exit
  <2>1. \A c \in Client : conn'[c].at # "open"
    <3>1. Closed.at = "closed"
      BY DEF Closed, New
    <3> QED
      BY <1>3, <3>1 DEF Exit
  <2> QED
    BY <2>1
<1>4. CASE SocketNext
  <2>1. PICK c \in Client : \/ \E q \in Query : Connect(c, q)
                            \/ \E m \in Command : Subscribe(c, m)
                            \/ Forward(c) \/ Lagged(c) \/ Close(c)
    BY <1>4 DEF SocketNext
  <2>r. ring' = ring
    BY <1>4, SocketTurns
  <2>t. ASSUME NEW k, Turns(c, k), k.at = "open" => Kept(k, ring)
        PROVE  \A d \in Client : conn'[d].at = "open" => Kept(conn'[d], ring')
    BY <1>0, <2>r, <2>t DEF Turns
  <2>k. /\ conn[c] \in Connection /\ conn[c].next \in Nat
        /\ RingCap \in Nat /\ RingCap > 0
    BY <1>0, FeedBounds DEF Connection
  <2>2. ASSUME NEW q \in Query, Connect(c, q)
        PROVE  \A d \in Client : conn'[d].at = "open" => Kept(conn'[d], ring')
    <3> DEFINE ts == parse_topics(q.topics)
               k == [New EXCEPT !.at = "open", !.next = Len(ring) + 1, !.topics = ts,
                                !.node = q.node, !.ack = [topics |-> ts, node |-> q.node],
                                !.from = Len(ring) + 1]
    <3>1. Turns(c, k)
      BY <2>2, SocketSteps
    <3> HIDE DEF ts
    <3>2. /\ k.from = k.next /\ k.next = Len(ring) + 1 /\ k.sent = <<>> /\ k.missed = {}
          /\ k.ack = [topics |-> k.topics, node |-> k.node]
      BY DEF New
    <3> HIDE DEF k
    <3>3. Kept(k, ring)
      BY <1>0, <3>1, <3>2, KeptFresh DEF Turns
    <3> QED
      BY <2>t, <3>1, <3>3
  <2>3. ASSUME NEW m \in Command, Subscribe(c, m)
        PROVE  \A d \in Client : conn'[d].at = "open" => Kept(conn'[d], ring')
    <3> DEFINE ts == IF m.topics = NoTopics THEN conn[c].topics ELSE m.topics
               k == [conn[c] EXCEPT !.topics = ts, !.node = m.node,
                                    !.asked = conn[c].asked + 1,
                                    !.ack = [topics |-> ts, node |-> m.node],
                                    !.from = conn[c].next, !.sent = <<>>]
    <3>1. Turns(c, k)
      BY <2>3, SocketSteps
    <3>2. Kept(conn[c], ring)
      BY <1>0, <2>3 DEF Subscribe
    <3> HIDE DEF ts
    <3>3. /\ k.from = k.next /\ k.next = conn[c].next /\ k.sent = <<>>
          /\ k.missed = conn[c].missed
          /\ k.ack = [topics |-> k.topics, node |-> k.node]
      BY <2>k DEF Connection
    <3> HIDE DEF k
    <3>4. /\ k.next >= 1 /\ k.next <= Len(ring) + 1
          /\ \A i \in k.missed : i < k.next /\ i + RingCap <= Len(ring)
      <4>1. conn[c].from >= 1 /\ conn[c].from <= conn[c].next /\ conn[c].from \in Nat
        BY <2>k, <3>2 DEF Kept, Connection
      <4> QED
        BY <2>k, <3>2, <3>3, <4>1 DEF Kept
    <3>5. Kept(k, ring)
      BY <1>0, <3>1, <3>3, <3>4, KeptFresh DEF Turns
    <3> QED
      BY <2>t, <3>1, <3>5
  <2>4. ASSUME Forward(c)
        PROVE  \A d \in Client : conn'[d].at = "open" => Kept(conn'[d], ring')
    <3> DEFINE s == IF matches_filter(ring[conn[c].next], conn[c].node, conn[c].topics)
                    THEN Append(conn[c].sent, conn[c].next) ELSE conn[c].sent
               l == [conn[c] EXCEPT !.next = conn[c].next + 1, !.sent = s]
    <3>1. Turns(c, l)
      BY <2>4, SocketSteps
    <3>2. Kept(conn[c], ring) /\ conn[c].next <= Len(ring)
      BY <1>0, <2>k, <2>4 DEF Forward, Behind
    <3> HIDE DEF s
    <3>3. /\ l.next = conn[c].next + 1 /\ l.from = conn[c].from
          /\ l.missed = conn[c].missed /\ l.ack = conn[c].ack
          /\ l.topics = conn[c].topics /\ l.node = conn[c].node /\ l.sent = s
      BY <2>k DEF Connection
    <3> HIDE DEF l
    <3>4. Kept(l, ring)
      BY <1>0, <2>k, <3>1, <3>2, <3>3, KeptForward DEF Turns, s
    <3> QED
      BY <2>t, <3>1, <3>4
  <2>5. ASSUME Lagged(c)
        PROVE  \A d \in Client : conn'[d].at = "open" => Kept(conn'[d], ring')
    <3> DEFINE s == conn[c].missed \cup (conn[c].next .. Len(ring) - RingCap)
               l == [conn[c] EXCEPT !.next = Len(ring) + 1 - RingCap, !.missed = s]
    <3>1. Turns(c, l)
      BY <2>5, SocketSteps
    <3>2. Kept(conn[c], ring) /\ Len(ring) + 1 - conn[c].next > RingCap
      BY <1>0, <2>5 DEF Lagged, Behind
    <3> HIDE DEF s
    <3>3. /\ l.next = Len(ring) + 1 - RingCap /\ l.from = conn[c].from
          /\ l.missed = s /\ l.ack = conn[c].ack
          /\ l.topics = conn[c].topics /\ l.node = conn[c].node
          /\ l.sent = conn[c].sent
      BY <2>k DEF Connection
    <3> HIDE DEF l
    <3>4. Kept(l, ring)
      BY <1>0, <2>k, <3>1, <3>2, <3>3, KeptLagged DEF Turns, s
    <3> QED
      BY <2>t, <3>1, <3>4
  <2>6. ASSUME Close(c)
        PROVE  \A d \in Client : conn'[d].at = "open" => Kept(conn'[d], ring')
    <3>1. Closed.at = "closed"
      BY DEF Closed, New
    <3> QED
      BY <2>6, <2>t, <3>1, SocketSteps
  <2> QED
    BY <2>1, <2>2, <2>3, <2>4, <2>5, <2>6
<1>5. CASE AutoCommit \/ LoopEnds \/ WorkerNext \/ CtrlC \/ Start \/ UNCHANGED vars
  BY <1>2, <1>5 DEF AutoCommit, LoopEnds, WorkerNext, WorkerTake, FlushTick, WorkerStops,
                    Insert, InsertFails, AfterInsert, CtrlC, Start, vars
<1> QED
  BY <1>1, <1>3, <1>4, <1>5 DEF Next, Step, ConsumerNext, ProcessNext

-----------------------------------------------------------------------------
(* What may be lost *)

\* The definitions of Lost for any feed f, positions p and ids H that are held.
IdsIn(f, t, n) ==
    {parse_log_entity(t, f[t][i], 0).event_id : i \in 1..n} \ {<<Absent, 0>>}
LostOf(f, p, H) ==
    (UNION {IdsIn(f, t, p[t]) : t \in Topic})
        \ ((UNION {IdsIn(f, t, Len(f[t])) \ IdsIn(f, t, p[t]) : t \in Topic}) \cup H)
Held(R, q, b) == Stored(R \cup Elements(q) \cup Elements(b))

\* What is lost and was not skipped.
Missing == Lost \ Skipped

\* LossHasCause with what makes it inductive: a commit is of what was
\* delivered, so that a restart only goes back where there is one.
LossKept ==
    /\ \A t \in Topic : committed[t] <= pos[t]
    /\ IsFiniteSet(Missing) /\ Cardinality(Missing) <= dropped

\* Lost, in this state and in the next.
LEMMA LostIs ==
    /\ Lost = LostOf(feed, pos, Held(rows, persistQ, batch))
    /\ Lost' = LostOf(feed', pos', Held(rows', persistQ', batch'))
<1>1. Lost = LostOf(feed, pos, Held(rows, persistQ, batch))
  BY DEF Lost, LostOf, IdsUpTo, IdsIn, Held
<1>2. Lost' = LostOf(feed', pos', Held(rows', persistQ', batch'))
  BY DEF Lost, LostOf, IdsUpTo, IdsIn, Held, Stored, Elements
<1> QED
  BY <1>1, <1>2

\* An id is lost when a topic has delivered it, none still has it ahead and it
\* is not held.
LEMMA InLost ==
    ASSUME NEW f, NEW p, NEW H, NEW x
    PROVE  x \in LostOf(f, p, H)
             <=> /\ x \notin H
                 /\ \E t \in Topic : x \in IdsIn(f, t, p[t])
                 /\ \A t \in Topic : x \in IdsIn(f, t, Len(f[t])) => x \in IdsIn(f, t, p[t])
  BY DEF LostOf

\* Only ids that are no longer held are lost without a delivery.
LEMMA LostWhenReleased ==
    ASSUME NEW f, NEW p, NEW H, NEW K, NEW X, H \subseteq K \cup X
    PROVE  LostOf(f, p, K) \subseteq LostOf(f, p, H) \cup X
  BY InLost

\* When the positions change, what is lost anew was passed by in some topic.
LEMMA LostWhenMoved ==
    ASSUME NEW f, NEW p \in [Topic -> Nat], NEW q \in [Topic -> Nat], NEW H, NEW X,
           \A t \in Topic : \A i \in p[t] + 1 .. q[t] :
               parse_log_entity(t, f[t][i], 0).event_id \in X
    PROVE  LostOf(f, q, H) \subseteq LostOf(f, p, H) \cup X
<1>1. \A t \in Topic : IdsIn(f, t, q[t]) \subseteq IdsIn(f, t, p[t]) \cup X
  <2> SUFFICES ASSUME NEW t \in Topic
               PROVE  IdsIn(f, t, q[t]) \subseteq IdsIn(f, t, p[t]) \cup X
    OBVIOUS
  <2>1. \A i \in 1..q[t] : i \in 1..p[t] \/ i \in p[t] + 1 .. q[t]
    OBVIOUS
  <2> QED
    BY <2>1 DEF IdsIn
<1> SUFFICES ASSUME NEW x \in LostOf(f, q, H), x \notin X PROVE x \in LostOf(f, p, H)
  OBVIOUS
<1>2. /\ x \notin H /\ \E t \in Topic : x \in IdsIn(f, t, q[t])
      /\ \A t \in Topic : x \in IdsIn(f, t, Len(f[t])) => x \in IdsIn(f, t, q[t])
  BY InLost
<1> QED
  BY <1>1, <1>2, InLost

\* The id of a record, and the positions after one more record of topic t.
IdAt(f, t, i) == parse_log_entity(t, f[t][i], 0).event_id
Onward(p, q, t) == q[t] = p[t] + 1 /\ \A u \in Topic : u # t => q[u] = p[u]

\* A delivery may lose the id of its record and no other.
LEMMA LostWhenDelivered ==
    ASSUME NEW f, NEW p \in [Topic -> Nat], NEW H, NEW t \in Topic,
           NEW q, Onward(p, q, t)
    PROVE  LostOf(f, q, H)
             \subseteq LostOf(f, p, H) \cup ({IdAt(f, t, p[t] + 1)} \ {<<Absent, 0>>})
<1> DEFINE id == IdAt(f, t, p[t] + 1)
<1>1. q[t] = p[t] + 1 /\ \A u \in Topic : u # t => q[u] = p[u]
  BY DEF Onward
<1>2. 1..q[t] = (1..p[t]) \cup {p[t] + 1}
  BY <1>1
<1>3. IdsIn(f, t, q[t]) = IdsIn(f, t, p[t]) \cup ({id} \ {<<Absent, 0>>})
  BY <1>2 DEF IdsIn, IdAt
<1> HIDE DEF id
<1> SUFFICES ASSUME NEW x \in LostOf(f, q, H), x \notin {id} \ {<<Absent, 0>>}
             PROVE  x \in LostOf(f, p, H)
  BY DEF id
<1>4. /\ x \notin H /\ \E u \in Topic : x \in IdsIn(f, u, q[u])
      /\ \A u \in Topic : x \in IdsIn(f, u, Len(f[u])) => x \in IdsIn(f, u, q[u])
  BY InLost
<1>5. \A u \in Topic : x \in IdsIn(f, u, q[u]) <=> x \in IdsIn(f, u, p[u])
  <2>1. ASSUME NEW u \in Topic, u # t
        PROVE  x \in IdsIn(f, u, q[u]) <=> x \in IdsIn(f, u, p[u])
    BY <1>1, <2>1
  <2>2. x \in IdsIn(f, t, q[t]) <=> x \in IdsIn(f, t, p[t])
    BY <1>3
  <2> QED
    BY <2>1, <2>2
<1> QED
  BY <1>4, <1>5, InLost

\* The ids of a queue are at most as many as its entries.
LEMMA QueueIds ==
    ASSUME NEW q \in Seq(Entity)
    PROVE  IsFiniteSet(Stored(Elements(q))) /\ Cardinality(Stored(Elements(q))) <= Len(q)
<1> DEFINE T == Stored(Elements(q))
           f == [i \in 1..Len(q) |-> q[i].event_id]
<1>1. Len(q) \in Nat /\ DOMAIN q = 1..Len(q)
  OBVIOUS
<1>2. T = {q[i].event_id : i \in 1..Len(q)}
  BY <1>1 DEF Stored, Elements
<1>3. f \in Surjection(1..Len(q), T)
  BY <1>2 DEF Surjection
<1>4. IsFiniteSet(1..Len(q)) /\ Cardinality(1..Len(q)) = Len(q)
  <2>1. \A a, b \in Int : /\ IsFiniteSet(a..b)
                          /\ Cardinality(a..b) = IF a > b THEN 0 ELSE b - a + 1
    BY FS_Interval
  <2> QED
    BY <1>1, <2>1
<1> HIDE DEF T, f
<1>5. IsFiniteSet(T) /\ Cardinality(T) <= Cardinality(1..Len(q))
  BY <1>3, <1>4, FS_Surjection
<1> QED
  BY <1>4, <1>5 DEF T

\* The ids of two sets of entries.
LEMMA StoredUnion == \A S, T : Stored(S \cup T) = Stored(S) \cup Stored(T)
  BY DEF Stored

\* An id is held by the table, the channel or the batch.
LEMMA HeldParts ==
    ASSUME NEW R, NEW q, NEW b
    PROVE  Held(R, q, b) = Stored(R) \cup Stored(Elements(q)) \cup Stored(Elements(b))
<1>1. Held(R, q, b) = Stored(R \cup Elements(q)) \cup Stored(Elements(b))
  BY StoredUnion DEF Held
<1>2. Stored(R \cup Elements(q)) = Stored(R) \cup Stored(Elements(q))
  BY StoredUnion
<1> QED
  BY <1>1, <1>2

\* An empty queue holds nothing.
LEMMA HeldEmpty == Stored(Elements(<<>>)) = {}
  BY DEF Stored, Elements

\* A set that grows by at most X.
LEMMA GrowsBy ==
    ASSUME NEW L, NEW M, NEW X, NEW c \in Nat, IsFiniteSet(L), IsFiniteSet(X),
           Cardinality(X) <= c, M \subseteq L \cup X
    PROVE  IsFiniteSet(M) /\ Cardinality(M) \in Nat /\ Cardinality(M) <= Cardinality(L) + c
           /\ Cardinality(L) \in Nat
<1>1. /\ IsFiniteSet(L \cup X)
      /\ Cardinality(L \cup X) = Cardinality(L) + Cardinality(X) - Cardinality(L \cap X)
  BY FS_Union
<1>2. IsFiniteSet(L \cap X)
  BY FS_Subset
<1>3. Cardinality(L) \in Nat /\ Cardinality(X) \in Nat /\ Cardinality(L \cap X) \in Nat
  BY <1>2, FS_CardinalityType
<1>4. IsFiniteSet(M) /\ Cardinality(M) <= Cardinality(L \cup X)
  BY <1>1, FS_Subset
<1>5. Cardinality(M) \in Nat
  BY <1>4, FS_CardinalityType
<1> QED
  BY <1>1, <1>3, <1>4, <1>5

\* What was skipped stays so.
LEMMA SkippedStays ==
    ASSUME UNCHANGED feed, skipped \subseteq skipped'
    PROVE  Skipped \subseteq Skipped'
  BY DEF Skipped

\* A step that loses at most X is paid for when as many entries are given up.
LEMMA LossPaid ==
    ASSUME LossKept, NEW X, NEW c \in Nat, IsFiniteSet(X), Cardinality(X) <= c,
           Lost' \subseteq Lost \cup X \cup Skipped', UNCHANGED feed,
           skipped \subseteq skipped', dropped \in Nat, dropped' = dropped + c
    PROVE  IsFiniteSet(Missing') /\ Cardinality(Missing') <= dropped'
<1> DEFINE L == Missing
           M == Missing'
           a == dropped
           b == dropped'
<1>1. IsFiniteSet(L) /\ Cardinality(L) <= a /\ a \in Nat /\ b = a + c
  BY DEF LossKept
<1>2. M \subseteq L \cup X
  BY SkippedStays DEF Missing
<1> HIDE DEF L, M, a, b
<1>3. /\ IsFiniteSet(M) /\ Cardinality(M) \in Nat /\ Cardinality(L) \in Nat
      /\ Cardinality(M) <= Cardinality(L) + c
  BY <1>1, <1>2, GrowsBy
<1>4. IsFiniteSet(M) /\ Cardinality(M) <= b
  BY <1>1, <1>3
<1> QED
  BY <1>4 DEF M, b

\* Without a delivery, what is lost was held.
LEMMA OnlyReleased ==
    ASSUME UNCHANGED <<feed, pos>>, NEW X,
           Held(rows, persistQ, batch) \subseteq Held(rows', persistQ', batch') \cup X
    PROVE  Lost' \subseteq Lost \cup X
<1>1. LostOf(feed, pos, Held(rows', persistQ', batch'))
        \subseteq LostOf(feed, pos, Held(rows, persistQ, batch)) \cup X
  BY LostWhenReleased
<1> QED
  BY <1>1, LostIs

\* A set of numbers that is not empty has a least element.
LEMMA LeastIndex ==
    ASSUME NEW S, S \subseteq Nat, S # {}
    PROVE  \E x \in S : \A y \in S : x <= y
<1> DEFINE T == {0..x : x \in S}
           R == StrictSubsetOrdering(Nat)
<1>1. T \subseteq FiniteSubsetsOf(Nat) /\ T # {}
  <2>1. \A x \in S : IsFiniteSet(0..x) /\ 0..x \in SUBSET Nat
    BY FS_Interval
  <2> QED
    BY <2>1 DEF FiniteSubsetsOf
<1>2. IsWellFoundedOn(R, FiniteSubsetsOf(Nat))
  BY FS_StrictSubsetOrderingWellFounded
<1>3. PICK t \in T : \A u \in T : ~(<<u, t>> \in R)
  <2> HIDE DEF T, R
  <2> QED
    BY <1>1, <1>2, WFMin
<1>4. PICK x \in S : t = 0..x
  OBVIOUS
<1>5. ASSUME NEW y \in S, y < x PROVE FALSE
  <2>1. 0..y \in SUBSET Nat /\ 0..x \in SUBSET Nat /\ 0..y \subseteq 0..x
    BY <1>5
  <2>2. x \in 0..x /\ x \notin 0..y
    BY <1>5
  <2>3. <<0..y, 0..x>> \in R
    BY <2>1, <2>2 DEF StrictSubsetOrdering
  <2> QED
    BY <1>3, <1>4, <1>5, <2>3
<1> QED
  BY <1>5

\* After the INSERT every id of the batch is stored: ON CONFLICT leaves one of
\* the rows that have it.
LEMMA InsertHolds ==
    ASSUME TypeOK
    PROVE  Stored(rows) \cup Stored(Elements(batch)) \subseteq Stored(insert_batch(batch))
<1>1. Stored(rows) \subseteq Stored(insert_batch(batch))
  BY InsertKeeps DEF Stored
<1> SUFFICES ASSUME NEW i \in DOMAIN batch, batch[i].event_id \notin Stored(rows)
             PROVE  batch[i].event_id \in Stored(insert_batch(batch))
  BY <1>1 DEF Stored, Elements
<1> DEFINE S == {k \in DOMAIN batch : batch[k].event_id = batch[i].event_id}
<1>2. S \subseteq Nat /\ i \in S
  BY DEF TypeOK, SinkTypes
<1>3. PICK k \in S : \A j \in S : k <= j
  <2>1. S # {} /\ S \subseteq Nat
    BY <1>2
  <2> HIDE DEF S
  <2> QED
    BY <2>1, LeastIndex
<1>4. \A j \in DOMAIN batch : j < k => batch[j].event_id # batch[k].event_id
  <2> SUFFICES ASSUME NEW j \in DOMAIN batch, j < k, batch[j].event_id = batch[k].event_id
               PROVE  FALSE
    OBVIOUS
  <2>1. j \in S /\ j \in Nat /\ k \in Nat
    BY <1>2
  <2> QED
    BY <1>3, <2>1
<1>5. batch[k] \in insert_batch(batch)
  BY <1>4 DEF insert_batch
<1> QED
  BY <1>5 DEF Stored

\* Commits are of what was delivered.
LEMMA NextOrdered ==
    ASSUME TypeOK, LossKept, [Next]_vars
    PROVE  \A t \in Topic : committed'[t] <= pos'[t]
<1>0. /\ pos \in [Topic -> Nat] /\ committed \in [Topic -> Nat]
      /\ \A t \in Topic : committed[t] <= pos[t]
  BY DEF TypeOK, ConsumerTypes, LossKept
<1>1. ASSUME NEW t \in Topic, Deliver(t) PROVE \A u \in Topic : committed'[u] <= pos'[u]
  <2>1. committed' = committed /\ pos' = [pos EXCEPT ![t] = pos[t] + 1]
    BY <1>1 DEF Deliver
  <2> QED
    BY <1>0, <2>1
<1>2. CASE AutoCommit \/ LoopEnds
  <2>1. committed' \in {committed, Offsets} /\ pos' = pos
    BY <1>2 DEF AutoCommit, LoopEnds
  <2>2. \A u \in Topic : Offsets[u] <= pos[u]
    BY <1>0 DEF Offsets
  <2> QED
    BY <1>0, <2>1, <2>2
<1>3. CASE Start
  <2>1. committed' = committed
    BY <1>3 DEF Start
  <2>2. CASE Resume
    <3>1. \A u \in Topic : pos'[u] \in StartsAt(u)
      BY <2>2 DEF Resume
    <3>2. \A u \in Topic : Len(feed[u]) \in Nat
      BY FeedAssumption DEF TypeOK, ConsumerTypes
    <3>3. \A u \in Topic : \A n \in StartsAt(u) : committed[u] <= n
      BY <1>0, <3>2 DEF StartsAt, NoOffset
    <3> QED
      BY <2>1, <3>1, <3>3
  <2>3. CASE UNCHANGED pos
    BY <1>0, <2>1, <2>3
  <2> QED
    BY <1>3, <2>2, <2>3 DEF Start
<1>4. CASE UNCHANGED <<pos, committed>>
  BY <1>0, <1>4
<1>5. CASE WorkerNext \/ CtrlC \/ Exit \/ SocketNext \/ UNCHANGED vars
  BY <1>4, <1>5, SocketTurns
     DEF WorkerNext, WorkerTake, FlushTick, WorkerStops, Insert, InsertFails, AfterInsert,
         CtrlC, Exit, vars
<1> QED
  BY <1>1, <1>2, <1>3, <1>5 DEF Next, Step, ConsumerNext, ProcessNext

\* The id a record is counted by is the id it is stored with, if it has one.
LEMMA SameId ==
    ASSUME NEW t, NEW r, NEW n
    PROVE  LET id == parse_log_entity(t, r, 0).event_id
           IN  id # <<Absent, 0>> =>
                  /\ parse_log_entity(t, r, n).event_id = id
                  /\ parse_log_entity(t, r, n) # NoEntity
<1> DEFINE node == as_str(First(r, NodeNames))
           id == as_str(First(r, <<"id", "event_id">>))
           type == unwrap_or(as_str(First(r, TypeNames)), Unknown)
           P == t \in EventTopics /\ r.json /\ node \in Uuid
           x(k) == IF id \in Uuid THEN <<id, 0>> ELSE <<Absent, k>>
<1>1. \A k : parse_log_entity(t, r, k) =
               IF P THEN [event_id |-> x(k), node_id |-> node, event_type |-> type]
               ELSE NoEntity
  BY DEF parse_log_entity
<1>2. NoEntity.event_id = <<Absent, 0>>
  BY DEF NoEntity
<1>3. ASSUME parse_log_entity(t, r, 0).event_id # <<Absent, 0>>
      PROVE  P /\ x(0) # <<Absent, 0>>
  <2> HIDE DEF P, x, node, type
  <2> QED
    BY <1>1, <1>2, <1>3
<1>4. x(0) # <<Absent, 0>> => x(n) = x(0)
  OBVIOUS
<1>5. ASSUME parse_log_entity(t, r, 0).event_id # <<Absent, 0>>
      PROVE  /\ parse_log_entity(t, r, n).event_id = parse_log_entity(t, r, 0).event_id
             /\ parse_log_entity(t, r, n) # NoEntity
  <2>1. P /\ x(0) # <<Absent, 0>> /\ x(n) = x(0)
    BY <1>3, <1>4, <1>5
  <2> HIDE DEF P, x, node, type
  <2>2. /\ parse_log_entity(t, r, n).event_id = x(n)
        /\ parse_log_entity(t, r, 0).event_id = x(0)
    BY <1>1, <2>1
  <2> QED
    BY <1>2, <2>1, <2>2
<1> QED
  BY <1>5

\* A record is delivered: its entry joins the channel or is given up.
LEMMA DeliverLoss ==
    ASSUME TypeOK, LossKept, NEW t \in Topic, Deliver(t), UNCHANGED feed
    PROVE  IsFiniteSet(Missing') /\ Cardinality(Missing') <= dropped'
<1> DEFINE r == feed[t][pos[t] + 1]
           e == parse_log_entity(t, r, fresh + 1)
           id == parse_log_entity(t, r, 0).event_id
           H == Held(rows, persistQ, batch)
           K == Held(rows', persistQ', batch')
           L == LostOf(feed, pos, H)
<1>1. /\ Persist(e) /\ pos' = [pos EXCEPT ![t] = @ + 1] /\ pos \in [Topic -> Nat]
      /\ UNCHANGED <<batch, rows, skipped>>
      /\ persistQ \in Seq(Entity) /\ dropped \in Nat
  BY DEF Deliver, TypeOK, ConsumerTypes, SinkTypes, RingTypes
<1>2. pos'[t] = pos[t] + 1 /\ \A u \in Topic : u # t => pos'[u] = pos[u]
  BY <1>1
<1>3. r \in Record /\ fresh + 1 \in Nat
  BY Delivered DEF TypeOK, ConsumerTypes
<1>4. e \in Entity \cup {NoEntity}
  BY <1>3, EntityType
<1>5. id # <<Absent, 0>> => e.event_id = id /\ e # NoEntity
  BY SameId
<1> HIDE DEF r, e
<1>6. \/ persistQ' = persistQ /\ dropped' = dropped + (IF e = NoEntity THEN 0 ELSE 1)
      \/ e # NoEntity /\ persistQ' = Append(persistQ, e) /\ dropped' = dropped
  BY <1>1 DEF Persist
<1>7. CASE persistQ' = persistQ /\ dropped' = dropped + (IF e = NoEntity THEN 0 ELSE 1)
  <2>1. K = H
    BY <1>1, <1>7
  <2>2. LostOf(feed, pos', H) \subseteq L \cup ({id} \ {<<Absent, 0>>})
    <3>1. pos \in [Topic -> Nat] /\ Onward(pos, pos', t)
      BY <1>1, <1>2 DEF Onward
    <3>2. id = IdAt(feed, t, pos[t] + 1)
      BY DEF r, IdAt
    <3> HIDE DEF id, H
    <3> QED
      BY <3>1, <3>2, LostWhenDelivered
  <2> DEFINE Y == {id} \ {<<Absent, 0>>}
             c == IF e = NoEntity THEN 0 ELSE 1
  <2>3. Lost' \subseteq Lost \cup Y \cup Skipped'
    BY <2>1, <2>2, LostIs
  <2>4. IsFiniteSet(Y) /\ Cardinality(Y) <= c
    <3>1. CASE Y = {}
      <4>1. IsFiniteSet(Y) /\ Cardinality(Y) = 0
        BY <3>1, FS_EmptySet
      <4> QED
        BY <4>1
    <3>2. CASE Y # {}
      <4>1. Y = {id} /\ c = 1
        BY <1>5, <3>2
      <4>2. IsFiniteSet({id}) /\ Cardinality({id}) = 1
        BY FS_Singleton
      <4> HIDE DEF Y, c, id
      <4> QED
        BY <4>1, <4>2
    <3> QED
      BY <3>1, <3>2
  <2>5. c \in Nat /\ dropped' = dropped + c
    BY <1>7
  <2> HIDE DEF c, Y
  <2> QED
    BY <1>1, <2>3, <2>4, <2>5, LossPaid
<1>8. CASE e # NoEntity /\ persistQ' = Append(persistQ, e) /\ dropped' = dropped
  <2>1. Elements(persistQ') = Elements(persistQ) \cup {e}
    BY <1>1, <1>4, <1>8, QueueElements
  <2>2. K = H \cup {e.event_id}
    <3>1. Stored(Elements(persistQ')) = Stored(Elements(persistQ)) \cup Stored({e})
      BY <2>1, StoredUnion
    <3>2. Stored({e}) = {e.event_id}
      BY DEF Stored
    <3>3. K = Stored(rows) \cup Stored(Elements(persistQ')) \cup Stored(Elements(batch))
      BY <1>1, HeldParts
    <3>4. H = Stored(rows) \cup Stored(Elements(persistQ)) \cup Stored(Elements(batch))
      BY HeldParts
    <3> HIDE DEF H, K
    <3> QED
      BY <3>1, <3>2, <3>3, <3>4
  <2>3. LostOf(feed, pos', K) \subseteq LostOf(feed, pos, K) \cup ({id} \ {<<Absent, 0>>})
    <3>1. pos \in [Topic -> Nat] /\ Onward(pos, pos', t)
      BY <1>1, <1>2 DEF Onward
    <3>2. id = IdAt(feed, t, pos[t] + 1)
      BY DEF r, IdAt
    <3> HIDE DEF id, K
    <3> QED
      BY <3>1, <3>2, LostWhenDelivered
  <2>4. LostOf(feed, pos, K) \subseteq L
    <3>1. H \subseteq K \cup {}
      BY <2>2
    <3> HIDE DEF H, K
    <3>2. LostOf(feed, pos, K) \subseteq LostOf(feed, pos, H) \cup {}
      BY <3>1, LostWhenReleased
    <3> QED
      BY <3>2
  <2>5. \A x \in LostOf(feed, pos', K) : x \notin K
    BY InLost
  <2>6. id # <<Absent, 0>> => id \in K
    BY <1>5, <2>2
  <2>7. LostOf(feed, pos', K) \subseteq L
    <3> HIDE DEF id, K, L
    <3> QED
      BY <2>3, <2>4, <2>5, <2>6
  <2>8. Lost' \subseteq Lost \cup {} \cup Skipped'
    BY <2>7, LostIs
  <2>9. dropped' = dropped + 0
    BY <1>1, <1>8
  <2> QED
    BY <1>1, <2>8, <2>9, LossPaid, FS_EmptySet
<1> QED
  BY <1>6, <1>7, <1>8

\* What a queue and the ids of two queues weigh.
LEMMA QueuesIds ==
    ASSUME NEW q \in Seq(Entity), NEW b \in Seq(Entity)
    PROVE  LET Z == Stored(Elements(q)) \cup Stored(Elements(b))
           IN  IsFiniteSet(Z) /\ Cardinality(Z) <= Len(q) + Len(b)
<1> DEFINE Q == Stored(Elements(q))
           B == Stored(Elements(b))
<1>1. /\ IsFiniteSet(Q) /\ Cardinality(Q) <= Len(q)
      /\ IsFiniteSet(B) /\ Cardinality(B) <= Len(b)
      /\ Len(q) \in Nat /\ Len(b) \in Nat
  BY QueueIds
<1> HIDE DEF Q, B
<1>2. /\ IsFiniteSet(Q \cup B)
      /\ Cardinality(Q \cup B) = Cardinality(Q) + Cardinality(B) - Cardinality(Q \cap B)
  BY <1>1, FS_Union
<1>3. IsFiniteSet(Q \cap B)
  BY <1>1, FS_Subset
<1>4. Cardinality(Q) \in Nat /\ Cardinality(B) \in Nat /\ Cardinality(Q \cap B) \in Nat
  BY <1>1, <1>3, FS_CardinalityType
<1>5. IsFiniteSet(Q \cup B) /\ Cardinality(Q \cup B) <= Len(q) + Len(b)
  BY <1>1, <1>2, <1>4
<1> QED
  BY <1>5 DEF Q, B

\* A step that gives up at most the entries of the queues q and b, and counts
\* them, is paid for.
LEMMA ReleasePaid ==
    ASSUME TypeOK, LossKept, UNCHANGED <<feed, pos, skipped>>,
           NEW q \in Seq(Entity), NEW b \in Seq(Entity),
           Held(rows, persistQ, batch) \subseteq Held(rows', persistQ', batch')
               \cup (Stored(Elements(q)) \cup Stored(Elements(b))),
           dropped' = dropped + (Len(q) + Len(b))
    PROVE  IsFiniteSet(Missing') /\ Cardinality(Missing') <= dropped'
<1> DEFINE Z == Stored(Elements(q)) \cup Stored(Elements(b))
           n == Len(q) + Len(b)
<1>1. IsFiniteSet(Z) /\ Cardinality(Z) <= n
  BY QueuesIds
<1>n. n \in Nat
  OBVIOUS
<1>2. Lost' \subseteq Lost \cup Z
  BY OnlyReleased
<1>3. dropped \in Nat /\ dropped' = dropped + n
  BY DEF TypeOK, RingTypes
<1> HIDE DEF Z, n
<1> QED
  BY <1>1, <1>n, <1>2, <1>3, LossPaid

\* Nothing is given up when everything stays held.
LEMMA HeldPaid ==
    ASSUME TypeOK, LossKept, UNCHANGED <<feed, pos, skipped, dropped>>,
           Held(rows, persistQ, batch) \subseteq Held(rows', persistQ', batch')
    PROVE  IsFiniteSet(Missing') /\ Cardinality(Missing') <= dropped'
<1>1. Lost' \subseteq Lost \cup {}
  <2>1. Held(rows, persistQ, batch) \subseteq Held(rows', persistQ', batch') \cup {}
    OBVIOUS
  <2> QED
    BY <2>1, OnlyReleased
<1>2. dropped \in Nat /\ dropped' = dropped + 0
  BY DEF TypeOK, RingTypes
<1> QED
  BY <1>1, <1>2, LossPaid, FS_EmptySet

\* The worker: entries change their place, and what it drops or fails to
\* insert is counted.
LEMMA WorkerLoss ==
    ASSUME TypeOK, LossKept, WorkerNext, UNCHANGED feed
    PROVE  IsFiniteSet(Missing') /\ Cardinality(Missing') <= dropped'
<1> DEFINE R == Stored(rows)
           Q == Stored(Elements(persistQ))
           B == Stored(Elements(batch))
           H == Held(rows, persistQ, batch)
           K == Held(rows', persistQ', batch')
<1>0. /\ persistQ \in Seq(Entity) /\ batch \in Seq(Entity) /\ dropped \in Nat
      /\ Len(persistQ) \in Nat /\ Len(batch) \in Nat
      /\ <<>> \in Seq(Entity) /\ Len(<<>>) = 0
  BY DEF TypeOK, SinkTypes, RingTypes
<1>1. /\ H = R \cup Q \cup B
      /\ K = Stored(rows') \cup Stored(Elements(persistQ')) \cup Stored(Elements(batch'))
  BY HeldParts
<1>3. UNCHANGED <<feed, pos, skipped>>
  BY DEF WorkerNext, WorkerTake, FlushTick, WorkerStops, Insert, InsertFails, AfterInsert
<1>9. CASE WorkerTake \/ FlushTick
  <2>1. H \subseteq K
    <3>1. CASE WorkerTake
      <4>1. /\ persistQ # <<>> /\ rows' = rows
            /\ batch' = Append(batch, Head(persistQ)) /\ persistQ' = Tail(persistQ)
        BY <3>1 DEF WorkerTake
      <4>2. Head(persistQ) \in Entity /\ Tail(persistQ) \in Seq(Entity)
        BY <1>0, <4>1
      <4>3. Elements(batch') = Elements(batch) \cup {Head(persistQ)}
        BY <1>0, <4>1, <4>2, QueueElements
      <4>4. Elements(persistQ) \subseteq Elements(persistQ') \cup {Head(persistQ)}
        <5>1. /\ DOMAIN persistQ = 1..Len(persistQ)
              /\ DOMAIN Tail(persistQ) = 1..(Len(persistQ) - 1)
              /\ \A i \in 1..(Len(persistQ) - 1) : Tail(persistQ)[i] = persistQ[i + 1]
              /\ Head(persistQ) = persistQ[1]
          BY <1>0, <4>1
        <5>2. \A i \in DOMAIN persistQ : i = 1 \/ (i - 1 \in DOMAIN Tail(persistQ)
                                            /\ Tail(persistQ)[i - 1] = persistQ[i])
          BY <1>0, <5>1
        <5> SUFFICES ASSUME NEW i \in DOMAIN persistQ
                     PROVE  persistQ[i] \in Elements(persistQ') \cup {Head(persistQ)}
          BY DEF Elements
        <5>3. CASE i = 1
          BY <5>1, <5>3
        <5>4. CASE i # 1
          BY <4>1, <5>2, <5>4 DEF Elements
        <5> QED
          BY <5>3, <5>4
      <4>5. rows \cup Elements(persistQ) \cup Elements(batch)
              \subseteq rows' \cup Elements(persistQ') \cup Elements(batch')
        BY <4>1, <4>3, <4>4
      <4>6. \A S, T : S \subseteq T => Stored(S) \subseteq Stored(T)
        BY DEF Stored
      <4> QED
        BY <4>5, <4>6 DEF Held
    <3>2. CASE FlushTick
      BY <3>2 DEF FlushTick
    <3> QED
      BY <1>9, <3>1, <3>2
  <2>2. dropped' = dropped
    BY <1>9 DEF WorkerTake, FlushTick
  <2> QED
    BY <1>3, <2>1, <2>2, HeldPaid
<1>10. CASE WorkerStops
  <2>1. rows' = rows /\ batch' = batch
        /\ \/ persistQ' = persistQ /\ dropped' = dropped
           \/ persistQ' = <<>> /\ dropped' = dropped + Len(persistQ)
    BY <1>10 DEF WorkerStops
  <2>2. CASE persistQ' = persistQ /\ dropped' = dropped
    <3>1. H \subseteq K
      BY <2>1, <2>2
    <3> QED
      BY <1>3, <2>2, <3>1, HeldPaid
  <2>3. CASE persistQ' = <<>> /\ dropped' = dropped + Len(persistQ)
    <3>1. H \subseteq K \cup (Stored(Elements(persistQ)) \cup Stored(Elements(<<>>)))
      BY <1>1, <2>1, <2>3, HeldEmpty
    <3>2. dropped' = dropped + (Len(persistQ) + Len(<<>>))
      BY <1>0, <2>3
    <3> QED
      BY <1>0, <1>3, <3>1, <3>2, ReleasePaid
  <2> QED
    BY <2>1, <2>2, <2>3
<1>11. CASE Insert \/ InsertFails
  \* The batch is stored, or it is lost and counted; so is the channel, when
  \* the worker ends.
  <2> DEFINE q == IF last THEN persistQ ELSE <<>>
             b == IF Insert THEN <<>> ELSE batch
  <2>1. /\ batch' = <<>> /\ persistQ' = IF last THEN <<>> ELSE persistQ
        /\ dropped' = dropped + (Len(q) + Len(b))
    <3>1. /\ batch' = <<>> /\ persistQ' = IF last THEN <<>> ELSE persistQ
          /\ dropped' = dropped + (IF Insert THEN 0 ELSE Len(batch))
                                + (IF last THEN Len(persistQ) ELSE 0)
      <4>1. CASE Insert
        BY <4>1 DEF Insert, AfterInsert
      <4>2. CASE ~Insert
        BY <1>11, <4>2 DEF InsertFails, AfterInsert
      <4> QED
        BY <4>1, <4>2
    <3>2. /\ Len(q) = IF last THEN Len(persistQ) ELSE 0
          /\ Len(b) = IF Insert THEN 0 ELSE Len(batch)
      BY <1>0
    <3>3. Len(q) \in Nat /\ Len(b) \in Nat
      BY <1>0, <3>2
    <3> DEFINE x == Len(q)
               y == Len(b)
    <3>4. dropped' = dropped + y + x /\ x \in Nat /\ y \in Nat
      BY <3>1, <3>2, <3>3
    <3> HIDE DEF q, b, x, y
    <3>5. dropped' = dropped + (x + y)
      BY <1>0, <3>4
    <3> QED
      BY <3>1, <3>5 DEF x, y
  <2>2. q \in Seq(Entity) /\ b \in Seq(Entity)
    BY <1>0
  <2>3. H \subseteq K \cup (Stored(Elements(q)) \cup Stored(Elements(b)))
    <3>1. R \cup B \subseteq Stored(rows') \cup Stored(Elements(b))
      <4>1. CASE Insert
        <5>1. rows' = insert_batch(batch)
          BY <4>1 DEF Insert
        <5> QED
          BY <5>1, InsertHolds
      <4>2. CASE ~Insert
        <5>1. rows' = rows
          BY <1>11, <4>2 DEF InsertFails
        <5> QED
          BY <4>2, <5>1
      <4> QED
        BY <4>1, <4>2
    <3>2. Q \subseteq Stored(Elements(persistQ')) \cup Stored(Elements(q))
      BY <2>1
    <3> HIDE DEF Q, R, B, H, K, q, b
    <3> QED
      BY <1>1, <3>1, <3>2
  <2> HIDE DEF q, b
  <2> QED
    BY <1>3, <2>1, <2>2, <2>3, ReleasePaid
<1> QED
  BY <1>9, <1>10, <1>11 DEF WorkerNext

\* The process: its end costs what channel and batch held, and its start goes
\* back to what was committed, or skips what is ahead.
LEMMA ProcessLoss ==
    ASSUME TypeOK, LossKept, ProcessNext, UNCHANGED feed
    PROVE  IsFiniteSet(Missing') /\ Cardinality(Missing') <= dropped'
<1>1. CASE CtrlC
  <2>1. UNCHANGED <<pos, skipped, rows, persistQ, batch, dropped>>
    BY <1>1 DEF CtrlC, sinkVars
  <2> QED
    BY <2>1, HeldPaid
<1>2. CASE Exit
  <2>1. /\ persistQ' = <<>> /\ batch' = <<>> /\ UNCHANGED <<pos, skipped, rows>>
        /\ dropped' = dropped + Len(persistQ) + Len(batch)
    BY <1>2 DEF Exit
  <2>2. /\ persistQ \in Seq(Entity) /\ batch \in Seq(Entity)
        /\ dropped \in Nat /\ Len(persistQ) \in Nat /\ Len(batch) \in Nat
    BY DEF TypeOK, SinkTypes, RingTypes
  <2>3. Held(rows, persistQ, batch) \subseteq Held(rows', persistQ', batch')
            \cup (Stored(Elements(persistQ)) \cup Stored(Elements(batch)))
    <3>1. Held(rows, persistQ, batch)
             = Stored(rows) \cup Stored(Elements(persistQ)) \cup Stored(Elements(batch))
      BY HeldParts
    <3>2. Held(rows', persistQ', batch') = Stored(rows)
      BY <2>1, HeldParts, HeldEmpty
    <3> QED
      BY <3>1, <3>2
  <2>4. dropped' = dropped + (Len(persistQ) + Len(batch))
    BY <2>1, <2>2
  <2> QED
    BY <2>1, <2>2, <2>3, <2>4, ReleasePaid
<1>3. CASE Start
  <2>1. UNCHANGED <<rows, persistQ, batch, dropped>>
    BY <1>3 DEF Start
  <2>2. CASE UNCHANGED <<pos, skipped>>
    BY <2>1, <2>2, HeldPaid
  <2>3. CASE Resume
    <3>1. PICK p \in [Topic -> UNION {StartsAt(t) : t \in Topic}] :
             /\ \A t \in Topic : p[t] \in StartsAt(t)
             /\ pos' = p
             /\ skipped' = skipped \cup (UNION {{t} \X (pos[t] + 1 .. p[t]) :
                                  t \in {u \in Topic : committed[u] = NoOffset}})
      BY <2>3 DEF Resume
    <3>2. /\ pos \in [Topic -> Nat] /\ committed \in [Topic -> Nat]
          /\ \A t \in Topic : committed[t] <= pos[t] /\ Len(feed[t]) \in Nat
      BY FeedAssumption DEF TypeOK, ConsumerTypes, LossKept
    <3>3. \A t \in Topic : p[t] \in Nat
      BY <3>1, <3>2 DEF StartsAt
    <3>4. p \in [Topic -> Nat]
      BY <3>1, <3>3
    <3>5. \A t \in Topic : \A i \in pos[t] + 1 .. p[t] : <<t, i>> \in skipped'
      <4> SUFFICES ASSUME NEW t \in Topic, NEW i \in pos[t] + 1 .. p[t]
                   PROVE  <<t, i>> \in skipped'
        OBVIOUS
      <4>1. CASE committed[t] = NoOffset
        BY <3>1, <4>1
      <4>2. CASE committed[t] # NoOffset
        <5>1. p[t] = committed[t]
          BY <3>1, <4>2 DEF StartsAt
        <5> QED
          BY <3>2, <3>3, <5>1
      <4> QED
        BY <4>1, <4>2
    <3>6. \A t \in Topic : \A i \in pos[t] + 1 .. p[t] :
             parse_log_entity(t, feed[t][i], 0).event_id \in Skipped'
      <4>1. \A k \in skipped' :
               parse_log_entity(k[1], feed[k[1]][k[2]], 0).event_id \in Skipped'
        BY DEF Skipped
      <4> SUFFICES ASSUME NEW t \in Topic, NEW i \in pos[t] + 1 .. p[t]
                   PROVE  parse_log_entity(t, feed[t][i], 0).event_id \in Skipped'
        OBVIOUS
      <4>2. <<t, i>> \in skipped' /\ <<t, i>>[1] = t /\ <<t, i>>[2] = i
        BY <3>5
      <4> DEFINE k == <<t, i>>
      <4>3. k \in skipped' /\ k[1] = t /\ k[2] = i
        BY <4>2
      <4> HIDE DEF k
      <4> QED
        BY <4>1, <4>3
    <3>7. LostOf(feed, p, Held(rows, persistQ, batch))
             \subseteq LostOf(feed, pos, Held(rows, persistQ, batch)) \cup Skipped'
      <4> DEFINE H == Held(rows, persistQ, batch)
                 X == Skipped'
      <4> HIDE DEF H, X
      <4>1. LostOf(feed, p, H) \subseteq LostOf(feed, pos, H) \cup X
        <5>1. \A t \in Topic : \A i \in pos[t] + 1 .. p[t] :
                 parse_log_entity(t, feed[t][i], 0).event_id \in X
          BY <3>6 DEF X
        <5> QED
          BY <3>2, <3>4, <5>1, LostWhenMoved
      <4> QED
        BY <4>1 DEF H, X
    <3>8. Lost' \subseteq Lost \cup {} \cup Skipped'
      BY <2>1, <3>1, <3>7, LostIs
    <3>9. dropped \in Nat /\ dropped' = dropped + 0 /\ skipped \subseteq skipped'
      BY <2>1, <3>1 DEF TypeOK, RingTypes
    <3> QED
      BY <3>8, <3>9, LossPaid, FS_EmptySet
  <2> QED
    BY <1>3, <2>2, <2>3 DEF Start
<1> QED
  BY <1>1, <1>2, <1>3 DEF ProcessNext

\* Every step keeps the bound.
LEMMA NextLoss == TypeOK /\ LossKept /\ [Next]_vars => LossKept'
<1> SUFFICES ASSUME TypeOK, LossKept, [Next]_vars PROVE LossKept'
  OBVIOUS
<1>s. SUFFICES IsFiniteSet(Missing') /\ Cardinality(Missing') <= dropped'
  BY NextOrdered DEF LossKept
<1>1. ASSUME UNCHANGED <<feed, pos, skipped, rows, persistQ, batch, dropped>>
      PROVE  IsFiniteSet(Missing') /\ Cardinality(Missing') <= dropped'
  BY <1>1, HeldPaid
<1>2. CASE Step(AutoCommit \/ LoopEnds)
  BY <1>1, <1>2 DEF Step, AutoCommit, LoopEnds, sinkVars
<1>3. CASE Step(SocketNext)
  BY <1>1, <1>3, SocketTurns DEF Step, sinkVars
<1>4. CASE UNCHANGED vars
  BY <1>1, <1>4 DEF vars, sinkVars
<1>5. CASE Step(\E t \in Topic : Deliver(t))
  BY <1>5, DeliverLoss DEF Step
<1>6. CASE Step(WorkerNext \/ ProcessNext)
  BY <1>6, WorkerLoss, ProcessLoss DEF Step
<1> QED
  BY <1>2, <1>3, <1>4, <1>5, <1>6 DEF Next, Step, ConsumerNext

\* Nothing is lost when nothing was delivered.
LEMMA InitLoss == Init => LossKept
<1> SUFFICES ASSUME Init PROVE LossKept
  OBVIOUS
<1>1. \A t \in Topic : pos[t] = 0 /\ committed[t] = 0
  BY DEF Init, NoOffset
<1>2. \A t \in Topic : IdsIn(feed, t, pos[t]) = {}
  BY <1>1 DEF IdsIn
<1>3. Lost = {}
  <2>1. LostOf(feed, pos, Held(rows, persistQ, batch)) = {}
    BY <1>2, InLost
  <2> QED
    BY <2>1, LostIs
<1>4. IsFiniteSet(Missing) /\ Cardinality(Missing) = 0
  BY <1>3, FS_EmptySet DEF Missing
<1> QED
  BY <1>1, <1>4 DEF Init, LossKept

-----------------------------------------------------------------------------
(* Theorems *)

\* The conjunction is inductive.
LEMMA NextIInv == IInv /\ [Next]_vars => IInv'
  BY NextTypes, NextDown, NextOnce, NextShown, NextKept DEF IInv

\* It holds when the service starts for the first time.
LEMMA InitIInv == Init => IInv
<1> SUFFICES ASSUME Init PROVE IInv
  OBVIOUS
<1>1. ConsumerTypes
  BY DEF Init, ConsumerTypes, NoOffset
<1>2. SinkTypes
  <2>1. /\ persistQ = <<>> /\ batch = <<>> /\ rows = {} /\ worker = "recv"
        /\ last = FALSE
    BY DEF Init
  <2>2. <<>> \in Seq(Entity) /\ Len(<<>>) = 0
    OBVIOUS
  <2>3. PersistCap \in Nat /\ BatchMax \in Nat /\ BatchMax > 0
    BY FeedBounds
  <2>4. Len(persistQ) <= PersistCap /\ Len(batch) <= BatchMax /\ Len(batch) < BatchMax
    BY <2>1, <2>2, <2>3
  <2> QED
    BY <2>1, <2>2, <2>4 DEF SinkTypes
<1>3. RingTypes
  BY DEF Init, RingTypes
<1>4. conn \in [Client -> Connection] /\ \A c \in Client : conn[c].at # "open"
  <2>1. New.at = "new"
    BY DEF New
  <2> QED
    BY <2>1, Connections DEF Init
<1>5. TypeOK
  BY <1>1, <1>2, <1>3, <1>4 DEF TypeOK
<1>6. Down /\ StoredOnce
  BY DEF Init, Down, StoredOnce
<1>7. Shown
  <2>1. Elements(<<>>) = {}
    BY DEF Elements
  <2> QED
    BY <2>1 DEF Init, Shown
<1>8. InStep /\ StreamKeepsPromise
  BY <1>4 DEF InStep, StreamKeepsPromise
<1> QED
  BY <1>5, <1>6, <1>7, <1>8 DEF IInv

\* The inductive invariant of the feed.
THEOREM Inductive == Spec => []IInv
  BY InitIInv, NextIInv, PTL DEF Spec

\* The types of consumer, worker, ring and connections; channel and batch keep
\* their bounds.
THEOREM TypeCorrect == Spec => []TypeOK
<1>1. IInv => TypeOK
  BY DEF IInv
<1> QED
  BY <1>1, Inductive, PTL

\* insert_batch stores an id once, for any feeds, batches and restarts.
THEOREM IdsStoredOnce == Spec => []StoredOnce
<1>1. IInv => StoredOnce
  BY DEF IInv
<1> QED
  BY <1>1, Inductive, PTL

\* insert_batch never changes or removes a row.
THEOREM StoredRowsStay == Spec => RowsStay
<1>1. IInv /\ [Next]_vars => [rows \subseteq rows']_vars
  BY RowsChange, InsertKeeps DEF IInv
<1> QED
  BY <1>1, Inductive, PTL DEF Spec, RowsStay

\* parse_log_entity and parse_kafka_message agree on every record there may be
\* that serde does not read as a live event.
THEOREM LogWasShown == Spec => []StoredWasShown
<1>1. IInv => StoredWasShown
  BY DEF IInv, Shown, StoredWasShown
<1> QED
  BY <1>1, Inductive, PTL

\* handle_socket keeps its promise to every client, for any filters and any
\* capacity of the broadcast channel.
THEOREM PromiseKept == Spec => []StreamKeepsPromise
<1>1. IInv => StreamKeepsPromise
  BY DEF IInv
<1> QED
  BY <1>1, Inductive, PTL

\* An event is lost only by an entry that was given up - refused by the full
\* channel, in a batch whose INSERT failed, or held when worker or process
\* ended - or by a start at the end of a topic that has no committed offset,
\* for any feeds, capacities and batches.
THEOREM LossesHaveCause == Spec => []LossHasCause
<1>1. LossKept => LossHasCause
  BY DEF LossKept, LossHasCause, Missing
<1>2. IInv => TypeOK
  BY DEF IInv
<1> QED
  BY <1>1, <1>2, InitLoss, NextLoss, Inductive, PTL DEF Spec

=============================================================================
