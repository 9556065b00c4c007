# Verification of aigis-zero

TLA+ models of the parts of aigis-zero (an endpoint detection and response
system in Rust) that carry state across processes, with TLC runs on small
instances and TLAPS proofs for every value of the constants. Paths are relative
to the repository root; `PROJECT.json` maps every definition to the lines it
models.

## The system

```
 endpoint                          fleet server                 Kafka
 osquery -> event buffer (SQLite)  event_stream task  publish   aigis.events.raw
              | drain loop   gRPC     |  ^                        |
              '-> FleetClient =======>'  | ack                    v
 command listener <======================'               kafka-pipeline (router)
 heartbeat loop   ------> heartbeat ---> PostgreSQL       | typed topics, DLQ
 start            ------> register  ---> PostgreSQL       v
                                          ^            rule-engine -> alerts
 operator -> api-backend -----------------'               v
                 ^---- live events, logs, alerts --- api-backend, frontend
```

| Component | State | Operations | What makes it correct |
|---|---|---|---|
| agent/event-buffer | SQLite table, limit | new, push, drain, len | oldest first, bounded, survives crashes |
| agent/agent-bin | drain, heartbeat, watchdog tasks | start and enrol, drain loop, heartbeat loop, Ctrl-C | loses and duplicates only what it must |
| agent/fleet-client | stream, two mpsc channels, token | connect, enroll, send_events, heartbeat, try_receive, reader task | a broken stream is noticed and replaced |
| agent/agent-core | osquery task, command listener, error counter | collect, poll, reconnect with back-off, dispatch commands | commands are handled while events flow |
| agent/osquery-client | last result per query | tick, diff, send | every change is reported once |
| agent/isolation | an nftables table | isolate, de_isolate, is_isolated | the host's state is what was ordered |
| fleet-server/grpc-listener | one task and one channel per stream | register_agent, event_stream, heartbeat | acknowledge only what is published |
| fleet-server/node-enrollment, health-tracker, postgres-interface | tables nodes, enrollment_events, node_health | upsert_node, record_heartbeat | one identity per machine, true audit trail, quarantine untouched |
| fleet-server/kafka-handler, fleet-server-bin | producer | publish, ingest_event | |
| kafka-pipeline | consumer offset, metrics | route, dead-letter, commit | every event reaches the topic of its rules, none is skipped |
| rule-engine | rule set, dedup cache, two channels, batch | consume, scan, suppress, batch, reload, shut down | no alert lost silently, none repeated in the window |
| api-backend | PostgreSQL, broadcast channel, persistence channel | isolate and release, log persistence, WebSocket fan-out, alerts | stored once, a client gets what its filter promises, orders carried out |
| frontend | filter and rows of the alerts page | list, refresh, update a status | a page shows what its filter selects |
| sdk, infra, scripts, tracing crates | | | not modelled: generated code, deployment, logging |

The hard behaviours: tasks of the agent that share one `tokio::sync::Mutex`
around `FleetClient` and hold it across awaits; bounded channels in a cycle
(events out, acknowledgements back); a buffer that deletes before it sends;
streams that break while a task of the server is still publishing; crashes
between two SQL statements; concurrent transactions at READ COMMITTED; commits
of Kafka offsets before the work is done; shutdown of several tasks by one
token; differences that are only worth something if none is missing; kernel
state that outlives the process that made it; answers of HTTP requests in any
order. `hazards` in `PROJECT.json` lists each at its line, with the properties
that watch it.

## Modules

| Module | Models |
|---|---|
| `BoundedFifo` | abstract specification of the event buffer: a persistent bounded queue |
| `EventBuffer` | `event-buffer/src/lib.rs` statement by statement; refines `BoundedFifo` |
| `TelemetryDelivery` | the path buffer, drain loop, `FleetClient`, stream task, Kafka and the acknowledgements back, with heartbeat loop, command listener and reconnects; uses the operators of `BoundedFifo` for the buffer |
| `NodeRegistry` | the tables of the fleet server and everybody who writes to them |
| `EventCategories` | the tables of event types in the router and in the scanner, as pure operators |
| `EventRouter` | kafka-pipeline: a consumer group of routers over one raw partition; extends `EventCategories` |
| `AlertDedup` | rule-engine's sharded LRU deduplicator |
| `RuleEngine` | rule-engine's consumer, scanner and batcher with their channels, and its rule sets; extends `AlertDedup` and takes its actions as part of its own |
| `QueryScheduler` | the osquery queries of the agent: seeding, one task per query, differential results, the task that buffers them |
| `HostIsolation` | the isolation crate over the nftables of the kernel |
| `AgentControl` | the agent from its start under systemd to its command listener; extends `HostIsolation` and takes its operations as part of its own |
| `LiveFeed` | api-backend from Kafka to the log table and to the WebSockets |
| `AlertTriage` | the alerts table, its HTTP handlers and the alerts pages of several operators |
| `MC*` | instances for TLC |
| `*Proofs` | theorems |

### EventBuffer

`table` is the SQLite table as a function from row ids to payloads, `autoinc`
the largest id handed out. All operations hold the connection's mutex, so they
do not interleave, but a push is two auto-committed statements: `Insert` and
`Evict` are two steps, and `CrashAndReopen` (process death and `new` with any
configured limit) or `EvictFails` (an SQLite error after the INSERT) can come
between them. `drain` is a transaction and one step. `removed` and `trimmed` are
history variables.

### TelemetryDelivery

Events are the numbers of their collection. `drain.pc` is where the drain loop
of `main.rs` is: `idle` (waiting for its tick), `lock` (batch deleted from the
buffer, waiting for the mutex), `send` (inside `send_events`), `requeue`
(pushing the batch back, still under the mutex). The command listener's
reconnect is one step because it holds the mutex from `lock()` to the end of
`connect`; its poll and its reconnect are two, because it releases the mutex in
between. `outQ` stands for the outbound channel and the wire, `cmdQ` for the
server's command channel, `inQ` for the reader task and the inbound channel.
The server's task takes an event, publishes it, and then waits for room to
acknowledge it. When a stream ends, its task is not cancelled: `orphans` are
such tasks with the events they have received and still publish. The producer of
kafka-handler sets no idempotence, so a produce request that gets no answer is
sent again: `Unanswer` leaves the first request on its way, where it is written
late (`LateWrite`, a second copy, or a copy of an event the caller gave up) or
never (`RequestLost`). Faults are a broken stream, the death of either process,
a refused publish, a produce request without an answer, an SQLite error and the
expiry of the token; each kind has a bound (`Max...`) and is counted in `faults`.

Abstractions: payloads and their JSON form and time (ticks, back-off delays). The
wire between `outQ` and the server is part of `outQ`, so `OutCap` stands for the
channel of 100 and the HTTP/2 window. Re-queued events that do not parse are not
modelled; `encode_osquery_result` writes valid JSON.

### NodeRegistry

A `RegisterAgent` call goes `new` -> `found` (SELECT) -> `written` (INSERT or
UPDATE, uncommitted, row locked) -> `answered` or `failed`. A second INSERT of a
machine waits for the first transaction and then fails on the UNIQUE constraint.
`ordered` records the last operator order per node. Hostname, OS and agent
version are one value `version`. The calls are those that passed the check of
the enrolment secret; the others change nothing.

### EventCategories and EventRouter

An event is what the two programs look at: whether it is JSON, its `event_type`
and the `query_name` of its payload. `Target` and `Normalized` are what `process`
computes from it, `Category` is what `evaluate` of the rule engine computes from
the result.

`raw` is one partition; `committed`, `owner` and `position` are the group's
state. `hand` and `stage` say which record each worker has and whether it has
been sent. The service is scaled out by KEDA (`infra/k8s/keda-scaler.yml`), so
there are several workers: one whose session timed out does not know it and
finishes its record. A commit is asked for (`requested`) and lands later; what
has not landed when the partition moves is refused. Offsets count records, so
committing record `o` means that the next owner starts with `o + 1`. `SendTwice`
is a retry of librdkafka, which runs without idempotence; `SendFails` covers the
send that failed and the one whose answer was lost. What a broker has
acknowledged it keeps: `acks=1` and the loss of a leader are outside the model.

### AlertDedup

`seen` is the union of the shards; `used` in an entry is the number of the call
that last touched it, which gives the LRU order. `checks` is the history of all
calls and what they returned, and the properties are stated over it. A restart
empties the cache.

### RuleEngine

`cons`, `scan` and `batch` are where the three tasks are. Sends into a channel
wait while it is full and fail when its reader is gone. After the token, each
task leaves its `select` at a time of its own, drains what it finds and ends;
`closing` is the scanner between its last look at the channel and the drop of
the receiver. Since `main` keeps `alert_tx`, the batcher never sees its channel
closed, and that branch is left out. The rules are compiled at the start and at
every SIGHUP from a directory that may be good, broken or missing
(`Directory`); a compilation that fails keeps the old registry, a missing
directory gives empty rule sets. What a rule finds in a payload is the parameter
`Matches`, since matching is YARA-X's. An alert is the number of its check. One
partition with one consumer is modelled; rebalances are in `EventRouter`. Stream
errors only log.

### QueryScheduler

`proc` walks through `new` (open, and seed an empty table by one INSERT per
default query, without a transaction), `load_queries` and `run`. Each query has
a task with its `first_run` flag, the rows of the last tick (`previous`) and what
it has still to send: an added and a removed part, or a snapshot. A tick can fail
(no connection, an error or garbage for an answer: nothing changes) or hang for ever
(the read has no timeout). `view` is not in the code: it is what somebody who
replays the buffered results has, and the properties compare it with the task
and with the host. `clean` says that no result of a query was dropped since its
last snapshot. Intervals, the Thrift framing and the columns of rows are
abstracted; rows are compared as sets because the code does.

### HostIsolation and AgentControl

`isolated` and `accepts` are the table `aigis_isolation` in the kernel: whether it
is there and which address it lets through. They are untouched by the death of
the agent and lost in a reboot. `de_isolate` has three outcomes besides success,
one of which (`de_isolate_masked`) reports success while the table stays.

`phase` is where `main` is between its start and READY. `save_node_id_to_config`
goes by lines, so the outcome depends on the `layout` of the file: in a plain one
it replaces the id or adds it at the end of the section; in a headerless one (no line is
exactly `[agent]`, for instance because of a trailing comment) it adds none; an
indented `node_id` is not found, and a second key is added. `parses` says
whether the file is still TOML that a start accepts: a duplicate key is not.
Saving is two steps, because `fs::write` truncates and then writes; a death
between them leaves a torn file, with which no later start succeeds either. `Reachable` couples the two
modules: an isolated host reaches only the address of its rules, and no
resolver, so an endpoint that is a name, or one that was resolved to the
fallback, cuts the agent off. The listener polls, handles one command at a time,
backs off and reconnects; a reconnect replaces the inbound channel. The fleet
server of this repository sends nothing but acknowledgements (`OutgoingCommand`);
the other commands are in the protocol and in the handler and are modelled as
inputs. The buffer and the drain loop of the same process are in
`TelemetryDelivery`.

### LiveFeed

`feed` is what the topics hold, `pos` how far the consumer is and `committed`
where a restart begins, which automatic commits move at any time. A topic without
a committed offset is resumed anywhere from the old position to the end
(`StartsAt`), because `auto.offset.reset` is `latest` and the end moves while no
process runs; what is passed over is `skipped`. A record is what the two parsers
look at: whether it is JSON, whether serde reads it as a `LiveEvent`, and the
fields of the two chains. `LiveEvent` is tagged with `type` and has its fields
under `data` (`models/ws.rs:4`), while the parser of log entries looks at the top
level: the two are different fields of a record. `parse_kafka_message` (for the
browsers) and `parse_log_entity` (for the table) are translated field by field.
`Persist` is `try_send` into a bounded channel; `batch` is flushed when full or by
the timer, and an INSERT that fails clears it. `ring` is tokio's broadcast
channel: a subscriber that is more than `RingCap` behind goes on with the oldest
event left. A connection has a filter from its query, then from its subscribe
messages. Log entries whose id does not parse get a new one (`fresh`).

### AlertTriage

`rows` is the table, `fetches` and `patches` are the HTTP requests of each page
that are under way. A request is served (reads or writes the table) and answered
(changes the page) in two steps, in any order among the requests of a page. A
change that fails for the page (network, timeout of the Next proxy) may have
reached the service: it stays `late` and is served at any later time, or never.
The severity stands for all columns that never change. `basis`, `by` and `doubt`
are history variables, by which the two properties say what a page may be
excused for.

## Runs

| Run | Bounds | States | Shows |
|---|---|---|---|
| `event_buffer` | 2 payloads, limits {1, 2}, batches {1, 2}, 5 rows ever, 2 failures | 3.5 k | order, limit, refinement of `BoundedFifo` |
| `delivery_safety` | 3 events, buffer 2, batch 2, channels of 1, 2 disconnects, 1 of each other fault | 2.2 M | duplicates, losses, acknowledgements, order |
| `delivery_liveness` | 5 events, buffer 2, batch 2, channels of 1, 1 disconnect | 73 k | the pipeline settles and commands are handled, or everyone is in the circular wait |
| `delivery_ack_protocol` | 2 events, 1 disconnect | | finding 1 below |
| `node_registry` | 3 calls, 2 machines, 2 versions, 3 node ids, 2 heartbeats, 1 error; symmetric | 25 k | one identity, audit trail, quarantine, agent status |
| `event_router` | 2 workers, 2 records of 3 kinds, 3 assignments, 1 send fault | 143 k | nothing skipped, nothing overtaken, duplicates have a cause, router and scanner agree, every record settles |
| `rule_engine` | channels of 1, batches of 2, 2 records of 3 kinds, good, broken and missing rules, a deduplicator of one entry and window 1, 4 checks, 1 failure, 1 kill | 212 k | what is skipped or lost, and by what; shutdown ends; detections are stored |
| `query_scheduler` | 3 queries, one of them in snapshot mode, 2 rows, channel of 1, 1 each of changes, errors, drops, hangs and crashes | 114 k | seeding, differences add up, the view converges |
| `agent_control` | 2 node ids, 3 kinds of command, channel of 1, 2 attempts, 2 commands, 1 death, 2 outages, 1 error of nft, named and numeric endpoints, 3 layouts of the config | 1.5 M | the agent keeps its name, obeys the last word, tells the truth, backs off and comes back |
| `agent_backoff` | 1 node id, no command, 1 outage | | finding 2 below |
| `live_feed` | an event in its raw and its routed copy with an alert, or one without an id with two records that are live events already; persistence channel of 1, batches of 2, ring of 2, 1 client with 1 change of filter, 1 failure, 1 stop | 296 k | stored once, losses have a cause, log and live view agree, streams keep their promise, entries settle |
| `alerts` | deduplicator: 4 signatures, 2 shards of 2 entries, window 2, 3 ticks, 5 calls, 1 restart; pages: 2 operators (symmetric), 2 alerts, pages of 1, 2 lists per page, 2 updates, 1 failure | 5.9 M | why an alert is suppressed and when one passes again; what a page shows answers its filter; an operator's own change stays |

Why the bounds are enough: capacity one makes every bounded channel full after
one element, so every wait occurs; a buffer of two rows and batches of two give
evictions, half-sent and half-requeued batches; three events overflow the
buffer; two disconnects let an orphan of one stream live through the next. The
cycle outbound channel, server task, command channel, inbound channel holds four
events when each holds one, so five are needed for everyone to wait, and the run
has five. The liveness run has no crash, refused publish or expired token: they
only end streams or lose events, which the disconnect does as well, and the
safety run has them all. Three enrolments of one machine are a winner, a loser and a late re-enrolment. Five
row ids and two failures let a table start two rows over its limit. Three
assignments over two workers let a partition leave a worker that still has a
record and come back to it. Three signatures share a shard of two entries, so
one of them is evicted inside its window, and five calls put a repetition
between its rivals. Two records of the rule engine with the same signature are
suppressed or, a window apart, fill the alert channel while the scanner still
holds one. Two rows let one change be an
addition, a removal or both, and a channel of one separates the two parts of
such a result. Two commands let the second contradict the first, in the channel
or across a death; two outages let a reconnect fail and succeed. `MCSpec` of
`agent_control` starts with the server assigning the first id, which loses
nothing: the two ids are interchangeable. A ring of two
is overrun by the third event, and one client is enough because the tasks of
sockets share only the ring. Two lists of a page can be answered in the wrong
order, and two updates can be of one operator or of two, one of them late. The
deduplicator and the pages share no state; `MCAlerts` explores one while the
other is at its start.

Fairness. `TelemetryDelivery`: tokio runs every task that can run (weak fairness
of each step); its mutex is a FIFO queue, so a task that keeps asking gets it
even when others take it in between (strong fairness of the steps that lock); a
heartbeat and a connection attempt end, by their timeouts at the latest; an
attempt with a valid token eventually succeeds, that is, the network and the
server come back; systemd restarts a dead agent. The collector and the faults
have no fairness. `EventRouter`: a worker goes on with its record, since `send`
has a timeout, and the coordinator assigns a free partition (weak fairness of
each worker and of the assignment); crashes, timeouts and the landing of commits
have none. `RuleEngine`: tokio runs each of the three tasks (weak fairness per
task), and the broker and database calls they wait for end. `QueryScheduler`: the
start runs on, the osquery task receives, the timer of each query fires and
osqueryd's answer is one of the replies of the model, a hang included (weak);
waiting senders of an mpsc channel are served in the order of their requests
(strong fairness of `Send`). `AgentControl`: systemd starts a dead agent and
`main` goes on (`StartNext`), the listener is run (`ListenerNext`), an outage ends
(`ServerBack`), all weak. `StreamReturns` names what excuses an agent without a
stream. `LiveFeed`: the flush timer fires and the worker takes and inserts (weak);
new records, automatic commits and clients have no fairness.

`CHECK_DEADLOCK FALSE` is set where the model may really stop: `delivery_liveness`
(the circular wait), `alerts` (a passive object whose calls are used up, and pages
whose requests are made and answered), `live_feed` (all records read, the client
gone), `query_scheduler` (a collector that could not open its file stays silent),
`agent_control` and `agent_backoff` (an agent that was stopped, or whose config
cannot be read).

## Findings

1. `delivery_ack_protocol`: both guides say that the agent deletes an event when
   its acknowledgement arrives (`fleet-server/guide.md:142`,
   `agent/guide.md:151`). The code deletes the batch before it sends it and
   ignores acknowledgements, so a disconnect loses what the channels hold.
   `LossBudget` says how much.
2. `agent_backoff`: the comments at `agent-core/src/lib.rs:24` and `:254` and
   `ISSUES.md:73` let the back-off start at 50 ms. The counter of errors is
   incremented before the delay is computed, so the first delay is 100 ms.
   `BackoffDoubles` is about the later ones.

Seen on the way, without a run of their own. In the agent:

* The fleet server's guide (`fleet-server/guide.md:256`) says that the agent
  enrols again when its token has expired. The listener reconnects with the
  stored token for ever; an open stream survives the expiry, so this shows at
  the first disconnect after it. It is one of the excuses of `StreamReturns`.
* `send_events` waits for room under the mutex that the command listener needs to
  make that room. Once the channels on the cycle (100 outbound, 64 in the server,
  100 inbound, and the HTTP/2 windows) are full, nobody moves until the stream
  ends: the drain loop waits for room in the outbound channel, the server's task
  for room for an acknowledgement, the reader task for room in the inbound
  channel, and the listener for the mutex (`CircularWait`). No single batch has
  to be that large: the listener can be away from the mutex for several batches,
  for instance during its back-off sleep of up to 12.8 s, and the batch size is
  configurable. With five events over channels of one TLC reaches the wait, so
  that "every command in the inbound channel is handled" is false of the model;
  `HandledUnlessStuck` and `EventuallySettles` say that this is the only way to
  get stuck. The comment at `agent-core/src/lib.rs:168` promises a latency below
  5 ms and names the remedy, a lock of its own for the inbound channel.
* The producer of the fleet server runs without idempotence: an event can be in
  Kafka twice, or although its publish was reported as failed, with no stream
  broken. `CopiesHaveCause` counts it.
* A death between the truncation and the write of the config file leaves one the
  agent cannot start with. This can happen only at the first start as a node
  (`ConfigStays`). `save_node_id_to_config` finds neither a header that is not
  exactly `[agent]`, so that the id is not saved, nor an indented `node_id`, so
  that a second key makes the file unreadable for the next start;
  `RunningIsNamed` says which files that concerns.
* The unit's `ExecReload` sends SIGHUP, which nothing handles: a reload ends the
  agent. `TimeoutStartSec=45` ends one that waits for a server that is down.
* An unresolvable endpoint becomes 127.0.0.1, and the rules of an isolation drop
  DNS: both can cut an isolated host off from its server.
* `de_isolate` takes every error with "could not process rule" for success, and
  that is how nft reports every error of the kernel. The answers of the handler
  are only logged; no response reaches an operator.
* The osquery tables are seeded without a transaction, so a partial seed stays
  for ever (`SeedComplete`). `connect` of the osquery client never fails, so the
  retry loop around it is dead, and the read of an answer has no timeout. Nobody
  cancels the shutdown token, so the drain at shutdown is unreachable.
* Every heartbeat reports "healthy". Machines whose machine id cannot be read all
  enrol as "unknown-machine-id", which is one node.

In the fleet server and the pipeline:

* The transaction of `upsert_node` keeps the table correct (`OneNodePerMachine`),
  but the loser of a race of first enrolments gets "enrollment failed"
  (`InsertConflict`). It holds one lock, so there is no deadlock to look for.
* `recorded_at` of a heartbeat is taken before its transaction, so two heartbeats
  of one node can commit in the other order.
* `MessageProcessor` (`kafka-pipeline/src/consumer.rs:13`) says that an error skips
  the commit; `run` commits every record. For what is not JSON that is
  harmless, because it is a dead letter by then; after a failed send the event is
  gone, which is the exception `CommittedIsSettled` makes.
* The guide of kafka-pipeline promises strict chronological order per host.
  Records that were sent and whose commit had not landed are sent again after a
  crash or a rebalance, behind later ones; `NoOvertaking` is what does hold.
* Section 2 of the guide of kafka-pipeline lists event types (`process_terminate`,
  `exec`, `socket_connect`, `bind`, `sudo_exec` and others) that `route_topic` does not know and that are
  dead-lettered, and has normalized events go to `aigis.events.norm`, to which
  nothing is written. `ScannedByItsCategory` compares the two tables of the code.
* `kafka-admin` creates `aigis.heartbeats`, which nobody consumes, but neither
  `aigis.health` nor `aigis.events.norm`, to which api-backend subscribes; those
  two come from the compose files and `scripts/infra.sh`.
* `rule-engine/guide.md:49` says that every alert is persisted. Batcher and scanner
  see the same token and the batcher may end first; the alerts of the events
  the scanner then drains are dropped, with their offsets committed
  (`RunningKeepsAlerts` is about an engine nobody stops).
* The comment at `rule-engine/src/main.rs:281` names SIGTERM; only SIGINT is
  handled, so SIGTERM is `Kill` in the model and costs what `SkippedOnlyByStop`
  says.
* A rules directory that is missing at a reload is no error: the engine goes on
  with no rules.

In api-backend and frontend:

* `command_dispatched` is reported as true and nothing is sent; the fleet server
  has no path for commands other than acknowledgements.
* `auto.offset.reset` is `latest`: when a process ends before its first automatic
  commit, the next one starts at the end of the topics, and what was produced in
  between is neither shown nor stored. `LossHasCause` sets these records aside.
* A record that is a `LiveEvent` already is shown as it is, with the node and the
  type under `data`; the log takes them from the top level, where such a record
  usually has none, so that it is not stored, or, when it has other fields
  there, is stored under another node. `StoredWasShown` excepts these records.
* Section 7 of the guide of api-backend says that clients that lag are
  disconnected; `ws.rs:62` skips the frames and goes on (`StreamKeepsPromise`).
* Topics in the query of a WebSocket are lower-cased, those in a subscribe
  message are not.
* A status change that failed for the page may be executed later, also after a
  list without it was shown; `OwnWordStays` excuses the page until a list that was
  requested after all of its changes were done.
* The alerts page shows the answer that comes last, also one to an earlier
  filter; `limit` is clamped without a word; a status is stored as it is sent;
  the page and its count are two statements.

## Proofs

Every invariant, every action property and the refinement that the passing runs
check are proved, for every value of the constants that satisfies the named
assumptions: limits and bounds are natural numbers, batches and capacities
positive, `NoNode` is not a node; for `LiveFeed` that a record serde reads as a
`LiveEvent` has a node, and as a log a type, under `data`; for `AlertTriage` that there are finitely many alerts. TLC evaluates the
assumptions in the runs. All proofs are by an inductive invariant with one lemma
per action or group of actions; TLC checked the invariants of the counting
arguments before they were proved. The type invariants of the modules with proofs
are proved and not checked again by the runs, except `RuleEngine`'s, which both do.

* `EventBufferProofs`: `BufferOldestFirst` (`OldestFirst`), `BufferBounded`
  (`WithinLimit`, `OverflowOnlyByFailure`) and the refinement `BufferIsFifo`
  (`ImplementsFifo`). `OldestFirst` is not inductive: that an insertion keeps it
  needs `IdsHandedOut`, that no id in use or removed exceeds `autoinc`. The
  refinement mapping sorts the table by id. Instead of an induction over the table
  the proof counts: the ranks of a finite set of ids are an injection into as many
  positions, hence onto (`Positions`); a larger id takes the last position
  (`LastRow`), and deleting the oldest rows shifts the others (`OldestRows`).
* `TelemetryDeliveryProofs`: `TypeCorrect` (`TypeOK`), `AcksAreSound`
  (`AckedIsPublished`), `OrderKept` (`PublishedInOrder`), `LossIsBounded`
  (`LossBudget`) and `DuplicatesAreBounded` (`CopiesHaveCause`). The
  first two need that a busy drain loop is inside its batch (`InBatch`), a busy
  server task has an event in hand (`InHand`) and an acknowledgement that is due is
  for a published event (`DueIsPublished`). The other three rest on an invariant
  about the shape of the state (`Shape`) and on one description of every step as
  equations between sequences: an event leaves the front of one place and joins the
  end of the next. Order: without a broken stream the places from Kafka back to the
  collector are one increasing sequence (`InOrder`). Loss: what is neither in the
  agent nor on an open stream nor in Kafka is at risk, and its number is within
  what the faults so far may cost (`RiskBudget`). Duplicates: an event is at most
  once in buffer and batch together (`OnceInAgent`), and its copies, with those that
  a failed send is about to add, are at most one, one per broken stream and one per
  unanswered produce request, those that are still on their way set apart
  (`CopyBound`).
* `DatabaseProofs` holds the proofs of `NodeRegistry` and of `AlertTriage`.
  `MachineIdentity` (`OneNodePerMachine`, `AnswerNamesMachine`), `Quarantine`
  (`QuarantinePreserved`), `AuditTrail` (`AuditStartsWithNew`, `RowIsLastAudited`)
  and `StatusIsReported` (`AgentStatusIsLastReport`): the invariant adds what a call
  in progress knows (`Knowledge`), that one transaction at a time has written a
  machine (`OneWriter`), that no order precedes registration (`NoEarlyOrder`) and
  that only registered nodes have reports (`StatusInv`). `SettledPageAnswers`
  (`PageAnswersFilter`): the last request of a page is for its filter, and what was
  served answers what was asked (`LastAnswers`). `OwnWordKept` (`OwnWordStays`): a
  list that is not tainted has no change of its page beside it and agrees with the
  table on what the operator changed last; a page without doubt has at most one
  change under way, which is not late, and differs from the table by that one at
  most (`OwnWord`).
* `EventRouterProofs`: `NothingSkipped` (`TypeOK`, `CommittedIsSettled`),
  `OrderKept` (`NoOvertaking`), `RoutedToItsRules` (`ScannedByItsCategory`) and
  `DuplicatesHaveCause` (`DuplicatesBounded`). The first two are not inductive: a
  former owner's late commit and late send have to be covered. The invariant says
  that everything before a position that anybody works from (what is committed,
  requested or fetched, the record in each worker's hand) is settled, except what
  the owner itself still has in hand. The third rests on `OutIsForwarded`, that
  every entry of a topic is what `process` makes of its record, and on a lemma that
  compares the two tables for every name (`CategoryIsTarget`). The fourth counts the
  copies written together with the workers that hold the record (`CopiesToCome`).
* `RuleEngineProofs`: for the deduplicator `DedupTypeCorrect`,
  `NeverSilencedForEver` (`SuppressedHasReason`) and `HeldUnlessCrowdedOut`
  (`PassesAgainOnlyCrowdedOut`). The properties are about the history of calls, the
  decision about the cache; `EntriesPassed` and `LastUse` tie them, and `CrowdedOut`
  says that a signature that left the cache was the least recently used of a full
  shard. `EngineImplementsDedup` carries all of it into the engine: every step of
  the three tasks is a step of the deduplicator or leaves it alone. For the engine
  `EngineTypeCorrect` (`TypeOK`), `StopsCostAChannel` (`SkippedOnlyByStop`) and
  `RunningLosesNoAlert` (`RunningKeepsAlerts`). The second counts the records that
  are exposed, behind the consumer's position and neither evaluated nor given up
  nor in the channel, against the ends of processes and the failures (`Budget`).
* `AgentControlProofs`: `NamedWhenRunning` (`RunningIsNamed`), `LastWordObeyed`
  (`ObeysLast`), `AnswersStayTrue` (`AnswerStaysTrue`) and the action properties
  `ConfigStays` (`NamedConfigStays`) and `DelaysDouble` (`BackoffDoubles`).
  `ObeysLast` speaks of an idle listener only; `Pending` extends it to every state:
  the last order is the last one in the channel, else the one in hand, else the one
  the kernel's table obeys. `Saving` says what the config of each layout holds in
  each phase and whether it parses,
  `Idle` that a listener that is not running has nothing in hand. `InPace` ties the
  delay to the count of failures; the powers of two are computed one by one
  (`Delays`), since the solver knows them as numerals only.
* `QuerySchedulerProofs`: `DifferencesAddUp` (`DiffsAddUp`) and `TableSeeded`
  (`SeedComplete`). The replay of a channel is defined over its length, and what
  it computes would need an induction over data. `Continues` replaces it: from
  any rows, a replay of what is under way exists for every suffix of the channel,
  and the lemmas `ReplaysAppend`, `ReplaysTail` and `DiffReplays` say how a send, a
  receive and a new difference change it. `Owned` says that what a task has to
  send is its own, `Quiet` that a collector that does not run has nothing under
  way; `Seeding` relates the table to the INSERTs that were done.
* `LiveFeedProofs`: `IdsStoredOnce` (`StoredOnce`), `StoredRowsStay` (`RowsStay`),
  `LogWasShown` (`StoredWasShown`), `PromiseKept` (`StreamKeepsPromise`) and
  `LossesHaveCause` (`LossHasCause`). The lemma `Agree` is the core of the third: for
  every record that serde does not read as a `LiveEvent` the chain of fields of the
  one parser and that of the other meet in the same node and type; `Shown` carries this through channel and batch to the
  table. `InStep` keeps the position of each socket inside the ring and its filter
  the acknowledged one, `Down` says that a process that is down has neither batch
  nor worker. `LossKept` bounds what is missing and was not skipped by the
  number of entries given up, and adds that commits are of what was delivered, so
  that a restart goes back only where an offset is committed.

Only model-checked: the liveness properties `EventuallySettles`,
`HandledUnlessStuck`, `EveryRecordSettles`, `ShutdownCompletes`, `DetectionReported`,
`EntriesSettle`, `Converges` and `StreamReturns`, because fairness and ENABLED are
out of the prover's reach.

## Not modelled

* agent-tracing, fleet-tracing: logging set-up, no state.
* kafka-pipeline's topic admin, health server and metrics; rule-engine's metrics and
  health server: deployment, read-only endpoints, monotonic counters.
* `agent-core/src/orchestrator.rs` and `preflight.rs`, `update_schedule`,
  `upsert_queries` and `live_query` of the scheduler, `is_isolated`: no caller.
  `connection.rs`, `enrollment.rs`, `heartbeat.rs` and `stream.rs` of fleet-client
  are not in the module tree of the crate.
* The YARA-X engine (its matches are a parameter), rdkafka below its interface (a send
  succeeds, fails, is duplicated or written late), PostgreSQL below READ COMMITTED, the Thrift
  encoding of osquery and the JSON of events: libraries and data.
* Authentication, the routes and the reading queries of api-backend, the pages of
  the frontend other than the alerts page: they keep no state that another step
  reads.
* sdk (generated protobuf types), infra, scripts and workflows (deployment).

## What is left

An abstract specification of the detection path (at-least-once forwarding with a
bounded set of exceptions) that `EventRouter` and `RuleEngine` implement; a
composition of `AgentControl` with `TelemetryDelivery`, which share the fleet
client's mutex.
