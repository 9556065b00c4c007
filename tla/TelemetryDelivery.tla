------------------------- MODULE TelemetryDelivery -------------------------
(***************************************************************************)
(* The path of an event from the agent's local buffer to Kafka.            *)
(*                                                                         *)
(* Agent: the osquery task pushes results into the buffer; the drain loop  *)
(* takes batches out of it and sends them on the event stream while it     *)
(* holds the mutex around FleetClient; the command listener polls the      *)
(* acknowledgements under the same mutex and reconnects when the inbound   *)
(* side is closed.  Fleet server: one task per stream publishes every      *)
(* event to Kafka and answers with an acknowledgement.                     *)
(*                                                                         *)
(*   buffer -> drain.batch -> outQ -> srv -> kafka                         *)
(*                            inQ <- cmdQ <-'                              *)
(*                                                                         *)
(* outQ stands for the agent's outbound mpsc channel and whatever HTTP/2   *)
(* has in flight towards the server, cmdQ for the server's command channel *)
(* and inQ for the reader task and the agent's inbound mpsc channel.       *)
(***************************************************************************)
EXTENDS Naturals, Sequences, FiniteSets

CONSTANTS NumEvents,    \* events the collector produces, numbered in order
          MaxEvents,    \* event_buffer_max
          Batch,        \* event_drain_batch
          OutCap,       \* capacity of the outbound channel
          CmdCap,       \* capacity of the server's command channel
          InCap,        \* capacity of the inbound channel and its reader
          MaxDisconnects, MaxCrashes, MaxIngestErrors, MaxStoreErrors,
          MaxUnanswered, MaxExpiries   \* bounds on the faults of a behaviour

ASSUME CapacityAssumption ==
    {MaxEvents, Batch, OutCap, CmdCap, InCap} \subseteq Nat \ {0}
ASSUME FaultAssumption ==
    {NumEvents, MaxDisconnects, MaxCrashes, MaxIngestErrors, MaxStoreErrors,
     MaxUnanswered, MaxExpiries} \subseteq Nat

VARIABLES produced,     \* the collector has produced events 1..produced
          up,           \* the agent process is running
          buffer,       \* the event buffer: oldest first
          drain,        \* the drain loop: pc, its batch, how far it is
          mutex,        \* who holds the mutex around FleetClient
          cmd,          \* the command listener: "poll" or "reconnect"
          tokenValid,   \* the stored JWT is still accepted
          open,         \* the current event stream is alive
          outQ, cmdQ, inQ,
          srv,          \* the stream task of the server: pc and the event in hand
          orphans,      \* tasks of dead streams and the events they still have
          unanswered,   \* produce requests without an answer that the broker
                        \* may still carry out
          kafka,        \* the telemetry topic
          evicted,      \* history: number of rows the limit evicted
          faults        \* history: number of faults of each kind

agentVars == <<up, buffer, drain, mutex, cmd, tokenValid>>
streamVars == <<open, outQ, cmdQ, inQ, srv, orphans>>
topicVars == <<unanswered, kafka>>
vars == <<produced, agentVars, streamVars, topicVars, evicted, faults>>

Event == 1..NumEvents
NoEvent == 0
FaultKind == {"disconnect", "crash", "ingest", "unanswered", "store", "expiry"}

Fifo == INSTANCE BoundedFifo
            WITH Payload <- Event, Limits <- {MaxEvents}, MaxTake <- Batch,
                 queue <- buffer, limit <- MaxEvents, taken <- drain.batch

Elements(s) == {s[i] : i \in DOMAIN s}

Idle == [pc |-> "idle", batch |-> <<>>, done |-> 0]
NoTask == [pc |-> "idle", ev |-> NoEvent]

Init ==
    /\ produced = 0 /\ up = TRUE
    /\ buffer = <<>> /\ drain = Idle
    /\ mutex = "free" /\ cmd = "poll" /\ tokenValid = TRUE
    /\ open = TRUE
    /\ outQ = <<>> /\ cmdQ = <<>> /\ inQ = <<>>
    /\ srv = NoTask /\ orphans = {}
    /\ unanswered = {} /\ kafka = <<>> /\ evicted = 0
    /\ faults = [k \in FaultKind |-> 0]

Count(kind, bound) ==
    /\ faults[kind] < bound
    /\ faults' = [faults EXCEPT ![kind] = @ + 1]

-----------------------------------------------------------------------------
(* Agent: collector and drain loop *)

\* EventBuffer::push as seen by its callers.  The two statements are one
\* step: the connection mutex excludes every other operation, and what a
\* crash between them leaves behind is EventBuffer's subject.
Push(e) ==
    /\ buffer' = Fifo!Pushed(buffer, e, MaxEvents)
    /\ evicted' = evicted + (Len(buffer) + 1 - Len(buffer'))

\* The osquery task receives a result and buffers it; when SQLite fails the
\* event is logged and dropped.
Collect ==
    /\ up /\ produced < NumEvents
    /\ produced' = produced + 1
    /\ \/ Push(produced + 1) /\ UNCHANGED faults
       \/ Count("store", MaxStoreErrors) /\ UNCHANGED <<buffer, evicted>>
    /\ UNCHANGED <<up, drain, mutex, cmd, tokenValid, streamVars, topicVars>>

\* Mutant of DrainTick: the loop only drains full batches.
DrainFullBatch ==
    /\ up /\ drain.pc = "idle" /\ Len(buffer) >= Batch
    /\ drain' = [pc |-> "lock", batch |-> Fifo!Oldest(buffer, Batch), done |-> 0]
    /\ buffer' = Fifo!WithoutOldest(buffer, Batch)
    /\ UNCHANGED <<produced, up, mutex, cmd, tokenValid, streamVars, topicVars,
                   evicted, faults>>

\* Mutant of DrainTick: the batch is read but not deleted.
DrainPeek ==
    /\ up /\ drain.pc = "idle" /\ buffer # <<>>
    /\ drain' = [pc |-> "lock", batch |-> Fifo!Oldest(buffer, Batch), done |-> 0]
    /\ UNCHANGED <<produced, up, buffer, mutex, cmd, tokenValid, streamVars, topicVars,
                   evicted, faults>>

\* A tick of the drain loop: the batch is deleted from the buffer before
\* any of it is sent.
DrainTick ==
    /\ up /\ drain.pc = "idle" /\ buffer # <<>>
    /\ drain' = [pc |-> "lock", batch |-> Fifo!Oldest(buffer, Batch), done |-> 0]
    /\ buffer' = Fifo!WithoutOldest(buffer, Batch)
    /\ UNCHANGED <<produced, up, mutex, cmd, tokenValid, streamVars, topicVars,
                   evicted, faults>>

DrainLock ==
    /\ up /\ drain.pc = "lock" /\ mutex = "free"
    /\ mutex' = "drain"
    /\ drain' = [drain EXCEPT !.pc = "send"]
    /\ UNCHANGED <<produced, up, buffer, cmd, tokenValid, streamVars, topicVars,
                   evicted, faults>>

\* Mutant of Advance: the mutex is not released after the last event.
AdvanceKeepsMutex ==
    /\ IF drain.done + 1 = Len(drain.batch)
       THEN drain' = Idle
       ELSE drain' = [drain EXCEPT !.done = @ + 1]
    /\ UNCHANGED mutex

\* The drain loop moves on to the next event of its batch; after the last
\* one the guard goes out of scope and the loop waits for its next tick.
Advance ==
    IF drain.done + 1 = Len(drain.batch)
    THEN drain' = Idle /\ mutex' = "free"
    ELSE drain' = [drain EXCEPT !.done = @ + 1] /\ UNCHANGED mutex

\* send_events: tx.send(event).await, which waits for room in the channel.
SendOne ==
    /\ up /\ drain.pc = "send" /\ open /\ Len(outQ) < OutCap
    /\ outQ' = Append(outQ, drain.batch[drain.done + 1])
    /\ Advance
    /\ UNCHANGED <<produced, up, buffer, cmd, tokenValid, open, cmdQ, inQ, srv,
                   orphans, topicVars, evicted, faults>>

\* Mutant of SendFails: the batch is not re-queued.
SendFailsDrops ==
    /\ up /\ drain.pc = "send" /\ ~open
    /\ drain' = Idle /\ mutex' = "free"
    /\ UNCHANGED <<produced, up, buffer, cmd, tokenValid, streamVars,
                   topicVars, evicted, faults>>

\* send_events: the receiver is gone, "Send channel closed".  The loop goes
\* on to re-queue the whole batch, with the events it has already sent.
SendFails ==
    /\ up /\ drain.pc = "send" /\ ~open
    /\ drain' = [drain EXCEPT !.pc = "requeue", !.done = 0]
    /\ UNCHANGED <<produced, up, buffer, mutex, cmd, tokenValid, streamVars,
                   topicVars, evicted, faults>>

\* for event in events { let _ = buffer.push(event).await; }, still under
\* the mutex; an error of push is ignored.
RequeueOne ==
    /\ up /\ drain.pc = "requeue"
    /\ \/ Push(drain.batch[drain.done + 1]) /\ UNCHANGED faults
       \/ Count("store", MaxStoreErrors) /\ UNCHANGED <<buffer, evicted>>
    /\ Advance
    /\ UNCHANGED <<produced, up, cmd, tokenValid, streamVars, topicVars>>

-----------------------------------------------------------------------------
(* Agent: heartbeat loop *)

\* The mutex is held while the heartbeat call is awaited ...
HeartbeatLock ==
    /\ up /\ mutex = "free"
    /\ mutex' = "heartbeat"
    /\ UNCHANGED <<produced, up, buffer, drain, cmd, tokenValid, streamVars, topicVars,
                   evicted, faults>>

\* ... which ends with an answer, a refusal or the channel's timeout; an
\* error is only logged.
HeartbeatDone ==
    /\ up /\ mutex = "heartbeat"
    /\ mutex' = "free"
    /\ UNCHANGED <<produced, up, buffer, drain, cmd, tokenValid, streamVars, topicVars,
                   evicted, faults>>

-----------------------------------------------------------------------------
(* Agent: command listener *)

\* try_receive takes a command.  The server sends only acknowledgements, for
\* which CommandHandler::handle does nothing.
PollCommand ==
    /\ up /\ cmd = "poll" /\ mutex = "free" /\ inQ # <<>>
    /\ inQ' = Tail(inQ)
    /\ UNCHANGED <<produced, agentVars, open, outQ, cmdQ, srv, orphans, topicVars,
                   evicted, faults>>

\* try_receive finds nothing; the listener sleeps and polls again.
PollEmpty ==
    /\ up /\ cmd = "poll" /\ mutex = "free" /\ inQ = <<>> /\ open
    /\ UNCHANGED vars

\* try_receive reports that the inbound channel is closed.
PollClosed ==
    /\ up /\ cmd = "poll" /\ mutex = "free" /\ inQ = <<>> /\ ~open
    /\ cmd' = "reconnect"
    /\ UNCHANGED <<produced, up, buffer, drain, mutex, tokenValid, streamVars,
                   topicVars, evicted, faults>>

\* connect with the stored token opens a stream with new, empty channels.
\* The mutex is held throughout, so nobody else sees an intermediate state.
Reconnect ==
    /\ up /\ cmd = "reconnect" /\ mutex = "free" /\ tokenValid
    /\ cmd' = "poll"
    /\ open' = TRUE
    /\ outQ' = <<>> /\ cmdQ' = <<>> /\ inQ' = <<>> /\ srv' = NoTask
    /\ UNCHANGED <<produced, up, buffer, drain, mutex, tokenValid, orphans,
                   topicVars, evicted, faults>>

\* connect fails: no server, or the server rejects the token.  Channels and
\* stream stay as they were; the listener backs off and polls again.
ReconnectFails ==
    /\ up /\ cmd = "reconnect" /\ mutex = "free"
    /\ cmd' = "poll"
    /\ UNCHANGED <<produced, up, buffer, drain, mutex, tokenValid, streamVars,
                   topicVars, evicted, faults>>

\* The reader task moves a command into the inbound channel when it has room.
ReadCommand ==
    /\ up /\ open /\ cmdQ # <<>> /\ Len(inQ) < InCap
    /\ inQ' = Append(inQ, Head(cmdQ))
    /\ cmdQ' = Tail(cmdQ)
    /\ UNCHANGED <<produced, agentVars, open, outQ, srv, orphans, topicVars,
                   evicted, faults>>

-----------------------------------------------------------------------------
(* Fleet server: the task of the current stream *)

ServerReceive ==
    /\ open /\ srv.pc = "idle" /\ outQ # <<>>
    /\ srv' = [pc |-> "publish", ev |-> Head(outQ)]
    /\ outQ' = Tail(outQ)
    /\ UNCHANGED <<produced, agentVars, open, cmdQ, inQ, orphans, topicVars,
                   evicted, faults>>

\* ingest_event: Kafka takes the event and an acknowledgement is due.
Ingest ==
    /\ srv.pc = "publish"
    /\ kafka' = Append(kafka, srv.ev)
    /\ srv' = [srv EXCEPT !.pc = "ack"]
    /\ UNCHANGED <<produced, agentVars, open, outQ, cmdQ, inQ, orphans,
                   unanswered, evicted, faults>>

\* Mutant of IngestFails: a refused event is acknowledged.
IngestFailsAcked ==
    /\ srv.pc = "publish" /\ Count("ingest", MaxIngestErrors)
    /\ srv' = [srv EXCEPT !.pc = "ack"]
    /\ UNCHANGED <<produced, agentVars, open, outQ, cmdQ, inQ, orphans, topicVars,
                   evicted>>

\* Mutant of IngestFails: a refused event is tried again after the others.
IngestFailsRetried ==
    /\ srv.pc = "publish" /\ Count("ingest", MaxIngestErrors)
    /\ srv' = NoTask
    /\ outQ' = Append(outQ, srv.ev)
    /\ UNCHANGED <<produced, agentVars, open, cmdQ, inQ, orphans, topicVars, evicted>>

\* ingest_event: Kafka refuses the event.  The error is logged, nothing is
\* sent to the agent and the task takes the next event.
IngestFails ==
    /\ srv.pc = "publish" /\ Count("ingest", MaxIngestErrors)
    /\ srv' = NoTask
    /\ UNCHANGED <<produced, agentVars, open, outQ, cmdQ, inQ, orphans, topicVars,
                   evicted>>

\* cmd_tx.send(ack).await, which waits for room in the command channel.
SendAck ==
    /\ srv.pc = "ack" /\ Len(cmdQ) < CmdCap
    /\ cmdQ' = Append(cmdQ, srv.ev)
    /\ srv' = NoTask
    /\ UNCHANGED <<produced, agentVars, open, outQ, inQ, orphans, topicVars,
                   evicted, faults>>

\* A task whose stream is gone handles the first of the events it has left
\* and then goes on to the next, or ends because the acknowledgement or the
\* read tells it that the stream is gone.
OrphanMoves(o) ==
    \/ orphans' = orphans \ {o}
    \/ /\ Len(o.rest) > 1
       /\ orphans' = (orphans \ {o}) \cup {[o EXCEPT !.rest = Tail(@)]}

OrphanIngest ==
    \E o \in orphans :
        /\ OrphanMoves(o)
        /\ kafka' = Append(kafka, Head(o.rest))
        /\ UNCHANGED <<produced, agentVars, open, outQ, cmdQ, inQ, srv, unanswered,
                       evicted, faults>>

OrphanIngestFails ==
    \E o \in orphans :
        /\ OrphanMoves(o)
        /\ Count("ingest", MaxIngestErrors)
        /\ UNCHANGED <<produced, agentVars, open, outQ, cmdQ, inQ, srv, topicVars,
                       evicted>>

-----------------------------------------------------------------------------
(* The producer: librdkafka without idempotence *)

\* A produce request for e gets no answer.  The broker may have carried it
\* out, or do so later; librdkafka sends the event again, until the message
\* timeout makes it give up (IngestFails).
Unanswer(e) ==
    /\ Count("unanswered", MaxUnanswered)
    /\ unanswered' = unanswered \cup {[n |-> faults["unanswered"], ev |-> e]}
    /\ UNCHANGED <<produced, agentVars, streamVars, kafka, evicted>>

ProduceUnanswered == srv.pc = "publish" /\ Unanswer(srv.ev)

OrphanUnanswered == \E o \in orphans : Unanswer(Head(o.rest))

\* The broker carries out such a request, however late ...
LateWrite ==
    \E u \in unanswered :
        /\ unanswered' = unanswered \ {u}
        /\ kafka' = Append(kafka, u.ev)
        /\ UNCHANGED <<produced, agentVars, streamVars, evicted, faults>>

\* ... or it never reached the broker.
RequestLost ==
    \E u \in unanswered :
        /\ unanswered' = unanswered \ {u}
        /\ UNCHANGED <<produced, agentVars, streamVars, kafka, evicted, faults>>

-----------------------------------------------------------------------------
(* Faults *)

\* What a dead stream's task still has: the event it is publishing, and the
\* first k of those on the wire, which the server had received.
Leftover(k) ==
    (IF srv.pc = "publish" THEN <<srv.ev>> ELSE <<>>) \o SubSeq(outQ, 1, k)

\* What the end of a stream does: nothing more crosses it in either
\* direction.  The server's task is not cancelled; it goes on with the events
\* it has until it notices.
StreamEnds ==
    /\ open' = FALSE
    /\ outQ' = <<>> /\ cmdQ' = <<>> /\ srv' = NoTask
    /\ \E k \in 0..Len(outQ) :
          orphans' = IF Leftover(k) = <<>> THEN orphans
                     ELSE orphans \cup
                          {[n |-> faults["disconnect"] + faults["crash"],
                            rest |-> Leftover(k)]}

Disconnect ==
    /\ open /\ Count("disconnect", MaxDisconnects)
    /\ StreamEnds
    /\ UNCHANGED <<produced, agentVars, inQ, topicVars, evicted>>

\* The server process dies: its tasks and their publishes die with it.
ServerDies ==
    /\ open /\ Count("disconnect", MaxDisconnects)
    /\ open' = FALSE
    /\ outQ' = <<>> /\ cmdQ' = <<>> /\ srv' = NoTask /\ orphans' = {}
    /\ UNCHANGED <<produced, agentVars, inQ, topicVars, evicted>>

\* The agent dies, or stops on Ctrl-C, which aborts its tasks the same way.
AgentDies ==
    /\ up /\ Count("crash", MaxCrashes)
    /\ up' = FALSE
    /\ drain' = Idle /\ mutex' = "free" /\ cmd' = "poll"
    /\ inQ' = <<>>
    /\ StreamEnds
    /\ UNCHANGED <<produced, buffer, tokenValid, topicVars, evicted>>

\* systemd restarts the agent, which enrols, gets a new token and opens a
\* stream before it starts its tasks.
AgentStarts ==
    /\ ~up
    /\ up' = TRUE /\ tokenValid' = TRUE /\ open' = TRUE
    /\ UNCHANGED <<produced, buffer, drain, mutex, cmd, outQ, cmdQ, inQ, srv,
                   orphans, topicVars, evicted, faults>>

\* 24 hours after enrolment the token is no longer accepted.  A stream that
\* is open stays open: the token is only looked at when it is opened.
TokenExpires ==
    /\ up /\ tokenValid /\ Count("expiry", MaxExpiries)
    /\ tokenValid' = FALSE
    /\ UNCHANGED <<produced, up, buffer, drain, mutex, cmd, streamVars, topicVars,
                   evicted>>

-----------------------------------------------------------------------------

AgentNext ==
    \/ Collect \/ DrainTick \/ DrainLock \/ SendOne \/ SendFails \/ RequeueOne
    \/ PollCommand \/ PollEmpty \/ PollClosed \/ Reconnect \/ ReconnectFails
    \/ ReadCommand \/ HeartbeatLock \/ HeartbeatDone

ServerNext ==
    \/ ServerReceive \/ Ingest \/ IngestFails \/ SendAck
    \/ OrphanIngest \/ OrphanIngestFails

ProducerNext ==
    \/ ProduceUnanswered \/ OrphanUnanswered \/ LateWrite \/ RequestLost

FaultNext ==
    \/ Disconnect \/ ServerDies \/ AgentDies \/ AgentStarts \/ TokenExpires

Next == AgentNext \/ ServerNext \/ ProducerNext \/ FaultNext

\* The tasks are scheduled by tokio and each of their steps eventually runs.
\* The tokio mutex serves waiters in order, so whoever keeps asking for it
\* gets it: strong fairness of the steps that take it.  A heartbeat ends, by
\* its timeout at the latest.  So does a connection attempt, and with a valid
\* token one eventually succeeds because the network and the server are
\* assumed to come back.
Fairness ==
    /\ WF_vars(DrainTick) /\ WF_vars(SendOne) /\ WF_vars(SendFails)
    /\ WF_vars(RequeueOne) /\ WF_vars(ReadCommand) /\ WF_vars(HeartbeatDone)
    /\ WF_vars(ServerReceive) /\ WF_vars(Ingest) /\ WF_vars(SendAck)
    /\ WF_vars(OrphanIngest) /\ WF_vars(AgentStarts)
    /\ SF_vars(DrainLock) /\ SF_vars(PollCommand) /\ SF_vars(PollClosed)
    /\ SF_vars(Reconnect \/ ReconnectFails) /\ SF_vars(Reconnect)

Spec == Init /\ [][Next]_vars

FairSpec == Spec /\ Fairness

-----------------------------------------------------------------------------
(* Properties *)

\* Types of the variables.
TypeOK ==
    /\ produced \in 0..NumEvents
    /\ up \in BOOLEAN /\ tokenValid \in BOOLEAN /\ open \in BOOLEAN
    /\ buffer \in Seq(Event)
    /\ drain \in [pc : {"idle", "lock", "send", "requeue"},
                  batch : Seq(Event), done : Nat]
    /\ mutex \in {"free", "drain", "heartbeat"}
    /\ cmd \in {"poll", "reconnect"}
    /\ outQ \in Seq(Event) /\ cmdQ \in Seq(Event) /\ inQ \in Seq(Event)
    /\ srv \in [pc : {"idle", "publish", "ack"}, ev : Event \cup {NoEvent}]
    /\ orphans \in SUBSET [n : Nat, rest : Seq(Event) \ {<<>>}]
    /\ unanswered \in SUBSET [n : Nat, ev : Event]
    /\ kafka \in Seq(Event)
    /\ evicted \in Nat
    /\ faults \in [FaultKind -> Nat]

Occurrences(s, e) == Cardinality({i \in DOMAIN s : s[i] = e})

\* The part of the batch that is only in the drain loop's memory.
Unsent == SubSeq(drain.batch, drain.done + 1, Len(drain.batch))

\* How many copies of e exist on the way from the buffer to Kafka.
Copies(e) ==
    Occurrences(buffer, e) + Occurrences(Unsent, e) + Occurrences(outQ, e)
    + (IF srv.pc = "publish" /\ srv.ev = e THEN 1 ELSE 0)
    + Cardinality({p \in orphans \X (1..OutCap + 1) :
                     p[2] \in DOMAIN p[1].rest /\ p[1].rest[p[2]] = e})
    + Occurrences(kafka, e)

Lost == {e \in 1..produced : Copies(e) = 0}

\* Where duplicates come from.  A stream that breaks in the middle of a batch
\* can add one copy of an event, because the batch is re-queued with the
\* events already sent; a produce request without an answer can add one,
\* because the producer sends the event again.  Draining and re-queueing,
\* however often, adds none.
CopiesHaveCause ==
    \A e \in Event :
        Copies(e) <= 1 + faults["disconnect"] + faults["unanswered"]

\* What a fault can cost.  A broken stream loses at most what the outbound
\* channel holds and the event in the server's hand, a dying agent also its
\* batch, a failed publish or insertion one event, an eviction its row; no
\* interleaving of drain loop, listener and server loses anything else.
LossBudget ==
    Cardinality(Lost) <=
        (OutCap + 1) * (faults["disconnect"] + faults["crash"])
        + Batch * faults["crash"] + faults["ingest"] + faults["store"] + evicted

\* An acknowledgement, wherever it is on its way to the agent, is for an
\* event that Kafka has.
AckedIsPublished == Elements(cmdQ) \cup Elements(inQ) \subseteq Elements(kafka)

\* As long as no stream broke and every produce request was answered, Kafka
\* has the events once each and in the order in which they were collected,
\* whatever was evicted or refused in between.
PublishedInOrder ==
    faults["disconnect"] + faults["crash"] + faults["unanswered"] = 0 =>
        \A i, j \in DOMAIN kafka : i < j => kafka[i] < kafka[j]

\* Everything the agent collected has left it, and every acknowledgement has
\* been read.
Settled ==
    /\ buffer = <<>> /\ drain = Idle /\ outQ = <<>> /\ srv = NoTask
    /\ orphans = {} /\ cmdQ = <<>> /\ inQ = <<>> /\ open

\* Everyone waits: the drain loop holds the mutex and waits for room in the
\* outbound channel, the server's task waits for room in the command channel,
\* the reader task for room in the inbound channel and the listener for the
\* mutex.  Only the end of the stream or of the agent resolves it.
CircularWait ==
    /\ up /\ open /\ drain.pc = "send" /\ mutex = "drain"
    /\ srv.pc = "ack"
    /\ Len(outQ) = OutCap /\ Len(cmdQ) = CmdCap /\ Len(inQ) = InCap

\* Once no more events arrive and the faults are over, the pipeline empties,
\* through any number of reconnects and re-queues, or it ends in the circular
\* wait; there is no other way to get stuck.
EventuallySettles == <>[](Settled \/ CircularWait)

\* A command that has reached the agent's inbound channel is handled, unless
\* it is caught in the circular wait: holding the mutex while it waits for
\* room or for the heartbeat's answer, no task keeps the listener from it in
\* any other way.
HandledUnlessStuck == (Len(inQ) > 0) ~> (Len(inQ) = 0 \/ CircularWait)

\* What the documented protocol promises: the agent deletes an event from its
\* buffer when its acknowledgement arrives, so that, evictions and SQLite
\* errors aside, no event is ever lost.
DocumentedNoLoss == evicted + faults["store"] = 0 => Lost = {}

=============================================================================
