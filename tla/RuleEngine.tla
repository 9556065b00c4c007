----------------------------- MODULE RuleEngine -----------------------------
(***************************************************************************)
(* rule-engine: from a partition of a typed topic to the table of alerts.  *)
(*                                                                         *)
(* Three tasks and two bounded channels (main.rs): the consumer takes      *)
(* records and commits them once they are in the event channel, the        *)
(* scanner evaluates them and puts the alerts that pass the deduplicator   *)
(* (AlertDedup) into the alert channel, the batcher collects and persists  *)
(* them.  One cancellation token ends all three, each in its own time; a   *)
(* channel is closed when the task at its end is gone.  SIGHUP swaps the   *)
(* rules.                                                                  *)
(*                                                                         *)
(* An alert is the number of its check in the history of AlertDedup.       *)
(***************************************************************************)
EXTENDS AlertDedup

CONSTANTS Payload,        \* records of the topic
          Empty, Poison,  \* payloads: no bytes, bytes that are not an event
          CategoryOf,     \* category of a payload (Category in EventCategories)
          Rule,           \* rule files that compile
          Directory,      \* what the rules directory may hold when it is read:
                          \* its subdirectories' names -> their files
          Matches,        \* set of rules -> payload -> sequence of signatures
          ChannelCap,     \* channel_capacity, of both channels
          BatchMax,       \* batch_max_size
          MaxRecords,     \* bound: length of the topic
          MaxFailures,    \* bound: failed scans, sends and inserts
          MaxKills        \* bound: deaths of the process

ASSUME PayloadAssumption == {Empty, Poison} \subseteq Payload
ASSUME RulesAssumption ==
    /\ CategoryOf \in [Payload -> STRING]
    /\ \A r \in SUBSET Rule : \A p \in Payload : Matches[r][p] \in Seq(Signature)
    /\ \A d \in Directory : DOMAIN d \subseteq STRING
ASSUME EngineBounds ==
    /\ ChannelCap \in Nat \ {0} /\ BatchMax \in Nat \ {0}
    /\ MaxRecords \in Nat /\ MaxFailures \in Nat /\ MaxKills \in Nat

VARIABLES topic, committed, requested,     \* Kafka, as in EventRouter
          position, cons,                  \* the consumer
          eventQ,                          \* event channel: offsets
          scan, todo, draining,            \* the scanner
          alertQ,                          \* alert channel: checks
          batch, buffer, flushing,         \* the batcher
          rules,                           \* category -> compiled rules
          cancelled,
          scanned, dead,                   \* records evaluated, dead letters
          kafka, rows,                     \* alerts broadcast, alerts stored
          unstored,                        \* alerts whose INSERT failed
          failures, kills

consVars == <<position, cons>>
scanVars == <<scan, todo, draining>>
batchVars == <<batch, buffer, flushing>>
brokerVars == <<topic, committed, requested>>
sinkVars == <<kafka, rows, unstored>>
doneVars == <<scanned, dead>>
mainVars == <<rules, cancelled>>

vars == <<dedupVars, brokerVars, consVars, eventQ, scanVars, alertQ, batchVars,
          mainVars, doneVars, sinkVars, failures, kills>>

-----------------------------------------------------------------------------
(* The rules *)

\* A subdirectory compiles when each of its files does.
compile_directory(files) == files \subseteq Rule

\* compile_all: a rule set for every subdirectory but "mitre", or an error if
\* one of them does not compile.  A directory that is not there has no rules,
\* which is no error.
compile_all(d) ==
    LET names == DOMAIN d \ {"mitre"}
    IN  [ok |-> \A n \in names : compile_directory(d[n]),
         rule_sets |-> [n \in names |-> d[n]]]

\* What the engine may start with: main fails if the rules do not compile.
Registries == {compile_all(d).rule_sets : d \in {d \in Directory : compile_all(d).ok}}

\* What the scanner finds.  A category without rules is no error.
evaluate(p) ==
    IF CategoryOf[p] \in DOMAIN rules THEN Matches[rules[CategoryOf[p]]][p] ELSE <<>>

-----------------------------------------------------------------------------

\* Freshly started tasks; `done` is what the group has committed.
Started(done) ==
    /\ position' = done /\ cons' = "poll" /\ requested' = 0
    /\ eventQ' = <<>> /\ alertQ' = <<>>
    /\ scan' = "recv" /\ todo' = <<>> /\ draining' = FALSE
    /\ batch' = "recv" /\ buffer' = <<>> /\ flushing' = FALSE
    /\ cancelled' = FALSE

Init ==
    /\ DedupInit
    /\ topic = <<>> /\ committed = 0 /\ requested = 0
    /\ position = 0 /\ cons = "poll"
    /\ eventQ = <<>> /\ alertQ = <<>>
    /\ scan = "recv" /\ todo = <<>> /\ draining = FALSE
    /\ batch = "recv" /\ buffer = <<>> /\ flushing = FALSE
    /\ rules \in Registries /\ cancelled = FALSE
    /\ scanned = {} /\ dead = {}
    /\ kafka = {} /\ rows = {} /\ unstored = {}
    /\ failures = 0 /\ kills = 0

\* A step fails, or not.
Fails == failures < MaxFailures /\ failures' = failures + 1

-----------------------------------------------------------------------------
(* Kafka *)

\* The router publishes a record.
Produce(p) ==
    /\ Len(topic) < MaxRecords
    /\ topic' = Append(topic, p)
    /\ UNCHANGED <<dedupVars, committed, requested, consVars, eventQ, scanVars,
                   alertQ, batchVars, mainVars, doneVars, sinkVars, failures,
                   kills>>

\* The broker stores an offset whose commit was requested.
CommitLands ==
    /\ requested # 0
    /\ committed' = requested /\ requested' = 0
    /\ UNCHANGED <<dedupVars, topic, consVars, eventQ, scanVars, alertQ,
                   batchVars, mainVars, doneVars, sinkVars, failures, kills>>

-----------------------------------------------------------------------------
(* The consumer: TelemetryConsumer::run *)

consumerFrame == <<dedupVars, topic, committed, scanVars, alertQ, batchVars,
                   mainVars, scanned, sinkVars, kills>>

\* Mutant of Poll: the offset is committed before the event is in the channel.
PollCommits ==
    /\ cons = "poll" /\ position < Len(topic)
    /\ position' = position + 1
    /\ requested' = position + 1
    /\ cons' = CASE topic[position + 1] = Empty  -> "poll"
                 [] topic[position + 1] = Poison -> "dlq"
                 [] OTHER                        -> "enqueue"
    /\ UNCHANGED <<consumerFrame, eventQ, dead, failures>>

\* The stream yields a record; an empty one is passed over uncommitted.
Poll ==
    /\ cons = "poll" /\ position < Len(topic)
    /\ position' = position + 1
    /\ cons' = CASE topic[position + 1] = Empty  -> "poll"
                 [] topic[position + 1] = Poison -> "dlq"
                 [] OTHER                        -> "enqueue"
    /\ UNCHANGED <<consumerFrame, requested, eventQ, dead, failures>>

\* channel_tx.send: waits for room.  When the scanner is gone it fails and
\* the consumer ends without a commit.
Enqueue ==
    /\ cons = "enqueue"
    /\ \/ /\ scan # "ended" /\ Len(eventQ) < ChannelCap
          /\ eventQ' = Append(eventQ, position)
          /\ cons' = "commit"
       \/ /\ scan = "ended"
          /\ cons' = "ended"
          /\ UNCHANGED eventQ
    /\ UNCHANGED <<consumerFrame, requested, position, dead, failures>>

\* send_poison_pill, whose failure is only logged.
DeadLetter ==
    /\ cons = "dlq"
    /\ cons' = "commit"
    /\ \/ dead' = dead \cup {position} /\ UNCHANGED failures
       \/ Fails /\ UNCHANGED dead
    /\ UNCHANGED <<consumerFrame, requested, position, eventQ>>

\* commit_message, asynchronously.
Commit ==
    /\ cons = "commit"
    /\ cons' = "poll"
    /\ requested' = position
    /\ UNCHANGED <<consumerFrame, position, eventQ, dead, failures>>

\* The token is seen between two records.
ConsumerStops ==
    /\ cons = "poll" /\ cancelled
    /\ cons' = "ended"
    /\ UNCHANGED <<consumerFrame, requested, position, eventQ, dead, failures>>

-----------------------------------------------------------------------------
(* The scanner *)

scannerFrame == <<brokerVars, consVars, batchVars, mainVars, dead, sinkVars, kills>>

\* Where the scanner waits for the next event: in its select, or in the loop
\* over try_recv once it has seen the token.
Waiting == IF draining THEN "drain" ELSE "recv"

\* The scanner is done with one alert of its event.
NextAlert ==
    /\ todo' = Tail(todo)
    /\ scan' = IF Len(todo) = 1 THEN Waiting ELSE "check"

\* An event is taken from the channel and evaluated with the current rules,
\* which the whole evaluation holds on to.
Scan ==
    /\ scan \in {"recv", "drain"} /\ eventQ # <<>>
    /\ eventQ' = Tail(eventQ)
    /\ \/ /\ todo' = evaluate(topic[Head(eventQ)])
          /\ scan' = IF todo' = <<>> THEN scan ELSE "check"
          /\ scanned' = scanned \cup {Head(eventQ)}
          /\ UNCHANGED failures
       \/ Fails /\ UNCHANGED <<scan, todo, scanned>>
    /\ UNCHANGED <<scannerFrame, dedupVars, draining, alertQ>>

\* check_and_record for the next alert: it is sent or suppressed.
CheckAlert ==
    /\ scan = "check"
    /\ CheckAndRecord(Head(todo))
    /\ IF Suppressed(Head(todo)) THEN NextAlert
                                 ELSE scan' = "send" /\ UNCHANGED todo
    /\ UNCHANGED <<scannerFrame, eventQ, draining, alertQ, scanned, failures>>

\* Mutant of SendAlert: the alert channel stays open behind the batcher.
SendAlertNeverClosed ==
    /\ scan = "send"
    /\ Len(alertQ) < ChannelCap
    /\ alertQ' = Append(alertQ, Len(checks))
    /\ NextAlert
    /\ UNCHANGED <<scannerFrame, dedupVars, eventQ, draining, scanned, failures>>

\* Mutant of SendAlert: the alert channel is unbounded.
SendAlertUnbounded ==
    /\ scan = "send"
    /\ \/ batch # "ended" /\ alertQ' = Append(alertQ, Len(checks))
       \/ batch = "ended" /\ UNCHANGED alertQ
    /\ NextAlert
    /\ UNCHANGED <<scannerFrame, dedupVars, eventQ, draining, scanned, failures>>

\* alert_tx.send: waits for room.  When the batcher is gone it fails and the
\* alert is dropped.
SendAlert ==
    /\ scan = "send"
    /\ \/ /\ batch # "ended" /\ Len(alertQ) < ChannelCap
          /\ alertQ' = Append(alertQ, Len(checks))
       \/ batch = "ended" /\ UNCHANGED alertQ
    /\ NextAlert
    /\ UNCHANGED <<scannerFrame, dedupVars, eventQ, draining, scanned, failures>>

\* The token is seen, or the consumer has dropped the other end of the empty
\* channel; after the token the channel is emptied first.
ScannerStops ==
    /\ \/ /\ scan = "recv" /\ cancelled
          /\ scan' = "drain" /\ draining' = TRUE
       \/ /\ scan = "recv" /\ cons = "ended" /\ eventQ = <<>>
          /\ scan' = "closing" /\ UNCHANGED draining
       \/ /\ scan = "drain" /\ eventQ = <<>>
          /\ scan' = "closing" /\ UNCHANGED draining
    /\ UNCHANGED <<scannerFrame, dedupVars, todo, eventQ, alertQ, scanned, failures>>

\* The task is gone and with it what has come into the channel since.
ScannerEnds ==
    /\ scan = "closing"
    /\ scan' = "ended" /\ eventQ' = <<>>
    /\ UNCHANGED <<scannerFrame, dedupVars, todo, draining, alertQ, scanned, failures>>

-----------------------------------------------------------------------------
(* The batcher and DualAlertSink::send_batch *)

batcherFrame == <<dedupVars, brokerVars, consVars, eventQ, scanVars, mainVars,
                  doneVars, kills>>

\* An alert is taken.  A full buffer is flushed, and any buffer when the
\* flush interval has passed since the last time.
Collect ==
    /\ batch = "recv" /\ alertQ # <<>>
    /\ alertQ' = Tail(alertQ)
    /\ buffer' = Append(buffer, Head(alertQ))
    /\ \/ batch' = "publish"
       \/ Len(buffer') < BatchMax /\ UNCHANGED batch
    /\ UNCHANGED <<batcherFrame, flushing, sinkVars, failures>>

\* Mutant of FlushTimer: only a full buffer is flushed.
FlushTimerFull ==
    /\ batch = "recv" /\ Len(buffer) >= BatchMax
    /\ batch' = "publish"
    /\ UNCHANGED <<batcherFrame, alertQ, buffer, flushing, sinkVars, failures>>

\* The flush interval passes without an alert.
FlushTimer ==
    /\ batch = "recv" /\ buffer # <<>>
    /\ batch' = "publish"
    /\ UNCHANGED <<batcherFrame, alertQ, buffer, flushing, sinkVars, failures>>

\* The token is seen.
BatcherStops ==
    /\ batch = "recv" /\ cancelled
    /\ batch' = "drain" /\ flushing' = TRUE
    /\ UNCHANGED <<batcherFrame, alertQ, buffer, sinkVars, failures>>

\* The loop over try_recv; when the channel is empty, the last flush.
FinalDrain ==
    /\ batch = "drain"
    /\ IF alertQ # <<>>
       THEN /\ alertQ' = Tail(alertQ)
            /\ buffer' = Append(buffer, Head(alertQ))
            /\ UNCHANGED batch
       ELSE /\ batch' = IF buffer = <<>> THEN "ended" ELSE "publish"
            /\ UNCHANGED <<alertQ, buffer>>
    /\ UNCHANGED <<batcherFrame, flushing, sinkVars, failures>>

Buffered == {buffer[i] : i \in DOMAIN buffer}

\* Every alert is broadcast; a failure is logged.
Publish ==
    /\ batch = "publish"
    /\ batch' = "insert"
    /\ \/ kafka' = kafka \cup Buffered /\ UNCHANGED failures
       \/ Fails /\ \E a \in Buffered : kafka' = kafka \cup (Buffered \ {a})
    /\ UNCHANGED <<batcherFrame, alertQ, buffer, flushing, rows, unstored>>

\* Mutant of Insert: the timer's flush stores the oldest alert only.
InsertOldest ==
    /\ batch = "insert"
    /\ buffer' = <<>>
    /\ IF flushing THEN batch' = "ended" /\ alertQ' = <<>>
                   ELSE batch' = "recv" /\ UNCHANGED alertQ
    /\ \/ rows' = rows \cup {buffer[1]} /\ UNCHANGED <<unstored, failures>>
       \/ Fails /\ unstored' = unstored \cup Buffered /\ UNCHANGED rows
    /\ UNCHANGED <<batcherFrame, flushing, kafka>>

\* One INSERT for the batch.  The buffer is cleared either way.  After the
\* last flush the task is gone and with it what the channel holds.
Insert ==
    /\ batch = "insert"
    /\ buffer' = <<>>
    /\ IF flushing THEN batch' = "ended" /\ alertQ' = <<>>
                   ELSE batch' = "recv" /\ UNCHANGED alertQ
    /\ \/ rows' = rows \cup Buffered /\ UNCHANGED <<unstored, failures>>
       \/ Fails /\ unstored' = unstored \cup Buffered /\ UNCHANGED rows
    /\ UNCHANGED <<batcherFrame, flushing, kafka>>

-----------------------------------------------------------------------------
(* main *)

\* Ctrl-C.
CtrlC ==
    /\ ~cancelled /\ run < MaxRuns
    /\ cancelled' = TRUE
    /\ UNCHANGED <<dedupVars, brokerVars, consVars, eventQ, scanVars, alertQ,
                   batchVars, rules, doneVars, sinkVars, failures, kills>>

Exited == cons = "ended" /\ scan = "ended" /\ batch = "ended"

\* All three tasks have been joined; the process is started again.
Restart ==
    /\ Exited
    /\ DedupRestart
    /\ Started(committed)
    /\ rules' \in Registries
    /\ UNCHANGED <<topic, committed, doneVars, sinkVars, failures, kills>>

\* The process dies, also by SIGTERM, which it does not handle.
Kill ==
    /\ kills < MaxKills /\ kills' = kills + 1
    /\ DedupRestart
    /\ Started(committed)
    /\ rules' \in Registries
    /\ UNCHANGED <<topic, committed, doneVars, sinkVars, failures>>

\* SIGHUP: rules that compile replace the current ones, others do not.
Reload(d) ==
    /\ rules' = IF compile_all(d).ok THEN compile_all(d).rule_sets ELSE rules
    /\ UNCHANGED <<dedupVars, brokerVars, consVars, eventQ, scanVars, alertQ,
                   batchVars, cancelled, doneVars, sinkVars, failures, kills>>

\* Time passes.
Elapse ==
    /\ Tick
    /\ UNCHANGED <<brokerVars, consVars, eventQ, scanVars, alertQ, batchVars,
                   mainVars, doneVars, sinkVars, failures, kills>>

-----------------------------------------------------------------------------

ConsumerNext == Poll \/ Enqueue \/ DeadLetter \/ Commit \/ ConsumerStops
ScannerNext == Scan \/ CheckAlert \/ SendAlert \/ ScannerStops \/ ScannerEnds
BatcherNext ==
    Collect \/ FlushTimer \/ BatcherStops \/ FinalDrain \/ Publish \/ Insert

Next ==
    \/ \E p \in Payload : Produce(p)
    \/ CommitLands
    \/ ConsumerNext \/ ScannerNext \/ BatcherNext
    \/ CtrlC \/ Restart \/ Kill \/ Elapse
    \/ \E d \in Directory : Reload(d)

Spec == Init /\ [][Next]_vars

\* tokio runs each task that can run; the sends and inserts they wait for
\* end, by their timeouts at the latest.
FairSpec ==
    /\ Spec
    /\ WF_vars(ConsumerNext) /\ WF_vars(ScannerNext) /\ WF_vars(BatcherNext)

-----------------------------------------------------------------------------
(* Properties *)

TaskState ==
    /\ cons \in {"poll", "enqueue", "dlq", "commit", "ended"}
    /\ scan \in {"recv", "drain", "check", "send", "closing", "ended"}
    /\ batch \in {"recv", "drain", "publish", "insert", "ended"}
    /\ draining \in BOOLEAN /\ flushing \in BOOLEAN /\ cancelled \in BOOLEAN

EngineTypes ==
    /\ topic \in Seq(Payload)
    /\ committed \in Nat /\ requested \in Nat /\ position \in Nat
    /\ eventQ \in Seq(Nat) /\ Len(eventQ) <= ChannelCap
    /\ alertQ \in Seq(Nat) /\ Len(alertQ) <= ChannelCap
    /\ todo \in Seq(Signature) /\ buffer \in Seq(Nat)
    /\ rules \in Registries
    /\ scanned \subseteq Nat /\ dead \subseteq Nat
    /\ kafka \subseteq Nat /\ rows \subseteq Nat /\ unstored \subseteq Nat
    /\ failures \in Nat /\ kills \in Nat

\* Types of the variables, with the bounds of the channels.
TypeOK == DedupTypeOK /\ TaskState /\ EngineTypes

Queued(q) == {q[i] : i \in DOMAIN q}

\* Ends of the process so far, the current one included.
Stops == run + (IF cancelled THEN 1 ELSE 0)

\* Records the group is done with and nobody will ever evaluate.
Skipped ==
    {o \in 1..committed :
        topic[o] # Empty /\ o \notin scanned \cup dead \cup Queued(eventQ)}

\* What an end of the process costs: at most the contents of the event
\* channel, which are committed and not yet evaluated.  Otherwise only a
\* failed evaluation or dead letter loses a record.
SkippedOnlyByStop == Cardinality(Skipped) <= ChannelCap * Stops + failures

Emitted == {i \in DOMAIN checks : checks[i].passed}

InFlight ==
    Queued(alertQ) \cup Buffered \cup (IF scan = "send" THEN {Len(checks)} ELSE {})

\* Alerts that passed the deduplicator and are gone.
Gone == Emitted \ (rows \cup unstored \cup InFlight)

\* While the process runs, an alert that passed is on its way, stored, or in
\* a batch whose INSERT failed.
RunningKeepsAlerts == Stops = 0 => Gone = {}

\* A shutdown ends: consumer, scanner and batcher never wait for each other
\* for ever, whoever ends first and however full the channels are.
ShutdownCompletes == cancelled ~> Exited \/ ~cancelled

\* A detection is reported: when an alert was checked, an alert with its
\* signature is eventually stored, unless a failure or the end of the
\* process comes in between.
DetectionReported ==
    \A s \in Signature :
        (\E i \in DOMAIN checks : checks[i].sig = s) ~>
            \/ \E i \in rows : checks[i].sig = s
            \/ failures > 0 \/ Stops > 0

=============================================================================
