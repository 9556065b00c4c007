--------------------------- MODULE QueryScheduler ---------------------------
(***************************************************************************)
(* osquery-client's QueryScheduler and the task of agent-core that takes   *)
(* its results: one task per scheduled query asks osqueryd at every tick   *)
(* and sends what changed since the last answer,                           *)
(*                                                                         *)
(*   host -> osqueryd -> query task -> chan -> osquery task -> buffer      *)
(*                                                                         *)
(* A differential stream is worth something only if whoever replays it     *)
(* ends up with what the host looked like; view is such a replay of what   *)
(* was put into the event buffer.  Rows are compared as sets (HashSet).    *)
(***************************************************************************)
EXTENDS Naturals, Sequences

CONSTANTS Query,        \* names of scheduled queries
          SnapshotMode, \* the queries with snapshot set
          Defaults,     \* the queries a new table is seeded with, in order
          Tables,       \* what the table may hold when the agent is installed
          Row,          \* rows a query may return
          Hosts,        \* what the queries may return when the agent is installed
          ChanCap,      \* capacity of the result channel
          MaxChanges,   \* bound: changes of the host
          MaxErrors,    \* bound: failing operations of SQLite or osqueryd
          MaxDrops,     \* bound: results that are not buffered
          MaxHangs,     \* bound: answers osqueryd never completes
          MaxCrashes    \* bound: ends of the process

ASSUME SchedulerAssumption ==
    /\ SnapshotMode \subseteq Query
    /\ Defaults \in Seq(Query) /\ Defaults # <<>>
    /\ Tables \subseteq SUBSET Query
    /\ Hosts \subseteq [Query -> SUBSET Row]
    /\ ChanCap \in Nat \ {0}
    /\ {MaxChanges, MaxErrors, MaxDrops, MaxHangs, MaxCrashes} \subseteq Nat

VARIABLES host,         \* the rows each query would return now
          table,        \* scheduled_queries in the SQLite file
          proc,         \* the collector: "down", "opening", "seeding",
                        \* "loading", "running" or "dead"
          seeded,       \* INSERTs of this seeding that were done
          task,         \* the query tasks
          chan,         \* the result channel
          view,         \* replay of the results that were buffered
          clean,        \* history: no result was dropped since the last
                        \* snapshot of the query was taken
          interrupted,  \* history: a seeding was not completed
          faults        \* history: how often each fault has happened

vars == <<host, table, proc, seeded, task, chan, view, clean, interrupted, faults>>

\* A task: where it is, first_run, previous_rows, current_rows and the
\* results it has still to send for this tick.
Off == [at |-> "off", first |-> TRUE, previous |-> {}, current |-> {}, todo |-> <<>>]
Ready == [Off EXCEPT !.at = "tick"]

Init ==
    /\ host \in Hosts /\ table \in Tables
    /\ proc = "down" /\ seeded = 0
    /\ task = [q \in Query |-> Off] /\ chan = <<>>
    /\ view = [q \in Query |-> {}] /\ clean = [q \in Query |-> FALSE]
    /\ interrupted = FALSE
    /\ faults = [changes |-> 0, errors |-> 0, drops |-> 0, hangs |-> 0, crashes |-> 0]

-----------------------------------------------------------------------------
(* QueryScheduler::new, load_queries and run up to the tasks *)

\* The process starts and opens the file.
Start ==
    /\ proc = "down"
    /\ proc' = "opening"
    /\ UNCHANGED <<host, table, seeded, task, chan, view, clean, interrupted, faults>>

\* CREATE TABLE IF NOT EXISTS and SELECT COUNT(*): only an empty table is
\* seeded.
new ==
    /\ proc = "opening"
    /\ proc' = IF table = {} THEN "seeding" ELSE "loading"
    /\ seeded' = 0
    /\ UNCHANGED <<host, table, task, chan, view, clean, interrupted, faults>>

\* Mutant of Seed: the loop stops one default early.
SeedLessOne ==
    /\ proc = "seeding"
    /\ table' = table \cup {Defaults[seeded + 1]}
    /\ seeded' = seeded + 1
    /\ proc' = IF seeded + 2 >= Len(Defaults) THEN "loading" ELSE proc
    /\ UNCHANGED <<host, task, chan, view, clean, interrupted, faults>>

\* One INSERT of the defaults.  Each is a transaction of its own.
Seed ==
    /\ proc = "seeding"
    /\ table' = table \cup {Defaults[seeded + 1]}
    /\ seeded' = seeded + 1
    /\ proc' = IF seeded + 1 = Len(Defaults) THEN "loading" ELSE proc
    /\ UNCHANGED <<host, task, chan, view, clean, interrupted, faults>>

\* An operation on the file fails: an error is logged, the sender is dropped,
\* and the agent runs on without a collector.
OpenFails ==
    /\ proc \in {"opening", "seeding", "loading"} /\ faults.errors < MaxErrors
    /\ proc' = "dead"
    /\ interrupted' = (interrupted \/ proc = "seeding")
    /\ faults' = [faults EXCEPT !.errors = @ + 1]
    /\ UNCHANGED <<host, table, seeded, task, chan, view, clean>>

\* load_queries, and a task for every query of the table.
load_queries ==
    /\ proc = "loading"
    /\ proc' = IF table = {} THEN "dead" ELSE "running"
    /\ task' = [q \in Query |-> IF q \in table THEN Ready ELSE Off]
    /\ UNCHANGED <<host, table, seeded, chan, view, clean, interrupted, faults>>

-----------------------------------------------------------------------------
(* A query task *)

build_result(q, rows, action) == [query |-> q, rows |-> rows, action |-> action]

\* The results of compute_diff that are not empty: Added before Removed.
compute_diff(q, old, new_rows) ==
    LET added == new_rows \ old
        removed == old \ new_rows
    IN  (IF added = {} THEN <<>> ELSE <<build_result(q, added, "Added")>>)
        \o (IF removed = {} THEN <<>> ELSE <<build_result(q, removed, "Removed")>>)

\* The timer fires and the request is written to the socket.
Tick(q) ==
    /\ task[q].at = "tick"
    /\ task' = [task EXCEPT ![q].at = "query"]
    /\ UNCHANGED <<host, table, proc, seeded, chan, view, clean, interrupted, faults>>

\* What osqueryd may send: a response, one whose status is an error or is
\* missing, an exception, something else, or only a part of a response with
\* nothing or the end of the stream after it.
Reply == {"response", "status", "no status", "exception", "garbage", "part", "closed"}

\* What query makes of it: rows, an error, or a wait for more.  Only a part
\* of a response is read on, and a response without a status has code -1.
parse_query_response(reply) ==
    CASE reply = "response" -> "rows"
      [] reply = "part" -> "wait"
      [] OTHER -> "error"

\* What the task sends for an answer.
Results(q, rows) ==
    IF q \in SnapshotMode \/ task[q].first
    THEN <<build_result(q, rows, "Snapshot")>>
    ELSE compute_diff(q, task[q].previous, rows)

\* The end of a tick.  A task in snapshot mode keeps no rows.
Done(q, t, rows) ==
    [t EXCEPT !.at = "tick", !.todo = <<>>, !.current = {},
              !.first = IF q \in SnapshotMode THEN @ ELSE FALSE,
              !.previous = IF q \in SnapshotMode THEN @ ELSE rows]

\* osqueryd has sent reply and the task got rows out of it.
Answer(q, reply) ==
    /\ task[q].at = "query" /\ parse_query_response(reply) = "rows"
    /\ LET results == Results(q, host[q])
       IN  /\ task' = [task EXCEPT ![q] =
                         IF results = <<>> THEN Done(q, @, host[q])
                         ELSE [@ EXCEPT !.at = "send", !.current = host[q],
                                        !.todo = results]]
           /\ clean' = [clean EXCEPT ![q] =
                          @ \/ q \in SnapshotMode \/ task[q].first]
    /\ UNCHANGED <<host, table, proc, seeded, chan, view, interrupted, faults>>

\* Mutant of QueryError: a failed tick counts as an empty answer.
QueryErrorForgets(q, reply) ==
    /\ task[q].at = "query" /\ parse_query_response(reply) = "error"
    /\ faults.errors < MaxErrors
    /\ task' = [task EXCEPT ![q] = Done(q, @, {})]
    /\ faults' = [faults EXCEPT !.errors = @ + 1]
    /\ UNCHANGED <<host, table, proc, seeded, chan, view, clean, interrupted>>

\* Mutant of QueryError: break instead of continue.
QueryErrorBreaks(q, reply) ==
    /\ task[q].at = "query" /\ parse_query_response(reply) = "error"
    /\ faults.errors < MaxErrors
    /\ task' = [task EXCEPT ![q].at = "off"]
    /\ faults' = [faults EXCEPT !.errors = @ + 1]
    /\ UNCHANGED <<host, table, proc, seeded, chan, view, clean, interrupted>>

\* The socket cannot be opened or the reply is an error: the tick is skipped.
QueryError(q, reply) ==
    /\ task[q].at = "query" /\ parse_query_response(reply) = "error"
    /\ faults.errors < MaxErrors
    /\ task' = [task EXCEPT ![q].at = "tick"]
    /\ faults' = [faults EXCEPT !.errors = @ + 1]
    /\ UNCHANGED <<host, table, proc, seeded, chan, view, clean, interrupted>>

\* osqueryd stops in the middle of a response.  The read has no timeout.
Hang(q, reply) ==
    /\ task[q].at = "query" /\ parse_query_response(reply) = "wait"
    /\ faults.hangs < MaxHangs
    /\ task' = [task EXCEPT ![q].at = "hung"]
    /\ faults' = [faults EXCEPT !.hangs = @ + 1]
    /\ UNCHANGED <<host, table, proc, seeded, chan, view, clean, interrupted>>

\* tx.send: waits for room.  previous_rows and first_run change only when
\* everything was sent.
Send(q) ==
    /\ task[q].at = "send" /\ Len(chan) < ChanCap
    /\ LET t == task[q]
       IN  /\ chan' = Append(chan, Head(t.todo))
           /\ task' = [task EXCEPT ![q] = IF Len(t.todo) = 1 THEN Done(q, t, t.current)
                                          ELSE [t EXCEPT !.todo = Tail(t.todo)]]
    /\ UNCHANGED <<host, table, proc, seeded, view, clean, interrupted, faults>>

-----------------------------------------------------------------------------
(* The osquery task of agent-core *)

\* What a reader of the events makes of a result.
Replay(q, v, r) ==
    CASE r.query # q -> v
      [] r.query = q /\ r.action = "Snapshot" -> r.rows
      [] r.query = q /\ r.action = "Added" -> v \cup r.rows
      [] OTHER -> v \ r.rows

\* A result is received, encoded and pushed.
Receive ==
    /\ chan # <<>>
    /\ chan' = Tail(chan)
    /\ view' = [q \in Query |-> Replay(q, view[q], Head(chan))]
    /\ UNCHANGED <<host, table, proc, seeded, task, clean, interrupted, faults>>

\* A result is received, and encoding or push fails: "event dropped".
ReceiveDrops ==
    /\ chan # <<>> /\ faults.drops < MaxDrops
    /\ chan' = Tail(chan)
    /\ clean' = [clean EXCEPT ![Head(chan).query] = FALSE]
    /\ faults' = [faults EXCEPT !.drops = @ + 1]
    /\ UNCHANGED <<host, table, proc, seeded, task, view, interrupted>>

-----------------------------------------------------------------------------

\* Processes, ports or users of the host change.
HostChanges(q) ==
    /\ faults.changes < MaxChanges
    /\ \E rows \in SUBSET Row : rows # host[q] /\ host' = [host EXCEPT ![q] = rows]
    /\ faults' = [faults EXCEPT !.changes = @ + 1]
    /\ UNCHANGED <<table, proc, seeded, task, chan, view, clean, interrupted>>

\* The agent ends, with what the tasks and the channel hold.  The token that
\* would have drained the channel is cancelled by nobody.
Crash ==
    /\ proc # "down" /\ faults.crashes < MaxCrashes
    /\ proc' = "down"
    /\ interrupted' = (interrupted \/ proc = "seeding")
    /\ task' = [q \in Query |-> Off] /\ chan' = <<>>
    /\ clean' = [q \in Query |-> FALSE]
    /\ faults' = [faults EXCEPT !.crashes = @ + 1]
    /\ UNCHANGED <<host, table, seeded, view>>

-----------------------------------------------------------------------------

Replied(q) ==
    \E reply \in Reply : Answer(q, reply) \/ QueryError(q, reply) \/ Hang(q, reply)

TaskNext(q) == Tick(q) \/ Replied(q) \/ Send(q)

Next ==
    \/ Start \/ new \/ Seed \/ OpenFails \/ load_queries
    \/ \E q \in Query : TaskNext(q) \/ HostChanges(q)
    \/ Receive \/ ReceiveDrops \/ Crash

Spec == Init /\ [][Next]_vars

\* systemd starts the agent again, tokio runs its tasks, timers fire and
\* osqueryd answers unless it hangs.  A sender waiting for room is queued
\* first come first served, which needs strong fairness here.
FairSpec ==
    /\ Spec
    /\ WF_vars(Start \/ new \/ Seed \/ load_queries)
    /\ WF_vars(Receive)
    /\ \A q \in Query : /\ WF_vars(Tick(q) \/ Replied(q))
                        /\ SF_vars(Send(q))

-----------------------------------------------------------------------------
(* Properties *)

Result == [query : Query, rows : SUBSET Row, action : {"Snapshot", "Added", "Removed"}]

\* Types of the variables, with the bound of the channel.
TypeOK ==
    /\ host \in [Query -> SUBSET Row]
    /\ table \subseteq Query
    /\ proc \in {"down", "opening", "seeding", "loading", "running", "dead"}
    /\ seeded \in 0..Len(Defaults)
    /\ task \in [Query -> [at : {"off", "tick", "query", "send", "hung"},
                           first : BOOLEAN, previous : SUBSET Row,
                           current : SUBSET Row, todo : Seq(Result)]]
    /\ chan \in Seq(Result) /\ Len(chan) <= ChanCap
    /\ view \in [Query -> SUBSET Row] /\ clean \in [Query -> BOOLEAN]
    /\ interrupted \in BOOLEAN
    /\ faults \in [changes : Nat, errors : Nat, drops : Nat, hangs : Nat, crashes : Nat]

\* The tasks of a running collector are those of a table that came with the
\* installation or was seeded completely, across restarts; unless the process
\* ended or an INSERT failed while it was seeded.  Then the defaults that are
\* missing stay missing, because the table is not empty any more.
SeedComplete ==
    proc = "running" /\ ~interrupted
        => table \in Tables \/ \A i \in DOMAIN Defaults : Defaults[i] \in table

\* v becomes w when the results s are replayed.
Replays(q, v, s, w) ==
    \E f \in [0..Len(s) -> SUBSET Row] :
        /\ f[0] = v /\ f[Len(s)] = w
        /\ \A i \in 1..Len(s) : f[i] = Replay(q, f[i - 1], s[i])

\* The rows the task takes its reader to have when all it has sent or still
\* sends for this tick has arrived.
Believed(q) == IF task[q].at = "send" THEN task[q].current ELSE task[q].previous

\* Skipped ticks, results of other queries in between, a full channel and a
\* result in two parts do no harm: unless one was dropped, replaying what is
\* still under way turns the view into what the task computes its next
\* difference from.
DiffsAddUp ==
    \A q \in Query \ SnapshotMode : clean[q] =>
        \E w \in SUBSET Row : /\ Replays(q, view[q], chan, w)
                              /\ Replays(q, w, task[q].todo, Believed(q))

\* When host and osqueryd come to rest, what was buffered of every query of
\* the table that does not hang replays to the state of the host; for a differential
\* query unless one of its results was dropped, which nothing repairs before
\* the next start of the agent.
Converges ==
    \A q \in Query :
        <>[](proc = "running" /\ q \in table /\ task[q].at # "hung"
               /\ (clean[q] \/ q \in SnapshotMode)
             => view[q] = host[q])

=============================================================================
