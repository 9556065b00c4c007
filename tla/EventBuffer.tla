---------------------------- MODULE EventBuffer ----------------------------
(***************************************************************************)
(* The agent's SQLite event buffer (agent/crates/event-buffer/src/lib.rs). *)
(*                                                                         *)
(* The table event_buffer is a function from row ids to payloads; the id   *)
(* is AUTOINCREMENT, so SQLite keeps the largest id ever handed out        *)
(* (autoinc) and never gives one out twice.  Every operation holds the     *)
(* connection's mutex from its first statement to its last, so operations  *)
(* do not interleave with each other.  A push, however, is two separate    *)
(* auto-committed statements, and the process can die between them: the    *)
(* insertion is then durable and the eviction has not happened.            *)
(*                                                                         *)
(* The limit max_events is a parameter of new(): a restart may bring       *)
(* another one.                                                            *)
(***************************************************************************)
EXTENDS Naturals, FiniteSets, Sequences

CONSTANTS Payload,      \* JSON-encoded agent events
          Limits,       \* values max_events may be configured to
          BatchSizes,   \* batch sizes drain may be called with
          MaxId,        \* bound: rows ever inserted
          MaxFailures   \* bound: process deaths and SQLite errors inside push

ASSUME LimitsAssumption == Limits \subseteq Nat
ASSUME BatchAssumption == BatchSizes \subseteq Nat \ {0}
ASSUME BoundsAssumption == MaxId \in Nat /\ MaxFailures \in Nat

VARIABLES table,        \* event_buffer: row id -> payload
          autoinc,      \* sqlite_sequence: largest id handed out so far
          maxEvents,    \* self.max_events
          pushing,      \* the mutex holder is between INSERT and DELETE
          drained,      \* the Vec the last drain returned
          removed,      \* history: ids deleted by an eviction or a drain
          trimmed,      \* history: a push has completed since new() or a failure
          failures      \* number of process deaths and SQLite errors inside push

vars == <<table, autoinc, maxEvents, pushing, drained, removed, trimmed, failures>>

Ids == DOMAIN table

\* Mutant of IsOldest: ORDER BY id DESC.
IsNewest(D, n) ==
    /\ D \subseteq Ids
    /\ Cardinality(D) = IF Cardinality(Ids) > n THEN n ELSE Cardinality(Ids)
    /\ \A d \in D, r \in Ids \ D : d > r

\* SELECT id FROM event_buffer ORDER BY id ASC LIMIT n: D is what it selects.
IsOldest(D, n) ==
    /\ D \subseteq Ids
    /\ Cardinality(D) = IF Cardinality(Ids) > n THEN n ELSE Cardinality(Ids)
    /\ \A d \in D, r \in Ids \ D : d < r

\* DELETE FROM event_buffer WHERE id IN D
Delete(D) ==
    /\ table' = [i \in Ids \ D |-> table[i]]
    /\ removed' = removed \cup D

\* Mutant of InIdOrder: the rows come back newest first.
InReverseOrder(t, D) ==
    [k \in 1..Cardinality(D) |->
        t[CHOOSE i \in D : Cardinality({j \in D : j > i}) = k - 1]]

\* The payloads of the rows D in ascending order of id.
InIdOrder(t, D) ==
    [k \in 1..Cardinality(D) |->
        t[CHOOSE i \in D : Cardinality({j \in D : j < i}) = k - 1]]

Init ==
    /\ table = <<>>
    /\ autoinc = 0
    /\ maxEvents \in Limits
    /\ pushing = FALSE
    /\ drained = <<>>
    /\ removed = {}
    /\ trimmed = FALSE
    /\ failures = 0

\* push, first statement: INSERT.  The row gets a fresh id.
Insert(p) ==
    /\ ~pushing
    /\ autoinc < MaxId
    /\ autoinc' = autoinc + 1
    /\ table' = [i \in Ids \cup {autoinc + 1} |->
                    IF i = autoinc + 1 THEN p ELSE table[i]]
    /\ pushing' = TRUE
    /\ UNCHANGED <<maxEvents, drained, removed, trimmed, failures>>

\* Mutant of Evict: a push evicts a single row, as if the table could never
\* be more than one row over the limit.
EvictOne ==
    /\ pushing
    /\ IF Cardinality(Ids) > maxEvents
       THEN \E D \in SUBSET Ids : IsOldest(D, 1) /\ Delete(D)
       ELSE UNCHANGED <<table, removed>>
    /\ pushing' = FALSE
    /\ trimmed' = TRUE
    /\ UNCHANGED <<autoinc, maxEvents, drained, failures>>

\* push, the rest: count the rows and delete the oldest of them when there
\* are more than max_events.
Evict ==
    /\ pushing
    /\ IF Cardinality(Ids) > maxEvents
       THEN \E D \in SUBSET Ids :
               /\ IsOldest(D, Cardinality(Ids) - maxEvents)
               /\ Delete(D)
       ELSE UNCHANGED <<table, removed>>
    /\ pushing' = FALSE
    /\ trimmed' = TRUE
    /\ UNCHANGED <<autoinc, maxEvents, drained, failures>>

\* push, the rest, when SQLite fails in it: the error is returned although
\* the row is in the table.
EvictFails ==
    /\ pushing
    /\ failures < MaxFailures
    /\ failures' = failures + 1
    /\ pushing' = FALSE
    /\ trimmed' = FALSE
    /\ UNCHANGED <<table, autoinc, maxEvents, drained, removed>>

\* drain: one transaction that reads the oldest rows and deletes them.  When
\* SQLite fails it rolls back and nothing has happened.
Drain(n) ==
    /\ ~pushing
    /\ \E D \in SUBSET Ids :
          /\ IsOldest(D, n)
          /\ Delete(D)
          /\ drained' = InIdOrder(table, D)
    /\ UNCHANGED <<autoinc, maxEvents, pushing, trimmed, failures>>

\* The process dies at any point and new() opens the same file again.
\* Committed statements survive, whatever was returned to a caller does not.
CrashAndReopen(l) ==
    /\ failures < MaxFailures
    /\ failures' = failures + 1
    /\ maxEvents' = l
    /\ pushing' = FALSE
    /\ drained' = <<>>
    /\ trimmed' = FALSE
    /\ UNCHANGED <<table, autoinc, removed>>

Next ==
    \/ \E p \in Payload : Insert(p)
    \/ Evict
    \/ EvictFails
    \/ \E n \in BatchSizes : Drain(n)
    \/ \E l \in Limits : CrashAndReopen(l)

Spec == Init /\ [][Next]_vars

-----------------------------------------------------------------------------
(* Properties *)

\* Types of the variables.
TypeOK ==
    /\ Ids \in SUBSET (1..MaxId)
    /\ table \in [Ids -> Payload]
    /\ autoinc \in 0..MaxId
    /\ maxEvents \in Limits
    /\ pushing \in BOOLEAN
    /\ removed \in SUBSET (1..MaxId)
    /\ trimmed \in BOOLEAN
    /\ failures \in 0..MaxFailures

\* Rows leave the buffer strictly oldest first, by drain and by eviction
\* alike, and no id comes back: every id ever removed is smaller than every
\* id still in the table.  (push's eviction and drain both take
\* ORDER BY id ASC; ids are AUTOINCREMENT.)
OldestFirst == \A d \in removed, i \in Ids : d < i

\* The ring-buffer limit.  Once a push has completed since the buffer was
\* opened, the table never holds more than max_events rows, except inside
\* the next push, which has one row too many until it evicts.  This holds
\* whatever number of rows earlier failures or a larger limit left behind:
\* push evicts count - max_events rows, not one.
WithinLimit ==
    trimmed => Cardinality(Ids) <= maxEvents + (IF pushing THEN 1 ELSE 0)

\* Before that, the overflow is what failures inside push can leave: at most
\* one row each, over the largest limit configured.
OverflowOnlyByFailure ==
    \A m \in Limits :
        (\A l \in Limits : l <= m) =>
            Cardinality(Ids) <= m + failures + (IF pushing THEN 1 ELSE 0)

\* The table is a bounded FIFO queue: the rows in id order are the queue.
Fifo == INSTANCE BoundedFifo
            WITH queue <- InIdOrder(table, Ids), limit <- maxEvents,
                 taken <- drained, MaxTake <- MaxId

\* Every statement of push, drain and new() is a step of the abstract queue,
\* or leaves it alone.
ImplementsFifo == Fifo!FifoSpec

=============================================================================
