---------------------------- MODULE BoundedFifo ----------------------------
(***************************************************************************)
(* What the agent's local event buffer promises its callers: a persistent  *)
(* queue, oldest first, that throws away its oldest entries, and only      *)
(* those, when it holds more than its limit.                               *)
(*                                                                         *)
(* The module has no notion of rows, ids or SQL.  EventBuffer implements   *)
(* it; TelemetryDelivery, which composes the buffer with the drain loop    *)
(* and the event stream, uses it through the operators below.              *)
(***************************************************************************)
EXTENDS Naturals, Sequences

CONSTANTS Payload,      \* JSON-encoded agent events
          Limits,       \* values max_events may be configured to
          MaxTake       \* bound on the batch size a caller asks for

VARIABLES queue,        \* entries, oldest first
          limit,        \* max_events of the running process
          taken         \* what the last completed Take returned

fifoVars == <<queue, limit, taken>>

\* The newest n entries of q (all of q when it is shorter).
Newest(q, n) == IF Len(q) > n THEN SubSeq(q, Len(q) - n + 1, Len(q)) ELSE q

\* The oldest n entries of q (all of q when it is shorter).
Oldest(q, n) == IF Len(q) > n THEN SubSeq(q, 1, n) ELSE q

\* What is left of q without its oldest n entries.
WithoutOldest(q, n) == IF Len(q) > n THEN SubSeq(q, n + 1, Len(q)) ELSE <<>>

\* A whole push: append, then trim to the limit.
Pushed(q, p, n) == Newest(Append(q, p), n)

FifoInit ==
    /\ queue = <<>>
    /\ limit \in Limits
    /\ taken = <<>>

\* The first half of a push makes the entry durable ...
Put(p) ==
    /\ queue' = Append(queue, p)
    /\ UNCHANGED <<limit, taken>>

\* ... the second half trims the queue.
Trim ==
    /\ Len(queue) > limit
    /\ queue' = Newest(queue, limit)
    /\ UNCHANGED <<limit, taken>>

Take(n) ==
    /\ taken' = Oldest(queue, n)
    /\ queue' = WithoutOldest(queue, n)
    /\ UNCHANGED limit

\* The process stops and starts again, perhaps with another limit.  The
\* queue is persistent; what the last Take returned was only in memory.
Reopen(l) ==
    /\ limit' = l
    /\ taken' = <<>>
    /\ UNCHANGED queue

FifoNext ==
    \/ \E p \in Payload : Put(p)
    \/ Trim
    \/ \E n \in 1..MaxTake : Take(n)
    \/ \E l \in Limits : Reopen(l)

FifoSpec == FifoInit /\ [][FifoNext]_fifoVars

=============================================================================
