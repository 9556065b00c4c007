---------------------------- MODULE EventRouter ----------------------------
(***************************************************************************)
(* kafka-pipeline: the consumer group that moves one partition of the raw  *)
(* topic to the typed topics and the dead letters (consumer.rs,            *)
(* event_router.rs, main.rs).                                              *)
(*                                                                         *)
(* A worker takes a record, forwards it, waits for the broker's answer,    *)
(* asks for its offset to be committed and takes the next one.  Commits    *)
(* are asynchronous: CommitLands happens any time later or never.  The     *)
(* service is scaled out, so the partition moves: a worker that crashed or *)
(* whose session timed out loses it, the next one starts from what is      *)
(* committed, and a worker that is only slow finishes its record after it  *)
(* has lost the partition, or has it again.                                *)
(***************************************************************************)
EXTENDS Naturals, Sequences, FiniteSets, EventCategories

CONSTANTS Worker,         \* replicas of the service
          NoWorker,       \* the partition is assigned to nobody
          Name,           \* values of event_type and query_name
          Message,        \* what a record of the raw topic can look like
          MaxRecords,     \* bound: length of the raw partition
          MaxAssigns,     \* bound: times the partition is assigned
          MaxFaults       \* bound: sends that fail or are retried

ASSUME NoWorkerAssumption == NoWorker \notin Worker
ASSUME NameAssumption == Typed \subseteq Name
ASSUME MessageAssumption ==
    Message \subseteq [json : BOOLEAN, type : Name, query : Name]
ASSUME RouterBounds ==
    MaxRecords \in Nat /\ MaxAssigns \in Nat /\ MaxFaults \in Nat

VARIABLES raw,            \* the partition of aigis.events.raw
          committed,      \* records the group is done with
          requested,      \* commit on its way to the broker, 0 if none
          owner,          \* worker the partition is assigned to
          position,       \* records the owner has fetched
          hand,           \* record each worker is working on
          stage,          \* how far each worker is with it
          out,            \* what has been written to the outgoing topics
          refused,        \* records whose send was reported as failed
          assigns, faults

vars == <<raw, committed, requested, owner, position, hand, stage, out,
          refused, assigns, faults>>

Init ==
    /\ raw = <<>> /\ out = <<>>
    /\ committed = 0 /\ requested = 0 /\ position = 0
    /\ owner = NoWorker
    /\ hand = [w \in Worker |-> 0]
    /\ stage = [w \in Worker |-> "idle"]
    /\ refused = {}
    /\ assigns = 0 /\ faults = 0

-----------------------------------------------------------------------------
(* Kafka *)

\* The fleet server publishes an event.
Produce(m) ==
    /\ Len(raw) < MaxRecords
    /\ raw' = Append(raw, m)
    /\ UNCHANGED <<committed, requested, owner, position, hand, stage, out,
                   refused, assigns, faults>>

\* The broker stores the offset.
CommitLands ==
    /\ requested # 0
    /\ committed' = requested /\ requested' = 0
    /\ UNCHANGED <<raw, owner, position, hand, stage, out, refused, assigns,
                   faults>>

\* A free partition goes to a worker, which starts from what is committed
\* ("earliest" when nothing is).
Assign(w) ==
    /\ owner = NoWorker /\ assigns < MaxAssigns
    /\ owner' = w /\ position' = committed
    /\ assigns' = assigns + 1
    /\ UNCHANGED <<raw, committed, requested, hand, stage, out, refused, faults>>

\* The partition is taken away.  Commits of this assignment that have not
\* landed are refused from now on.
Release == owner' = NoWorker /\ requested' = 0

\* The worker's session times out: it does not know and works on.
SessionTimeout ==
    /\ owner # NoWorker /\ assigns < MaxAssigns
    /\ Release
    /\ UNCHANGED <<raw, committed, position, hand, stage, out, refused,
                   assigns, faults>>

\* The process dies and is started again.
Crash(w) ==
    /\ assigns < MaxAssigns
    /\ owner = w \/ stage[w] # "idle"
    /\ IF owner = w THEN Release ELSE UNCHANGED <<owner, requested>>
    /\ hand' = [hand EXCEPT ![w] = 0]
    /\ stage' = [stage EXCEPT ![w] = "idle"]
    /\ UNCHANGED <<raw, committed, position, out, refused, assigns, faults>>

-----------------------------------------------------------------------------
(* ConsumerWorker::run and EventRouterProcessor::process *)

\* Mutant of Poll: the record is committed when it is taken.
PollCommits(w) ==
    /\ owner = w /\ stage[w] = "idle" /\ position < Len(raw)
    /\ hand' = [hand EXCEPT ![w] = position + 1]
    /\ stage' = [stage EXCEPT ![w] = "got"]
    /\ position' = position + 1
    /\ requested' = position + 1
    /\ UNCHANGED <<raw, committed, owner, out, refused, assigns, faults>>

\* The stream yields the next record.
Poll(w) ==
    /\ owner = w /\ stage[w] = "idle" /\ position < Len(raw)
    /\ hand' = [hand EXCEPT ![w] = position + 1]
    /\ stage' = [stage EXCEPT ![w] = "got"]
    /\ position' = position + 1
    /\ UNCHANGED <<raw, committed, requested, owner, out, refused, assigns,
                   faults>>

\* The stream yields an error, which is logged.
StreamError(w) == stage[w] = "idle" /\ UNCHANGED vars

\* The shutdown token is seen between two records: the consumer leaves the
\* group.
Shutdown(w) ==
    /\ owner = w /\ stage[w] = "idle" /\ assigns < MaxAssigns
    /\ Release
    /\ UNCHANGED <<raw, committed, position, hand, stage, out, refused,
                   assigns, faults>>

\* The record as it is forwarded.
Forwarded(o) ==
    [offset |-> o, topic |-> Target(raw[o]), event |-> Normalized(raw[o])]

\* process is done with the record in hand, which is in out n more times.
Processed(w, n) ==
    /\ stage[w] = "got"
    /\ stage' = [stage EXCEPT ![w] = "sent"]
    /\ out' = out \o [i \in 1..n |-> Forwarded(hand[w])]
    /\ UNCHANGED <<raw, committed, requested, owner, position, hand, assigns>>

\* Mutant of SendOk: after its dead letter, what is not JSON is forwarded, too.
SendOkFallsThrough(w) ==
    /\ Processed(w, IF raw[hand[w]].json THEN 1 ELSE 2)
    /\ UNCHANGED <<refused, faults>>

\* The record reaches its topic.
SendOk(w) == Processed(w, 1) /\ UNCHANGED <<refused, faults>>

\* The first answer of the broker is lost and librdkafka, without
\* idempotence, sends the record again.
SendTwice(w) ==
    /\ faults < MaxFaults /\ faults' = faults + 1
    /\ Processed(w, 2)
    /\ UNCHANGED refused

\* The send fails or its answer never comes.  process returns an error,
\* which run logs.
SendFails(w) ==
    /\ faults < MaxFaults /\ faults' = faults + 1
    /\ \E n \in 0..1 : Processed(w, n)
    /\ refused' = refused \cup {hand[w]}

\* Mutant of CommitMessage: the next offset is committed, too.
CommitMessageOffByOne(w) ==
    /\ stage[w] = "sent"
    /\ stage' = [stage EXCEPT ![w] = "idle"]
    /\ requested' = IF owner = w /\ hand[w] < Len(raw) THEN hand[w] + 1 ELSE requested
    /\ hand' = [hand EXCEPT ![w] = 0]
    /\ UNCHANGED <<raw, committed, owner, position, out, refused, assigns, faults>>

\* commit_message, whatever process returned.  The broker takes it from the
\* worker the partition is assigned to.
CommitMessage(w) ==
    /\ stage[w] = "sent"
    /\ stage' = [stage EXCEPT ![w] = "idle"]
    /\ requested' = IF owner = w THEN hand[w] ELSE requested
    /\ hand' = [hand EXCEPT ![w] = 0]
    /\ UNCHANGED <<raw, committed, owner, position, out, refused, assigns, faults>>

-----------------------------------------------------------------------------

Work(w) ==
    \/ Poll(w) \/ SendOk(w) \/ SendTwice(w) \/ SendFails(w) \/ CommitMessage(w)

Next ==
    \/ \E m \in Message : Produce(m)
    \/ CommitLands
    \/ SessionTimeout
    \/ \E w \in Worker : Assign(w) \/ Crash(w) \/ Shutdown(w) \/ Work(w)
                            \/ StreamError(w)

Spec == Init /\ [][Next]_vars

\* A worker goes on, by the timeouts of rdkafka at the latest, and a free
\* partition is assigned.
FairSpec ==
    /\ Spec
    /\ \A w \in Worker : WF_vars(Work(w))
    /\ WF_vars(\E w \in Worker : Assign(w))

-----------------------------------------------------------------------------
(* Properties *)

\* Types of the variables.
TypeOK ==
    /\ raw \in Seq(Message)
    /\ committed \in Nat /\ requested \in Nat /\ position \in Nat
    /\ owner \in Worker \cup {NoWorker}
    /\ hand \in [Worker -> Nat]
    /\ stage \in [Worker -> {"idle", "got", "sent"}]
    /\ out \in Seq([offset : Nat, topic : Typed \cup {Dlq},
                    event : [json : BOOLEAN, type : Name, query : Name]])
    /\ refused \in SUBSET Nat
    /\ assigns \in Nat /\ faults \in Nat

Settled(o) == o \in refused \/ \E i \in DOMAIN out : out[i].offset = o

\* The group is never done with a record that was not forwarded, unless its
\* send was reported as failed: neither a crash nor a rebalance between
\* fetch, send and commit, nor a late commit of a former owner, skips one.
CommittedIsSettled == \A o \in 1..committed : Settled(o)

\* No record overtakes an earlier one of its partition: whatever is written
\* comes after a copy of everything before it, failed sends excepted.
NoOvertaking ==
    \A j \in DOMAIN out : \A o \in 1..out[j].offset - 1 :
        o \in refused \/ \E i \in 1..j - 1 : out[i].offset = o

Copies(o) == Cardinality({i \in DOMAIN out : out[i].offset = o})

\* A record is written twice only because the partition was assigned again
\* or a send was retried.
DuplicatesBounded == \A o \in 1..MaxRecords : Copies(o) <= assigns + faults

\* What the router puts into a typed topic the rule engine evaluates with the
\* rules of that category, and what it cannot classify stays as it came.
ScannedByItsCategory ==
    \A i \in DOMAIN out :
        IF out[i].topic = Dlq THEN out[i].event = raw[out[i].offset]
        ELSE Category(out[i].event) = out[i].topic

\* Every published event eventually reaches a topic or a failed send.
EveryRecordSettles ==
    \A o \in 1..MaxRecords : (Len(raw) >= o) ~> Settled(o)

=============================================================================
