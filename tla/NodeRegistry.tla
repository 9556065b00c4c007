---------------------------- MODULE NodeRegistry ----------------------------
(***************************************************************************)
(* The registry of endpoints in PostgreSQL: the tables nodes,              *)
(* enrollment_events and node_health, and everybody who writes to them.    *)
(*                                                                         *)
(*  - RegisterAgent calls (grpc-listener, node-enrollment,                 *)
(*    postgres-interface/node_store.rs).  A call is one transaction: look  *)
(*    the machine up, insert or update its row, append an audit row,       *)
(*    commit.  Several calls for one machine can be in progress at a time: *)
(*    an agent that gave up and was restarted, or cloned machine ids.      *)
(*  - heartbeats (health-tracker, postgres-interface/health_store.rs);     *)
(*  - operators who isolate and release nodes (api-backend).               *)
(*                                                                         *)
(* PostgreSQL runs at READ COMMITTED: a SELECT sees what is committed, a   *)
(* write waits for the transaction that holds the row or the unique index  *)
(* entry of the machine, and a second INSERT of a machine then fails.      *)
(***************************************************************************)
EXTENDS Naturals, Sequences, FiniteSets

CONSTANTS Call,           \* RegisterAgent calls
          Machine,        \* values of /etc/machine-id
          Version,        \* hostname, OS and agent version an agent reports
          NodeId,         \* UUIDs
          NoNode,         \* not a UUID
          MaxHeartbeats,  \* bound: heartbeats per behaviour
          MaxStoreErrors  \* bound: failures of the pool, the database, the signing

ASSUME NoNodeAssumption == NoNode \notin NodeId
ASSUME BoundsAssumption == MaxHeartbeats \in Nat /\ MaxStoreErrors \in Nat

VARIABLES nodes,          \* table nodes: node_id -> row
          audit,          \* table enrollment_events, in commit order
          health,         \* table node_health, in commit order
          call,           \* the RegisterAgent calls
          ordered,        \* history: last operator order per node
          errors          \* number of such failures so far

vars == <<nodes, audit, health, call, ordered, errors>>

AgentStatus == {"healthy", "degraded"}
OperatorStatus == {"active", "isolated"}

Row == [machine : Machine, version : Version,
        agent : AgentStatus, operator : OperatorStatus]

Registered == DOMAIN nodes
MachineOf(n) == nodes[n].machine

Init ==
    /\ nodes = [n \in {} |-> n]
    /\ audit = <<>>
    /\ health = <<>>
    /\ call \in [Call -> [pc : {"new"}, machine : Machine, version : Version,
                          seen : {NoNode}, node : {NoNode}]]
    /\ ordered = [n \in NodeId |-> "active"]
    /\ errors = 0

-----------------------------------------------------------------------------
(* RegisterAgent *)

\* Step 1 of upsert_node: SELECT node_id WHERE machine_id = ...
Lookup(c) ==
    /\ call[c].pc = "new"
    /\ \/ \E n \in Registered :
             /\ MachineOf(n) = call[c].machine
             /\ call' = [call EXCEPT ![c].pc = "found", ![c].seen = n]
       \/ /\ \A n \in Registered : MachineOf(n) # call[c].machine
          /\ call' = [call EXCEPT ![c].pc = "found"]
    /\ UNCHANGED <<nodes, audit, health, ordered, errors>>

\* Another transaction has written, and so locked, this machine's row.
RowLocked(m) == \E d \in Call : call[d].pc = "written" /\ call[d].machine = m

\* Mutant of InsertNode: machine_id is not UNIQUE.
InsertNodeNotUnique(c) ==
    /\ call[c].pc = "found" /\ call[c].seen = NoNode
    /\ \E n \in NodeId \ (Registered \cup {call[d].node : d \in Call}) :
          call' = [call EXCEPT ![c].pc = "written", ![c].node = n]
    /\ UNCHANGED <<nodes, audit, health, ordered, errors>>

\* Mutant of InsertNode: the INSERT commits by itself, before the audit row.
InsertNodeAutocommit(c) ==
    /\ call[c].pc = "found" /\ call[c].seen = NoNode
    /\ ~RowLocked(call[c].machine)
    /\ \A n \in Registered : MachineOf(n) # call[c].machine
    /\ \E n \in NodeId \ (Registered \cup {call[d].node : d \in Call}) :
          /\ call' = [call EXCEPT ![c].pc = "written", ![c].node = n]
          /\ nodes' = [k \in Registered \cup {n} |->
                IF k = n THEN [machine |-> call[c].machine,
                               version |-> call[c].version,
                               agent |-> "healthy", operator |-> "active"]
                ELSE nodes[k]]
    /\ UNCHANGED <<audit, health, ordered, errors>>

\* INSERT INTO nodes with a new UUID.
InsertNode(c) ==
    /\ call[c].pc = "found" /\ call[c].seen = NoNode
    /\ ~RowLocked(call[c].machine)
    /\ \A n \in Registered : MachineOf(n) # call[c].machine
    /\ \E n \in NodeId \ (Registered \cup {call[d].node : d \in Call}) :
          call' = [call EXCEPT ![c].pc = "written", ![c].node = n]
    /\ UNCHANGED <<nodes, audit, health, ordered, errors>>

\* The same INSERT when another call has committed the machine since the
\* SELECT: the UNIQUE constraint fails and with it the transaction, and the
\* agent gets "enrollment failed".
InsertConflict(c) ==
    /\ call[c].pc = "found" /\ call[c].seen = NoNode
    /\ ~RowLocked(call[c].machine)
    /\ \E n \in Registered : MachineOf(n) = call[c].machine
    /\ call' = [call EXCEPT ![c].pc = "failed"]
    /\ UNCHANGED <<nodes, audit, health, ordered, errors>>

\* UPDATE nodes SET hostname, os_version, agent_version, last_enrolled_at.
UpdateNode(c) ==
    /\ call[c].pc = "found" /\ call[c].seen # NoNode
    /\ ~RowLocked(call[c].machine)
    /\ call' = [call EXCEPT ![c].pc = "written", ![c].node = call[c].seen]
    /\ UNCHANGED <<nodes, audit, health, ordered, errors>>

\* Mutant of RowOf: a re-enrolment starts over with a released node.
RowOfReleased(c) ==
    IF call[c].seen = NoNode
    THEN [machine |-> call[c].machine, version |-> call[c].version,
          agent |-> "healthy", operator |-> "active"]
    ELSE [nodes[call[c].seen] EXCEPT !.version = call[c].version,
                                     !.operator = "active"]

\* Mutant of RowOf: a re-enrolment resets the agent status.
RowOfHealthy(c) ==
    IF call[c].seen = NoNode
    THEN [machine |-> call[c].machine, version |-> call[c].version,
          agent |-> "healthy", operator |-> "active"]
    ELSE [nodes[call[c].seen] EXCEPT !.version = call[c].version,
                                     !.agent = "healthy"]

\* The row that the transaction of c commits: a new one, or the current one
\* with the columns of the UPDATE replaced.
RowOf(c) ==
    IF call[c].seen = NoNode
    THEN [machine |-> call[c].machine, version |-> call[c].version,
          agent |-> "healthy", operator |-> "active"]
    ELSE [nodes[call[c].seen] EXCEPT !.version = call[c].version]

\* Step 2 of upsert_node: INSERT INTO enrollment_events, and COMMIT, which
\* makes the row and the audit row visible together.  The enroller then
\* signs a token for the node and answers; when it cannot sign, the call
\* fails although the enrolment is committed.
AuditAndCommit(c) ==
    /\ call[c].pc = "written"
    /\ nodes' = [n \in Registered \cup {call[c].node} |->
                    IF n = call[c].node THEN RowOf(c) ELSE nodes[n]]
    /\ audit' = Append(audit,
          [node |-> call[c].node, version |-> call[c].version,
           type |-> IF call[c].seen = NoNode
                    THEN "new_enrollment" ELSE "re_enrollment"])
    /\ \/ call' = [call EXCEPT ![c].pc = "answered"] /\ UNCHANGED errors
       \/ /\ errors < MaxStoreErrors
          /\ errors' = errors + 1
          /\ call' = [call EXCEPT ![c].pc = "failed"]
    /\ UNCHANGED <<health, ordered>>

\* The pool or the database fails at any statement: the transaction rolls
\* back and the agent gets "enrollment failed".
StoreError(c) ==
    /\ errors < MaxStoreErrors
    /\ errors' = errors + 1
    /\ call[c].pc \in {"new", "found", "written"}
    /\ call' = [call EXCEPT ![c].pc = "failed"]
    /\ UNCHANGED <<nodes, audit, health, ordered>>

-----------------------------------------------------------------------------
(* Heartbeats and operators *)

\* What an agent may put into the status field of a heartbeat.
ReportedStatus == AgentStatus \cup {"isolated"}

\* HealthTracker: anything but the two known statuses becomes degraded.
Sanitize(s) == IF s \in AgentStatus THEN s ELSE "degraded"

\* One transaction: a row in node_health, whose foreign key needs the node
\* to exist, and the new agent_status in nodes.  The UPDATE waits for a
\* transaction that has written the row.
Heartbeat(n, s) ==
    /\ Len(health) < MaxHeartbeats
    /\ n \in Registered /\ ~RowLocked(MachineOf(n))
    /\ health' = Append(health, [node |-> n, status |-> Sanitize(s)])
    /\ nodes' = [nodes EXCEPT ![n].agent = Sanitize(s)]
    /\ UNCHANGED <<audit, call, ordered, errors>>

\* isolate_node and unisolate_node: UPDATE nodes SET operator_status.
SetOperatorStatus(n, s) ==
    /\ n \in Registered /\ ~RowLocked(MachineOf(n))
    /\ nodes' = [nodes EXCEPT ![n].operator = s]
    /\ ordered' = [ordered EXCEPT ![n] = s]
    /\ UNCHANGED <<audit, health, call, errors>>

-----------------------------------------------------------------------------

Enroll(c) ==
    \/ Lookup(c) \/ InsertNode(c) \/ InsertConflict(c) \/ UpdateNode(c)
    \/ AuditAndCommit(c)

Next ==
    \/ \E c \in Call : Enroll(c) \/ StoreError(c)
    \/ \E n \in Registered :
          \/ \E s \in ReportedStatus : Heartbeat(n, s)
          \/ \E s \in OperatorStatus : SetOperatorStatus(n, s)

Spec == Init /\ [][Next]_vars

-----------------------------------------------------------------------------
(* Properties *)

CallState == [pc : {"new", "found", "written", "answered", "failed"},
              machine : Machine, version : Version,
              seen : NodeId \cup {NoNode}, node : NodeId \cup {NoNode}]

AuditRow == [node : NodeId, version : Version,
             type : {"new_enrollment", "re_enrollment"}]

\* Types of the variables.
TypeOK ==
    /\ Registered \in SUBSET NodeId
    /\ nodes \in [Registered -> Row]
    /\ audit \in Seq(AuditRow)
    /\ health \in Seq([node : NodeId, status : AgentStatus])
    /\ call \in [Call -> CallState]
    /\ ordered \in [NodeId -> OperatorStatus]
    /\ errors \in 0..MaxStoreErrors

\* However many enrolments of one machine run at a time, the machine has one
\* row and one identity ("the row is upserted, not duplicated").
OneNodePerMachine ==
    \A a, b \in Registered : MachineOf(a) = MachineOf(b) => a = b

\* The audit trail tells the truth about every node: its first row, and only
\* that, says new_enrollment, and exactly the registered nodes have rows.
AuditStartsWithNew ==
    /\ {audit[i].node : i \in DOMAIN audit} = Registered
    /\ \A i \in DOMAIN audit :
          audit[i].type = "new_enrollment" <=>
             \A j \in DOMAIN audit : j < i => audit[j].node # audit[i].node

\* The row of a node carries what its last audit row says: no enrolment
\* overwrites a row that a later committed enrolment has written.
RowIsLastAudited ==
    \A n \in Registered : \E i \in DOMAIN audit :
        /\ audit[i].node = n
        /\ audit[i].version = nodes[n].version
        /\ \A j \in DOMAIN audit : j > i => audit[j].node # n

\* Quarantine is preserved: the operator status of a node is what an operator
\* ordered last, through any heartbeat or re-enrolment that races with the
\* order.
QuarantinePreserved ==
    \A n \in Registered : nodes[n].operator = ordered[n]

\* The node id in an answered call belongs to the caller's machine, for ever.
AnswerNamesMachine ==
    \A c \in Call : call[c].pc = "answered" =>
        call[c].node \in Registered /\ MachineOf(call[c].node) = call[c].machine

\* The agent status of a node is what its last heartbeat reported, through
\* any re-enrolment, and healthy before the first one.
AgentStatusIsLastReport ==
    \A n \in Registered :
        LET reports == {i \in DOMAIN health : health[i].node = n}
        IN  IF reports = {} THEN nodes[n].agent = "healthy"
            ELSE \E i \in reports :
                    /\ nodes[n].agent = health[i].status
                    /\ \A j \in reports : j <= i

=============================================================================
