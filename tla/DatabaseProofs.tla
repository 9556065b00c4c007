--------------------------- MODULE DatabaseProofs ---------------------------
(***************************************************************************)
(* Proofs about the state that several services share through PostgreSQL:  *)
(* the registry of nodes, and the alerts with the pages that show them.    *)
(* The two are separate specifications; they have no variable in common.   *)
(*                                                                         *)
(* The registry, for any sets of calls, machines, versions and node ids:   *)
(* any number of enrolments, heartbeats and operator orders may race.      *)
(* OneNodePerMachine is not inductive.  What makes it so is what a call    *)
(* knows while its transaction is open: what it found is still there, what *)
(* it is about to insert is neither registered nor being inserted by       *)
(* another call (Knowledge), and no two open transactions have written the *)
(* same machine (OneWriter).  QuarantinePreserved needs that no order was  *)
(* ever given for a node that is not registered (NoEarlyOrder), and        *)
(* AgentStatusIsLastReport that only registered nodes have reports.        *)
(*                                                                         *)
(* The alerts, for any sets of alerts, operators, statuses and filters and *)
(* any number of requests under way.  PageAnswersFilter needs that the     *)
(* last request of a page is for its filter and that an answer served but  *)
(* not yet shown answers what was asked (LastAnswers).  OwnWordStays needs *)
(* what makes an answer trustworthy: a list that is not tainted has no     *)
(* change of this page beside it and agrees with the table on what the     *)
(* operator changed last (OwnWord).                                        *)
(***************************************************************************)
EXTENDS NodeRegistry, AlertTriage, FiniteSetTheorems, TLAPS

\* What a call knows between its statements.
Knowledge ==
    \A c \in Call :
        /\ call[c].pc = "new" => call[c].seen = NoNode
        /\ call[c].pc \in {"found", "written"} /\ call[c].seen # NoNode =>
              /\ call[c].seen \in Registered
              /\ MachineOf(call[c].seen) = call[c].machine
        /\ call[c].pc = "written" =>
              IF call[c].seen = NoNode
              THEN /\ call[c].node \in NodeId \ Registered
                   /\ \A n \in Registered : MachineOf(n) # call[c].machine
              ELSE call[c].node = call[c].seen

\* Two open transactions have not written the same machine, nor are they
\* about to insert the same node id.
OneWriter ==
    \A c, d \in Call :
        call[c].pc = "written" /\ call[d].pc = "written" /\ c # d =>
            /\ call[c].machine # call[d].machine
            /\ call[c].node # call[d].node

\* Operators only give orders for registered nodes.
NoEarlyOrder == \A n \in NodeId \ Registered : ordered[n] = "active"

\* The inductive invariant.
IInv ==
    /\ TypeOK
    /\ Knowledge
    /\ OneWriter
    /\ OneNodePerMachine
    /\ AnswerNamesMachine
    /\ QuarantinePreserved
    /\ NoEarlyOrder
    /\ AuditStartsWithNew
    /\ RowIsLastAudited

\* Everything that speaks only of the tables survives a step that leaves the
\* tables alone.
TableInv ==
    /\ OneNodePerMachine
    /\ QuarantinePreserved
    /\ NoEarlyOrder
    /\ AuditStartsWithNew
    /\ RowIsLastAudited

\* The tables' part of the invariant only depends on the tables.
LEMMA TablesUnchanged ==
    ASSUME TableInv, UNCHANGED <<nodes, audit, ordered>>
    PROVE  TableInv'
BY DEF TableInv, OneNodePerMachine, QuarantinePreserved, NoEarlyOrder,
       AuditStartsWithNew, RowIsLastAudited, Registered, MachineOf

\* The registry starts empty, in a state that satisfies the invariant.
LEMMA InitIInv == Init => IInv
<1> SUFFICES ASSUME Init PROVE IInv
  OBVIOUS
<1>1. Registered = {} /\ audit = <<>> /\ nodes = [n \in {} |-> n]
  BY DEF Init, Registered
<1>2. TypeOK
  <2>1. nodes \in [Registered -> Row] /\ Registered \in SUBSET NodeId
    BY <1>1
  <2>2. audit \in Seq(AuditRow) /\ health \in Seq([node : NodeId, status : AgentStatus])
    BY DEF Init
  <2>3. call \in [Call -> CallState]
    BY DEF Init, CallState
  <2>4. ordered \in [NodeId -> OperatorStatus] /\ errors \in 0..MaxStoreErrors
    BY BoundsAssumption DEF Init, OperatorStatus
  <2> QED
    BY <2>1, <2>2, <2>3, <2>4 DEF TypeOK
<1>3. Knowledge /\ OneWriter /\ AnswerNamesMachine
  BY DEF Init, Knowledge, OneWriter, AnswerNamesMachine
<1>4. OneNodePerMachine /\ QuarantinePreserved /\ NoEarlyOrder
  BY <1>1 DEF Init, OneNodePerMachine, QuarantinePreserved, NoEarlyOrder
<1>5. AuditStartsWithNew /\ RowIsLastAudited
  BY <1>1 DEF AuditStartsWithNew, RowIsLastAudited
<1> QED
  BY <1>2, <1>3, <1>4, <1>5 DEF IInv

\* The SELECT.
LEMMA LookupIInv ==
    ASSUME IInv, NEW c \in Call, Lookup(c)
    PROVE  IInv'
<1>1. TypeOK /\ Knowledge /\ OneWriter /\ AnswerNamesMachine /\ TableInv
  BY DEF IInv, TableInv
<1>2. UNCHANGED <<nodes, audit, health, ordered, errors>> /\ Registered' = Registered
  BY DEF Lookup, Registered
<1>3. TableInv'
  BY <1>1, <1>2, TablesUnchanged
<1>4. /\ call' \in [Call -> CallState]
      /\ call'[c].pc = "found"
      /\ \A d \in Call : d # c => call'[d] = call[d]
  <2>1. ASSUME NEW n \in Registered,
               call' = [call EXCEPT ![c].pc = "found", ![c].seen = n]
        PROVE  <1>4!:
    BY <1>1, <2>1 DEF TypeOK, CallState
  <2>2. CASE call' = [call EXCEPT ![c].pc = "found"]
    BY <1>1, <2>2 DEF TypeOK, CallState
  <2> QED
    BY <2>1, <2>2 DEF Lookup
<1>5. Knowledge'
  BY <1>1, <1>2, NoNodeAssumption DEF Knowledge, TypeOK, Lookup, CallState, MachineOf
<1>6. OneWriter' /\ AnswerNamesMachine'
  BY <1>1, <1>2, <1>4 DEF OneWriter, AnswerNamesMachine, MachineOf
<1>7. TypeOK'
  BY <1>1, <1>2, <1>4 DEF TypeOK
<1> QED
  BY <1>3, <1>5, <1>6, <1>7 DEF IInv, TableInv

\* The INSERT: its guard is what the unique index enforces.
LEMMA InsertIInv ==
    ASSUME IInv, NEW c \in Call, InsertNode(c)
    PROVE  IInv'
<1>1. TypeOK /\ Knowledge /\ OneWriter /\ AnswerNamesMachine /\ TableInv
  BY DEF IInv, TableInv
<1>2. UNCHANGED <<nodes, audit, health, ordered, errors>> /\ Registered' = Registered
  BY DEF InsertNode, Registered
<1>3. TableInv'
  BY <1>1, <1>2, TablesUnchanged
<1>4. PICK n \in NodeId \ (Registered \cup {call[d].node : d \in Call}) :
          call' = [call EXCEPT ![c].pc = "written", ![c].node = n]
  BY DEF InsertNode
<1>5. TypeOK'
  BY <1>1, <1>2, <1>4 DEF TypeOK, CallState
<1>6. Knowledge'
  BY <1>1, <1>2, <1>4 DEF Knowledge, TypeOK, InsertNode, CallState, MachineOf
<1>7. OneWriter'
  <2>1. \A d \in Call : call[d].pc = "written" => call[d].machine # call[c].machine
    BY DEF InsertNode, RowLocked
  <2> QED
    BY <1>1, <1>4, <2>1 DEF OneWriter, TypeOK, CallState
<1>8. AnswerNamesMachine'
  BY <1>1, <1>2, <1>4 DEF AnswerNamesMachine, TypeOK, CallState, MachineOf
<1> QED
  BY <1>3, <1>5, <1>6, <1>7, <1>8 DEF IInv, TableInv

\* A call that fails, by the unique index or by a store error, has written
\* nothing.
LEMMA FailureIInv ==
    ASSUME IInv, NEW c \in Call, InsertConflict(c) \/ StoreError(c)
    PROVE  IInv'
<1>1. TypeOK /\ Knowledge /\ OneWriter /\ AnswerNamesMachine /\ TableInv
  BY DEF IInv, TableInv
<1>2. /\ UNCHANGED <<nodes, audit, health, ordered>> /\ Registered' = Registered
      /\ call' = [call EXCEPT ![c].pc = "failed"]
  BY DEF InsertConflict, StoreError, Registered
<1>3. TableInv'
  BY <1>1, <1>2, TablesUnchanged
<1>4. errors' \in 0..MaxStoreErrors
  BY <1>1, BoundsAssumption DEF InsertConflict, StoreError, TypeOK
<1>5. TypeOK'
  BY <1>1, <1>2, <1>4 DEF TypeOK, CallState
<1>6. Knowledge'
  BY <1>1, <1>2 DEF Knowledge, TypeOK, CallState, MachineOf
<1>7. OneWriter' /\ AnswerNamesMachine'
  BY <1>1, <1>2 DEF OneWriter, AnswerNamesMachine, TypeOK, CallState, MachineOf
<1> QED
  BY <1>3, <1>5, <1>6, <1>7 DEF IInv, TableInv

\* The UPDATE takes the lock of the row that the SELECT found.
LEMMA UpdateIInv ==
    ASSUME IInv, NEW c \in Call, UpdateNode(c)
    PROVE  IInv'
<1>1. TypeOK /\ Knowledge /\ OneWriter /\ AnswerNamesMachine /\ TableInv
  BY DEF IInv, TableInv
<1>2. /\ UNCHANGED <<nodes, audit, health, ordered, errors>> /\ Registered' = Registered
      /\ call' = [call EXCEPT ![c].pc = "written", ![c].node = call[c].seen]
      /\ call[c].pc = "found" /\ call[c].seen # NoNode
  BY DEF UpdateNode, Registered
<1>3. TableInv'
  BY <1>1, <1>2, TablesUnchanged
<1>4. TypeOK'
  BY <1>1, <1>2 DEF TypeOK, CallState
<1>5. Knowledge'
  BY <1>1, <1>2 DEF Knowledge, TypeOK, CallState, MachineOf
<1>6. OneWriter'
  <2>1. \A d \in Call : call[d].pc = "written" => call[d].machine # call[c].machine
    BY DEF UpdateNode, RowLocked
  <2>2. call[c].seen \in Registered /\ MachineOf(call[c].seen) = call[c].machine
    BY <1>1, <1>2 DEF Knowledge
  <2>3. \A d \in Call : call[d].pc = "written" => call[d].node # call[c].seen
    <3> SUFFICES ASSUME NEW d \in Call, call[d].pc = "written",
                        call[d].node = call[c].seen
                 PROVE  FALSE
      OBVIOUS
    <3>1. call[d].seen # NoNode /\ call[d].node = call[d].seen
      BY <1>1, <2>2 DEF Knowledge
    <3>2. MachineOf(call[d].seen) = call[d].machine
      BY <1>1, <3>1 DEF Knowledge
    <3> QED
      BY <2>1, <2>2, <3>1, <3>2
  <2> QED
    BY <1>1, <1>2, <2>1, <2>3 DEF OneWriter, TypeOK, CallState
<1>7. AnswerNamesMachine'
  BY <1>1, <1>2 DEF AnswerNamesMachine, TypeOK, CallState, MachineOf
<1> QED
  BY <1>3, <1>4, <1>5, <1>6, <1>7 DEF IInv, TableInv

\* The commit: the row and its audit row become visible together.
LEMMA CommitIInv ==
    ASSUME IInv, NEW c \in Call, AuditAndCommit(c)
    PROVE  IInv'
<1> DEFINE n == call[c].node
           fresh == call[c].seen = NoNode
           last == Len(audit) + 1
<1>1. TypeOK /\ Knowledge /\ OneWriter /\ AnswerNamesMachine /\ TableInv
  BY DEF IInv, TableInv
<1>2. call[c].pc = "written" /\ call[c] \in CallState
  BY <1>1 DEF AuditAndCommit, TypeOK
<1>3. /\ fresh => n \in NodeId \ Registered
      /\ fresh => \A k \in Registered : MachineOf(k) # call[c].machine
      /\ ~fresh => n = call[c].seen /\ n \in Registered /\ MachineOf(n) = call[c].machine
  BY <1>1, <1>2 DEF Knowledge
<1>4. n \in NodeId
  BY <1>1, <1>3 DEF TypeOK
<1>5. RowOf(c) \in Row /\ RowOf(c).machine = call[c].machine /\ RowOf(c).version = call[c].version
  <2>1. CASE fresh
    BY <1>2, <2>1 DEF RowOf, Row, CallState, AgentStatus, OperatorStatus
  <2>2. CASE ~fresh
    <3>1. nodes[n] \in Row
      BY <1>1, <1>3, <2>2 DEF TypeOK
    <3> QED
      BY <1>2, <1>3, <2>2, <3>1 DEF RowOf, Row, CallState, MachineOf
  <2> QED
    BY <2>1, <2>2
<1>6. /\ Registered' = Registered \cup {n}
      /\ \A k \in Registered' : nodes'[k] = IF k = n THEN RowOf(c) ELSE nodes[k]
      /\ nodes' \in [Registered' -> Row]
  <2>1. nodes' = [k \in Registered \cup {n} |-> IF k = n THEN RowOf(c) ELSE nodes[k]]
    BY DEF AuditAndCommit
  <2>2. Registered' = Registered \cup {n}
    BY <2>1 DEF Registered
  <2> QED
    BY <1>1, <1>5, <2>1, <2>2 DEF TypeOK
<1>7. \A k \in Registered' : MachineOf(k)' = IF k = n THEN call[c].machine ELSE MachineOf(k)
  BY <1>5, <1>6 DEF MachineOf
<1>8. PICK end \in {"answered", "failed"} :
         /\ call' = [call EXCEPT ![c].pc = end] /\ UNCHANGED <<health, ordered>>
         /\ errors' \in 0..MaxStoreErrors
  BY <1>1, BoundsAssumption DEF AuditAndCommit, TypeOK
<1>9. \A k \in Registered : k # n => MachineOf(k) # call[c].machine
  BY <1>1, <1>3 DEF TableInv, OneNodePerMachine
<1>10. TypeOK'
  <2>1. [node |-> n, version |-> call[c].version,
         type |-> IF fresh THEN "new_enrollment" ELSE "re_enrollment"] \in AuditRow
    BY <1>2, <1>4 DEF AuditRow, CallState
  <2>2. audit' \in Seq(AuditRow)
    BY <1>1, <2>1 DEF AuditAndCommit, TypeOK
  <2>3. call' \in [Call -> CallState]
    BY <1>1, <1>8 DEF TypeOK, CallState
  <2> QED
    BY <1>1, <1>4, <1>6, <1>8, <2>2, <2>3 DEF TypeOK
<1>11. Knowledge'
  <2> SUFFICES ASSUME NEW d \in Call
               PROVE  (/\ call[d].pc = "new" => call[d].seen = NoNode
                       /\ call[d].pc \in {"found", "written"} /\ call[d].seen # NoNode =>
                             /\ call[d].seen \in Registered
                             /\ MachineOf(call[d].seen) = call[d].machine
                       /\ call[d].pc = "written" =>
                             IF call[d].seen = NoNode
                             THEN /\ call[d].node \in NodeId \ Registered
                                  /\ \A k \in Registered : MachineOf(k) # call[d].machine
                             ELSE call[d].node = call[d].seen)'
    BY DEF Knowledge
  <2>1. CASE d = c
    BY <1>1, <1>2, <1>8, <2>1 DEF TypeOK, CallState
  <2>2. CASE d # c
    <3>1. call'[d] = call[d]
      BY <1>1, <1>8, <2>2 DEF TypeOK
    <3>2. call[d].seen \in Registered => MachineOf(call[d].seen)' = MachineOf(call[d].seen)
      BY <1>3, <1>6, <1>7, <3>1 DEF MachineOf
    <3>3. call[d].pc = "written" =>
             call[d].node # n /\ call[d].machine # call[c].machine
      BY <1>1, <1>2, <2>2 DEF OneWriter
    <3>4. call[d].pc = "written" /\ call[d].seen = NoNode =>
             /\ call[d].node \in NodeId \ Registered'
             /\ \A k \in Registered' : MachineOf(k)' # call[d].machine
      BY <1>1, <1>6, <1>7, <3>3 DEF Knowledge
    <3> QED
      BY <1>1, <1>6, <3>1, <3>2, <3>4 DEF Knowledge
  <2> QED
    BY <2>1, <2>2
<1>12. OneWriter'
  BY <1>1, <1>8 DEF OneWriter, TypeOK, CallState
<1>13. AnswerNamesMachine'
  <2> SUFFICES ASSUME NEW d \in Call, call'[d].pc = "answered"
               PROVE  call'[d].node \in Registered' /\ MachineOf(call[d].node)' = call'[d].machine
    BY DEF AnswerNamesMachine
  <2>1. CASE d = c
    BY <1>1, <1>6, <1>7, <1>8, <2>1 DEF TypeOK, CallState
  <2>2. CASE d # c
    <3>1. call'[d] = call[d]
      BY <1>1, <1>8, <2>2 DEF TypeOK
    <3>2. call[d].node \in Registered /\ MachineOf(call[d].node) = call[d].machine
      BY <1>1, <3>1 DEF AnswerNamesMachine
    <3> QED
      BY <1>3, <1>6, <1>7, <3>1, <3>2
  <2> QED
    BY <2>1, <2>2
<1>14. OneNodePerMachine'
  BY <1>1, <1>6, <1>7, <1>9 DEF TableInv, OneNodePerMachine
<1>15. QuarantinePreserved' /\ NoEarlyOrder'
  <2>1. RowOf(c).operator = ordered[n]
    <3>1. CASE fresh
      BY <1>1, <1>3, <3>1 DEF RowOf, TableInv, NoEarlyOrder
    <3>2. CASE ~fresh
      <4>1. nodes[n] \in Row /\ nodes[n].operator = ordered[n]
        BY <1>1, <1>3, <3>2 DEF TypeOK, TableInv, QuarantinePreserved
      <4> QED
        BY <1>3, <3>2, <4>1 DEF RowOf, Row
    <3> QED
      BY <3>1, <3>2
  <2> QED
    BY <1>1, <1>6, <1>8, <2>1 DEF TableInv, QuarantinePreserved, NoEarlyOrder
<1>16. /\ DOMAIN audit' = DOMAIN audit \cup {last}
       /\ DOMAIN audit = 1..Len(audit) /\ Len(audit) \in Nat
       /\ \A i \in DOMAIN audit : audit'[i] = audit[i]
       /\ audit'[last].node = n /\ audit'[last].version = call[c].version
       /\ audit'[last].type = IF fresh THEN "new_enrollment" ELSE "re_enrollment"
  BY <1>1 DEF AuditAndCommit, TypeOK
<1>17. AuditStartsWithNew'
  <2>1. {audit[i].node : i \in DOMAIN audit} = Registered
    BY <1>1 DEF TableInv, AuditStartsWithNew
  <2>2. {audit'[i].node : i \in DOMAIN audit'} = Registered'
    BY <1>6, <1>16, <2>1
  <2>3. ASSUME NEW i \in DOMAIN audit'
        PROVE  audit'[i].type = "new_enrollment" <=>
                 \A j \in DOMAIN audit' : j < i => audit'[j].node # audit'[i].node
    <3>1. CASE i = last
      <4>1. (\A j \in DOMAIN audit' : j < i => audit'[j].node # n)
               <=> (\A j \in DOMAIN audit : audit[j].node # n)
        BY <1>16, <3>1
      <4>2. (\A j \in DOMAIN audit : audit[j].node # n) <=> n \notin Registered
        BY <2>1
      <4>3. n \notin Registered <=> fresh
        BY <1>3
      <4> QED
        BY <1>16, <3>1, <4>1, <4>2, <4>3
    <3>2. CASE i # last
      <4>1. i \in DOMAIN audit /\ i < last
        BY <1>16, <3>2
      <4>2. audit[i].type = "new_enrollment" <=>
               \A j \in DOMAIN audit : j < i => audit[j].node # audit[i].node
        BY <1>1, <4>1 DEF TableInv, AuditStartsWithNew
      <4>3. \A j \in DOMAIN audit' : j < i => j \in DOMAIN audit
        BY <1>16, <4>1
      <4> QED
        BY <1>16, <4>1, <4>2, <4>3
    <3> QED
      BY <3>1, <3>2
  <2> QED
    BY <2>2, <2>3 DEF AuditStartsWithNew
<1>18. RowIsLastAudited'
  <2> SUFFICES ASSUME NEW k \in Registered'
               PROVE  \E i \in DOMAIN audit' :
                        /\ audit'[i].node = k
                        /\ audit'[i].version = nodes'[k].version
                        /\ \A j \in DOMAIN audit' : j > i => audit'[j].node # k
    BY DEF RowIsLastAudited
  <2>1. CASE k = n
    <3>1. nodes'[k].version = call[c].version
      BY <1>5, <1>6, <2>1
    <3>2. last \in DOMAIN audit' /\ \A j \in DOMAIN audit' : ~(j > last)
      BY <1>16
    <3> QED
      BY <1>16, <2>1, <3>1, <3>2
  <2>2. CASE k # n
    <3>1. k \in Registered /\ nodes'[k] = nodes[k]
      BY <1>6, <2>2
    <3>2. PICK i \in DOMAIN audit :
             /\ audit[i].node = k
             /\ audit[i].version = nodes[k].version
             /\ \A j \in DOMAIN audit : j > i => audit[j].node # k
      BY <1>1, <3>1 DEF TableInv, RowIsLastAudited
    <3> QED
      BY <1>16, <2>2, <3>1, <3>2
  <2> QED
    BY <2>1, <2>2
<1> QED
  BY <1>10, <1>11, <1>12, <1>13, <1>14, <1>15, <1>17, <1>18 DEF IInv

\* A heartbeat writes agent_status only.
LEMMA HeartbeatIInv ==
    ASSUME IInv, NEW n \in Registered, NEW s \in ReportedStatus, Heartbeat(n, s)
    PROVE  IInv'
<1>1. TypeOK /\ Knowledge /\ OneWriter /\ AnswerNamesMachine /\ TableInv
  BY DEF IInv, TableInv
<1>2. Sanitize(s) \in AgentStatus
  BY DEF Sanitize, AgentStatus
<1>3. /\ nodes' = [nodes EXCEPT ![n].agent = Sanitize(s)]
      /\ health' = Append(health, [node |-> n, status |-> Sanitize(s)])
      /\ UNCHANGED <<audit, call, ordered, errors>>
  BY DEF Heartbeat
<1>4. /\ Registered' = Registered
      /\ nodes' \in [Registered -> Row]
      /\ \A k \in Registered : /\ nodes'[k].machine = nodes[k].machine
                               /\ nodes'[k].version = nodes[k].version
                               /\ nodes'[k].operator = nodes[k].operator
  BY <1>1, <1>2, <1>3 DEF TypeOK, Registered, Row
<1>5. TypeOK'
  <2>1. health' \in Seq([node : NodeId, status : AgentStatus])
    BY <1>1, <1>2, <1>3 DEF TypeOK
  <2> QED
    BY <1>1, <1>3, <1>4, <2>1 DEF TypeOK
<1>6. Knowledge' /\ OneWriter' /\ AnswerNamesMachine'
  BY <1>1, <1>3, <1>4 DEF Knowledge, OneWriter, AnswerNamesMachine, MachineOf
<1>7. TableInv'
  BY <1>1, <1>3, <1>4
     DEF TableInv, OneNodePerMachine, QuarantinePreserved, NoEarlyOrder,
         AuditStartsWithNew, RowIsLastAudited, MachineOf
<1> QED
  BY <1>5, <1>6, <1>7 DEF IInv, TableInv

\* An operator writes operator_status only.
LEMMA OperatorIInv ==
    ASSUME IInv, NEW n \in Registered, NEW s \in OperatorStatus, SetOperatorStatus(n, s)
    PROVE  IInv'
<1>1. TypeOK /\ Knowledge /\ OneWriter /\ AnswerNamesMachine /\ TableInv
  BY DEF IInv, TableInv
<1>2. /\ nodes' = [nodes EXCEPT ![n].operator = s]
      /\ ordered' = [ordered EXCEPT ![n] = s]
      /\ UNCHANGED <<audit, health, call, errors>>
  BY DEF SetOperatorStatus
<1>3. /\ Registered' = Registered
      /\ nodes' \in [Registered -> Row]
      /\ \A k \in Registered : /\ nodes'[k].machine = nodes[k].machine
                               /\ nodes'[k].version = nodes[k].version
                               /\ nodes'[k].operator = IF k = n THEN s ELSE nodes[k].operator
  BY <1>1, <1>2 DEF TypeOK, Registered, Row
<1>4. TypeOK'
  BY <1>1, <1>2, <1>3 DEF TypeOK
<1>5. Knowledge' /\ OneWriter' /\ AnswerNamesMachine'
  BY <1>1, <1>2, <1>3 DEF Knowledge, OneWriter, AnswerNamesMachine, MachineOf
<1>6. QuarantinePreserved' /\ NoEarlyOrder'
  BY <1>1, <1>2, <1>3 DEF TypeOK, TableInv, QuarantinePreserved, NoEarlyOrder
<1>7. OneNodePerMachine' /\ AuditStartsWithNew' /\ RowIsLastAudited'
  BY <1>1, <1>2, <1>3
     DEF TableInv, OneNodePerMachine, AuditStartsWithNew, RowIsLastAudited, MachineOf
<1> QED
  BY <1>4, <1>5, <1>6, <1>7 DEF IInv

\* The invariant holds in every reachable state of the registry.
THEOREM Invariance == Spec => []IInv
<1>1. IInv /\ [Next]_vars => IInv'
  <2> SUFFICES ASSUME IInv, [Next]_vars PROVE IInv'
    OBVIOUS
  <2>1. ASSUME NEW c \in Call, Enroll(c) \/ StoreError(c)
        PROVE  IInv'
    BY <2>1, LookupIInv, InsertIInv, FailureIInv, UpdateIInv, CommitIInv DEF Enroll
  <2>2. ASSUME NEW n \in Registered, NEW s \in ReportedStatus, Heartbeat(n, s)
        PROVE  IInv'
    BY <2>2, HeartbeatIInv
  <2>3. ASSUME NEW n \in Registered, NEW s \in OperatorStatus, SetOperatorStatus(n, s)
        PROVE  IInv'
    BY <2>3, OperatorIInv
  <2>4. CASE UNCHANGED vars
    BY <2>4 DEF vars, IInv, TypeOK, Knowledge, OneWriter, OneNodePerMachine,
                AnswerNamesMachine, QuarantinePreserved, NoEarlyOrder,
                AuditStartsWithNew, RowIsLastAudited, Registered, MachineOf
  <2> QED
    BY <2>1, <2>2, <2>3, <2>4 DEF Next
<1> QED
  BY InitIInv, <1>1, PTL DEF Spec

\* Racing enrolments never give a machine a second row or identity, and a
\* call is only ever answered with the id of its own machine.
THEOREM MachineIdentity == Spec => [](OneNodePerMachine /\ AnswerNamesMachine)
<1>1. IInv => OneNodePerMachine /\ AnswerNamesMachine
  BY DEF IInv
<1> QED
  BY Invariance, <1>1, PTL

\* A node an operator isolated stays isolated until an operator releases it,
\* whatever heartbeats and re-enrolments race with the order.
THEOREM Quarantine == Spec => []QuarantinePreserved
<1>1. IInv => QuarantinePreserved
  BY DEF IInv
<1> QED
  BY Invariance, <1>1, PTL

\* The audit trail is complete and in step with the rows.
THEOREM AuditTrail == Spec => [](AuditStartsWithNew /\ RowIsLastAudited)
<1>1. IInv => AuditStartsWithNew /\ RowIsLastAudited
  BY DEF IInv
<1> QED
  BY Invariance, <1>1, PTL

-----------------------------------------------------------------------------
(* The status that heartbeats report *)

\* The status of a node, written out: healthy without a report, else the last.
LastReport(n) ==
    \/ nodes[n].agent = "healthy" /\ \A i \in DOMAIN health : health[i].node # n
    \/ \E i \in DOMAIN health :
          /\ health[i].node = n /\ nodes[n].agent = health[i].status
          /\ \A j \in DOMAIN health : health[j].node = n => j <= i

\* Only registered nodes have reports, the foreign key of node_health.
StatusInv ==
    /\ \A i \in DOMAIN health : health[i].node \in Registered
    /\ \A n \in Registered : LastReport(n)

\* A commit keeps the status: a fresh node has no report yet, and the UPDATE
\* of a re-enrolment leaves the column alone.
LEMMA CommitStatus ==
    ASSUME IInv, StatusInv, NEW c \in Call, AuditAndCommit(c)
    PROVE  StatusInv'
<1> DEFINE n == call[c].node
<1>1. /\ call[c].seen = NoNode => n \notin Registered
      /\ call[c].seen # NoNode => n = call[c].seen /\ n \in Registered
  BY DEF IInv, Knowledge, AuditAndCommit
<1>2. nodes' = [k \in Registered \cup {n} |-> IF k = n THEN RowOf(c) ELSE nodes[k]]
      /\ UNCHANGED health
  BY DEF AuditAndCommit
<1>3. Registered' = Registered \cup {n}
  BY <1>2 DEF Registered
<1>4. IF call[c].seen = NoNode THEN RowOf(c).agent = "healthy"
                               ELSE RowOf(c).agent = nodes[n].agent
  <2>1. CASE call[c].seen = NoNode
    BY <2>1 DEF RowOf
  <2>2. CASE call[c].seen # NoNode
    <3>1. nodes[n] \in Row
      BY <1>1, <2>2 DEF IInv, TypeOK
    <3>2. QED
      BY <1>1, <2>2, <3>1 DEF RowOf, Row
  <2>3. QED
    BY <2>1, <2>2
<1>5. ASSUME NEW k \in Registered'
      PROVE  LastReport(k)'
  <2>1. CASE k # n
    BY <1>2, <1>3, <2>1 DEF StatusInv, LastReport
  <2>2. CASE k = n /\ n \in Registered
    BY <1>1, <1>2, <1>3, <1>4, <2>2 DEF StatusInv, LastReport
  <2>3. CASE k = n /\ n \notin Registered
    <3>1. nodes'[n].agent = "healthy"
      BY <1>1, <1>2, <1>3, <1>4, <2>3
    <3>2. \A i \in DOMAIN health : health[i].node # n
      BY <2>3 DEF StatusInv
    <3>3. QED
      BY <1>2, <2>3, <3>1, <3>2 DEF LastReport
  <2>4. QED
    BY <2>1, <2>2, <2>3
<1>6. QED
  BY <1>2, <1>3, <1>5 DEF StatusInv

\* A heartbeat is its node's last report, and nobody else's.
LEMMA HeartbeatStatus ==
    ASSUME IInv, StatusInv, NEW n \in Registered, NEW s \in ReportedStatus, Heartbeat(n, s)
    PROVE  StatusInv'
<1> DEFINE last == Len(health) + 1
<1>1. TypeOK
  BY DEF IInv
<1>2. nodes' = [nodes EXCEPT ![n].agent = Sanitize(s)] /\ Registered' = Registered
  BY <1>1 DEF Heartbeat, Registered, TypeOK
<1>3. /\ nodes'[n].agent = Sanitize(s)
      /\ \A k \in Registered : k # n => nodes'[k] = nodes[k]
  BY <1>1, <1>2 DEF TypeOK, Row
<1>4. /\ Len(health) \in Nat /\ DOMAIN health = 1..Len(health)
      /\ DOMAIN health' = 1..Len(health) + 1
      /\ \A i \in DOMAIN health : health'[i] = health[i]
      /\ health'[last].node = n /\ health'[last].status = Sanitize(s)
  BY <1>1 DEF Heartbeat, TypeOK
<1> HIDE DEF last
<1>5. \A i \in DOMAIN health' : i \in DOMAIN health \/ i = last
  BY <1>4 DEF last
<1>6. last \in DOMAIN health' /\ \A i \in DOMAIN health' : i <= last
  BY <1>4 DEF last
<1>7. DOMAIN health \subseteq DOMAIN health'
  BY <1>4
<1>8. ASSUME NEW k \in Registered
      PROVE  LastReport(k)'
  <2>1. CASE k = n
    BY <1>3, <1>4, <1>6, <2>1 DEF LastReport
  <2>2. CASE k # n
    <3>1. LastReport(k) /\ nodes'[k] = nodes[k]
      BY <1>3, <2>2 DEF StatusInv
    <3>2. QED
      BY <1>4, <1>5, <1>7, <2>2, <3>1 DEF LastReport
  <2>3. QED
    BY <2>1, <2>2
<1>9. QED
  BY <1>2, <1>4, <1>5, <1>8 DEF StatusInv

\* Every other step leaves the column and the reports alone.
LEMMA StatusStep ==
    ASSUME IInv, StatusInv, [Next]_vars
    PROVE  StatusInv'
<1>1. ASSUME UNCHANGED <<nodes, health>>
      PROVE  StatusInv'
  BY <1>1 DEF StatusInv, LastReport, Registered
<1>2. ASSUME NEW c \in Call, Enroll(c) \/ StoreError(c)
      PROVE  StatusInv'
  BY <1>1, <1>2, CommitStatus
     DEF Enroll, Lookup, InsertNode, InsertConflict, UpdateNode, StoreError
<1>3. ASSUME NEW n \in Registered, NEW s \in OperatorStatus, SetOperatorStatus(n, s)
      PROVE  StatusInv'
  <2>1. /\ Registered' = Registered /\ UNCHANGED health
        /\ \A k \in Registered : nodes'[k].agent = nodes[k].agent
    BY <1>3 DEF IInv, TypeOK, SetOperatorStatus, Registered, Row
  <2>2. QED
    BY <2>1 DEF StatusInv, LastReport
<1>4. CASE UNCHANGED vars
  BY <1>1, <1>4 DEF vars
<1>5. QED
  BY <1>2, <1>3, <1>4, HeartbeatStatus DEF Next

\* The agent status of a node is what its last heartbeat reported: no
\* re-enrolment, operator order or failed transaction that races with the
\* heartbeats changes it.
THEOREM StatusIsReported == Spec => []AgentStatusIsLastReport
<1>1. Init => StatusInv
  BY DEF Init, StatusInv, Registered
<1>2. StatusInv => AgentStatusIsLastReport
  <2> SUFFICES ASSUME StatusInv, NEW n \in Registered
               PROVE  LET reports == {i \in DOMAIN health : health[i].node = n}
                      IN  IF reports = {} THEN nodes[n].agent = "healthy"
                          ELSE \E i \in reports :
                                  /\ nodes[n].agent = health[i].status
                                  /\ \A j \in reports : j <= i
    BY DEF AgentStatusIsLastReport
  <2>1. LastReport(n)
    BY DEF StatusInv
  <2>2. QED
    BY <2>1 DEF LastReport
<1>3. QED
  BY <1>1, <1>2, Invariance, StatusStep, PTL DEF Spec

-----------------------------------------------------------------------------

\* Types of the tables, requests and variables of the alerts pages.
Table == UNION {[S -> STRING] : S \in SUBSET Alert}
FilterType == [severity : STRING \cup {All}, status : STRING \cup {All}]
ListCall == [no : Nat, filter : FilterType, at : {"sent", "served"}, page : Table,
             table : Table, tainted : BOOLEAN]
PatchCall == [no : Nat, alert : Alert, status : STRING, at : {"sent", "served", "late"}]

TriageTypes ==
    /\ rows \in Table /\ by \in [Alert -> Operator \cup {"engine"}]
    /\ filter \in [Operator -> FilterType]
    /\ shown \in [Operator -> Table] /\ basis \in [Operator -> Table]
    /\ fetches \in [Operator -> SUBSET ListCall]
    /\ patches \in [Operator -> SUBSET PatchCall]
    /\ issued \in [Operator -> Nat] /\ from \in [Operator -> Nat]
    /\ known \in [Operator -> SUBSET Alert] /\ doubt \in [Operator -> BOOLEAN]
    /\ changes \in Nat /\ failures \in Nat

\* A page and its requests only speak of alerts that are in the table.
Existing(o) ==
    /\ DOMAIN shown[o] \subseteq DOMAIN rows /\ known[o] \subseteq DOMAIN rows
    /\ \A c \in fetches[o] : DOMAIN c.page \subseteq DOMAIN rows
    /\ \A p \in patches[o] : p.alert \in DOMAIN rows

\* The alerts D answer filter f asked of a table.
Match(f, table) == {a \in DOMAIN table : Passes(f, a, table[a])}
Answers(f, table, D) ==
    /\ D \subseteq Match(f, table)
    /\ \A a \in Match(f, table) \ D :
          /\ Cardinality(D) = clamp(Asked)
          /\ \A b \in D : CreatedAt[b] >= CreatedAt[a]

\* The last request of a page is for its filter, and what was served answers
\* what was asked.
LastAnswers(o) ==
    /\ from[o] <= issued[o]
    /\ from[o] = issued[o] => Answers(filter[o], basis[o], DOMAIN shown[o])
    /\ \A c \in fetches[o] :
          /\ c.no <= issued[o]
          /\ c.no = issued[o] => c.filter = filter[o]
          /\ c.at = "served" => Answers(c.filter, c.table, DOMAIN c.page)

\* A list that is not tainted has no change beside it and agrees with the
\* table on what the operator changed last.  A page without doubt has one
\* change under way at most, has not given it up, and differs from the table
\* by that one at most.
OwnWord(o) ==
    /\ \A c \in fetches[o] : ~c.tainted =>
          /\ patches[o] = {}
          /\ \A a \in DOMAIN c.page : by[a] = o => c.page[a] = rows[a]
    /\ ~doubt[o] =>
          /\ \A p, q \in patches[o] : p = q
          /\ \A p \in patches[o] : p.at # "late"
          /\ \A p \in patches[o] :
                p.at = "served" /\ by[p.alert] = o => rows[p.alert] = p.status
          /\ \A a \in DOMAIN shown[o] : by[a] = o =>
                \/ shown[o][a] = rows[a]
                \/ \E p \in patches[o] : p.alert = a /\ p.at = "served"

\* The inductive invariant.
TriageInv ==
    /\ TriageTypes
    /\ \A o \in Operator : Existing(o) /\ LastAnswers(o) /\ OwnWord(o)

-----------------------------------------------------------------------------

\* What a table is.
LEMMA Tables ==
    /\ \A T \in Table : DOMAIN T \subseteq Alert /\ \A a \in DOMAIN T : T[a] \in STRING
    /\ \A S \in SUBSET Alert : \A T \in [S -> STRING] : T \in Table
    /\ \A T \in Table : T \in [DOMAIN T -> STRING]
<1>1. ASSUME NEW T \in Table PROVE \E S \in SUBSET Alert : T \in [S -> STRING]
  BY DEF Table
<1>2. ASSUME NEW S \in SUBSET Alert, NEW T \in [S -> STRING] PROVE T \in Table
  BY DEF Table
<1> QED
  BY <1>1, <1>2

\* The empty table.
LEMMA EmptyTable == <<>> \in Table /\ DOMAIN <<>> = {}
<1>1. <<>> \in [{} -> STRING] /\ DOMAIN <<>> = {}
  OBVIOUS
<1> QED
  BY <1>1, Tables

\* What find_all returns are tables that answer the filter.
LEMMA FoundAnswers ==
    ASSUME rows \in Table, NEW f, NEW page \in find_all(f)
    PROVE  /\ page \in Table
           /\ DOMAIN page \subseteq DOMAIN rows
           /\ \A a \in DOMAIN page : page[a] = rows[a]
           /\ Answers(f, rows, DOMAIN page)
<1> DEFINE match == Match(f, rows)
<1>1. PICK S \in SUBSET match :
         /\ Cardinality(S) = Lesser(clamp(Asked), Cardinality(match))
         /\ \A a \in S, b \in match \ S : CreatedAt[a] >= CreatedAt[b]
         /\ page = [a \in S |-> rows[a]]
  BY DEF find_all, Match
<1>2. DOMAIN page = S /\ \A a \in S : page[a] = rows[a]
  BY <1>1
<1>3. match \subseteq DOMAIN rows /\ DOMAIN rows \subseteq Alert
  BY Tables DEF Match
<1>4. page \in Table
  <2>1. S \in SUBSET Alert /\ page \in [S -> STRING]
    BY <1>1, <1>3, Tables
  <2> QED
    BY <2>1, Tables
<1>5. ASSUME NEW a \in match \ S PROVE Cardinality(S) = clamp(Asked)
  <2>1. IsFiniteSet(match)
    BY <1>3, TriageAssumption, FS_Subset
  <2>2. Cardinality(S) # Cardinality(match)
    BY <1>5, <2>1, FS_Subset
  <2> QED
    BY <1>1, <2>2 DEF Lesser
<1>6. Answers(f, rows, S)
  BY <1>1, <1>5 DEF Answers
<1> QED
  BY <1>2, <1>3, <1>4, <1>6

-----------------------------------------------------------------------------
(* Pages a step does not touch *)

Same(o) ==
    /\ filter'[o] = filter[o] /\ shown'[o] = shown[o] /\ basis'[o] = basis[o]
    /\ fetches'[o] = fetches[o] /\ patches'[o] = patches[o] /\ issued'[o] = issued[o]
    /\ from'[o] = from[o] /\ known'[o] = known[o] /\ doubt'[o] = doubt[o]

\* What others do to the table leaves an operator's word alone.
LEMMA OtherPage ==
    ASSUME TriageInv, NEW o \in Operator, Same(o),
           DOMAIN rows \subseteq DOMAIN rows',
           \A a \in DOMAIN rows : \/ rows'[a] = rows[a] /\ by'[a] = by[a]
                                  \/ by'[a] # o
    PROVE  Existing(o)' /\ LastAnswers(o)' /\ OwnWord(o)'
<1>0. Existing(o) /\ LastAnswers(o) /\ OwnWord(o)
  BY DEF TriageInv
<1>1. Existing(o)'
  BY <1>0 DEF Existing, Same
<1>2. LastAnswers(o)'
  BY <1>0 DEF LastAnswers, Same
<1>3. OwnWord(o)'
  <2>1. \A c \in fetches'[o] : ~c.tainted =>
           /\ patches'[o] = {}
           /\ \A a \in DOMAIN c.page : by'[a] = o => c.page[a] = rows'[a]
    BY <1>0 DEF Existing, OwnWord, Same
  <2>2. ~doubt'[o] => /\ \A p, q \in patches'[o] : p = q
                      /\ \A p \in patches'[o] : p.at # "late"
    BY <1>0 DEF OwnWord, Same
  <2>3. ~doubt'[o] => \A p \in patches'[o] :
           p.at = "served" /\ by'[p.alert] = o => rows'[p.alert] = p.status
    BY <1>0 DEF Existing, OwnWord, Same
  <2>4. ~doubt'[o] => \A a \in DOMAIN shown'[o] : by'[a] = o =>
           \/ shown'[o][a] = rows'[a]
           \/ \E p \in patches'[o] : p.alert = a /\ p.at = "served"
    BY <1>0 DEF Existing, OwnWord, Same
  <2> QED
    BY <2>1, <2>2, <2>3, <2>4 DEF OwnWord
<1> QED
  BY <1>1, <1>2, <1>3

\* A step of one page that leaves the table alone.
LEMMA OnePage ==
    ASSUME TriageInv, NEW o \in Operator, TriageTypes', UNCHANGED <<rows, by>>,
           \A u \in Operator : u # o => Same(u),
           Existing(o)' /\ LastAnswers(o)' /\ OwnWord(o)'
    PROVE  TriageInv'
<1>1. ASSUME NEW u \in Operator, u # o
      PROVE  Existing(u)' /\ LastAnswers(u)' /\ OwnWord(u)'
  BY <1>1, OtherPage
<1>2. \A u \in Operator : Existing(u)' /\ LastAnswers(u)' /\ OwnWord(u)'
  BY <1>1
<1> QED
  BY <1>2 DEF TriageInv

-----------------------------------------------------------------------------
(* The steps *)

\* New alerts are in no page and in no request.
LEMMA InsertTriage ==
    ASSUME TriageInv, NEW S \in SUBSET Alert, Insert(S)
    PROVE  TriageInv'
<1>0. TriageTypes /\ rows \in Table /\ DOMAIN rows \subseteq Alert
  BY Tables DEF TriageInv, TriageTypes
<1>1. /\ DOMAIN rows' = DOMAIN rows \cup S
      /\ \A a \in DOMAIN rows : rows'[a] = rows[a]
      /\ UNCHANGED <<by, failures, callVars, pageVars>>
  BY DEF Insert
<1>2. rows' \in Table
  <2>1. "open" \in STRING
    BY TriageAssumption
  <2>2. rows' \in [DOMAIN rows \cup S -> STRING]
    BY <1>0, <2>1, Tables DEF Insert
  <2>3. DOMAIN rows \cup S \in SUBSET Alert
    BY <1>0
  <2> QED
    BY <2>2, <2>3, Tables
<1>3. TriageTypes'
  BY <1>0, <1>1, <1>2 DEF TriageTypes, callVars, pageVars
<1>4. \A o \in Operator : Same(o)
  BY <1>1 DEF Same, callVars, pageVars
<1>5. ASSUME NEW o \in Operator
      PROVE  Existing(o)' /\ LastAnswers(o)' /\ OwnWord(o)'
  BY <1>1, <1>4, <1>5, OtherPage
<1> QED
  BY <1>3, <1>5 DEF TriageInv

\* A list is served from the table as it is.
LEMMA ListTriage ==
    ASSUME TriageInv, NEW o \in Operator, NEW c \in fetches[o], list_alerts(o, c)
    PROVE  TriageInv'
<1>0. /\ TriageTypes /\ rows \in Table /\ c \in ListCall
      /\ Existing(o) /\ LastAnswers(o) /\ OwnWord(o)
  BY DEF TriageInv, TriageTypes
<1>1. PICK page \in find_all(c.filter) :
         fetches' = [fetches EXCEPT ![o] =
                       (@ \ {c}) \cup {[c EXCEPT !.at = "served", !.page = page,
                                                 !.table = rows]}]
  BY DEF list_alerts
<1> DEFINE d == [c EXCEPT !.at = "served", !.page = page, !.table = rows]
<1>2. UNCHANGED <<rows, by, failures, patches, issued, changes, pageVars>>
  BY DEF list_alerts
<1>3. /\ page \in Table /\ DOMAIN page \subseteq DOMAIN rows
      /\ \A a \in DOMAIN page : page[a] = rows[a]
      /\ Answers(c.filter, rows, DOMAIN page)
  BY <1>0, FoundAnswers
<1>4. /\ d \in ListCall /\ d.no = c.no /\ d.filter = c.filter /\ d.tainted = c.tainted
      /\ d.page = page /\ d.table = rows /\ d.at = "served"
  BY <1>0, <1>3 DEF ListCall
<1>5. /\ fetches'[o] = (fetches[o] \ {c}) \cup {d}
      /\ \A u \in Operator : u # o => fetches'[u] = fetches[u]
      /\ fetches' \in [Operator -> SUBSET ListCall]
  BY <1>0, <1>1, <1>4 DEF TriageTypes
<1> HIDE DEF d
<1>6. TriageTypes'
  BY <1>0, <1>2, <1>5 DEF TriageTypes, pageVars
<1>7. \A u \in Operator : u # o => Same(u)
  BY <1>2, <1>5 DEF Same, pageVars
<1>8. Existing(o)'
  BY <1>0, <1>2, <1>3, <1>4, <1>5 DEF Existing, pageVars
<1>9. LastAnswers(o)'
  BY <1>0, <1>2, <1>3, <1>4, <1>5 DEF LastAnswers, pageVars
<1>10. OwnWord(o)'
  <2>1. ASSUME NEW e \in fetches'[o], ~e.tainted
        PROVE  /\ patches[o] = {}
               /\ \A a \in DOMAIN e.page : by[a] = o => e.page[a] = rows[a]
    <3>1. CASE e = d
      BY <1>0, <1>3, <1>4, <2>1, <3>1 DEF OwnWord
    <3>2. CASE e # d
      BY <1>0, <1>5, <2>1, <3>2 DEF OwnWord
    <3> QED
      BY <3>1, <3>2
  <2> QED
    BY <1>0, <1>2, <2>1 DEF OwnWord, pageVars
<1> QED
  BY <1>2, <1>6, <1>7, <1>8, <1>9, <1>10, OnePage

\* An update changes one alert and says who did.
LEMMA UpdateTriage ==
    ASSUME TriageInv, NEW o \in Operator, NEW p \in patches[o], update_alert_status(o, p)
    PROVE  TriageInv'
<1>0. /\ TriageTypes /\ rows \in Table /\ p \in PatchCall
      /\ Existing(o) /\ LastAnswers(o) /\ OwnWord(o)
  BY DEF TriageInv, TriageTypes
<1> DEFINE q == [p EXCEPT !.at = "served"]
           Q == IF p.at = "late" THEN {} ELSE {q}
           b == p.alert
<1>1. /\ rows' = [rows EXCEPT ![b] = p.status] /\ by' = [by EXCEPT ![b] = o]
      /\ patches' = [patches EXCEPT ![o] = (@ \ {p}) \cup Q]
      /\ UNCHANGED <<failures, fetches, issued, changes, pageVars>>
  BY DEF update_alert_status, update_status
<1>2. b \in DOMAIN rows /\ b \in Alert /\ p.status \in STRING
  BY <1>0 DEF Existing, PatchCall
<1>3. /\ DOMAIN rows' = DOMAIN rows /\ rows'[b] = p.status /\ by'[b] = o
      /\ \A a \in DOMAIN rows : a # b => rows'[a] = rows[a]
      /\ \A a \in Alert : a # b => by'[a] = by[a]
  <2>1. rows \in [DOMAIN rows -> STRING]
    BY <1>0, Tables
  <2> QED
    BY <1>0, <1>1, <1>2, <2>1 DEF TriageTypes
<1>4. /\ q \in PatchCall /\ q.alert = b /\ q.status = p.status /\ q.at = "served"
      /\ Q \subseteq {q} /\ (p.at # "late" => Q = {q})
  BY <1>0 DEF PatchCall
<1>5. /\ patches'[o] = (patches[o] \ {p}) \cup Q
      /\ \A u \in Operator : u # o => patches'[u] = patches[u]
      /\ patches' \in [Operator -> SUBSET PatchCall]
  BY <1>0, <1>1, <1>4 DEF TriageTypes
<1> HIDE DEF q, Q
<1>6. TriageTypes'
  <2>1. rows \in [DOMAIN rows -> STRING] /\ DOMAIN rows \subseteq Alert
    BY <1>0, Tables
  <2>2. rows' \in [DOMAIN rows -> STRING]
    BY <1>1, <1>2, <2>1
  <2>3. rows' \in Table
    BY <2>1, <2>2, Tables
  <2>4. by' \in [Alert -> Operator \cup {"engine"}]
    BY <1>0, <1>1 DEF TriageTypes
  <2> QED
    BY <1>0, <1>1, <1>5, <2>3, <2>4 DEF TriageTypes, pageVars
<1>7. DOMAIN rows \subseteq Alert
  BY <1>0, Tables
<1>8. ASSUME NEW u \in Operator, u # o
      PROVE  Existing(u)' /\ LastAnswers(u)' /\ OwnWord(u)'
  <2>1. Same(u)
    BY <1>1, <1>5, <1>8 DEF Same, pageVars
  <2>2. \A a \in DOMAIN rows : \/ rows'[a] = rows[a] /\ by'[a] = by[a]
                               \/ by'[a] # u
    BY <1>3, <1>7, <1>8
  <2> QED
    BY <1>3, <1>8, <2>1, <2>2, OtherPage
<1>9. Existing(o)'
  BY <1>0, <1>1, <1>2, <1>3, <1>4, <1>5 DEF Existing, pageVars
<1>10. LastAnswers(o)'
  BY <1>0, <1>1 DEF LastAnswers, pageVars
<1>11. OwnWord(o)'
  <2>0. \A c \in fetches[o] : c.tainted
    BY <1>0 DEF OwnWord
  <2>1. UNCHANGED <<fetches, doubt, shown>>
    BY <1>1 DEF pageVars
  <2>2. ASSUME ~doubt[o]
        PROVE  /\ \A x, y \in patches'[o] : x = y
               /\ \A x \in patches'[o] : x.at # "late"
               /\ \A x \in patches'[o] :
                     x.at = "served" /\ by'[x.alert] = o => rows'[x.alert] = x.status
               /\ \A a \in DOMAIN shown[o] : by'[a] = o =>
                     \/ shown[o][a] = rows'[a]
                     \/ \E x \in patches'[o] : x.alert = a /\ x.at = "served"
    <3>1. patches[o] = {p} /\ p.at # "late"
      BY <1>0, <2>2 DEF OwnWord
    <3>2. patches'[o] = {q}
      BY <1>4, <1>5, <3>1
    <3>3. ASSUME NEW a \in DOMAIN shown[o], by'[a] = o
          PROVE  \/ shown[o][a] = rows'[a]
                 \/ \E x \in patches'[o] : x.alert = a /\ x.at = "served"
      <4>1. CASE a = b
        BY <1>4, <3>2, <4>1
      <4>2. CASE a # b
        <5>1. a \in DOMAIN rows /\ a \in Alert
          BY <1>0, <1>7 DEF Existing
        <5>2. by[a] = o /\ rows'[a] = rows[a]
          BY <1>3, <3>3, <4>2, <5>1
        <5>3. shown[o][a] = rows[a]
          BY <1>0, <2>2, <3>1, <4>2, <5>2 DEF OwnWord
        <5> QED
          BY <5>2, <5>3
      <4> QED
        BY <4>1, <4>2
    <3> QED
      BY <1>3, <1>4, <3>2, <3>3
  <2> QED
    BY <2>0, <2>1, <2>2 DEF OwnWord
<1>12. \A u \in Operator : Existing(u)' /\ LastAnswers(u)' /\ OwnWord(u)'
  BY <1>8, <1>9, <1>10, <1>11
<1> QED
  BY <1>6, <1>12 DEF TriageInv

\* The page asks for a list, with the filter it has from now on.
LEMMA FetchTriage ==
    ASSUME TriageInv, NEW o \in Operator, NEW f \in FilterType, fetchAlerts(o, f),
           filter' = [filter EXCEPT ![o] = f]
    PROVE  TriageInv'
<1>0. TriageTypes /\ Existing(o) /\ LastAnswers(o) /\ OwnWord(o)
  BY DEF TriageInv
<1> DEFINE d == Fetch(issued[o] + 1, f, patches[o] # {})
<1>1. /\ issued' = [issued EXCEPT ![o] = issued[o] + 1]
      /\ fetches' = [fetches EXCEPT ![o] = fetches[o] \cup {d}]
      /\ UNCHANGED <<rows, by, failures, patches, changes, shown, from, basis, known, doubt>>
  BY DEF fetchAlerts
<1>2. /\ d \in ListCall /\ d.no = issued[o] + 1 /\ d.filter = f
      /\ (d.tainted <=> patches[o] # {}) /\ d.page = <<>> /\ d.at = "sent"
  <2>1. issued[o] + 1 \in Nat
    BY <1>0 DEF TriageTypes
  <2> QED
    BY <2>1, EmptyTable DEF Fetch, ListCall
<1> HIDE DEF d
<1>3. /\ fetches'[o] = fetches[o] \cup {d} /\ issued'[o] = issued[o] + 1 /\ filter'[o] = f
      /\ \A u \in Operator : u # o => /\ fetches'[u] = fetches[u]
                                      /\ issued'[u] = issued[u] /\ filter'[u] = filter[u]
  BY <1>0, <1>1 DEF TriageTypes
<1>4. TriageTypes'
  <2>1. fetches' \in [Operator -> SUBSET ListCall]
    BY <1>0, <1>1, <1>2 DEF TriageTypes
  <2>2. issued' \in [Operator -> Nat] /\ filter' \in [Operator -> FilterType]
    BY <1>0, <1>1 DEF TriageTypes
  <2> QED
    BY <1>0, <1>1, <2>1, <2>2 DEF TriageTypes
<1>5. \A u \in Operator : u # o => Same(u)
  BY <1>1, <1>3 DEF Same
<1>6. Existing(o)'
  BY <1>0, <1>1, <1>2, <1>3, EmptyTable DEF Existing
<1>7. LastAnswers(o)'
  <2>1. issued[o] \in Nat /\ from[o] \in Nat /\ \A c \in fetches[o] : c.no \in Nat
    BY <1>0 DEF TriageTypes, ListCall
  <2>2. from[o] < issued[o] + 1 /\ \A c \in fetches[o] : c.no < issued[o] + 1
    BY <1>0, <2>1 DEF LastAnswers
  <2>3. ASSUME NEW c \in fetches'[o]
        PROVE  /\ c.no <= issued'[o]
               /\ c.no = issued'[o] => c.filter = filter'[o]
               /\ c.at = "served" => Answers(c.filter, c.table, DOMAIN c.page)
    <3>1. CASE c = d
      BY <1>2, <1>3, <2>1, <3>1
    <3>2. CASE c \in fetches[o]
      BY <1>0, <1>3, <2>1, <2>2, <3>2 DEF LastAnswers
    <3> QED
      BY <1>3, <3>1, <3>2
  <2>4. from'[o] < issued'[o] /\ from'[o] \in Nat /\ issued'[o] \in Nat
    BY <1>1, <1>3, <2>1, <2>2
  <2> QED
    BY <2>3, <2>4 DEF LastAnswers
<1>8. OwnWord(o)'
  <2>1. ASSUME NEW e \in fetches'[o], ~e.tainted
        PROVE  /\ patches[o] = {}
               /\ \A a \in DOMAIN e.page : by[a] = o => e.page[a] = rows[a]
    <3>1. CASE e = d
      BY <1>2, <2>1, <3>1, EmptyTable
    <3>2. CASE e \in fetches[o]
      BY <1>0, <2>1, <3>2 DEF OwnWord
    <3> QED
      BY <1>3, <3>1, <3>2
  <2> QED
    BY <1>0, <1>1, <2>1 DEF OwnWord
<1> QED
  BY <1>1, <1>4, <1>5, <1>6, <1>7, <1>8, OnePage

\* The page shows the answer to one of its requests.
LEMMA ShowTriage ==
    ASSUME TriageInv, NEW o \in Operator, NEW c \in fetches[o], setAlerts(o, c)
    PROVE  TriageInv'
<1>0. /\ TriageTypes /\ c \in ListCall
      /\ Existing(o) /\ LastAnswers(o) /\ OwnWord(o)
  BY DEF TriageInv, TriageTypes
<1>1. /\ shown' = [shown EXCEPT ![o] = c.page]
      /\ known' = [known EXCEPT ![o] = known[o] \cup DOMAIN c.page]
      /\ from' = [from EXCEPT ![o] = c.no] /\ basis' = [basis EXCEPT ![o] = c.table]
      /\ doubt' = [doubt EXCEPT ![o] = c.tainted]
      /\ fetches' = [fetches EXCEPT ![o] = fetches[o] \ {c}]
      /\ UNCHANGED <<rows, by, failures, patches, issued, changes, filter>>
      /\ c.at = "served"
  BY DEF setAlerts
<1>2. /\ c.page \in Table /\ c.table \in Table /\ c.no \in Nat /\ c.tainted \in BOOLEAN
      /\ DOMAIN c.page \subseteq Alert
  BY <1>0, Tables DEF ListCall
<1>3. /\ shown'[o] = c.page /\ known'[o] = known[o] \cup DOMAIN c.page
      /\ from'[o] = c.no /\ basis'[o] = c.table /\ doubt'[o] = c.tainted
      /\ fetches'[o] = fetches[o] \ {c}
      /\ \A u \in Operator : u # o => Same(u)
  BY <1>0, <1>1 DEF TriageTypes, Same
<1>4. TriageTypes'
  <2>1. shown' \in [Operator -> Table] /\ basis' \in [Operator -> Table]
    BY <1>0, <1>1, <1>2 DEF TriageTypes
  <2>2. known' \in [Operator -> SUBSET Alert] /\ from' \in [Operator -> Nat]
    BY <1>0, <1>1, <1>2 DEF TriageTypes
  <2>3. doubt' \in [Operator -> BOOLEAN]
    BY <1>0, <1>1, <1>2 DEF TriageTypes
  <2>4. fetches' \in [Operator -> SUBSET ListCall]
    BY <1>0, <1>1 DEF TriageTypes
  <2> QED
    BY <1>0, <1>1, <2>1, <2>2, <2>3, <2>4 DEF TriageTypes
<1>5. Existing(o)'
  BY <1>0, <1>1, <1>3 DEF Existing
<1>6. LastAnswers(o)'
  BY <1>0, <1>1, <1>3 DEF LastAnswers
<1>7. OwnWord(o)'
  <2>1. \A e \in fetches'[o] : ~e.tainted =>
           /\ patches[o] = {}
           /\ \A a \in DOMAIN e.page : by[a] = o => e.page[a] = rows[a]
    BY <1>0, <1>3 DEF OwnWord
  <2>2. ~c.tainted => /\ patches[o] = {}
                      /\ \A a \in DOMAIN c.page : by[a] = o => c.page[a] = rows[a]
    BY <1>0 DEF OwnWord
  <2> QED
    BY <1>1, <1>3, <2>1, <2>2 DEF OwnWord
<1> QED
  BY <1>1, <1>3, <1>4, <1>5, <1>6, <1>7, OnePage

\* A list that fails leaves the page as it was.
LEMMA FetchFailsTriage ==
    ASSUME TriageInv, NEW o \in Operator, NEW c \in fetches[o], FetchFails(o, c)
    PROVE  TriageInv'
<1>0. TriageTypes /\ Existing(o) /\ LastAnswers(o) /\ OwnWord(o)
  BY DEF TriageInv
<1>1. /\ failures' = failures + 1
      /\ fetches' = [fetches EXCEPT ![o] = fetches[o] \ {c}]
      /\ UNCHANGED <<rows, by, patches, issued, changes, pageVars>>
  BY DEF FetchFails
<1>2. /\ fetches'[o] = fetches[o] \ {c}
      /\ \A u \in Operator : u # o => fetches'[u] = fetches[u]
      /\ fetches' \in [Operator -> SUBSET ListCall]
  BY <1>0, <1>1 DEF TriageTypes
<1>3. TriageTypes'
  BY <1>0, <1>1, <1>2 DEF TriageTypes, pageVars
<1>4. \A u \in Operator : u # o => Same(u)
  BY <1>1, <1>2 DEF Same, pageVars
<1>5. Existing(o)'
  BY <1>0, <1>1, <1>2 DEF Existing, pageVars
<1>6. LastAnswers(o)'
  BY <1>0, <1>1, <1>2 DEF LastAnswers, pageVars
<1>7. OwnWord(o)'
  BY <1>0, <1>1, <1>2 DEF OwnWord, pageVars
<1> QED
  BY <1>1, <1>3, <1>4, <1>5, <1>6, <1>7, OnePage

\* A change taints the lists under way, and casts doubt on the page when it is
\* not the only one.
LEMMA ChangeTriage ==
    ASSUME TriageInv, NEW o \in Operator, NEW a \in Alert, NEW s \in Status,
           handleStatusChange(o, a, s)
    PROVE  TriageInv'
<1>0. TriageTypes /\ Existing(o) /\ LastAnswers(o) /\ OwnWord(o)
  BY DEF TriageInv
<1> DEFINE n == [no |-> changes', alert |-> a, status |-> s, at |-> "sent"]
           tainted(c) == [c EXCEPT !.tainted = TRUE]
           F == {tainted(c) : c \in fetches[o]}
<1>1. /\ a \in known[o] /\ changes' = changes + 1
      /\ patches' = [patches EXCEPT ![o] = patches[o] \cup {n}]
      /\ fetches' = [fetches EXCEPT ![o] = F]
      /\ doubt' = [doubt EXCEPT ![o] = (doubt[o] \/ patches[o] # {})]
      /\ UNCHANGED <<rows, by, failures, issued, filter, shown, from, basis, known>>
  BY DEF handleStatusChange, Change
<1>2. n \in PatchCall /\ n.alert = a /\ n.at = "sent"
  <2>1. changes' \in Nat /\ s \in STRING
    BY <1>0, <1>1, TriageAssumption DEF TriageTypes
  <2> QED
    BY <2>1 DEF PatchCall
<1>3. \A c \in fetches[o] :
         /\ tainted(c) \in ListCall /\ tainted(c).tainted
         /\ tainted(c).no = c.no /\ tainted(c).filter = c.filter /\ tainted(c).at = c.at
         /\ tainted(c).page = c.page /\ tainted(c).table = c.table
  <2> SUFFICES ASSUME NEW c \in fetches[o]
               PROVE  /\ tainted(c) \in ListCall /\ tainted(c).tainted
                      /\ tainted(c).no = c.no /\ tainted(c).filter = c.filter
                      /\ tainted(c).at = c.at /\ tainted(c).page = c.page
                      /\ tainted(c).table = c.table
    OBVIOUS
  <2>1. c \in ListCall
    BY <1>0 DEF TriageTypes
  <2> QED
    BY <2>1 DEF ListCall
<1> HIDE DEF n, tainted
<1>4. /\ patches'[o] = patches[o] \cup {n} /\ fetches'[o] = F
      /\ (doubt'[o] <=> (doubt[o] \/ patches[o] # {}))
      /\ \A u \in Operator : u # o => Same(u)
  <2>1. patches'[o] = patches[o] \cup {n} /\ \A u \in Operator : u # o => patches'[u] = patches[u]
    BY <1>0, <1>1 DEF TriageTypes
  <2>2. fetches'[o] = F /\ \A u \in Operator : u # o => fetches'[u] = fetches[u]
    BY <1>0, <1>1 DEF TriageTypes
  <2>3. /\ (doubt'[o] <=> (doubt[o] \/ patches[o] # {}))
        /\ \A u \in Operator : u # o => doubt'[u] = doubt[u]
    BY <1>0, <1>1 DEF TriageTypes
  <2> QED
    BY <1>1, <2>1, <2>2, <2>3 DEF Same
<1>5. TriageTypes'
  <2>1. F \in SUBSET ListCall
    BY <1>3
  <2>2. fetches' \in [Operator -> SUBSET ListCall]
    <3> HIDE DEF F
    <3> QED
      BY <1>0, <1>1, <2>1 DEF TriageTypes
  <2>3. patches' \in [Operator -> SUBSET PatchCall]
    BY <1>0, <1>1, <1>2 DEF TriageTypes
  <2>4. doubt' \in [Operator -> BOOLEAN]
    BY <1>0, <1>1 DEF TriageTypes
  <2>5. changes' \in Nat
    BY <1>0, <1>1 DEF TriageTypes
  <2> QED
    BY <1>0, <1>1, <2>2, <2>3, <2>4, <2>5 DEF TriageTypes
<1>6. Existing(o)'
  BY <1>0, <1>1, <1>2, <1>3, <1>4 DEF Existing
<1>7. LastAnswers(o)'
  BY <1>0, <1>1, <1>3, <1>4 DEF LastAnswers
<1>8. OwnWord(o)'
  <2>1. \A c \in fetches'[o] : c.tainted
    BY <1>3, <1>4
  <2>2. ASSUME ~doubt'[o]
        PROVE  /\ \A x, y \in patches'[o] : x = y
               /\ \A x \in patches'[o] : x.at # "late"
               /\ \A x \in patches'[o] :
                     x.at = "served" /\ by'[x.alert] = o => rows'[x.alert] = x.status
               /\ \A b \in DOMAIN shown'[o] : by'[b] = o =>
                     \/ shown'[o][b] = rows'[b]
                     \/ \E x \in patches'[o] : x.alert = b /\ x.at = "served"
    <3>1. ~doubt[o] /\ patches[o] = {} /\ patches'[o] = {n}
      BY <1>4, <2>2
    <3>2. \A b \in DOMAIN shown[o] : by[b] = o => shown[o][b] = rows[b]
      BY <1>0, <3>1 DEF OwnWord
    <3> QED
      BY <1>1, <1>2, <3>1, <3>2
  <2> QED
    BY <2>1, <2>2 DEF OwnWord
<1> QED
  BY <1>1, <1>4, <1>5, <1>6, <1>7, <1>8, OnePage

\* The answer to a change brings the page up to date with it.
LEMMA ChangedTriage ==
    ASSUME TriageInv, NEW o \in Operator, NEW p \in patches[o], Changed(o, p)
    PROVE  TriageInv'
<1>0. /\ TriageTypes /\ p \in PatchCall
      /\ Existing(o) /\ LastAnswers(o) /\ OwnWord(o)
  BY DEF TriageInv, TriageTypes
<1> DEFINE T == [a \in DOMAIN shown[o] |-> IF a = p.alert THEN p.status ELSE shown[o][a]]
<1>1. /\ patches' = [patches EXCEPT ![o] = patches[o] \ {p}]
      /\ shown' = [shown EXCEPT ![o] = T]
      /\ UNCHANGED <<rows, by, failures, fetches, issued, changes, filter, from, basis,
                     known, doubt>>
      /\ p.at = "served"
  BY DEF Changed
<1>2. T \in Table
  <2>1. DOMAIN shown[o] \in SUBSET Alert /\ \A a \in DOMAIN shown[o] : shown[o][a] \in STRING
    BY <1>0, Tables DEF TriageTypes
  <2>2. p.status \in STRING
    BY <1>0 DEF PatchCall
  <2>3. T \in [DOMAIN shown[o] -> STRING]
    BY <2>1, <2>2
  <2> QED
    BY <2>1, <2>3, Tables
<1>3. DOMAIN T = DOMAIN shown[o]
      /\ \A a \in DOMAIN T : T[a] = IF a = p.alert THEN p.status ELSE shown[o][a]
  OBVIOUS
<1> HIDE DEF T
<1>4. /\ patches'[o] = patches[o] \ {p} /\ shown'[o] = T
      /\ \A u \in Operator : u # o => Same(u)
  BY <1>0, <1>1 DEF TriageTypes, Same
<1>5. TriageTypes'
  <2>1. patches' \in [Operator -> SUBSET PatchCall]
    BY <1>0, <1>1 DEF TriageTypes
  <2>2. shown' \in [Operator -> Table]
    BY <1>0, <1>1, <1>2 DEF TriageTypes
  <2> QED
    BY <1>0, <1>1, <2>1, <2>2 DEF TriageTypes
<1>6. Existing(o)'
  BY <1>0, <1>1, <1>3, <1>4 DEF Existing
<1>7. LastAnswers(o)'
  BY <1>0, <1>1, <1>3, <1>4 DEF LastAnswers
<1>8. OwnWord(o)'
  <2>1. \A c \in fetches[o] : c.tainted
    BY <1>0 DEF OwnWord
  <2>2. ASSUME ~doubt[o]
        PROVE  patches'[o] = {} /\ \A a \in DOMAIN T : by[a] = o => T[a] = rows[a]
    <3>1. patches[o] = {p}
      BY <1>0, <2>2 DEF OwnWord
    <3>2. by[p.alert] = o => rows[p.alert] = p.status
      BY <1>0, <1>1, <2>2 DEF OwnWord
    <3>3. \A a \in DOMAIN shown[o] : by[a] = o /\ a # p.alert => shown[o][a] = rows[a]
      BY <1>0, <2>2, <3>1 DEF OwnWord
    <3> QED
      BY <1>3, <1>4, <3>1, <3>2, <3>3
  <2> QED
    BY <1>1, <1>4, <2>1, <2>2 DEF OwnWord
<1> QED
  BY <1>1, <1>4, <1>5, <1>6, <1>7, <1>8, OnePage

\* A change that fails for good before it is made leaves no doubt.
LEMMA ChangeFailsTriage ==
    ASSUME TriageInv, NEW o \in Operator, NEW p \in patches[o], ChangeFails(o, p)
    PROVE  TriageInv'
<1>0. TriageTypes /\ Existing(o) /\ LastAnswers(o) /\ OwnWord(o)
  BY DEF TriageInv
<1> DEFINE q == [p EXCEPT !.at = "late"]
<1>1. /\ failures' = failures + 1 /\ p \in PatchCall
      /\ UNCHANGED <<rows, by, fetches, issued, changes, filter, shown, from, basis, known>>
  BY <1>0 DEF ChangeFails, TriageTypes
<1>q. q \in PatchCall /\ q.alert = p.alert
  BY <1>1 DEF PatchCall
<1> HIDE DEF q
<1>p. PICK Q, d :
         /\ patches' = [patches EXCEPT ![o] = (patches[o] \ {p}) \cup Q]
         /\ doubt' = [doubt EXCEPT ![o] = d]
         /\ Q \subseteq {q} /\ d \in BOOLEAN
         /\ ~d => Q = {} /\ ~doubt[o] /\ p.at # "served"
  <2>1. CASE /\ patches' = [patches EXCEPT ![o] = patches[o] \ {p}]
             /\ doubt' = [doubt EXCEPT ![o] = doubt[o] \/ p.at = "served"]
    <3> DEFINE d == doubt[o] \/ p.at = "served"
    <3>1. /\ patches' = [patches EXCEPT ![o] = (patches[o] \ {p}) \cup {}]
          /\ doubt' = [doubt EXCEPT ![o] = d]
      BY <2>1
    <3>2. d \in BOOLEAN /\ (~d => ~doubt[o] /\ p.at # "served")
      BY <1>0 DEF TriageTypes
    <3> HIDE DEF d
    <3> QED
      BY <3>1, <3>2
  <2>2. CASE /\ patches' = [patches EXCEPT ![o] = (patches[o] \ {p}) \cup {q}]
             /\ doubt' = [doubt EXCEPT ![o] = TRUE]
    BY <2>2
  <2> QED
    BY <2>1, <2>2 DEF ChangeFails, q
<1>2. /\ patches'[o] = (patches[o] \ {p}) \cup Q
      /\ doubt'[o] = d
      /\ \A u \in Operator : u # o => Same(u)
  <2>1. /\ patches'[o] = (patches[o] \ {p}) \cup Q
        /\ \A u \in Operator : u # o => patches'[u] = patches[u]
    BY <1>0, <1>p DEF TriageTypes
  <2>2. /\ doubt'[o] = d
        /\ \A u \in Operator : u # o => doubt'[u] = doubt[u]
    BY <1>0, <1>p DEF TriageTypes
  <2> QED
    BY <1>1, <2>1, <2>2 DEF Same
<1>3. TriageTypes'
  <2>1. patches' \in [Operator -> SUBSET PatchCall]
    BY <1>0, <1>p, <1>q DEF TriageTypes
  <2>2. doubt' \in [Operator -> BOOLEAN]
    BY <1>0, <1>p DEF TriageTypes
  <2> QED
    BY <1>0, <1>1, <2>1, <2>2 DEF TriageTypes
<1>4. Existing(o)'
  BY <1>0, <1>1, <1>2, <1>p, <1>q DEF Existing
<1>5. LastAnswers(o)'
  BY <1>0, <1>1, <1>2 DEF LastAnswers
<1>6. OwnWord(o)'
  <2>1. \A c \in fetches[o] : c.tainted
    BY <1>0 DEF OwnWord
  <2>2. ASSUME ~doubt'[o]
        PROVE  /\ patches'[o] = {}
               /\ \A a \in DOMAIN shown[o] : by[a] = o => shown[o][a] = rows[a]
    <3>1. ~doubt[o] /\ p.at # "served" /\ Q = {}
      BY <1>2, <1>p, <2>2
    <3>2. patches[o] = {p}
      BY <1>0, <3>1 DEF OwnWord
    <3> QED
      BY <1>0, <1>2, <3>1, <3>2 DEF OwnWord
  <2> QED
    BY <1>1, <1>2, <2>1, <2>2 DEF OwnWord
<1> QED
  BY <1>1, <1>2, <1>3, <1>4, <1>5, <1>6, OnePage

-----------------------------------------------------------------------------

\* The pages when they are opened.
LEMMA InitTriage == TriageInit => TriageInv
<1> SUFFICES ASSUME TriageInit PROVE TriageInv
  OBVIOUS
<1> DEFINE d == Fetch(1, NoFilter, FALSE)
<1>1. /\ NoFilter \in FilterType /\ d \in ListCall
      /\ d.no = 1 /\ d.filter = NoFilter /\ d.page = <<>> /\ d.at = "sent"
  <2>1. NoFilter \in FilterType
    BY DEF NoFilter, FilterType
  <2> QED
    BY <2>1, EmptyTable DEF Fetch, ListCall
<1>2. /\ rows = <<>> /\ by = [a \in Alert |-> "engine"]
      /\ filter = [o \in Operator |-> NoFilter] /\ shown = [o \in Operator |-> <<>>]
      /\ fetches = [o \in Operator |-> {d}] /\ issued = [o \in Operator |-> 1]
      /\ patches = [o \in Operator |-> {}] /\ changes = 0
      /\ from = [o \in Operator |-> 0] /\ basis = [o \in Operator |-> <<>>]
      /\ known = [o \in Operator |-> {}] /\ doubt = [o \in Operator |-> FALSE]
      /\ failures = 0
  BY DEF TriageInit
<1> HIDE DEF d
<1>3. TriageTypes
  BY <1>1, <1>2, EmptyTable DEF TriageTypes
<1>4. ASSUME NEW o \in Operator PROVE Existing(o) /\ LastAnswers(o) /\ OwnWord(o)
  <2>1. Existing(o)
    BY <1>1, <1>2, EmptyTable DEF Existing
  <2>2. LastAnswers(o)
    BY <1>1, <1>2 DEF LastAnswers
  <2>3. OwnWord(o)
    BY <1>1, <1>2, EmptyTable DEF OwnWord
  <2> QED
    BY <2>1, <2>2, <2>3
<1> QED
  BY <1>3, <1>4 DEF TriageInv

\* Every step keeps the invariant.
LEMMA NextTriage == TriageInv /\ [TriageNext]_triageVars => TriageInv'
<1> SUFFICES ASSUME TriageInv, [TriageNext]_triageVars PROVE TriageInv'
  OBVIOUS
<1>0. filter \in [Operator -> FilterType]
  BY DEF TriageInv, TriageTypes
<1>1. ASSUME NEW o \in Operator, NEW f \in Filters, SelectFilter(o, f)
      PROVE  TriageInv'
  <2>1. f \in FilterType
    BY TriageAssumption DEF FilterType
  <2> QED
    BY <1>1, <2>1, FetchTriage DEF SelectFilter
<1>2. ASSUME NEW o \in Operator, Refresh(o) PROVE TriageInv'
  <2>1. filter[o] \in FilterType /\ filter' = [filter EXCEPT ![o] = filter[o]]
    BY <1>0, <1>2 DEF Refresh
  <2> QED
    BY <1>2, <2>1, FetchTriage DEF Refresh
<1>3. ASSUME NEW o \in Operator, PageNext(o) PROVE TriageInv'
  BY <1>1, <1>2, <1>3, ListTriage, UpdateTriage, ShowTriage, FetchFailsTriage, ChangeTriage,
     ChangedTriage, ChangeFailsTriage DEF PageNext
<1>4. CASE UNCHANGED triageVars
  <2>1. UNCHANGED <<rows, by, failures, fetches, patches, issued, changes, filter, shown,
                    from, basis, known, doubt>>
    BY <1>4 DEF triageVars, callVars, pageVars
  <2>2. TriageTypes'
    BY <2>1 DEF TriageInv, TriageTypes
  <2>3. \A o \in Operator : Same(o)
    BY <2>1 DEF Same
  <2>4. ASSUME NEW o \in Operator
        PROVE  Existing(o)' /\ LastAnswers(o)' /\ OwnWord(o)'
    BY <2>1, <2>3, <2>4, OtherPage
  <2> QED
    BY <2>2, <2>4 DEF TriageInv
<1> QED
  BY <1>3, <1>4, InsertTriage DEF TriageNext

\* The inductive invariant of the alerts pages.
THEOREM TriageInvariance == TriageSpec => []TriageInv
  BY InitTriage, NextTriage, PTL DEF TriageSpec

\* A settled alerts page shows what its filter selects, for any number of
\* operators, alerts and requests under way.
THEOREM SettledPageAnswers == TriageSpec => []PageAnswersFilter
<1>1. TriageInv => PageAnswersFilter
  <2> SUFFICES ASSUME TriageInv, NEW o \in Operator, Settled(o)
               PROVE  Answers(filter[o], basis[o], DOMAIN shown[o])
    BY DEF PageAnswersFilter, Answers, Match
  <2> QED
    BY DEF TriageInv, LastAnswers, Settled
<1> QED
  BY <1>1, TriageInvariance, PTL

\* An operator's own word stays on the page, whatever other operators and other
\* requests do, unless a change of the page met a list or another change, or
\* failed for the page and not for the service.
THEOREM OwnWordKept == TriageSpec => []OwnWordStays
<1>1. TriageInv => OwnWordStays
  BY DEF TriageInv, OwnWord, OwnWordStays
<1> QED
  BY <1>1, TriageInvariance, PTL

=============================================================================
