---------------------- MODULE TelemetryDeliveryProofs ----------------------
(***************************************************************************)
(* Proofs about the delivery path for any number of events, any capacities *)
(* and any number of faults.                                               *)
(*                                                                         *)
(* The type invariant is not inductive: that the event the drain loop      *)
(* sends or re-queues next exists needs that its position is inside the    *)
(* batch, and that the event the server publishes is one needs that a busy *)
(* task has an event in hand.  AckedIsPublished needs in addition that an  *)
(* event whose acknowledgement is due has been published.                  *)
(*                                                                         *)
(* Loss, duplication and order are about where an event is on its way:     *)
(* buffer, unsent part of the batch, channel, server's hand, Kafka, each a *)
(* sequence.  Every step is described once, by equations between these     *)
(* sequences and their successors (an event leaves the front of one and    *)
(* joins the end of the next), on top of an invariant about the shape of   *)
(* the state; elements, occurrences and order of a concatenation then give *)
(* the three invariants.                                                   *)
(***************************************************************************)
EXTENDS TelemetryDelivery, SequenceTheorems, FiniteSetTheorems, TLAPS

USE DEF topicVars

\* A drain loop that is not idle has an event left to handle.
InBatch == drain.pc # "idle" => drain.done < Len(drain.batch)

\* A server task that is not idle has an event in hand.
InHand == srv.pc # "idle" => srv.ev \in Event

\* An acknowledgement that is due is for a published event.
DueIsPublished == srv.pc = "ack" => srv.ev \in Elements(kafka)

\* The types of the agent's part and of the stream's part.
AgentOK ==
    /\ produced \in 0..NumEvents
    /\ up \in BOOLEAN /\ tokenValid \in BOOLEAN
    /\ buffer \in Seq(Event)
    /\ drain \in [pc : {"idle", "lock", "send", "requeue"},
                  batch : Seq(Event), done : Nat]
    /\ mutex \in {"free", "drain", "heartbeat"}
    /\ cmd \in {"poll", "reconnect"}
    /\ InBatch

CountersOK == evicted \in Nat /\ faults \in [FaultKind -> Nat]

ChannelsOK ==
    /\ outQ \in Seq(Event) /\ cmdQ \in Seq(Event) /\ inQ \in Seq(Event)
    /\ kafka \in Seq(Event)
    /\ open \in BOOLEAN

\* A task of a dead stream, with at least one event left.
Orphan == [n : Nat, rest : Seq(Event) \ {<<>>}]

ServerOK ==
    /\ srv \in [pc : {"idle", "publish", "ack"}, ev : Event \cup {NoEvent}]
    /\ orphans \in SUBSET Orphan
    /\ InHand

AcksOK == AckedIsPublished /\ DueIsPublished

\* Requests without an answer have been counted.
RequestsOK ==
    /\ unanswered \in SUBSET [n : Nat, ev : Event]
    /\ IsFiniteSet(unanswered)
    /\ Cardinality(unanswered) <= faults["unanswered"]

\* The inductive invariant, together with RequestsOK.
IInv == AgentOK /\ CountersOK /\ ChannelsOK /\ ServerOK /\ AcksOK

\* The elements of a sequence with one more element.
LEMMA ElementsAppend ==
    ASSUME NEW S, NEW s \in Seq(S), NEW x \in S
    PROVE  Elements(Append(s, x)) = Elements(s) \cup {x}
<1>1. /\ Len(s) \in Nat /\ DOMAIN s = 1..Len(s)
      /\ DOMAIN Append(s, x) = 1..(Len(s) + 1)
      /\ \A i \in 1..Len(s) : Append(s, x)[i] = s[i]
      /\ Append(s, x)[Len(s) + 1] = x
  BY AppendProperties
<1>2. 1..(Len(s) + 1) = (1..Len(s)) \cup {Len(s) + 1}
  BY <1>1
<1> QED
  BY <1>1, <1>2 DEF Elements

\* Taking the head off a sequence adds no element.
LEMMA ElementsTail ==
    ASSUME NEW S, NEW s \in Seq(S), s # <<>>
    PROVE  /\ Elements(Tail(s)) \subseteq Elements(s)
           /\ Head(s) \in Elements(s)
BY DEF Elements

\* The empty sequence has none.
LEMMA ElementsEmpty == Elements(<<>>) = {}
BY DEF Elements

\* The values an ended stream and a stopped agent leave have their types.
LEMMA EmptyOK ==
    /\ <<>> \in Seq(Event) /\ FALSE \in BOOLEAN
    /\ Idle \in [pc : {"idle", "lock", "send", "requeue"},
                 batch : Seq(Event), done : Nat]
<1>1. <<>> \in Seq(Event)
  OBVIOUS
<1>2. FALSE \in BOOLEAN
  OBVIOUS
<1>3. \A b \in Seq(Event) :
         [pc |-> "idle", batch |-> b, done |-> 0] \in
            [pc : {"idle", "lock", "send", "requeue"}, batch : Seq(Event), done : Nat]
  OBVIOUS
<1> QED
  BY <1>1, <1>2, <1>3, Zenon DEF Idle

\* The operators of the buffer keep sequences of events, and a push evicts a
\* natural number of rows.
LEMMA PushType ==
    ASSUME buffer \in Seq(Event), NEW e \in Event
    PROVE  /\ Fifo!Pushed(buffer, e, MaxEvents) \in Seq(Event)
           /\ Len(buffer) + 1 - Len(Fifo!Pushed(buffer, e, MaxEvents)) \in Nat
<1> DEFINE q == Append(buffer, e)
<1>1. q \in Seq(Event) /\ Len(q) = Len(buffer) + 1 /\ Len(buffer) \in Nat
  OBVIOUS
<1>2. MaxEvents \in Nat \ {0}
  BY CapacityAssumption
<1>3. CASE Len(q) > MaxEvents
  <2> DEFINE m == Len(q) - MaxEvents + 1
  <2>1. m \in Int /\ Len(q) \in Int /\ \A i \in m..Len(q) : q[i] \in Event
    BY <1>1, <1>2, <1>3
  <2>2. /\ SubSeq(q, m, Len(q)) \in Seq(Event)
        /\ Len(SubSeq(q, m, Len(q))) = MaxEvents
    <3> HIDE DEF q
    <3> QED BY <1>1, <1>2, <1>3, <2>1, SubSeqProperties
  <2>3. Fifo!Pushed(buffer, e, MaxEvents) = SubSeq(q, m, Len(q))
    BY <1>3 DEF Fifo!Pushed, Fifo!Newest
  <2>4. /\ Fifo!Pushed(buffer, e, MaxEvents) \in Seq(Event)
        /\ Len(Fifo!Pushed(buffer, e, MaxEvents)) = MaxEvents
    BY <2>2, <2>3, Zenon
  <2>5. Len(buffer) + 1 - MaxEvents \in Nat
    BY <1>1, <1>2, <1>3
  <2> QED
    BY <2>4, <2>5, Zenon
<1>4. CASE ~(Len(q) > MaxEvents)
  <2>1. Fifo!Pushed(buffer, e, MaxEvents) = q
    BY <1>4 DEF Fifo!Pushed, Fifo!Newest
  <2> HIDE DEF q
  <2> QED
    BY <1>1, <2>1
<1> QED
  BY <1>3, <1>4

\* A batch is a sequence of events, and so is what it leaves behind.
LEMMA DrainType ==
    ASSUME buffer \in Seq(Event), buffer # <<>>
    PROVE  /\ Fifo!Oldest(buffer, Batch) \in Seq(Event)
           /\ Len(Fifo!Oldest(buffer, Batch)) > 0
           /\ Fifo!WithoutOldest(buffer, Batch) \in Seq(Event)
<1>1. Batch \in Nat \ {0} /\ Len(buffer) \in Nat \ {0}
  BY CapacityAssumption
<1>2. CASE Len(buffer) > Batch
  <2>1. /\ SubSeq(buffer, 1, Batch) \in Seq(Event)
        /\ Len(SubSeq(buffer, 1, Batch)) = Batch
        /\ SubSeq(buffer, Batch + 1, Len(buffer)) \in Seq(Event)
    BY <1>1, <1>2, SubSeqProperties
  <2> QED
    BY <1>1, <1>2, <2>1 DEF Fifo!Oldest, Fifo!WithoutOldest
<1>3. CASE ~(Len(buffer) > Batch)
  BY <1>1, <1>3 DEF Fifo!Oldest, Fifo!WithoutOldest
<1> QED
  BY <1>2, <1>3

\* A whole push.
LEMMA PushOK ==
    ASSUME buffer \in Seq(Event), evicted \in Nat, NEW e \in Event, Push(e)
    PROVE  buffer' \in Seq(Event) /\ evicted' \in Nat
BY PushType DEF Push

\* Counting a fault.
LEMMA CountOK ==
    ASSUME faults \in [FaultKind -> Nat], NEW k \in FaultKind, NEW b, Count(k, b)
    PROVE  faults' \in [FaultKind -> Nat]
BY DEF Count

\* The next event of the batch exists, and moving on keeps the drain loop in
\* order.
LEMMA AdvanceOK ==
    ASSUME AgentOK, drain.pc # "idle", Advance
    PROVE  /\ drain.batch[drain.done + 1] \in Event
           /\ drain' \in [pc : {"idle", "lock", "send", "requeue"},
                          batch : Seq(Event), done : Nat]
           /\ mutex' \in {"free", "drain", "heartbeat"}
           /\ InBatch'
<1>1. /\ drain.batch \in Seq(Event) /\ drain.done \in Nat
      /\ drain.done < Len(drain.batch) /\ Len(drain.batch) \in Nat
  BY DEF AgentOK, InBatch
<1>2. drain.batch[drain.done + 1] \in Event
  BY <1>1, ElementOfSeq
<1>3. CASE drain.done + 1 = Len(drain.batch)
  <2>1. drain' = Idle /\ mutex' = "free"
    BY <1>3 DEF Advance
  <2>2. drain.pc' = "idle"
    BY <2>1 DEF Idle
  <2> QED
    BY <1>2, <2>1, <2>2, EmptyOK DEF InBatch
<1>4. CASE drain.done + 1 # Len(drain.batch)
  <2>1. drain' = [drain EXCEPT !.done = @ + 1] /\ mutex' = mutex
    BY <1>4 DEF Advance
  <2> QED
    BY <1>1, <1>2, <1>4, <2>1 DEF AgentOK, InBatch
<1> QED
  BY <1>3, <1>4

\* Initially everything is empty.
LEMMA InitIInv == Init => IInv
<1> SUFFICES ASSUME Init PROVE IInv
  OBVIOUS
<1>1. AgentOK
  BY FaultAssumption DEF Init, AgentOK, Idle, InBatch
<1>2. CountersOK /\ ChannelsOK
  BY DEF Init, CountersOK, ChannelsOK
<1>3. ServerOK
  BY DEF Init, ServerOK, NoTask, InHand
<1>4. AcksOK
  BY ElementsEmpty DEF Init, AcksOK, AckedIsPublished, DueIsPublished, NoTask
<1> QED
  BY <1>1, <1>2, <1>3, <1>4 DEF IInv

\* A step that leaves the stream and Kafka alone keeps their part.
LEMMA StreamUnchanged ==
    ASSUME ChannelsOK, ServerOK, AcksOK, UNCHANGED <<streamVars, kafka>>
    PROVE  ChannelsOK' /\ ServerOK' /\ AcksOK'
<1>1. /\ open' = open /\ outQ' = outQ /\ cmdQ' = cmdQ /\ inQ' = inQ
      /\ srv' = srv /\ orphans' = orphans /\ kafka' = kafka
  BY DEF streamVars
<1>2. ChannelsOK' /\ ServerOK'
  BY <1>1 DEF ChannelsOK, ServerOK, InHand
<1>3. AcksOK'
  BY <1>1 DEF AcksOK, AckedIsPublished, DueIsPublished
<1> QED
  BY <1>2, <1>3

\* A step that leaves the agent's own state alone keeps its part.
LEMMA AgentUnchanged ==
    ASSUME AgentOK, UNCHANGED <<produced, agentVars>>
    PROVE  AgentOK'
BY DEF AgentOK, InBatch, agentVars

\* Collector and drain loop, except for the send.
LEMMA DrainIInv ==
    ASSUME IInv, Collect \/ DrainTick \/ DrainLock \/ SendFails \/ RequeueOne
    PROVE  IInv'
<1>1. AgentOK /\ CountersOK /\ ChannelsOK /\ ServerOK /\ AcksOK
  BY DEF IInv
<1>2. UNCHANGED <<streamVars, kafka>>
  BY DEF Collect, DrainTick, DrainLock, SendFails, RequeueOne
<1>3. ChannelsOK' /\ ServerOK' /\ AcksOK'
  BY <1>1, <1>2, StreamUnchanged
<1>4. AgentOK' /\ CountersOK'
  <2>1. CASE Collect
    <3>1. produced + 1 \in Event /\ produced' \in 0..NumEvents
      BY <1>1, <2>1, FaultAssumption DEF Collect, AgentOK, Event
    <3>2. buffer' \in Seq(Event) /\ CountersOK'
      <4>1. CASE Push(produced + 1) /\ UNCHANGED faults
        BY <1>1, <3>1, <4>1, PushOK DEF AgentOK, CountersOK
      <4>2. CASE Count("store", MaxStoreErrors) /\ UNCHANGED <<buffer, evicted>>
        BY <1>1, <4>2, CountOK DEF AgentOK, CountersOK, FaultKind
      <4> QED
        BY <2>1, <4>1, <4>2 DEF Collect
    <3> QED
      BY <1>1, <2>1, <3>1, <3>2 DEF Collect, AgentOK, InBatch
  <2>2. CASE DrainTick
    <3>1. buffer \in Seq(Event) /\ buffer # <<>>
      BY <1>1, <2>2 DEF DrainTick, AgentOK
    <3>2. /\ Fifo!Oldest(buffer, Batch) \in Seq(Event)
          /\ Len(Fifo!Oldest(buffer, Batch)) > 0
          /\ Fifo!WithoutOldest(buffer, Batch) \in Seq(Event)
      BY <3>1, DrainType
    <3>3. /\ drain' = [pc |-> "lock", batch |-> Fifo!Oldest(buffer, Batch),
                       done |-> 0]
          /\ buffer' = Fifo!WithoutOldest(buffer, Batch)
      BY <2>2 DEF DrainTick
    <3>4. InBatch'
      BY <3>2, <3>3 DEF InBatch
    <3>5. drain' \in [pc : {"idle", "lock", "send", "requeue"},
                      batch : Seq(Event), done : Nat]
      BY <3>2, <3>3
    <3>6. buffer' \in Seq(Event)
      BY <3>2, <3>3
    <3>7. /\ produced' = produced /\ up' = up /\ mutex' = mutex /\ cmd' = cmd
          /\ tokenValid' = tokenValid /\ evicted' = evicted /\ faults' = faults
      BY <2>2 DEF DrainTick
    <3>8. AgentOK'
      BY <1>1, <3>4, <3>5, <3>6, <3>7 DEF AgentOK
    <3>9. CountersOK'
      BY <1>1, <3>7 DEF CountersOK
    <3> QED
      BY <3>8, <3>9
  <2>3. CASE DrainLock
    BY <1>1, <2>3 DEF DrainLock, AgentOK, CountersOK, InBatch
  <2>4. CASE SendFails
    <3>1. /\ drain.batch \in Seq(Event) /\ drain.done \in Nat
          /\ drain.done < Len(drain.batch) /\ Len(drain.batch) \in Nat
      BY <1>1, <2>4 DEF SendFails, AgentOK, InBatch
    <3>2. /\ drain' = [drain EXCEPT !.pc = "requeue", !.done = 0]
          /\ drain \in [pc : {"idle", "lock", "send", "requeue"},
                        batch : Seq(Event), done : Nat]
      BY <1>1, <2>4 DEF SendFails, AgentOK
    <3>3. /\ drain' \in [pc : {"idle", "lock", "send", "requeue"},
                         batch : Seq(Event), done : Nat]
          /\ drain.batch' = drain.batch /\ drain.done' = 0
      BY <3>2
    <3>4. InBatch'
      BY <3>1, <3>3 DEF InBatch
    <3>5. /\ produced' = produced /\ up' = up /\ mutex' = mutex /\ cmd' = cmd
          /\ tokenValid' = tokenValid /\ evicted' = evicted /\ faults' = faults
          /\ buffer' = buffer
      BY <2>4 DEF SendFails
    <3> QED
      BY <1>1, <3>3, <3>4, <3>5 DEF AgentOK, CountersOK
  <2>5. CASE RequeueOne
    <3>1. drain.pc # "idle" /\ Advance
      BY <2>5 DEF RequeueOne
    <3>2. /\ drain.batch[drain.done + 1] \in Event
          /\ drain' \in [pc : {"idle", "lock", "send", "requeue"},
                         batch : Seq(Event), done : Nat]
          /\ mutex' \in {"free", "drain", "heartbeat"} /\ InBatch'
      BY <1>1, <3>1, AdvanceOK
    <3>3. buffer' \in Seq(Event) /\ CountersOK'
      <4>1. CASE Push(drain.batch[drain.done + 1]) /\ UNCHANGED faults
        BY <1>1, <3>2, <4>1, PushOK DEF AgentOK, CountersOK
      <4>2. CASE Count("store", MaxStoreErrors) /\ UNCHANGED <<buffer, evicted>>
        BY <1>1, <4>2, CountOK DEF AgentOK, CountersOK, FaultKind
      <4> QED
        BY <2>5, <4>1, <4>2 DEF RequeueOne
    <3> QED
      BY <1>1, <2>5, <3>2, <3>3 DEF RequeueOne, AgentOK
  <2> QED
    BY <2>1, <2>2, <2>3, <2>4, <2>5
<1> QED
  BY <1>3, <1>4 DEF IInv

\* The send puts the next event of the batch into the outbound channel.
LEMMA SendIInv ==
    ASSUME IInv, SendOne
    PROVE  IInv'
<1>1. AgentOK /\ CountersOK /\ ChannelsOK /\ ServerOK /\ AcksOK
  BY DEF IInv
<1>2. drain.pc # "idle" /\ Advance
  BY DEF SendOne
<1>3. /\ drain.batch[drain.done + 1] \in Event
      /\ drain' \in [pc : {"idle", "lock", "send", "requeue"},
                     batch : Seq(Event), done : Nat]
      /\ mutex' \in {"free", "drain", "heartbeat"} /\ InBatch'
  BY <1>1, <1>2, AdvanceOK
<1>4. AgentOK' /\ CountersOK'
  BY <1>1, <1>3 DEF SendOne, AgentOK, CountersOK
<1>5. ChannelsOK'
  BY <1>1, <1>3 DEF SendOne, ChannelsOK
<1>6. ServerOK' /\ AcksOK'
  <2>1. srv' = srv /\ orphans' = orphans /\ cmdQ' = cmdQ /\ inQ' = inQ /\ kafka' = kafka
    BY DEF SendOne
  <2>2. ServerOK'
    BY <1>1, <2>1 DEF ServerOK, InHand
  <2>3. AcksOK'
    BY <1>1, <2>1 DEF AcksOK, AckedIsPublished, DueIsPublished
  <2> QED
    BY <2>2, <2>3
<1> QED
  BY <1>4, <1>5, <1>6 DEF IInv

\* The command listener, the reader task and the heartbeat loop.
LEMMA ListenerIInv ==
    ASSUME IInv,
           \/ PollCommand \/ PollEmpty \/ PollClosed
           \/ Reconnect \/ ReconnectFails \/ ReadCommand
           \/ HeartbeatLock \/ HeartbeatDone
    PROVE  IInv'
<1>1. AgentOK /\ CountersOK /\ ChannelsOK /\ ServerOK /\ AcksOK
  BY DEF IInv
<1>2. CASE PollCommand
  <2>1. inQ \in Seq(Event) /\ inQ # <<>> /\ inQ' = Tail(inQ)
    BY <1>1, <1>2 DEF PollCommand, ChannelsOK
  <2>2. inQ' \in Seq(Event) /\ Elements(inQ') \subseteq Elements(inQ)
    BY <2>1, ElementsTail, HeadTailProperties
  <2>3. AgentOK' /\ CountersOK'
    BY <1>1, <1>2, AgentUnchanged DEF PollCommand, CountersOK
  <2>4. ChannelsOK' /\ ServerOK'
    BY <1>1, <1>2, <2>2 DEF PollCommand, ChannelsOK, ServerOK, InHand
  <2>5. AcksOK'
    <3>1. cmdQ' = cmdQ /\ kafka' = kafka /\ srv' = srv
      BY <1>2 DEF PollCommand
    <3> QED
      BY <1>1, <2>2, <3>1 DEF AcksOK, AckedIsPublished, DueIsPublished
  <2> QED
    BY <2>3, <2>4, <2>5 DEF IInv
<1>3. CASE PollEmpty
  BY <1>1, <1>3, AgentUnchanged, StreamUnchanged DEF PollEmpty, vars, CountersOK, IInv
<1>4. CASE PollClosed \/ ReconnectFails \/ HeartbeatLock \/ HeartbeatDone
  <2>1. AgentOK' /\ CountersOK'
    BY <1>1, <1>4 DEF PollClosed, ReconnectFails, HeartbeatLock, HeartbeatDone,
                      AgentOK, InBatch, CountersOK
  <2>2. UNCHANGED <<streamVars, kafka>>
    BY <1>4 DEF PollClosed, ReconnectFails, HeartbeatLock, HeartbeatDone
  <2> QED
    BY <1>1, <2>1, <2>2, StreamUnchanged DEF IInv
<1>5. CASE Reconnect
  <2>1. AgentOK' /\ CountersOK'
    BY <1>1, <1>5 DEF Reconnect, AgentOK, InBatch, CountersOK
  <2>2. ChannelsOK'
    BY <1>1, <1>5 DEF Reconnect, ChannelsOK
  <2>3. ServerOK'
    BY <1>1, <1>5 DEF Reconnect, ServerOK, InHand, NoTask
  <2>4. AcksOK'
    BY <1>1, <1>5, ElementsEmpty
       DEF Reconnect, AcksOK, AckedIsPublished, DueIsPublished, NoTask
  <2> QED
    BY <2>1, <2>2, <2>3, <2>4 DEF IInv
<1>6. CASE ReadCommand
  <2>1. /\ cmdQ \in Seq(Event) /\ cmdQ # <<>> /\ inQ \in Seq(Event)
        /\ cmdQ' = Tail(cmdQ) /\ inQ' = Append(inQ, Head(cmdQ))
    BY <1>1, <1>6 DEF ReadCommand, ChannelsOK
  <2>2. Head(cmdQ) \in Event /\ cmdQ' \in Seq(Event) /\ inQ' \in Seq(Event)
    BY <2>1, HeadTailProperties
  <2>3. /\ Elements(cmdQ') \subseteq Elements(cmdQ)
        /\ Elements(inQ') \subseteq Elements(inQ) \cup Elements(cmdQ)
    BY <2>1, <2>2, ElementsTail, ElementsAppend
  <2>4. AgentOK' /\ CountersOK'
    BY <1>1, <1>6, AgentUnchanged DEF ReadCommand, CountersOK
  <2>5. ChannelsOK' /\ ServerOK'
    BY <1>1, <1>6, <2>2 DEF ReadCommand, ChannelsOK, ServerOK, InHand
  <2>6. AcksOK'
    BY <1>1, <1>6, <2>3 DEF ReadCommand, AcksOK, AckedIsPublished, DueIsPublished
  <2> QED
    BY <2>4, <2>5, <2>6 DEF IInv
<1> QED
  BY <1>2, <1>3, <1>4, <1>5, <1>6

\* A task of a dead stream has an event to handle and moves on in order.
LEMMA OrphanOK ==
    ASSUME orphans \in SUBSET Orphan, NEW o \in orphans, OrphanMoves(o)
    PROVE  Head(o.rest) \in Event /\ orphans' \in SUBSET Orphan
<1>1. o.rest \in Seq(Event) /\ o.rest # <<>> /\ o.n \in Nat
  BY DEF Orphan
<1>2. Head(o.rest) \in Event
  BY <1>1, HeadTailProperties
<1>3. Len(o.rest) > 1 => [o EXCEPT !.rest = Tail(@)] \in Orphan
  <2> SUFFICES ASSUME Len(o.rest) > 1
               PROVE  [o EXCEPT !.rest = Tail(@)] \in Orphan
    OBVIOUS
  <2>1. Tail(o.rest) \in Seq(Event) /\ Len(Tail(o.rest)) > 0
    BY <1>1, HeadTailProperties
  <2>2. Tail(o.rest) \in Seq(Event) \ {<<>>}
    <3>1. \A t \in Seq(Event) : Len(t) > 0 => t # <<>>
      OBVIOUS
    <3> QED
      BY <2>1, <3>1, Zenon
  <2>3. o \in Orphan
    OBVIOUS
  <2> QED
    BY <2>2, <2>3 DEF Orphan
<1> QED
  BY <1>2, <1>3 DEF OrphanMoves

\* The server: an acknowledgement becomes due only when Kafka has the event.
LEMMA ServerIInv ==
    ASSUME IInv, ServerNext
    PROVE  IInv'
<1>1. AgentOK /\ CountersOK /\ ChannelsOK /\ ServerOK /\ AcksOK
  BY DEF IInv
<1>2. AgentOK'
  BY <1>1, AgentUnchanged
     DEF ServerNext, ServerReceive, Ingest, IngestFails, SendAck, OrphanIngest,
         OrphanIngestFails
<1>3. CASE ServerReceive
  <2>1. Head(outQ) \in Event /\ outQ' \in Seq(Event)
    BY <1>1, <1>3, HeadTailProperties DEF ServerReceive, ChannelsOK
  <2>2. CountersOK' /\ ChannelsOK'
    BY <1>1, <1>3, <2>1 DEF ServerReceive, CountersOK, ChannelsOK
  <2>3. ServerOK'
    BY <1>1, <1>3, <2>1 DEF ServerReceive, ServerOK, InHand
  <2>4. AcksOK'
    <3>1. cmdQ' = cmdQ /\ inQ' = inQ /\ kafka' = kafka /\ srv.pc' # "ack"
      BY <1>3 DEF ServerReceive
    <3> QED
      BY <1>1, <3>1 DEF AcksOK, AckedIsPublished, DueIsPublished
  <2> QED
    BY <1>2, <2>2, <2>3, <2>4 DEF IInv
<1>4. CASE Ingest
  <2>1. srv.ev \in Event /\ kafka' = Append(kafka, srv.ev) /\ kafka \in Seq(Event)
    BY <1>1, <1>4 DEF Ingest, ServerOK, InHand, ChannelsOK
  <2>2. Elements(kafka') = Elements(kafka) \cup {srv.ev}
    BY <2>1, ElementsAppend
  <2>3. CountersOK' /\ ChannelsOK'
    BY <1>1, <1>4, <2>1 DEF Ingest, CountersOK, ChannelsOK
  <2>4. ServerOK'
    BY <1>1, <1>4, <2>1 DEF Ingest, ServerOK, InHand
  <2>5. AckedIsPublished'
    BY <1>1, <1>4, <2>2 DEF Ingest, AcksOK, AckedIsPublished
  <2>6. DueIsPublished'
    BY <1>1, <1>4, <2>2 DEF Ingest, ServerOK, DueIsPublished
  <2> QED
    BY <1>2, <2>3, <2>4, <2>5, <2>6 DEF IInv, AcksOK
<1>5. CASE IngestFails
  <2>1. CountersOK'
    BY <1>1, <1>5, CountOK DEF IngestFails, CountersOK, FaultKind
  <2>2. ChannelsOK' /\ ServerOK'
    BY <1>1, <1>5 DEF IngestFails, ChannelsOK, ServerOK, InHand, NoTask
  <2>3. AcksOK'
    BY <1>1, <1>5 DEF IngestFails, AcksOK, AckedIsPublished, DueIsPublished, Elements, NoTask
  <2> QED
    BY <1>2, <2>1, <2>2, <2>3 DEF IInv
<1>6. CASE SendAck
  <2>1. /\ srv.ev \in Event /\ srv.ev \in Elements(kafka)
        /\ cmdQ' = Append(cmdQ, srv.ev) /\ cmdQ \in Seq(Event)
    BY <1>1, <1>6 DEF SendAck, ServerOK, InHand, ChannelsOK, AcksOK, DueIsPublished
  <2>2. Elements(cmdQ') = Elements(cmdQ) \cup {srv.ev}
    BY <2>1, ElementsAppend
  <2>3. CountersOK' /\ ChannelsOK'
    BY <1>1, <1>6, <2>1 DEF SendAck, CountersOK, ChannelsOK
  <2>4. ServerOK'
    BY <1>1, <1>6 DEF SendAck, ServerOK, InHand, NoTask
  <2>5. AcksOK'
    BY <1>1, <1>6, <2>1, <2>2 DEF SendAck, AcksOK, AckedIsPublished, DueIsPublished, NoTask
  <2> QED
    BY <1>2, <2>3, <2>4, <2>5 DEF IInv
<1>7. CASE OrphanIngest
  <2>1. PICK o \in orphans : OrphanMoves(o) /\ kafka' = Append(kafka, Head(o.rest))
    BY <1>7 DEF OrphanIngest
  <2>2. Head(o.rest) \in Event /\ kafka \in Seq(Event) /\ orphans' \in SUBSET Orphan
    BY <1>1, <2>1, OrphanOK DEF ServerOK, ChannelsOK
  <2>3. Elements(kafka') = Elements(kafka) \cup {Head(o.rest)}
    BY <2>1, <2>2, ElementsAppend
  <2>4. /\ open' = open /\ outQ' = outQ /\ cmdQ' = cmdQ /\ inQ' = inQ /\ srv' = srv
        /\ evicted' = evicted /\ faults' = faults
    BY <1>7 DEF OrphanIngest
  <2>5. CountersOK' /\ ChannelsOK'
    BY <1>1, <2>1, <2>2, <2>4 DEF CountersOK, ChannelsOK
  <2>6. ServerOK'
    BY <1>1, <2>2, <2>4 DEF ServerOK, InHand
  <2>7. AcksOK'
    BY <1>1, <2>3, <2>4 DEF AcksOK, AckedIsPublished, DueIsPublished
  <2> QED
    BY <1>2, <2>5, <2>6, <2>7 DEF IInv
<1>8. CASE OrphanIngestFails
  <2>1. PICK o \in orphans : OrphanMoves(o) /\ Count("ingest", MaxIngestErrors)
    BY <1>8 DEF OrphanIngestFails
  <2>2. orphans' \in SUBSET Orphan /\ CountersOK'
    BY <1>1, <1>8, <2>1, OrphanOK, CountOK
       DEF OrphanIngestFails, ServerOK, CountersOK, FaultKind
  <2>3. /\ open' = open /\ outQ' = outQ /\ cmdQ' = cmdQ /\ inQ' = inQ /\ srv' = srv
        /\ kafka' = kafka
    BY <1>8 DEF OrphanIngestFails
  <2>4. ChannelsOK' /\ ServerOK'
    BY <1>1, <2>2, <2>3 DEF ChannelsOK, ServerOK, InHand
  <2>5. AcksOK'
    BY <1>1, <2>3 DEF AcksOK, AckedIsPublished, DueIsPublished
  <2> QED
    BY <1>2, <2>2, <2>4, <2>5 DEF IInv
<1> QED
  BY <1>3, <1>4, <1>5, <1>6, <1>7, <1>8 DEF ServerNext

\* What the end of a stream leaves.
LEMMA StreamEndsOK ==
    ASSUME ServerOK, CountersOK, ChannelsOK, StreamEnds
    PROVE  /\ ServerOK'
           /\ outQ' = <<>> /\ cmdQ' = <<>> /\ open' = FALSE /\ srv' = NoTask
<1>1. PICK k \in 0..Len(outQ) :
         orphans' = IF Leftover(k) = <<>> THEN orphans
                    ELSE orphans \cup
                         {[n |-> faults["disconnect"] + faults["crash"],
                           rest |-> Leftover(k)]}
  BY DEF StreamEnds
<1>2. Leftover(k) \in Seq(Event)
  <2>1. /\ outQ \in Seq(Event) /\ Len(outQ) \in Nat /\ k \in Nat
        /\ k <= Len(outQ) /\ 1 \in Int /\ k \in Int
    BY <1>1 DEF ChannelsOK
  <2>2. \A i \in 1..k : outQ[i] \in Event
    BY <2>1
  <2>3. SubSeq(outQ, 1, k) \in Seq(Event)
    BY <2>1, <2>2, SubSeqProperties
  <2>4. srv.pc = "publish" => srv.ev \in Event
    BY DEF ServerOK, InHand
  <2>5. srv.pc = "publish" => <<srv.ev>> \in Seq(Event)
    BY <2>4
  <2>6. (IF srv.pc = "publish" THEN <<srv.ev>> ELSE <<>>) \in Seq(Event)
    BY <2>5, EmptyOK, Zenon
  <2> QED
    BY <2>3, <2>6, ConcatProperties DEF Leftover
<1>3. faults["disconnect"] + faults["crash"] \in Nat
  BY DEF CountersOK, FaultKind
<1>4. orphans' \in SUBSET Orphan
  <2>1. CASE Leftover(k) = <<>>
    BY <1>1, <2>1 DEF ServerOK
  <2>2. CASE Leftover(k) # <<>>
    BY <1>1, <1>2, <1>3, <2>2 DEF ServerOK, Orphan
  <2> QED
    BY <2>1, <2>2
<1>5. outQ' = <<>> /\ cmdQ' = <<>> /\ open' = FALSE /\ srv' = NoTask
  BY DEF StreamEnds
<1>6. ServerOK'
  BY <1>4, <1>5 DEF ServerOK, InHand, NoTask
<1> QED
  BY <1>5, <1>6

\* The faults.
LEMMA FaultIInv ==
    ASSUME IInv, FaultNext
    PROVE  IInv'
<1>1. AgentOK /\ CountersOK /\ ChannelsOK /\ ServerOK /\ AcksOK
  BY DEF IInv
<1>2. CASE Disconnect \/ ServerDies
  <2>1. /\ outQ' = <<>> /\ cmdQ' = <<>> /\ open' = FALSE /\ srv' = NoTask
        /\ ServerOK'
    <3>1. CASE Disconnect
      BY <1>1, <3>1, StreamEndsOK DEF Disconnect
    <3>2. CASE ServerDies
      <4>1. /\ outQ' = <<>> /\ cmdQ' = <<>> /\ open' = FALSE /\ srv' = NoTask
            /\ orphans' = {}
        BY <3>2 DEF ServerDies
      <4>2. ServerOK'
        BY <4>1 DEF ServerOK, InHand, NoTask
      <4> QED
        BY <4>1, <4>2
    <3> QED
      BY <1>2, <3>1, <3>2
  <2>2. UNCHANGED <<produced, agentVars, inQ, kafka, evicted>>
    BY <1>2 DEF Disconnect, ServerDies
  <2>3. CountersOK'
    BY <1>1, <1>2, CountOK DEF Disconnect, ServerDies, CountersOK, FaultKind
  <2>4. AgentOK' /\ ChannelsOK'
    <3>1. AgentOK'
      BY <1>1, <2>2, AgentUnchanged
    <3>2. ChannelsOK'
      BY <1>1, <2>1, <2>2, EmptyOK DEF ChannelsOK
    <3> QED
      BY <3>1, <3>2
  <2>5. AcksOK'
    BY <1>1, <2>1, <2>2, ElementsEmpty DEF AcksOK, AckedIsPublished, DueIsPublished, NoTask
  <2> QED
    BY <2>1, <2>3, <2>4, <2>5 DEF IInv
<1>3. CASE AgentDies
  <2>1. /\ outQ' = <<>> /\ cmdQ' = <<>> /\ open' = FALSE /\ srv' = NoTask
        /\ inQ' = <<>> /\ ServerOK' /\ kafka' = kafka
    BY <1>1, <1>3, StreamEndsOK DEF AgentDies
  <2>2. CountersOK'
    BY <1>1, <1>3, CountOK DEF AgentDies, CountersOK, FaultKind
  <2>3. AgentOK'
    <3>1. /\ up' = FALSE /\ drain' = Idle /\ mutex' = "free" /\ cmd' = "poll"
          /\ UNCHANGED <<produced, buffer, tokenValid>>
      BY <1>3 DEF AgentDies
    <3>2. InBatch'
      BY <3>1 DEF InBatch, Idle
    <3> QED
      BY <1>1, <3>1, <3>2, EmptyOK DEF AgentOK
  <2>4. ChannelsOK'
    BY <1>1, <2>1, EmptyOK DEF ChannelsOK
  <2>5. AcksOK'
    BY <1>1, <2>1, ElementsEmpty DEF AcksOK, AckedIsPublished, DueIsPublished, NoTask
  <2> QED
    BY <2>1, <2>2, <2>3, <2>4, <2>5 DEF IInv
<1>4. CASE AgentStarts
  <2>1. AgentOK' /\ CountersOK'
    BY <1>1, <1>4 DEF AgentStarts, AgentOK, InBatch, CountersOK
  <2>2. ChannelsOK' /\ ServerOK'
    BY <1>1, <1>4 DEF AgentStarts, ChannelsOK, ServerOK, InHand
  <2>3. AcksOK'
    BY <1>1, <1>4 DEF AgentStarts, AcksOK, AckedIsPublished, DueIsPublished, Elements
  <2> QED
    BY <2>1, <2>2, <2>3 DEF IInv
<1>5. CASE TokenExpires
  <2>1. AgentOK'
    BY <1>1, <1>5 DEF TokenExpires, AgentOK, InBatch
  <2>2. CountersOK'
    BY <1>1, <1>5, CountOK DEF TokenExpires, CountersOK, FaultKind
  <2>3. UNCHANGED <<streamVars, kafka>>
    BY <1>5 DEF TokenExpires
  <2> QED
    BY <1>1, <2>1, <2>2, <2>3, StreamUnchanged DEF IInv
<1> QED
  BY <1>2, <1>3, <1>4, <1>5 DEF FaultNext

\* The producer: a late write adds an event to the topic, nothing else.
LEMMA ProducerIInv ==
    ASSUME IInv, RequestsOK, ProducerNext
    PROVE  IInv'
<1>1. AgentOK /\ CountersOK /\ ChannelsOK /\ ServerOK /\ AcksOK
  BY DEF IInv
<1>2. UNCHANGED <<produced, agentVars, streamVars, evicted>>
  BY DEF ProducerNext, ProduceUnanswered, OrphanUnanswered, LateWrite, RequestLost, Unanswer
<1>3. AgentOK'
  BY <1>1, <1>2, AgentUnchanged
<1>4. CountersOK'
  <2>1. CASE UNCHANGED faults
    BY <1>1, <1>2, <2>1 DEF CountersOK
  <2>2. CASE Count("unanswered", MaxUnanswered)
    BY <1>1, <1>2, <2>2, CountOK DEF CountersOK, FaultKind
  <2> QED
    BY <2>1, <2>2
       DEF ProducerNext, ProduceUnanswered, OrphanUnanswered, LateWrite, RequestLost,
           Unanswer
<1>5. ChannelsOK' /\ ServerOK' /\ AcksOK'
  <2>1. CASE UNCHANGED kafka
    BY <1>1, <1>2, <2>1, StreamUnchanged
  <2>2. CASE LateWrite
    <3>1. PICK u \in unanswered : kafka' = Append(kafka, u.ev)
      BY <2>2 DEF LateWrite
    <3>2. u.ev \in Event /\ kafka \in Seq(Event)
      BY <1>1, <3>1 DEF RequestsOK, ChannelsOK
    <3>3. Elements(kafka') = Elements(kafka) \cup {u.ev} /\ kafka' \in Seq(Event)
      BY <3>1, <3>2, ElementsAppend
    <3>4. /\ open' = open /\ outQ' = outQ /\ cmdQ' = cmdQ /\ inQ' = inQ
          /\ srv' = srv /\ orphans' = orphans
      BY <1>2 DEF streamVars
    <3>5. ChannelsOK' /\ ServerOK'
      BY <1>1, <3>3, <3>4 DEF ChannelsOK, ServerOK, InHand
    <3>6. AcksOK'
      BY <1>1, <3>3, <3>4 DEF AcksOK, AckedIsPublished, DueIsPublished
    <3> QED
      BY <3>5, <3>6
  <2> QED
    BY <2>1, <2>2
       DEF ProducerNext, ProduceUnanswered, OrphanUnanswered, RequestLost, Unanswer
<1> QED
  BY <1>1, <1>3, <1>4, <1>5 DEF IInv

\* The other steps neither add nor remove a request without an answer.
LEMMA OthersAnswer ==
    ASSUME CountersOK, AgentNext \/ ServerNext \/ FaultNext \/ UNCHANGED vars
    PROVE  unanswered' = unanswered /\ faults'["unanswered"] = faults["unanswered"]
<1>1. ASSUME NEW k \in FaultKind \ {"unanswered"}, NEW b, Count(k, b)
      PROVE  faults'["unanswered"] = faults["unanswered"]
  BY <1>1 DEF Count, CountersOK, FaultKind
<1>2. /\ \A b : Count("store", b) => faults'["unanswered"] = faults["unanswered"]
      /\ \A b : Count("ingest", b) => faults'["unanswered"] = faults["unanswered"]
      /\ \A b : Count("disconnect", b) => faults'["unanswered"] = faults["unanswered"]
      /\ \A b : Count("crash", b) => faults'["unanswered"] = faults["unanswered"]
      /\ \A b : Count("expiry", b) => faults'["unanswered"] = faults["unanswered"]
  BY <1>1 DEF FaultKind
<1>3. CASE AgentNext
  BY <1>2, <1>3
     DEF AgentNext, Collect, DrainTick, DrainLock, SendOne, SendFails, RequeueOne,
         PollCommand, PollEmpty, PollClosed, Reconnect, ReconnectFails, ReadCommand,
         HeartbeatLock, HeartbeatDone, vars
<1>4. CASE ServerNext
  BY <1>2, <1>4
     DEF ServerNext, ServerReceive, Ingest, IngestFails, SendAck, OrphanIngest,
         OrphanIngestFails
<1>5. CASE FaultNext
  BY <1>2, <1>5
     DEF FaultNext, Disconnect, ServerDies, AgentDies, AgentStarts, TokenExpires
<1>6. CASE UNCHANGED vars
  BY <1>6 DEF vars
<1> QED
  BY <1>3, <1>4, <1>5, <1>6

\* A request without an answer is counted when it is added.
LEMMA RequestsStep ==
    ASSUME CountersOK, ServerOK, RequestsOK, [Next]_vars
    PROVE  RequestsOK'
<1>0. faults["unanswered"] \in Nat /\ Cardinality(unanswered) \in Nat
  BY FS_CardinalityType DEF CountersOK, FaultKind, RequestsOK
<1>1. CASE AgentNext \/ ServerNext \/ FaultNext \/ UNCHANGED vars
  BY <1>1, OthersAnswer DEF RequestsOK
<1>2. ASSUME NEW e \in Event, Unanswer(e) PROVE RequestsOK'
  <2> DEFINE u == [n |-> faults["unanswered"], ev |-> e]
  <2>1. u \in [n : Nat, ev : Event]
    BY <1>0, <1>2
  <2>2. unanswered' = unanswered \cup {u} /\ Count("unanswered", MaxUnanswered)
    BY <1>2 DEF Unanswer
  <2> HIDE DEF u
  <2>3. IsFiniteSet(unanswered \cup {u})
        /\ Cardinality(unanswered \cup {u}) <= Cardinality(unanswered) + 1
    <3>1. IsFiniteSet(unanswered)
      BY DEF RequestsOK
    <3>2. /\ IsFiniteSet(unanswered \cup {u})
          /\ Cardinality(unanswered \cup {u}) =
               IF u \in unanswered THEN Cardinality(unanswered)
               ELSE Cardinality(unanswered) + 1
      BY <3>1, FS_AddElement, Zenon
    <3> QED
      BY <1>0, <3>2
  <2>4. faults'["unanswered"] = faults["unanswered"] + 1
    BY <2>2 DEF Count, CountersOK, FaultKind
  <2>5. Cardinality(unanswered \cup {u}) \in Nat
    BY <2>3, FS_CardinalityType
  <2> QED
    BY <1>0, <2>1, <2>2, <2>3, <2>4, <2>5 DEF RequestsOK
<1>3. CASE LateWrite \/ RequestLost
  <2>1. PICK u \in unanswered : unanswered' = unanswered \ {u} /\ faults' = faults
    BY <1>3 DEF LateWrite, RequestLost
  <2>2. IsFiniteSet(unanswered \ {u})
        /\ Cardinality(unanswered \ {u}) = Cardinality(unanswered) - 1
    BY <2>1, FS_RemoveElement DEF RequestsOK
  <2> QED
    BY <1>0, <2>1, <2>2 DEF RequestsOK
<1>4. CASE ProduceUnanswered
  BY <1>2, <1>4 DEF ProduceUnanswered, ServerOK, InHand
<1>5. CASE OrphanUnanswered
  <2>1. PICK o \in orphans : Unanswer(Head(o.rest))
    BY <1>5 DEF OrphanUnanswered
  <2>2. Head(o.rest) \in Event
    BY <2>1, HeadTailProperties DEF ServerOK, Orphan
  <2> QED
    BY <1>2, <2>1, <2>2
<1> QED
  BY <1>1, <1>3, <1>4, <1>5 DEF Next, ProducerNext

\* Every step keeps the invariant.
LEMMA StepIInv ==
    ASSUME IInv, RequestsOK, [Next]_vars
    PROVE  IInv' /\ RequestsOK'
<1>0. RequestsOK'
  BY RequestsStep DEF IInv
<1>1. CASE AgentNext
  BY <1>0, <1>1, DrainIInv, SendIInv, ListenerIInv DEF AgentNext
<1>2. CASE ServerNext
  BY <1>0, <1>2, ServerIInv
<1>3. CASE FaultNext
  BY <1>0, <1>3, FaultIInv
<1>4. CASE UNCHANGED vars
  BY <1>0, <1>4, AgentUnchanged, StreamUnchanged DEF vars, IInv, CountersOK
<1>5. CASE ProducerNext
  BY <1>0, <1>5, ProducerIInv
<1> QED
  BY <1>0, <1>1, <1>2, <1>3, <1>4, <1>5 DEF Next

\* The invariant holds in every reachable state.
THEOREM Invariance == Spec => [](IInv /\ RequestsOK)
<1>1. IInv /\ RequestsOK /\ [Next]_vars => IInv' /\ RequestsOK'
  BY StepIInv
<1>2. Init => RequestsOK
  BY FS_EmptySet DEF Init, RequestsOK, FaultKind
<1> QED
  BY InitIInv, <1>1, <1>2, PTL DEF Spec

\* Every variable keeps its type; in particular the drain loop never reads
\* past its batch and the server never publishes an event it does not have.
THEOREM TypeCorrect == Spec => []TypeOK
<1>1. IInv /\ RequestsOK => TypeOK
  BY DEF IInv, AgentOK, CountersOK, ChannelsOK, ServerOK, RequestsOK, Orphan, TypeOK
<1> QED
  BY Invariance, <1>1, PTL

\* An acknowledgement is never for an event that Kafka does not have,
\* through any disconnects, crashes and refused publishes.
THEOREM AcksAreSound == Spec => []AckedIsPublished
<1>1. IInv => AckedIsPublished
  BY DEF IInv, AcksOK
<1> QED
  BY Invariance, <1>1, PTL

-----------------------------------------------------------------------------
(* Sequences *)

\* s is strictly increasing.
Increasing(s) == \A i, j \in DOMAIN s : i < j => s[i] < s[j]

\* Everything in S comes before everything in T.
Before(S, T) == \A x \in S, y \in T : x < y

\* The positions of the members of a concatenation.
LEMMA ConcatDomain ==
    ASSUME NEW S, NEW s \in Seq(S), NEW t \in Seq(S)
    PROVE  /\ s \o t \in Seq(S)
           /\ Len(s) \in Nat /\ Len(t) \in Nat
           /\ DOMAIN s = 1..Len(s) /\ DOMAIN t = 1..Len(t)
           /\ DOMAIN (s \o t) = 1..(Len(s) + Len(t))
           /\ \A i \in 1..Len(s) : (s \o t)[i] = s[i]
           /\ \A i \in 1..Len(t) : (s \o t)[i + Len(s)] = t[i]
<1>1. Len(s) \in Nat /\ Len(t) \in Nat /\ DOMAIN s = 1..Len(s) /\ DOMAIN t = 1..Len(t)
  BY LenProperties
<1>2. /\ s \o t \in Seq(S) /\ Len(s \o t) = Len(s) + Len(t)
      /\ \A i \in 1..Len(s) + Len(t) :
            (s \o t)[i] = IF i <= Len(s) THEN s[i] ELSE t[i - Len(s)]
  BY ConcatProperties
<1>3. DOMAIN (s \o t) = 1..(Len(s) + Len(t))
  BY <1>2, LenProperties
<1>4. \A i \in 1..Len(s) : (s \o t)[i] = s[i]
  BY <1>1, <1>2
<1>5. ASSUME NEW i \in 1..Len(t)
      PROVE  (s \o t)[i + Len(s)] = t[i]
  <2>1. /\ i + Len(s) \in 1..Len(s) + Len(t) /\ ~(i + Len(s) <= Len(s))
        /\ (i + Len(s)) - Len(s) = i
    BY <1>1
  <2> QED
    BY <1>2, <2>1
<1> QED
  BY <1>1, <1>2, <1>3, <1>4, <1>5

\* The elements of a concatenation.
LEMMA ConcatElements ==
    ASSUME NEW S, NEW s \in Seq(S), NEW t \in Seq(S)
    PROVE  Elements(s \o t) = Elements(s) \cup Elements(t)
<1>1. /\ Len(s) \in Nat /\ Len(t) \in Nat
      /\ DOMAIN s = 1..Len(s) /\ DOMAIN t = 1..Len(t)
      /\ DOMAIN (s \o t) = 1..(Len(s) + Len(t))
      /\ \A i \in 1..Len(s) : (s \o t)[i] = s[i]
      /\ \A i \in 1..Len(t) : (s \o t)[i + Len(s)] = t[i]
  BY ConcatDomain
<1>2. ASSUME NEW x \in Elements(s \o t)
      PROVE  x \in Elements(s) \cup Elements(t)
  <2>1. PICK i \in 1..(Len(s) + Len(t)) : x = (s \o t)[i]
    BY <1>1 DEF Elements
  <2>2. CASE i <= Len(s)
    <3>1. i \in 1..Len(s) /\ x = s[i]
      BY <1>1, <2>1, <2>2
    <3> QED
      BY <1>1, <3>1 DEF Elements
  <2>3. CASE ~(i <= Len(s))
    <3>1. i - Len(s) \in 1..Len(t) /\ (i - Len(s)) + Len(s) = i
      BY <1>1, <2>1, <2>3
    <3>2. x = t[i - Len(s)]
      BY <1>1, <2>1, <3>1
    <3> QED
      BY <1>1, <3>1, <3>2 DEF Elements
  <2> QED
    BY <2>2, <2>3
<1>3. ASSUME NEW x \in Elements(s)
      PROVE  x \in Elements(s \o t)
  <2>1. PICK i \in 1..Len(s) : x = s[i]
    BY <1>1 DEF Elements
  <2>2. i \in 1..(Len(s) + Len(t)) /\ x = (s \o t)[i]
    BY <1>1, <2>1
  <2> QED
    BY <1>1, <2>2 DEF Elements
<1>4. ASSUME NEW x \in Elements(t)
      PROVE  x \in Elements(s \o t)
  <2>1. PICK i \in 1..Len(t) : x = t[i]
    BY <1>1 DEF Elements
  <2>2. i + Len(s) \in 1..(Len(s) + Len(t)) /\ x = (s \o t)[i + Len(s)]
    BY <1>1, <2>1
  <2> QED
    BY <1>1, <2>2 DEF Elements
<1> QED
  BY <1>2, <1>3, <1>4

\* A sequence counts each of its events: how often an event occurs is a
\* number, 0 exactly when it is not an element.
LEMMA OccurrencesType ==
    ASSUME NEW S, NEW s \in Seq(S), NEW e
    PROVE  /\ Occurrences(s, e) \in Nat
           /\ Occurrences(s, e) = 0 <=> e \notin Elements(s)
           /\ IsFiniteSet({i \in DOMAIN s : s[i] = e})
<1> DEFINE A == {i \in DOMAIN s : s[i] = e}
<1>1. Len(s) \in Nat /\ DOMAIN s = 1..Len(s)
  BY LenProperties
<1>2. IsFiniteSet(1..Len(s))
  BY <1>1, FS_Interval
<1>3. A \in SUBSET (1..Len(s))
  BY <1>1
<1>4. IsFiniteSet(A)
  BY <1>2, <1>3, FS_Subset
<1>5. A = {} <=> e \notin Elements(s)
  BY DEF Elements
<1>6. Occurrences(s, e) = Cardinality(A)
  BY DEF Occurrences
<1> HIDE DEF A
<1>7. Cardinality(A) \in Nat /\ (Cardinality(A) = 0 <=> A = {})
  BY <1>4, FS_CardinalityType, FS_EmptySet
<1> QED
  BY <1>4, <1>5, <1>6, <1>7 DEF A

\* The occurrences of a concatenation add up.
LEMMA ConcatOccurrences ==
    ASSUME NEW S, NEW s \in Seq(S), NEW t \in Seq(S), NEW e
    PROVE  Occurrences(s \o t, e) = Occurrences(s, e) + Occurrences(t, e)
<1> DEFINE A == {i \in DOMAIN s : s[i] = e}
           B == {i \in DOMAIN t : t[i] = e}
           C == {i \in DOMAIN (s \o t) : (s \o t)[i] = e}
           D == {i \in Int : i - Len(s) \in B}
           f == [i \in B |-> i + Len(s)]
<1>1. /\ Len(s) \in Nat /\ Len(t) \in Nat
      /\ DOMAIN s = 1..Len(s) /\ DOMAIN t = 1..Len(t)
      /\ DOMAIN (s \o t) = 1..(Len(s) + Len(t))
      /\ \A i \in 1..Len(s) : (s \o t)[i] = s[i]
      /\ \A i \in 1..Len(t) : (s \o t)[i + Len(s)] = t[i]
  BY ConcatDomain
<1>2. IsFiniteSet(A) /\ IsFiniteSet(B)
  BY OccurrencesType
<1>3. B \subseteq 1..Len(t) /\ A \subseteq 1..Len(s)
  BY <1>1
<1>4. C = A \cup D
  <2>1. ASSUME NEW i \in C PROVE i \in A \cup D
    <3>1. i \in 1..(Len(s) + Len(t)) /\ (s \o t)[i] = e
      BY <1>1
    <3>2. CASE i <= Len(s)
      <4>1. i \in 1..Len(s) /\ s[i] = e
        BY <1>1, <3>1, <3>2
      <4> QED
        BY <1>1, <4>1
    <3>3. CASE ~(i <= Len(s))
      <4>1. /\ i - Len(s) \in 1..Len(t) /\ (i - Len(s)) + Len(s) = i
            /\ i \in Int
        BY <1>1, <3>1, <3>3
      <4>2. t[i - Len(s)] = e
        BY <1>1, <3>1, <4>1
      <4> QED
        BY <1>1, <4>1, <4>2
    <3> QED
      BY <3>2, <3>3
  <2>2. ASSUME NEW i \in A PROVE i \in C
    <3>1. i \in 1..Len(s) /\ s[i] = e
      BY <1>1
    <3>2. i \in 1..(Len(s) + Len(t)) /\ (s \o t)[i] = e
      BY <1>1, <3>1
    <3> QED
      BY <1>1, <3>2
  <2>3. ASSUME NEW i \in D PROVE i \in C
    <3>1. i \in Int /\ i - Len(s) \in 1..Len(t) /\ t[i - Len(s)] = e
      BY <1>1
    <3>2. i \in 1..(Len(s) + Len(t)) /\ (i - Len(s)) + Len(s) = i
      BY <1>1, <3>1
    <3>3. (s \o t)[i] = e
      BY <1>1, <3>1, <3>2
    <3> QED
      BY <1>1, <3>2, <3>3
  <2> QED
    BY <2>1, <2>2, <2>3
<1>5. A \cap D = {}
  <2> SUFFICES ASSUME NEW i \in A, i \in D PROVE FALSE
    OBVIOUS
  <2>1. i \in 1..Len(s) /\ i - Len(s) \in 1..Len(t)
    BY <1>1
  <2> QED
    BY <1>1, <2>1
<1>6. f \in Bijection(B, D)
  <2>1. ASSUME NEW i \in B PROVE i + Len(s) \in D /\ i \in Int
    <3>1. i \in Int /\ i + Len(s) \in Int /\ (i + Len(s)) - Len(s) = i
      BY <1>1, <1>3
    <3> QED
      BY <3>1
  <2>2. f \in [B -> D]
    BY <2>1
  <2>3. \A i, j \in B : f[i] = f[j] => i = j
    BY <1>1, <2>1
  <2>4. ASSUME NEW j \in D PROVE \E i \in B : f[i] = j
    <3>1. j - Len(s) \in B /\ (j - Len(s)) + Len(s) = j
      BY <1>1
    <3> QED
      BY <3>1
  <2> HIDE DEF B, D, f
  <2>5. f \in Injection(B, D)
    BY <2>2, <2>3 DEF Injection, IsInjective
  <2>6. f \in Surjection(B, D)
    BY <2>2, <2>4 DEF Surjection
  <2> QED
    BY <2>5, <2>6 DEF Bijection
<1>7. ExistsBijection(B, D)
  BY <1>6 DEF ExistsBijection
<1>8. Occurrences(s \o t, e) = Cardinality(C) /\ Occurrences(s, e) = Cardinality(A)
      /\ Occurrences(t, e) = Cardinality(B)
  BY DEF Occurrences
<1> HIDE DEF A, B, C, D, f
<1>9. IsFiniteSet(D) /\ Cardinality(D) = Cardinality(B)
  BY <1>2, <1>7, FS_Bijection
<1>10. Cardinality(C) = Cardinality(A) + Cardinality(D)
  <2>1. Cardinality(A \cup D) = Cardinality(A) + Cardinality(D) - Cardinality(A \cap D)
    BY <1>2, <1>9, FS_Union
  <2>2. Cardinality(A \cap D) = 0
    BY <1>5, FS_EmptySet
  <2>3. Cardinality(A) \in Nat /\ Cardinality(D) \in Nat
    BY <1>2, <1>9, FS_CardinalityType
  <2> QED
    BY <1>4, <2>1, <2>2, <2>3
<1> QED
  BY <1>8, <1>9, <1>10

\* A concatenation is increasing exactly when its parts are and the first
\* comes before the second.
LEMMA ConcatIncreasing ==
    ASSUME NEW s \in Seq(Nat), NEW t \in Seq(Nat)
    PROVE  Increasing(s \o t) <=>
              Increasing(s) /\ Increasing(t) /\ Before(Elements(s), Elements(t))
<1>1. /\ Len(s) \in Nat /\ Len(t) \in Nat
      /\ DOMAIN s = 1..Len(s) /\ DOMAIN t = 1..Len(t)
      /\ DOMAIN (s \o t) = 1..(Len(s) + Len(t))
      /\ \A i \in 1..Len(s) : (s \o t)[i] = s[i]
      /\ \A i \in 1..Len(t) : (s \o t)[i + Len(s)] = t[i]
  BY ConcatDomain
<1>2. ASSUME Increasing(s \o t)
      PROVE  Increasing(s) /\ Increasing(t) /\ Before(Elements(s), Elements(t))
  <2>1. \A i, j \in 1..(Len(s) + Len(t)) : i < j => (s \o t)[i] < (s \o t)[j]
    BY <1>1, <1>2 DEF Increasing
  <2>2. Increasing(s)
    <3> SUFFICES ASSUME NEW i \in 1..Len(s), NEW j \in 1..Len(s), i < j
                 PROVE  s[i] < s[j]
      BY <1>1 DEF Increasing
    <3>1. i \in 1..(Len(s) + Len(t)) /\ j \in 1..(Len(s) + Len(t))
      BY <1>1
    <3>2. (s \o t)[i] < (s \o t)[j]
      BY <2>1, <3>1
    <3> QED
      BY <1>1, <3>2
  <2>3. ASSUME NEW i \in 1..Len(t), NEW j \in 1..Len(t), i < j
        PROVE  t[i] < t[j]
    <3>1. /\ i + Len(s) \in 1..(Len(s) + Len(t)) /\ j + Len(s) \in 1..(Len(s) + Len(t))
          /\ i + Len(s) < j + Len(s)
      BY <1>1, <2>3
    <3>2. (s \o t)[i + Len(s)] < (s \o t)[j + Len(s)]
      BY <2>1, <3>1
    <3> QED
      BY <1>1, <3>2
  <2>4. Increasing(t)
    BY <1>1, <2>3 DEF Increasing
  <2>5. ASSUME NEW i \in 1..Len(s), NEW j \in 1..Len(t)
        PROVE  s[i] < t[j]
    <3>1. /\ i \in 1..(Len(s) + Len(t)) /\ j + Len(s) \in 1..(Len(s) + Len(t))
          /\ i < j + Len(s)
      BY <1>1
    <3>2. (s \o t)[i] < (s \o t)[j + Len(s)]
      BY <2>1, <3>1
    <3> QED
      BY <1>1, <3>2
  <2> QED
    BY <1>1, <2>2, <2>4, <2>5 DEF Before, Elements
<1>3. ASSUME Increasing(s), Increasing(t), Before(Elements(s), Elements(t))
      PROVE  Increasing(s \o t)
  <2> SUFFICES ASSUME NEW i \in 1..(Len(s) + Len(t)), NEW j \in 1..(Len(s) + Len(t)), i < j
               PROVE  (s \o t)[i] < (s \o t)[j]
    BY <1>1 DEF Increasing
  <2>1. CASE j <= Len(s)
    <3>1. i \in 1..Len(s) /\ j \in 1..Len(s)
      BY <1>1, <2>1
    <3> QED
      BY <1>1, <1>3, <3>1 DEF Increasing
  <2>2. CASE ~(j <= Len(s)) /\ i <= Len(s)
    <3>1. i \in 1..Len(s) /\ j - Len(s) \in 1..Len(t) /\ (j - Len(s)) + Len(s) = j
      BY <1>1, <2>2
    <3>2. s[i] \in Elements(s) /\ t[j - Len(s)] \in Elements(t)
      BY <1>1, <3>1 DEF Elements
    <3>3. s[i] < t[j - Len(s)]
      BY <1>3, <3>2 DEF Before
    <3> QED
      BY <1>1, <3>1, <3>3
  <2>3. CASE ~(i <= Len(s))
    <3>1. /\ i - Len(s) \in 1..Len(t) /\ (i - Len(s)) + Len(s) = i
          /\ j - Len(s) \in 1..Len(t) /\ (j - Len(s)) + Len(s) = j
          /\ i - Len(s) < j - Len(s)
      BY <1>1, <2>3
    <3>2. t[i - Len(s)] < t[j - Len(s)]
      BY <1>1, <1>3, <3>1 DEF Increasing
    <3> QED
      BY <1>1, <3>1, <3>2
  <2> QED
    BY <2>1, <2>2, <2>3
<1> QED
  BY <1>2, <1>3

\* A sequence cut after its first k elements.
LEMMA Cut ==
    ASSUME NEW S, NEW s \in Seq(S), NEW k \in 0..Len(s)
    PROVE  /\ SubSeq(s, 1, k) \in Seq(S) /\ SubSeq(s, k + 1, Len(s)) \in Seq(S)
           /\ Len(SubSeq(s, 1, k)) = k /\ Len(SubSeq(s, k + 1, Len(s))) = Len(s) - k
           /\ s = SubSeq(s, 1, k) \o SubSeq(s, k + 1, Len(s))
<1>1. Len(s) \in Nat /\ k \in Nat /\ k <= Len(s) /\ k \in Int /\ k + 1 \in Int
      /\ Len(s) \in Int /\ 1 \in Int
  BY LenProperties
<1>2. (\A i \in 1..k : s[i] \in S) /\ (\A i \in k + 1..Len(s) : s[i] \in S)
  BY <1>1, ElementOfSeq
<1>3. SubSeq(s, 1, k) \in Seq(S) /\ Len(SubSeq(s, 1, k)) = k
  BY <1>1, <1>2, SubSeqProperties
<1>4. SubSeq(s, k + 1, Len(s)) \in Seq(S) /\ Len(SubSeq(s, k + 1, Len(s))) = Len(s) - k
  BY <1>1, <1>2, SubSeqProperties
<1>5. 1 \in 1..Len(s) + 1 /\ k \in 1 - 1..Len(s) /\ Len(s) \in k..Len(s)
  BY <1>1
<1>6. SubSeq(s, 1, k) \o SubSeq(s, k + 1, Len(s)) = SubSeq(s, 1, Len(s))
  BY <1>5, ConcatAdjacentSubSeq
<1>7. SubSeq(s, 1, Len(s)) = s
  BY SubSeqFull
<1> QED
  BY <1>3, <1>4, <1>6, <1>7

\* A sequence is its head and its tail.
LEMMA HeadFirst ==
    ASSUME NEW S, NEW s \in Seq(S), s # <<>>
    PROVE  /\ Head(s) \in S /\ <<Head(s)>> \in Seq(S) /\ Tail(s) \in Seq(S)
           /\ Len(Tail(s)) = Len(s) - 1 /\ Len(s) \in Nat
           /\ s = <<Head(s)>> \o Tail(s)
<1>1. Head(s) \in S /\ Tail(s) \in Seq(S) /\ Len(Tail(s)) = Len(s) - 1
  BY HeadTailProperties
<1>2. Len(s) \in Nat \ {0}
  BY EmptySeq
<1>3. 1 \in 1..Len(s) /\ Len(s) \in 1..Len(s)
  BY <1>2
<1>4. SubSeq(s, 1, Len(s)) = <<s[1]>> \o SubSeq(s, 1 + 1, Len(s))
  BY <1>3, SubSeqRecursiveFirst
<1>5. SubSeq(s, 1, Len(s)) = s /\ Tail(s) = SubSeq(s, 2, Len(s))
  BY SubSeqFull, TailIsSubSeq
<1>6. Head(s) = s[1] /\ 1 + 1 = 2
  OBVIOUS
<1>7. <<Head(s)>> \in Seq(S)
  BY <1>1
<1> QED
  BY <1>1, <1>2, <1>4, <1>5, <1>6, <1>7

\* Sequences of one and of no element.
LEMMA ShortSeqs ==
    ASSUME NEW S, NEW x \in S
    PROVE  /\ <<x>> \in Seq(S) /\ <<>> \in Seq(S)
           /\ Len(<<x>>) = 1 /\ Len(<<>>) = 0
           /\ Elements(<<x>>) = {x} /\ Elements(<<>>) = {}
           /\ Increasing(<<x>>) /\ Increasing(<<>>)
<1>1. /\ <<x>> \in Seq(S) /\ <<>> \in Seq(S)
      /\ Len(<<x>>) = 1 /\ Len(<<>>) = 0
  OBVIOUS
<1>2. DOMAIN <<x>> = {1} /\ <<x>>[1] = x
  OBVIOUS
<1>3. Elements(<<x>>) = {x} /\ Increasing(<<x>>)
  BY <1>2 DEF Elements, Increasing
<1>4. DOMAIN <<>> = {}
  OBVIOUS
<1>5. Elements(<<>>) = {} /\ Increasing(<<>>)
  BY <1>4 DEF Elements, Increasing
<1> QED
  BY <1>1, <1>3, <1>5

\* A sequence has at most as many elements as positions.
LEMMA ElementsBound ==
    ASSUME NEW S, NEW s \in Seq(S)
    PROVE  IsFiniteSet(Elements(s)) /\ Cardinality(Elements(s)) <= Len(s)
           /\ Cardinality(Elements(s)) \in Nat
<1>1. Len(s) \in Nat /\ DOMAIN s = 1..Len(s) /\ s \in [1..Len(s) -> S]
  BY LenProperties
<1>2. s \in Surjection(1..Len(s), Elements(s))
  BY <1>1 DEF Elements, Surjection
<1>3. IsFiniteSet(1..Len(s)) /\ Cardinality(1..Len(s)) = Len(s)
  BY <1>1, FS_Interval
<1>4. IsFiniteSet(Elements(s)) /\ Cardinality(Elements(s)) <= Cardinality(1..Len(s))
  BY <1>2, <1>3, FS_Surjection
<1> QED
  BY <1>3, <1>4, FS_CardinalityType

-----------------------------------------------------------------------------
(* The shape of the state *)

\* The drain loop's memory is empty when it waits for its tick, and never
\* holds more than a batch.
DrainShape ==
    /\ drain.pc = "idle" => drain = Idle
    /\ drain.pc = "lock" => drain.done = 0
    /\ Len(drain.batch) <= Batch

\* What a stream that has ended leaves, and what its end may be followed by.
StreamShape ==
    /\ Len(outQ) <= OutCap
    /\ ~open => outQ = <<>> /\ srv.pc = "idle"
    /\ cmd = "reconnect" => ~open
    /\ ~up => cmd = "poll" /\ ~open

\* There are finitely many tasks of dead streams, none with more events than
\* a stream can have had.
OrphanShape ==
    /\ IsFiniteSet(orphans)
    /\ \A o \in orphans : Len(o.rest) <= OutCap + 1

\* The streams that broke.
Breaks == faults["disconnect"] + faults["crash"]

\* Before the first of them there is nothing to make up for.
Calm == Breaks = 0 => open /\ up /\ orphans = {} /\ drain.pc # "requeue"

Shape == IInv /\ RequestsOK /\ DrainShape /\ StreamShape /\ OrphanShape /\ Calm

\* Counting a fault adds one to its kind.
LEMMA CountStep ==
    ASSUME faults \in [FaultKind -> Nat], NEW k \in FaultKind, NEW b, Count(k, b)
    PROVE  /\ faults'[k] = faults[k] + 1
           /\ \A l \in FaultKind \ {k} : faults'[l] = faults[l]
BY DEF Count

\* Initially there is nothing that could be out of shape.
LEMMA InitShape == Init => Shape
<1> SUFFICES ASSUME Init PROVE Shape
  OBVIOUS
<1>1. IInv
  BY InitIInv
<1>2. Batch \in Nat /\ OutCap \in Nat /\ Len(<<>>) = 0
  BY CapacityAssumption
<1>3. drain = Idle /\ Idle.pc = "idle" /\ Idle.batch = <<>> /\ Idle.done = 0
  BY DEF Init, Idle
<1>4. DrainShape
  <2>1. Len(drain.batch) = 0
    BY <1>2, <1>3, Zenon
  <2> QED
    BY <1>2, <1>3, <2>1 DEF DrainShape
<1>5. StreamShape
  <2>1. Len(outQ) = 0
    BY <1>2, Zenon DEF Init
  <2> QED
    BY <1>2, <2>1 DEF Init, StreamShape, NoTask
<1>6. OrphanShape
  BY FS_EmptySet DEF Init, OrphanShape
<1>7. Calm
  BY <1>3 DEF Init, Calm
<1>8. RequestsOK
  BY FS_EmptySet DEF Init, RequestsOK, FaultKind
<1> QED
  BY <1>1, <1>4, <1>5, <1>6, <1>7, <1>8 DEF Shape

\* Moving on in the batch keeps the shape of the drain loop.
LEMMA AdvanceShape ==
    ASSUME AgentOK, DrainShape, drain.pc \in {"send", "requeue"}, Advance
    PROVE  DrainShape' /\ drain.pc' \in {"idle", drain.pc}
<1>1. /\ drain.batch \in Seq(Event) /\ drain.done \in Nat
      /\ drain \in [pc : {"idle", "lock", "send", "requeue"},
                    batch : Seq(Event), done : Nat]
  BY DEF AgentOK
<1>2. Batch \in Nat /\ Len(<<>>) = 0
  BY CapacityAssumption
<1>3. CASE drain' = Idle
  <2>1. drain.pc' = "idle" /\ drain.batch' = <<>> /\ drain.done' = 0
    BY <1>3 DEF Idle
  <2>2. Len(drain.batch') = 0
    BY <1>2, <2>1, Zenon
  <2> QED
    BY <1>2, <1>3, <2>1, <2>2 DEF DrainShape, Idle
<1>4. CASE drain' = [drain EXCEPT !.done = @ + 1]
  <2>1. drain.pc' = drain.pc /\ drain.batch' = drain.batch
    BY <1>1, <1>4
  <2> QED
    BY <2>1 DEF DrainShape
<1> QED
  BY <1>3, <1>4 DEF Advance

\* The batch of a tick.
LEMMA OldestLength ==
    ASSUME buffer \in Seq(Event)
    PROVE  Len(Fifo!Oldest(buffer, Batch)) <= Batch
<1>1. Batch \in Nat \ {0} /\ Len(buffer) \in Nat
  BY CapacityAssumption
<1>2. CASE Len(buffer) > Batch
  <2>1. Batch \in 0..Len(buffer)
    BY <1>1, <1>2
  <2>2. Len(SubSeq(buffer, 1, Batch)) = Batch
    BY <2>1, Cut
  <2> QED
    BY <1>1, <1>2, <2>2 DEF Fifo!Oldest
<1>3. CASE ~(Len(buffer) > Batch)
  BY <1>1, <1>3 DEF Fifo!Oldest
<1> QED
  BY <1>2, <1>3

\* Collector and drain loop.
LEMMA DrainShapes ==
    ASSUME Shape,
           Collect \/ DrainTick \/ DrainLock \/ SendOne \/ SendFails \/ RequeueOne
    PROVE  DrainShape' /\ StreamShape' /\ OrphanShape' /\ Calm'
<1>1. /\ AgentOK /\ CountersOK /\ ChannelsOK /\ DrainShape /\ StreamShape
      /\ OrphanShape /\ Calm
  BY DEF Shape, IInv
<1>2. OutCap \in Nat /\ Batch \in Nat
  BY CapacityAssumption
<1>3. /\ up' = up /\ cmd' = cmd /\ open' = open /\ srv' = srv /\ orphans' = orphans
      /\ up /\ Breaks' = Breaks
  <2>1. /\ up' = up /\ cmd' = cmd /\ open' = open /\ srv' = srv /\ orphans' = orphans
        /\ up
    BY DEF Collect, DrainTick, DrainLock, SendOne, SendFails, RequeueOne, streamVars
  <2>2. /\ faults'["disconnect"] = faults["disconnect"]
        /\ faults'["crash"] = faults["crash"]
    <3>1. CASE faults' = faults
      BY <3>1
    <3>2. CASE Count("store", MaxStoreErrors)
      BY <1>1, <3>2, CountStep DEF CountersOK, FaultKind
    <3> QED
      BY <3>1, <3>2 DEF Collect, DrainTick, DrainLock, SendOne, SendFails, RequeueOne
  <2> QED
    BY <2>1, <2>2 DEF Breaks
<1>4. OrphanShape'
  BY <1>1, <1>3 DEF OrphanShape
<1>5. StreamShape'
  <2>1. CASE SendOne
    <3>1. open /\ Len(outQ) < OutCap /\ outQ' = Append(outQ, drain.batch[drain.done + 1])
          /\ outQ \in Seq(Event) /\ Len(outQ) \in Nat
      BY <1>1, <2>1 DEF SendOne, ChannelsOK
    <3>2. Len(outQ') = Len(outQ) + 1
      BY <3>1
    <3>3. Len(outQ') <= OutCap
      BY <1>2, <3>1, <3>2
    <3> QED
      BY <1>1, <1>3, <3>1, <3>3 DEF StreamShape
  <2>2. CASE outQ' = outQ
    BY <1>1, <1>3, <2>2 DEF StreamShape
  <2> QED
    BY <2>1, <2>2 DEF Collect, DrainTick, DrainLock, SendFails, RequeueOne, streamVars
<1>6. DrainShape' /\ (drain.pc' = "requeue" => drain.pc = "requeue" \/ ~open)
  <2>0. drain \in [pc : {"idle", "lock", "send", "requeue"},
                   batch : Seq(Event), done : Nat] /\ buffer \in Seq(Event)
    BY <1>1 DEF AgentOK
  <2>1. CASE Collect
    <3>1. drain' = drain
      BY <2>1 DEF Collect
    <3> QED
      BY <1>1, <3>1 DEF DrainShape
  <2>2. CASE DrainTick
    <3>1. drain' = [pc |-> "lock", batch |-> Fifo!Oldest(buffer, Batch), done |-> 0]
      BY <2>2 DEF DrainTick
    <3>2. drain.pc' = "lock" /\ drain.done' = 0 /\ drain.batch' = Fifo!Oldest(buffer, Batch)
      BY <3>1
    <3>3. Len(drain.batch') <= Batch
      BY <2>0, <3>2, OldestLength
    <3> QED
      BY <3>2, <3>3 DEF DrainShape
  <2>3. CASE DrainLock
    <3>1. drain' = [drain EXCEPT !.pc = "send"]
      BY <2>3 DEF DrainLock
    <3>2. drain.pc' = "send" /\ drain.batch' = drain.batch
      BY <2>0, <3>1
    <3> QED
      BY <1>1, <3>2 DEF DrainShape
  <2>4. CASE SendOne
    BY <1>1, <2>4, AdvanceShape DEF SendOne
  <2>5. CASE SendFails
    <3>1. drain' = [drain EXCEPT !.pc = "requeue", !.done = 0] /\ ~open
      BY <2>5 DEF SendFails
    <3>2. drain.pc' = "requeue" /\ drain.batch' = drain.batch
      BY <2>0, <3>1
    <3> QED
      BY <1>1, <3>1, <3>2 DEF DrainShape
  <2>6. CASE RequeueOne
    BY <1>1, <2>6, AdvanceShape DEF RequeueOne
  <2> QED
    BY <2>1, <2>2, <2>3, <2>4, <2>5, <2>6
<1>7. Calm'
  BY <1>1, <1>3, <1>6 DEF Calm
<1> QED
  BY <1>4, <1>5, <1>6, <1>7

\* The command listener, the reader task and the heartbeat loop.
LEMMA ListenerShapes ==
    ASSUME Shape,
           \/ PollCommand \/ PollEmpty \/ PollClosed
           \/ Reconnect \/ ReconnectFails \/ ReadCommand
           \/ HeartbeatLock \/ HeartbeatDone
    PROVE  DrainShape' /\ StreamShape' /\ OrphanShape' /\ Calm'
<1>1. /\ AgentOK /\ CountersOK /\ ChannelsOK /\ DrainShape /\ StreamShape
      /\ OrphanShape /\ Calm
  BY DEF Shape, IInv
<1>2. OutCap \in Nat /\ Len(<<>>) = 0
  BY CapacityAssumption
<1>3. drain' = drain /\ up' = up /\ up /\ orphans' = orphans /\ faults' = faults
  BY DEF PollCommand, PollEmpty, PollClosed, Reconnect, ReconnectFails, ReadCommand,
         HeartbeatLock, HeartbeatDone, agentVars, streamVars, vars
<1>4. DrainShape' /\ OrphanShape'
  BY <1>1, <1>3 DEF DrainShape, OrphanShape
<1>5. StreamShape' /\ (open => open')
  <2>1. CASE Reconnect
    <3>1. outQ' = <<>> /\ open' /\ cmd' = "poll"
      BY <2>1 DEF Reconnect
    <3>2. Len(outQ') = 0
      BY <1>2, <3>1, Zenon
    <3> QED
      BY <1>2, <1>3, <3>1, <3>2 DEF StreamShape
  <2>2. CASE ~Reconnect
    <3>1. outQ' = outQ /\ open' = open /\ srv' = srv
      BY <2>2 DEF PollCommand, PollEmpty, PollClosed, ReconnectFails, ReadCommand,
         HeartbeatLock, HeartbeatDone, agentVars, streamVars, vars
    <3>2. cmd' = cmd \/ cmd' = "poll" \/ ~open
      BY <2>2 DEF PollCommand, PollEmpty, PollClosed, ReconnectFails, ReadCommand,
         HeartbeatLock, HeartbeatDone, agentVars, streamVars, vars
    <3> QED
      BY <1>1, <1>3, <3>1, <3>2 DEF StreamShape
  <2> QED
    BY <2>1, <2>2
<1>6. Calm'
  BY <1>1, <1>3, <1>5 DEF Calm, Breaks
<1> QED
  BY <1>4, <1>5, <1>6

\* A task of a dead stream that moves on has fewer events.
LEMMA OrphanShorter ==
    ASSUME orphans \in SUBSET Orphan, OrphanShape, NEW o \in orphans, OrphanMoves(o)
    PROVE  OrphanShape'
<1>1. o.rest \in Seq(Event) /\ o.rest # <<>> /\ Len(o.rest) <= OutCap + 1
  BY DEF Orphan, OrphanShape
<1>2. OutCap \in Nat
  BY CapacityAssumption
<1>3. Len(Tail(o.rest)) <= OutCap + 1
  BY <1>1, <1>2, HeadFirst
<1>4. IsFiniteSet(orphans \ {o})
  BY FS_RemoveElement DEF OrphanShape
<1>5. CASE orphans' = orphans \ {o}
  BY <1>4, <1>5 DEF OrphanShape
<1>6. CASE orphans' = (orphans \ {o}) \cup {[o EXCEPT !.rest = Tail(@)]}
  <2>1. IsFiniteSet(orphans')
    BY <1>4, <1>6, FS_AddElement
  <2>2. [o EXCEPT !.rest = Tail(@)].rest = Tail(o.rest)
    BY DEF Orphan
  <2> QED
    BY <1>3, <1>6, <2>1, <2>2 DEF OrphanShape
<1> QED
  BY <1>5, <1>6 DEF OrphanMoves

\* The server.
LEMMA ServerShapes ==
    ASSUME Shape, ServerNext
    PROVE  DrainShape' /\ StreamShape' /\ OrphanShape' /\ Calm'
<1>1. /\ AgentOK /\ CountersOK /\ ChannelsOK /\ ServerOK /\ DrainShape /\ StreamShape
      /\ OrphanShape /\ Calm
  BY DEF Shape, IInv
<1>2. OutCap \in Nat
  BY CapacityAssumption
<1>3. drain' = drain /\ up' = up /\ cmd' = cmd /\ open' = open
  BY DEF ServerNext, ServerReceive, Ingest, IngestFails, SendAck, OrphanIngest,
         OrphanIngestFails, agentVars
<1>4. DrainShape'
  BY <1>1, <1>3 DEF DrainShape
<1>5. Breaks' = Breaks
  <2>1. CASE faults' = faults
    BY <2>1 DEF Breaks
  <2>2. CASE Count("ingest", MaxIngestErrors)
    BY <1>1, <2>2, CountStep DEF CountersOK, FaultKind, Breaks
  <2> QED
    BY <2>1, <2>2 DEF ServerNext, ServerReceive, Ingest, IngestFails, SendAck,
                      OrphanIngest, OrphanIngestFails
<1>6. StreamShape'
  <2>1. CASE ServerReceive
    <3>1. open /\ outQ # <<>> /\ outQ' = Tail(outQ) /\ outQ \in Seq(Event)
      BY <1>1, <2>1 DEF ServerReceive, ChannelsOK
    <3>2. Len(outQ') <= Len(outQ) /\ Len(outQ) \in Nat /\ Len(outQ') \in Nat
      BY <3>1, HeadFirst
    <3>3. Len(outQ') <= OutCap
      BY <1>1, <1>2, <3>2 DEF StreamShape
    <3> QED
      BY <1>1, <1>3, <3>1, <3>3 DEF StreamShape
  <2>2. CASE Ingest \/ IngestFails \/ SendAck
    <3>1. outQ' = outQ /\ srv.pc # "idle"
      BY <2>2 DEF Ingest, IngestFails, SendAck
    <3> QED
      BY <1>1, <1>3, <3>1 DEF StreamShape
  <2>3. CASE OrphanIngest \/ OrphanIngestFails
    <3>1. outQ' = outQ /\ srv' = srv
      BY <2>3 DEF OrphanIngest, OrphanIngestFails
    <3> QED
      BY <1>1, <1>3, <3>1 DEF StreamShape
  <2> QED
    BY <2>1, <2>2, <2>3 DEF ServerNext
<1>7. OrphanShape' /\ (orphans = {} => orphans' = {})
  <2>1. CASE orphans' = orphans
    BY <1>1, <2>1 DEF OrphanShape
  <2>2. CASE OrphanIngest \/ OrphanIngestFails
    <3>1. PICK o \in orphans : OrphanMoves(o)
      BY <2>2 DEF OrphanIngest, OrphanIngestFails
    <3> QED
      BY <1>1, <3>1, OrphanShorter DEF ServerOK
  <2> QED
    BY <2>1, <2>2 DEF ServerNext, ServerReceive, Ingest, IngestFails, SendAck
<1>8. Calm'
  BY <1>1, <1>3, <1>5, <1>7 DEF Calm
<1> QED
  BY <1>4, <1>6, <1>7, <1>8

\* The event the server is publishing, as a sequence of at most one.
Hand == IF srv.pc = "publish" THEN <<srv.ev>> ELSE <<>>

\* It is a sequence of events.
LEMMA HandType ==
    ASSUME ServerOK
    PROVE  Hand \in Seq(Event) /\ Len(Hand) \in Nat /\ Len(Hand) <= 1
<1>1. CASE srv.pc = "publish"
  <2>1. srv.ev \in Event
    BY <1>1 DEF ServerOK, InHand
  <2>2. <<srv.ev>> \in Seq(Event) /\ Len(<<srv.ev>>) = 1
    BY <2>1
  <2>3. Hand = <<srv.ev>>
    BY <1>1 DEF Hand
  <2> QED
    BY <2>2, <2>3
<1>2. CASE srv.pc # "publish"
  <2>1. Hand = <<>>
    BY <1>2 DEF Hand
  <2>2. <<>> \in Seq(Event) /\ Len(<<>>) = 0
    OBVIOUS
  <2> QED
    BY <2>1, <2>2
<1> QED
  BY <1>1, <1>2

\* What the end of a stream does to the events on it: a part of them stays
\* with the task.
LEMMA EndsStep ==
    ASSUME Shape, StreamEnds
    PROVE  /\ open' = FALSE /\ outQ' = <<>> /\ srv' = NoTask
           /\ \E a, b \in Seq(Event) :
                 /\ outQ = a \o b
                 /\ Len(Hand \o a) <= OutCap + 1
                 /\ \/ orphans' = orphans
                    \/ orphans' = orphans \cup {[n |-> Breaks, rest |-> Hand \o a]}
           /\ OrphanShape'
<1>1. ChannelsOK /\ ServerOK /\ StreamShape /\ OrphanShape
  BY DEF Shape, IInv
<1>2. PICK k \in 0..Len(outQ) :
         orphans' = IF Leftover(k) = <<>> THEN orphans
                    ELSE orphans \cup
                         {[n |-> faults["disconnect"] + faults["crash"],
                           rest |-> Leftover(k)]}
  BY DEF StreamEnds
<1> DEFINE a == SubSeq(outQ, 1, k)
           b == SubSeq(outQ, k + 1, Len(outQ))
<1>3. outQ \in Seq(Event) /\ Len(outQ) <= OutCap /\ OutCap \in Nat /\ Len(outQ) \in Nat
  BY <1>1, CapacityAssumption DEF ChannelsOK, StreamShape
<1>4. a \in Seq(Event) /\ b \in Seq(Event) /\ outQ = a \o b /\ Len(a) = k
  BY <1>2, <1>3, Cut
<1>5. Leftover(k) = Hand \o a
  BY DEF Leftover, Hand
<1> HIDE DEF a, b
<1>6. Hand \in Seq(Event) /\ Len(Hand) \in Nat /\ Len(Hand) <= 1
  BY <1>1, HandType
<1>7. Len(Hand \o a) = Len(Hand) + Len(a)
  BY <1>4, <1>6, ConcatProperties
<1>8. Len(Hand \o a) <= OutCap + 1
  BY <1>2, <1>3, <1>4, <1>6, <1>7
<1>9. \/ orphans' = orphans
      \/ orphans' = orphans \cup {[n |-> Breaks, rest |-> Hand \o a]}
  BY <1>2, <1>5, Zenon DEF Breaks
<1>10. IsFiniteSet(orphans')
  <2>1. IsFiniteSet(orphans)
    BY <1>1 DEF OrphanShape
  <2> QED
    BY <1>9, <2>1, FS_AddElement
<1>11. \A o \in orphans' : Len(o.rest) <= OutCap + 1
  <2>1. \A o \in orphans : Len(o.rest) <= OutCap + 1
    BY <1>1 DEF OrphanShape
  <2>2. [n |-> Breaks, rest |-> Hand \o a].rest = Hand \o a
    OBVIOUS
  <2> HIDE DEF OrphanShape
  <2> QED
    BY <1>8, <1>9, <2>1, <2>2
<1>12. open' = FALSE /\ outQ' = <<>> /\ srv' = NoTask
  BY DEF StreamEnds
<1> QED
  BY <1>4, <1>8, <1>9, <1>10, <1>11, <1>12 DEF OrphanShape

\* The faults.
LEMMA FaultShapes ==
    ASSUME Shape, FaultNext
    PROVE  DrainShape' /\ StreamShape' /\ OrphanShape' /\ Calm'
<1>1. /\ AgentOK /\ CountersOK /\ ChannelsOK /\ ServerOK /\ DrainShape /\ StreamShape
      /\ OrphanShape /\ Calm
  BY DEF Shape, IInv
<1>2. OutCap \in Nat /\ Batch \in Nat /\ Len(<<>>) = 0
  BY CapacityAssumption
<1>3. faults["disconnect"] \in Nat /\ faults["crash"] \in Nat
  BY <1>1 DEF CountersOK, FaultKind
<1>4. CASE Disconnect \/ ServerDies \/ AgentDies
  <2>1. open' = FALSE /\ outQ' = <<>> /\ srv' = NoTask /\ OrphanShape'
    <3>1. CASE StreamEnds
      BY <3>1, EndsStep
    <3>2. CASE ServerDies
      BY <3>2, FS_EmptySet DEF ServerDies, OrphanShape
    <3> QED
      BY <1>4, <3>1, <3>2 DEF Disconnect, AgentDies
  <2>2. Breaks' # 0
    <3>1. Count("disconnect", MaxDisconnects) \/ Count("crash", MaxCrashes)
      BY <1>4 DEF Disconnect, ServerDies, AgentDies
    <3> QED
      BY <1>1, <1>3, <3>1, CountStep DEF CountersOK, FaultKind, Breaks
  <2>3. Calm'
    BY <2>2 DEF Calm
  <2>4. StreamShape'
    <3>1. Len(outQ') = 0
      BY <1>2, <2>1, Zenon
    <3>2. srv.pc' = "idle"
      BY <2>1 DEF NoTask
    <3>3. ~open' /\ (~up' => cmd' = "poll")
      <4>1. CASE Disconnect \/ ServerDies
        BY <1>1, <2>1, <4>1 DEF Disconnect, ServerDies, agentVars, StreamShape
      <4>2. CASE AgentDies
        BY <2>1, <4>2 DEF AgentDies
      <4> QED
        BY <1>4, <4>1, <4>2
    <3> QED
      BY <1>2, <2>1, <3>1, <3>2, <3>3 DEF StreamShape
  <2>5. DrainShape'
    <3>1. CASE Disconnect \/ ServerDies
      BY <1>1, <3>1 DEF Disconnect, ServerDies, agentVars, DrainShape
    <3>2. CASE AgentDies
      <4>1. drain' = Idle /\ Idle.pc = "idle" /\ Idle.batch = <<>>
        BY <3>2 DEF AgentDies, Idle
      <4>2. Len(drain.batch') = 0
        BY <1>2, <4>1, Zenon
      <4> QED
        BY <1>2, <4>1, <4>2 DEF DrainShape
    <3> QED
      BY <1>4, <3>1, <3>2
  <2> QED
    BY <2>1, <2>3, <2>4, <2>5
<1>5. CASE AgentStarts
  <2>1. /\ ~up /\ up' /\ open' /\ drain' = drain /\ orphans' = orphans /\ cmd' = cmd
        /\ outQ' = outQ /\ faults' = faults
    BY <1>5 DEF AgentStarts
  <2>2. DrainShape' /\ OrphanShape'
    BY <1>1, <2>1 DEF DrainShape, OrphanShape
  <2>3. StreamShape' /\ Calm'
    BY <1>1, <2>1 DEF StreamShape, Calm, Breaks
  <2> QED
    BY <2>2, <2>3
<1>6. CASE TokenExpires
  <2>1. /\ up' = up /\ open' = open /\ drain' = drain /\ orphans' = orphans
        /\ cmd' = cmd /\ outQ' = outQ /\ srv' = srv
    BY <1>6 DEF TokenExpires, streamVars
  <2>2. Breaks' = Breaks
    BY <1>1, <1>6, CountStep DEF TokenExpires, CountersOK, FaultKind, Breaks
  <2>3. DrainShape' /\ OrphanShape'
    BY <1>1, <2>1 DEF DrainShape, OrphanShape
  <2>4. StreamShape' /\ Calm'
    BY <1>1, <2>1, <2>2 DEF StreamShape, Calm
  <2> QED
    BY <2>3, <2>4
<1> QED
  BY <1>4, <1>5, <1>6 DEF FaultNext

\* The producer leaves the shape alone.
LEMMA ProducerShapes ==
    ASSUME Shape, ProducerNext
    PROVE  DrainShape' /\ StreamShape' /\ OrphanShape' /\ Calm'
<1>1. UNCHANGED <<agentVars, streamVars>>
  BY DEF ProducerNext, ProduceUnanswered, OrphanUnanswered, LateWrite, RequestLost, Unanswer
<1>2. CountersOK /\ DrainShape /\ StreamShape /\ OrphanShape /\ Calm
  BY DEF Shape, IInv
<1>3. Breaks' = Breaks
  <2>1. CASE faults' = faults
    BY <2>1 DEF Breaks
  <2>2. CASE Count("unanswered", MaxUnanswered)
    BY <1>2, <2>2, CountStep DEF CountersOK, FaultKind, Breaks
  <2> QED
    BY <2>1, <2>2
       DEF ProducerNext, ProduceUnanswered, OrphanUnanswered, LateWrite, RequestLost,
           Unanswer
<1> QED
  BY <1>1, <1>2, <1>3
     DEF agentVars, streamVars, DrainShape, StreamShape, OrphanShape, Calm

\* The shape holds in every reachable state.
THEOREM ShapeInvariance == Spec => []Shape
<1>1. Shape /\ [Next]_vars => Shape'
  <2> SUFFICES ASSUME Shape, [Next]_vars PROVE Shape'
    OBVIOUS
  <2>0. IInv /\ RequestsOK /\ DrainShape /\ StreamShape /\ OrphanShape /\ Calm
    BY DEF Shape
  <2>1. IInv' /\ RequestsOK'
    BY <2>0, StepIInv
  <2>2. DrainShape' /\ StreamShape' /\ OrphanShape' /\ Calm'
    <3>1. CASE AgentNext
      BY <3>1, DrainShapes, ListenerShapes DEF AgentNext
    <3>2. CASE ServerNext
      BY <3>2, ServerShapes
    <3>3. CASE FaultNext
      BY <3>3, FaultShapes
    <3>4. CASE UNCHANGED vars
      BY <2>0, <3>4 DEF vars, agentVars, streamVars, DrainShape, StreamShape,
                        OrphanShape, Calm, Breaks
    <3>5. CASE ProducerNext
      BY <3>5, ProducerShapes
    <3> QED
      BY <3>1, <3>2, <3>3, <3>4, <3>5 DEF Next
  <2> QED
    BY <2>1, <2>2 DEF Shape
<1> QED
  BY InitShape, <1>1, PTL DEF Spec

-----------------------------------------------------------------------------
(* The steps, as equations *)

\* The part of the batch that has been sent.
Sent == SubSeq(drain.batch, 1, drain.done)

\* The part that goes back into the buffer, should the stream be gone at the
\* next send, or that is going back.
Kept == IF drain.pc = "requeue" THEN Unsent ELSE drain.batch

\* The part that will be sent again although it has been sent: the stream is
\* gone and the drain loop has not noticed yet.
Again == IF ~open /\ drain.pc = "send" THEN Sent ELSE <<>>

\* The faults a property counts.
Counted == {"disconnect", "crash", "ingest", "unanswered", "store"}
SameFaults == \A k \in Counted : faults'[k] = faults[k]
OneMore(kind) ==
    /\ faults'[kind] = faults[kind] + 1
    /\ \A k \in Counted \ {kind} : faults'[k] = faults[k]

\* The sequences an event goes through, and the drain loop's views of its
\* batch.
LEMMA PartTypes ==
    ASSUME Shape
    PROVE  /\ buffer \in Seq(Event) /\ Unsent \in Seq(Event) /\ outQ \in Seq(Event)
           /\ Hand \in Seq(Event) /\ kafka \in Seq(Event)
           /\ Sent \in Seq(Event) /\ Kept \in Seq(Event) /\ Again \in Seq(Event)
           /\ drain.batch \in Seq(Event) /\ drain.batch = Sent \o Unsent
           /\ drain.done \in 0..Len(drain.batch)
           /\ Len(Unsent) \in Nat /\ Len(Unsent) <= Batch
           /\ produced \in 0..NumEvents /\ produced \in Nat
           /\ drain.pc = "idle" => Unsent = <<>> /\ Kept = <<>>
<1>1. AgentOK /\ ChannelsOK /\ ServerOK /\ DrainShape
  BY DEF Shape, IInv
<1>2. /\ buffer \in Seq(Event) /\ outQ \in Seq(Event) /\ kafka \in Seq(Event)
      /\ drain.batch \in Seq(Event) /\ drain.done \in Nat /\ produced \in 0..NumEvents
      /\ Hand \in Seq(Event)
  BY <1>1, HandType DEF AgentOK, ChannelsOK
<1>3. drain.done \in 0..Len(drain.batch) /\ Len(drain.batch) \in Nat
  <2>1. Len(drain.batch) \in Nat
    BY <1>2
  <2>2. CASE drain.pc = "idle"
    <3>1. drain.done = 0
      BY <1>1, <2>2 DEF DrainShape, Idle
    <3> QED
      BY <2>1, <3>1
  <2>3. CASE drain.pc # "idle"
    BY <1>1, <1>2, <2>1, <2>3 DEF AgentOK, InBatch
  <2> QED
    BY <2>1, <2>2, <2>3
<1>4. /\ Sent \in Seq(Event) /\ Unsent \in Seq(Event) /\ drain.batch = Sent \o Unsent
      /\ Len(Unsent) = Len(drain.batch) - drain.done
  BY <1>2, <1>3, Cut DEF Sent, Unsent
<1>5. Len(Unsent) \in Nat /\ Len(Unsent) <= Batch
  <2>1. Len(drain.batch) <= Batch /\ Batch \in Nat
    BY <1>1, CapacityAssumption DEF DrainShape
  <2> QED
    BY <1>3, <1>4, <2>1
<1>6. Kept \in Seq(Event)
  BY <1>2, <1>4 DEF Kept
<1>7. Again \in Seq(Event)
  <2>1. <<>> \in Seq(Event)
    OBVIOUS
  <2> QED
    BY <1>4, <2>1, Zenon DEF Again
<1>8. produced \in Nat
  BY <1>2, FaultAssumption
<1>9. ASSUME drain.pc = "idle" PROVE Unsent = <<>> /\ Kept = <<>>
  <2>1. drain.batch = <<>> /\ drain.done = 0
    BY <1>1, <1>9 DEF DrainShape, Idle
  <2>2. Unsent = SubSeq(<<>>, 1, 0)
    <3>1. Len(<<>>) = 0 /\ 0 + 1 = 1
      OBVIOUS
    <3> QED
      BY <2>1, <3>1, Zenon DEF Unsent
  <2>3. SubSeq(<<>>, 1, 0) = <<>>
    BY SubSeqEmpty
  <2> QED
    BY <1>9, <2>1, <2>2, <2>3 DEF Kept
<1> QED
  BY <1>2, <1>3, <1>4, <1>5, <1>6, <1>7, <1>8, <1>9

\* What an idle drain loop holds afterwards.
LEMMA IdleParts ==
    ASSUME drain' = Idle
    PROVE  Unsent' = <<>> /\ Kept' = <<>> /\ Again' = <<>>
<1>1. drain.batch' = <<>> /\ drain.done' = 0 /\ drain.pc' = "idle"
  BY DEF Idle
<1>2. Unsent' = SubSeq(<<>>, 1, 0)
  <2>1. Len(<<>>) = 0 /\ 0 + 1 = 1
    OBVIOUS
  <2>2. Unsent' = SubSeq(drain.batch', drain.done' + 1, Len(drain.batch'))
    BY DEF Unsent
  <2> QED
    BY <1>1, <2>1, <2>2, Zenon
<1>3. SubSeq(<<>>, 1, 0) = <<>>
  BY SubSeqEmpty
<1>4. Kept' = <<>> /\ Again' = <<>>
  BY <1>1 DEF Kept, Again
<1> QED
  BY <1>2, <1>3, <1>4

\* A push appends its event and takes what it evicts from the front.
LEMMA PushStep ==
    ASSUME buffer \in Seq(Event), evicted \in Nat, NEW e \in Event, Push(e)
    PROVE  \E x \in Seq(Event) :
              /\ buffer' \in Seq(Event)
              /\ buffer \o <<e>> = x \o buffer'
              /\ evicted' = evicted + Len(x)
<1> DEFINE q == Append(buffer, e)
<1>1. q \in Seq(Event) /\ Len(q) = Len(buffer) + 1 /\ Len(buffer) \in Nat
  OBVIOUS
<1>2. MaxEvents \in Nat \ {0}
  BY CapacityAssumption
<1>3. q = buffer \o <<e>>
  BY AppendIsConcat
<1>4. /\ buffer' = Fifo!Pushed(buffer, e, MaxEvents)
      /\ evicted' = evicted + (Len(buffer) + 1 - Len(buffer'))
  BY DEF Push
<1>5. CASE Len(q) > MaxEvents
  <2> DEFINE k == Len(q) - MaxEvents
  <2>1. k \in 0..Len(q) /\ k + 1 = Len(q) - MaxEvents + 1 /\ k \in Nat
    BY <1>1, <1>2, <1>5
  <2>2. buffer' = SubSeq(q, k + 1, Len(q))
    BY <1>4, <1>5, <2>1 DEF Fifo!Pushed, Fifo!Newest
  <2> HIDE DEF q, k
  <2>3. /\ SubSeq(q, 1, k) \in Seq(Event) /\ buffer' \in Seq(Event)
        /\ Len(SubSeq(q, 1, k)) = k /\ Len(buffer') = Len(q) - k
        /\ q = SubSeq(q, 1, k) \o buffer'
    BY <1>1, <2>1, <2>2, Cut
  <2>4. evicted' = evicted + Len(SubSeq(q, 1, k))
    BY <1>1, <1>4, <2>1, <2>3
  <2> QED
    BY <1>3, <2>3, <2>4
<1>6. CASE ~(Len(q) > MaxEvents)
  <2>1. buffer' = q
    BY <1>4, <1>6 DEF Fifo!Pushed, Fifo!Newest
  <2> HIDE DEF q
  <2>2. evicted' = evicted + 0
    BY <1>1, <1>4, <2>1
  <2>3. <<>> \in Seq(Event) /\ Len(<<>>) = 0
    OBVIOUS
  <2>4. q = <<>> \o q
    BY <1>1, ConcatEmptySeq
  <2>5. evicted' = evicted + Len(<<>>)
    BY <2>2, <2>3, Zenon
  <2> QED
    BY <1>1, <1>3, <2>1, <2>3, <2>4, <2>5
<1> QED
  BY <1>5, <1>6

\* Moving on: the next event leaves the part that is still to be handled.
LEMMA AdvanceStep ==
    ASSUME Shape, drain.pc \in {"send", "requeue"}, Advance
    PROVE  \E x \in Event :
              /\ x = drain.batch[drain.done + 1]
              /\ Unsent' \in Seq(Event) /\ Unsent = <<x>> \o Unsent'
              /\ Kept' \in IF drain.pc = "send" THEN {Kept, <<>>} ELSE {Unsent'}
              /\ drain.pc = "requeue" => Kept = Unsent
              /\ drain.pc = "requeue" => drain.pc' # "send"
<1> DEFINE x == drain.batch[drain.done + 1]
<1>1. AgentOK
  BY DEF Shape, IInv
<1>2. /\ drain.batch \in Seq(Event) /\ drain.done \in Nat /\ Len(drain.batch) \in Nat
      /\ drain.done < Len(drain.batch)
      /\ drain \in [pc : {"idle", "lock", "send", "requeue"},
                    batch : Seq(Event), done : Nat]
  BY <1>1 DEF AgentOK, InBatch
<1>3. x \in Event
  BY <1>2, ElementOfSeq
<1>4. Unsent = <<x>> \o SubSeq(drain.batch, drain.done + 2, Len(drain.batch))
  <2>1. /\ drain.done + 1 \in 1..Len(drain.batch)
        /\ Len(drain.batch) \in drain.done + 1..Len(drain.batch)
        /\ (drain.done + 1) + 1 = drain.done + 2
    BY <1>2
  <2>2. SubSeq(drain.batch, drain.done + 1, Len(drain.batch)) =
           <<x>> \o SubSeq(drain.batch, (drain.done + 1) + 1, Len(drain.batch))
    BY <1>2, <2>1, SubSeqRecursiveFirst
  <2> QED
    BY <2>1, <2>2 DEF Unsent
<1>5. drain.pc = "requeue" => Kept = Unsent
  BY DEF Kept
<1>6. CASE drain.done + 1 = Len(drain.batch)
  <2>1. drain' = Idle
    BY <1>6 DEF Advance
  <2>2. Unsent' = <<>> /\ Kept' = <<>> /\ drain.pc' = "idle"
    BY <2>1, IdleParts DEF Idle
  <2>3. SubSeq(drain.batch, drain.done + 2, Len(drain.batch)) = <<>>
    BY <1>2, <1>6, SubSeqEmpty
  <2>4. <<>> \in Seq(Event)
    OBVIOUS
  <2> HIDE DEF x
  <2>5. Unsent' \in Seq(Event) /\ Unsent = <<x>> \o Unsent'
    BY <1>4, <2>2, <2>3, <2>4
  <2>6. Kept' \in IF drain.pc = "send" THEN {Kept, <<>>} ELSE {Unsent'}
    BY <2>2
  <2> QED
    BY <1>3, <1>5, <2>2, <2>5, <2>6 DEF x
<1>7. CASE drain.done + 1 # Len(drain.batch)
  <2>1. drain' = [drain EXCEPT !.done = @ + 1]
    BY <1>7 DEF Advance
  <2>2. drain.pc' = drain.pc /\ drain.batch' = drain.batch /\ drain.done' = drain.done + 1
    BY <1>2, <2>1
  <2>3. (drain.done + 1) + 1 = drain.done + 2
    BY <1>2
  <2>4. Unsent' = SubSeq(drain.batch, drain.done + 2, Len(drain.batch))
    <3>1. Unsent' = SubSeq(drain.batch', drain.done' + 1, Len(drain.batch'))
      BY DEF Unsent
    <3> QED
      BY <2>2, <2>3, <3>1
  <2>5. Unsent' \in Seq(Event)
    <3>1. drain.done + 1 \in 0..Len(drain.batch)
      BY <1>2
    <3> QED
      BY <1>2, <2>3, <2>4, <3>1, Cut
  <2>6. Kept' \in IF drain.pc = "send" THEN {Kept, <<>>} ELSE {Unsent'}
    <3>1. CASE drain.pc = "send"
      BY <2>2, <3>1 DEF Kept
    <3>2. CASE drain.pc = "requeue"
      <4>1. drain.pc' = "requeue"
        BY <2>2, <3>2
      <4>2. Kept' = Unsent'
        BY <4>1 DEF Kept
      <4> QED
        BY <3>2, <4>2
    <3> QED
      BY <3>1, <3>2
  <2> HIDE DEF x
  <2>7. Unsent = <<x>> \o Unsent'
    BY <1>4, <2>4
  <2> QED
    BY <1>3, <1>5, <2>2, <2>5, <2>6, <2>7 DEF x
<1> QED
  BY <1>6, <1>7

\* A tick splits the buffer.
LEMMA TickStep ==
    ASSUME Shape, DrainTick
    PROVE  /\ UNCHANGED <<produced, outQ, kafka, orphans, evicted, faults, srv, open>>
           /\ Unsent = <<>> /\ Kept = <<>> /\ Again' = <<>>
           /\ Unsent' \in Seq(Event) /\ buffer' \in Seq(Event)
           /\ buffer = Unsent' \o buffer' /\ Kept' = Unsent'
<1>1. buffer \in Seq(Event) /\ Len(buffer) \in Nat /\ Batch \in Nat
  BY PartTypes, CapacityAssumption
<1>2. Unsent = <<>> /\ Kept = <<>>
  BY PartTypes DEF DrainTick
<1>3. /\ drain.batch' = Fifo!Oldest(buffer, Batch) /\ drain.done' = 0
      /\ drain.pc' = "lock" /\ buffer' = Fifo!WithoutOldest(buffer, Batch)
      /\ UNCHANGED <<produced, outQ, kafka, orphans, evicted, faults, srv, open>>
  BY DEF DrainTick, streamVars
<1>4. /\ drain.batch' \in Seq(Event) /\ buffer' \in Seq(Event)
      /\ buffer = drain.batch' \o buffer'
  <2>1. CASE Len(buffer) > Batch
    <3>1. Batch \in 0..Len(buffer)
      BY <1>1, <2>1
    <3>2. /\ drain.batch' = SubSeq(buffer, 1, Batch)
          /\ buffer' = SubSeq(buffer, Batch + 1, Len(buffer))
      BY <1>3, <2>1 DEF Fifo!Oldest, Fifo!WithoutOldest
    <3> QED
      BY <1>1, <3>1, <3>2, Cut
  <2>2. CASE ~(Len(buffer) > Batch)
    <3>1. drain.batch' = buffer /\ buffer' = <<>>
      BY <1>3, <2>2 DEF Fifo!Oldest, Fifo!WithoutOldest
    <3>2. <<>> \in Seq(Event)
      OBVIOUS
    <3>3. buffer \o <<>> = buffer
      BY <1>1, ConcatEmptySeq
    <3> QED
      BY <1>1, <3>1, <3>2, <3>3
  <2> QED
    BY <2>1, <2>2
<1>5. Unsent' = drain.batch'
  <2>1. Unsent' = SubSeq(drain.batch', 1, Len(drain.batch'))
    <3>1. Unsent' = SubSeq(drain.batch', drain.done' + 1, Len(drain.batch')) /\ 0 + 1 = 1
      BY DEF Unsent
    <3> QED
      BY <1>3, <3>1
  <2> QED
    BY <1>4, <2>1, SubSeqFull
<1>6. Kept' = drain.batch' /\ Again' = <<>>
  BY <1>3 DEF Kept, Again
<1> QED
  BY <1>2, <1>3, <1>4, <1>5, <1>6

\* A collected event.
LEMMA CollectStep ==
    ASSUME Shape, Collect
    PROVE  /\ UNCHANGED <<outQ, kafka, orphans, drain, srv, open>>
           /\ Unsent' = Unsent /\ Kept' = Kept /\ Again' = Again
           /\ produced' = produced + 1 /\ produced + 1 \in Event
           /\ \/ /\ SameFaults
                 /\ \E x \in Seq(Event) : /\ buffer' \in Seq(Event)
                                          /\ buffer \o <<produced + 1>> = x \o buffer'
                                          /\ evicted' = evicted + Len(x)
              \/ UNCHANGED <<buffer, evicted>> /\ OneMore("store")
<1>1. AgentOK /\ CountersOK
  BY DEF Shape, IInv
<1>2. /\ UNCHANGED <<outQ, kafka, orphans, drain, srv, open>>
      /\ produced' = produced + 1
  BY DEF Collect, streamVars
<1>3. produced + 1 \in Event
  BY <1>1, FaultAssumption DEF Collect, AgentOK, Event
<1>4. Unsent' = Unsent /\ Kept' = Kept /\ Again' = Again
  BY <1>2 DEF Unsent, Kept, Again, Sent
<1>5. CASE Push(produced + 1) /\ UNCHANGED faults
  <2>1. \E x \in Seq(Event) : /\ buffer' \in Seq(Event)
                              /\ buffer \o <<produced + 1>> = x \o buffer'
                              /\ evicted' = evicted + Len(x)
    BY <1>1, <1>3, <1>5, PushStep DEF AgentOK, CountersOK
  <2>2. SameFaults
    BY <1>5 DEF SameFaults
  <2> QED
    BY <1>2, <1>3, <1>4, <2>1, <2>2
<1>6. CASE Count("store", MaxStoreErrors) /\ UNCHANGED <<buffer, evicted>>
  <2>1. OneMore("store")
    BY <1>1, <1>6, CountStep DEF OneMore, CountersOK, FaultKind, Counted
  <2> QED
    BY <1>2, <1>3, <1>4, <1>6, <2>1
<1> QED
  BY <1>5, <1>6 DEF Collect

\* A send.
LEMMA SendStep ==
    ASSUME Shape, SendOne
    PROVE  /\ UNCHANGED <<produced, buffer, kafka, orphans, evicted, faults, srv, open>>
           /\ open /\ Again = <<>> /\ Again' = <<>> /\ Kept' \in {Kept, <<>>}
           /\ \E x \in Event : /\ Unsent' \in Seq(Event) /\ Unsent = <<x>> \o Unsent'
                               /\ outQ' = outQ \o <<x>>
<1>1. /\ UNCHANGED <<produced, buffer, kafka, orphans, evicted, faults, srv, open>>
      /\ open /\ drain.pc = "send" /\ Advance
      /\ outQ' = Append(outQ, drain.batch[drain.done + 1])
  BY DEF SendOne
<1>2. PICK x \in Event :
         /\ x = drain.batch[drain.done + 1]
         /\ Unsent' \in Seq(Event) /\ Unsent = <<x>> \o Unsent'
         /\ Kept' \in IF drain.pc = "send" THEN {Kept, <<>>} ELSE {Unsent'}
  BY <1>1, AdvanceStep
<1>3. outQ' = outQ \o <<x>>
  BY <1>1, <1>2, AppendIsConcat, PartTypes
<1>4. Again = <<>> /\ Again' = <<>>
  BY <1>1 DEF Again
<1> QED
  BY <1>1, <1>2, <1>3, <1>4

\* A failed send: the events already sent are to be handled again.
LEMMA SendFailsStep ==
    ASSUME Shape, SendFails
    PROVE  /\ UNCHANGED <<produced, buffer, outQ, kafka, orphans, evicted, faults, srv, open>>
           /\ Unsent' \in Seq(Event) /\ Unsent' = Again \o Unsent
           /\ Again' = <<>> /\ Kept' = Kept
<1>1. /\ UNCHANGED <<produced, buffer, outQ, kafka, orphans, evicted, faults, srv, open>>
      /\ ~open /\ drain.pc = "send"
      /\ drain' = [drain EXCEPT !.pc = "requeue", !.done = 0]
  BY DEF SendFails, streamVars
<1>2. /\ drain \in [pc : {"idle", "lock", "send", "requeue"},
                    batch : Seq(Event), done : Nat]
  BY DEF Shape, IInv, AgentOK
<1>3. drain.pc' = "requeue" /\ drain.batch' = drain.batch /\ drain.done' = 0
  BY <1>1, <1>2
<1>4. Unsent' = drain.batch
  <2>1. Unsent' = SubSeq(drain.batch', drain.done' + 1, Len(drain.batch')) /\ 0 + 1 = 1
    BY DEF Unsent
  <2>2. Unsent' = SubSeq(drain.batch, 1, Len(drain.batch))
    BY <1>3, <2>1
  <2> QED
    BY <2>2, SubSeqFull, PartTypes
<1>5. Again = Sent /\ Again' = <<>> /\ Kept = drain.batch /\ Kept' = Unsent'
  BY <1>1, <1>3 DEF Again, Kept
<1> QED
  BY <1>1, <1>4, <1>5, PartTypes

\* One event of a batch that is re-queued.
LEMMA RequeueStep ==
    ASSUME Shape, RequeueOne
    PROVE  /\ UNCHANGED <<produced, outQ, kafka, orphans, srv, open>>
           /\ drain.pc = "requeue" /\ Again = <<>> /\ Again' = <<>>
           /\ Kept = Unsent /\ Kept' = Unsent'
           /\ \E e \in Event :
                 /\ Unsent' \in Seq(Event) /\ Unsent = <<e>> \o Unsent'
                 /\ \/ /\ SameFaults
                       /\ \E x \in Seq(Event) : /\ buffer' \in Seq(Event)
                                                /\ buffer \o <<e>> = x \o buffer'
                                                /\ evicted' = evicted + Len(x)
                    \/ UNCHANGED <<buffer, evicted>> /\ OneMore("store")
<1>1. AgentOK /\ CountersOK
  BY DEF Shape, IInv
<1>2. /\ UNCHANGED <<produced, outQ, kafka, orphans, srv, open>>
      /\ drain.pc = "requeue" /\ Advance
  BY DEF RequeueOne, streamVars
<1>3. PICK e \in Event :
         /\ e = drain.batch[drain.done + 1]
         /\ Unsent' \in Seq(Event) /\ Unsent = <<e>> \o Unsent'
         /\ Kept' \in IF drain.pc = "send" THEN {Kept, <<>>} ELSE {Unsent'}
         /\ drain.pc = "requeue" => Kept = Unsent
         /\ drain.pc = "requeue" => drain.pc' # "send"
  BY <1>2, AdvanceStep
<1>4. Again = <<>> /\ Again' = <<>>
  BY <1>2, <1>3 DEF Again
<1>5. Kept = Unsent /\ Kept' = Unsent'
  BY <1>2, <1>3
<1>6. CASE Push(drain.batch[drain.done + 1]) /\ UNCHANGED faults
  <2>1. Push(e)
    BY <1>3, <1>6
  <2>2. \E x \in Seq(Event) : /\ buffer' \in Seq(Event)
                              /\ buffer \o <<e>> = x \o buffer'
                              /\ evicted' = evicted + Len(x)
    BY <1>1, <2>1, PushStep DEF AgentOK, CountersOK
  <2>3. SameFaults
    BY <1>6 DEF SameFaults
  <2> QED
    BY <1>2, <1>3, <1>4, <1>5, <2>2, <2>3
<1>7. CASE Count("store", MaxStoreErrors) /\ UNCHANGED <<buffer, evicted>>
  <2>1. OneMore("store")
    BY <1>1, <1>7, CountStep DEF OneMore, CountersOK, FaultKind, Counted
  <2> QED
    BY <1>2, <1>3, <1>4, <1>5, <1>7, <2>1
<1> QED
  BY <1>6, <1>7 DEF RequeueOne

\* The server takes an event.
LEMMA ReceiveStep ==
    ASSUME Shape, ServerReceive
    PROVE  /\ UNCHANGED <<produced, buffer, drain, open, kafka, orphans, evicted, faults>>
           /\ Hand = <<>> /\ Hand' \in Seq(Event) /\ outQ' \in Seq(Event)
           /\ outQ = Hand' \o outQ'
<1>1. /\ UNCHANGED <<produced, buffer, drain, open, kafka, orphans, evicted, faults>>
      /\ srv.pc = "idle" /\ outQ # <<>> /\ outQ' = Tail(outQ)
      /\ srv' = [pc |-> "publish", ev |-> Head(outQ)]
  BY DEF ServerReceive, agentVars
<1>2. Hand = <<>>
  BY <1>1 DEF Hand
<1>3. Hand' = <<Head(outQ)>>
  <2>1. srv'.pc = "publish" /\ srv'.ev = Head(outQ)
    BY <1>1
  <2> QED
    BY <2>1 DEF Hand
<1> QED
  BY <1>1, <1>2, <1>3, HeadFirst, PartTypes

\* The server publishes it ...
LEMMA IngestStep ==
    ASSUME Shape, Ingest
    PROVE  /\ UNCHANGED <<produced, buffer, drain, open, outQ, orphans, evicted, faults>>
           /\ Hand' = <<>> /\ kafka' = kafka \o Hand
<1>1. /\ UNCHANGED <<produced, buffer, drain, open, outQ, orphans, evicted, faults>>
      /\ srv.pc = "publish" /\ kafka' = Append(kafka, srv.ev)
      /\ srv' = [srv EXCEPT !.pc = "ack"]
  BY DEF Ingest, agentVars
<1>2. srv.ev \in Event /\ srv \in [pc : {"idle", "publish", "ack"}, ev : Event \cup {NoEvent}]
  BY <1>1 DEF Shape, IInv, ServerOK, InHand
<1>3. Hand = <<srv.ev>>
  BY <1>1 DEF Hand
<1>4. Hand' = <<>>
  <2>1. srv'.pc = "ack"
    BY <1>1, <1>2
  <2> QED
    BY <2>1 DEF Hand
<1> QED
  BY <1>1, <1>2, <1>3, <1>4, AppendIsConcat, PartTypes

\* ... or is refused.
LEMMA IngestFailsStep ==
    ASSUME Shape, IngestFails
    PROVE  /\ UNCHANGED <<produced, buffer, drain, open, outQ, orphans, evicted, kafka>>
           /\ OneMore("ingest") /\ Hand' = <<>>
<1>1. /\ UNCHANGED <<produced, buffer, drain, open, outQ, orphans, evicted, kafka>>
      /\ srv' = NoTask /\ Count("ingest", MaxIngestErrors)
  BY DEF IngestFails, agentVars
<1>2. Hand' = <<>>
  BY <1>1 DEF Hand, NoTask
<1>3. OneMore("ingest")
  BY <1>1, CountStep DEF Shape, IInv, OneMore, CountersOK, FaultKind, Counted
<1> QED
  BY <1>1, <1>2, <1>3

\* A task of a dead stream publishes an event or is refused.
LEMMA OrphanStep ==
    ASSUME Shape, OrphanIngest \/ OrphanIngestFails
    PROVE  /\ UNCHANGED <<produced, buffer, drain, open, outQ, srv, evicted>>
           /\ \E o \in orphans :
                 /\ OrphanMoves(o) /\ Head(o.rest) \in Event
                 /\ \/ kafka' = kafka \o <<Head(o.rest)>> /\ UNCHANGED faults
                    \/ UNCHANGED kafka /\ OneMore("ingest")
<1>1. UNCHANGED <<produced, buffer, drain, open, outQ, srv, evicted>>
  BY DEF OrphanIngest, OrphanIngestFails, agentVars
<1>2. PICK o \in orphans :
         /\ OrphanMoves(o)
         /\ \/ kafka' = Append(kafka, Head(o.rest)) /\ UNCHANGED faults
            \/ UNCHANGED kafka /\ Count("ingest", MaxIngestErrors)
  BY DEF OrphanIngest, OrphanIngestFails
<1>3. Head(o.rest) \in Event
  BY <1>2, OrphanOK DEF Shape, IInv, ServerOK
<1>4. kafka' = Append(kafka, Head(o.rest)) => kafka' = kafka \o <<Head(o.rest)>>
  BY <1>3, AppendIsConcat, PartTypes
<1>5. Count("ingest", MaxIngestErrors) => OneMore("ingest")
  BY CountStep DEF Shape, IInv, OneMore, CountersOK, FaultKind, Counted
<1> QED
  BY <1>1, <1>2, <1>3, <1>4, <1>5

\* The end of a stream.
LEMMA BreakStep ==
    ASSUME Shape, Disconnect \/ ServerDies \/ AgentDies
    PROVE  /\ UNCHANGED <<produced, buffer, kafka, evicted>>
           /\ outQ' = <<>> /\ Hand' = <<>>
           /\ \/ UNCHANGED drain /\ open /\ ~open' /\ OneMore("disconnect")
              \/ drain' = Idle /\ OneMore("crash")
           /\ \E a, b \in Seq(Event) :
                 /\ outQ = a \o b
                 /\ Len(Hand \o a) <= OutCap + 1
                 /\ \/ orphans' = orphans
                    \/ orphans' = orphans \cup {[n |-> Breaks, rest |-> Hand \o a]}
                    \/ orphans' = {}
<1>1. outQ' = <<>> /\ open' = FALSE /\ srv' = NoTask
  BY DEF Disconnect, ServerDies, AgentDies, StreamEnds
<1>2. Hand' = <<>>
  BY <1>1 DEF Hand, NoTask
<1>3. UNCHANGED <<produced, buffer, kafka, evicted>>
  BY DEF Disconnect, ServerDies, AgentDies, agentVars
<1>4. \/ UNCHANGED drain /\ open /\ ~open' /\ OneMore("disconnect")
      \/ drain' = Idle /\ OneMore("crash")
  <2>1. CASE Disconnect \/ ServerDies
    <3>1. UNCHANGED drain /\ open /\ Count("disconnect", MaxDisconnects)
      BY <2>1 DEF Disconnect, ServerDies, agentVars
    <3>2. OneMore("disconnect")
      BY <3>1, CountStep DEF Shape, IInv, OneMore, CountersOK, FaultKind, Counted
    <3> QED
      BY <1>1, <3>1, <3>2
  <2>2. CASE AgentDies
    <3>1. drain' = Idle /\ Count("crash", MaxCrashes)
      BY <2>2 DEF AgentDies
    <3>2. OneMore("crash")
      BY <3>1, CountStep DEF Shape, IInv, OneMore, CountersOK, FaultKind, Counted
    <3> QED
      BY <3>1, <3>2
  <2> QED
    BY <2>1, <2>2
<1>5. \E a, b \in Seq(Event) :
         /\ outQ = a \o b
         /\ Len(Hand \o a) <= OutCap + 1
         /\ \/ orphans' = orphans
            \/ orphans' = orphans \cup {[n |-> Breaks, rest |-> Hand \o a]}
            \/ orphans' = {}
  <2>1. CASE StreamEnds
    BY <2>1, EndsStep
  <2>2. CASE ServerDies
    <3>1. orphans' = {}
      BY <2>2 DEF ServerDies
    <3>2. Hand \in Seq(Event) /\ outQ \in Seq(Event) /\ <<>> \in Seq(Event)
      BY PartTypes
    <3>3. outQ = <<>> \o outQ /\ Hand \o <<>> = Hand
      BY <3>2, ConcatEmptySeq
    <3>4. Len(Hand) <= OutCap + 1
      BY HandType, CapacityAssumption DEF Shape, IInv
    <3> QED
      BY <3>1, <3>2, <3>3, <3>4
  <2> QED
    BY <2>1, <2>2 DEF Disconnect, AgentDies
<1> QED
  BY <1>1, <1>2, <1>3, <1>4, <1>5

\* The other steps move no event.
Quiet ==
    \/ DrainLock \/ PollCommand \/ PollEmpty \/ PollClosed \/ Reconnect
    \/ ReconnectFails \/ ReadCommand \/ HeartbeatLock \/ HeartbeatDone
    \/ SendAck \/ AgentStarts \/ TokenExpires \/ UNCHANGED vars

\* They keep everything the properties below are about.
LEMMA QuietStep ==
    ASSUME Shape, Quiet
    PROVE  /\ UNCHANGED <<produced, buffer, outQ, kafka, orphans, evicted>>
           /\ Unsent' = Unsent /\ Hand' = Hand /\ Kept' = Kept
           /\ Again' \in {Again, <<>>} /\ SameFaults
<1>1. UNCHANGED <<produced, buffer, kafka, orphans, evicted>>
  BY DEF Quiet, DrainLock, PollCommand, PollEmpty, PollClosed, Reconnect, ReconnectFails,
         ReadCommand, HeartbeatLock, HeartbeatDone, SendAck, AgentStarts, TokenExpires,
         vars, agentVars, streamVars
<1>2. SameFaults
  <2>1. CASE TokenExpires
    BY <2>1, CountStep
       DEF TokenExpires, Shape, IInv, SameFaults, CountersOK, FaultKind, Counted
  <2>2. CASE UNCHANGED faults
    BY <2>2 DEF SameFaults
  <2> QED
    BY <2>1, <2>2
       DEF Quiet, DrainLock, PollCommand, PollEmpty, PollClosed, Reconnect, ReconnectFails,
           ReadCommand, HeartbeatLock, HeartbeatDone, SendAck, AgentStarts, vars
<1>3. outQ' = outQ /\ Hand' = Hand
  <2>1. CASE Reconnect
    <3>1. cmd = "reconnect" /\ outQ' = <<>> /\ srv' = NoTask
      BY <2>1 DEF Reconnect
    <3>2. outQ = <<>> /\ srv.pc = "idle"
      BY <3>1 DEF Shape, StreamShape
    <3> QED
      BY <3>1, <3>2 DEF Hand, NoTask
  <2>2. CASE SendAck
    <3>1. outQ' = outQ /\ srv.pc = "ack" /\ srv' = NoTask
      BY <2>2 DEF SendAck
    <3> QED
      BY <3>1 DEF Hand, NoTask
  <2>3. CASE UNCHANGED <<outQ, srv>>
    BY <2>3 DEF Hand
  <2> QED
    BY <2>1, <2>2, <2>3
       DEF Quiet, DrainLock, PollCommand, PollEmpty, PollClosed, ReconnectFails,
           ReadCommand, HeartbeatLock, HeartbeatDone, AgentStarts, TokenExpires,
           vars, agentVars, streamVars
<1>4. Unsent' = Unsent /\ Kept' = Kept /\ Again' \in {Again, <<>>}
  <2>1. CASE DrainLock
    <3>1. drain.pc = "lock" /\ drain' = [drain EXCEPT !.pc = "send"] /\ open' = open
      BY <2>1 DEF DrainLock, streamVars
    <3>2. drain.done = 0 /\ drain \in [pc : {"idle", "lock", "send", "requeue"},
                                       batch : Seq(Event), done : Nat]
      BY <3>1 DEF Shape, DrainShape, IInv, AgentOK
    <3>3. drain.pc' = "send" /\ drain.batch' = drain.batch /\ drain.done' = drain.done
      BY <3>1, <3>2
    <3>4. Unsent' = Unsent /\ Kept' = Kept
      BY <3>1, <3>3 DEF Unsent, Kept
    <3>5. SubSeq(drain.batch', 1, 0) = <<>>
      BY SubSeqEmpty
    <3>6. Again' \in {Again, <<>>}
      <4>1. Sent' = <<>>
        BY <3>2, <3>3, <3>5 DEF Sent
      <4> QED
        BY <4>1 DEF Again
    <3> QED
      BY <3>4, <3>6
  <2>2. CASE UNCHANGED drain /\ (open' = open \/ open')
    <3>1. Unsent' = Unsent /\ Kept' = Kept /\ Sent' = Sent
      BY <2>2 DEF Unsent, Kept, Sent
    <3> QED
      BY <2>2, <3>1 DEF Again
  <2> QED
    BY <2>1, <2>2
       DEF Quiet, PollCommand, PollEmpty, PollClosed, Reconnect, ReconnectFails,
           ReadCommand, HeartbeatLock, HeartbeatDone, SendAck, AgentStarts, TokenExpires,
           vars, agentVars, streamVars
<1> QED
  BY <1>1, <1>2, <1>3, <1>4

\* Every step is one of these.
LEMMA Steps ==
    ASSUME [Next]_vars
    PROVE  \/ Quiet \/ Collect \/ DrainTick \/ SendOne \/ SendFails \/ RequeueOne
           \/ ServerReceive \/ Ingest \/ IngestFails \/ OrphanIngest \/ OrphanIngestFails
           \/ Disconnect \/ ServerDies \/ AgentDies \/ ProducerNext
BY DEF Next, AgentNext, ServerNext, FaultNext, Quiet

\* The producer moves no event either; a request without an answer is counted,
\* and one that is carried out late adds its event to the topic.
LEMMA ProducerStep ==
    ASSUME Shape, ProducerNext
    PROVE  /\ UNCHANGED <<produced, buffer, drain, open, outQ, srv, orphans, evicted>>
           /\ \/ /\ UNCHANGED kafka /\ OneMore("unanswered")
                 /\ \E u : unanswered' = unanswered \cup {u} /\ u.ev \in Event
                           /\ \/ srv.pc = "publish" /\ u.ev = srv.ev
                              \/ \E o \in orphans : u.ev = Head(o.rest)
              \/ \E u \in unanswered :
                    /\ u.ev \in Event /\ UNCHANGED faults
                    /\ unanswered' = unanswered \ {u}
                    /\ \/ kafka' = kafka \o <<u.ev>>
                       \/ UNCHANGED kafka
<1>1. UNCHANGED <<produced, buffer, drain, open, outQ, srv, orphans, evicted>>
  BY DEF ProducerNext, ProduceUnanswered, OrphanUnanswered, LateWrite, RequestLost, Unanswer,
         agentVars, streamVars
<1>2. CountersOK /\ ServerOK /\ RequestsOK /\ kafka \in Seq(Event)
  BY DEF Shape, IInv, ChannelsOK
<1>3. ASSUME NEW e \in Event, Unanswer(e)
      PROVE  /\ UNCHANGED kafka /\ OneMore("unanswered")
             /\ \E u : unanswered' = unanswered \cup {u} /\ u.ev = e
  <2>1. OneMore("unanswered")
    BY <1>2, <1>3, CountStep DEF Unanswer, OneMore, CountersOK, FaultKind, Counted
  <2> DEFINE u == [n |-> faults["unanswered"], ev |-> e]
  <2>2. u.ev = e /\ unanswered' = unanswered \cup {u} /\ UNCHANGED kafka
    BY <1>3 DEF Unanswer
  <2> HIDE DEF u
  <2> QED
    BY <2>1, <2>2
<1>4. CASE ProduceUnanswered
  <2>1. srv.pc = "publish" /\ srv.ev \in Event /\ Unanswer(srv.ev)
    BY <1>2, <1>4 DEF ProduceUnanswered, ServerOK, InHand
  <2> QED
    BY <1>1, <1>3, <2>1
<1>5. CASE OrphanUnanswered
  <2>1. PICK o \in orphans : Unanswer(Head(o.rest))
    BY <1>5 DEF OrphanUnanswered
  <2>2. Head(o.rest) \in Event
    BY <1>2, <2>1, HeadTailProperties DEF ServerOK, Orphan
  <2> QED
    BY <1>1, <1>3, <2>1, <2>2
<1>6. CASE LateWrite \/ RequestLost
  <2>1. PICK u \in unanswered :
           /\ unanswered' = unanswered \ {u} /\ UNCHANGED faults
           /\ kafka' = Append(kafka, u.ev) \/ UNCHANGED kafka
    BY <1>6 DEF LateWrite, RequestLost
  <2>2. u.ev \in Event
    BY <1>2, <2>1 DEF RequestsOK
  <2>3. kafka' = Append(kafka, u.ev) => kafka' = kafka \o <<u.ev>>
    BY <1>2, <2>2, AppendIsConcat
  <2> QED
    BY <1>1, <2>1, <2>2, <2>3
<1> QED
  BY <1>4, <1>5, <1>6 DEF ProducerNext

-----------------------------------------------------------------------------
(* Order *)

\* Five sequences, each increasing and each before the next, of numbers up to p.
Ordered(k, h, o, u, b, p) ==
    /\ Increasing(k) /\ Increasing(h) /\ Increasing(o) /\ Increasing(u) /\ Increasing(b)
    /\ Before(Elements(k), Elements(h) \cup Elements(o) \cup Elements(u) \cup Elements(b))
    /\ Before(Elements(h), Elements(o) \cup Elements(u) \cup Elements(b))
    /\ Before(Elements(o), Elements(u) \cup Elements(b))
    /\ Before(Elements(u), Elements(b))
    /\ Elements(k) \cup Elements(h) \cup Elements(o) \cup Elements(u) \cup Elements(b)
         \subseteq 1..p

\* The faults that disturb the order.
Mishaps == Breaks + faults["unanswered"]

\* As long as there was none, the events on their way are in order, from
\* Kafka back to the buffer.
InOrder == Mishaps = 0 => Ordered(kafka, Hand, outQ, Unsent, buffer, produced)

\* Events are numbers.
LEMMA EventsAreNumbers ==
    ASSUME NEW s \in Seq(Event)
    PROVE  s \in Seq(Nat)
<1>1. Event \subseteq Nat
  BY FaultAssumption DEF Event
<1> QED
  BY <1>1, SeqMonotonic

\* The parts of an increasing concatenation.
LEMMA SplitIncreasing ==
    ASSUME NEW s \in Seq(Event), NEW t \in Seq(Event)
    PROVE  /\ Elements(s \o t) = Elements(s) \cup Elements(t)
           /\ Increasing(s \o t) <=>
                 Increasing(s) /\ Increasing(t) /\ Before(Elements(s), Elements(t))
BY EventsAreNumbers, ConcatIncreasing, ConcatElements

\* Nothing is in an empty sequence.
LEMMA NoElements ==
    /\ <<>> \in Seq(Event) /\ Len(<<>>) = 0 /\ Elements(<<>>) = {} /\ Increasing(<<>>)
<1>1. <<>> \in Seq(Event) /\ Len(<<>>) = 0 /\ DOMAIN <<>> = {}
  OBVIOUS
<1> QED
  BY <1>1 DEF Elements, Increasing

\* One event more at the end, and one at the front.
LEMMA OneMoreEvent ==
    ASSUME NEW s \in Seq(Event), NEW x \in Event
    PROVE  /\ <<x>> \in Seq(Event) /\ s \o <<x>> \in Seq(Event)
           /\ Elements(s \o <<x>>) = Elements(s) \cup {x}
           /\ Elements(<<x>> \o s) = {x} \cup Elements(s)
           /\ Increasing(s) /\ Before(Elements(s), {x}) => Increasing(s \o <<x>>)
           /\ Increasing(<<x>> \o s) => Increasing(s) /\ Before({x}, Elements(s))
<1> DEFINE t == <<x>>
<1>1. t \in Seq(Event) /\ Elements(t) = {x} /\ Increasing(t)
  BY ShortSeqs
<1> HIDE DEF t
<1>2. s \o t \in Seq(Event)
  BY <1>1, ConcatProperties
<1>3. /\ Elements(s \o t) = Elements(s) \cup {x}
      /\ Elements(t \o s) = {x} \cup Elements(s)
      /\ Increasing(s) /\ Before(Elements(s), {x}) => Increasing(s \o t)
      /\ Increasing(t \o s) => Increasing(s) /\ Before({x}, Elements(s))
  BY <1>1, SplitIncreasing
<1> QED
  BY <1>1, <1>2, <1>3 DEF t

\* A set of one element.
LEMMA OneElement ==
    ASSUME NEW x
    PROVE  IsFiniteSet({x}) /\ Cardinality({x}) <= 1
<1>1. IsFiniteSet({x}) /\ Cardinality({x}) = 1
  BY FS_Singleton, Zenon
<1> QED
  BY <1>1

\* Initially there is nothing to be in order.
LEMMA InitOrder == Init => InOrder
<1> SUFFICES ASSUME Init PROVE InOrder
  OBVIOUS
<1>1. kafka = <<>> /\ outQ = <<>> /\ buffer = <<>>
  BY DEF Init
<1>2. Hand = <<>>
  BY DEF Init, Hand, NoTask
<1>3. Unsent = <<>>
  BY InitShape, PartTypes DEF Init, Idle
<1> QED
  BY <1>1, <1>2, <1>3, NoElements DEF InOrder, Ordered, Before

\* The order is kept by every step that is no break: an event moves on from
\* the front of one sequence to the end of the next, or is dropped.
LEMMA OrderStep ==
    ASSUME Shape, InOrder, [Next]_vars
    PROVE  InOrder'
<1>0. /\ buffer \in Seq(Event) /\ Unsent \in Seq(Event) /\ outQ \in Seq(Event)
      /\ Hand \in Seq(Event) /\ kafka \in Seq(Event) /\ Again \in Seq(Event)
      /\ produced \in Nat
  BY PartTypes
<1>c. /\ faults["disconnect"] \in Nat /\ faults["crash"] \in Nat /\ Calm
      /\ faults["unanswered"] \in Nat
  BY DEF Shape, IInv, CountersOK, FaultKind
<1>1. CASE Quiet
  <2>1. /\ UNCHANGED <<produced, buffer, outQ, kafka>>
        /\ Unsent' = Unsent /\ Hand' = Hand /\ SameFaults
    BY <1>1, QuietStep
  <2>2. Mishaps' = Mishaps
    BY <2>1 DEF SameFaults, Counted, Breaks, Mishaps
  <2> QED
    BY <2>1, <2>2 DEF InOrder
<1>2. CASE Collect
  <2>1. /\ UNCHANGED <<outQ, kafka, srv>>
        /\ Unsent' = Unsent /\ produced' = produced + 1 /\ produced + 1 \in Event
        /\ \/ /\ SameFaults
              /\ \E x \in Seq(Event) : /\ buffer' \in Seq(Event)
                                       /\ buffer \o <<produced + 1>> = x \o buffer'
                                       /\ evicted' = evicted + Len(x)
           \/ UNCHANGED <<buffer, evicted>> /\ OneMore("store")
    BY <1>2, CollectStep
  <2>2. Mishaps' = Mishaps /\ Hand' = Hand
    BY <2>1 DEF SameFaults, OneMore, Counted, Breaks, Mishaps, Hand
  <2>3. SUFFICES ASSUME Mishaps = 0, Ordered(kafka, Hand, outQ, Unsent, buffer, produced)
                 PROVE  Ordered(kafka, Hand, outQ, Unsent, buffer', produced + 1)
    BY <2>1, <2>2 DEF InOrder
  <2>4. 1..produced \subseteq 1..(produced + 1)
    BY <1>0
  <2>5. CASE UNCHANGED buffer
    BY <2>3, <2>4, <2>5 DEF Ordered
  <2>6. CASE \E x \in Seq(Event) : /\ buffer' \in Seq(Event)
                                   /\ buffer \o <<produced + 1>> = x \o buffer'
    <3>1. PICK x \in Seq(Event) : buffer' \in Seq(Event)
                                  /\ buffer \o <<produced + 1>> = x \o buffer'
      BY <2>6
    <3>3. /\ Elements(buffer \o <<produced + 1>>) = Elements(buffer) \cup {produced + 1}
          /\ Before(Elements(buffer), {produced + 1})
             => Increasing(buffer \o <<produced + 1>>)
      BY <1>0, <2>1, <2>3, OneMoreEvent DEF Ordered
    <3>4. /\ Elements(x \o buffer') = Elements(x) \cup Elements(buffer')
          /\ Increasing(x \o buffer') => Increasing(buffer')
      BY <3>1, SplitIncreasing
    <3>5. Before(1..produced, {produced + 1})
      BY <1>0 DEF Before
    <3>6. /\ Elements(buffer) \subseteq 1..produced
          /\ Elements(buffer') \subseteq Elements(buffer) \cup {produced + 1}
      BY <2>3, <3>1, <3>3, <3>4 DEF Ordered
    <3>7. Increasing(buffer')
      <4>1. Before(Elements(buffer), {produced + 1})
        BY <3>5, <3>6 DEF Before
      <4> QED
        BY <3>1, <3>3, <3>4, <4>1
    <3>8. produced + 1 \in 1..(produced + 1)
      BY <1>0
    <3> QED
      BY <2>3, <2>4, <3>5, <3>6, <3>7, <3>8 DEF Ordered, Before
  <2> QED
    BY <2>1, <2>5, <2>6
<1>3. CASE DrainTick
  <2>1. /\ UNCHANGED <<produced, outQ, kafka, srv, faults>>
        /\ Unsent = <<>> /\ Unsent' \in Seq(Event) /\ buffer' \in Seq(Event)
        /\ buffer = Unsent' \o buffer'
    BY <1>3, TickStep
  <2>2. Mishaps' = Mishaps /\ Hand' = Hand
    BY <2>1 DEF Breaks, Mishaps, Hand
  <2>3. /\ Elements(buffer) = Elements(Unsent') \cup Elements(buffer')
        /\ Increasing(buffer) => /\ Increasing(Unsent') /\ Increasing(buffer')
                                 /\ Before(Elements(Unsent'), Elements(buffer'))
    BY <2>1, SplitIncreasing
  <2>4. SUFFICES ASSUME Mishaps = 0, Ordered(kafka, Hand, outQ, Unsent, buffer, produced)
                 PROVE  Ordered(kafka, Hand, outQ, Unsent', buffer', produced)
    BY <2>1, <2>2 DEF InOrder
  <2> QED
    BY <2>1, <2>3, <2>4, NoElements DEF Ordered, Before
<1>4. CASE SendOne
  <2>1. /\ UNCHANGED <<produced, buffer, kafka, srv, faults>>
        /\ \E x \in Event : /\ Unsent' \in Seq(Event) /\ Unsent = <<x>> \o Unsent'
                            /\ outQ' = outQ \o <<x>>
    BY <1>4, SendStep
  <2>2. PICK x \in Event : /\ Unsent' \in Seq(Event) /\ Unsent = <<x>> \o Unsent'
                           /\ outQ' = outQ \o <<x>>
    BY <2>1
  <2>3. Mishaps' = Mishaps /\ Hand' = Hand
    BY <2>1 DEF Breaks, Mishaps, Hand
  <2>5. /\ Elements(Unsent) = {x} \cup Elements(Unsent')
        /\ Increasing(Unsent) => Increasing(Unsent') /\ Before({x}, Elements(Unsent'))
    BY <2>2, OneMoreEvent
  <2>6. /\ Elements(outQ') = Elements(outQ) \cup {x}
        /\ Increasing(outQ) /\ Before(Elements(outQ), {x}) => Increasing(outQ')
    BY <1>0, <2>2, OneMoreEvent
  <2>7. SUFFICES ASSUME Mishaps = 0, Ordered(kafka, Hand, outQ, Unsent, buffer, produced)
                 PROVE  Ordered(kafka, Hand, outQ', Unsent', buffer, produced)
    BY <2>1, <2>3 DEF InOrder
  <2>8. Increasing(outQ') /\ Increasing(Unsent')
    BY <2>5, <2>6, <2>7 DEF Ordered, Before
  <2> QED
    BY <2>5, <2>6, <2>7, <2>8 DEF Ordered, Before
<1>5. CASE SendFails \/ RequeueOne
  <2>1. ~open \/ drain.pc = "requeue"
    BY <1>5 DEF SendFails, RequeueOne
  <2>2. Mishaps # 0
    BY <1>c, <2>1 DEF Calm, Breaks, Mishaps
  <2>3. Mishaps' = Mishaps
    <3>1. CASE SendFails
      BY <3>1, SendFailsStep DEF Breaks, Mishaps
    <3>2. CASE RequeueOne
      <4>1. SameFaults \/ OneMore("store")
        BY <3>2, RequeueStep
      <4> QED
        BY <4>1 DEF SameFaults, OneMore, Counted, Breaks, Mishaps
    <3> QED
      BY <1>5, <3>1, <3>2
  <2> QED
    BY <2>2, <2>3 DEF InOrder
<1>6. CASE ServerReceive
  <2>1. /\ UNCHANGED <<produced, buffer, drain, kafka, faults>>
        /\ Hand = <<>> /\ Hand' \in Seq(Event) /\ outQ' \in Seq(Event)
        /\ outQ = Hand' \o outQ'
    BY <1>6, ReceiveStep
  <2>2. Mishaps' = Mishaps /\ Unsent' = Unsent
    BY <2>1 DEF Breaks, Mishaps, Unsent
  <2>3. /\ Elements(outQ) = Elements(Hand') \cup Elements(outQ')
        /\ Increasing(outQ) => /\ Increasing(Hand') /\ Increasing(outQ')
                               /\ Before(Elements(Hand'), Elements(outQ'))
    BY <2>1, SplitIncreasing
  <2>4. SUFFICES ASSUME Mishaps = 0, Ordered(kafka, Hand, outQ, Unsent, buffer, produced)
                 PROVE  Ordered(kafka, Hand', outQ', Unsent, buffer, produced)
    BY <2>1, <2>2 DEF InOrder
  <2> QED
    BY <2>3, <2>4 DEF Ordered, Before
<1>7. CASE Ingest
  <2>1. /\ UNCHANGED <<produced, buffer, drain, outQ, faults>>
        /\ Hand' = <<>> /\ kafka' = kafka \o Hand
    BY <1>7, IngestStep
  <2>2. Mishaps' = Mishaps /\ Unsent' = Unsent
    BY <2>1 DEF Breaks, Mishaps, Unsent
  <2>3. /\ Elements(kafka') = Elements(kafka) \cup Elements(Hand)
        /\ Increasing(kafka) /\ Increasing(Hand) /\ Before(Elements(kafka), Elements(Hand))
           => Increasing(kafka')
    BY <1>0, <2>1, SplitIncreasing
  <2>4. SUFFICES ASSUME Mishaps = 0, Ordered(kafka, Hand, outQ, Unsent, buffer, produced)
                 PROVE  Ordered(kafka', Hand', outQ, Unsent, buffer, produced)
    BY <2>1, <2>2 DEF InOrder
  <2>5. Increasing(kafka') /\ Increasing(Hand') /\ Elements(Hand') = {}
    BY <2>1, <2>3, <2>4, NoElements DEF Ordered, Before
  <2> QED
    BY <2>3, <2>4, <2>5 DEF Ordered, Before
<1>8. CASE IngestFails
  <2>1. /\ UNCHANGED <<produced, buffer, drain, outQ, kafka>>
        /\ OneMore("ingest") /\ Hand' = <<>>
    BY <1>8, IngestFailsStep
  <2>2. Mishaps' = Mishaps /\ Unsent' = Unsent
    BY <2>1 DEF OneMore, Counted, Breaks, Mishaps, Unsent
  <2> QED
    BY <2>1, <2>2, NoElements DEF InOrder, Ordered, Before
<1>9. CASE OrphanIngest \/ OrphanIngestFails
  <2>1. orphans # {} /\ Mishaps' = Mishaps
    <3>1. PICK o \in orphans : UNCHANGED faults \/ OneMore("ingest")
      BY <1>9, OrphanStep
    <3>2. Mishaps' = Mishaps
      BY <3>1 DEF OneMore, Counted, Breaks, Mishaps
    <3> QED
      BY <3>1, <3>2
  <2> QED
    BY <1>c, <2>1 DEF InOrder, Calm, Breaks, Mishaps
<1>10. CASE Disconnect \/ ServerDies \/ AgentDies
  <2>1. OneMore("disconnect") \/ OneMore("crash")
    BY <1>10, BreakStep
  <2>2. Mishaps' # 0
    BY <1>c, <2>1 DEF OneMore, Counted, Breaks, Mishaps
  <2> QED
    BY <2>2 DEF InOrder
<1>11. CASE ProducerNext
  <2>1. \/ OneMore("unanswered")
        \/ UNCHANGED faults /\ unanswered # {}
    BY <1>11, ProducerStep
  <2>2. unanswered # {} => faults["unanswered"] # 0
    <3>1. Cardinality(unanswered) = 0 <=> unanswered = {}
      BY FS_EmptySet DEF Shape, RequestsOK
    <3>2. Cardinality(unanswered) \in Nat /\ Cardinality(unanswered) <= faults["unanswered"]
      BY FS_CardinalityType DEF Shape, RequestsOK
    <3> QED
      BY <1>c, <3>1, <3>2
  <2>3. Mishaps' # 0
    BY <1>c, <2>1, <2>2 DEF OneMore, Counted, Breaks, Mishaps
  <2> QED
    BY <2>3 DEF InOrder
<1> QED
  BY Steps, <1>1, <1>2, <1>3, <1>4, <1>5, <1>6, <1>7, <1>8, <1>9, <1>10, <1>11

\* As long as no stream broke and every request was answered, Kafka has the
\* events once each and in the order in which they were collected.
THEOREM OrderKept == Spec => []PublishedInOrder
<1>1. InOrder => PublishedInOrder
  BY DEF InOrder, Ordered, PublishedInOrder, Increasing, Breaks, Mishaps
<1>2. Shape /\ InOrder /\ [Next]_vars => InOrder'
  BY OrderStep
<1> QED
  BY <1>1, <1>2, InitOrder, ShapeInvariance, PTL DEF Spec

-----------------------------------------------------------------------------
(* Loss *)

\* The events that are in a sequence on the way.
Seen == Elements(buffer) \cup Elements(Unsent) \cup Elements(outQ) \cup Elements(Hand)
        \cup Elements(kafka)

\* The collected events that are in none of them: lost, or with a task of a
\* dead stream, which may still end without publishing them.
AtRisk == (1..produced) \ Seen

\* What the faults so far may have cost.
Budget ==
    (OutCap + 1) * (faults["disconnect"] + faults["crash"])
    + Batch * faults["crash"] + faults["ingest"] + faults["store"] + evicted

RiskBudget == Cardinality(AtRisk) <= Budget

\* One more fault of a kind.
Cost(kind) ==
    CASE kind = "disconnect" -> OutCap + 1
      [] kind = "crash" -> (OutCap + 1) + Batch
      [] kind = "unanswered" -> 0
      [] OTHER -> 1

\* The budget is a number.
LEMMA BudgetType ==
    ASSUME CountersOK
    PROVE  /\ Budget \in Nat
           /\ (OutCap + 1) * (faults["disconnect"] + faults["crash"]) \in Nat
           /\ Batch * faults["crash"] \in Nat
<1>1. /\ faults["disconnect"] \in Nat /\ faults["crash"] \in Nat
      /\ faults["ingest"] \in Nat /\ faults["store"] \in Nat /\ evicted \in Nat
  BY DEF CountersOK, FaultKind
<1>2. OutCap + 1 \in Nat /\ Batch \in Nat
  BY CapacityAssumption
<1>3. \A c, x \in Nat : c * x \in Nat
  OBVIOUS
<1>4. /\ (OutCap + 1) * (faults["disconnect"] + faults["crash"]) \in Nat
      /\ Batch * faults["crash"] \in Nat
  BY <1>1, <1>2, <1>3
<1> QED
  BY <1>1, <1>4 DEF Budget

\* What a step adds to it.
LEMMA BudgetStep ==
    ASSUME CountersOK, NEW n \in Nat, evicted' = evicted + n
    PROVE  /\ Budget \in Nat
           /\ SameFaults => Budget' = Budget + n
           /\ \A kind \in Counted : OneMore(kind) => Budget' = Budget + Cost(kind) + n
<1>1. /\ faults["disconnect"] \in Nat /\ faults["crash"] \in Nat
      /\ faults["ingest"] \in Nat /\ faults["store"] \in Nat /\ evicted \in Nat
  BY DEF CountersOK, FaultKind
<1>2. OutCap + 1 \in Nat /\ Batch \in Nat
  BY CapacityAssumption
<1>3. \A c, x \in Nat : c * x \in Nat /\ c * (x + 1) = c * x + c
  OBVIOUS
<1>4. /\ (OutCap + 1) * (faults["disconnect"] + faults["crash"]) \in Nat
      /\ Batch * faults["crash"] \in Nat
  BY BudgetType
<1>5. Budget \in Nat
  BY BudgetType
<1>6. ASSUME SameFaults PROVE Budget' = Budget + n
  <2>1. /\ faults'["disconnect"] = faults["disconnect"] /\ faults'["crash"] = faults["crash"]
        /\ faults'["ingest"] = faults["ingest"] /\ faults'["store"] = faults["store"]
    BY <1>6 DEF SameFaults, Counted
  <2> QED
    BY <1>1, <1>4, <2>1 DEF Budget
<1>7. ASSUME OneMore("disconnect") PROVE Budget' = Budget + (OutCap + 1) + n
  <2>1. /\ faults'["disconnect"] = faults["disconnect"] + 1
        /\ faults'["crash"] = faults["crash"]
        /\ faults'["ingest"] = faults["ingest"] /\ faults'["store"] = faults["store"]
    BY <1>7 DEF OneMore, Counted
  <2>2. faults'["disconnect"] + faults'["crash"] = (faults["disconnect"] + faults["crash"]) + 1
    BY <1>1, <2>1
  <2>3. (OutCap + 1) * (faults'["disconnect"] + faults'["crash"]) =
           (OutCap + 1) * (faults["disconnect"] + faults["crash"]) + (OutCap + 1)
    BY <1>1, <1>2, <1>3, <2>2
  <2> QED
    BY <1>1, <1>2, <1>4, <2>1, <2>3 DEF Budget
<1>8. ASSUME OneMore("crash") PROVE Budget' = Budget + ((OutCap + 1) + Batch) + n
  <2>1. /\ faults'["disconnect"] = faults["disconnect"]
        /\ faults'["crash"] = faults["crash"] + 1
        /\ faults'["ingest"] = faults["ingest"] /\ faults'["store"] = faults["store"]
    BY <1>8 DEF OneMore, Counted
  <2>2. faults'["disconnect"] + faults'["crash"] = (faults["disconnect"] + faults["crash"]) + 1
    BY <1>1, <2>1
  <2>3. (OutCap + 1) * (faults'["disconnect"] + faults'["crash"]) =
           (OutCap + 1) * (faults["disconnect"] + faults["crash"]) + (OutCap + 1)
    BY <1>1, <1>2, <1>3, <2>2
  <2>4. Batch * faults'["crash"] = Batch * faults["crash"] + Batch
    BY <1>1, <1>2, <1>3, <2>1
  <2> QED
    BY <1>1, <1>2, <1>4, <2>1, <2>3, <2>4 DEF Budget
<1>9. ASSUME OneMore("ingest") \/ OneMore("store") PROVE Budget' = Budget + 1 + n
  <2>1. /\ faults'["disconnect"] = faults["disconnect"]
        /\ faults'["crash"] = faults["crash"]
    BY <1>9 DEF OneMore, Counted
  <2>2. faults'["ingest"] + faults'["store"] = faults["ingest"] + faults["store"] + 1
        /\ faults'["ingest"] \in Nat /\ faults'["store"] \in Nat
    BY <1>1, <1>9 DEF OneMore, Counted
  <2> QED
    BY <1>1, <1>4, <2>1, <2>2 DEF Budget
<1>10. ASSUME OneMore("unanswered") PROVE Budget' = Budget + 0 + n
  <2>1. /\ faults'["disconnect"] = faults["disconnect"] /\ faults'["crash"] = faults["crash"]
        /\ faults'["ingest"] = faults["ingest"] /\ faults'["store"] = faults["store"]
    BY <1>10 DEF OneMore, Counted
  <2> QED
    BY <1>1, <1>4, <2>1 DEF Budget
<1> QED
  BY <1>5, <1>6, <1>7, <1>8, <1>9, <1>10 DEF Cost, Counted

\* A step may take the events of X off the way when the budget grows by as
\* many.
LEMMA RiskGrows ==
    ASSUME produced \in Nat, RiskBudget, NEW m \in Nat, Budget \in Nat,
           Budget' = Budget + m,
           NEW X, IsFiniteSet(X), Cardinality(X) <= m,
           Seen \subseteq Seen' \cup X,
           (1..produced') \ (1..produced) \subseteq Seen' \cup X
    PROVE  RiskBudget'
<1>1. IsFiniteSet(AtRisk)
  <2>1. IsFiniteSet(1..produced)
    BY FS_Interval
  <2> QED
    BY <2>1, FS_Subset DEF AtRisk
<1>2. AtRisk' \subseteq AtRisk \cup X
  BY DEF AtRisk
<1>3. IsFiniteSet(AtRisk \cup X)
      /\ Cardinality(AtRisk \cup X) =
            Cardinality(AtRisk) + Cardinality(X) - Cardinality(AtRisk \cap X)
  BY <1>1, FS_Union
<1>4. Cardinality(AtRisk \cap X) \in Nat /\ Cardinality(AtRisk) \in Nat
      /\ Cardinality(X) \in Nat
  BY <1>1, FS_Intersection, FS_CardinalityType
<1>5. /\ Cardinality(AtRisk') <= Cardinality(AtRisk \cup X)
      /\ Cardinality(AtRisk') \in Nat
  BY <1>2, <1>3, FS_Subset, FS_CardinalityType
<1>6. Cardinality(AtRisk) <= Budget
  BY DEF RiskBudget
<1>7. Cardinality(AtRisk') <= Budget'
  BY <1>3, <1>4, <1>5, <1>6
<1> QED
  BY <1>7 DEF RiskBudget

\* Initially nothing is at risk.
LEMMA InitRisk == Init => RiskBudget
<1> SUFFICES ASSUME Init PROVE RiskBudget
  OBVIOUS
<1>1. AtRisk = {}
  <2>1. 1..0 = {} /\ produced = 0
    BY DEF Init
  <2> QED
    BY <2>1 DEF AtRisk
<1>2. Cardinality(AtRisk) = 0
  BY <1>1, FS_EmptySet
<1>3. Budget \in Nat
  BY InitIInv, BudgetType DEF IInv
<1> QED
  BY <1>2, <1>3 DEF RiskBudget

\* Every step pays for what it takes off the way.
LEMMA RiskStep ==
    ASSUME Shape, RiskBudget, [Next]_vars
    PROVE  RiskBudget'
<1>0. /\ buffer \in Seq(Event) /\ Unsent \in Seq(Event) /\ outQ \in Seq(Event)
      /\ Hand \in Seq(Event) /\ kafka \in Seq(Event) /\ Again \in Seq(Event)
      /\ produced \in Nat /\ Len(Unsent) <= Batch /\ Len(Unsent) \in Nat
  BY PartTypes
<1>c. CountersOK /\ evicted \in Nat
  BY DEF Shape, IInv, CountersOK
<1>e. IsFiniteSet({}) /\ Cardinality({}) <= 0
  BY FS_EmptySet
<1>p. produced' = produced => (1..produced') \ (1..produced) = {}
  OBVIOUS
<1>b. /\ Budget \in Nat
      /\ UNCHANGED evicted /\ SameFaults => Budget' = Budget + 0
      /\ \A kind \in Counted :
            UNCHANGED evicted /\ OneMore(kind) => Budget' = Budget + Cost(kind)
  <2>1. evicted + 0 = evicted
    BY <1>c
  <2>2. \A kind \in Counted : Cost(kind) \in Nat
    BY CapacityAssumption DEF Cost, Counted
  <2>3. Budget \in Nat
    BY <1>c, BudgetType
  <2>4. UNCHANGED evicted /\ SameFaults => Budget' = Budget + 0
    BY <1>c, <2>1, BudgetStep
  <2>5. ASSUME NEW kind \in Counted, UNCHANGED evicted, OneMore(kind)
        PROVE  Budget' = Budget + Cost(kind)
    <3>1. Budget' = Budget + Cost(kind) + 0
      BY <1>c, <2>1, <2>5, BudgetStep
    <3> QED
      BY <2>2, <2>3, <3>1
  <2> QED
    BY <2>3, <2>4, <2>5
<1>1. CASE Quiet
  <2>1. /\ UNCHANGED <<produced, buffer, outQ, kafka, evicted>>
        /\ Unsent' = Unsent /\ Hand' = Hand /\ SameFaults
    BY <1>1, QuietStep
  <2>2. Seen' = Seen
    BY <2>1 DEF Seen
  <2> QED
    BY <1>0, <1>e, <1>p, <1>b, <2>1, <2>2, RiskGrows
<1>2. CASE Collect
  <2>1. /\ UNCHANGED <<outQ, kafka, srv>>
        /\ Unsent' = Unsent /\ produced' = produced + 1 /\ produced + 1 \in Event
        /\ \/ /\ SameFaults
              /\ \E x \in Seq(Event) : /\ buffer' \in Seq(Event)
                                       /\ buffer \o <<produced + 1>> = x \o buffer'
                                       /\ evicted' = evicted + Len(x)
           \/ UNCHANGED <<buffer, evicted>> /\ OneMore("store")
    BY <1>2, CollectStep
  <2>2. Hand' = Hand
    BY <2>1 DEF Hand
  <2>3. (1..produced') \ (1..produced) = {produced + 1}
    BY <1>0, <2>1
  <2>4. CASE SameFaults /\ \E x \in Seq(Event) : /\ buffer' \in Seq(Event)
                                   /\ buffer \o <<produced + 1>> = x \o buffer'
                                   /\ evicted' = evicted + Len(x)
    <3>1. PICK x \in Seq(Event) : /\ buffer' \in Seq(Event)
                                  /\ buffer \o <<produced + 1>> = x \o buffer'
                                  /\ evicted' = evicted + Len(x)
      BY <2>4
    <3>3. Elements(buffer) \cup {produced + 1} = Elements(x) \cup Elements(buffer')
      <4>1. Elements(buffer \o <<produced + 1>>) = Elements(buffer) \cup {produced + 1}
        BY <1>0, <2>1, OneMoreEvent
      <4>2. Elements(x \o buffer') = Elements(x) \cup Elements(buffer')
        BY <3>1, ConcatElements
      <4> QED
        BY <3>1, <4>1, <4>2
    <3>4. Len(x) \in Nat /\ IsFiniteSet(Elements(x)) /\ Cardinality(Elements(x)) <= Len(x)
      BY <3>1, ElementsBound, LenProperties
    <3>5. Budget' = Budget + Len(x)
      BY <1>c, <2>4, <3>1, <3>4, BudgetStep
    <3>6. Seen \subseteq Seen' \cup Elements(x)
      BY <2>1, <2>2, <3>3 DEF Seen
    <3>7. (1..produced') \ (1..produced) \subseteq Seen' \cup Elements(x)
      BY <2>3, <3>3 DEF Seen
    <3> QED
      BY <1>0, <1>b, <3>4, <3>5, <3>6, <3>7, RiskGrows
  <2>5. CASE UNCHANGED <<buffer, evicted>> /\ OneMore("store")
    <3>1. Budget' = Budget + 1
      BY <1>b, <2>5 DEF Cost, Counted
    <3>2. IsFiniteSet({produced + 1}) /\ Cardinality({produced + 1}) <= 1
      BY OneElement
    <3>3. Seen' = Seen
      BY <2>1, <2>2, <2>5 DEF Seen
    <3> QED
      BY <1>0, <1>b, <2>3, <3>1, <3>2, <3>3, RiskGrows
  <2> QED
    BY <2>1, <2>4, <2>5
<1>3. CASE DrainTick
  <2>1. /\ UNCHANGED <<produced, outQ, kafka, srv, faults, evicted>>
        /\ Unsent = <<>> /\ Unsent' \in Seq(Event) /\ buffer' \in Seq(Event)
        /\ buffer = Unsent' \o buffer'
    BY <1>3, TickStep
  <2>2. SameFaults /\ Hand' = Hand
    BY <2>1 DEF SameFaults, Hand
  <2>3. Elements(buffer) = Elements(Unsent') \cup Elements(buffer')
    BY <2>1, ConcatElements
  <2>4. Seen \subseteq Seen'
    BY <2>1, <2>2, <2>3, NoElements DEF Seen
  <2> QED
    BY <1>0, <1>e, <1>p, <1>b, <2>1, <2>2, <2>4, RiskGrows
<1>4. CASE SendOne
  <2>1. /\ UNCHANGED <<produced, buffer, kafka, srv, faults, evicted>>
        /\ \E x \in Event : /\ Unsent' \in Seq(Event) /\ Unsent = <<x>> \o Unsent'
                            /\ outQ' = outQ \o <<x>>
    BY <1>4, SendStep
  <2>2. PICK x \in Event : /\ Unsent' \in Seq(Event) /\ Unsent = <<x>> \o Unsent'
                           /\ outQ' = outQ \o <<x>>
    BY <2>1
  <2>3. SameFaults /\ Hand' = Hand
    BY <2>1 DEF SameFaults, Hand
  <2>5. Elements(Unsent) = {x} \cup Elements(Unsent') /\ Elements(outQ') = Elements(outQ) \cup {x}
    BY <1>0, <2>2, OneMoreEvent
  <2>6. Seen \subseteq Seen'
    BY <2>1, <2>3, <2>5 DEF Seen
  <2> QED
    BY <1>0, <1>e, <1>p, <1>b, <2>1, <2>3, <2>6, RiskGrows
<1>5. CASE SendFails
  <2>1. /\ UNCHANGED <<produced, buffer, outQ, kafka, evicted, faults, srv>>
        /\ Unsent' \in Seq(Event) /\ Unsent' = Again \o Unsent
    BY <1>5, SendFailsStep
  <2>2. SameFaults /\ Hand' = Hand
    BY <2>1 DEF SameFaults, Hand
  <2>3. Elements(Unsent') = Elements(Again) \cup Elements(Unsent)
    BY <1>0, <2>1, ConcatElements
  <2>4. Seen \subseteq Seen'
    BY <2>1, <2>2, <2>3 DEF Seen
  <2> QED
    BY <1>0, <1>e, <1>p, <1>b, <2>1, <2>2, <2>4, RiskGrows
<1>6. CASE RequeueOne
  <2>1. /\ UNCHANGED <<produced, outQ, kafka, srv>>
        /\ \E e \in Event :
              /\ Unsent' \in Seq(Event) /\ Unsent = <<e>> \o Unsent'
              /\ \/ /\ SameFaults
                    /\ \E x \in Seq(Event) : /\ buffer' \in Seq(Event)
                                             /\ buffer \o <<e>> = x \o buffer'
                                             /\ evicted' = evicted + Len(x)
                 \/ UNCHANGED <<buffer, evicted>> /\ OneMore("store")
    BY <1>6, RequeueStep
  <2>2. PICK e \in Event :
              /\ Unsent' \in Seq(Event) /\ Unsent = <<e>> \o Unsent'
              /\ \/ /\ SameFaults
                    /\ \E x \in Seq(Event) : /\ buffer' \in Seq(Event)
                                             /\ buffer \o <<e>> = x \o buffer'
                                             /\ evicted' = evicted + Len(x)
                 \/ UNCHANGED <<buffer, evicted>> /\ OneMore("store")
    BY <2>1
  <2>3. Hand' = Hand
    BY <2>1 DEF Hand
  <2>4. Elements(Unsent) = {e} \cup Elements(Unsent')
    BY <2>2, OneMoreEvent
  <2>5. CASE SameFaults /\ \E x \in Seq(Event) : /\ buffer' \in Seq(Event)
                                             /\ buffer \o <<e>> = x \o buffer'
                                             /\ evicted' = evicted + Len(x)
    <3>1. PICK x \in Seq(Event) : /\ buffer' \in Seq(Event)
                                  /\ buffer \o <<e>> = x \o buffer'
                                  /\ evicted' = evicted + Len(x)
      BY <2>5
    <3>2. Elements(buffer) \cup {e} = Elements(x) \cup Elements(buffer')
      <4>1. Elements(buffer \o <<e>>) = Elements(buffer) \cup {e}
        BY <1>0, OneMoreEvent
      <4>2. Elements(x \o buffer') = Elements(x) \cup Elements(buffer')
        BY <3>1, ConcatElements
      <4> QED
        BY <3>1, <4>1, <4>2
    <3>3. Len(x) \in Nat /\ IsFiniteSet(Elements(x)) /\ Cardinality(Elements(x)) <= Len(x)
      BY <3>1, ElementsBound, LenProperties
    <3>4. Budget' = Budget + Len(x)
      BY <1>c, <2>5, <3>1, <3>3, BudgetStep
    <3>5. Seen \subseteq Seen' \cup Elements(x)
      BY <2>1, <2>3, <2>4, <3>2 DEF Seen
    <3> QED
      BY <1>0, <1>p, <1>b, <2>1, <3>3, <3>4, <3>5, RiskGrows
  <2>6. CASE UNCHANGED <<buffer, evicted>> /\ OneMore("store")
    <3>1. Budget' = Budget + 1
      BY <1>b, <2>6 DEF Cost, Counted
    <3>2. IsFiniteSet({e}) /\ Cardinality({e}) <= 1
      BY OneElement
    <3>3. Seen \subseteq Seen' \cup {e}
      BY <2>1, <2>3, <2>4, <2>6 DEF Seen
    <3> QED
      BY <1>0, <1>p, <1>b, <2>1, <3>1, <3>2, <3>3, RiskGrows
  <2> QED
    BY <2>2, <2>5, <2>6
<1>7. CASE ServerReceive
  <2>1. /\ UNCHANGED <<produced, buffer, drain, kafka, faults, evicted>>
        /\ Hand = <<>> /\ Hand' \in Seq(Event) /\ outQ' \in Seq(Event)
        /\ outQ = Hand' \o outQ'
    BY <1>7, ReceiveStep
  <2>2. SameFaults /\ Unsent' = Unsent
    BY <2>1 DEF SameFaults, Unsent
  <2>3. Elements(outQ) = Elements(Hand') \cup Elements(outQ')
    BY <2>1, ConcatElements
  <2>4. Seen \subseteq Seen'
    BY <2>1, <2>2, <2>3, NoElements DEF Seen
  <2> QED
    BY <1>0, <1>e, <1>p, <1>b, <2>1, <2>2, <2>4, RiskGrows
<1>8. CASE Ingest
  <2>1. /\ UNCHANGED <<produced, buffer, drain, outQ, faults, evicted>>
        /\ Hand' = <<>> /\ kafka' = kafka \o Hand
    BY <1>8, IngestStep
  <2>2. SameFaults /\ Unsent' = Unsent
    BY <2>1 DEF SameFaults, Unsent
  <2>3. Elements(kafka') = Elements(kafka) \cup Elements(Hand)
    BY <1>0, <2>1, ConcatElements
  <2>4. Seen \subseteq Seen'
    BY <2>1, <2>2, <2>3 DEF Seen
  <2> QED
    BY <1>0, <1>e, <1>p, <1>b, <2>1, <2>2, <2>4, RiskGrows
<1>9. CASE IngestFails
  <2>1. /\ UNCHANGED <<produced, buffer, drain, outQ, kafka, evicted>>
        /\ OneMore("ingest") /\ Hand' = <<>>
    BY <1>9, IngestFailsStep
  <2>2. Budget' = Budget + 1 /\ Unsent' = Unsent
    BY <1>b, <2>1 DEF Cost, Counted, Unsent
  <2>3. IsFiniteSet(Elements(Hand)) /\ Cardinality(Elements(Hand)) <= 1
    <3>1. ServerOK
      BY DEF Shape, IInv
    <3>2. /\ IsFiniteSet(Elements(Hand)) /\ Cardinality(Elements(Hand)) <= Len(Hand)
          /\ Cardinality(Elements(Hand)) \in Nat
      BY <1>0, ElementsBound
    <3>3. Len(Hand) \in Nat /\ Len(Hand) <= 1
      BY <3>1, HandType
    <3> QED
      BY <3>2, <3>3
  <2>4. Seen \subseteq Seen' \cup Elements(Hand)
    BY <2>1, <2>2 DEF Seen
  <2> QED
    BY <1>0, <1>p, <1>b, <2>1, <2>2, <2>3, <2>4, RiskGrows
<1>10. CASE OrphanIngest \/ OrphanIngestFails
  <2>1. /\ UNCHANGED <<produced, buffer, drain, open, outQ, srv, evicted>>
        /\ \E o \in orphans :
              /\ OrphanMoves(o) /\ Head(o.rest) \in Event
              /\ \/ kafka' = kafka \o <<Head(o.rest)>> /\ UNCHANGED faults
                 \/ UNCHANGED kafka /\ OneMore("ingest")
    BY <1>10, OrphanStep
  <2>2. PICK h \in Event : \/ kafka' = kafka \o <<h>> /\ UNCHANGED faults
                           \/ UNCHANGED kafka /\ OneMore("ingest")
    BY <2>1
  <2>3. Unsent' = Unsent /\ Hand' = Hand
    BY <2>1 DEF Unsent, Hand
  <2>4. Elements(kafka) \subseteq Elements(kafka')
    <3>1. CASE kafka' = kafka \o <<h>>
      <4>1. Elements(kafka \o <<h>>) = Elements(kafka) \cup {h}
        BY <1>0, OneMoreEvent
      <4> QED
        BY <3>1, <4>1
    <3>2. CASE kafka' = kafka
      BY <3>2
    <3> QED
      BY <2>2, <3>1, <3>2
  <2>5. Seen \subseteq Seen'
    BY <2>1, <2>3, <2>4 DEF Seen
  <2>6. Budget' = Budget + 0 \/ Budget' = Budget + 1
    <3>1. UNCHANGED faults => SameFaults
      BY DEF SameFaults
    <3>2. OneMore("ingest") => Budget' = Budget + 1
      BY <1>b, <2>1 DEF Cost, Counted
    <3> QED
      BY <1>b, <2>1, <2>2, <3>1, <3>2
  <2>7. Cardinality({}) <= 1
    BY FS_EmptySet
  <2> QED
    BY <1>0, <1>e, <1>p, <1>b, <2>1, <2>5, <2>6, <2>7, RiskGrows
<1>11. CASE Disconnect \/ ServerDies \/ AgentDies
  <2>1. /\ UNCHANGED <<produced, buffer, kafka, evicted>>
        /\ outQ' = <<>> /\ Hand' = <<>>
        /\ \/ UNCHANGED drain /\ OneMore("disconnect")
           \/ drain' = Idle /\ OneMore("crash")
    BY <1>11, BreakStep
  <2>2. /\ IsFiniteSet(Elements(outQ) \cup Elements(Hand))
        /\ Cardinality(Elements(outQ) \cup Elements(Hand)) \in Nat
        /\ Cardinality(Elements(outQ) \cup Elements(Hand)) <= OutCap + 1
    <3>1. ServerOK /\ Len(outQ) <= OutCap /\ OutCap \in Nat
      BY CapacityAssumption DEF Shape, IInv, StreamShape
    <3>2. /\ IsFiniteSet(Elements(Hand)) /\ Cardinality(Elements(Hand)) <= Len(Hand)
          /\ Cardinality(Elements(Hand)) \in Nat /\ Len(Hand) \in Nat /\ Len(Hand) <= 1
      BY <1>0, <3>1, ElementsBound, HandType
    <3>3. /\ IsFiniteSet(Elements(outQ)) /\ Cardinality(Elements(outQ)) <= Len(outQ)
          /\ Cardinality(Elements(outQ)) \in Nat /\ Len(outQ) \in Nat
      BY <1>0, ElementsBound, LenProperties
    <3>4. /\ IsFiniteSet(Elements(outQ) \cup Elements(Hand))
          /\ Cardinality(Elements(outQ) \cup Elements(Hand)) =
                Cardinality(Elements(outQ)) + Cardinality(Elements(Hand))
                - Cardinality(Elements(outQ) \cap Elements(Hand))
      BY <3>2, <3>3, FS_Union
    <3>5. Cardinality(Elements(outQ) \cap Elements(Hand)) \in Nat
      BY <3>3, FS_Intersection, FS_CardinalityType
    <3>6. Cardinality(Elements(outQ) \cup Elements(Hand)) \in Nat
      BY <3>4, FS_CardinalityType
    <3> QED
      BY <3>1, <3>2, <3>3, <3>4, <3>5, <3>6
  <2> DEFINE X == Elements(outQ) \cup Elements(Hand)
  <2>3. CASE UNCHANGED drain /\ OneMore("disconnect")
    <3>1. Unsent' = Unsent
      BY <2>3 DEF Unsent
    <3>2. Seen \subseteq Seen' \cup X
      BY <2>1, <3>1 DEF Seen
    <3>3. Budget' = Budget + (OutCap + 1) /\ OutCap + 1 \in Nat
      BY <1>b, <2>1, <2>3, CapacityAssumption DEF Cost, Counted
    <3> HIDE DEF X
    <3> QED
      BY <1>0, <1>p, <1>b, <2>1, <2>2, <3>2, <3>3, RiskGrows DEF X
  <2>4. CASE drain' = Idle /\ OneMore("crash")
    <3> DEFINE Y == X \cup Elements(Unsent)
    <3>1. Unsent' = <<>>
      BY <2>4, IdleParts
    <3>2. Seen \subseteq Seen' \cup Y
      BY <2>1, <3>1 DEF Seen
    <3>3. Budget' = Budget + ((OutCap + 1) + Batch) /\ (OutCap + 1) + Batch \in Nat
          /\ OutCap \in Nat /\ Batch \in Nat
      BY <1>b, <2>1, <2>4, CapacityAssumption DEF Cost, Counted
    <3>4. /\ IsFiniteSet(Elements(Unsent)) /\ Cardinality(Elements(Unsent)) <= Len(Unsent)
          /\ Cardinality(Elements(Unsent)) \in Nat
      BY <1>0, ElementsBound
    <3>5. IsFiniteSet(X) /\ Cardinality(X) \in Nat /\ Cardinality(X) <= OutCap + 1
      BY <2>2
    <3> HIDE DEF X
    <3>6. /\ IsFiniteSet(Y)
          /\ Cardinality(Y) = Cardinality(X) + Cardinality(Elements(Unsent))
                              - Cardinality(X \cap Elements(Unsent))
      BY <3>4, <3>5, FS_Union
    <3>7. Cardinality(X \cap Elements(Unsent)) \in Nat
      BY <3>5, FS_Intersection, FS_CardinalityType
    <3>8. Cardinality(Y) <= (OutCap + 1) + Batch
      <4> HIDE DEF Y
      <4> QED
        BY <1>0, <3>3, <3>4, <3>5, <3>6, <3>7
    <3> HIDE DEF Y
    <3> QED
      BY <1>0, <1>p, <1>b, <2>1, <3>2, <3>3, <3>6, <3>8, RiskGrows
  <2> QED
    BY <2>1, <2>3, <2>4
<1>12. CASE ProducerNext
  <2>1. /\ UNCHANGED <<produced, buffer, drain, outQ, srv, evicted>>
        /\ \/ UNCHANGED kafka /\ OneMore("unanswered")
           \/ /\ UNCHANGED faults
              /\ UNCHANGED kafka \/ \E h \in Event : kafka' = kafka \o <<h>>
    BY <1>12, ProducerStep
  <2>2. Unsent' = Unsent /\ Hand' = Hand
    BY <2>1 DEF Unsent, Hand
  <2>3. Elements(kafka) \subseteq Elements(kafka')
    <3>1. ASSUME NEW h \in Event, kafka' = kafka \o <<h>>
          PROVE  Elements(kafka) \subseteq Elements(kafka')
      <4>1. Elements(kafka \o <<h>>) = Elements(kafka) \cup {h}
        BY <1>0, OneMoreEvent
      <4> QED
        BY <3>1, <4>1
    <3>2. CASE kafka' = kafka
      BY <3>2
    <3> QED
      BY <2>1, <3>1, <3>2
  <2>4. Seen \subseteq Seen'
    BY <2>1, <2>2, <2>3 DEF Seen
  <2>5. Budget' = Budget + 0
    <3>1. UNCHANGED faults => SameFaults
      BY DEF SameFaults
    <3>2. OneMore("unanswered") => Budget' = Budget + 0
      BY <1>b, <2>1 DEF Cost, Counted
    <3> QED
      BY <1>b, <2>1, <3>1, <3>2
  <2> QED
    BY <1>0, <1>e, <1>p, <1>b, <2>1, <2>4, <2>5, RiskGrows
<1> QED
  BY Steps, <1>1, <1>2, <1>3, <1>4, <1>5, <1>6, <1>7, <1>8, <1>9, <1>10, <1>11, <1>12

\* The copies of an event the tasks of dead streams have.
Adrift(S, e) == {p \in S \X (1..OutCap + 1) :
                    p[2] \in DOMAIN p[1].rest /\ p[1].rest[p[2]] = e}

\* They are finitely many.
LEMMA AdriftFinite ==
    ASSUME NEW S, IsFiniteSet(S), NEW e
    PROVE  IsFiniteSet(Adrift(S, e)) /\ Cardinality(Adrift(S, e)) \in Nat
<1>1. OutCap + 1 \in Int /\ 1 \in Int
  BY CapacityAssumption
<1>2. IsFiniteSet(1..OutCap + 1)
  BY <1>1, FS_Interval
<1>3. IsFiniteSet(S \X (1..OutCap + 1))
  BY <1>2, FS_Product
<1>4. Adrift(S, e) \in SUBSET (S \X (1..OutCap + 1))
  BY DEF Adrift
<1> QED
  BY <1>3, <1>4, FS_Subset, FS_CardinalityType

\* The copies, one number for each place.
LEMMA CopiesParts ==
    ASSUME Shape, NEW e
    PROVE  /\ Copies(e) = Occurrences(buffer, e) + Occurrences(Unsent, e)
                          + Occurrences(outQ, e) + Occurrences(Hand, e)
                          + Cardinality(Adrift(orphans, e)) + Occurrences(kafka, e)
           /\ Occurrences(buffer, e) \in Nat /\ Occurrences(Unsent, e) \in Nat
           /\ Occurrences(outQ, e) \in Nat /\ Occurrences(Hand, e) \in Nat
           /\ Cardinality(Adrift(orphans, e)) \in Nat /\ Occurrences(kafka, e) \in Nat
<1>1. /\ buffer \in Seq(Event) /\ Unsent \in Seq(Event) /\ outQ \in Seq(Event)
      /\ Hand \in Seq(Event) /\ kafka \in Seq(Event)
  BY PartTypes
<1>2. Occurrences(Hand, e) = IF srv.pc = "publish" /\ srv.ev = e THEN 1 ELSE 0
  <2>1. CASE srv.pc = "publish"
    <3>1. Hand = <<srv.ev>>
      BY <2>1 DEF Hand
    <3>2. CASE srv.ev = e
      <4>1. {i \in DOMAIN <<srv.ev>> : <<srv.ev>>[i] = e} = {1}
        BY <3>2
      <4>2. Cardinality({1}) = 1
        BY FS_Singleton
      <4> QED
        BY <2>1, <3>1, <3>2, <4>1, <4>2 DEF Occurrences
    <3>3. CASE srv.ev # e
      <4>1. {i \in DOMAIN <<srv.ev>> : <<srv.ev>>[i] = e} = {}
        BY <3>3
      <4>2. Cardinality({}) = 0
        BY FS_EmptySet
      <4> QED
        BY <2>1, <3>1, <3>3, <4>1, <4>2 DEF Occurrences
    <3> QED
      BY <3>2, <3>3
  <2>2. CASE srv.pc # "publish"
    <3>1. Hand = <<>>
      BY <2>2 DEF Hand
    <3>2. Occurrences(<<>>, e) = 0
      BY OccurrencesType, NoElements
    <3> QED
      BY <2>2, <3>1, <3>2
  <2> QED
    BY <2>1, <2>2
<1>3. /\ Occurrences(buffer, e) \in Nat /\ Occurrences(Unsent, e) \in Nat
      /\ Occurrences(outQ, e) \in Nat /\ Occurrences(Hand, e) \in Nat
      /\ Occurrences(kafka, e) \in Nat
  BY <1>1, OccurrencesType
<1>4. Cardinality(Adrift(orphans, e)) \in Nat
  BY AdriftFinite DEF Shape, OrphanShape
<1> QED
  BY <1>2, <1>3, <1>4 DEF Copies, Adrift

\* What a fault can cost: every interleaving, any number of faults.
THEOREM LossIsBounded == Spec => []LossBudget
<1>1. Shape /\ RiskBudget => LossBudget
  <2> SUFFICES ASSUME Shape, RiskBudget PROVE LossBudget
    OBVIOUS
  <2>0. /\ buffer \in Seq(Event) /\ Unsent \in Seq(Event) /\ outQ \in Seq(Event)
        /\ Hand \in Seq(Event) /\ kafka \in Seq(Event) /\ produced \in Nat
    BY PartTypes
  <2>1. Lost \subseteq AtRisk
    <3> SUFFICES ASSUME NEW e \in 1..produced, Copies(e) = 0
                 PROVE  e \notin Seen
      BY DEF Lost, AtRisk
    <3>1. /\ Occurrences(buffer, e) = 0 /\ Occurrences(Unsent, e) = 0
          /\ Occurrences(outQ, e) = 0 /\ Occurrences(Hand, e) = 0
          /\ Occurrences(kafka, e) = 0
      BY CopiesParts
    <3>2. /\ e \notin Elements(buffer) /\ e \notin Elements(Unsent)
          /\ e \notin Elements(outQ) /\ e \notin Elements(Hand)
          /\ e \notin Elements(kafka)
      BY <2>0, <3>1, OccurrencesType
    <3> QED
      BY <3>2 DEF Seen
  <2>2. IsFiniteSet(AtRisk)
    <3>1. IsFiniteSet(1..produced)
      BY <2>0, FS_Interval
    <3> QED
      BY <3>1, FS_Subset DEF AtRisk
  <2>3. /\ Cardinality(Lost) <= Cardinality(AtRisk)
        /\ Cardinality(Lost) \in Nat /\ Cardinality(AtRisk) \in Nat
    BY <2>1, <2>2, FS_Subset, FS_CardinalityType
  <2>4. Budget \in Nat
    BY BudgetType DEF Shape, IInv
  <2>5. Cardinality(Lost) <= Budget
    BY <2>3, <2>4 DEF RiskBudget
  <2> QED
    BY <2>5 DEF LossBudget, Budget
<1>2. Shape /\ RiskBudget /\ [Next]_vars => RiskBudget'
  BY RiskStep
<1> QED
  BY <1>1, <1>2, InitRisk, ShapeInvariance, PTL DEF Spec

-----------------------------------------------------------------------------
(* Duplicates *)

\* How often an event occurs in a sequence of one.
LEMMA SingleOccurrence ==
    ASSUME NEW x \in Event, NEW e
    PROVE  Occurrences(<<x>>, e) = IF x = e THEN 1 ELSE 0
<1>1. DOMAIN <<x>> = {1} /\ <<x>>[1] = x
  OBVIOUS
<1>2. CASE x = e
  <2>1. {i \in DOMAIN <<x>> : <<x>>[i] = e} = {1}
    BY <1>1, <1>2
  <2>2. Cardinality({1}) = 1
    BY FS_Singleton
  <2> QED
    BY <1>2, <2>1, <2>2 DEF Occurrences
<1>3. CASE x # e
  <2>1. {i \in DOMAIN <<x>> : <<x>>[i] = e} = {}
    BY <1>1, <1>3
  <2>2. Cardinality({}) = 0
    BY FS_EmptySet
  <2> QED
    BY <1>3, <2>1, <2>2 DEF Occurrences
<1> QED
  BY <1>2, <1>3

\* The occurrences with one event more at the end, and one at the front.
LEMMA OneMoreOccurrence ==
    ASSUME NEW s \in Seq(Event), NEW x \in Event, NEW e
    PROVE  /\ Occurrences(s, e) \in Nat /\ Occurrences(<<x>>, e) \in Nat
           /\ Occurrences(s \o <<x>>, e) = Occurrences(s, e) + Occurrences(<<x>>, e)
           /\ Occurrences(<<x>> \o s, e) = Occurrences(<<x>>, e) + Occurrences(s, e)
<1> DEFINE t == <<x>>
<1>1. t \in Seq(Event)
  BY ShortSeqs
<1> HIDE DEF t
<1>2. Occurrences(s, e) \in Nat /\ Occurrences(t, e) \in Nat
  BY <1>1, OccurrencesType
<1>3. /\ Occurrences(s \o t, e) = Occurrences(s, e) + Occurrences(t, e)
      /\ Occurrences(t \o s, e) = Occurrences(t, e) + Occurrences(s, e)
  BY <1>1, ConcatOccurrences
<1> QED
  BY <1>2, <1>3 DEF t

\* Nothing occurs in an empty sequence.
LEMMA NoOccurrence ==
    ASSUME NEW e
    PROVE  Occurrences(<<>>, e) = 0
<1>1. {i \in DOMAIN <<>> : <<>>[i] = e} = {}
  OBVIOUS
<1> QED
  BY <1>1, FS_EmptySet DEF Occurrences

\* One task has an event as often as its sequence does.
LEMMA AdriftOne ==
    ASSUME NEW o, o.rest \in Seq(Event), Len(o.rest) <= OutCap + 1, NEW e
    PROVE  /\ IsFiniteSet(Adrift({o}, e))
           /\ Cardinality(Adrift({o}, e)) = Occurrences(o.rest, e)
<1> DEFINE A == {i \in DOMAIN o.rest : o.rest[i] = e}
           B == Adrift({o}, e)
           f == [i \in A |-> <<o, i>>]
<1>1. Len(o.rest) \in Nat /\ DOMAIN o.rest = 1..Len(o.rest) /\ OutCap \in Nat
  BY LenProperties, CapacityAssumption
<1>2. \A i \in DOMAIN o.rest : i \in 1..OutCap + 1
  BY <1>1
<1>3. ASSUME NEW i \in A PROVE <<o, i>> \in B
  <2>1. i \in DOMAIN o.rest /\ o.rest[i] = e /\ i \in 1..OutCap + 1
    BY <1>2
  <2> QED
    BY <2>1 DEF Adrift
<1>4. ASSUME NEW p \in B PROVE \E i \in A : p = <<o, i>>
  <2>1. /\ p \in {o} \X (1..OutCap + 1)
        /\ p[2] \in DOMAIN p[1].rest /\ p[1].rest[p[2]] = e
    BY DEF Adrift
  <2>2. p = <<p[1], p[2]>> /\ p[1] = o
    BY <2>1
  <2> QED
    BY <2>1, <2>2
<1>5. f \in [A -> B]
  BY <1>3
<1>6. \A i, j \in A : f[i] = f[j] => i = j
  OBVIOUS
<1>7. \A p \in B : \E i \in A : f[i] = p
  BY <1>4
<1>8. IsFiniteSet(A) /\ Occurrences(o.rest, e) = Cardinality(A)
  BY OccurrencesType DEF Occurrences
<1> HIDE DEF A, B, f
<1>9. f \in Injection(A, B)
  BY <1>5, <1>6 DEF Injection, IsInjective
<1>10. f \in Surjection(A, B)
  BY <1>5, <1>7 DEF Surjection
<1>11. ExistsBijection(A, B)
  BY <1>9, <1>10 DEF ExistsBijection, Bijection
<1>12. IsFiniteSet(B) /\ Cardinality(B) = Cardinality(A)
  BY <1>8, <1>11, FS_Bijection
<1> QED
  BY <1>8, <1>12 DEF B

\* A task more adds at most what it has ...
LEMMA AdriftAdd ==
    ASSUME NEW S, IsFiniteSet(S), NEW o, o.rest \in Seq(Event),
           Len(o.rest) <= OutCap + 1, NEW e
    PROVE  /\ Cardinality(Adrift(S \cup {o}, e))
                <= Cardinality(Adrift(S, e)) + Occurrences(o.rest, e)
           /\ Cardinality(Adrift(S \cup {o}, e)) \in Nat
<1> DEFINE A == Adrift(S, e)
           B == Adrift({o}, e)
<1>1. Adrift(S \cup {o}, e) = A \cup B
  <2> DEFINE T == S \cup {o}
             I == 1..OutCap + 1
  <2>1. T \X I = (S \X I) \cup ({o} \X I)
    OBVIOUS
  <2> HIDE DEF I
  <2> QED
    BY <2>1 DEF Adrift, I
<1>2. /\ IsFiniteSet(A) /\ IsFiniteSet(B) /\ Cardinality(B) = Occurrences(o.rest, e)
      /\ Cardinality(A) \in Nat
  BY AdriftFinite, AdriftOne
<1> HIDE DEF A, B
<1>3. /\ IsFiniteSet(A \cup B)
      /\ Cardinality(A \cup B) = Cardinality(A) + Cardinality(B) - Cardinality(A \cap B)
  BY <1>2, FS_Union
<1>4. Cardinality(A \cap B) \in Nat /\ Cardinality(B) \in Nat /\ Cardinality(A \cup B) \in Nat
  BY <1>2, <1>3, FS_Intersection, FS_CardinalityType
<1>5. Cardinality(A \cup B) <= Cardinality(A) + Occurrences(o.rest, e)
  BY <1>2, <1>3, <1>4
<1> QED
  BY <1>1, <1>4, <1>5 DEF A

\* ... and one less takes away what it had.
LEMMA AdriftRemove ==
    ASSUME NEW S, IsFiniteSet(S), NEW o \in S, o.rest \in Seq(Event),
           Len(o.rest) <= OutCap + 1, NEW e
    PROVE  /\ Cardinality(Adrift(S, e))
                = Cardinality(Adrift(S \ {o}, e)) + Occurrences(o.rest, e)
           /\ Cardinality(Adrift(S \ {o}, e)) \in Nat
           /\ IsFiniteSet(S \ {o})
<1> DEFINE A == Adrift(S \ {o}, e)
           B == Adrift({o}, e)
<1>1. Adrift(S, e) = A \cup B
  <2> DEFINE T == S \ {o}
             I == 1..OutCap + 1
  <2>1. S \X I = (T \X I) \cup ({o} \X I)
    OBVIOUS
  <2> HIDE DEF I
  <2> QED
    BY <2>1 DEF Adrift, I
<1>2. A \cap B = {}
  <2> SUFFICES ASSUME NEW p \in A, p \in B PROVE FALSE
    OBVIOUS
  <2>1. p \in (S \ {o}) \X (1..OutCap + 1) /\ p \in {o} \X (1..OutCap + 1)
    BY DEF Adrift
  <2> QED
    BY <2>1
<1>3. IsFiniteSet(S \ {o})
  BY FS_RemoveElement
<1>4. /\ IsFiniteSet(A) /\ IsFiniteSet(B) /\ Cardinality(B) = Occurrences(o.rest, e)
      /\ Cardinality(A) \in Nat
  BY <1>3, AdriftFinite, AdriftOne
<1> HIDE DEF A, B
<1>5. Cardinality(A \cup B) = Cardinality(A) + Cardinality(B) - Cardinality(A \cap B)
  BY <1>4, FS_Union
<1>6. Cardinality(A \cap B) = 0 /\ Cardinality(B) \in Nat
  BY <1>2, <1>4, FS_EmptySet, FS_CardinalityType
<1>7. Cardinality(A \cup B) = Cardinality(A) + Occurrences(o.rest, e)
  BY <1>4, <1>5, <1>6
<1> QED
  BY <1>1, <1>3, <1>4, <1>7 DEF A

\* The copies of every event are the sum of the occurrences at each place.
Tallied ==
    \A e \in Event :
        /\ Copies(e) = Occurrences(buffer, e) + Occurrences(Unsent, e)
                       + Occurrences(outQ, e) + Occurrences(Hand, e)
                       + Cardinality(Adrift(orphans, e)) + Occurrences(kafka, e)
        /\ Occurrences(buffer, e) \in Nat /\ Occurrences(Unsent, e) \in Nat
        /\ Occurrences(outQ, e) \in Nat /\ Occurrences(Hand, e) \in Nat
        /\ Cardinality(Adrift(orphans, e)) \in Nat /\ Occurrences(kafka, e) \in Nat
        /\ Occurrences(Kept, e) \in Nat /\ Occurrences(Again, e) \in Nat

\* In every state of the right shape the tally is right.
LEMMA ShapeTallied == Shape => Tallied
<1> SUFFICES ASSUME Shape, NEW e \in Event
             PROVE  /\ Copies(e) = Occurrences(buffer, e) + Occurrences(Unsent, e)
                          + Occurrences(outQ, e) + Occurrences(Hand, e)
                          + Cardinality(Adrift(orphans, e)) + Occurrences(kafka, e)
                    /\ Occurrences(buffer, e) \in Nat /\ Occurrences(Unsent, e) \in Nat
                    /\ Occurrences(outQ, e) \in Nat /\ Occurrences(Hand, e) \in Nat
                    /\ Cardinality(Adrift(orphans, e)) \in Nat
                    /\ Occurrences(kafka, e) \in Nat
                    /\ Occurrences(Kept, e) \in Nat /\ Occurrences(Again, e) \in Nat
  BY DEF Tallied
<1>1. Occurrences(Kept, e) \in Nat /\ Occurrences(Again, e) \in Nat
  BY PartTypes, OccurrencesType
<1> QED
  BY <1>1, CopiesParts

\* In buffer and batch together an event is at most once, and not before it
\* has been collected.
OnceInAgent ==
    \A e \in Event :
        Occurrences(buffer, e) + Occurrences(Kept, e) <= IF e \in 1..produced THEN 1 ELSE 0

\* The copies the faults so far may have added: a request without an answer
\* adds its copy when it is carried out.
Slack == faults["disconnect"] + (faults["unanswered"] - Cardinality(unanswered))

\* The steps that are not the producer's.
Moves ==
    \/ Quiet \/ Collect \/ DrainTick \/ SendOne \/ SendFails \/ RequeueOne
    \/ ServerReceive \/ Ingest \/ IngestFails \/ OrphanIngest \/ OrphanIngestFails
    \/ Disconnect \/ ServerDies \/ AgentDies

\* Of these only a broken stream changes it.
LEMMA SlackStep ==
    ASSUME Shape
    PROVE  /\ Slack \in Nat
           /\ Moves /\ SameFaults => Slack' = Slack
           /\ \A k \in {"ingest", "store", "crash"} :
                 Moves /\ OneMore(k) => Slack' = Slack
           /\ Moves /\ OneMore("disconnect") => Slack' = Slack + 1
<1>1. CountersOK /\ RequestsOK
  BY DEF Shape, IInv
<1>2. /\ faults["disconnect"] \in Nat /\ faults["unanswered"] \in Nat
      /\ Cardinality(unanswered) \in Nat /\ Cardinality(unanswered) <= faults["unanswered"]
  BY <1>1, FS_CardinalityType DEF CountersOK, RequestsOK, FaultKind
<1>3. Moves => unanswered' = unanswered /\ faults'["unanswered"] = faults["unanswered"]
  BY <1>1, OthersAnswer DEF Moves, Quiet, AgentNext, ServerNext, FaultNext
<1>4. Slack \in Nat
  BY <1>2 DEF Slack
<1>5. ASSUME Moves, faults'["disconnect"] = faults["disconnect"] PROVE Slack' = Slack
  BY <1>3, <1>5 DEF Slack
<1>6. ASSUME Moves, faults'["disconnect"] = faults["disconnect"] + 1
      PROVE  Slack' = Slack + 1
  <2>1. unanswered' = unanswered /\ faults'["unanswered"] = faults["unanswered"]
    BY <1>3, <1>6
  <2> QED
    BY <1>2, <1>6, <2>1 DEF Slack
<1> QED
  BY <1>4, <1>5, <1>6 DEF SameFaults, OneMore, Counted

\* The copies there are and the ones a failed send is about to add.
CopyBound ==
    \A e \in Event :
        Copies(e) + Occurrences(Again, e) <=
            IF e \in 1..produced THEN 1 + Slack ELSE 0

\* Initially there is no copy.
LEMMA InitCopies == Init => OnceInAgent /\ CopyBound
<1> SUFFICES ASSUME Init PROVE OnceInAgent /\ CopyBound
  OBVIOUS
<1>1. kafka = <<>> /\ outQ = <<>> /\ buffer = <<>> /\ orphans = {} /\ produced = 0
  BY DEF Init
<1>2. Hand = <<>> /\ Again = <<>>
  BY DEF Init, Hand, NoTask, Again, Idle
<1>3. Unsent = <<>> /\ Kept = <<>>
  BY InitShape, PartTypes DEF Init, Idle
<1>4. \A e : Cardinality(Adrift(orphans, e)) = 0
  <2>1. \A e : Adrift(orphans, e) = {}
    BY <1>1 DEF Adrift
  <2> QED
    BY <2>1, FS_EmptySet
<1>5. Tallied
  BY InitShape, ShapeTallied
<1>6. ~(\E e \in Event : e \in 1..produced)
  BY <1>1
<1>7. \A e : /\ Occurrences(buffer, e) = 0 /\ Occurrences(Unsent, e) = 0
             /\ Occurrences(outQ, e) = 0 /\ Occurrences(Hand, e) = 0
             /\ Occurrences(kafka, e) = 0 /\ Occurrences(Kept, e) = 0
             /\ Occurrences(Again, e) = 0
  BY <1>1, <1>2, <1>3, NoOccurrence
<1> QED
  BY <1>4, <1>5, <1>6, <1>7 DEF OnceInAgent, CopyBound, Tallied

\* A step that collects nothing and adds no occurrence to what buffer and
\* batch have keeps the first, ...
LEMMA KeepsOnce ==
    ASSUME OnceInAgent, Tallied, Tallied', produced' = produced,
           \A e \in Event : Occurrences(buffer', e) + Occurrences(Kept', e)
                               <= Occurrences(buffer, e) + Occurrences(Kept, e)
    PROVE  OnceInAgent'
<1> SUFFICES ASSUME NEW e \in Event
             PROVE  Occurrences(buffer', e) + Occurrences(Kept', e)
                       <= IF e \in 1..produced THEN 1 ELSE 0
  BY DEF OnceInAgent
<1>1. /\ Occurrences(buffer, e) + Occurrences(Kept, e) \in Nat
      /\ Occurrences(buffer', e) + Occurrences(Kept', e) \in Nat
  BY DEF Tallied
<1> QED
  BY <1>1 DEF OnceInAgent

\* ... and one that adds no copy keeps the second.
LEMMA KeepsCopies ==
    ASSUME CopyBound, Tallied, Tallied', produced' = produced,
           Slack \in Nat, Slack' = Slack,
           \A e \in Event : Copies(e)' + Occurrences(Again', e)
                               <= Copies(e) + Occurrences(Again, e)
    PROVE  CopyBound'
<1> SUFFICES ASSUME NEW e \in Event
             PROVE  Copies(e)' + Occurrences(Again', e)
                       <= IF e \in 1..produced THEN 1 + Slack ELSE 0
  BY DEF CopyBound
<1>1. Copies(e) + Occurrences(Again, e) \in Nat /\ Copies(e)' + Occurrences(Again', e) \in Nat
  BY DEF Tallied
<1> QED
  BY <1>1 DEF CopyBound

\* The occurrences on both sides of a push.
LEMMA PushedOccurrences ==
    ASSUME NEW s \in Seq(Event), NEW t \in Seq(Event), NEW x \in Seq(Event),
           NEW d \in Event, s \o <<d>> = x \o t, NEW e
    PROVE  /\ Occurrences(t, e) <= Occurrences(s, e) + Occurrences(<<d>>, e)
           /\ Occurrences(s, e) \in Nat /\ Occurrences(t, e) \in Nat
           /\ Occurrences(<<d>>, e) \in Nat
<1>1. /\ Occurrences(s, e) \in Nat /\ Occurrences(<<d>>, e) \in Nat
      /\ Occurrences(s \o <<d>>, e) = Occurrences(s, e) + Occurrences(<<d>>, e)
  BY OneMoreOccurrence
<1>2. Occurrences(x \o t, e) = Occurrences(x, e) + Occurrences(t, e)
  BY ConcatOccurrences
<1>3. Occurrences(x, e) \in Nat /\ Occurrences(t, e) \in Nat
  BY OccurrencesType
<1>4. Occurrences(s \o <<d>>, e) = Occurrences(x \o t, e)
  BY Zenon
<1>5. Occurrences(s, e) + Occurrences(<<d>>, e) = Occurrences(x, e) + Occurrences(t, e)
  BY <1>1, <1>2, <1>4, Zenon
<1>6. \A a, b, c, n \in Nat : a + b = c + n => n <= a + b
  OBVIOUS
<1>7. Occurrences(t, e) <= Occurrences(s, e) + Occurrences(<<d>>, e)
  BY <1>1, <1>3, <1>5, <1>6, Zenon
<1> QED
  BY <1>1, <1>3, <1>7, Zenon

\* The collector: only the new event gets a copy, its first.
LEMMA CollectCopies ==
    ASSUME Shape, Tallied', OnceInAgent, CopyBound, Collect
    PROVE  OnceInAgent' /\ CopyBound'
<1>1. /\ UNCHANGED <<outQ, kafka, orphans, srv>>
      /\ Unsent' = Unsent /\ Kept' = Kept /\ Again' = Again
      /\ produced' = produced + 1 /\ produced + 1 \in Event
      /\ \/ /\ SameFaults
            /\ \E x \in Seq(Event) : /\ buffer' \in Seq(Event)
                                     /\ buffer \o <<produced + 1>> = x \o buffer'
                                     /\ evicted' = evicted + Len(x)
         \/ UNCHANGED <<buffer, evicted>> /\ OneMore("store")
  BY CollectStep
<1>2. Tallied /\ buffer \in Seq(Event) /\ produced \in Nat
  BY ShapeTallied, PartTypes
<1>3. Slack' = Slack /\ Slack \in Nat /\ Hand' = Hand
  <2>1. Slack' = Slack /\ Slack \in Nat
    BY <1>1, SlackStep DEF Moves
  <2> QED
    BY <1>1, <2>1 DEF Hand
<1>4. ASSUME NEW e \in Event
      PROVE  /\ Occurrences(buffer', e) + Occurrences(Kept', e)
                   <= IF e \in 1..produced' THEN 1 ELSE 0
             /\ Copies(e)' + Occurrences(Again', e)
                   <= IF e \in 1..produced' THEN 1 + Slack' ELSE 0
  <2>3. /\ Occurrences(buffer, e) \in Nat /\ Occurrences(Unsent, e) \in Nat
        /\ Occurrences(outQ, e) \in Nat /\ Occurrences(Hand, e) \in Nat
        /\ Cardinality(Adrift(orphans, e)) \in Nat /\ Occurrences(kafka, e) \in Nat
        /\ Occurrences(Kept, e) \in Nat /\ Occurrences(Again, e) \in Nat
    BY <1>2 DEF Tallied
  <2>1. /\ Occurrences(buffer', e)
             <= Occurrences(buffer, e) + IF e = produced + 1 THEN 1 ELSE 0
        /\ Occurrences(buffer', e) \in Nat
    <3>1. CASE buffer' = buffer
      BY <2>3, <3>1
    <3>2. CASE \E x \in Seq(Event) : /\ buffer' \in Seq(Event)
                                     /\ buffer \o <<produced + 1>> = x \o buffer'
      <4>1. PICK x \in Seq(Event) : /\ buffer' \in Seq(Event)
                                    /\ buffer \o <<produced + 1>> = x \o buffer'
        BY <3>2
      <4>2. /\ Occurrences(buffer', e)
                 <= Occurrences(buffer, e) + Occurrences(<<produced + 1>>, e)
            /\ Occurrences(buffer', e) \in Nat
        BY <1>1, <1>2, <4>1, PushedOccurrences
      <4>3. Occurrences(<<produced + 1>>, e) = IF produced + 1 = e THEN 1 ELSE 0
        BY <1>1, SingleOccurrence
      <4> QED
        BY <4>2, <4>3
    <3> QED
      BY <1>1, <3>1, <3>2
  <2>2. /\ Copies(e) = Occurrences(buffer, e) + Occurrences(Unsent, e)
                       + Occurrences(outQ, e) + Occurrences(Hand, e)
                       + Cardinality(Adrift(orphans, e)) + Occurrences(kafka, e)
        /\ Copies(e)' = Occurrences(buffer', e) + Occurrences(Unsent', e)
                       + Occurrences(outQ', e) + Occurrences(Hand', e)
                       + Cardinality(Adrift(orphans', e)) + Occurrences(kafka', e)
    BY <1>2 DEF Tallied
  <2>4. /\ Occurrences(buffer, e) + Occurrences(Kept, e)
             <= IF e \in 1..produced THEN 1 ELSE 0
        /\ Copies(e) + Occurrences(Again, e)
             <= IF e \in 1..produced THEN 1 + Slack ELSE 0
    BY DEF OnceInAgent, CopyBound
  <2>u. /\ Occurrences(Unsent', e) = Occurrences(Unsent, e)
        /\ Occurrences(outQ', e) = Occurrences(outQ, e)
        /\ Occurrences(Hand', e) = Occurrences(Hand, e)
        /\ Cardinality(Adrift(orphans', e)) = Cardinality(Adrift(orphans, e))
        /\ Occurrences(kafka', e) = Occurrences(kafka, e)
        /\ Occurrences(Kept', e) = Occurrences(Kept, e)
        /\ Occurrences(Again', e) = Occurrences(Again, e)
    BY <1>1, <1>3
  <2>5. Copies(e)' = Copies(e) - Occurrences(buffer, e) + Occurrences(buffer', e)
    BY <2>1, <2>2, <2>3, <2>u
  <2>6. Copies(e) \in Nat
    BY <2>2, <2>3
  <2>7. e \in Nat /\ (e \in 1..produced' <=> e \in 1..produced \/ e = produced + 1)
        /\ (e = produced + 1 => e \notin 1..produced)
    BY <1>1, <1>2, FaultAssumption DEF Event
  <2> QED
    BY <1>3, <2>1, <2>3, <2>4, <2>5, <2>6, <2>7, <2>u
<1> QED
  BY <1>4 DEF OnceInAgent, CopyBound

\* The other steps of the agent: events only move between buffer, batch and
\* channel, and what a failed send adds has been counted before.
LEMMA AgentCopies ==
    ASSUME Shape, Tallied', OnceInAgent, CopyBound,
           Quiet \/ DrainTick \/ SendOne \/ SendFails \/ RequeueOne
    PROVE  OnceInAgent' /\ CopyBound'
<1>0. /\ buffer \in Seq(Event) /\ Unsent \in Seq(Event) /\ outQ \in Seq(Event)
      /\ Hand \in Seq(Event) /\ kafka \in Seq(Event) /\ Again \in Seq(Event)
      /\ Tallied /\ Slack \in Nat
  BY PartTypes, ShapeTallied, SlackStep
<1>s. Slack' = Slack
  <2>1. SameFaults \/ OneMore("store")
    <3>1. CASE Quiet
      BY <3>1, QuietStep
    <3>2. CASE DrainTick \/ SendOne \/ SendFails
      BY <3>2 DEF DrainTick, SendOne, SendFails, SameFaults
    <3>3. CASE RequeueOne
      BY <3>3, RequeueStep
    <3> QED
      BY <3>1, <3>2, <3>3
  <2> QED
    BY <2>1, SlackStep DEF Moves
<1>n. \A e : Occurrences(<<>>, e) = 0
  BY NoOccurrence
<1> DEFINE Fewer ==
       /\ \A e \in Event : Occurrences(buffer', e) + Occurrences(Kept', e)
                             <= Occurrences(buffer, e) + Occurrences(Kept, e)
       /\ \A e \in Event : Copies(e)' + Occurrences(Again', e)
                             <= Copies(e) + Occurrences(Again, e)
<1>t. \A e \in Event :
         /\ Copies(e) = Occurrences(buffer, e) + Occurrences(Unsent, e)
                        + Occurrences(outQ, e) + Occurrences(Hand, e)
                        + Cardinality(Adrift(orphans, e)) + Occurrences(kafka, e)
         /\ Copies(e)' = Occurrences(buffer', e) + Occurrences(Unsent', e)
                        + Occurrences(outQ', e) + Occurrences(Hand', e)
                        + Cardinality(Adrift(orphans', e)) + Occurrences(kafka', e)
         /\ Occurrences(buffer, e) \in Nat /\ Occurrences(Unsent, e) \in Nat
         /\ Occurrences(outQ, e) \in Nat /\ Occurrences(Hand, e) \in Nat
         /\ Cardinality(Adrift(orphans, e)) \in Nat /\ Occurrences(kafka, e) \in Nat
         /\ Occurrences(Kept, e) \in Nat /\ Occurrences(Again, e) \in Nat
         /\ Occurrences(buffer', e) \in Nat /\ Occurrences(Unsent', e) \in Nat
         /\ Occurrences(outQ', e) \in Nat /\ Occurrences(Kept', e) \in Nat
         /\ Occurrences(Again', e) \in Nat
  BY <1>0 DEF Tallied
<1>1. CASE Quiet
  <2>1. /\ UNCHANGED <<produced, buffer, outQ, kafka, orphans>>
        /\ Unsent' = Unsent /\ Hand' = Hand /\ Kept' = Kept
        /\ Again' \in {Again, <<>>} /\ SameFaults
    BY <1>1, QuietStep
  <2>2. Fewer
    <3> SUFFICES ASSUME NEW e \in Event
                 PROVE  /\ Occurrences(buffer', e) + Occurrences(Kept', e)
                             <= Occurrences(buffer, e) + Occurrences(Kept, e)
                        /\ Copies(e)' + Occurrences(Again', e)
                             <= Copies(e) + Occurrences(Again, e)
      OBVIOUS
    <3>t. /\ Copies(e) = Occurrences(buffer, e) + Occurrences(Unsent, e)
                         + Occurrences(outQ, e) + Occurrences(Hand, e)
                         + Cardinality(Adrift(orphans, e)) + Occurrences(kafka, e)
          /\ Copies(e)' = Occurrences(buffer', e) + Occurrences(Unsent', e)
                         + Occurrences(outQ', e) + Occurrences(Hand', e)
                         + Cardinality(Adrift(orphans', e)) + Occurrences(kafka', e)
          /\ Occurrences(buffer, e) \in Nat /\ Occurrences(Unsent, e) \in Nat
          /\ Occurrences(outQ, e) \in Nat /\ Occurrences(Hand, e) \in Nat
          /\ Cardinality(Adrift(orphans, e)) \in Nat /\ Occurrences(kafka, e) \in Nat
          /\ Occurrences(Kept, e) \in Nat /\ Occurrences(Again, e) \in Nat
          /\ Occurrences(buffer', e) \in Nat /\ Occurrences(Unsent', e) \in Nat
          /\ Occurrences(outQ', e) \in Nat /\ Occurrences(Kept', e) \in Nat
          /\ Occurrences(Again', e) \in Nat
      BY <1>t
    <3>u. /\ Occurrences(buffer', e) = Occurrences(buffer, e)
          /\ Occurrences(Unsent', e) = Occurrences(Unsent, e)
          /\ Occurrences(outQ', e) = Occurrences(outQ, e)
          /\ Occurrences(Hand', e) = Occurrences(Hand, e)
          /\ Cardinality(Adrift(orphans', e)) = Cardinality(Adrift(orphans, e))
          /\ Occurrences(kafka', e) = Occurrences(kafka, e)
          /\ Occurrences(Kept', e) = Occurrences(Kept, e)
      BY <2>1
    <3>1. Occurrences(Again', e) <= Occurrences(Again, e)
      BY <3>t, <1>n, <2>1
    <3> QED
      BY <3>t, <3>u, <3>1
  <2> QED
    BY <1>0, <1>s, <2>1, <2>2, KeepsOnce, KeepsCopies
<1>2. CASE DrainTick
  <2>1. /\ UNCHANGED <<produced, outQ, kafka, orphans, faults, srv>>
        /\ Unsent = <<>> /\ Kept = <<>> /\ Again' = <<>>
        /\ Unsent' \in Seq(Event) /\ buffer' \in Seq(Event)
        /\ buffer = Unsent' \o buffer' /\ Kept' = Unsent'
    BY <1>2, TickStep
  <2>2. Hand' = Hand
    BY <2>1 DEF Hand
  <2>3. Fewer
    <3> SUFFICES ASSUME NEW e \in Event
                 PROVE  /\ Occurrences(buffer', e) + Occurrences(Kept', e)
                             <= Occurrences(buffer, e) + Occurrences(Kept, e)
                        /\ Copies(e)' + Occurrences(Again', e)
                             <= Copies(e) + Occurrences(Again, e)
      OBVIOUS
    <3>t. /\ Copies(e) = Occurrences(buffer, e) + Occurrences(Unsent, e)
                         + Occurrences(outQ, e) + Occurrences(Hand, e)
                         + Cardinality(Adrift(orphans, e)) + Occurrences(kafka, e)
          /\ Copies(e)' = Occurrences(buffer', e) + Occurrences(Unsent', e)
                         + Occurrences(outQ', e) + Occurrences(Hand', e)
                         + Cardinality(Adrift(orphans', e)) + Occurrences(kafka', e)
          /\ Occurrences(buffer, e) \in Nat /\ Occurrences(Unsent, e) \in Nat
          /\ Occurrences(outQ, e) \in Nat /\ Occurrences(Hand, e) \in Nat
          /\ Cardinality(Adrift(orphans, e)) \in Nat /\ Occurrences(kafka, e) \in Nat
          /\ Occurrences(Kept, e) \in Nat /\ Occurrences(Again, e) \in Nat
          /\ Occurrences(buffer', e) \in Nat /\ Occurrences(Unsent', e) \in Nat
          /\ Occurrences(outQ', e) \in Nat /\ Occurrences(Kept', e) \in Nat
          /\ Occurrences(Again', e) \in Nat
      BY <1>t
    <3>u. /\ Occurrences(outQ', e) = Occurrences(outQ, e)
          /\ Occurrences(Hand', e) = Occurrences(Hand, e)
          /\ Cardinality(Adrift(orphans', e)) = Cardinality(Adrift(orphans, e))
          /\ Occurrences(kafka', e) = Occurrences(kafka, e)
      BY <2>1, <2>2
    <3>1. Occurrences(buffer, e) = Occurrences(Unsent', e) + Occurrences(buffer', e)
      BY <2>1, ConcatOccurrences
    <3>2. Occurrences(Unsent, e) = 0 /\ Occurrences(Kept, e) = 0
          /\ Occurrences(Again', e) = 0 /\ Occurrences(Kept', e) = Occurrences(Unsent', e)
      BY <1>n, <2>1
    <3> QED
      BY <3>t, <3>u, <3>1, <3>2
  <2> QED
    BY <1>0, <1>s, <2>1, <2>3, KeepsOnce, KeepsCopies
<1>3. CASE SendOne
  <2>1. /\ UNCHANGED <<produced, buffer, kafka, orphans, faults, srv>>
        /\ Again = <<>> /\ Again' = <<>> /\ Kept' \in {Kept, <<>>}
        /\ \E x \in Event : /\ Unsent' \in Seq(Event) /\ Unsent = <<x>> \o Unsent'
                            /\ outQ' = outQ \o <<x>>
    BY <1>3, SendStep
  <2>2. PICK x \in Event : /\ Unsent' \in Seq(Event) /\ Unsent = <<x>> \o Unsent'
                           /\ outQ' = outQ \o <<x>>
    BY <2>1
  <2>3. Hand' = Hand
    BY <2>1 DEF Hand
  <2>4. Fewer
    <3> SUFFICES ASSUME NEW e \in Event
                 PROVE  /\ Occurrences(buffer', e) + Occurrences(Kept', e)
                             <= Occurrences(buffer, e) + Occurrences(Kept, e)
                        /\ Copies(e)' + Occurrences(Again', e)
                             <= Copies(e) + Occurrences(Again, e)
      OBVIOUS
    <3>t. /\ Copies(e) = Occurrences(buffer, e) + Occurrences(Unsent, e)
                         + Occurrences(outQ, e) + Occurrences(Hand, e)
                         + Cardinality(Adrift(orphans, e)) + Occurrences(kafka, e)
          /\ Copies(e)' = Occurrences(buffer', e) + Occurrences(Unsent', e)
                         + Occurrences(outQ', e) + Occurrences(Hand', e)
                         + Cardinality(Adrift(orphans', e)) + Occurrences(kafka', e)
          /\ Occurrences(buffer, e) \in Nat /\ Occurrences(Unsent, e) \in Nat
          /\ Occurrences(outQ, e) \in Nat /\ Occurrences(Hand, e) \in Nat
          /\ Cardinality(Adrift(orphans, e)) \in Nat /\ Occurrences(kafka, e) \in Nat
          /\ Occurrences(Kept, e) \in Nat /\ Occurrences(Again, e) \in Nat
          /\ Occurrences(buffer', e) \in Nat /\ Occurrences(Unsent', e) \in Nat
          /\ Occurrences(outQ', e) \in Nat /\ Occurrences(Kept', e) \in Nat
          /\ Occurrences(Again', e) \in Nat
      BY <1>t
    <3>u. /\ Occurrences(buffer', e) = Occurrences(buffer, e)
          /\ Occurrences(Hand', e) = Occurrences(Hand, e)
          /\ Cardinality(Adrift(orphans', e)) = Cardinality(Adrift(orphans, e))
          /\ Occurrences(kafka', e) = Occurrences(kafka, e)
      BY <2>1, <2>3
    <3>1. /\ Occurrences(Unsent, e) = Occurrences(<<x>>, e) + Occurrences(Unsent', e)
          /\ Occurrences(<<x>>, e) \in Nat
      BY <2>2, OneMoreOccurrence
    <3>2. Occurrences(outQ', e) = Occurrences(outQ, e) + Occurrences(<<x>>, e)
      BY <1>0, <2>2, OneMoreOccurrence
    <3>3. Occurrences(Kept', e) <= Occurrences(Kept, e)
      <4>1. Occurrences(Kept', e) = Occurrences(Kept, e) \/ Occurrences(Kept', e) = 0
        BY <1>n, <2>1, Zenon
      <4> QED
        BY <3>t, <4>1
    <3>4. Occurrences(Again, e) = 0 /\ Occurrences(Again', e) = 0
      BY <1>n, <2>1
    <3> QED
      BY <3>t, <3>u, <3>1, <3>2, <3>3, <3>4
  <2> QED
    BY <1>0, <1>s, <2>1, <2>4, KeepsOnce, KeepsCopies
<1>4. CASE SendFails
  <2>1. /\ UNCHANGED <<produced, buffer, outQ, kafka, orphans, faults, srv>>
        /\ Unsent' = Again \o Unsent /\ Again' = <<>> /\ Kept' = Kept
    BY <1>4, SendFailsStep
  <2>2. Hand' = Hand
    BY <2>1 DEF Hand
  <2>3. Fewer
    <3> SUFFICES ASSUME NEW e \in Event
                 PROVE  /\ Occurrences(buffer', e) + Occurrences(Kept', e)
                             <= Occurrences(buffer, e) + Occurrences(Kept, e)
                        /\ Copies(e)' + Occurrences(Again', e)
                             <= Copies(e) + Occurrences(Again, e)
      OBVIOUS
    <3>t. /\ Copies(e) = Occurrences(buffer, e) + Occurrences(Unsent, e)
                         + Occurrences(outQ, e) + Occurrences(Hand, e)
                         + Cardinality(Adrift(orphans, e)) + Occurrences(kafka, e)
          /\ Copies(e)' = Occurrences(buffer', e) + Occurrences(Unsent', e)
                         + Occurrences(outQ', e) + Occurrences(Hand', e)
                         + Cardinality(Adrift(orphans', e)) + Occurrences(kafka', e)
          /\ Occurrences(buffer, e) \in Nat /\ Occurrences(Unsent, e) \in Nat
          /\ Occurrences(outQ, e) \in Nat /\ Occurrences(Hand, e) \in Nat
          /\ Cardinality(Adrift(orphans, e)) \in Nat /\ Occurrences(kafka, e) \in Nat
          /\ Occurrences(Kept, e) \in Nat /\ Occurrences(Again, e) \in Nat
          /\ Occurrences(buffer', e) \in Nat /\ Occurrences(Unsent', e) \in Nat
          /\ Occurrences(outQ', e) \in Nat /\ Occurrences(Kept', e) \in Nat
          /\ Occurrences(Again', e) \in Nat
      BY <1>t
    <3>u. /\ Occurrences(buffer', e) = Occurrences(buffer, e)
          /\ Occurrences(outQ', e) = Occurrences(outQ, e)
          /\ Occurrences(Hand', e) = Occurrences(Hand, e)
          /\ Cardinality(Adrift(orphans', e)) = Cardinality(Adrift(orphans, e))
          /\ Occurrences(kafka', e) = Occurrences(kafka, e)
          /\ Occurrences(Kept', e) = Occurrences(Kept, e)
      BY <2>1, <2>2
    <3>1. Occurrences(Unsent', e) = Occurrences(Again, e) + Occurrences(Unsent, e)
      BY <1>0, <2>1, ConcatOccurrences
    <3>2. Occurrences(Again', e) = 0
      BY <1>n, <2>1
    <3> QED
      BY <3>t, <3>u, <3>1, <3>2
  <2> QED
    BY <1>0, <1>s, <2>1, <2>3, KeepsOnce, KeepsCopies
<1>5. CASE RequeueOne
  <2>1. /\ UNCHANGED <<produced, outQ, kafka, orphans, srv>>
        /\ Again = <<>> /\ Again' = <<>> /\ Kept = Unsent /\ Kept' = Unsent'
        /\ \E d \in Event :
              /\ Unsent' \in Seq(Event) /\ Unsent = <<d>> \o Unsent'
              /\ \/ /\ SameFaults
                    /\ \E x \in Seq(Event) : /\ buffer' \in Seq(Event)
                                             /\ buffer \o <<d>> = x \o buffer'
                                             /\ evicted' = evicted + Len(x)
                 \/ UNCHANGED <<buffer, evicted>> /\ OneMore("store")
    BY <1>5, RequeueStep
  <2>2. PICK d \in Event :
              /\ Unsent' \in Seq(Event) /\ Unsent = <<d>> \o Unsent'
              /\ \/ /\ SameFaults
                    /\ \E x \in Seq(Event) : /\ buffer' \in Seq(Event)
                                             /\ buffer \o <<d>> = x \o buffer'
                                             /\ evicted' = evicted + Len(x)
                 \/ UNCHANGED <<buffer, evicted>> /\ OneMore("store")
    BY <2>1
  <2>3. Hand' = Hand
    BY <2>1 DEF Hand
  <2>4. Fewer
    <3> SUFFICES ASSUME NEW e \in Event
                 PROVE  /\ Occurrences(buffer', e) + Occurrences(Kept', e)
                             <= Occurrences(buffer, e) + Occurrences(Kept, e)
                        /\ Copies(e)' + Occurrences(Again', e)
                             <= Copies(e) + Occurrences(Again, e)
      OBVIOUS
    <3>t. /\ Copies(e) = Occurrences(buffer, e) + Occurrences(Unsent, e)
                         + Occurrences(outQ, e) + Occurrences(Hand, e)
                         + Cardinality(Adrift(orphans, e)) + Occurrences(kafka, e)
          /\ Copies(e)' = Occurrences(buffer', e) + Occurrences(Unsent', e)
                         + Occurrences(outQ', e) + Occurrences(Hand', e)
                         + Cardinality(Adrift(orphans', e)) + Occurrences(kafka', e)
          /\ Occurrences(buffer, e) \in Nat /\ Occurrences(Unsent, e) \in Nat
          /\ Occurrences(outQ, e) \in Nat /\ Occurrences(Hand, e) \in Nat
          /\ Cardinality(Adrift(orphans, e)) \in Nat /\ Occurrences(kafka, e) \in Nat
          /\ Occurrences(Kept, e) \in Nat /\ Occurrences(Again, e) \in Nat
          /\ Occurrences(buffer', e) \in Nat /\ Occurrences(Unsent', e) \in Nat
          /\ Occurrences(outQ', e) \in Nat /\ Occurrences(Kept', e) \in Nat
          /\ Occurrences(Again', e) \in Nat
      BY <1>t
    <3>u. /\ Occurrences(outQ', e) = Occurrences(outQ, e)
          /\ Occurrences(Hand', e) = Occurrences(Hand, e)
          /\ Cardinality(Adrift(orphans', e)) = Cardinality(Adrift(orphans, e))
          /\ Occurrences(kafka', e) = Occurrences(kafka, e)
      BY <2>1, <2>3
    <3>1. /\ Occurrences(Unsent, e) = Occurrences(<<d>>, e) + Occurrences(Unsent', e)
          /\ Occurrences(<<d>>, e) \in Nat
      BY <2>2, OneMoreOccurrence
    <3>2. Occurrences(buffer', e) <= Occurrences(buffer, e) + Occurrences(<<d>>, e)
      <4>1. CASE buffer' = buffer
        BY <1>t, <3>1, <4>1
      <4>2. CASE \E x \in Seq(Event) : buffer' \in Seq(Event)
                                       /\ buffer \o <<d>> = x \o buffer'
        BY <1>0, <4>2, PushedOccurrences
      <4> QED
        BY <2>2, <4>1, <4>2
    <3>3. /\ Occurrences(Again, e) = 0 /\ Occurrences(Again', e) = 0
          /\ Occurrences(Kept, e) = Occurrences(Unsent, e)
          /\ Occurrences(Kept', e) = Occurrences(Unsent', e)
      BY <1>n, <2>1
    <3> QED
      BY <3>t, <3>u, <3>1, <3>2, <3>3
  <2> QED
    BY <1>0, <1>s, <2>1, <2>3, <2>4, KeepsOnce, KeepsCopies
<1> QED
  BY <1>1, <1>2, <1>3, <1>4, <1>5

\* The server: events move on towards Kafka.
LEMMA ServerCopies ==
    ASSUME Shape, Tallied', OnceInAgent, CopyBound,
           \/ ServerReceive \/ Ingest \/ IngestFails
           \/ OrphanIngest \/ OrphanIngestFails
    PROVE  OnceInAgent' /\ CopyBound'
<1>0. /\ buffer \in Seq(Event) /\ outQ \in Seq(Event)
      /\ Hand \in Seq(Event) /\ kafka \in Seq(Event)
      /\ Tallied /\ Slack \in Nat
  BY PartTypes, ShapeTallied, SlackStep
<1>1. UNCHANGED <<produced, buffer, drain, open>>
  BY DEF ServerReceive, Ingest, IngestFails, OrphanIngest, OrphanIngestFails, agentVars
<1>2. Unsent' = Unsent /\ Kept' = Kept /\ Again' = Again
  BY <1>1 DEF Unsent, Kept, Again, Sent
<1>3. Slack' = Slack
  <2>1. SameFaults \/ OneMore("ingest")
    BY ReceiveStep, IngestStep, IngestFailsStep, OrphanStep DEF SameFaults
  <2> QED
    BY <2>1, SlackStep DEF Moves
<1>4. ASSUME NEW e \in Event
      PROVE  Copies(e)' + Occurrences(Again', e) <= Copies(e) + Occurrences(Again, e)
  <2>t. /\ Copies(e) = Occurrences(buffer, e) + Occurrences(Unsent, e)
                       + Occurrences(outQ, e) + Occurrences(Hand, e)
                       + Cardinality(Adrift(orphans, e)) + Occurrences(kafka, e)
        /\ Copies(e)' = Occurrences(buffer', e) + Occurrences(Unsent', e)
                       + Occurrences(outQ', e) + Occurrences(Hand', e)
                       + Cardinality(Adrift(orphans', e)) + Occurrences(kafka', e)
        /\ Occurrences(buffer, e) \in Nat /\ Occurrences(Unsent, e) \in Nat
        /\ Occurrences(outQ, e) \in Nat /\ Occurrences(Hand, e) \in Nat
        /\ Cardinality(Adrift(orphans, e)) \in Nat /\ Occurrences(kafka, e) \in Nat
        /\ Occurrences(Again, e) \in Nat
        /\ Occurrences(outQ', e) \in Nat /\ Occurrences(Hand', e) \in Nat
        /\ Cardinality(Adrift(orphans', e)) \in Nat /\ Occurrences(kafka', e) \in Nat
    BY <1>0 DEF Tallied
  <2>u. /\ Occurrences(buffer', e) = Occurrences(buffer, e)
        /\ Occurrences(Unsent', e) = Occurrences(Unsent, e)
        /\ Occurrences(Again', e) = Occurrences(Again, e)
    BY <1>1, <1>2
  <2>1. Occurrences(outQ', e) + Occurrences(Hand', e) + Cardinality(Adrift(orphans', e))
           + Occurrences(kafka', e)
        <= Occurrences(outQ, e) + Occurrences(Hand, e) + Cardinality(Adrift(orphans, e))
           + Occurrences(kafka, e)
    <3>1. CASE ServerReceive
      <4>1. /\ UNCHANGED <<kafka, orphans>>
            /\ Hand = <<>> /\ Hand' \in Seq(Event) /\ outQ' \in Seq(Event)
            /\ outQ = Hand' \o outQ'
        BY <3>1, ReceiveStep
      <4>2. Occurrences(outQ, e) = Occurrences(Hand', e) + Occurrences(outQ', e)
        BY <4>1, ConcatOccurrences
      <4>3. /\ Occurrences(Hand, e) = 0
            /\ Occurrences(kafka', e) = Occurrences(kafka, e)
            /\ Cardinality(Adrift(orphans', e)) = Cardinality(Adrift(orphans, e))
        BY <4>1, NoOccurrence
      <4> QED
        BY <2>t, <4>2, <4>3
    <3>2. CASE Ingest
      <4>1. UNCHANGED <<outQ, orphans>> /\ Hand' = <<>> /\ kafka' = kafka \o Hand
        BY <3>2, IngestStep
      <4>2. Occurrences(kafka', e) = Occurrences(kafka, e) + Occurrences(Hand, e)
        BY <1>0, <4>1, ConcatOccurrences
      <4>3. /\ Occurrences(Hand', e) = 0
            /\ Occurrences(outQ', e) = Occurrences(outQ, e)
            /\ Cardinality(Adrift(orphans', e)) = Cardinality(Adrift(orphans, e))
        BY <4>1, NoOccurrence
      <4> QED
        BY <2>t, <4>2, <4>3
    <3>3. CASE IngestFails
      <4>1. UNCHANGED <<outQ, orphans, kafka>> /\ Hand' = <<>>
        BY <3>3, IngestFailsStep
      <4>2. /\ Occurrences(Hand', e) = 0
            /\ Occurrences(outQ', e) = Occurrences(outQ, e)
            /\ Occurrences(kafka', e) = Occurrences(kafka, e)
            /\ Cardinality(Adrift(orphans', e)) = Cardinality(Adrift(orphans, e))
        BY <4>1, NoOccurrence
      <4> QED
        BY <2>t, <4>2
    <3>4. CASE OrphanIngest \/ OrphanIngestFails
      <4>1. UNCHANGED <<outQ, srv>>
            /\ \E o \in orphans : /\ OrphanMoves(o) /\ Head(o.rest) \in Event
                                  /\ \/ kafka' = kafka \o <<Head(o.rest)>>
                                     \/ UNCHANGED kafka
        BY <3>4, OrphanStep
      <4>2. PICK o \in orphans : /\ OrphanMoves(o) /\ Head(o.rest) \in Event
                                 /\ \/ kafka' = kafka \o <<Head(o.rest)>>
                                    \/ UNCHANGED kafka
        BY <4>1
      <4>3. /\ IsFiniteSet(orphans) /\ Len(o.rest) <= OutCap + 1 /\ o \in Orphan
            /\ o.rest \in Seq(Event) /\ o.rest # <<>>
        BY DEF Shape, OrphanShape, IInv, ServerOK, Orphan
      <4> DEFINE n == Occurrences(<<Head(o.rest)>>, e)
                 r == Occurrences(Tail(o.rest), e)
                 w == Cardinality(Adrift(orphans \ {o}, e))
      <4>4. /\ Tail(o.rest) \in Seq(Event) /\ o.rest = <<Head(o.rest)>> \o Tail(o.rest)
            /\ Len(Tail(o.rest)) = Len(o.rest) - 1 /\ Len(o.rest) \in Nat
        BY <4>3, HeadFirst
      <4>5. n \in Nat /\ r \in Nat /\ Occurrences(o.rest, e) = n + r
        BY <4>2, <4>4, OneMoreOccurrence
      <4>6. /\ Cardinality(Adrift(orphans, e)) = w + Occurrences(o.rest, e)
            /\ w \in Nat /\ IsFiniteSet(orphans \ {o})
        BY <4>3, AdriftRemove
      <4>7. Cardinality(Adrift(orphans', e)) <= w + r
        <5>1. CASE orphans' = orphans \ {o}
          BY <4>5, <4>6, <5>1
        <5>2. CASE orphans' = (orphans \ {o}) \cup {[o EXCEPT !.rest = Tail(@)]}
          <6> DEFINE v == [o EXCEPT !.rest = Tail(@)]
          <6>1. v.rest = Tail(o.rest)
            BY <4>3 DEF Orphan
          <6>2. Len(v.rest) <= OutCap + 1 /\ v.rest \in Seq(Event)
            BY <4>3, <4>4, <6>1, CapacityAssumption
          <6> HIDE DEF v
          <6>3. Cardinality(Adrift((orphans \ {o}) \cup {v}, e))
                   <= w + Occurrences(v.rest, e)
            BY <4>6, <6>2, AdriftAdd
          <6> QED
            BY <5>2, <6>1, <6>3 DEF v
        <5> QED
          BY <4>2, <5>1, <5>2 DEF OrphanMoves
      <4>8. Occurrences(kafka', e) <= Occurrences(kafka, e) + n
        <5>1. CASE kafka' = kafka \o <<Head(o.rest)>>
          <6>1. Occurrences(kafka', e) = Occurrences(kafka, e) + n
            BY <1>0, <4>2, <5>1, OneMoreOccurrence
          <6> HIDE DEF n
          <6> QED
            BY <2>t, <4>5, <6>1
        <5>2. CASE kafka' = kafka
          <6>1. Occurrences(kafka', e) = Occurrences(kafka, e)
            BY <5>2
          <6> HIDE DEF n
          <6> QED
            BY <2>t, <4>5, <6>1
        <5> QED
          BY <4>2, <5>1, <5>2
      <4>9. /\ Occurrences(Hand', e) = Occurrences(Hand, e)
            /\ Occurrences(outQ', e) = Occurrences(outQ, e)
        <5>1. Hand' = Hand
          BY <4>1 DEF Hand
        <5> QED
          BY <4>1, <5>1
      <4> HIDE DEF n, r, w
      <4> QED
        BY <2>t, <4>5, <4>6, <4>7, <4>8, <4>9
    <3> QED
      BY <3>1, <3>2, <3>3, <3>4
  <2> QED
    BY <2>t, <2>u, <2>1
<1>5. \A e \in Event : Occurrences(buffer', e) + Occurrences(Kept', e)
                          <= Occurrences(buffer, e) + Occurrences(Kept, e)
  <2>1. \A e \in Event : Occurrences(buffer, e) \in Nat /\ Occurrences(Kept, e) \in Nat
    BY PartTypes, OccurrencesType
  <2>2. \A e \in Event : Occurrences(buffer, e) + Occurrences(Kept, e) \in Nat
    BY <2>1
  <2> QED
    BY <1>1, <1>2, <2>2
<1> QED
  BY <1>0, <1>1, <1>3, <1>4, <1>5, KeepsOnce, KeepsCopies

\* The end of a stream adds no copy; when the drain loop is in the middle of
\* a batch it will be sent again, an event of it once.
LEMMA BreakCopies ==
    ASSUME Shape, Tallied', OnceInAgent, CopyBound,
           Disconnect \/ ServerDies \/ AgentDies
    PROVE  OnceInAgent' /\ CopyBound'
<1>0. /\ buffer \in Seq(Event) /\ outQ \in Seq(Event) /\ Unsent \in Seq(Event)
      /\ Hand \in Seq(Event) /\ kafka \in Seq(Event) /\ Sent \in Seq(Event)
      /\ drain.batch = Sent \o Unsent
      /\ Tallied /\ Slack \in Nat
  BY PartTypes, ShapeTallied, SlackStep
<1>1. /\ UNCHANGED <<produced, buffer, kafka>>
      /\ outQ' = <<>> /\ Hand' = <<>>
      /\ \/ UNCHANGED drain /\ open /\ OneMore("disconnect")
         \/ drain' = Idle /\ OneMore("crash")
  BY BreakStep
<1>2. PICK a \in Seq(Event), b \in Seq(Event) :
         /\ outQ = a \o b
         /\ Len(Hand \o a) <= OutCap + 1
         /\ \/ orphans' = orphans
            \/ orphans' = orphans \cup {[n |-> Breaks, rest |-> Hand \o a]}
            \/ orphans' = {}
  BY BreakStep
<1>3. \/ /\ Unsent' = Unsent /\ Kept' = Kept /\ Again = <<>>
         /\ Again' = <<>> \/ (Again' = Sent /\ Kept = drain.batch)
         /\ Slack' = Slack + 1
      \/ /\ Unsent' = <<>> /\ Kept' = <<>> /\ Again' = <<>>
         /\ Slack' = Slack
  <2>1. CASE UNCHANGED drain /\ open /\ OneMore("disconnect")
    <3>1. Unsent' = Unsent /\ Kept' = Kept /\ Sent' = Sent
      BY <2>1 DEF Unsent, Kept, Sent
    <3>2. Again = <<>>
      BY <2>1 DEF Again
    <3>3. Again' = <<>> \/ (Again' = Sent /\ Kept = drain.batch)
      <4>1. drain' = drain
        BY <2>1
      <4>2. CASE drain.pc = "send"
        <5>1. Kept = drain.batch
          BY <4>2 DEF Kept
        <5>2. Again' = <<>> \/ Again' = Sent'
          BY DEF Again
        <5>3. Again' = <<>> \/ Again' = Sent
          BY <3>1, <5>2, Zenon
        <5> QED
          BY <5>1, <5>3, Zenon
      <4>3. CASE drain.pc # "send"
        <5>1. drain'.pc # "send"
          BY <4>1, <4>3
        <5>2. Again' = <<>>
          BY <5>1 DEF Again
        <5> QED
          BY <5>2, Zenon
      <4> QED
        BY <4>2, <4>3
    <3>4. Slack' = Slack + 1
      BY <2>1, SlackStep DEF Moves
    <3> QED
      BY <3>1, <3>2, <3>3, <3>4
  <2>2. CASE drain' = Idle /\ OneMore("crash")
    <3>1. Slack' = Slack
      BY <2>2, SlackStep DEF Moves
    <3> QED
      BY <2>2, <3>1, IdleParts
  <2> QED
    BY <1>1, <2>1, <2>2
<1>4. ASSUME NEW e \in Event
      PROVE  /\ Occurrences(buffer', e) + Occurrences(Kept', e)
                   <= IF e \in 1..produced' THEN 1 ELSE 0
             /\ Copies(e)' + Occurrences(Again', e)
                   <= IF e \in 1..produced' THEN 1 + Slack' ELSE 0
  <2>t. /\ Copies(e) = Occurrences(buffer, e) + Occurrences(Unsent, e)
                       + Occurrences(outQ, e) + Occurrences(Hand, e)
                       + Cardinality(Adrift(orphans, e)) + Occurrences(kafka, e)
        /\ Copies(e)' = Occurrences(buffer', e) + Occurrences(Unsent', e)
                       + Occurrences(outQ', e) + Occurrences(Hand', e)
                       + Cardinality(Adrift(orphans', e)) + Occurrences(kafka', e)
        /\ Occurrences(buffer, e) \in Nat /\ Occurrences(Unsent, e) \in Nat
        /\ Occurrences(outQ, e) \in Nat /\ Occurrences(Hand, e) \in Nat
        /\ Cardinality(Adrift(orphans, e)) \in Nat /\ Occurrences(kafka, e) \in Nat
        /\ Occurrences(Again, e) \in Nat /\ Occurrences(Kept, e) \in Nat
        /\ Cardinality(Adrift(orphans', e)) \in Nat
    BY <1>0 DEF Tallied
  <2>i. /\ Occurrences(buffer, e) + Occurrences(Kept, e)
             <= IF e \in 1..produced THEN 1 ELSE 0
        /\ Copies(e) + Occurrences(Again, e)
             <= IF e \in 1..produced THEN 1 + Slack ELSE 0
    BY DEF OnceInAgent, CopyBound
  <2>1. /\ Occurrences(buffer', e) = Occurrences(buffer, e)
        /\ Occurrences(kafka', e) = Occurrences(kafka, e)
        /\ Occurrences(outQ', e) = 0 /\ Occurrences(Hand', e) = 0
        /\ produced' = produced
    BY <1>1, NoOccurrence
  <2>2. Cardinality(Adrift(orphans', e))
          <= Occurrences(outQ, e) + Occurrences(Hand, e) + Cardinality(Adrift(orphans, e))
    <3>1. CASE orphans' = orphans
      <4>1. Cardinality(Adrift(orphans', e)) = Cardinality(Adrift(orphans, e))
        BY <3>1
      <4> QED
        BY <2>t, <4>1
    <3>2. CASE orphans' = {}
      <4>1. Adrift(orphans', e) = {}
        BY <3>2 DEF Adrift
      <4>2. Cardinality(Adrift(orphans', e)) = 0
        BY <4>1, FS_EmptySet
      <4> QED
        BY <2>t, <4>2
    <3>3. CASE orphans' = orphans \cup {[n |-> Breaks, rest |-> Hand \o a]}
      <4> DEFINE w == [n |-> Breaks, rest |-> Hand \o a]
      <4>1. w.rest = Hand \o a /\ Hand \o a \in Seq(Event)
        BY <1>0, <1>2, ConcatProperties
      <4> HIDE DEF w
      <4>2. w.rest \in Seq(Event) /\ Len(w.rest) <= OutCap + 1 /\ IsFiniteSet(orphans)
        BY <1>2, <4>1 DEF Shape, OrphanShape
      <4>3. Cardinality(Adrift(orphans \cup {w}, e))
               <= Cardinality(Adrift(orphans, e)) + Occurrences(w.rest, e)
        BY <4>2, AdriftAdd
      <4>4. Occurrences(Hand \o a, e) = Occurrences(Hand, e) + Occurrences(a, e)
        BY <1>0, <1>2, ConcatOccurrences
      <4>5. Occurrences(outQ, e) = Occurrences(a, e) + Occurrences(b, e)
        BY <1>2, ConcatOccurrences
      <4>6. Occurrences(a, e) \in Nat /\ Occurrences(b, e) \in Nat
        BY <1>2, OccurrencesType
      <4>7. Cardinality(Adrift(orphans', e)) = Cardinality(Adrift(orphans \cup {w}, e))
        BY <3>3 DEF w
      <4>8. Occurrences(w.rest, e) = Occurrences(Hand, e) + Occurrences(a, e)
        BY <4>1, <4>4
      <4> QED
        BY <2>t, <4>3, <4>5, <4>6, <4>7, <4>8, SMTT(60)
    <3> QED
      BY <1>2, <3>1, <3>2, <3>3
  <2>3. CASE /\ Unsent' = Unsent /\ Kept' = Kept /\ Again = <<>>
             /\ Again' = <<>> \/ (Again' = Sent /\ Kept = drain.batch)
             /\ Slack' = Slack + 1
    <3>1. /\ Occurrences(Unsent', e) = Occurrences(Unsent, e)
          /\ Occurrences(Kept', e) = Occurrences(Kept, e)
          /\ Occurrences(Again, e) = 0
      BY <2>3, NoOccurrence
    <3>2. /\ Occurrences(Again', e) \in Nat
          /\ Occurrences(Again', e) <= Occurrences(Kept, e)
      <4>1. CASE Again' = <<>>
        <5>1. Occurrences(Again', e) = 0
          BY <4>1, NoOccurrence
        <5> QED
          BY <2>t, <5>1
      <4>2. CASE Again' = Sent /\ Kept = drain.batch
        <5>1. Occurrences(Kept, e) = Occurrences(Sent, e) + Occurrences(Unsent, e)
          BY <1>0, <4>2, ConcatOccurrences
        <5>2. Occurrences(Sent, e) \in Nat /\ Occurrences(Again', e) = Occurrences(Sent, e)
          BY <1>0, <4>2, OccurrencesType
        <5> QED
          BY <2>t, <5>1, <5>2
      <4> QED
        BY <2>3, <4>1, <4>2
    <3>3. Copies(e)' <= Copies(e) /\ Copies(e)' \in Nat /\ Copies(e) \in Nat
      BY <2>t, <2>1, <2>2, <3>1, SMTT(60)
    <3>4. Slack' = Slack + 1
      BY <2>3
    <3> QED
      <4>1. Slack \in Nat
        BY <1>0
      <4>2. Occurrences(buffer, e) \in Nat /\ Occurrences(Kept, e) \in Nat
        BY <2>t
      <4>3. CASE e \in 1..produced
        BY <2>i, <2>1, <3>1, <3>2, <3>3, <3>4, <4>1, <4>2, <4>3
      <4>4. CASE e \notin 1..produced
        BY <2>i, <2>1, <3>1, <3>2, <3>3, <3>4, <4>1, <4>2, <4>4
      <4> QED
        BY <4>3, <4>4
  <2>4. CASE /\ Unsent' = <<>> /\ Kept' = <<>> /\ Again' = <<>>
             /\ Slack' = Slack
    <3>1. /\ Occurrences(Unsent', e) = 0 /\ Occurrences(Kept', e) = 0
          /\ Occurrences(Again', e) = 0
      BY <2>4, NoOccurrence
    <3>2. Copies(e)' <= Copies(e) /\ Copies(e)' \in Nat /\ Copies(e) \in Nat
      BY <2>t, <2>1, <2>2, <3>1, SMTT(60)
    <3>3. Slack' = Slack
      BY <2>4
    <3> QED
      <4>1. Slack \in Nat
        BY <1>0
      <4>2. /\ Occurrences(buffer, e) \in Nat /\ Occurrences(Kept, e) \in Nat
            /\ Occurrences(Again, e) \in Nat
        BY <2>t
      <4>3. CASE e \in 1..produced
        BY <2>i, <2>1, <3>1, <3>2, <3>3, <4>1, <4>2, <4>3
      <4>4. CASE e \notin 1..produced
        BY <2>i, <2>1, <3>1, <3>2, <3>3, <4>1, <4>2, <4>4
      <4> QED
        BY <4>3, <4>4
  <2> QED
    BY <1>3, <2>3, <2>4
<1> QED
  BY <1>4 DEF OnceInAgent, CopyBound

\* A request without an answer is for an event that has been collected.
PendingKnown == \A u \in unanswered : u.ev \in 1..produced

\* Steps that are not the producer's keep that: no request joins, and what has
\* been collected stays so.
LEMMA PendingStays ==
    ASSUME Shape, PendingKnown, Moves
    PROVE  PendingKnown'
<1>1. CountersOK /\ RequestsOK /\ produced \in Nat
  BY PartTypes DEF Shape, IInv
<1>2. unanswered' = unanswered
  BY <1>1, OthersAnswer DEF Moves, Quiet, AgentNext, ServerNext, FaultNext
<1>3. produced' = produced \/ produced' = produced + 1
  <2>1. CASE Quiet
    BY <2>1, QuietStep
  <2>2. CASE Collect
    BY <2>2 DEF Collect
  <2>3. CASE \/ DrainTick \/ SendOne \/ SendFails \/ RequeueOne
             \/ ServerReceive \/ Ingest \/ IngestFails
             \/ OrphanIngest \/ OrphanIngestFails
    BY <2>3 DEF DrainTick, SendOne, SendFails, RequeueOne, ServerReceive, Ingest,
                IngestFails, OrphanIngest, OrphanIngestFails
  <2>4. CASE Disconnect \/ ServerDies \/ AgentDies
    BY <2>4 DEF Disconnect, ServerDies, AgentDies
  <2> QED
    BY <2>1, <2>2, <2>3, <2>4 DEF Moves
<1>4. \A u \in unanswered : u.ev \in Nat
  BY <1>1, FaultAssumption DEF RequestsOK, Event
<1> QED
  BY <1>1, <1>2, <1>3, <1>4 DEF PendingKnown

\* An event in the hand of a task has been collected.
LEMMA HeldIsKnown ==
    ASSUME Shape, CopyBound, NEW e \in Event,
           \/ srv.pc = "publish" /\ e = srv.ev
           \/ \E o \in orphans : e = Head(o.rest)
    PROVE  e \in 1..produced
<1>1. /\ Copies(e) = Occurrences(buffer, e) + Occurrences(Unsent, e)
                     + Occurrences(outQ, e) + Occurrences(Hand, e)
                     + Cardinality(Adrift(orphans, e)) + Occurrences(kafka, e)
      /\ Occurrences(buffer, e) \in Nat /\ Occurrences(Unsent, e) \in Nat
      /\ Occurrences(outQ, e) \in Nat /\ Occurrences(Hand, e) \in Nat
      /\ Cardinality(Adrift(orphans, e)) \in Nat /\ Occurrences(kafka, e) \in Nat
      /\ Occurrences(Again, e) \in Nat
  BY ShapeTallied DEF Tallied
<1>2. Occurrences(Hand, e) # 0 \/ Cardinality(Adrift(orphans, e)) # 0
  <2>1. CASE srv.pc = "publish" /\ e = srv.ev
    <3>1. Hand = <<e>>
      BY <2>1 DEF Hand
    <3>2. Occurrences(<<e>>, e) = 1
      BY SingleOccurrence
    <3> QED
      BY <3>1, <3>2
  <2>2. CASE \E o \in orphans : e = Head(o.rest)
    <3>1. PICK o \in orphans : e = Head(o.rest)
      BY <2>2
    <3>2. /\ IsFiniteSet(orphans) /\ o.rest \in Seq(Event) /\ o.rest # <<>>
          /\ OutCap \in Nat
      BY CapacityAssumption DEF Shape, OrphanShape, IInv, ServerOK, Orphan
    <3>3. 1 \in DOMAIN o.rest /\ o.rest[1] = e
      BY <3>1, <3>2
    <3>4. <<o, 1>> \in Adrift(orphans, e)
      BY <3>2, <3>3 DEF Adrift
    <3> QED
      BY <3>2, <3>4, AdriftFinite, FS_EmptySet
  <2> QED
    BY <2>1, <2>2
<1>3. Copies(e) + Occurrences(Again, e) # 0
  <2> DEFINE a == Occurrences(buffer, e)
             b == Occurrences(Unsent, e)
             c == Occurrences(outQ, e)
             h == Occurrences(Hand, e)
             w == Cardinality(Adrift(orphans, e))
             k == Occurrences(kafka, e)
             r == Occurrences(Again, e)
             n == Copies(e)
  <2>1. /\ n = a + b + c + h + w + k /\ (h # 0 \/ w # 0)
        /\ a \in Nat /\ b \in Nat /\ c \in Nat /\ h \in Nat
        /\ w \in Nat /\ k \in Nat /\ r \in Nat
    BY <1>1, <1>2
  <2> HIDE DEF a, b, c, h, w, k, r, n
  <2>2. n + r # 0
    BY <2>1
  <2> QED
    BY <2>2 DEF n, r
<1>4. Copies(e) + Occurrences(Again, e) <= IF e \in 1..produced THEN 1 + Slack ELSE 0
  BY DEF CopyBound
<1>5. Copies(e) + Occurrences(Again, e) \in Nat
  BY <1>1
<1> QED
  BY <1>3, <1>4, <1>5

\* The producer: a request that is carried out after all adds the copy that
\* was counted when it got no answer.
LEMMA ProducerCopies ==
    ASSUME Shape, Tallied', OnceInAgent, CopyBound, PendingKnown, ProducerNext
    PROVE  OnceInAgent' /\ CopyBound' /\ PendingKnown'
<1>0. /\ Tallied /\ Slack \in Nat /\ RequestsOK /\ CountersOK /\ kafka \in Seq(Event)
      /\ Cardinality(unanswered) \in Nat /\ faults["disconnect"] \in Nat
      /\ faults["unanswered"] \in Nat
  BY ShapeTallied, SlackStep, PartTypes, FS_CardinalityType
     DEF Shape, IInv, RequestsOK, CountersOK, FaultKind
<1>1. UNCHANGED <<produced, buffer, drain, open, outQ, srv, orphans>>
  BY ProducerStep
<1>2. Unsent' = Unsent /\ Kept' = Kept /\ Again' = Again /\ Hand' = Hand
  BY <1>1 DEF Unsent, Kept, Again, Sent, Hand
<1>3. OnceInAgent'
  BY <1>1, <1>2 DEF OnceInAgent
<1>4. ASSUME NEW e \in Event
      PROVE  /\ Copies(e)' = Copies(e) - Occurrences(kafka, e) + Occurrences(kafka', e)
             /\ Copies(e) \in Nat /\ Occurrences(kafka, e) \in Nat
             /\ Occurrences(kafka', e) \in Nat
             /\ Occurrences(Again', e) = Occurrences(Again, e)
             /\ Occurrences(Again, e) \in Nat
  <2>1. /\ Copies(e) = Occurrences(buffer, e) + Occurrences(Unsent, e)
                       + Occurrences(outQ, e) + Occurrences(Hand, e)
                       + Cardinality(Adrift(orphans, e)) + Occurrences(kafka, e)
        /\ Copies(e)' = Occurrences(buffer', e) + Occurrences(Unsent', e)
                       + Occurrences(outQ', e) + Occurrences(Hand', e)
                       + Cardinality(Adrift(orphans', e)) + Occurrences(kafka', e)
        /\ Occurrences(buffer, e) \in Nat /\ Occurrences(Unsent, e) \in Nat
        /\ Occurrences(outQ, e) \in Nat /\ Occurrences(Hand, e) \in Nat
        /\ Cardinality(Adrift(orphans, e)) \in Nat /\ Occurrences(kafka, e) \in Nat
        /\ Occurrences(kafka', e) \in Nat /\ Occurrences(Again, e) \in Nat
    BY <1>0 DEF Tallied
  <2>2. /\ Occurrences(buffer', e) = Occurrences(buffer, e)
        /\ Occurrences(Unsent', e) = Occurrences(Unsent, e)
        /\ Occurrences(outQ', e) = Occurrences(outQ, e)
        /\ Occurrences(Hand', e) = Occurrences(Hand, e)
        /\ Cardinality(Adrift(orphans', e)) = Cardinality(Adrift(orphans, e))
        /\ Occurrences(Again', e) = Occurrences(Again, e)
    BY <1>1, <1>2
  <2> QED
    BY <2>1, <2>2
<1>5. CASE /\ UNCHANGED kafka /\ OneMore("unanswered")
           /\ \E u : unanswered' = unanswered \cup {u} /\ u.ev \in Event
                     /\ \/ srv.pc = "publish" /\ u.ev = srv.ev
                        \/ \E o \in orphans : u.ev = Head(o.rest)
  <2>1. PICK u : unanswered' = unanswered \cup {u} /\ u.ev \in Event
                 /\ \/ srv.pc = "publish" /\ u.ev = srv.ev
                    \/ \E o \in orphans : u.ev = Head(o.rest)
    BY <1>5
  <2>2. u.ev \in 1..produced
    BY <2>1, HeldIsKnown
  <2>3. PendingKnown'
    BY <1>1, <2>1, <2>2 DEF PendingKnown
  <2>4. /\ Cardinality(unanswered') \in Nat
        /\ Cardinality(unanswered') <= Cardinality(unanswered) + 1
    <3>1. IsFiniteSet(unanswered)
      BY <1>0 DEF RequestsOK
    <3>2. /\ IsFiniteSet(unanswered')
          /\ Cardinality(unanswered') =
               IF u \in unanswered THEN Cardinality(unanswered)
               ELSE Cardinality(unanswered) + 1
      BY <2>1, <3>1, FS_AddElement, Zenon
    <3> QED
      BY <1>0, <3>2
  <2>5. Slack' \in Int /\ Slack <= Slack'
    <3>1. /\ faults'["disconnect"] = faults["disconnect"]
          /\ faults'["unanswered"] = faults["unanswered"] + 1
      BY <1>5 DEF OneMore, Counted
    <3> QED
      BY <1>0, <2>4, <3>1 DEF Slack
  <2>6. ASSUME NEW e \in Event
        PROVE  Copies(e)' + Occurrences(Again', e)
                  <= IF e \in 1..produced' THEN 1 + Slack' ELSE 0
    <3>1. Copies(e) + Occurrences(Again, e) <= IF e \in 1..produced THEN 1 + Slack ELSE 0
      BY DEF CopyBound
    <3>2. Copies(e)' = Copies(e)
      <4>1. Occurrences(kafka', e) = Occurrences(kafka, e)
        BY <1>5
      <4> QED
        BY <1>4, <4>1
    <3> QED
      BY <1>0, <1>1, <1>4, <2>5, <3>1, <3>2
  <2> QED
    BY <1>3, <2>3, <2>6 DEF CopyBound
<1>6. CASE \E u \in unanswered :
              /\ u.ev \in Event /\ UNCHANGED faults
              /\ unanswered' = unanswered \ {u}
              /\ \/ kafka' = kafka \o <<u.ev>>
                 \/ UNCHANGED kafka
  <2>1. PICK u \in unanswered :
              /\ u.ev \in Event /\ UNCHANGED faults
              /\ unanswered' = unanswered \ {u}
              /\ \/ kafka' = kafka \o <<u.ev>>
                 \/ UNCHANGED kafka
    BY <1>6
  <2>2. u.ev \in 1..produced
    BY DEF PendingKnown
  <2>3. PendingKnown'
    BY <1>1, <2>1 DEF PendingKnown
  <2>4. Cardinality(unanswered') = Cardinality(unanswered) - 1
    BY <1>0, <2>1, FS_RemoveElement DEF RequestsOK
  <2>5. Slack' = Slack + 1
    BY <1>0, <2>1, <2>4 DEF Slack
  <2>6. ASSUME NEW e \in Event
        PROVE  Copies(e)' + Occurrences(Again', e)
                  <= IF e \in 1..produced' THEN 1 + Slack' ELSE 0
    <3>1. Copies(e) + Occurrences(Again, e) <= IF e \in 1..produced THEN 1 + Slack ELSE 0
      BY DEF CopyBound
    <3>2. Occurrences(kafka', e) <= Occurrences(kafka, e) + (IF u.ev = e THEN 1 ELSE 0)
      <4>1. CASE kafka' = kafka \o <<u.ev>>
        <5>1. /\ Occurrences(<<u.ev>>, e) = IF u.ev = e THEN 1 ELSE 0
              /\ Occurrences(kafka', e) = Occurrences(kafka, e) + Occurrences(<<u.ev>>, e)
          BY <1>0, <2>1, <4>1, OneMoreOccurrence, SingleOccurrence
        <5> QED
          BY <1>4, <5>1
      <4>2. CASE kafka' = kafka
        <5>1. Occurrences(kafka', e) = Occurrences(kafka, e)
          BY <4>2
        <5> QED
          BY <1>4, <5>1
      <4> QED
        BY <2>1, <4>1, <4>2
    <3>3. produced' = produced
      BY <1>1
    <3>4. CASE u.ev = e
      BY <1>0, <1>4, <2>2, <2>5, <3>1, <3>2, <3>3, <3>4
    <3>5. CASE u.ev # e
      BY <1>0, <1>4, <2>5, <3>1, <3>2, <3>3, <3>5
    <3> QED
      BY <3>4, <3>5
  <2> QED
    BY <1>3, <2>3, <2>6 DEF CopyBound
<1> QED
  BY <1>5, <1>6, ProducerStep

\* Duplication has a cause: through any interleaving, an event never has more
\* copies on the way than one, the streams that broke and the produce
\* requests that got no answer.
THEOREM DuplicatesAreBounded == Spec => []CopiesHaveCause
<1>1. Shape /\ CopyBound => CopiesHaveCause
  <2> SUFFICES ASSUME Shape, CopyBound, NEW e \in Event
               PROVE  Copies(e) <= 1 + faults["disconnect"] + faults["unanswered"]
    BY DEF CopiesHaveCause
  <2>1. Copies(e) \in Nat /\ Occurrences(Again, e) \in Nat
    BY ShapeTallied DEF Tallied
  <2>2. /\ Slack \in Nat /\ Slack <= faults["disconnect"] + faults["unanswered"]
        /\ faults["disconnect"] \in Nat /\ faults["unanswered"] \in Nat
    <3>1. /\ faults["disconnect"] \in Nat /\ faults["unanswered"] \in Nat
          /\ Cardinality(unanswered) \in Nat
      BY FS_CardinalityType DEF Shape, IInv, CountersOK, FaultKind, RequestsOK
    <3> QED
      BY <3>1, SlackStep DEF Slack
  <2>3. Copies(e) + Occurrences(Again, e)
           <= IF e \in 1..produced THEN 1 + Slack ELSE 0
    BY DEF CopyBound
  <2> QED
    BY <2>1, <2>2, <2>3
<1>2. Shape /\ Tallied' /\ OnceInAgent /\ CopyBound /\ PendingKnown /\ [Next]_vars
         => OnceInAgent' /\ CopyBound' /\ PendingKnown'
  <2> SUFFICES ASSUME Shape, Tallied', OnceInAgent, CopyBound, PendingKnown, [Next]_vars
               PROVE  OnceInAgent' /\ CopyBound' /\ PendingKnown'
    OBVIOUS
  <2>1. Moves \/ ProducerNext
    BY Steps DEF Moves
  <2>2. CASE Moves
    BY <2>2, PendingStays, CollectCopies, AgentCopies, ServerCopies, BreakCopies DEF Moves
  <2>3. CASE ProducerNext
    BY <2>3, ProducerCopies
  <2> QED
    BY <2>1, <2>2, <2>3
<1>3. Init => PendingKnown
  BY DEF Init, PendingKnown
<1> QED
  BY <1>1, <1>2, <1>3, InitCopies, ShapeTallied, ShapeInvariance, PTL DEF Spec

=============================================================================
