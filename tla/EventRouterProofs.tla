------------------------- MODULE EventRouterProofs -------------------------
(***************************************************************************)
(* Proofs about the router for any number of workers, records, crashes and *)
(* rebalances.                                                             *)
(*                                                                         *)
(* CommittedIsSettled is not inductive.  What a commit may claim is known  *)
(* to the worker that asks for it: everything before the record in its     *)
(* hand is settled, whoever did it (HandsAfterSettled), and everything the *)
(* owner has fetched is settled but for the record in its hand             *)
(* (FetchedIsSettled).  The first holds also for a worker that has lost    *)
(* the partition, which is why its late commit is harmless when it has the *)
(* partition again.  Copies are bounded because an assignment fetches a    *)
(* record once: what is written and what is in hands is counted together   *)
(* (CopiesToCome).                                                         *)
(***************************************************************************)
EXTENDS EventRouter, FiniteSetTheorems, TLAPS

Prefix(n) == \A o \in 1..n : Settled(o)

HandsAfterSettled ==
    \A w \in Worker :
        /\ stage[w] # "idle" => hand[w] \in 1..Len(raw) /\ Prefix(hand[w] - 1)
        /\ stage[w] = "sent" => Settled(hand[w])

FetchedIsSettled ==
    owner # NoWorker =>
        \A o \in 1..position :
            Settled(o) \/ (stage[owner] = "got" /\ hand[owner] = o)

\* The inductive invariant.
IInv ==
    /\ TypeOK
    /\ HandsAfterSettled
    /\ FetchedIsSettled
    /\ Prefix(committed) /\ Prefix(requested)
    /\ NoOvertaking

Outgoing == [offset : Nat, topic : Typed \cup {Dlq},
             event : [json : BOOLEAN, type : Name, query : Name]]

-----------------------------------------------------------------------------

\* What process forwards is a record of an outgoing topic.
LEMMA ForwardedType ==
    ASSUME TypeOK, NEW o \in 1..Len(raw)
    PROVE  Forwarded(o) \in Outgoing /\ Forwarded(o).offset = o
<1>1. raw[o] \in [json : BOOLEAN, type : Name, query : Name]
  BY MessageAssumption DEF TypeOK
<1>2. \A t : route_topic(t) \in Typed \cup {Dlq}
  BY DEF route_topic, Typed, Dlq
<1>3. Target(raw[o]) \in Typed \cup {Dlq}
  BY <1>2 DEF Target
<1>4. Target(raw[o]) # Dlq => Target(raw[o]) \in Name
  BY <1>3, NameAssumption
<1>5. Normalized(raw[o]) \in [json : BOOLEAN, type : Name, query : Name]
  BY <1>1, <1>3, <1>4 DEF Normalized
<1>6. QED
  BY <1>3, <1>5 DEF Forwarded, Outgoing

\* Writing a record n times: the topics keep what they have, and each new
\* entry is a copy of the record.
LEMMA Written ==
    ASSUME NEW S, NEW s \in Seq(S), NEW x \in S, NEW n \in Nat,
           NEW t, t = s \o [i \in 1..n |-> x]
    PROVE  /\ t \in Seq(S)
           /\ Len(t) = Len(s) + n
           /\ \A i \in 1..Len(s) : t[i] = s[i]
           /\ \A i \in Len(s) + 1..Len(s) + n : t[i] = x
<1>1. [i \in 1..n |-> x] \in Seq(S) /\ Len([i \in 1..n |-> x]) = n
  OBVIOUS
<1>2. QED
  BY <1>1

\* What is settled stays so: a step only adds to the topics and to the failed
\* sends.
LEMMA StaysSettled ==
    ASSUME TypeOK, NEW o,
           refused \subseteq refused',
           Len(out') \in Nat /\ Len(out) <= Len(out') /\ DOMAIN out' = 1..Len(out'),
           \A i \in 1..Len(out) : out'[i] = out[i],
           Settled(o)
    PROVE  Settled(o)'
<1>1. DOMAIN out = 1..Len(out) /\ Len(out) \in Nat
  BY DEF TypeOK
<1>2. QED
  BY <1>1 DEF Settled

\* A step that leaves the topics and the failed sends alone.
LEMMA SameSettled ==
    ASSUME UNCHANGED <<out, refused>>, NEW o
    PROVE  Settled(o)' = Settled(o)
  BY DEF Settled

\* The initial state.
LEMMA InitIInv == Init => IInv
<1> SUFFICES ASSUME Init PROVE IInv
  OBVIOUS
<1>1. TypeOK
  BY DEF Init, TypeOK
<1>2. HandsAfterSettled /\ FetchedIsSettled
  BY DEF Init, HandsAfterSettled, FetchedIsSettled
<1>3. Prefix(committed) /\ Prefix(requested)
  BY DEF Init, Prefix
<1>4. NoOvertaking
  BY DEF Init, NoOvertaking
<1>5. QED
  BY <1>1, <1>2, <1>3, <1>4 DEF IInv

-----------------------------------------------------------------------------
(* The steps of Kafka *)

\* A new record in the raw topic.
LEMMA ProduceIInv ==
    ASSUME IInv, NEW m \in Message, Produce(m)
    PROVE  IInv'
<1> USE DEF IInv
<1>1. TypeOK'
  BY DEF TypeOK, Produce
<1>2. Len(raw') = Len(raw) + 1 /\ Len(raw) \in Nat
  BY DEF TypeOK, Produce
<1>3. \A o : Settled(o)' = Settled(o)
  BY SameSettled DEF Produce
<1>4. HandsAfterSettled'
  BY <1>2, <1>3 DEF HandsAfterSettled, Prefix, Produce, TypeOK
<1>5. FetchedIsSettled'
  BY <1>3 DEF FetchedIsSettled, Produce
<1>6. Prefix(committed)' /\ Prefix(requested)'
  BY <1>3 DEF Prefix, Produce
<1>7. NoOvertaking'
  BY DEF NoOvertaking, Produce
<1>8. QED
  BY <1>1, <1>4, <1>5, <1>6, <1>7

\* A step of Kafka or of a worker that moves nothing but the assignment, the
\* commits and the hands of workers that let their record go.
LEMMA AssignmentIInv ==
    ASSUME IInv, TypeOK', UNCHANGED <<raw, out, refused>>,
           committed' \in {committed, requested}, requested' \in {requested, 0},
           owner' # NoWorker => position' = committed,
           \A w \in Worker : \/ stage'[w] = "idle"
                             \/ stage'[w] = stage[w] /\ hand'[w] = hand[w]
    PROVE  IInv'
<1> USE DEF IInv
<1>1. \A o : Settled(o)' = Settled(o)
  BY SameSettled
<1>2. HandsAfterSettled'
  BY <1>1 DEF HandsAfterSettled, Prefix, TypeOK
<1>3. Prefix(committed)' /\ Prefix(requested)'
  BY <1>1 DEF Prefix
<1>4. FetchedIsSettled'
  BY <1>1 DEF FetchedIsSettled, Prefix
<1>5. NoOvertaking'
  BY DEF NoOvertaking
<1>6. QED
  BY <1>2, <1>3, <1>4, <1>5

\* The broker stores an offset.
LEMMA CommitLandsIInv == ASSUME IInv, CommitLands PROVE IInv'
<1> USE DEF IInv
<1>1. TypeOK'
  BY DEF TypeOK, CommitLands
<1>2. \A o : Settled(o)' = Settled(o)
  BY SameSettled DEF CommitLands
<1>3. HandsAfterSettled' /\ FetchedIsSettled'
  BY <1>2 DEF HandsAfterSettled, FetchedIsSettled, Prefix, CommitLands
<1>4. Prefix(committed)' /\ Prefix(requested)'
  BY <1>2 DEF Prefix, CommitLands
<1>5. NoOvertaking'
  BY DEF NoOvertaking, CommitLands
<1>6. QED
  BY <1>1, <1>3, <1>4, <1>5

\* Assignment, and the ways to lose it.
LEMMA RebalanceIInv ==
    ASSUME IInv, NEW w \in Worker,
           Assign(w) \/ SessionTimeout \/ Crash(w) \/ Shutdown(w)
    PROVE  IInv'
<1> USE DEF IInv
<1>1. CASE Assign(w)
  <2>1. TypeOK'
    BY <1>1 DEF TypeOK, Assign
  <2>2. QED
    BY <1>1, <2>1, AssignmentIInv DEF Assign
<1>2. CASE SessionTimeout
  <2>1. TypeOK'
    BY <1>2 DEF TypeOK, SessionTimeout, Release
  <2>2. QED
    BY <1>2, <2>1, AssignmentIInv DEF SessionTimeout, Release
<1>3. CASE Shutdown(w)
  <2>1. TypeOK'
    BY <1>3 DEF TypeOK, Shutdown, Release
  <2>2. QED
    BY <1>3, <2>1, AssignmentIInv DEF Shutdown, Release
<1>4. CASE Crash(w) /\ owner = w
  <2>1. TypeOK'
    BY <1>4 DEF TypeOK, Crash, Release
  <2>2. \A v \in Worker : \/ stage'[v] = "idle"
                          \/ stage'[v] = stage[v] /\ hand'[v] = hand[v]
    BY <1>4 DEF TypeOK, Crash
  <2>3. QED
    BY <1>4, <2>1, <2>2, AssignmentIInv DEF Crash, Release
<1>5. CASE Crash(w) /\ owner # w
  <2>1. TypeOK'
    BY <1>5 DEF TypeOK, Crash
  <2>2. \A o : Settled(o)' = Settled(o)
    BY <1>5, SameSettled DEF Crash
  <2>3. \A v \in Worker : \/ stage'[v] = "idle"
                          \/ stage'[v] = stage[v] /\ hand'[v] = hand[v]
    BY <1>5 DEF TypeOK, Crash
  <2>4. HandsAfterSettled'
    BY <1>5, <2>2, <2>3 DEF HandsAfterSettled, Prefix, Crash
  <2>5. FetchedIsSettled'
    BY <1>5, <2>2 DEF FetchedIsSettled, Crash, TypeOK
  <2>6. Prefix(committed)' /\ Prefix(requested)'
    BY <1>5, <2>2 DEF Prefix, Crash
  <2>7. NoOvertaking'
    BY <1>5 DEF NoOvertaking, Crash
  <2>8. QED
    BY <2>1, <2>4, <2>5, <2>6, <2>7
<1>6. QED
  BY <1>1, <1>2, <1>3, <1>4, <1>5

-----------------------------------------------------------------------------
(* The steps of a worker *)

\* The owner takes the next record.
LEMMA PollIInv == ASSUME IInv, NEW w \in Worker, Poll(w) PROVE IInv'
<1> USE DEF IInv
<1>1. TypeOK'
  BY DEF TypeOK, Poll
<1>2. \A o : Settled(o)' = Settled(o)
  BY SameSettled DEF Poll
<1>3. owner # NoWorker /\ stage[w] = "idle"
  BY NoWorkerAssumption DEF Poll
<1>4. \A o \in 1..position : Settled(o)
  BY <1>3 DEF FetchedIsSettled, Poll
<1>5. stage'[w] = "got" /\ hand'[w] = position + 1
  BY DEF TypeOK, Poll
<1>6. HandsAfterSettled'
  <2> SUFFICES ASSUME NEW v \in Worker
               PROVE  /\ stage'[v] # "idle" =>
                            hand'[v] \in 1..Len(raw') /\ Prefix(hand[v] - 1)'
                      /\ stage'[v] = "sent" => Settled(hand[v])'
    BY DEF HandsAfterSettled
  <2>1. CASE v = w
    BY <1>2, <1>4, <1>5, <2>1 DEF Prefix, Poll, TypeOK
  <2>2. CASE v # w
    BY <1>2, <2>2 DEF HandsAfterSettled, Prefix, Poll, TypeOK
  <2>3. QED
    BY <2>1, <2>2
<1>7. FetchedIsSettled'
  BY <1>2, <1>4, <1>5 DEF FetchedIsSettled, Poll, TypeOK
<1>8. Prefix(committed)' /\ Prefix(requested)'
  BY <1>2 DEF Prefix, Poll
<1>9. NoOvertaking'
  BY DEF NoOvertaking, Poll
<1>10. QED
  BY <1>1, <1>6, <1>7, <1>8, <1>9

\* process ends, with n more copies of the record and perhaps an error.
LEMMA ProcessedIInv ==
    ASSUME IInv, NEW w \in Worker, NEW n \in Nat, Processed(w, n),
           faults' \in Nat,
           \/ n > 0 /\ refused' = refused
           \/ refused' = refused \cup {hand[w]}
    PROVE  IInv'
<1> USE DEF IInv
<1> DEFINE h == hand[w]
<1>1. stage[w] = "got" /\ h \in 1..Len(raw) /\ Prefix(h - 1) /\ h \in Nat
  BY DEF HandsAfterSettled, Processed, TypeOK
<1>2. Forwarded(h) \in Outgoing /\ Forwarded(h).offset = h
  BY <1>1, ForwardedType
<1>3. out \in Seq(Outgoing)
  BY DEF TypeOK, Outgoing
<1>4. /\ out' \in Seq(Outgoing)
      /\ Len(out') = Len(out) + n
      /\ \A i \in 1..Len(out) : out'[i] = out[i]
      /\ \A i \in Len(out) + 1..Len(out) + n : out'[i] = Forwarded(h)
  <2>1. out' = out \o [i \in 1..n |-> Forwarded(h)]
    BY DEF Processed
  <2>2. QED
    BY <1>2, <1>3, <2>1, Written
<1>5. Len(out) \in Nat /\ DOMAIN out = 1..Len(out) /\ DOMAIN out' = 1..Len(out')
  BY <1>3, <1>4
<1>6. \A o : Settled(o) => Settled(o)'
  BY <1>4, <1>5, StaysSettled
<1>7. Settled(h)'
  <2>0. h' = h
    BY DEF Processed
  <2>1. CASE refused' = refused \cup {h}
    <3>1. h' \in refused'
      BY <2>0, <2>1
    <3>2. QED
      BY <3>1 DEF Settled
  <2>2. CASE n > 0
    <3>1. Len(out) + 1 \in DOMAIN out' /\ out'[Len(out) + 1] = Forwarded(h)
      BY <1>4, <1>5, <2>2
    <3>2. \E i \in DOMAIN out' : out'[i].offset = h
      BY <1>2, <3>1
    <3>3. QED
      BY <2>0, <3>2 DEF Settled
  <2>3. QED
    BY <2>1, <2>2
<1>8. TypeOK'
  <2>1. refused' \in SUBSET Nat
    BY <1>1 DEF TypeOK
  <2>2. stage' \in [Worker -> {"idle", "got", "sent"}]
    BY DEF TypeOK, Processed
  <2>3. QED
    BY <1>4, <2>1, <2>2 DEF TypeOK, Processed, Outgoing
<1>9. HandsAfterSettled'
  <2>1. \A v \in Worker : v # w => stage'[v] = stage[v]
    BY DEF TypeOK, Processed
  <2>2. QED
    BY <1>1, <1>6, <1>7, <2>1 DEF HandsAfterSettled, Prefix, Processed
<1>10. FetchedIsSettled'
  BY <1>6, <1>7 DEF FetchedIsSettled, Processed, TypeOK
<1>11. Prefix(committed)' /\ Prefix(requested)'
  BY <1>6 DEF Prefix, Processed
<1>12. NoOvertaking'
  <2> SUFFICES ASSUME NEW j \in DOMAIN out', NEW o \in 1..out'[j].offset - 1
               PROVE  o \in refused' \/ \E i \in 1..j - 1 : out'[i].offset = o
    BY DEF NoOvertaking
  <2>1. CASE j \in 1..Len(out)
    <3>1. o \in refused \/ \E i \in 1..j - 1 : out[i].offset = o
      BY <1>4, <1>5, <2>1 DEF NoOvertaking
    <3>2. QED
      BY <1>4, <1>5, <2>1, <3>1
  <2>2. CASE j \in Len(out) + 1..Len(out) + n
    <3>1. out'[j].offset = h
      BY <1>2, <1>4, <2>2
    <3>2. Settled(o)
      BY <1>1, <3>1 DEF Prefix
    <3>3. o \in refused \/ \E i \in 1..Len(out) : out[i].offset = o
      BY <1>5, <3>2 DEF Settled
    <3>4. QED
      BY <1>4, <1>5, <2>2, <3>3
  <2>3. QED
    BY <1>4, <1>5, <2>1, <2>2
<1>13. QED
  BY <1>8, <1>9, <1>10, <1>11, <1>12

\* The three outcomes of a send.
LEMMA SendIInv ==
    ASSUME IInv, NEW w \in Worker, SendOk(w) \/ SendTwice(w) \/ SendFails(w)
    PROVE  IInv'
<1>0. faults \in Nat
  BY DEF IInv, TypeOK
<1>1. CASE SendOk(w)
  BY <1>0, <1>1, ProcessedIInv DEF SendOk
<1>2. CASE SendTwice(w)
  BY <1>0, <1>2, ProcessedIInv DEF SendTwice
<1>3. CASE SendFails(w)
  <2>1. PICK n \in 0..1 : Processed(w, n)
    BY <1>3 DEF SendFails
  <2>2. QED
    BY <1>0, <1>3, <2>1, ProcessedIInv DEF SendFails
<1>4. QED
  BY <1>1, <1>2, <1>3

\* The worker asks for a commit and is ready for the next record.
LEMMA CommitMessageIInv ==
    ASSUME IInv, NEW w \in Worker, CommitMessage(w)
    PROVE  IInv'
<1> USE DEF IInv
<1>1. TypeOK'
  BY DEF TypeOK, CommitMessage
<1>2. \A o : Settled(o)' = Settled(o)
  BY SameSettled DEF CommitMessage
<1>3. stage[w] = "sent" /\ hand[w] \in Nat /\ Prefix(hand[w] - 1) /\ Settled(hand[w])
  BY DEF HandsAfterSettled, CommitMessage, TypeOK
<1>4. \A v \in Worker : v # w => stage'[v] = stage[v] /\ hand'[v] = hand[v]
  BY DEF TypeOK, CommitMessage
<1>5. stage'[w] = "idle"
  BY DEF TypeOK, CommitMessage
<1>6. HandsAfterSettled'
  BY <1>2, <1>4, <1>5 DEF HandsAfterSettled, Prefix, CommitMessage
<1>7. FetchedIsSettled'
  BY <1>2, <1>3, <1>4 DEF FetchedIsSettled, CommitMessage, TypeOK
<1>8. Prefix(hand[w])
  BY <1>3 DEF Prefix
<1>9. Prefix(committed)' /\ Prefix(requested)'
  BY <1>2, <1>8 DEF Prefix, CommitMessage
<1>10. NoOvertaking'
  BY DEF NoOvertaking, CommitMessage
<1>11. QED
  BY <1>1, <1>6, <1>7, <1>9, <1>10

-----------------------------------------------------------------------------

\* Every step keeps the invariant.
LEMMA NextIInv == IInv /\ [Next]_vars => IInv'
<1> SUFFICES ASSUME IInv, [Next]_vars PROVE IInv'
  OBVIOUS
<1>1. CASE \E m \in Message : Produce(m)
  BY <1>1, ProduceIInv
<1>2. CASE CommitLands
  BY <1>2, CommitLandsIInv
<1>3. ASSUME NEW w \in Worker,
             SessionTimeout \/ Assign(w) \/ Crash(w) \/ Shutdown(w)
      PROVE  IInv'
  BY <1>3, RebalanceIInv
<1>4. ASSUME NEW w \in Worker, Work(w)
      PROVE  IInv'
  BY <1>4, PollIInv, SendIInv, CommitMessageIInv DEF Work
<1>5. CASE UNCHANGED vars
  <2>1. \A o : Settled(o)' = Settled(o)
    BY <1>5, SameSettled DEF vars
  <2>2. TypeOK'
    BY <1>5 DEF vars, IInv, TypeOK
  <2>3. HandsAfterSettled' /\ FetchedIsSettled'
    BY <1>5, <2>1 DEF vars, IInv, HandsAfterSettled, FetchedIsSettled, Prefix
  <2>4. Prefix(committed)' /\ Prefix(requested)'
    BY <1>5, <2>1 DEF vars, IInv, Prefix
  <2>5. NoOvertaking'
    BY <1>5 DEF vars, IInv, NoOvertaking
  <2>6. QED
    BY <2>2, <2>3, <2>4, <2>5 DEF IInv
<1>6. ASSUME NEW w \in Worker, StreamError(w)
      PROVE  IInv'
  BY <1>5, <1>6 DEF StreamError
<1>7. CASE SessionTimeout
  <2>1. PICK w \in Worker : w = owner
    BY <1>7 DEF SessionTimeout, IInv, TypeOK
  <2>2. QED
    BY <1>3, <1>7, <2>1
<1>8. QED
  BY <1>1, <1>2, <1>3, <1>4, <1>5, <1>6, <1>7 DEF Next

\* The inductive invariant of the router.
THEOREM RouterInvariant == Spec => []IInv
  BY InitIInv, NextIInv, PTL DEF Spec

\* No worker, however late, crashed or fenced, makes the group skip a record
\* that was not forwarded and whose send did not fail.
THEOREM NothingSkipped == Spec => [](TypeOK /\ CommittedIsSettled)
<1>1. IInv => TypeOK /\ CommittedIsSettled
  BY DEF IInv, Prefix, CommittedIsSettled
<1>2. QED
  BY <1>1, RouterInvariant, PTL

\* Whatever the group goes through, the first copies of the records of a
\* partition are written in the partition's order.
THEOREM OrderKept == Spec => []NoOvertaking
<1>1. IInv => NoOvertaking
  BY DEF IInv
<1>2. QED
  BY <1>1, RouterInvariant, PTL

-----------------------------------------------------------------------------
(* What the topics hold *)

\* Everything in the outgoing topics is what process makes of its record.
OutIsForwarded ==
    \A i \in DOMAIN out :
        out[i].offset \in 1..Len(raw) /\ out[i] = Forwarded(out[i].offset)

\* The scanner looks at an event the way the router did.
LEMMA CategoryIsTarget ==
    ASSUME NEW e \in [json : BOOLEAN, type : Name, query : Name], Target(e) # Dlq
    PROVE  Category(Normalized(e)) = Target(e)
<1>1. \A t : route_topic(t) \in Typed \cup {Dlq}
  BY DEF route_topic, Typed, Dlq
<1>2. Target(e) \in Typed
  BY <1>1 DEF Target
<1>3. Normalized(e).type = Target(e)
  BY DEF Normalized
<1>4. /\ "process" \in ProcessTypes
      /\ "network" \in NetworkTypes \ ProcessTypes
      /\ "file" \in FileTypes \ (ProcessTypes \cup NetworkTypes)
      /\ "auth" \in AuthTypes \ (ProcessTypes \cup NetworkTypes \cup FileTypes)
  BY DEF ProcessTypes, NetworkTypes, FileTypes, AuthTypes
<1>5. CASE Target(e) = "process"
  BY <1>3, <1>4, <1>5 DEF Category, ProcessTypes, NetworkTypes, FileTypes, AuthTypes
<1>6. CASE Target(e) = "network"
  BY <1>3, <1>4, <1>6 DEF Category, ProcessTypes, NetworkTypes, FileTypes, AuthTypes
<1>7. CASE Target(e) = "file"
  BY <1>3, <1>4, <1>7 DEF Category, ProcessTypes, NetworkTypes, FileTypes, AuthTypes
<1>8. CASE Target(e) = "auth"
  BY <1>3, <1>4, <1>8 DEF Category, ProcessTypes, NetworkTypes, FileTypes, AuthTypes
<1>9. QED
  BY <1>2, <1>5, <1>6, <1>7, <1>8 DEF Typed

\* OutIsForwarded is kept when the raw topic grows and when process writes.
LEMMA OutStep ==
    ASSUME IInv, OutIsForwarded, [Next]_vars
    PROVE  OutIsForwarded'
<1>0. /\ DOMAIN out = 1..Len(out) /\ Len(out) \in Nat /\ Len(raw) \in Nat
      /\ out \in Seq(Outgoing)
  BY DEF IInv, TypeOK, Outgoing
<1>1. CASE \E m \in Message : Produce(m)
  <2>1. PICK m \in Message : Produce(m)
    BY <1>1
  <2>2. Len(raw') = Len(raw) + 1 /\ \A o \in 1..Len(raw) : raw'[o] = raw[o]
    BY <2>1 DEF Produce, IInv, TypeOK
  <2>3. \A o \in 1..Len(raw) : Forwarded(o)' = Forwarded(o)
    BY <2>2 DEF Forwarded
  <2>4. out' = out
    BY <2>1 DEF Produce
  <2>5. QED
    BY <1>0, <2>2, <2>3, <2>4 DEF OutIsForwarded
<1>2. ASSUME NEW w \in Worker, NEW n \in Nat, Processed(w, n)
      PROVE  OutIsForwarded'
  <2> DEFINE h == hand[w]
  <2>1. h \in 1..Len(raw)
    BY <1>2 DEF IInv, HandsAfterSettled, Processed
  <2>2. Forwarded(h) \in Outgoing /\ Forwarded(h).offset = h
    BY <2>1, ForwardedType DEF IInv
  <2>3. out' = out \o [i \in 1..n |-> Forwarded(h)]
    BY <1>2 DEF Processed
  <2>3a. raw' = raw
    BY <1>2 DEF Processed
  <2> HIDE DEF h
  <2>4. /\ out' \in Seq(Outgoing)
        /\ Len(out') = Len(out) + n
        /\ \A i \in 1..Len(out) : out'[i] = out[i]
        /\ \A i \in Len(out) + 1..Len(out) + n : out'[i] = Forwarded(h)
    BY <1>0, <2>2, <2>3, Written
  <2>5. \A o : Forwarded(o)' = [offset |-> o, topic |-> Target(raw'[o]),
                               event |-> Normalized(raw'[o])]
    BY DEF Forwarded
  <2>6. \A o : Forwarded(o)' = Forwarded(o)
    BY <2>3a, <2>5 DEF Forwarded
  <2>7. ASSUME NEW i \in DOMAIN out'
        PROVE  out'[i].offset \in 1..Len(raw) /\ out'[i] = Forwarded(out'[i].offset)
    <3>1. i \in 1..Len(out) \/ i \in Len(out) + 1..Len(out) + n
      BY <1>0, <2>4
    <3>2. CASE i \in 1..Len(out)
      BY <1>0, <2>4, <3>2 DEF OutIsForwarded
    <3>3. CASE i \in Len(out) + 1..Len(out) + n
      BY <2>1, <2>2, <2>4, <3>3
    <3>4. QED
      BY <3>1, <3>2, <3>3
  <2>8. QED
    BY <2>3a, <2>6, <2>7 DEF OutIsForwarded
<1>3. ASSUME UNCHANGED <<raw, out>>
      PROVE  OutIsForwarded'
  BY <1>3 DEF OutIsForwarded, Forwarded
<1>4. ASSUME NEW w \in Worker, SendOk(w) \/ SendTwice(w) \/ SendFails(w)
      PROVE  OutIsForwarded'
  BY <1>2, <1>4 DEF SendOk, SendTwice, SendFails
<1>5. ASSUME NEW w \in Worker,
             \/ Assign(w) \/ Crash(w) \/ Shutdown(w) \/ StreamError(w)
             \/ Poll(w) \/ CommitMessage(w)
      PROVE  OutIsForwarded'
  BY <1>3, <1>5 DEF Assign, Crash, Shutdown, StreamError, Poll, CommitMessage, vars
<1>6. CASE CommitLands \/ SessionTimeout \/ UNCHANGED vars
  BY <1>3, <1>6 DEF CommitLands, SessionTimeout, vars
<1>7. QED
  BY <1>1, <1>4, <1>5, <1>6 DEF Next, Work

\* Every event in a typed topic is evaluated with the rules of that topic's
\* category, and every dead letter is the record as it came.
THEOREM RoutedToItsRules == Spec => []ScannedByItsCategory
<1>1. Init => OutIsForwarded
  BY DEF Init, OutIsForwarded
<1>2. IInv /\ OutIsForwarded => ScannedByItsCategory
  <2> SUFFICES ASSUME IInv, OutIsForwarded, NEW i \in DOMAIN out
               PROVE  IF out[i].topic = Dlq THEN out[i].event = raw[out[i].offset]
                      ELSE Category(out[i].event) = out[i].topic
    BY DEF ScannedByItsCategory
  <2>1. PICK o \in 1..Len(raw) : o = out[i].offset /\ out[i] = Forwarded(o)
    BY DEF OutIsForwarded
  <2>2. raw[o] \in [json : BOOLEAN, type : Name, query : Name]
    BY MessageAssumption DEF IInv, TypeOK
  <2>3. out[i].topic = Target(raw[o]) /\ out[i].event = Normalized(raw[o])
    BY <2>1 DEF Forwarded
  <2>4. CASE Target(raw[o]) = Dlq
    BY <2>1, <2>3, <2>4 DEF Normalized
  <2>5. CASE Target(raw[o]) # Dlq
    BY <2>2, <2>3, <2>5, CategoryIsTarget
  <2>6. QED
    BY <2>4, <2>5
<1>3. QED
  BY <1>1, <1>2, OutStep, RouterInvariant, PTL DEF Spec

-----------------------------------------------------------------------------
(* How often a record is written *)

\* Workers that are about to send record o.
Sending(o) == {w \in Worker : stage[w] = "got" /\ hand[w] = o}

\* Assignments that have already fetched record o, at most: all of them but
\* one that has not come to it yet.
Fetches(o) == IF owner # NoWorker /\ o > position THEN assigns - 1 ELSE assigns

\* DuplicatesBounded is not inductive: a record that somebody holds will be
\* written once more.  An assignment fetches a record once, so the copies
\* written and the copies to come are at most its fetches and the faults.
CopiesToCome ==
    \A o \in Nat : /\ IsFiniteSet(Sending(o))
                   /\ Copies(o) + Cardinality(Sending(o)) <= Fetches(o) + faults

\* The copies of a record in a sequence of outgoing records.
OfRecord(s, o) == {i \in DOMAIN s : s[i].offset = o}

\* t is s and after it n copies of record h.
Writes(s, t, h, n) ==
    /\ Len(t) = Len(s) + n
    /\ \A i \in 1..Len(s) : t[i] = s[i]
    /\ \A i \in Len(s) + 1..Len(s) + n : t[i].offset = h

\* They are finitely many.
LEMMA CopiesFinite ==
    ASSUME NEW s \in Seq(Outgoing), NEW o
    PROVE  IsFiniteSet(OfRecord(s, o)) /\ Cardinality(OfRecord(s, o)) \in Nat
<1>1. OfRecord(s, o) \subseteq 1..Len(s) /\ Len(s) \in Nat
  BY DEF OfRecord
<1>2. IsFiniteSet(1..Len(s))
  BY <1>1, FS_Interval
<1> QED
  BY <1>1, <1>2, FS_Subset, FS_CardinalityType

\* Writing record h n times adds n copies of it and none of any other.
LEMMA CopiesWritten ==
    ASSUME NEW s \in Seq(Outgoing), NEW t \in Seq(Outgoing),
           NEW h \in Nat, NEW n \in Nat, NEW o \in Nat,
           Writes(s, t, h, n)
    PROVE  Cardinality(OfRecord(t, o)) =
              Cardinality(OfRecord(s, o)) + (IF h = o THEN n ELSE 0)
<1>1. /\ t \in Seq(Outgoing) /\ Len(t) = Len(s) + n /\ Len(s) \in Nat
      /\ \A i \in 1..Len(s) : t[i] = s[i]
      /\ \A i \in Len(s) + 1..Len(s) + n : t[i].offset = h
  BY DEF Writes
<1> DEFINE D == Len(s) + 1..Len(s) + n
<1>2. DOMAIN t = (1..Len(s)) \cup D /\ DOMAIN s = 1..Len(s)
  BY <1>1
<1>3. IsFiniteSet(D) /\ Cardinality(D) = n
  <2>1. \A a, b \in Int : /\ IsFiniteSet(a..b)
                          /\ Cardinality(a..b) = IF a > b THEN 0 ELSE b - a + 1
    BY FS_Interval
  <2> DEFINE a == Len(s) + 1
             b == Len(s) + n
  <2>2. a \in Int /\ b \in Int /\ (a > b <=> n = 0) /\ b - a + 1 = n
    BY <1>1
  <2> HIDE DEF a, b
  <2>3. IsFiniteSet(a..b) /\ Cardinality(a..b) = IF a > b THEN 0 ELSE b - a + 1
    BY <2>1, <2>2
  <2>4. IsFiniteSet(a..b) /\ Cardinality(a..b) = n
    BY <2>2, <2>3
  <2> QED
    BY <2>4 DEF a, b
<1>4. \A i \in D : i \notin 1..Len(s)
  BY <1>1
<1> HIDE DEF D
<1>5. CASE h = o
  <2>1. OfRecord(t, o) = OfRecord(s, o) \cup D
    BY <1>1, <1>2, <1>5 DEF OfRecord, D
  <2>2. OfRecord(s, o) \cap D = {}
    BY <1>2, <1>4 DEF OfRecord
  <2>3. Cardinality(OfRecord(s, o) \cup D) =
          Cardinality(OfRecord(s, o)) + Cardinality(D) - Cardinality(OfRecord(s, o) \cap D)
    BY <1>3, CopiesFinite, FS_Union
  <2>4. Cardinality(OfRecord(s, o)) \in Nat
    BY CopiesFinite
  <2>5. Cardinality(OfRecord(s, o) \cap D) = 0
    BY <2>2, FS_EmptySet
  <2>6. Cardinality(OfRecord(t, o)) = Cardinality(OfRecord(s, o) \cup D)
    BY <2>1
  <2> DEFINE a == Cardinality(OfRecord(s, o))
             b == Cardinality(OfRecord(s, o) \cap D)
             c == Cardinality(OfRecord(s, o) \cup D)
             d == Cardinality(OfRecord(t, o))
  <2>7. d = c /\ c = a + n - b /\ b = 0 /\ a \in Nat
    BY <1>3, <2>3, <2>4, <2>5, <2>6
  <2> HIDE DEF a, b, c, d
  <2>8. d = a + (IF h = o THEN n ELSE 0)
    BY <1>5, <2>7
  <2> QED
    BY <2>8 DEF a, d
<1>6. CASE h # o
  <2>1. OfRecord(t, o) = OfRecord(s, o)
    BY <1>1, <1>2, <1>6 DEF OfRecord, D
  <2> QED
    BY <1>6, <2>1, CopiesFinite
<1> QED
  BY <1>5, <1>6

\* The bound in numbers, whatever the record.
LEMMA ComeTypes ==
    ASSUME TypeOK, CopiesToCome, NEW o \in Nat
    PROVE  /\ Copies(o) \in Nat /\ Copies(o) = Cardinality(OfRecord(out, o))
           /\ IsFiniteSet(Sending(o)) /\ Cardinality(Sending(o)) \in Nat
           /\ Fetches(o) \in Int /\ Fetches(o) <= assigns /\ assigns \in Nat /\ faults \in Nat
           /\ Copies(o) + Cardinality(Sending(o)) <= Fetches(o) + faults
<1>1. out \in Seq(Outgoing)
  BY DEF TypeOK, Outgoing
<1>2. Copies(o) = Cardinality(OfRecord(out, o))
  BY DEF Copies, OfRecord
<1>3. IsFiniteSet(Sending(o)) /\ Copies(o) + Cardinality(Sending(o)) <= Fetches(o) + faults
  BY DEF CopiesToCome
<1>4. assigns \in Nat /\ faults \in Nat
  BY DEF TypeOK
<1>5. Fetches(o) \in Int /\ Fetches(o) <= assigns
  BY <1>4 DEF Fetches
<1> QED
  BY <1>1, <1>2, <1>3, <1>4, <1>5, CopiesFinite, FS_CardinalityType

\* A step in which nobody gets a record: the bound only grows.
LEMMA NobodyFetches ==
    ASSUME TypeOK, CopiesToCome, out' = out,
           faults' = faults,
           \A o \in Nat : Fetches(o)' \in Int /\ Fetches(o) <= Fetches(o)',
           \A w \in Worker : stage'[w] = "got" => stage[w] = "got" /\ hand'[w] = hand[w]
    PROVE  CopiesToCome'
<1> SUFFICES ASSUME NEW o \in Nat
             PROVE  /\ IsFiniteSet(Sending(o)')
                    /\ Copies(o)' + Cardinality(Sending(o)') <= Fetches(o)' + faults'
  BY DEF CopiesToCome
<1>1. Sending(o)' \subseteq Sending(o)
  BY DEF Sending
<1>2. Copies(o)' = Copies(o)
  BY DEF Copies
<1>3. /\ IsFiniteSet(Sending(o)') /\ Cardinality(Sending(o)') \in Nat
      /\ Cardinality(Sending(o)') <= Cardinality(Sending(o))
  BY <1>1, ComeTypes, FS_Subset, FS_CardinalityType
<1>4. Fetches(o)' \in Int /\ Fetches(o) <= Fetches(o)'
  OBVIOUS
<1> QED
  BY <1>2, <1>3, <1>4, ComeTypes

\* The owner takes the record behind its position, which this assignment has
\* not fetched before.
LEMMA PollCopies ==
    ASSUME TypeOK, CopiesToCome, NEW w \in Worker, Poll(w)
    PROVE  CopiesToCome'
<1> SUFFICES ASSUME NEW o \in Nat
             PROVE  /\ IsFiniteSet(Sending(o)')
                    /\ Copies(o)' + Cardinality(Sending(o)') <= Fetches(o)' + faults'
  BY DEF CopiesToCome
<1>1. /\ owner # NoWorker /\ owner' = owner /\ assigns' = assigns /\ faults' = faults
      /\ position \in Nat /\ position' = position + 1
      /\ stage'[w] = "got" /\ hand'[w] = position + 1 /\ stage[w] = "idle"
      /\ \A v \in Worker : v # w => stage'[v] = stage[v] /\ hand'[v] = hand[v]
  BY NoWorkerAssumption DEF Poll, TypeOK
<1>2. Copies(o)' = Copies(o)
  BY DEF Copies, Poll
<1>3. CASE o = position + 1
  <2>1. Sending(o)' = Sending(o) \cup {w} /\ w \notin Sending(o)
    BY <1>1, <1>3 DEF Sending
  <2>2. IsFiniteSet(Sending(o)') /\ Cardinality(Sending(o)') = Cardinality(Sending(o)) + 1
    <3> DEFINE S == Sending(o)
               T == Sending(o)'
    <3>1. T = S \cup {w} /\ w \notin S /\ IsFiniteSet(S)
      BY <2>1, ComeTypes
    <3> HIDE DEF S, T
    <3>2. IsFiniteSet(T) /\ Cardinality(T) = Cardinality(S) + 1
      BY <3>1, FS_AddElement
    <3> QED
      BY <3>2 DEF S, T
  <2>3. Fetches(o) = assigns - 1 /\ Fetches(o)' = assigns
    BY <1>1, <1>3 DEF Fetches
  <2> QED
    BY <1>1, <1>2, <2>2, <2>3, ComeTypes
<1>4. CASE o # position + 1
  <2>1. Sending(o)' = Sending(o)
    BY <1>1, <1>4 DEF Sending
  <2>2. Fetches(o)' = Fetches(o)
    BY <1>1, <1>4 DEF Fetches
  <2> QED
    BY <1>1, <1>2, <2>1, <2>2, ComeTypes
<1> QED
  BY <1>3, <1>4

\* process ends: the copy to come is there, and a second one is a fault's.
LEMMA ProcessedCopies ==
    ASSUME IInv, CopiesToCome, NEW w \in Worker, NEW n \in Nat, Processed(w, n),
           faults' \in Nat, faults + n <= faults' + 1, faults <= faults'
    PROVE  CopiesToCome'
<1> SUFFICES ASSUME NEW o \in Nat
             PROVE  /\ IsFiniteSet(Sending(o)')
                    /\ Copies(o)' + Cardinality(Sending(o)') <= Fetches(o)' + faults'
  BY DEF CopiesToCome
<1> DEFINE h == hand[w]
<1>0. TypeOK
  BY DEF IInv
<1>1. stage[w] = "got" /\ h \in 1..Len(raw)
  BY DEF IInv, HandsAfterSettled, Processed
<1>2. Forwarded(h) \in Outgoing /\ Forwarded(h).offset = h
  BY <1>0, <1>1, ForwardedType
<1>3. out \in Seq(Outgoing) /\ out' = out \o [i \in 1..n |-> Forwarded(h)]
  BY <1>0 DEF TypeOK, Outgoing, Processed
<1>4. Cardinality(OfRecord(out', o)) =
         Cardinality(OfRecord(out, o)) + (IF h = o THEN n ELSE 0)
  <2>1. /\ out' \in Seq(Outgoing)
        /\ Len(out') = Len(out) + n
        /\ \A i \in 1..Len(out) : out'[i] = out[i]
        /\ \A i \in Len(out) + 1..Len(out) + n : out'[i] = Forwarded(h)
    BY <1>2, <1>3, Written
  <2>2. \A i \in Len(out) + 1..Len(out) + n : out'[i].offset = h
    BY <1>2, <2>1
  <2>3. h \in Nat
    BY <1>0 DEF TypeOK
  <2>4. Writes(out, out', h, n)
    BY <2>1, <2>2 DEF Writes
  <2>5. out \in Seq(Outgoing) /\ out' \in Seq(Outgoing)
    BY <1>3, <2>1
  <2> HIDE DEF h
  <2> QED
    BY <2>3, <2>4, <2>5, CopiesWritten
<1>5. Copies(o)' = Copies(o) + (IF h = o THEN n ELSE 0)
  <2>1. Copies(o)' = Cardinality(OfRecord(out', o))
    BY DEF Copies, OfRecord
  <2> QED
    BY <1>0, <1>4, <2>1, ComeTypes
<1>6. Fetches(o)' = Fetches(o)
  BY DEF Fetches, Processed
<1>7. stage'[w] = "sent" /\ \A v \in Worker : v # w => stage'[v] = stage[v]
  BY <1>0 DEF Processed, TypeOK
<1>8. Sending(o)' = Sending(o) \ {w}
  BY <1>7 DEF Sending, Processed
<1>9. /\ IsFiniteSet(Sending(o)')
      /\ Cardinality(Sending(o)') = IF w \in Sending(o) THEN Cardinality(Sending(o)) - 1
                                    ELSE Cardinality(Sending(o))
  <2> DEFINE S == Sending(o)
             T == Sending(o)'
  <2>1. T = S \ {w} /\ IsFiniteSet(S)
    BY <1>0, <1>8, ComeTypes
  <2> HIDE DEF S, T
  <2>2. /\ IsFiniteSet(T)
        /\ Cardinality(T) = IF w \in S THEN Cardinality(S) - 1 ELSE Cardinality(S)
    BY <2>1, FS_RemoveElement
  <2> QED
    BY <2>2 DEF S, T
<1>10. w \in Sending(o) <=> h = o
  BY <1>1 DEF Sending
<1> HIDE DEF h
<1> QED
  BY <1>0, <1>5, <1>6, <1>9, <1>10, ComeTypes

\* Every step keeps the bound.
LEMMA CopiesStep == IInv /\ CopiesToCome /\ [Next]_vars => CopiesToCome'
<1> SUFFICES ASSUME IInv, CopiesToCome, [Next]_vars PROVE CopiesToCome'
  OBVIOUS
<1>0. TypeOK /\ assigns \in Nat /\ faults \in Nat /\ position \in Nat
  BY DEF IInv, TypeOK
<1>1. CASE (\E m \in Message : Produce(m)) \/ CommitLands \/ UNCHANGED vars
  <2>1. UNCHANGED <<out, faults, assigns, owner, position, stage, hand>>
    BY <1>1 DEF Produce, CommitLands, vars
  <2>2. \A o \in Nat : Fetches(o)' \in Int /\ Fetches(o) <= Fetches(o)'
    BY <1>0, <2>1 DEF Fetches
  <2> QED
    BY <1>0, <2>1, <2>2, NobodyFetches
<1>2. ASSUME NEW w \in Worker, Assign(w)
      PROVE  CopiesToCome'
  <2>1. /\ UNCHANGED <<out, faults, stage, hand>> /\ owner = NoWorker
        /\ assigns' = assigns + 1
    BY <1>2 DEF Assign
  <2>2. \A o \in Nat : Fetches(o)' \in Int /\ Fetches(o) <= Fetches(o)'
    BY <1>0, <2>1 DEF Fetches
  <2> QED
    BY <1>0, <2>1, <2>2, NobodyFetches
<1>3. ASSUME NEW w \in Worker, SessionTimeout \/ Crash(w) \/ Shutdown(w)
      PROVE  CopiesToCome'
  <2>1. UNCHANGED <<out, faults, position, assigns>> /\ owner' \in {owner, NoWorker}
    BY <1>3 DEF SessionTimeout, Crash, Shutdown, Release
  <2>2. \A v \in Worker : stage'[v] = "got" => stage[v] = "got" /\ hand'[v] = hand[v]
    BY <1>0, <1>3 DEF SessionTimeout, Crash, Shutdown, TypeOK
  <2>3. \A o \in Nat : Fetches(o)' \in Int /\ Fetches(o) <= Fetches(o)'
    BY <1>0, <2>1 DEF Fetches
  <2> QED
    BY <1>0, <2>1, <2>2, <2>3, NobodyFetches
<1>4. ASSUME NEW w \in Worker, CommitMessage(w)
      PROVE  CopiesToCome'
  <2>1. UNCHANGED <<out, faults, position, assigns, owner>>
    BY <1>4 DEF CommitMessage
  <2>2. \A v \in Worker : stage'[v] = "got" => stage[v] = "got" /\ hand'[v] = hand[v]
    BY <1>0, <1>4 DEF CommitMessage, TypeOK
  <2>3. \A o \in Nat : Fetches(o)' \in Int /\ Fetches(o) <= Fetches(o)'
    BY <1>0, <2>1 DEF Fetches
  <2> QED
    BY <1>0, <2>1, <2>2, <2>3, NobodyFetches
<1>5. ASSUME NEW w \in Worker, SendOk(w) \/ SendTwice(w) \/ SendFails(w)
      PROVE  CopiesToCome'
  <2>1. PICK n \in 0..2 : /\ Processed(w, n) /\ faults' \in Nat
                          /\ faults + n <= faults' + 1 /\ faults <= faults'
    BY <1>0, <1>5 DEF SendOk, SendTwice, SendFails
  <2> QED
    BY <2>1, ProcessedCopies
<1>6. ASSUME NEW w \in Worker, StreamError(w)
      PROVE  CopiesToCome'
  BY <1>1, <1>6 DEF StreamError
<1>7. CASE SessionTimeout
  <2>1. PICK w \in Worker : w = owner
    BY <1>7 DEF SessionTimeout, IInv, TypeOK
  <2> QED
    BY <1>3, <1>7, <2>1
<1> QED
  BY <1>0, <1>1, <1>2, <1>3, <1>4, <1>5, <1>6, <1>7, PollCopies DEF Next, Work

\* However the partition moves and whoever is late, a record is in the topics
\* at most once per assignment and once per fault.
THEOREM DuplicatesHaveCause == Spec => []DuplicatesBounded
<1>1. Init => CopiesToCome
  <2> SUFFICES ASSUME Init, NEW o \in Nat
               PROVE  /\ IsFiniteSet(Sending(o))
                      /\ Copies(o) + Cardinality(Sending(o)) <= Fetches(o) + faults
    BY DEF CopiesToCome
  <2>1. Sending(o) = {}
    BY DEF Init, Sending
  <2>2. {i \in DOMAIN out : out[i].offset = o} = {}
    BY DEF Init
  <2>3. Fetches(o) + faults = 0
    BY DEF Init, Fetches
  <2> QED
    BY <2>1, <2>2, <2>3, FS_EmptySet DEF Copies
<1>2. IInv /\ CopiesToCome => DuplicatesBounded
  <2> SUFFICES ASSUME IInv, CopiesToCome, NEW o \in 1..MaxRecords
               PROVE  Copies(o) <= assigns + faults
    BY DEF DuplicatesBounded
  <2>1. o \in Nat
    BY RouterBounds
  <2> QED
    BY <2>1, ComeTypes DEF IInv
<1>3. QED
  BY <1>1, <1>2, CopiesStep, RouterInvariant, PTL DEF Spec

=============================================================================
