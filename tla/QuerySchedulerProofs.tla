------------------------ MODULE QuerySchedulerProofs ------------------------
(***************************************************************************)
(* Theorems about QueryScheduler.                                          *)
(*                                                                         *)
(* That the differences add up (DiffsAddUp) is kept by every step of a     *)
(* task because a result goes from the end of one queue to the beginning   *)
(* of the next (Owned: and is of the task's own query).  When a snapshot   *)
(* makes a stream clean again, whatever the channel holds before it can be *)
(* replayed from any view (Continues); Quiet is why a start of the agent   *)
(* finds nothing of the one before.                                        *)
(***************************************************************************)
EXTENDS QueryScheduler, TLAPS

Task == [at : {"off", "tick", "query", "send", "hung"}, first : BOOLEAN,
         previous : SUBSET Row, current : SUBSET Row, todo : Seq(Result)]

\* What a task has still to send is of its own query, and there is some of it
\* exactly while it sends.
Owned ==
    \A q \in Query :
        /\ \A i \in DOMAIN task[q].todo : task[q].todo[i].query = q
        /\ task[q].at = "send" <=> task[q].todo # <<>>

\* Without a running collector there are no tasks and nothing under way.
Quiet ==
    proc # "running" =>
        chan = <<>> /\ \A q \in Query : task[q] = Off /\ ~clean[q]

\* The seeding so far, and what it leaves.
Seeding ==
    /\ proc = "seeding" =>
         seeded < Len(Defaults) /\ \A i \in 1..seeded : Defaults[i] \in table
    /\ proc # "seeding" /\ ~interrupted =>
         table \in Tables \/ \A i \in DOMAIN Defaults : Defaults[i] \in table

\* From any of its results on, s can be replayed on any rows.
Continues(q, s) ==
    \A k \in 0..Len(s), v \in SUBSET Row :
        \E f \in [k..Len(s) -> SUBSET Row] :
            /\ f[k] = v
            /\ \A i \in (k + 1)..Len(s) : f[i] = Replay(q, f[i - 1], s[i])

IInv ==
    /\ TypeOK /\ Owned /\ Quiet /\ Seeding
    /\ \A q \in Query : Continues(q, chan)
    /\ DiffsAddUp

-----------------------------------------------------------------------------
(* Replays *)

\* A replay turns rows into rows.
LEMMA ReplayRows ==
    ASSUME NEW q, NEW v \in SUBSET Row, NEW r \in Result
    PROVE  Replay(q, v, r) \in SUBSET Row
<1>1. r.rows \in SUBSET Row
  BY DEF Result
<1> QED
  BY <1>1 DEF Replay

\* A result of another query changes nothing.
LEMMA ReplayOther ==
    ASSUME NEW q, NEW v, NEW r, r.query # q
    PROVE  Replay(q, v, r) = v
  BY DEF Replay

\* Nothing to replay.
LEMMA ReplaysEmpty ==
    ASSUME NEW q, NEW v \in SUBSET Row, NEW w \in SUBSET Row
    PROVE  Replays(q, v, <<>>, w) <=> v = w
<1>1. ASSUME v = w PROVE Replays(q, v, <<>>, w)
  <2> DEFINE f == [i \in 0..Len(<<>>) |-> v]
  <2>1. f \in [0..Len(<<>>) -> SUBSET Row] /\ f[0] = v /\ f[Len(<<>>)] = w
    BY <1>1
  <2>2. \A i \in 1..Len(<<>>) : f[i] = Replay(q, f[i - 1], <<>>[i])
    OBVIOUS
  <2> QED
    BY <2>1, <2>2 DEF Replays
<1>2. Replays(q, v, <<>>, w) => v = w
  BY DEF Replays
<1> QED
  BY <1>1, <1>2

\* One more result.
LEMMA ReplaysAppend ==
    ASSUME NEW q, NEW v \in SUBSET Row, NEW w \in SUBSET Row,
           NEW s \in Seq(Result), NEW r \in Result, Replays(q, v, s, w)
    PROVE  Replays(q, v, Append(s, r), Replay(q, w, r))
<1> DEFINE n == Len(s)
           t == Append(s, r)
<1>1. PICK f \in [0..n -> SUBSET Row] :
         /\ f[0] = v /\ f[n] = w
         /\ \A i \in 1..n : f[i] = Replay(q, f[i - 1], s[i])
  BY DEF Replays
<1> DEFINE g == [i \in 0..(n + 1) |-> IF i = n + 1 THEN Replay(q, w, r) ELSE f[i]]
<1>2. n \in Nat /\ Len(t) = n + 1 /\ t[n + 1] = r /\ \A i \in 1..n : t[i] = s[i]
  OBVIOUS
<1>3. g \in [0..(n + 1) -> SUBSET Row]
  BY <1>1, <1>2, ReplayRows
<1>4. g[0] = v /\ g[n + 1] = Replay(q, w, r)
  BY <1>1, <1>2
<1>5. \A i \in 1..(n + 1) : g[i] = Replay(q, g[i - 1], t[i])
  <2> TAKE i \in 1..(n + 1)
  <2>1. CASE i = n + 1
    BY <1>1, <1>2, <2>1
  <2>2. CASE i \in 1..n
    BY <1>1, <1>2, <2>2
  <2> QED
    BY <1>2, <2>1, <2>2
<1> HIDE DEF g, t
<1> QED
  BY <1>2, <1>3, <1>4, <1>5 DEF Replays

\* One result less, which has been replayed.
LEMMA ReplaysTail ==
    ASSUME NEW q, NEW v \in SUBSET Row, NEW w \in SUBSET Row,
           NEW s \in Seq(Result), s # <<>>, Replays(q, v, s, w)
    PROVE  Replays(q, Replay(q, v, Head(s)), Tail(s), w)
<1> DEFINE n == Len(s)
           t == Tail(s)
<1>1. PICK f \in [0..n -> SUBSET Row] :
         /\ f[0] = v /\ f[n] = w
         /\ \A i \in 1..n : f[i] = Replay(q, f[i - 1], s[i])
  BY DEF Replays
<1> DEFINE g == [i \in 0..(n - 1) |-> f[i + 1]]
<1>2. /\ n \in Nat /\ n > 0 /\ Len(t) = n - 1 /\ Head(s) = s[1]
      /\ \A i \in 1..(n - 1) : t[i] = s[i + 1]
  OBVIOUS
<1>3. g \in [0..(n - 1) -> SUBSET Row]
  BY <1>1, <1>2
<1>4. g[0] = Replay(q, v, Head(s)) /\ g[n - 1] = w
  <2>1. f[1] = Replay(q, f[0], s[1])
    BY <1>1, <1>2
  <2> QED
    BY <1>1, <1>2, <2>1
<1>5. \A i \in 1..(n - 1) : g[i] = Replay(q, g[i - 1], t[i])
  <2> TAKE i \in 1..(n - 1)
  <2>1. g[i] = f[i + 1] /\ g[i - 1] = f[i] /\ t[i] = s[i + 1]
    BY <1>2
  <2>2. f[i + 1] = Replay(q, f[(i + 1) - 1], s[i + 1])
    BY <1>1, <1>2
  <2>3. (i + 1) - 1 = i
    OBVIOUS
  <2> QED
    BY <2>1, <2>2, <2>3
<1> HIDE DEF g, t
<1> QED
  BY <1>2, <1>3, <1>4, <1>5 DEF Replays

\* An empty channel continues.
LEMMA ContinuesEmpty == \A q : Continues(q, <<>>)
<1> DEFINE t == <<>>
<1>0. Len(t) = 0
  OBVIOUS
<1> HIDE DEF t
<1>1. SUFFICES ASSUME NEW q, NEW k \in 0..Len(t), NEW v \in SUBSET Row
               PROVE  \E f \in [k..Len(t) -> SUBSET Row] :
                         /\ f[k] = v
                         /\ \A i \in (k + 1)..Len(t) : f[i] = Replay(q, f[i - 1], t[i])
  BY DEF Continues, t
<1> DEFINE f == [i \in k..Len(t) |-> v]
<1>2. f \in [k..Len(t) -> SUBSET Row] /\ f[k] = v
  BY <1>0
<1>3. \A i \in (k + 1)..Len(t) : f[i] = Replay(q, f[i - 1], t[i])
  BY <1>0
<1> QED
  BY <1>2, <1>3

\* So does one with one more result ...
LEMMA ContinuesAppend ==
    ASSUME NEW q, NEW s \in Seq(Result), NEW r \in Result, Continues(q, s)
    PROVE  Continues(q, Append(s, r))
<1> DEFINE n == Len(s)
           t == Append(s, r)
<1>0. n \in Nat /\ Len(t) = n + 1 /\ t[n + 1] = r /\ \A i \in 1..n : t[i] = s[i]
  OBVIOUS
<1> HIDE DEF t
<1> SUFFICES ASSUME NEW k \in 0..Len(t), NEW v \in SUBSET Row
             PROVE  \E f \in [k..Len(t) -> SUBSET Row] :
                       /\ f[k] = v
                       /\ \A i \in (k + 1)..Len(t) : f[i] = Replay(q, f[i - 1], t[i])
  BY DEF Continues, t
<1>1. CASE k = n + 1
  <2> DEFINE f == [i \in k..Len(t) |-> v]
  <2>1. f \in [k..Len(t) -> SUBSET Row] /\ f[k] = v
    BY <1>0, <1>1
  <2>2. \A i \in (k + 1)..Len(t) : f[i] = Replay(q, f[i - 1], t[i])
    BY <1>0, <1>1
  <2> QED
    BY <2>1, <2>2
<1>2. CASE k \in 0..n
  <2>1. PICK f \in [k..n -> SUBSET Row] :
           /\ f[k] = v
           /\ \A i \in (k + 1)..n : f[i] = Replay(q, f[i - 1], s[i])
    BY <1>2 DEF Continues
  <2> DEFINE g == [i \in k..Len(t) |-> IF i = n + 1 THEN Replay(q, f[n], r) ELSE f[i]]
  <2>2. g \in [k..Len(t) -> SUBSET Row]
    <3>1. Replay(q, f[n], r) \in SUBSET Row
      BY <1>0, <1>2, <2>1, ReplayRows
    <3> QED
      BY <1>0, <1>2, <2>1, <3>1
  <2>3. g[k] = v
    BY <1>0, <1>2, <2>1
  <2>4. \A i \in (k + 1)..Len(t) : g[i] = Replay(q, g[i - 1], t[i])
    <3> TAKE i \in (k + 1)..Len(t)
    <3>1. CASE i = n + 1
      BY <1>0, <1>2, <3>1
    <3>2. CASE i \in (k + 1)..n
      BY <1>0, <1>2, <2>1, <3>2
    <3> QED
      BY <1>0, <1>2, <3>1, <3>2
  <2> QED
    BY <2>2, <2>3, <2>4
<1> QED
  BY <1>0, <1>1, <1>2

\* ... or one less.
LEMMA ContinuesTail ==
    ASSUME NEW q, NEW s \in Seq(Result), s # <<>>, Continues(q, s)
    PROVE  Continues(q, Tail(s))
<1> DEFINE n == Len(s)
           t == Tail(s)
<1>0. /\ n \in Nat /\ n > 0 /\ Len(t) = n - 1
      /\ \A i \in 1..(n - 1) : t[i] = s[i + 1]
  OBVIOUS
<1> HIDE DEF t
<1> SUFFICES ASSUME NEW k \in 0..Len(t), NEW v \in SUBSET Row
             PROVE  \E f \in [k..Len(t) -> SUBSET Row] :
                       /\ f[k] = v
                       /\ \A i \in (k + 1)..Len(t) : f[i] = Replay(q, f[i - 1], t[i])
  BY DEF Continues, t
<1>1. PICK f \in [(k + 1)..n -> SUBSET Row] :
         /\ f[k + 1] = v
         /\ \A i \in ((k + 1) + 1)..n : f[i] = Replay(q, f[i - 1], s[i])
  <2>1. k + 1 \in 0..n
    BY <1>0
  <2> QED
    BY <2>1 DEF Continues
<1> DEFINE g == [i \in k..Len(t) |-> f[i + 1]]
<1>2. g \in [k..Len(t) -> SUBSET Row] /\ g[k] = v
  BY <1>0, <1>1
<1>3. \A i \in (k + 1)..Len(t) : g[i] = Replay(q, g[i - 1], t[i])
  <2> TAKE i \in (k + 1)..Len(t)
  <2>1. g[i] = f[i + 1] /\ g[i - 1] = f[i] /\ t[i] = s[i + 1]
    BY <1>0
  <2>2. f[i + 1] = Replay(q, f[(i + 1) - 1], s[i + 1])
    BY <1>0, <1>1
  <2>3. (i + 1) - 1 = i
    OBVIOUS
  <2> QED
    BY <2>1, <2>2, <2>3
<1> QED
  BY <1>2, <1>3

\* What continues can be replayed from any rows.
LEMMA ContinuesReplays ==
    ASSUME NEW q, NEW s \in Seq(Result), Continues(q, s), NEW v \in SUBSET Row
    PROVE  \E w \in SUBSET Row : Replays(q, v, s, w)
<1> DEFINE n == Len(s)
<1>1. n \in Nat /\ 0 \in 0..n
  OBVIOUS
<1>2. PICK f \in [0..n -> SUBSET Row] :
         f[0] = v /\ \A i \in (0 + 1)..n : f[i] = Replay(q, f[i - 1], s[i])
  BY <1>1 DEF Continues
<1>3. f[n] \in SUBSET Row /\ 0 + 1 = 1
  BY <1>1, <1>2
<1>4. Replays(q, v, s, f[n])
  BY <1>2, <1>3 DEF Replays
<1> QED
  BY <1>3, <1>4

\* The differences of a tick turn the old rows into the new.
LEMMA DiffReplays ==
    ASSUME NEW q \in Query, NEW old \in SUBSET Row, NEW cur \in SUBSET Row
    PROVE  /\ compute_diff(q, old, cur) \in Seq(Result)
           /\ Replays(q, old, compute_diff(q, old, cur), cur)
           /\ \A i \in DOMAIN compute_diff(q, old, cur) :
                 compute_diff(q, old, cur)[i].query = q
<1> DEFINE A == build_result(q, cur \ old, "Added")
           R == build_result(q, old \ cur, "Removed")
           d == compute_diff(q, old, cur)
<1>1. A \in Result /\ R \in Result /\ A.query = q /\ R.query = q
  BY DEF build_result, Result
<1>2. Replay(q, old, A) = old \cup cur
  BY DEF build_result, Replay
<1>3. \A v \in SUBSET Row : Replay(q, v, R) = v \ (old \ cur)
  BY DEF build_result, Replay
<1> HIDE DEF A, R
<1>0. Replays(q, old, <<>>, old) /\ <<>> \in Seq(Result)
  BY ReplaysEmpty
<1>4. CASE cur \ old = {} /\ old \ cur = {}
  <2>1. d = <<>> /\ old = cur
    BY <1>4 DEF compute_diff
  <2> QED
    BY <2>1, ReplaysEmpty
<1>5. CASE cur \ old # {} /\ old \ cur = {}
  <2>1. d = Append(<<>>, A)
    BY <1>5 DEF compute_diff, A
  <2>2. Replay(q, old, A) = cur
    BY <1>2, <1>5
  <2>3. Replays(q, old, d, cur)
    BY <1>0, <1>1, <2>1, <2>2, ReplaysAppend
  <2> QED
    BY <1>1, <2>1, <2>3
<1>6. CASE cur \ old = {} /\ old \ cur # {}
  <2>1. d = Append(<<>>, R)
    BY <1>6 DEF compute_diff, R
  <2>2. Replay(q, old, R) = cur
    BY <1>3, <1>6
  <2>3. Replays(q, old, d, cur)
    BY <1>0, <1>1, <2>1, <2>2, ReplaysAppend
  <2> QED
    BY <1>1, <2>1, <2>3
<1>7. CASE cur \ old # {} /\ old \ cur # {}
  <2>1. d = Append(Append(<<>>, A), R)
    BY <1>7 DEF compute_diff, A, R
  <2>2. old \cup cur \in SUBSET Row /\ Replay(q, old \cup cur, R) = cur
    BY <1>3
  <2>3. Replays(q, old, Append(<<>>, A), old \cup cur)
    BY <1>0, <1>1, <1>2, ReplaysAppend
  <2>4. Replays(q, old, d, cur)
    <3>1. Append(<<>>, A) \in Seq(Result)
      BY <1>1
    <3> QED
      BY <1>1, <2>1, <2>2, <2>3, <3>1, ReplaysAppend
  <2> QED
    BY <1>1, <2>1, <2>4
<1> QED
  BY <1>4, <1>5, <1>6, <1>7

-----------------------------------------------------------------------------
(* Types *)

\* The type of the variables with the tasks folded.
LEMMA TypesOfTasks ==
    TypeOK => /\ task \in [Query -> Task] /\ host \in [Query -> SUBSET Row]
              /\ view \in [Query -> SUBSET Row] /\ clean \in [Query -> BOOLEAN]
              /\ chan \in Seq(Result) /\ Len(chan) <= ChanCap
  BY DEF TypeOK, Task

\* The tasks there may be.
LEMMA Tasks ==
    /\ Off \in Task /\ Ready \in Task
    /\ \A q \in Query, t \in Task, rows \in SUBSET Row : Done(q, t, rows) \in Task
    /\ \A q \in Query, t \in Task, rows \in SUBSET Row :
          LET d == Done(q, t, rows)
          IN  /\ d.at = "tick" /\ d.todo = <<>>
              /\ q \notin SnapshotMode => d.previous = rows /\ d.first = FALSE
<1>1. <<>> \in Seq(Result) /\ {} \in SUBSET Row
  OBVIOUS
<1>2. Off \in Task /\ Ready \in Task
  BY <1>1 DEF Off, Ready, Task
<1>3. ASSUME NEW q \in Query, NEW t \in Task, NEW rows \in SUBSET Row
      PROVE  /\ Done(q, t, rows) \in Task
             /\ Done(q, t, rows).at = "tick" /\ Done(q, t, rows).todo = <<>>
             /\ q \notin SnapshotMode => /\ Done(q, t, rows).previous = rows
                                         /\ Done(q, t, rows).first = FALSE
  BY <1>1 DEF Done, Task
<1> QED
  BY <1>2, <1>3

\* What a task sends for an answer: something for a snapshot, and always
\* results of its own.
LEMMA ResultsOwned ==
    ASSUME TypeOK, NEW q \in Query, NEW rows \in SUBSET Row
    PROVE  /\ Results(q, rows) \in Seq(Result)
           /\ \A i \in DOMAIN Results(q, rows) : Results(q, rows)[i].query = q
<1>1. task[q].previous \in SUBSET Row
  BY TypesOfTasks DEF Task
<1>2. CASE q \in SnapshotMode \/ task[q].first
  <2>1. Results(q, rows) = <<build_result(q, rows, "Snapshot")>>
    BY <1>2 DEF Results
  <2>2. build_result(q, rows, "Snapshot") \in Result
        /\ build_result(q, rows, "Snapshot").query = q
    BY DEF build_result, Result
  <2> QED
    BY <2>1, <2>2
<1>3. CASE ~(q \in SnapshotMode \/ task[q].first)
  <2>1. Results(q, rows) = compute_diff(q, task[q].previous, rows)
    BY <1>3 DEF Results
  <2> QED
    BY <1>1, <2>1, DiffReplays
<1> QED
  BY <1>2, <1>3

\* A step of a task changes this task only, to one that is well formed.
Becomes(q, t) ==
    /\ task' = [task EXCEPT ![q] = t]
    /\ t \in Task
    /\ \A i \in DOMAIN t.todo : t.todo[i].query = q
    /\ t.at = "send" <=> t.todo # <<>>

\* Every step of a task is of this kind.
LEMMA TaskSteps ==
    ASSUME TypeOK, Owned, NEW q \in Query, TaskNext(q)
    PROVE  \E t : Becomes(q, t)
<1>0. task \in [Query -> Task] /\ host[q] \in SUBSET Row /\ task[q] \in Task
  BY TypesOfTasks
<1>1. /\ \A i \in DOMAIN task[q].todo : task[q].todo[i].query = q
      /\ task[q].at = "send" <=> task[q].todo # <<>>
  BY DEF Owned
<1>2. ASSUME NEW a \in {"tick", "query", "hung"}, task[q].at # "send",
             task' = [task EXCEPT ![q].at = a]
      PROVE  \E t : Becomes(q, t)
  <2> DEFINE t == [task[q] EXCEPT !.at = a]
  <2>1. task' = [task EXCEPT ![q] = t]
    BY <1>2
  <2>2. t \in Task /\ t.todo = task[q].todo /\ t.at = a
    BY <1>0 DEF Task
  <2> HIDE DEF t
  <2> QED
    BY <1>1, <1>2, <2>1, <2>2 DEF Becomes
<1>3. CASE Tick(q)
  BY <1>2, <1>3 DEF Tick
<1>4. ASSUME NEW reply, Answer(q, reply) PROVE \E t : Becomes(q, t)
  <2> DEFINE results == Results(q, host[q])
             done == Done(q, task[q], host[q])
             sends == [task[q] EXCEPT !.at = "send", !.current = host[q],
                                      !.todo = results]
  <2>1. /\ results \in Seq(Result)
        /\ \A i \in DOMAIN results : results[i].query = q
    BY <1>0, ResultsOwned
  <2>2. task' = [task EXCEPT ![q] = IF results = <<>> THEN done ELSE sends]
    BY <1>4 DEF Answer
  <2> HIDE DEF results
  <2>3. done \in Task /\ done.at = "tick" /\ done.todo = <<>>
    BY <1>0, Tasks
  <2>4. sends \in Task /\ sends.at = "send" /\ sends.todo = results
    BY <1>0, <2>1 DEF Task
  <2> HIDE DEF done, sends
  <2>5. CASE results = <<>>
    <3>1. Becomes(q, done)
      BY <2>2, <2>3, <2>5 DEF Becomes
    <3> QED
      BY <3>1
  <2>6. CASE results # <<>>
    BY <2>1, <2>2, <2>4, <2>6 DEF Becomes
  <2> QED
    BY <2>5, <2>6
<1>5. ASSUME NEW reply, QueryError(q, reply) \/ Hang(q, reply) PROVE \E t : Becomes(q, t)
  BY <1>2, <1>5 DEF QueryError, Hang
<1>6. CASE Send(q)
  <2> DEFINE todo == task[q].todo
             done == Done(q, task[q], task[q].current)
             rest == [task[q] EXCEPT !.todo = Tail(todo)]
  <2>1. todo \in Seq(Result) /\ todo # <<>> /\ task[q].at = "send"
    BY <1>0, <1>1, <1>6 DEF Send, Task
  <2>2. task' = [task EXCEPT ![q] = IF Len(todo) = 1 THEN done ELSE rest]
    BY <1>6 DEF Send
  <2>3. done \in Task /\ done.at = "tick" /\ done.todo = <<>>
    <3>1. task[q].current \in SUBSET Row
      BY <1>0 DEF Task
    <3> QED
      BY <1>0, <3>1, Tasks
  <2>4. rest \in Task /\ rest.at = "send" /\ rest.todo = Tail(todo)
    <3>1. Tail(todo) \in Seq(Result)
      BY <2>1
    <3> QED
      BY <1>0, <2>1, <3>1 DEF Task
  <2>5. /\ \A i \in DOMAIN Tail(todo) : Tail(todo)[i].query = q
        /\ Len(todo) # 1 => Tail(todo) # <<>>
    <3>1. /\ Len(todo) \in Nat /\ Len(todo) > 0 /\ DOMAIN todo = 1..Len(todo)
          /\ Len(Tail(todo)) = Len(todo) - 1
          /\ DOMAIN Tail(todo) = 1..(Len(todo) - 1)
          /\ \A i \in 1..(Len(todo) - 1) : Tail(todo)[i] = todo[i + 1]
      BY <2>1
    <3>2. \A i \in DOMAIN todo : todo[i].query = q
      BY <1>1
    <3> HIDE DEF todo
    <3>3. \A i \in DOMAIN Tail(todo) : Tail(todo)[i].query = q
      BY <3>1, <3>2
    <3>4. Len(todo) # 1 => Tail(todo) # <<>>
      BY <3>1
    <3> QED
      BY <3>3, <3>4
  <2> HIDE DEF todo, done, rest
  <2>6. CASE Len(todo) = 1
    <3>1. Becomes(q, done)
      BY <2>2, <2>3, <2>6 DEF Becomes
    <3> QED
      BY <3>1
  <2>7. CASE Len(todo) # 1
    <3>1. Becomes(q, rest)
      BY <2>2, <2>4, <2>5, <2>7 DEF Becomes
    <3> QED
      BY <3>1
  <2> QED
    BY <2>6, <2>7
<1> QED
  BY <1>3, <1>4, <1>5, <1>6 DEF TaskNext, Replied

\* The channel after a step of a task.
LEMMA TaskChannel ==
    ASSUME TypeOK, Owned, NEW q \in Query, TaskNext(q)
    PROVE  \/ chan' = chan
           \/ /\ Send(q) /\ chan' = Append(chan, Head(task[q].todo))
              /\ Head(task[q].todo) \in Result /\ Head(task[q].todo).query = q
<1>1. CASE Send(q)
  <2>1. task[q].todo \in Seq(Result)
    BY TypesOfTasks DEF Task
  <2>2. task[q].todo # <<>> /\ \A i \in DOMAIN task[q].todo : task[q].todo[i].query = q
    BY <1>1 DEF Send, Owned
  <2>3. Head(task[q].todo) = task[q].todo[1] /\ 1 \in DOMAIN task[q].todo
    BY <2>1, <2>2
  <2>4. Head(task[q].todo) \in Result /\ Head(task[q].todo).query = q
    BY <2>1, <2>2, <2>3
  <2> QED
    BY <1>1, <2>4 DEF Send
<1> QED
  BY <1>1 DEF TaskNext, Tick, Replied, Answer, QueryError, Hang

\* Every step keeps the types.
LEMMA NextTypes == TypeOK /\ Owned /\ Seeding /\ [Next]_vars => TypeOK'
<1> SUFFICES ASSUME TypeOK, Owned, Seeding, [Next]_vars PROVE TypeOK'
  OBVIOUS
<1>0. /\ task \in [Query -> Task] /\ host \in [Query -> SUBSET Row]
      /\ view \in [Query -> SUBSET Row] /\ clean \in [Query -> BOOLEAN]
      /\ chan \in Seq(Result) /\ Len(chan) <= ChanCap
      /\ ChanCap \in Nat \ {0}
  BY TypesOfTasks, SchedulerAssumption
<1>f. faults \in [changes : Nat, errors : Nat, drops : Nat, hangs : Nat, crashes : Nat]
  BY DEF TypeOK
<1>d. Defaults \in Seq(Query) /\ Len(Defaults) \in Nat /\ Len(Defaults) > 0
  BY SchedulerAssumption
<1>p. /\ table \subseteq Query /\ seeded \in 0..Len(Defaults) /\ interrupted \in BOOLEAN
      /\ proc \in {"down", "opening", "seeding", "loading", "running", "dead"}
  BY DEF TypeOK
<1>t. ASSUME task' \in [Query -> Task], host' \in [Query -> SUBSET Row],
             view' \in [Query -> SUBSET Row], clean' \in [Query -> BOOLEAN],
             chan' \in Seq(Result), Len(chan') <= ChanCap,
             faults' \in [changes : Nat, errors : Nat, drops : Nat, hangs : Nat,
                          crashes : Nat],
             table' \subseteq Query, seeded' \in 0..Len(Defaults),
             interrupted' \in BOOLEAN,
             proc' \in {"down", "opening", "seeding", "loading", "running", "dead"}
      PROVE  TypeOK'
  BY <1>t DEF TypeOK, Task
<1>1. CASE Start
  BY <1>0, <1>f, <1>p, <1>t, <1>1 DEF Start
<1>2. CASE new
  BY <1>0, <1>f, <1>d, <1>p, <1>t, <1>2 DEF new
<1>3. CASE Seed
  <2>1. seeded < Len(Defaults)
    BY <1>3 DEF Seed, Seeding
  <2>2. seeded + 1 \in 0..Len(Defaults) /\ Defaults[seeded + 1] \in Query
    BY <1>d, <1>p, <2>1
  <2>3. table' \subseteq Query /\ seeded' \in 0..Len(Defaults)
    BY <1>p, <1>3, <2>2 DEF Seed
  <2> QED
    BY <1>0, <1>f, <1>p, <1>t, <1>3, <2>3 DEF Seed
<1>4. CASE OpenFails
  <2>1. interrupted' \in BOOLEAN
    BY <1>p, <1>4 DEF OpenFails
  <2>2. faults' \in [changes : Nat, errors : Nat, drops : Nat, hangs : Nat, crashes : Nat]
    BY <1>f, <1>4 DEF OpenFails
  <2> QED
    BY <1>0, <1>p, <1>t, <1>4, <2>1, <2>2 DEF OpenFails
<1>5. CASE load_queries
  <2>1. task' \in [Query -> Task]
    BY <1>5, Tasks DEF load_queries
  <2> QED
    BY <1>0, <1>f, <1>p, <1>t, <1>5, <2>1 DEF load_queries
<1>6. ASSUME NEW q \in Query, TaskNext(q) PROVE TypeOK'
  <2>1. task' \in [Query -> Task]
    BY <1>0, <1>6, TaskSteps DEF Becomes
  <2>2. chan' \in Seq(Result) /\ Len(chan') <= ChanCap
    <3>1. CASE chan' = chan
      BY <1>0, <3>1
    <3>2. CASE Send(q) /\ chan' = Append(chan, Head(task[q].todo))
               /\ Head(task[q].todo) \in Result
      <4>1. Len(chan) < ChanCap
        BY <3>2 DEF Send
      <4> QED
        BY <1>0, <3>2, <4>1
    <3> QED
      BY <1>6, <3>1, <3>2, TaskChannel
  <2>3. clean' \in [Query -> BOOLEAN]
    BY <1>0, <1>6 DEF TaskNext, Tick, Replied, Answer, QueryError, Hang, Send
  <2>4. faults' \in [changes : Nat, errors : Nat, drops : Nat, hangs : Nat, crashes : Nat]
    BY <1>f, <1>6 DEF TaskNext, Tick, Replied, Answer, QueryError, Hang, Send
  <2>5. UNCHANGED <<host, table, proc, seeded, view, interrupted>>
    BY <1>6 DEF TaskNext, Tick, Replied, Answer, QueryError, Hang, Send
  <2> QED
    BY <1>0, <1>p, <1>t, <2>1, <2>2, <2>3, <2>4, <2>5
<1>7. ASSUME NEW q \in Query, HostChanges(q) PROVE TypeOK'
  <2>1. host' \in [Query -> SUBSET Row]
    BY <1>0, <1>7 DEF HostChanges
  <2>2. faults' \in [changes : Nat, errors : Nat, drops : Nat, hangs : Nat, crashes : Nat]
    BY <1>f, <1>7 DEF HostChanges
  <2> QED
    BY <1>0, <1>p, <1>t, <1>7, <2>1, <2>2 DEF HostChanges
<1>8. CASE Receive
  <2>1. Head(chan) \in Result /\ chan' \in Seq(Result) /\ Len(chan') <= ChanCap
    BY <1>0, <1>8 DEF Receive
  <2>2. view' \in [Query -> SUBSET Row]
    <3>1. \A q \in Query : Replay(q, view[q], Head(chan)) \in SUBSET Row
      BY <1>0, <2>1, ReplayRows
    <3> QED
      BY <1>8, <3>1 DEF Receive
  <2> QED
    BY <1>0, <1>f, <1>p, <1>t, <1>8, <2>1, <2>2 DEF Receive
<1>9. CASE ReceiveDrops
  <2>1. chan' \in Seq(Result) /\ Len(chan') <= ChanCap
    BY <1>0, <1>9 DEF ReceiveDrops
  <2>2. clean' \in [Query -> BOOLEAN]
    BY <1>0, <1>9 DEF ReceiveDrops
  <2>3. faults' \in [changes : Nat, errors : Nat, drops : Nat, hangs : Nat, crashes : Nat]
    BY <1>f, <1>9 DEF ReceiveDrops
  <2> QED
    BY <1>0, <1>p, <1>t, <1>9, <2>1, <2>2, <2>3 DEF ReceiveDrops
<1>10. CASE Crash
  <2>1. chan' \in Seq(Result) /\ Len(chan') <= ChanCap
    BY <1>0, <1>10 DEF Crash
  <2>2. clean' \in [Query -> BOOLEAN]
    BY <1>10 DEF Crash
  <2>3. task' \in [Query -> Task]
    BY <1>10, Tasks DEF Crash
  <2>4. faults' \in [changes : Nat, errors : Nat, drops : Nat, hangs : Nat, crashes : Nat]
    BY <1>f, <1>10 DEF Crash
  <2>5. interrupted' \in BOOLEAN
    BY <1>p, <1>10 DEF Crash
  <2> QED
    BY <1>0, <1>p, <1>t, <1>10, <2>1, <2>2, <2>3, <2>4, <2>5 DEF Crash
<1>11. CASE UNCHANGED vars
  BY <1>0, <1>f, <1>p, <1>t, <1>11 DEF vars
<1> QED
  BY <1>1, <1>2, <1>3, <1>4, <1>5, <1>6, <1>7, <1>8, <1>9, <1>10, <1>11 DEF Next

-----------------------------------------------------------------------------
(* Tasks, starts and seeding *)

\* The tasks of a start and of an end have nothing to send.
LEMMA FreshTasks == Off.todo = <<>> /\ Off.at = "off" /\ Ready.todo = <<>> /\ Ready.at = "tick"
  BY DEF Off, Ready

\* Every step leaves a task with results of its own.
LEMMA NextOwned == TypeOK /\ Owned /\ [Next]_vars => Owned'
<1> SUFFICES ASSUME TypeOK, Owned, [Next]_vars PROVE Owned'
  OBVIOUS
<1>0. task \in [Query -> Task]
  BY TypesOfTasks
<1>1. CASE UNCHANGED task
  BY <1>1 DEF Owned
<1>2. ASSUME NEW q \in Query, TaskNext(q) PROVE Owned'
  <2>1. PICK t : Becomes(q, t)
    BY <1>2, TaskSteps
  <2>2. task'[q] = t /\ \A p \in Query : p # q => task'[p] = task[p]
    BY <1>0, <2>1 DEF Becomes
  <2> QED
    BY <2>1, <2>2 DEF Owned, Becomes
<1>3. CASE load_queries \/ Crash
  <2>1. \A q \in Query : task'[q] \in {Off, Ready}
    BY <1>3 DEF load_queries, Crash
  <2> QED
    BY <2>1, FreshTasks DEF Owned
<1> QED
  BY <1>1, <1>2, <1>3
  DEF Next, Start, new, Seed, OpenFails, HostChanges, Receive, ReceiveDrops, vars

\* Tasks, results and clean streams come and go with the running collector.
LEMMA NextQuiet == TypeOK /\ Owned /\ Quiet /\ [Next]_vars => Quiet'
<1> SUFFICES ASSUME TypeOK, Owned, Quiet, [Next]_vars PROVE Quiet'
  OBVIOUS
<1>0. \A q \in Query : TaskNext(q) => proc = "running"
  <2> SUFFICES ASSUME NEW q \in Query, TaskNext(q), proc # "running" PROVE FALSE
    OBVIOUS
  <2>1. task[q].at = "off"
    BY FreshTasks DEF Quiet
  <2> QED
    BY <2>1 DEF TaskNext, Tick, Replied, Answer, QueryError, Hang, Send
<1>1. ASSUME NEW q \in Query, TaskNext(q) PROVE Quiet'
  <2>1. proc' = proc
    BY <1>1 DEF TaskNext, Tick, Replied, Answer, QueryError, Hang, Send
  <2> QED
    BY <1>0, <1>1, <2>1 DEF Quiet
<1>2. CASE Start \/ new \/ Seed \/ OpenFails \/ UNCHANGED vars
  BY <1>2 DEF Quiet, Start, new, Seed, OpenFails, vars
<1>3. CASE load_queries
  <2>1. table = {} => \A q \in Query : task'[q] = Off
    BY <1>3 DEF load_queries
  <2> QED
    BY <1>3, <2>1 DEF Quiet, load_queries
<1>4. ASSUME NEW q \in Query, HostChanges(q) PROVE Quiet'
  BY <1>4 DEF Quiet, HostChanges
<1>5. CASE Receive \/ ReceiveDrops
  BY <1>5 DEF Quiet, Receive, ReceiveDrops
<1>6. CASE Crash
  BY <1>6 DEF Quiet, Crash
<1> QED
  BY <1>1, <1>2, <1>3, <1>4, <1>5, <1>6 DEF Next

\* A seeding goes through all the defaults or is interrupted.
LEMMA NextSeeding == TypeOK /\ Seeding /\ [Next]_vars => Seeding'
<1> SUFFICES ASSUME TypeOK, Seeding, [Next]_vars PROVE Seeding'
  OBVIOUS
<1>0. /\ Len(Defaults) \in Nat /\ Len(Defaults) > 0 /\ DOMAIN Defaults = 1..Len(Defaults)
      /\ seeded \in 0..Len(Defaults)
  BY SchedulerAssumption DEF TypeOK
<1>1. CASE new
  BY <1>0, <1>1 DEF Seeding, new
<1>2. CASE Seed
  <2>1. seeded < Len(Defaults) /\ \A i \in 1..seeded : Defaults[i] \in table
    BY <1>2 DEF Seeding, Seed
  <2>2. seeded' = seeded + 1 /\ \A i \in 1..seeded' : Defaults[i] \in table'
    <3>1. seeded' = seeded + 1 /\ table' = table \cup {Defaults[seeded + 1]}
      BY <1>2 DEF Seed
    <3>2. \A i \in 1..(seeded + 1) : i \in 1..seeded \/ i = seeded + 1
      BY <1>0
    <3>3. \A i \in 1..(seeded + 1) : Defaults[i] \in table'
      BY <2>1, <3>1, <3>2
    <3> QED
      BY <3>1, <3>3
  <2>3. CASE seeded + 1 = Len(Defaults)
    BY <1>0, <1>2, <2>2, <2>3 DEF Seeding, Seed
  <2>4. CASE seeded + 1 # Len(Defaults)
    <3>1. seeded' < Len(Defaults)
      <4>0. seeded \in Nat /\ Len(Defaults) \in Nat /\ seeded < Len(Defaults)
        BY <1>0, <2>1
      <4>1. seeded + 1 < Len(Defaults)
        BY <2>4, <4>0
      <4> QED
        BY <2>2, <4>1
    <3>2. proc' = "seeding"
      BY <1>2, <2>4 DEF Seed
    <3> QED
      BY <2>2, <3>1, <3>2 DEF Seeding
  <2> QED
    BY <2>3, <2>4
<1>3. CASE Start \/ OpenFails \/ load_queries \/ Crash
  BY <1>3 DEF Seeding, Start, OpenFails, load_queries, Crash
<1>4. CASE UNCHANGED <<proc, seeded, table, interrupted>>
  BY <1>4 DEF Seeding
<1>5. ASSUME NEW q \in Query, TaskNext(q) \/ HostChanges(q) PROVE Seeding'
  BY <1>4, <1>5 DEF TaskNext, Tick, Replied, Answer, QueryError, Hang, Send, HostChanges
<1> QED
  BY <1>1, <1>2, <1>3, <1>4, <1>5 DEF Next, Receive, ReceiveDrops, vars

-----------------------------------------------------------------------------
(* Differences *)

\* Whatever step is taken, the channel can be replayed.
LEMMA NextContinues ==
    ASSUME TypeOK, Owned, [Next]_vars, NEW q \in Query, Continues(q, chan)
    PROVE  Continues(q, chan')
<1>0. chan \in Seq(Result)
  BY TypesOfTasks
<1>1. ASSUME NEW p \in Query, TaskNext(p) PROVE Continues(q, chan')
  BY <1>0, <1>1, TaskChannel, ContinuesAppend
<1>2. CASE Receive \/ ReceiveDrops
  <2>1. chan # <<>> /\ chan' = Tail(chan)
    BY <1>2 DEF Receive, ReceiveDrops
  <2>2. Continues(q, Tail(chan))
    BY <1>0, <2>1, ContinuesTail
  <2> QED
    BY <2>1, <2>2
<1>3. CASE Crash
  BY <1>3, ContinuesEmpty DEF Crash
<1>4. CASE UNCHANGED chan
  BY <1>4
<1> QED
  BY <1>1, <1>2, <1>3, <1>4
  DEF Next, Start, new, Seed, OpenFails, load_queries, HostChanges, vars

\* What DiffsAddUp says of one query: w is what the reader has when the
\* channel is empty.
AddsUp(q, w) ==
    w \in SUBSET Row /\ Replays(q, view[q], chan, w) /\ Replays(q, w, task[q].todo, Believed(q))

\* The rows a task believes in are rows.
LEMMA BelievedRows == TypeOK => \A q \in Query : Believed(q) \in SUBSET Row
  BY TypesOfTasks DEF Believed, Task

\* A step of another task leaves a query's rows alone, and its result in the
\* channel does not concern it.
LEMMA OtherTask ==
    ASSUME TypeOK, Owned, NEW p \in Query, TaskNext(p), NEW q \in Query, q # p,
           NEW w, AddsUp(q, w)
    PROVE  AddsUp(q, w)'
<1>0. /\ chan \in Seq(Result) /\ view[q] \in SUBSET Row /\ w \in SUBSET Row
      /\ task \in [Query -> Task]
  BY TypesOfTasks DEF AddsUp
<1>1. task'[q] = task[q]
  BY <1>0, TaskSteps DEF Becomes
<1>2. Believed(q)' = Believed(q)
  BY <1>1 DEF Believed
<1>3. view' = view
  BY DEF TaskNext, Tick, Replied, Answer, QueryError, Hang, Send
<1>4. Replays(q, view[q], chan', w)
  <2>1. CASE chan' = chan
    BY <2>1 DEF AddsUp
  <2>2. CASE /\ chan' = Append(chan, Head(task[p].todo))
             /\ Head(task[p].todo) \in Result /\ Head(task[p].todo).query = p
    <3>1. Replay(q, w, Head(task[p].todo)) = w
      BY <2>2, ReplayOther
    <3>2. Replays(q, view[q], chan, w)
      BY DEF AddsUp
    <3> QED
      BY <1>0, <2>2, <3>1, <3>2, ReplaysAppend
  <2> QED
    BY <2>1, <2>2, TaskChannel
<1> QED
  BY <1>0, <1>1, <1>2, <1>3, <1>4 DEF AddsUp

\* A step of the task itself: what it sends for an answer takes its reader to
\* the new rows, and what it sends goes from its own queue to the channel.
LEMMA OwnTask ==
    ASSUME TypeOK, Owned, NEW q \in Query \ SnapshotMode, TaskNext(q), clean'[q],
           Continues(q, chan), clean[q] => \E w : AddsUp(q, w)
    PROVE  \E w : AddsUp(q, w)'
<1>0. /\ chan \in Seq(Result) /\ view[q] \in SUBSET Row /\ host[q] \in SUBSET Row
      /\ task \in [Query -> Task] /\ task[q] \in Task
      /\ task[q].previous \in SUBSET Row /\ task[q].current \in SUBSET Row
      /\ task[q].first \in BOOLEAN /\ task[q].todo \in Seq(Result)
      /\ clean \in [Query -> BOOLEAN] /\ q \in Query
  BY TypesOfTasks DEF Task
<1>1. task[q].at # "send" => task[q].todo = <<>>
  BY DEF Owned
<1>2. view' = view
  BY DEF TaskNext, Tick, Replied, Answer, QueryError, Hang, Send
<1>3. ASSUME NEW a \in {"tick", "query", "hung"}, task[q].at # "send",
             task' = [task EXCEPT ![q].at = a], UNCHANGED <<chan, clean>>
      PROVE  \E w : AddsUp(q, w)'
  <2>1. PICK w : AddsUp(q, w)
    BY <1>3
  <2>2. task'[q].todo = task[q].todo /\ Believed(q)' = Believed(q)
    BY <1>0, <1>3 DEF Believed, Task
  <2> QED
    BY <1>2, <1>3, <2>1, <2>2 DEF AddsUp
<1>4. CASE Tick(q)
  BY <1>3, <1>4 DEF Tick
<1>5. ASSUME NEW reply, QueryError(q, reply) \/ Hang(q, reply)
      PROVE  \E w : AddsUp(q, w)'
  BY <1>3, <1>5 DEF QueryError, Hang
<1>6. ASSUME NEW reply, Answer(q, reply) PROVE \E w : AddsUp(q, w)'
  <2> DEFINE results == Results(q, host[q])
  <2>1. chan' = chan /\ task[q].at = "query" /\ task[q].todo = <<>>
    BY <1>1, <1>6 DEF Answer
  <2>2. PICK w \in SUBSET Row : /\ Replays(q, view[q], chan, w)
                                /\ Replays(q, w, results, host[q])
    <3>1. CASE task[q].first
      <4>1. PICK w \in SUBSET Row : Replays(q, view[q], chan, w)
        BY <1>0, ContinuesReplays
      <4> DEFINE r == build_result(q, host[q], "Snapshot")
      <4>2. r \in Result /\ Replay(q, w, r) = host[q]
        BY <1>0 DEF build_result, Result, Replay
      <4>3. results = Append(<<>>, r)
        BY <3>1 DEF Results
      <4> HIDE DEF r, results
      <4>4. Replays(q, w, <<>>, w) /\ <<>> \in Seq(Result)
        BY ReplaysEmpty
      <4>5. Replays(q, w, results, host[q])
        BY <4>2, <4>3, <4>4, ReplaysAppend
      <4> QED
        BY <4>1, <4>5
    <3>2. CASE ~task[q].first
      <4>1. clean[q]
        BY <1>0, <1>6, <3>2 DEF Answer
      <4>2. PICK w : AddsUp(q, w)
        BY <4>1
      <4>3. w \in SUBSET Row /\ Replays(q, w, <<>>, task[q].previous)
        BY <2>1, <4>2 DEF AddsUp, Believed
      <4>4. w = task[q].previous
        BY <1>0, <4>3, ReplaysEmpty
      <4>5. results = compute_diff(q, w, host[q])
        BY <3>2, <4>4 DEF Results
      <4>6. Replays(q, w, results, host[q])
        <5>1. Replays(q, w, compute_diff(q, w, host[q]), host[q])
          BY <1>0, <4>3, DiffReplays
        <5> QED
          BY <4>5, <5>1
      <4> QED
        BY <4>2, <4>3, <4>6 DEF AddsUp
    <3> QED
      BY <1>0, <3>1, <3>2
  <2>3. task'[q].todo = results /\ Believed(q)' = host[q]
    <3> DEFINE done == Done(q, task[q], host[q])
               sends == [task[q] EXCEPT !.at = "send", !.current = host[q],
                                        !.todo = results]
    <3>1. task'[q] = IF results = <<>> THEN done ELSE sends
      BY <1>0, <1>6 DEF Answer
    <3> HIDE DEF results
    <3>2. done.at = "tick" /\ done.todo = <<>> /\ done.previous = host[q]
      BY <1>0, Tasks
    <3>3. sends.at = "send" /\ sends.todo = results /\ sends.current = host[q]
      BY <1>0 DEF Task
    <3> HIDE DEF done, sends
    <3>4. CASE results = <<>>
      BY <3>1, <3>2, <3>4 DEF Believed
    <3>5. CASE results # <<>>
      BY <3>1, <3>3, <3>5 DEF Believed
    <3> QED
      BY <3>4, <3>5
  <2>4. AddsUp(q, w)'
    BY <1>2, <2>1, <2>2, <2>3 DEF AddsUp
  <2> QED
    BY <2>4
<1>7. CASE Send(q)
  <2> DEFINE todo == task[q].todo
             r == Head(todo)
  <2>1. /\ todo \in Seq(Result) /\ todo # <<>> /\ task[q].at = "send"
        /\ chan' = Append(chan, r) /\ clean' = clean /\ r \in Result
    <3>1. task[q].todo # <<>> /\ task[q].at = "send"
      BY <1>7 DEF Send, Owned
    <3>2. chan' = Append(chan, Head(task[q].todo)) /\ clean' = clean
      BY <1>7 DEF Send
    <3> QED
      BY <1>0, <3>1, <3>2
  <2>2. PICK w : AddsUp(q, w)
    BY <2>1
  <2>3. /\ w \in SUBSET Row /\ Replays(q, view[q], chan, w)
        /\ Replays(q, w, todo, task[q].current)
    BY <2>1, <2>2 DEF AddsUp, Believed
  <2>4. PICK x \in SUBSET Row : x = Replay(q, w, r)
    BY <2>1, <2>3, ReplayRows
  <2>5. Replays(q, view[q], chan', x) /\ Replays(q, x, Tail(todo), task[q].current)
    BY <1>0, <2>1, <2>3, <2>4, ReplaysAppend, ReplaysTail
  <2>6. task'[q].todo = Tail(todo) /\ Believed(q)' = task[q].current
    <3> DEFINE done == Done(q, task[q], task[q].current)
               rest == [task[q] EXCEPT !.todo = Tail(todo)]
    <3>1. task'[q] = IF Len(todo) = 1 THEN done ELSE rest
      BY <1>0, <1>7 DEF Send
    <3>2. done.at = "tick" /\ done.todo = <<>> /\ done.previous = task[q].current
      BY <1>0, Tasks
    <3>3. rest.at = "send" /\ rest.todo = Tail(todo) /\ rest.current = task[q].current
      BY <1>0, <2>1 DEF Task
    <3>4. Len(todo) = 1 => Tail(todo) = <<>>
      <4>1. Tail(todo) \in Seq(Result) /\ Len(Tail(todo)) = Len(todo) - 1
        BY <2>1
      <4> DEFINE s == Tail(todo)
      <4> HIDE DEF s
      <4>2. s \in Seq(Result) /\ Len(s) = 0 => s = <<>>
        OBVIOUS
      <4> QED
        BY <4>1, <4>2 DEF s
    <3> HIDE DEF done, rest, todo
    <3>5. CASE Len(todo) = 1
      BY <3>1, <3>2, <3>4, <3>5 DEF Believed
    <3>6. CASE Len(todo) # 1
      BY <3>1, <3>3, <3>6 DEF Believed
    <3> QED
      BY <3>5, <3>6
  <2>7. AddsUp(q, x)'
    <3> HIDE DEF todo
    <3> QED
      BY <1>2, <2>4, <2>5, <2>6 DEF AddsUp
  <2> QED
    BY <2>7
<1> QED
  BY <1>4, <1>5, <1>6, <1>7 DEF TaskNext, Replied

\* A result that leaves the channel was replayed, or was not clean.
LEMMA ReceiverSteps ==
    ASSUME TypeOK, Receive \/ ReceiveDrops, NEW q \in Query, clean'[q],
           clean[q] => \E w : AddsUp(q, w)
    PROVE  \E w : AddsUp(q, w)'
<1>0. /\ chan \in Seq(Result) /\ view[q] \in SUBSET Row /\ view \in [Query -> SUBSET Row]
      /\ clean \in [Query -> BOOLEAN]
  BY TypesOfTasks
<1>1. chan # <<>> /\ chan' = Tail(chan) /\ task' = task
  BY DEF Receive, ReceiveDrops
<1>2. clean[q]
  BY <1>0 DEF Receive, ReceiveDrops
<1>3. view'[q] = Replay(q, view[q], Head(chan))
  <2>1. CASE Receive
    BY <2>1 DEF Receive
  <2>2. CASE ReceiveDrops
    <3>1. Head(chan).query # q
      BY <1>0, <2>2 DEF ReceiveDrops
    <3> QED
      BY <2>2, <3>1, ReplayOther DEF ReceiveDrops
  <2> QED
    BY <2>1, <2>2
<1>4. PICK w : AddsUp(q, w)
  BY <1>2
<1>5. w \in SUBSET Row /\ Replays(q, view[q], chan, w)
  BY <1>4 DEF AddsUp
<1>6. Replays(q, Replay(q, view[q], Head(chan)), Tail(chan), w)
  BY <1>0, <1>1, <1>5, ReplaysTail
<1>7. Replays(q, view'[q], chan', w)
  BY <1>1, <1>3, <1>6
<1>8. AddsUp(q, w)'
  BY <1>1, <1>4, <1>7 DEF AddsUp, Believed
<1> QED
  BY <1>8

\* Every step keeps the sum of the differences.
LEMMA NextDiffs ==
    TypeOK /\ Owned /\ Quiet /\ (\A q \in Query : Continues(q, chan)) /\ DiffsAddUp
      /\ [Next]_vars => DiffsAddUp'
<1> SUFFICES ASSUME TypeOK, Owned, Quiet, \A q \in Query : Continues(q, chan), DiffsAddUp,
                    [Next]_vars, NEW q \in Query \ SnapshotMode, clean'[q]
             PROVE  \E w : AddsUp(q, w)'
  BY DEF DiffsAddUp, AddsUp
<1>0. clean[q] => \E w : AddsUp(q, w)
  BY DEF DiffsAddUp, AddsUp
<1>1. ASSUME NEW p \in Query, TaskNext(p) PROVE \E w : AddsUp(q, w)'
  <2>1. CASE p = q
    BY <1>0, <1>1, <2>1, OwnTask
  <2>2. CASE p # q
    <3>1. clean'[q] = clean[q]
      <4>1. clean \in [Query -> BOOLEAN]
        BY TypesOfTasks
      <4> QED
        BY <1>1, <2>2, <4>1
        DEF TaskNext, Tick, Replied, Answer, QueryError, Hang, Send
    <3>2. PICK w : AddsUp(q, w)
      BY <1>0, <3>1
    <3>3. AddsUp(q, w)'
      BY <1>1, <2>2, <3>2, OtherTask
    <3> QED
      BY <3>3
  <2> QED
    BY <2>1, <2>2
<1>2. CASE Receive \/ ReceiveDrops
  BY <1>0, <1>2, ReceiverSteps
<1>3. CASE load_queries \/ Crash
  <2>1. ~clean'[q]
    BY <1>3 DEF load_queries, Crash, Quiet
  <2> QED
    BY <2>1
<1>4. CASE UNCHANGED <<task, chan, view, clean>>
  <2>1. PICK w : AddsUp(q, w)
    BY <1>0, <1>4
  <2>2. AddsUp(q, w)'
    BY <1>4, <2>1 DEF AddsUp, Believed
  <2> QED
    BY <2>2
<1> QED
  BY <1>1, <1>2, <1>3, <1>4
  DEF Next, Start, new, Seed, OpenFails, HostChanges, vars

-----------------------------------------------------------------------------
(* Theorems *)

\* The conjunction is inductive.
LEMMA NextIInv == IInv /\ [Next]_vars => IInv'
<1> SUFFICES ASSUME IInv, [Next]_vars PROVE IInv'
  OBVIOUS
<1>1. TypeOK' /\ Owned' /\ Quiet' /\ Seeding' /\ DiffsAddUp'
  BY NextTypes, NextOwned, NextQuiet, NextSeeding, NextDiffs DEF IInv
<1>2. \A q \in Query : Continues(q, chan')
  BY NextContinues DEF IInv
<1>3. \A q \in Query : Continues(q, chan)'
  BY <1>2 DEF Continues
<1> QED
  BY <1>1, <1>3 DEF IInv

\* It holds when the agent is installed.
LEMMA InitIInv == Init => IInv
<1> SUFFICES ASSUME Init PROVE IInv
  OBVIOUS
<1>1. TypeOK
  <2>1. task \in [Query -> Task]
    BY Tasks DEF Init
  <2>2. host \in [Query -> SUBSET Row] /\ table \subseteq Query
    BY SchedulerAssumption DEF Init
  <2>3. chan \in Seq(Result) /\ Len(chan) <= ChanCap /\ seeded \in 0..Len(Defaults)
    BY SchedulerAssumption DEF Init
  <2>4. view \in [Query -> SUBSET Row] /\ clean \in [Query -> BOOLEAN]
    BY DEF Init
  <2>5. faults \in [changes : Nat, errors : Nat, drops : Nat, hangs : Nat, crashes : Nat]
    BY DEF Init
  <2> QED
    BY <2>1, <2>2, <2>3, <2>4, <2>5 DEF Init, TypeOK, Task
<1>2. Owned
  <2>1. \A q \in Query : task[q] = Off
    BY DEF Init
  <2>2. \A q \in Query : task[q].todo = <<>> /\ task[q].at = "off"
    BY <2>1, FreshTasks
  <2>3. \A q \in Query : DOMAIN task[q].todo = {}
    <3>1. DOMAIN <<>> = {}
      OBVIOUS
    <3> QED
      BY <2>2, <3>1
  <2>4. ASSUME NEW q \in Query
        PROVE  task[q].at = "send" <=> task[q].todo # <<>>
    BY <2>2
  <2> QED
    BY <2>3, <2>4 DEF Owned
<1>3. Quiet /\ Seeding
  BY DEF Init, Quiet, Seeding
<1>4. \A q \in Query : Continues(q, chan)
  BY ContinuesEmpty DEF Init
<1>5. DiffsAddUp
  BY DEF Init, DiffsAddUp
<1> QED
  BY <1>1, <1>2, <1>3, <1>4, <1>5 DEF IInv

\* The inductive invariant of the scheduler.
THEOREM Inductive == Spec => []IInv
  BY InitIInv, NextIInv, PTL DEF Spec

\* The types of scheduler, tasks and channel; a sender never exceeds the
\* channel's capacity.
THEOREM TypeCorrect == Spec => []TypeOK
<1>1. IInv => TypeOK
  BY DEF IInv
<1> QED
  BY <1>1, Inductive, PTL

\* QueryScheduler::new seeds the defaults completely or is interrupted.
THEOREM TableSeeded == Spec => []SeedComplete
<1>1. IInv => SeedComplete
  BY DEF IInv, Seeding, SeedComplete
<1> QED
  BY <1>1, Inductive, PTL

\* compute_diff, previous_rows and the channel never let the differences of a
\* query and its rows drift apart, for any queries, rows and capacity.
THEOREM DifferencesAddUp == Spec => []DiffsAddUp
<1>1. IInv => DiffsAddUp
  BY DEF IInv
<1> QED
  BY <1>1, Inductive, PTL

=============================================================================
