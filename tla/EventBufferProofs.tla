------------------------- MODULE EventBufferProofs -------------------------
(***************************************************************************)
(* Proofs about the agent's event buffer, for every set of payloads, every *)
(* set of limits and batch sizes, and any number of rows and failures.     *)
(*                                                                         *)
(* OldestFirst is not inductive by itself: that an insertion does not      *)
(* break it needs that no id in use or removed is larger than autoinc.     *)
(* WithinLimit and OverflowOnlyByFailure need that the table is finite,    *)
(* which TypeOK gives.                                                     *)
(*                                                                         *)
(* The refinement of BoundedFifo rests on ranks: the ranks of a finite set *)
(* of ids are an injection into as many positions, hence onto, so that     *)
(* every position has its row (Positions); an INSERT adds the last one     *)
(* (LastRow) and a DELETE of the oldest shifts the others (OldestRows).    *)
(***************************************************************************)
EXTENDS EventBuffer, FiniteSetTheorems, TLAPS

\* Ids that are in use or were removed have been handed out by SQLite.
IdsHandedOut ==
    /\ Ids \subseteq 1..autoinc
    /\ removed \subseteq 1..autoinc

\* The inductive invariant.
IInv ==
    /\ TypeOK
    /\ IdsHandedOut
    /\ OldestFirst
    /\ WithinLimit
    /\ OverflowOnlyByFailure

\* The table is finite: its ids are bounded.
LEMMA IdsFinite ==
    ASSUME TypeOK
    PROVE  IsFiniteSet(Ids) /\ Cardinality(Ids) \in Nat
<1>1. IsFiniteSet(1..MaxId)
  BY BoundsAssumption, FS_Interval
<1>2. IsFiniteSet(Ids)
  BY <1>1, FS_Subset DEF TypeOK
<1> QED
  BY <1>2, FS_CardinalityType

\* Deleting the rows an ORDER BY id LIMIT n query selects removes exactly
\* min(n, count) rows, and only rows older than all that stay.
LEMMA DeleteOldest ==
    ASSUME TypeOK, NEW D, NEW n \in Nat, IsOldest(D, n), Delete(D)
    PROVE  /\ Ids' = Ids \ D
           /\ D \subseteq Ids
           /\ Cardinality(Ids') = IF Cardinality(Ids) > n
                                  THEN Cardinality(Ids) - n ELSE 0
           /\ \A d \in D, i \in Ids' : d < i
           /\ \A i \in Ids' : table'[i] = table[i]
           /\ table' \in [Ids' -> Payload]
<1>1. /\ Ids' = Ids \ D
      /\ \A i \in Ids' : table'[i] = table[i]
      /\ table' \in [Ids' -> Payload]
  BY DEF Delete, Ids, TypeOK
<1>2. D \subseteq Ids /\ \A d \in D, i \in Ids' : d < i
  BY <1>1 DEF IsOldest
<1>3. /\ IsFiniteSet(Ids)
      /\ Cardinality(Ids) \in Nat
  BY IdsFinite
<1>4. IsFiniteSet(D) /\ Ids \cap D = D
  BY <1>2, <1>3, FS_Subset
<1>5. Cardinality(Ids \ D) = Cardinality(Ids) - Cardinality(D)
  BY <1>3, <1>4, FS_Difference
<1> QED
  BY <1>1, <1>2, <1>3, <1>5 DEF IsOldest

\* The buffer starts empty, in a state that satisfies the invariant.
LEMMA InitIInv == Init => IInv
<1> SUFFICES ASSUME Init PROVE IInv
  OBVIOUS
<1>1. Ids = {}
  BY DEF Init, Ids
<1>2. Cardinality(Ids) = 0
  BY <1>1, FS_EmptySet
<1>3. TypeOK
  <2>1. table \in [Ids -> Payload]
    BY <1>1 DEF Init, Ids
  <2>2. /\ autoinc = 0 /\ failures = 0 /\ removed = {}
        /\ maxEvents \in Limits /\ pushing \in BOOLEAN /\ trimmed \in BOOLEAN
    BY DEF Init
  <2>3. autoinc \in 0..MaxId /\ failures \in 0..MaxFailures
    BY <2>2, BoundsAssumption
  <2>4. Ids \in SUBSET (1..MaxId) /\ removed \in SUBSET (1..MaxId)
    BY <1>1, <2>2
  <2> QED
    BY <2>1, <2>2, <2>3, <2>4 DEF TypeOK
<1>4. IdsHandedOut /\ OldestFirst
  BY <1>1 DEF Init, IdsHandedOut, OldestFirst
<1>5. WithinLimit /\ OverflowOnlyByFailure
  BY <1>2, LimitsAssumption DEF Init, WithinLimit, OverflowOnlyByFailure
<1> QED
  BY <1>3, <1>4, <1>5 DEF IInv

\* The first statement of push.
LEMMA InsertIInv ==
    ASSUME IInv, NEW p \in Payload, Insert(p)
    PROVE  IInv'
<1> DEFINE new == autoinc + 1
<1>1. TypeOK /\ IdsHandedOut /\ OldestFirst /\ WithinLimit /\ OverflowOnlyByFailure
  BY DEF IInv
<1>2. /\ Ids' = Ids \cup {new}
      /\ autoinc' = new
      /\ new \in 1..MaxId
      /\ new \notin Ids
  BY <1>1, BoundsAssumption DEF Insert, Ids, TypeOK, IdsHandedOut
<1>3. IsFiniteSet(Ids) /\ Cardinality(Ids) \in Nat
  BY <1>1, IdsFinite
<1>4. Cardinality(Ids') = Cardinality(Ids) + 1
  BY <1>2, <1>3, FS_AddElement
<1>5. TypeOK'
  BY <1>1, <1>2 DEF Insert, TypeOK, Ids
<1>6. IdsHandedOut' /\ OldestFirst'
  BY <1>1, <1>2, BoundsAssumption DEF Insert, IdsHandedOut, OldestFirst, TypeOK
<1>7. WithinLimit'
  BY <1>1, <1>3, <1>4, LimitsAssumption DEF Insert, WithinLimit, TypeOK
<1>8. OverflowOnlyByFailure'
  BY <1>1, <1>3, <1>4, LimitsAssumption DEF Insert, OverflowOnlyByFailure, TypeOK
<1> QED
  BY <1>5, <1>6, <1>7, <1>8 DEF IInv

\* The second half of push restores the limit, however far the table was
\* over it.
LEMMA EvictIInv ==
    ASSUME IInv, Evict
    PROVE  IInv'
<1>1. TypeOK /\ IdsHandedOut /\ OldestFirst /\ WithinLimit /\ OverflowOnlyByFailure
  BY DEF IInv
<1>2. Cardinality(Ids) \in Nat /\ maxEvents \in Nat
  BY <1>1, IdsFinite, LimitsAssumption DEF TypeOK
<1>3. CASE Cardinality(Ids) > maxEvents
  <2>1. PICK D : IsOldest(D, Cardinality(Ids) - maxEvents) /\ Delete(D)
    BY <1>3 DEF Evict
  <2>2. Cardinality(Ids) - maxEvents \in Nat
    BY <1>2, <1>3
  <2>3. /\ Ids' = Ids \ D
        /\ D \subseteq Ids
        /\ \A d \in D, i \in Ids' : d < i
        /\ table' \in [Ids' -> Payload]
    BY <1>1, <2>1, <2>2, DeleteOldest
  <2>4. Cardinality(Ids') \in Nat /\ Cardinality(Ids') <= maxEvents
    BY <1>1, <1>2, <1>3, <2>1, <2>2, DeleteOldest
  <2>5. removed' = removed \cup D
    BY <2>1 DEF Delete
  <2>6. TypeOK'
    BY <1>1, <2>3, <2>5 DEF Evict, TypeOK
  <2>7. IdsHandedOut' /\ OldestFirst'
    BY <1>1, <2>3, <2>5 DEF Evict, IdsHandedOut, OldestFirst
  <2>8. WithinLimit'
    BY <1>2, <2>4 DEF Evict, WithinLimit
  <2>9. OverflowOnlyByFailure'
    BY <1>1, <1>2, <2>4, LimitsAssumption DEF Evict, OverflowOnlyByFailure, TypeOK
  <2> QED
    BY <2>6, <2>7, <2>8, <2>9 DEF IInv
<1>4. CASE ~(Cardinality(Ids) > maxEvents)
  <2>1. table' = table /\ removed' = removed /\ Ids' = Ids
    BY <1>4 DEF Evict, Ids
  <2>2. TypeOK'
    BY <1>1, <2>1 DEF Evict, TypeOK
  <2>3. IdsHandedOut' /\ OldestFirst'
    BY <1>1, <2>1 DEF Evict, IdsHandedOut, OldestFirst
  <2>4. WithinLimit'
    BY <1>2, <1>4, <2>1 DEF Evict, WithinLimit
  <2>5. OverflowOnlyByFailure'
    BY <1>1, <1>2, <1>4, <2>1, LimitsAssumption DEF Evict, OverflowOnlyByFailure, TypeOK
  <2> QED
    BY <2>2, <2>3, <2>4, <2>5 DEF IInv
<1> QED
  BY <1>3, <1>4

\* A drain only removes rows, the oldest ones.
LEMMA DrainIInv ==
    ASSUME IInv, NEW n \in BatchSizes, Drain(n)
    PROVE  IInv'
<1>1. TypeOK /\ IdsHandedOut /\ OldestFirst /\ WithinLimit /\ OverflowOnlyByFailure
  BY DEF IInv
<1>2. PICK D : IsOldest(D, n) /\ Delete(D)
  BY DEF Drain
<1>3. n \in Nat /\ maxEvents \in Nat /\ Cardinality(Ids) \in Nat
  BY <1>1, BatchAssumption, IdsFinite, LimitsAssumption DEF TypeOK
<1>4. /\ Ids' = Ids \ D
      /\ D \subseteq Ids
      /\ \A d \in D, i \in Ids' : d < i
      /\ table' \in [Ids' -> Payload]
  BY <1>1, <1>2, <1>3, DeleteOldest
<1>5. Cardinality(Ids') \in Nat /\ Cardinality(Ids') <= Cardinality(Ids)
  BY <1>1, <1>2, <1>3, DeleteOldest
<1>6. removed' = removed \cup D
  BY <1>2 DEF Delete
<1>7. TypeOK'
  BY <1>1, <1>4, <1>6 DEF Drain, TypeOK
<1>8. IdsHandedOut' /\ OldestFirst'
  BY <1>1, <1>4, <1>6 DEF Drain, IdsHandedOut, OldestFirst
<1>9. WithinLimit'
  BY <1>1, <1>3, <1>5 DEF Drain, WithinLimit
<1>10. OverflowOnlyByFailure'
  BY <1>1, <1>3, <1>5, LimitsAssumption DEF Drain, OverflowOnlyByFailure, TypeOK
<1> QED
  BY <1>7, <1>8, <1>9, <1>10 DEF IInv

\* A failure keeps the table; one inside push turns its extra row into
\* overflow.
LEMMA FailureIInv ==
    ASSUME IInv, EvictFails \/ \E l \in Limits : CrashAndReopen(l)
    PROVE  IInv'
<1>1. TypeOK /\ IdsHandedOut /\ OldestFirst /\ WithinLimit /\ OverflowOnlyByFailure
  BY DEF IInv
<1>2. /\ table' = table /\ removed' = removed /\ autoinc' = autoinc
      /\ maxEvents' \in Limits
      /\ failures < MaxFailures /\ failures' = failures + 1
      /\ pushing' = FALSE /\ trimmed' = FALSE
  BY <1>1 DEF EvictFails, CrashAndReopen, TypeOK
<1>3. Ids' = Ids /\ Cardinality(Ids) \in Nat
  BY <1>1, <1>2, IdsFinite DEF Ids
<1>4. TypeOK'
  <2>1. failures' \in 0..MaxFailures
    BY <1>1, <1>2, BoundsAssumption DEF TypeOK
  <2>2. pushing' \in BOOLEAN /\ trimmed' \in BOOLEAN
    BY <1>2
  <2> QED
    BY <1>1, <1>2, <1>3, <2>1, <2>2 DEF TypeOK
<1>5. IdsHandedOut' /\ OldestFirst' /\ WithinLimit'
  BY <1>1, <1>2, <1>3 DEF IdsHandedOut, OldestFirst, WithinLimit
<1>6. OverflowOnlyByFailure'
  BY <1>1, <1>2, <1>3, LimitsAssumption, BoundsAssumption
     DEF OverflowOnlyByFailure, TypeOK
<1> QED
  BY <1>4, <1>5, <1>6 DEF IInv

\* The invariant is inductive: it holds in every reachable state of the
\* buffer, under every interleaving of push, drain and failure.
THEOREM Invariance == Spec => []IInv
<1>1. IInv /\ [Next]_vars => IInv'
  <2> SUFFICES ASSUME IInv, [Next]_vars PROVE IInv'
    OBVIOUS
  <2>1. CASE \E p \in Payload : Insert(p)
    BY <2>1, InsertIInv
  <2>2. CASE Evict
    BY <2>2, EvictIInv
  <2>3. CASE \E n \in BatchSizes : Drain(n)
    BY <2>3, DrainIInv
  <2>4. CASE EvictFails \/ \E l \in Limits : CrashAndReopen(l)
    BY <2>4, FailureIInv
  <2>5. CASE UNCHANGED vars
    BY <2>5 DEF vars, IInv, TypeOK, IdsHandedOut, OldestFirst, WithinLimit,
                OverflowOnlyByFailure, Ids
  <2> QED
    BY <2>1, <2>2, <2>3, <2>4, <2>5 DEF Next
<1> QED
  BY InitIInv, <1>1, PTL DEF Spec

\* Rows leave the buffer strictly oldest first and no row id is reused,
\* whatever mix of drains, evictions and failures happens.
THEOREM BufferOldestFirst == Spec => []OldestFirst
<1>1. IInv => OldestFirst
  BY DEF IInv
<1> QED
  BY Invariance, <1>1, PTL

\* After a completed push the table is within max_events, and before one it
\* is over the largest limit by at most one row per failure.
THEOREM BufferBounded == Spec => [](WithinLimit /\ OverflowOnlyByFailure)
<1>1. IInv => WithinLimit /\ OverflowOnlyByFailure
  BY DEF IInv
<1> QED
  BY Invariance, <1>1, PTL

-----------------------------------------------------------------------------

\* How many ids of S are smaller than i, and the id at position k of S.
Before(S, i) == {j \in S : j < i}
Rank(S, i) == Cardinality(Before(S, i))
At(S, k) == CHOOSE i \in S : Rank(S, i) = k - 1

\* The rank is a number below the cardinality, and grows with the id.
LEMMA RankGrows ==
    ASSUME NEW S \in SUBSET Nat, IsFiniteSet(S)
    PROVE  /\ Cardinality(S) \in Nat
           /\ \A i \in S : Rank(S, i) \in 0..(Cardinality(S) - 1)
           /\ \A i, j \in S : i < j => Rank(S, i) < Rank(S, j)
<1>0. Cardinality(S) \in Nat
  BY FS_CardinalityType
<1>1. ASSUME NEW T, NEW U \in SUBSET S, T \subseteq U, NEW x \in U, x \notin T
      PROVE  /\ Cardinality(T) \in Nat /\ Cardinality(U) \in Nat
             /\ Cardinality(T) < Cardinality(U)
  <2>1. IsFiniteSet(U)
    BY <1>1, FS_Subset
  <2>2. /\ IsFiniteSet(T) /\ Cardinality(T) <= Cardinality(U)
        /\ Cardinality(U) = Cardinality(T) => U = T
    BY <1>1, <2>1, FS_Subset
  <2>3. Cardinality(T) \in Nat /\ Cardinality(U) \in Nat
    BY <2>1, <2>2, FS_CardinalityType
  <2> QED
    BY <1>1, <2>2, <2>3
<1>2. ASSUME NEW i \in S PROVE Rank(S, i) \in 0..(Cardinality(S) - 1)
  <2>1. Before(S, i) \subseteq S /\ i \notin Before(S, i)
    BY DEF Before
  <2>2. Rank(S, i) \in Nat /\ Rank(S, i) < Cardinality(S)
    BY <1>1, <2>1 DEF Rank
  <2> QED
    BY <1>0, <2>2
<1>3. ASSUME NEW i \in S, NEW j \in S, i < j PROVE Rank(S, i) < Rank(S, j)
  <2>1. /\ Before(S, j) \in SUBSET S /\ Before(S, i) \subseteq Before(S, j)
        /\ i \in Before(S, j) /\ i \notin Before(S, i)
    <3>1. i \in Nat /\ j \in Nat /\ ~(i < i) /\ \A x \in S : x < i => x < j
      BY <1>3
    <3> QED
      BY <1>3, <3>1, Zenon DEF Before
  <2> QED
    BY <1>1, <2>1 DEF Rank
<1> QED
  BY <1>0, <1>2, <1>3

\* Every position of a finite set of ids has exactly one id.
LEMMA Positions ==
    ASSUME NEW S \in SUBSET Nat, IsFiniteSet(S)
    PROVE  /\ \A k \in 1..Cardinality(S) : At(S, k) \in S /\ Rank(S, At(S, k)) = k - 1
           /\ \A i \in S : At(S, Rank(S, i) + 1) = i
<1> DEFINE n == Cardinality(S)
           T == 0..(n - 1)
           f == [i \in S |-> Rank(S, i)]
<1>1. /\ n \in Nat
      /\ \A i \in S : Rank(S, i) \in T
      /\ \A i, j \in S : i < j => Rank(S, i) < Rank(S, j)
  BY RankGrows
<1>2. \A i, j \in S : Rank(S, i) = Rank(S, j) => i = j
  <2> SUFFICES ASSUME NEW i \in S, NEW j \in S, Rank(S, i) = Rank(S, j), i # j
               PROVE  FALSE
    OBVIOUS
  <2>1. i < j \/ j < i
    OBVIOUS
  <2>2. Rank(S, i) \in Int /\ Rank(S, j) \in Int
    BY <1>1
  <2> QED
    BY <1>1, <2>1, <2>2
<1>3. IsFiniteSet(T) /\ Cardinality(T) = n
  <2>1. \A a, b \in Int : /\ IsFiniteSet(a..b)
                          /\ Cardinality(a..b) = IF a > b THEN 0 ELSE b - a + 1
    BY FS_Interval
  <2>2. n - 1 \in Int /\ 0 \in Int
    BY <1>1
  <2>3. /\ IsFiniteSet(T)
        /\ Cardinality(T) = IF 0 > n - 1 THEN 0 ELSE (n - 1) - 0 + 1
    BY <2>1, <2>2
  <2> HIDE DEF n
  <2> QED
    BY <1>1, <2>3
<1>4. f \in Injection(S, T)
  <2>1. f \in [S -> T]
    BY <1>1
  <2>2. IsInjective(f)
    BY <1>2 DEF IsInjective
  <2> QED
    BY <2>1, <2>2 DEF Injection
<1>5. f \in Surjection(S, T)
  <2> HIDE DEF f, T
  <2> QED
    BY <1>3, <1>4, FS_Injection
<1>6. \A k \in T : \E i \in S : f[i] = k
  BY <1>5 DEF Surjection
<1>7. ASSUME NEW k \in 1..n PROVE At(S, k) \in S /\ Rank(S, At(S, k)) = k - 1
  <2>1. k - 1 \in T
    BY <1>1
  <2>2. \E i \in S : Rank(S, i) = k - 1
    BY <1>6, <2>1
  <2> QED
    BY <2>2 DEF At
<1>8. ASSUME NEW i \in S PROVE At(S, Rank(S, i) + 1) = i
  <2> DEFINE k == Rank(S, i) + 1
  <2>1. k \in 1..n /\ k - 1 = Rank(S, i)
    BY <1>1
  <2> HIDE DEF k
  <2>2. At(S, k) \in S /\ Rank(S, At(S, k)) = Rank(S, i)
    BY <1>7, <2>1
  <2>3. At(S, k) = i
    BY <1>2, <2>2
  <2> QED
    BY <2>3 DEF k
<1> QED
  BY <1>7, <1>8

\* Rows in id order, by position.
LEMMA InOrder ==
    ASSUME NEW t, NEW S \in SUBSET Nat, IsFiniteSet(S)
    PROVE  /\ InIdOrder(t, S) = [k \in 1..Cardinality(S) |-> t[At(S, k)]]
           /\ Cardinality(S) \in Nat
           /\ Len(InIdOrder(t, S)) = Cardinality(S)
<1>1. InIdOrder(t, S) = [k \in 1..Cardinality(S) |-> t[At(S, k)]]
  BY DEF InIdOrder, At, Rank, Before
<1>2. Cardinality(S) \in Nat
  BY FS_CardinalityType
<1> QED
  BY <1>1, <1>2

\* A row with a larger id than all others comes last.
LEMMA LastRow ==
    ASSUME NEW S \in SUBSET Nat, IsFiniteSet(S), NEW new \in Nat, \A i \in S : i < new
    PROVE  LET U == S \cup {new}
           IN  /\ IsFiniteSet(U) /\ Cardinality(U) = Cardinality(S) + 1
               /\ \A k \in 1..Cardinality(S) : At(U, k) = At(S, k)
               /\ At(U, Cardinality(S) + 1) = new
<1> DEFINE U == S \cup {new}
<1>0. U \in SUBSET Nat /\ new \in U /\ new \notin S /\ ~(new < new)
  <2>1. ~(new < new)
    OBVIOUS
  <2> QED
    BY <2>1
<1>1. IsFiniteSet(U) /\ Cardinality(U) = Cardinality(S) + 1 /\ Cardinality(S) \in Nat
  BY <1>0, FS_AddElement, FS_CardinalityType
<1>2. ASSUME NEW i \in S PROVE Rank(U, i) = Rank(S, i)
  <2>1. i \in Nat /\ ~(new < i)
    OBVIOUS
  <2>2. Before(U, i) = Before(S, i)
    BY <2>1 DEF Before
  <2> QED
    BY <2>2 DEF Rank
<1>3. Rank(U, new) = Cardinality(S)
  <2>1. Before(U, new) = S
    BY <1>0, Zenon DEF Before
  <2> QED
    BY <2>1 DEF Rank
<1> HIDE DEF U
<1>4. ASSUME NEW k \in 1..Cardinality(S) PROVE At(U, k) = At(S, k)
  <2> DEFINE i == At(S, k)
  <2>1. i \in S /\ Rank(S, i) = k - 1
    BY Positions
  <2> HIDE DEF i
  <2>2. Rank(U, i) + 1 = k /\ i \in U
    BY <1>1, <1>2, <2>1 DEF U
  <2>3. At(U, Rank(U, i) + 1) = i
    BY <1>0, <1>1, <2>2, Positions
  <2> QED
    BY <2>2, <2>3 DEF i
<1>5. At(U, Cardinality(S) + 1) = new
  <2>1. At(U, Rank(U, new) + 1) = new
    BY <1>0, <1>1, Positions
  <2> QED
    BY <1>3, <2>1
<1> QED
  BY <1>1, <1>4, <1>5 DEF U

\* The oldest rows D of S keep their positions; those of the others fall by
\* the number of rows in D.
LEMMA OldestRows ==
    ASSUME NEW S \in SUBSET Nat, IsFiniteSet(S), NEW D \in SUBSET S,
           \A d \in D, r \in S \ D : d < r
    PROVE  LET R == S \ D
           IN  /\ IsFiniteSet(D) /\ IsFiniteSet(R)
               /\ Cardinality(D) \in Nat
               /\ Cardinality(R) = Cardinality(S) - Cardinality(D)
               /\ \A k \in 1..Cardinality(D) : At(D, k) = At(S, k)
               /\ \A k \in 1..Cardinality(R) : At(R, k) = At(S, k + Cardinality(D))
<1> DEFINE R == S \ D
<1>0. D \in SUBSET Nat /\ R \in SUBSET Nat /\ \A x, y \in S : x < y => ~(y < x)
  OBVIOUS
<1>1. /\ IsFiniteSet(D) /\ IsFiniteSet(R)
      /\ Cardinality(D) \in Nat /\ Cardinality(R) \in Nat /\ Cardinality(S) \in Nat
      /\ Cardinality(R) = Cardinality(S) - Cardinality(D)
  <2>1. IsFiniteSet(D) /\ S \cap D = D
    BY FS_Subset
  <2>2. IsFiniteSet(R) /\ Cardinality(R) = Cardinality(S) - Cardinality(D)
    BY <2>1, FS_Difference
  <2> QED
    BY <2>1, <2>2, FS_CardinalityType
<1>2. ASSUME NEW d \in D PROVE Rank(S, d) = Rank(D, d)
  <2>1. Before(S, d) = Before(D, d)
    BY <1>0 DEF Before
  <2> QED
    BY <2>1 DEF Rank
<1>3. ASSUME NEW r \in R
      PROVE  Rank(S, r) = Rank(R, r) + Cardinality(D) /\ Rank(R, r) \in Nat
  <2> DEFINE B == Before(R, r)
  <2>1. B \subseteq R /\ Before(S, r) = D \cup B /\ D \cap B = {}
    BY <1>0 DEF Before
  <2>2. IsFiniteSet(B) /\ Cardinality(B) \in Nat
    BY <1>1, <2>1, FS_Subset, FS_CardinalityType
  <2> HIDE DEF B
  <2>3. Cardinality(D \cup B) = Cardinality(D) + Cardinality(B) - Cardinality({})
    BY <1>1, <2>1, <2>2, FS_Union
  <2>4. Cardinality(D \cup B) = Cardinality(B) + Cardinality(D)
    BY <1>1, <2>2, <2>3, FS_EmptySet
  <2> QED
    BY <2>1, <2>2, <2>4 DEF Rank, B
<1>4. ASSUME NEW k \in 1..Cardinality(D) PROVE At(D, k) = At(S, k)
  <2> DEFINE i == At(D, k)
  <2>1. i \in D /\ Rank(D, i) = k - 1
    BY <1>0, <1>1, Positions
  <2> HIDE DEF i
  <2>2. Rank(S, i) + 1 = k /\ i \in S
    BY <1>1, <1>2, <2>1
  <2>3. At(S, Rank(S, i) + 1) = i
    BY <2>2, Positions
  <2> QED
    BY <2>2, <2>3 DEF i
<1>5. ASSUME NEW k \in 1..Cardinality(R) PROVE At(R, k) = At(S, k + Cardinality(D))
  <2> DEFINE i == At(R, k)
  <2> HIDE DEF R
  <2>1. i \in R /\ Rank(R, i) = k - 1
    BY <1>0, <1>1, Positions
  <2> HIDE DEF i
  <2>2. Rank(S, i) + 1 = k + Cardinality(D) /\ i \in S
    BY <1>1, <1>3, <2>1 DEF R
  <2>3. At(S, Rank(S, i) + 1) = i
    BY <2>2, Positions
  <2> QED
    BY <2>2, <2>3 DEF i
<1> QED
  BY <1>1, <1>4, <1>5

\* Two sequences with the same elements are the same.
LEMMA SameSeq ==
    ASSUME NEW E, NEW q \in Seq(E), NEW r \in Seq(E), Len(q) = Len(r),
           \A k \in 1..Len(q) : q[k] = r[k]
    PROVE  q = r
  OBVIOUS

\* The rows in id order are a sequence of payloads.
LEMMA RowSeq ==
    ASSUME NEW S \in SUBSET Nat, IsFiniteSet(S), NEW t, \A i \in S : t[i] \in Payload
    PROVE  /\ InIdOrder(t, S) \in Seq(Payload)
           /\ Len(InIdOrder(t, S)) = Cardinality(S) /\ Cardinality(S) \in Nat
           /\ \A k \in 1..Cardinality(S) : InIdOrder(t, S)[k] = t[At(S, k)]
<1>1. /\ InIdOrder(t, S) = [k \in 1..Cardinality(S) |-> t[At(S, k)]]
      /\ Cardinality(S) \in Nat /\ Len(InIdOrder(t, S)) = Cardinality(S)
  BY InOrder
<1>2. \A k \in 1..Cardinality(S) : t[At(S, k)] \in Payload
  BY Positions
<1> QED
  BY <1>1, <1>2

\* INSERT appends to the queue.
LEMMA InsertPuts ==
    ASSUME IInv, NEW p \in Payload, Insert(p)
    PROVE  InIdOrder(table, Ids)' = Append(InIdOrder(table, Ids), p)
<1> DEFINE new == autoinc + 1
           U == Ids \cup {new}
           q == InIdOrder(table, Ids)
           r == InIdOrder(table', U)
<1>1. /\ Ids' = U /\ new \in Nat /\ Ids \in SUBSET Nat /\ \A i \in Ids : i < new
      /\ \A i \in Ids : table[i] \in Payload /\ table'[i] = table[i]
      /\ table'[new] = p
  BY BoundsAssumption DEF IInv, TypeOK, IdsHandedOut, Insert, Ids
<1>2. IsFiniteSet(Ids)
  BY IdsFinite DEF IInv
<1>3. /\ U \in SUBSET Nat /\ \A i \in U : table'[i] \in Payload
  BY <1>1
<1>4. /\ IsFiniteSet(U) /\ Cardinality(U) = Cardinality(Ids) + 1
      /\ \A k \in 1..Cardinality(Ids) : At(U, k) = At(Ids, k)
      /\ At(U, Cardinality(Ids) + 1) = new
  BY <1>1, <1>2, LastRow
<1>5. /\ q \in Seq(Payload) /\ Len(q) = Cardinality(Ids) /\ Cardinality(Ids) \in Nat
      /\ \A k \in 1..Cardinality(Ids) : q[k] = table[At(Ids, k)] /\ At(Ids, k) \in Ids
  BY <1>1, <1>2, RowSeq, Positions
<1>6. /\ r \in Seq(Payload) /\ Len(r) = Cardinality(U)
      /\ \A k \in 1..Cardinality(U) : r[k] = table'[At(U, k)]
  BY <1>3, <1>4, RowSeq
<1>7. InIdOrder(table, Ids)' = r
  BY <1>1 DEF InIdOrder
<1> HIDE DEF q, r, U, new
<1>8. \A k \in 1..Len(r) : r[k] = Append(q, p)[k]
  <2> SUFFICES ASSUME NEW k \in 1..Len(r) PROVE r[k] = Append(q, p)[k]
    OBVIOUS
  <2>1. CASE k = Cardinality(Ids) + 1
    BY <1>1, <1>4, <1>5, <1>6, <2>1
  <2>2. CASE k \in 1..Cardinality(Ids)
    <3>1. r[k] = table'[At(Ids, k)] /\ At(Ids, k) \in Ids /\ q[k] = table[At(Ids, k)]
      BY <1>4, <1>5, <1>6, <2>2
    <3>2. Append(q, p)[k] = q[k]
      BY <1>5, <2>2
    <3> QED
      BY <1>1, <3>1, <3>2
  <2> QED
    BY <1>4, <1>5, <1>6, <2>1, <2>2
<1>9. r = Append(q, p)
  <2>1. Append(q, p) \in Seq(Payload) /\ Len(Append(q, p)) = Len(r)
    BY <1>4, <1>5, <1>6
  <2> QED
    BY <1>6, <1>8, <2>1, SameSeq
<1> QED
  BY <1>7, <1>9 DEF q

\* DELETE takes a prefix off the queue.
LEMMA DeleteTakes ==
    ASSUME IInv, NEW D, NEW n \in Nat, IsOldest(D, n), Delete(D)
    PROVE  LET q == InIdOrder(table, Ids)
               m == Cardinality(D)
           IN  /\ q \in Seq(Payload) /\ Len(q) = Cardinality(Ids) /\ Cardinality(Ids) \in Nat
               /\ m \in Nat /\ m <= Len(q)
               /\ InIdOrder(table, D) = SubSeq(q, 1, m)
               /\ InIdOrder(table, Ids)' = SubSeq(q, m + 1, Len(q))
<1> DEFINE R == Ids \ D
           q == InIdOrder(table, Ids)
           m == Cardinality(D)
           a == InIdOrder(table, D)
           b == InIdOrder(table', R)
<1>1. /\ Ids \in SUBSET Nat /\ D \in SUBSET Ids /\ \A d \in D, r \in R : d < r
      /\ D \in SUBSET Nat /\ R \in SUBSET Nat
      /\ \A i \in Ids : table[i] \in Payload
  BY BoundsAssumption DEF IInv, TypeOK, IsOldest
<1>2. IsFiniteSet(Ids)
  BY IdsFinite DEF IInv
<1>3. Ids' = R /\ \A i \in R : table'[i] = table[i]
  BY DeleteOldest DEF IInv
<1>4. /\ IsFiniteSet(D) /\ IsFiniteSet(R) /\ m \in Nat
      /\ Cardinality(R) = Cardinality(Ids) - m
      /\ \A k \in 1..m : At(D, k) = At(Ids, k)
      /\ \A k \in 1..Cardinality(R) : At(R, k) = At(Ids, k + m)
  BY <1>1, <1>2, OldestRows
<1>5. /\ q \in Seq(Payload) /\ Len(q) = Cardinality(Ids) /\ Cardinality(Ids) \in Nat
      /\ \A k \in 1..Cardinality(Ids) : q[k] = table[At(Ids, k)]
  BY <1>1, <1>2, RowSeq
<1>6. a \in Seq(Payload) /\ Len(a) = m /\ \A k \in 1..m : a[k] = table[At(D, k)]
  BY <1>1, <1>4, RowSeq
<1>7. /\ b \in Seq(Payload) /\ Len(b) = Cardinality(R) /\ Cardinality(R) \in Nat
      /\ \A k \in 1..Cardinality(R) : b[k] = table'[At(R, k)] /\ At(R, k) \in R
  <2>1. \A i \in R : table'[i] \in Payload
    BY <1>1, <1>3
  <2> QED
    <3> HIDE DEF R
    <3>1. /\ b \in Seq(Payload) /\ Len(b) = Cardinality(R) /\ Cardinality(R) \in Nat
          /\ \A k \in 1..Cardinality(R) : b[k] = table'[At(R, k)]
      BY <1>1, <1>4, <2>1, RowSeq
    <3>2. \A k \in 1..Cardinality(R) : At(R, k) \in R
      BY <1>1, <1>4, Positions
    <3> QED
      BY <3>1, <3>2
<1>8. InIdOrder(table, Ids)' = b
  BY <1>3 DEF InIdOrder
<1> HIDE DEF q, a, b, R, m
<1>9. m <= Len(q)
  BY <1>4, <1>5, <1>7
<1>10. a = SubSeq(q, 1, m)
  <2>1. /\ SubSeq(q, 1, m) \in Seq(Payload) /\ Len(SubSeq(q, 1, m)) = m
        /\ \A k \in 1..m : SubSeq(q, 1, m)[k] = q[k]
    BY <1>4, <1>5, <1>9
  <2>2. \A k \in 1..m : a[k] = SubSeq(q, 1, m)[k]
    BY <1>4, <1>5, <1>6, <1>9, <2>1
  <2> QED
    BY <1>6, <2>1, <2>2, SameSeq
<1>11. b = SubSeq(q, m + 1, Len(q))
  <2> DEFINE c == SubSeq(q, m + 1, Len(q))
  <2>1. /\ c \in Seq(Payload) /\ Len(c) = Cardinality(R)
        /\ \A k \in 1..Cardinality(R) : c[k] = q[k + m]
    BY <1>4, <1>5, <1>7, <1>9
  <2> HIDE DEF c
  <2>2. ASSUME NEW k \in 1..Cardinality(R) PROVE b[k] = c[k]
    <3>1. k + m \in 1..Cardinality(Ids)
      BY <1>4, <1>5, <1>7
    <3>2. q[k + m] = table[At(R, k)]
      BY <1>4, <1>5, <3>1
    <3> QED
      BY <1>3, <1>7, <2>1, <3>2
  <2>3. b = c
    BY <1>7, <2>1, <2>2, SameSeq
  <2> QED
    BY <2>3 DEF c
<1> QED
  BY <1>4, <1>5, <1>8, <1>9, <1>10, <1>11 DEF q, m, a

\* What a drain returns and what it leaves.
LEMMA DrainTakes ==
    ASSUME IInv, NEW n \in BatchSizes, Drain(n)
    PROVE  LET q == InIdOrder(table, Ids)
           IN  /\ q \in Seq(Payload) /\ Len(q) = Cardinality(Ids)
               /\ UNCHANGED maxEvents
               /\ Len(q) > n => /\ drained' = SubSeq(q, 1, n)
                                /\ InIdOrder(table, Ids)' = SubSeq(q, n + 1, Len(q))
               /\ ~(Len(q) > n) => drained' = q /\ InIdOrder(table, Ids)' = <<>>
<1> DEFINE q == InIdOrder(table, Ids)
<1>1. n \in Nat
  BY BatchAssumption
<1>2. PICK D : IsOldest(D, n) /\ Delete(D) /\ drained' = InIdOrder(table, D)
  BY DEF Drain
<1>3. /\ q \in Seq(Payload) /\ Len(q) = Cardinality(Ids)
      /\ drained' = SubSeq(q, 1, Cardinality(D))
      /\ InIdOrder(table, Ids)' = SubSeq(q, Cardinality(D) + 1, Len(q))
  BY <1>1, <1>2, DeleteTakes
<1>4. Cardinality(D) = IF Len(q) > n THEN n ELSE Len(q)
  BY <1>2, <1>3 DEF IsOldest
<1> HIDE DEF q
<1>5. SubSeq(q, 1, Len(q)) = q /\ SubSeq(q, Len(q) + 1, Len(q)) = <<>>
  <2>1. /\ SubSeq(q, 1, Len(q)) \in Seq(Payload) /\ Len(SubSeq(q, 1, Len(q))) = Len(q)
        /\ \A k \in 1..Len(q) : SubSeq(q, 1, Len(q))[k] = q[k]
    BY <1>3
  <2>2. SubSeq(q, 1, Len(q)) = q
    BY <1>3, <2>1, SameSeq
  <2> QED
    BY <1>3, <2>2
<1>6. UNCHANGED maxEvents
  BY DEF Drain
<1> QED
  BY <1>3, <1>4, <1>5, <1>6 DEF q

\* A buffer that never gets a row never returned one.
NothingTaken == MaxId = 0 => drained = <<>>

\* It stays so.
LEMMA NothingTakenStep == IInv /\ NothingTaken /\ [Next]_vars => NothingTaken'
<1> SUFFICES ASSUME IInv, MaxId = 0, drained = <<>>, [Next]_vars PROVE drained' = <<>>
  BY DEF NothingTaken
<1>1. ASSUME NEW n \in BatchSizes, Drain(n) PROVE drained' = <<>>
  <2>1. Ids = {}
    BY DEF IInv, TypeOK
  <2>2. PICK D \in SUBSET Ids : drained' = InIdOrder(table, D)
    BY <1>1 DEF Drain
  <2>3. Cardinality(D) = 0
    BY <2>1, <2>2, FS_EmptySet
  <2> QED
    BY <2>2, <2>3 DEF InIdOrder
<1> QED
  BY <1>1 DEF Next, Insert, Evict, EvictFails, CrashAndReopen, vars

\* A statement of the buffer is a step of the queue or leaves it alone.
LEMMA FifoStep ==
    IInv /\ NothingTaken /\ NothingTaken' /\ [Next]_vars => [Fifo!FifoNext]_(Fifo!fifoVars)
<1> SUFFICES ASSUME IInv, NothingTaken, NothingTaken', [Next]_vars
             PROVE  [Fifo!FifoNext]_(Fifo!fifoVars)
  OBVIOUS
<1> DEFINE q == InIdOrder(table, Ids)
<1>0. /\ Cardinality(Ids) \in Nat /\ maxEvents \in Nat /\ Cardinality(Ids) <= MaxId
  <2>1. Cardinality(Ids) \in Nat /\ maxEvents \in Nat
    BY IdsFinite, LimitsAssumption DEF IInv, TypeOK
  <2>2. \A a, b \in Int : /\ IsFiniteSet(a..b)
                          /\ Cardinality(a..b) = IF a > b THEN 0 ELSE b - a + 1
    BY FS_Interval
  <2>3. IsFiniteSet(1..MaxId) /\ Cardinality(1..MaxId) = MaxId
    BY <2>2, BoundsAssumption
  <2>4. Cardinality(Ids) <= Cardinality(1..MaxId)
    BY <2>3, FS_Subset DEF IInv, TypeOK
  <2> QED
    BY <2>1, <2>3, <2>4
<1>1. ASSUME NEW p \in Payload, Insert(p) PROVE Fifo!FifoNext
  <2>1. q' = Append(q, p) /\ UNCHANGED <<maxEvents, drained>>
    BY <1>1, InsertPuts DEF Insert
  <2> QED
    BY <2>1 DEF Fifo!FifoNext, Fifo!Put
<1>2. CASE table' = table /\ UNCHANGED <<maxEvents, drained>>
  <2>1. q' = q
    BY <1>2 DEF InIdOrder, Ids
  <2> QED
    BY <1>2, <2>1 DEF Fifo!fifoVars
<1>3. ASSUME Evict, Cardinality(Ids) > maxEvents PROVE Fifo!FifoNext
  <2> DEFINE n == Cardinality(Ids) - maxEvents
  <2>1. n \in Nat /\ n <= Cardinality(Ids)
    BY <1>0, <1>3
  <2>2. PICK D : IsOldest(D, n) /\ Delete(D)
    BY <1>3 DEF Evict
  <2>3. Cardinality(D) = n
    BY <1>0, <2>1, <2>2 DEF IsOldest
  <2>4. Len(q) = Cardinality(Ids) /\ q' = SubSeq(q, n + 1, Len(q))
    BY <2>1, <2>2, <2>3, DeleteTakes
  <2>5. n + 1 = Len(q) - maxEvents + 1 /\ Len(q) > maxEvents
    BY <1>0, <1>3, <2>4
  <2>6. UNCHANGED <<maxEvents, drained>>
    BY <1>3 DEF Evict
  <2> QED
    BY <2>4, <2>5, <2>6 DEF Fifo!FifoNext, Fifo!Trim, Fifo!Newest
<1>4. ASSUME NEW n \in BatchSizes, Drain(n)
      PROVE  [Fifo!FifoNext]_(Fifo!fifoVars)
  <2>1. n \in Nat \ {0} /\ MaxId \in Nat
    BY BatchAssumption, BoundsAssumption
  <2>2. /\ q \in Seq(Payload) /\ Len(q) = Cardinality(Ids) /\ UNCHANGED maxEvents
        /\ Len(q) > n => drained' = SubSeq(q, 1, n) /\ q' = SubSeq(q, n + 1, Len(q))
        /\ ~(Len(q) > n) => drained' = q /\ q' = <<>>
    BY <1>4, DrainTakes
  <2>3. CASE MaxId = 0
    <3>1. UNCHANGED drained
      BY <2>3 DEF NothingTaken
    <3>2. q' = q
      BY <1>0, <2>1, <2>2, <2>3
    <3> QED
      BY <2>2, <3>1, <3>2 DEF Fifo!fifoVars
  <2>4. CASE MaxId # 0
    <3> DEFINE k == IF n <= MaxId THEN n ELSE MaxId
    <3>1. k \in 1..MaxId /\ (Len(q) > n => k = n) /\ (Len(q) > k => Len(q) > n)
      BY <1>0, <2>1, <2>2, <2>4
    <3> HIDE DEF k, q
    <3>2. /\ drained' = IF Len(q) > k THEN SubSeq(q, 1, k) ELSE q
          /\ q' = IF Len(q) > k THEN SubSeq(q, k + 1, Len(q)) ELSE <<>>
      BY <2>2, <3>1
    <3>3. Fifo!Take(k)
      BY <2>2, <3>2 DEF Fifo!Take, Fifo!Oldest, Fifo!WithoutOldest, q
    <3> QED
      BY <3>1, <3>3 DEF Fifo!FifoNext
  <2> QED
    BY <2>3, <2>4
<1>5. ASSUME NEW l \in Limits, CrashAndReopen(l) PROVE Fifo!FifoNext
  <2>1. q' = q
    BY <1>5 DEF CrashAndReopen, InIdOrder, Ids
  <2> QED
    BY <1>5, <2>1 DEF CrashAndReopen, Fifo!FifoNext, Fifo!Reopen
<1>6. CASE Evict
  BY <1>2, <1>3, <1>6 DEF Evict
<1>7. CASE EvictFails
  BY <1>2, <1>7 DEF EvictFails
<1>8. CASE UNCHANGED vars
  BY <1>2, <1>8 DEF vars
<1> QED
  BY <1>1, <1>4, <1>5, <1>6, <1>7, <1>8 DEF Next

\* The table is a bounded queue for its callers: INSERT, DELETE, drain and a
\* restart are steps of BoundedFifo or leave the queue alone, for any payloads,
\* limits, batch sizes and failures.
THEOREM BufferIsFifo == Spec => ImplementsFifo
<1>1. Init => Fifo!FifoInit /\ NothingTaken
  <2> SUFFICES ASSUME Init PROVE Fifo!FifoInit /\ NothingTaken
    OBVIOUS
  <2>1. Cardinality(Ids) = 0
    BY FS_EmptySet DEF Init, Ids
  <2>2. InIdOrder(table, Ids) = <<>>
    BY <2>1 DEF InIdOrder
  <2> QED
    BY <2>2 DEF Init, Fifo!FifoInit, NothingTaken
<1> QED
  BY <1>1, Invariance, NothingTakenStep, FifoStep, PTL DEF Spec, ImplementsFifo, Fifo!FifoSpec

=============================================================================
