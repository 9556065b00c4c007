--------------------------- MODULE RuleEngineProofs ---------------------------
(***************************************************************************)
(* Proofs about the rule engine and its deduplicator, for every number of  *)
(* shards, signatures, records, rules and every capacity.                  *)
(*                                                                         *)
(* The deduplicator.  Its properties are about the history of calls, and   *)
(* the code decides from the cache.  The inductive invariant therefore     *)
(* ties the cache to the history: every entry holds the time of a call of  *)
(* this process that passed, and the number of the last call with its      *)
(* signature; and a signature of this process that is not in the cache was *)
(* crowded out, because the entry that is dropped is the least recently    *)
(* used one and all the others of the full shard were used after it.       *)
(*                                                                         *)
(* The engine.  Every step of it is a step of the deduplicator or leaves   *)
(* it alone, so what is proved of the deduplicator holds inside it.  For   *)
(* the records the invariant counts those that are exposed: behind the     *)
(* consumer's position, and neither evaluated, nor a dead letter, nor in   *)
(* the event channel.  Only a failure and the end of the scanner or of the *)
(* process expose records.                                                 *)
(***************************************************************************)
EXTENDS RuleEngine, FiniteSetTheorems, TLAPS

-----------------------------------------------------------------------------
(* The deduplicator *)

\* The types the argument needs.
DedupTypes ==
    /\ now \in Nat /\ run \in Nat
    /\ checks \in Seq(Check)
    /\ DOMAIN seen \subseteq Signature
    /\ seen \in [DOMAIN seen -> [at : Nat, used : Nat]]

\* Every entry was made by a call of this process that passed.
EntriesPassed ==
    \A s \in DOMAIN seen : \E i \in DOMAIN checks :
        /\ checks[i].passed /\ checks[i].sig = s /\ checks[i].run = run
        /\ checks[i].at = seen[s].at

\* An entry names the last call with its signature, and no call of this
\* process that passed is later than its time.
LastUse ==
    \A s \in DOMAIN seen :
        /\ seen[s].used \in DOMAIN checks
        /\ checks[seen[s].used].sig = s
        /\ \A l \in DOMAIN checks : checks[l].sig = s => l <= seen[s].used
        /\ \A i \in DOMAIN checks :
              checks[i].passed /\ checks[i].sig = s /\ checks[i].run = run
              => checks[i].at <= seen[s].at

\* The history is written in the order of the clock and of the processes.
Ordered ==
    \A i \in DOMAIN checks :
        /\ checks[i].at <= now /\ checks[i].run <= run
        /\ \A j \in DOMAIN checks : i <= j => checks[i].run <= checks[j].run

\* The cache is finite and no shard is beyond its capacity.
Fits ==
    /\ IsFiniteSet(DOMAIN seen)
    /\ \A k \in Shard : Cardinality(Entries(k)) <= Capacity

\* The other signatures of k's shard that were checked after k.
RivalsSince(k) ==
    {checks[l].sig : l \in {l \in k + 1..Len(checks) :
        ShardOf[checks[l].sig] = ShardOf[checks[k].sig]}} \ {checks[k].sig}

\* The last call with its signature, in this process.
IsLast(k) ==
    /\ checks[k].run = run
    /\ \A l \in DOMAIN checks : checks[l].sig = checks[k].sig => l <= k

\* A signature of this process that is not in the cache was crowded out.
CrowdedOut ==
    \A k \in DOMAIN checks :
        IsLast(k) /\ checks[k].sig \notin DOMAIN seen
        => Cardinality(RivalsSince(k)) >= Capacity

DedupInv ==
    /\ DedupTypes /\ EntriesPassed /\ LastUse /\ Ordered /\ Fits /\ CrowdedOut
    /\ SuppressedHasReason /\ PassesAgainOnlyCrowdedOut

\* A set of numbers that is not empty has a least element.
LEMMA LeastNumber ==
    ASSUME NEW S, S \subseteq Nat, S # {}
    PROVE  \E x \in S : \A y \in S : x <= y
<1> DEFINE T == {0..x : x \in S}
           R == StrictSubsetOrdering(Nat)
<1>1. T \subseteq FiniteSubsetsOf(Nat) /\ T # {}
  <2>1. \A x \in S : IsFiniteSet(0..x) /\ 0..x \in SUBSET Nat
    BY FS_Interval
  <2>2. QED
    BY <2>1 DEF FiniteSubsetsOf
<1>2. IsWellFoundedOn(R, FiniteSubsetsOf(Nat))
  BY FS_StrictSubsetOrderingWellFounded
<1>3. PICK t \in T : \A u \in T : ~(<<u, t>> \in R)
  <2> HIDE DEF T, R
  <2> QED
    BY <1>1, <1>2, WFMin
<1>4. PICK x \in S : t = 0..x
  OBVIOUS
<1>5. ASSUME NEW y \in S, y < x
      PROVE  FALSE
  <2>1. 0..y \in SUBSET Nat /\ 0..x \in SUBSET Nat /\ 0..y \subseteq 0..x
    BY <1>5
  <2>2. x \in 0..x /\ x \notin 0..y
    BY <1>5
  <2>3. <<0..y, 0..x>> \in R
    BY <2>1, <2>2 DEF StrictSubsetOrdering
  <2>4. QED
    BY <1>3, <1>4, <2>3
<1>6. QED
  BY <1>5

\* check_and_record keeps the types: the evicted entry leaves, the entry of
\* the signature is written, the others are as they were.
LEMMA CheckTypes ==
    ASSUME DedupTypes, NEW s \in Signature, CheckAndRecord(s)
    PROVE  DedupTypes'
<1> USE DEF DedupTypes
<1>1. Suppressed(s) \in BOOLEAN
  BY DEF Suppressed
<1>2. checks' \in Seq(Check)
  BY <1>1 DEF CheckAndRecord, Check
<1>3. EntryFor(s) \in [at : Nat, used : Nat]
  BY DEF EntryFor, Suppressed
<1>4. /\ DOMAIN seen' = (DOMAIN seen \ Evicted(s)) \cup {s}
      /\ \A u \in DOMAIN seen' : seen'[u] = IF u = s THEN EntryFor(s) ELSE seen[u]
      /\ seen' = [u \in DOMAIN seen' |-> seen'[u]]
  BY DEF CheckAndRecord
<1>5. \A u \in DOMAIN seen' : seen'[u] \in [at : Nat, used : Nat]
  BY <1>3, <1>4
<1>6. seen' \in [DOMAIN seen' -> [at : Nat, used : Nat]]
  BY <1>4, <1>5
<1>7. QED
  BY <1>2, <1>4, <1>6 DEF CheckAndRecord

\* The history after a call: the old one with one more element.
LEMMA CheckHistory ==
    ASSUME DedupTypes, NEW s \in Signature, CheckAndRecord(s)
    PROVE  /\ Len(checks) \in Nat
           /\ DOMAIN checks = 1..Len(checks)
           /\ DOMAIN checks' = 1..Len(checks) + 1
           /\ \A i \in 1..Len(checks) : checks'[i] = checks[i]
           /\ \A i \in 1..Len(checks) : checks[i] \in Check
           /\ checks'[Len(checks) + 1].sig = s
           /\ checks'[Len(checks) + 1].at = now
           /\ checks'[Len(checks) + 1].run = run
           /\ checks'[Len(checks) + 1].passed <=> ~Suppressed(s)
<1>1. \A i \in 1..Len(checks) : checks[i] \in Check
  BY DEF DedupTypes
<1>2. PICK c : /\ c = [sig |-> s, at |-> now, run |-> run, passed |-> ~Suppressed(s)]
               /\ checks' = Append(checks, c)
  BY DEF CheckAndRecord
<1>3. c.sig = s /\ c.at = now /\ c.run = run /\ c.passed = ~Suppressed(s)
  BY <1>2
<1>4. c.passed <=> ~Suppressed(s)
  BY <1>3 DEF Suppressed
<1>5. Len(checks) \in Nat /\ checks \in Seq(Check)
  BY DEF DedupTypes
<1>6. checks'[Len(checks) + 1] = c /\ Len(checks') = Len(checks) + 1
      /\ \A i \in 1..Len(checks) : checks'[i] = checks[i]
  BY <1>2, <1>5
<1>7. DOMAIN checks = 1..Len(checks) /\ DOMAIN checks' = 1..Len(checks) + 1
  BY <1>2, <1>5
<1>8. QED
  BY <1>1, <1>3, <1>4, <1>5, <1>6, <1>7

\* An entry that survives the call keeps its call, and the entry of s is
\* either kept (suppressed) or the call just made (passed).
LEMMA CheckEntries ==
    ASSUME DedupInv, NEW s \in Signature, CheckAndRecord(s)
    PROVE  EntriesPassed'
<1>1. ASSUME NEW u \in DOMAIN seen, seen'[u].at = seen[u].at
      PROVE  \E i \in DOMAIN checks' :
                /\ checks'[i].passed /\ checks'[i].sig = u /\ checks'[i].run = run'
                /\ checks'[i].at = seen'[u].at
  <2>1. PICK i \in DOMAIN checks :
                /\ checks[i].passed /\ checks[i].sig = u /\ checks[i].run = run
                /\ checks[i].at = seen[u].at
    BY DEF DedupInv, EntriesPassed
  <2>2. i \in DOMAIN checks' /\ checks'[i] = checks[i] /\ run' = run
    BY CheckHistory DEF DedupInv, CheckAndRecord
  <2>3. QED
    BY <1>1, <2>1, <2>2
<1>2. \A u \in DOMAIN seen' : u = s \/ (u \in DOMAIN seen /\ seen'[u] = seen[u])
  BY DEF CheckAndRecord
<1>3. s \in DOMAIN seen' /\ seen'[s] = EntryFor(s)
  BY DEF CheckAndRecord
<1>4. CASE Suppressed(s)
  <2>1. s \in DOMAIN seen /\ seen'[s].at = seen[s].at
    BY <1>3, <1>4 DEF EntryFor, Suppressed
  <2>2. QED
    BY <1>1, <1>2, <2>1 DEF EntriesPassed
<1>5. CASE ~Suppressed(s)
  <2>1. seen'[s].at = now
    BY <1>3, <1>5 DEF EntryFor
  <2>2. LET i == Len(checks) + 1 IN
          /\ i \in DOMAIN checks'
          /\ checks'[i].passed /\ checks'[i].sig = s /\ checks'[i].run = run'
          /\ checks'[i].at = seen'[s].at
    BY <1>5, <2>1, CheckHistory DEF DedupInv, CheckAndRecord
  <2>3. QED
    BY <1>1, <1>2, <2>2 DEF EntriesPassed
<1>6. QED
  BY <1>4, <1>5

\* A call that is suppressed finds the reason in the entry that suppressed it.
LEMMA CheckReason ==
    ASSUME DedupInv, NEW s \in Signature, CheckAndRecord(s)
    PROVE  SuppressedHasReason'
<1> DEFINE n == Len(checks)
<1>0. n \in Nat /\ DOMAIN checks = 1..n /\ DOMAIN checks' = 1..n + 1
  BY CheckHistory DEF DedupInv
<1>1. \A i \in 1..n : checks'[i] = checks[i] /\ checks'[i] \in Check
  BY CheckHistory DEF DedupInv
<1>2. /\ checks'[n + 1].sig = s /\ checks'[n + 1].at = now
      /\ checks'[n + 1].run = run /\ (checks'[n + 1].passed <=> ~Suppressed(s))
  BY CheckHistory DEF DedupInv
<1> HIDE DEF n
<1> SUFFICES ASSUME NEW j \in 1..n + 1, ~checks'[j].passed
             PROVE  \E i \in 1..j - 1 :
                       /\ checks'[i].passed
                       /\ checks'[i].sig = checks'[j].sig
                       /\ checks'[i].run = checks'[j].run
                       /\ checks'[j].at < checks'[i].at + Window
  BY <1>0 DEF SuppressedHasReason
<1>3. CASE j \in 1..n
  <2>1. PICK i \in 1..j - 1 :
                /\ checks[i].passed
                /\ checks[i].sig = checks[j].sig /\ checks[i].run = checks[j].run
                /\ checks[j].at < checks[i].at + Window
    BY <1>0, <1>1, <1>3 DEF DedupInv, SuppressedHasReason
  <2>2. i \in 1..n
    BY <1>0, <1>3
  <2>3. QED
    BY <1>1, <1>3, <2>1, <2>2
<1>4. CASE j = n + 1
  <2>1. Suppressed(s)
    BY <1>2, <1>4
  <2>2. s \in DOMAIN seen /\ now - seen[s].at < Window
    BY <2>1 DEF Suppressed
  <2>3. PICK i \in 1..n :
                /\ checks[i].passed /\ checks[i].sig = s /\ checks[i].run = run
                /\ checks[i].at = seen[s].at
    BY <1>0, <2>2 DEF DedupInv, EntriesPassed
  <2>4. now \in Nat /\ checks[i].at \in Nat /\ Window \in Nat
    BY <1>1, DedupBounds DEF DedupInv, DedupTypes, Check
  <2>5. now < checks[i].at + Window
    BY <2>2, <2>3, <2>4
  <2>6. i \in 1..j - 1
    BY <1>0, <1>4
  <2>7. QED
    BY <1>1, <1>2, <1>4, <2>3, <2>5, <2>6
<1>5. QED
  BY <1>0, <1>3, <1>4

\* The cache after a call: the signature's entry is new, the others are as
\* they were, and only a signature that is new to a full shard evicts.
LEMMA CheckCache ==
    ASSUME DedupTypes, NEW s \in Signature, CheckAndRecord(s)
    PROVE  /\ DOMAIN seen' = (DOMAIN seen \ Evicted(s)) \cup {s}
           /\ seen'[s] = EntryFor(s)
           /\ \A u \in DOMAIN seen' : u # s => u \in DOMAIN seen /\ seen'[u] = seen[u]
           /\ Evicted(s) \subseteq Entries(ShardOf[s])
           /\ s \in DOMAIN seen => Evicted(s) = {}
           /\ Cardinality(Entries(ShardOf[s])) < Capacity => Evicted(s) = {}
  BY DEF CheckAndRecord, Evicted

\* A full shard drops exactly one entry, the one used before all others.
LEMMA EvictsOldest ==
    ASSUME DedupInv, NEW s \in Signature, s \notin DOMAIN seen,
           ~(Cardinality(Entries(ShardOf[s])) < Capacity)
    PROVE  \E u \in Entries(ShardOf[s]) :
              /\ Evicted(s) = {u}
              /\ \A v \in Entries(ShardOf[s]) : v # u => seen[u].used < seen[v].used
<1> DEFINE E == Entries(ShardOf[s])
           U == {seen[v].used : v \in E}
<1>1. E \subseteq DOMAIN seen
  BY DEF Entries
<1>2. \A v \in DOMAIN seen : seen[v].used \in Nat
  BY DEF DedupInv, DedupTypes
<1>3. E # {}
  <2>1. Capacity \in Nat /\ ~(0 < Capacity) => FALSE
    BY CapacityAssumption
  <2>2. QED
    BY <2>1, CapacityAssumption, FS_EmptySet
<1>4. U \subseteq Nat /\ U # {}
  BY <1>1, <1>2, <1>3
<1>5. PICK m \in U : \A y \in U : m <= y
  <2> HIDE DEF U
  <2> QED
    BY <1>4, LeastNumber
<1>6. PICK u \in E : m = seen[u].used
  OBVIOUS
<1>7. \A v \in E : seen[u].used <= seen[v].used
  BY <1>5, <1>6
<1>8. \A v \in E : seen[v].used = seen[u].used => v = u
  BY <1>1 DEF DedupInv, LastUse
<1>9. \A v \in E : v # u => seen[u].used < seen[v].used
  BY <1>1, <1>2, <1>7, <1>8
<1>10. Evicted(s) = {u}
  <2>1. Evicted(s) = {v \in E : \A w \in E : seen[v].used <= seen[w].used}
    BY DEF Evicted
  <2>2. \A v \in E : (\A w \in E : seen[v].used <= seen[w].used) => v = u
    BY <1>1, <1>2, <1>9
  <2>3. QED
    BY <1>7, <2>1, <2>2
<1>11. QED
  BY <1>9, <1>10

\* A call leaves every shard within its capacity.
LEMMA CheckFits ==
    ASSUME DedupInv, NEW s \in Signature, CheckAndRecord(s)
    PROVE  Fits'
<1>0. DedupTypes /\ Fits
  BY DEF DedupInv
<1>1. IsFiniteSet(DOMAIN seen')
  <2>1. IsFiniteSet(DOMAIN seen \ Evicted(s))
    BY <1>0, FS_Difference DEF Fits
  <2>2. IsFiniteSet((DOMAIN seen \ Evicted(s)) \cup {s})
    BY <2>1, FS_AddElement
  <2>3. QED
    BY <1>0, <2>2, CheckCache
<1>2. ASSUME NEW k \in Shard
      PROVE  Cardinality(Entries(k)') <= Capacity
  <2>1. IsFiniteSet(Entries(k)) /\ Cardinality(Entries(k)) \in Nat
    <3>1. Entries(k) \in SUBSET DOMAIN seen
      BY DEF Entries
    <3>2. QED
      BY <1>0, <3>1, FS_Subset, FS_CardinalityType DEF Fits
  <2>2. Cardinality(Entries(k)) <= Capacity
    BY <1>0 DEF Fits
  <2>3. CASE k # ShardOf[s]
    <3>1. Entries(k)' = Entries(k)
      BY <1>0, <2>3, CheckCache DEF Entries
    <3>2. QED
      BY <2>2, <3>1
  <2>4. CASE k = ShardOf[s] /\ s \in DOMAIN seen
    <3>1. Entries(k)' = Entries(k)
      BY <1>0, <2>4, CheckCache DEF Entries
    <3>2. QED
      BY <2>2, <3>1
  <2>5. CASE k = ShardOf[s] /\ s \notin DOMAIN seen /\ Cardinality(Entries(k)) < Capacity
    <3>1. Entries(k)' = Entries(k) \cup {s}
      BY <1>0, <2>5, CheckCache DEF Entries
    <3>2. s \notin Entries(k)
      BY <2>5 DEF Entries
    <3>3. Cardinality(Entries(k) \cup {s}) = Cardinality(Entries(k)) + 1
      BY <2>1, <3>2, FS_AddElement
    <3>4. QED
      BY <2>1, <2>5, <3>1, <3>3, CapacityAssumption
  <2>6. CASE k = ShardOf[s] /\ s \notin DOMAIN seen /\ ~(Cardinality(Entries(k)) < Capacity)
    <3>1. PICK u \in Entries(k) : Evicted(s) = {u}
      BY <2>6, EvictsOldest
    <3>2. Entries(k)' = (Entries(k) \ {u}) \cup {s}
      BY <1>0, <2>6, <3>1, CheckCache DEF Entries
    <3>3. /\ IsFiniteSet(Entries(k) \ {u})
          /\ Cardinality(Entries(k) \ {u}) = Cardinality(Entries(k)) - 1
      BY <2>1, FS_RemoveElement
    <3>4. s \notin Entries(k) \ {u}
      BY <2>6 DEF Entries
    <3>5. Cardinality(Entries(k)') = Cardinality(Entries(k) \ {u}) + 1
      BY <3>2, <3>3, <3>4, FS_AddElement
    <3>6. QED
      BY <2>1, <2>2, <3>3, <3>5
  <2>7. QED
    BY <2>3, <2>4, <2>5, <2>6
<1>3. QED
  BY <1>1, <1>2 DEF Fits

\* A call is the last one with its signature, and the latest of all.
LEMMA CheckLastUse ==
    ASSUME DedupInv, NEW s \in Signature, CheckAndRecord(s)
    PROVE  LastUse' /\ Ordered'
<1> DEFINE n == Len(checks)
<1>0. n \in Nat /\ DOMAIN checks = 1..n /\ DOMAIN checks' = 1..n + 1
  BY CheckHistory DEF DedupInv
<1>1. \A i \in 1..n : checks'[i] = checks[i] /\ checks[i] \in Check
  BY CheckHistory DEF DedupInv
<1>2. /\ checks'[n + 1].sig = s /\ checks'[n + 1].at = now
      /\ checks'[n + 1].run = run /\ (checks'[n + 1].passed <=> ~Suppressed(s))
  BY CheckHistory DEF DedupInv
<1>3. now' = now /\ run' = run /\ now \in Nat /\ run \in Nat
  BY DEF CheckAndRecord, DedupInv, DedupTypes
<1>4. EntryFor(s).used = n + 1
      /\ EntryFor(s).at = IF Suppressed(s) THEN seen[s].at ELSE now
  BY DEF EntryFor
<1>5. /\ s \in DOMAIN seen' /\ seen'[s] = EntryFor(s)
      /\ \A u \in DOMAIN seen' : u # s => u \in DOMAIN seen /\ seen'[u] = seen[u]
  BY CheckCache DEF DedupInv
<1>6. \A u \in DOMAIN seen : seen[u].used \in 1..n /\ seen[u].at \in Nat
  BY <1>0 DEF DedupInv, DedupTypes, LastUse
<1> HIDE DEF n
<1>7. ASSUME NEW u \in DOMAIN seen'
      PROVE  /\ seen'[u].used \in DOMAIN checks'
             /\ checks'[seen'[u].used].sig = u
             /\ \A l \in DOMAIN checks' : checks'[l].sig = u => l <= seen'[u].used
             /\ \A i \in DOMAIN checks' :
                   checks'[i].passed /\ checks'[i].sig = u /\ checks'[i].run = run'
                   => checks'[i].at <= seen'[u].at
  <2>1. CASE u # s
    <3>1. u \in DOMAIN seen /\ seen'[u] = seen[u]
      BY <1>5, <2>1
    <3>2. /\ seen[u].used \in 1..n
          /\ checks[seen[u].used].sig = u
          /\ \A l \in 1..n : checks[l].sig = u => l <= seen[u].used
          /\ \A i \in 1..n :
                checks[i].passed /\ checks[i].sig = u /\ checks[i].run = run
                => checks[i].at <= seen[u].at
      BY <1>0, <3>1 DEF DedupInv, LastUse
    <3>3. \A l \in 1..n + 1 : checks'[l].sig = u => l \in 1..n
      BY <1>0, <1>2, <2>1
    <3>4. QED
      BY <1>0, <1>1, <1>3, <3>1, <3>2, <3>3
  <2>2. CASE u = s
    <3>1. seen'[u].used = n + 1
      BY <1>4, <1>5, <2>2
    <3>2. ASSUME NEW i \in 1..n + 1, checks'[i].passed, checks'[i].sig = u, checks'[i].run = run'
          PROVE  checks'[i].at <= seen'[u].at
      <4>1. CASE Suppressed(s)
        <5>1. s \in DOMAIN seen /\ seen'[u].at = seen[s].at
          BY <1>4, <1>5, <2>2, <4>1 DEF Suppressed
        <5>2. i \in 1..n
          BY <1>0, <1>2, <3>2, <4>1
        <5>3. QED
          BY <1>0, <1>1, <1>3, <2>2, <3>2, <5>1, <5>2 DEF DedupInv, LastUse
      <4>2. CASE ~Suppressed(s)
        <5>1. seen'[u].at = now
          BY <1>4, <1>5, <2>2, <4>2
        <5>2. i \in 1..n => checks[i].at <= now
          BY <1>0 DEF DedupInv, Ordered
        <5>3. QED
          BY <1>0, <1>1, <1>2, <1>3, <5>1, <5>2
      <4>3. QED
        BY <4>1, <4>2
    <3>3. QED
      BY <1>0, <1>2, <2>2, <3>1, <3>2
  <2>3. QED
    BY <2>1, <2>2
<1>8. LastUse'
  BY <1>7 DEF LastUse
<1>9. Ordered'
  <2>1. \A i \in 1..n : /\ checks[i].at <= now /\ checks[i].run <= run
                        /\ \A j \in 1..n : i <= j => checks[i].run <= checks[j].run
    BY <1>0 DEF DedupInv, Ordered
  <2>2. QED
    BY <1>0, <1>1, <1>2, <1>3, <2>1 DEF Ordered
<1>10. QED
  BY <1>8, <1>9

\* The signatures of a part of a history are finitely many.
LEMMA SignaturesFinite ==
    ASSUME NEW c \in Seq(Check), NEW S, S \subseteq 1..Len(c)
    PROVE  IsFiniteSet({c[l].sig : l \in S})
<1> DEFINE T == {c[l].sig : l \in S}
           f == [l \in S |-> c[l].sig]
<1>1. IsFiniteSet(S)
  <2>1. Len(c) \in Nat
    OBVIOUS
  <2>2. IsFiniteSet(1..Len(c))
    BY <2>1, FS_Interval
  <2>3. QED
    BY <2>2, FS_Subset
<1>2. f \in Surjection(S, T)
  BY DEF Surjection
<1>3. QED
  <2> HIDE DEF f, T
  <2>1. IsFiniteSet(T)
    BY <1>1, <1>2, FS_Surjection
  <2>2. QED
    BY <2>1 DEF T

\* A call can only crowd out others: the rivals of a signature become more,
\* and the signature that is dropped has all other entries of its shard and
\* the newcomer as rivals.
LEMMA CheckCrowdedOut ==
    ASSUME DedupInv, NEW s \in Signature, CheckAndRecord(s)
    PROVE  CrowdedOut'
<1> DEFINE n == Len(checks)
<1>0. n \in Nat /\ DOMAIN checks = 1..n /\ DOMAIN checks' = 1..n + 1
      /\ Len(checks') = n + 1 /\ checks' \in Seq(Check)
  <2>1. n \in Nat /\ DOMAIN checks = 1..n /\ DOMAIN checks' = 1..n + 1
    BY CheckHistory DEF DedupInv
  <2>2. checks' \in Seq(Check)
    BY CheckTypes DEF DedupInv, DedupTypes
  <2>3. QED
    BY <2>1, <2>2
<1>1. \A i \in 1..n : checks'[i] = checks[i] /\ checks[i] \in Check
  BY CheckHistory DEF DedupInv
<1>2. checks'[n + 1].sig = s /\ run' = run
  BY CheckHistory DEF DedupInv, CheckAndRecord
<1>3. /\ DOMAIN seen' = (DOMAIN seen \ Evicted(s)) \cup {s}
      /\ Evicted(s) \subseteq Entries(ShardOf[s])
      /\ s \in DOMAIN seen => Evicted(s) = {}
      /\ Cardinality(Entries(ShardOf[s])) < Capacity => Evicted(s) = {}
  BY CheckCache DEF DedupInv
<1> HIDE DEF n
<1> SUFFICES ASSUME NEW k \in 1..n + 1, IsLast(k)', checks'[k].sig \notin DOMAIN seen'
             PROVE  Cardinality(RivalsSince(k)') >= Capacity
  BY <1>0 DEF CrowdedOut
<1>4. k \in 1..n /\ checks'[k] = checks[k] /\ checks[k].sig # s
  <2>1. k # n + 1
    BY <1>2, <1>3
  <2>2. k \in 1..n
    BY <1>0, <2>1
  <2>3. checks'[k].sig # s
    BY <1>3
  <2>4. QED
    BY <1>1, <2>2, <2>3
<1>5. IsLast(k)
  BY <1>0, <1>1, <1>2, <1>4 DEF IsLast
<1> DEFINE c == checks[k].sig
           R == RivalsSince(k)
           Q == RivalsSince(k)'
<1>6. /\ R = {checks[l].sig : l \in {l \in k + 1..n : ShardOf[checks[l].sig] = ShardOf[c]}} \ {c}
      /\ Q = {checks'[l].sig : l \in {l \in k + 1..n + 1 : ShardOf[checks'[l].sig] = ShardOf[c]}} \ {c}
  BY <1>0, <1>4 DEF RivalsSince, n
<1>7. IsFiniteSet(Q) /\ Cardinality(Q) \in Nat
  <2> DEFINE S == {l \in k + 1..n + 1 : ShardOf[checks'[l].sig] = ShardOf[c]}
             D == {checks'[l].sig : l \in S}
  <2>1. S \subseteq 1..Len(checks')
    BY <1>0, <1>4
  <2>2. IsFiniteSet(D)
    <3> HIDE DEF S
    <3> QED
      BY <1>0, <2>1, SignaturesFinite
  <2>3. Q = D \ {c}
    BY <1>6
  <2>4. QED
    <3> HIDE DEF D, Q
    <3>1. IsFiniteSet(Q)
      BY <2>2, <2>3, FS_Difference
    <3>2. QED
      BY <3>1, FS_CardinalityType
<1>8. ASSUME NEW l \in k + 1..n + 1, ShardOf[checks'[l].sig] = ShardOf[c], checks'[l].sig # c
      PROVE  checks'[l].sig \in Q
  BY <1>6, <1>8
<1>9. CASE c \notin DOMAIN seen
  <2>1. Cardinality(R) >= Capacity
    BY <1>0, <1>4, <1>5, <1>9 DEF DedupInv, CrowdedOut
  <2>2. R \subseteq Q
    BY <1>0, <1>1, <1>4, <1>6
  <2>3. Cardinality(R) \in Nat /\ Cardinality(R) <= Cardinality(Q)
    BY <1>7, <2>2, FS_Subset, FS_CardinalityType
  <2>4. QED
    BY <1>7, <2>1, <2>3, CapacityAssumption
<1>10. CASE c \in DOMAIN seen
  <2> DEFINE E == Entries(ShardOf[s])
  <2>1. c \in Evicted(s) /\ c \in E /\ s \notin DOMAIN seen
        /\ ~(Cardinality(E) < Capacity)
    BY <1>3, <1>4, <1>10
  <2>2. PICK u \in E : /\ Evicted(s) = {u}
                       /\ \A v \in E : v # u => seen[u].used < seen[v].used
    BY <2>1, EvictsOldest
  <2>3. u = c
    BY <2>1, <2>2
  <2>4. seen[c].used = k
    <3>1. seen[c].used \in 1..n /\ checks[seen[c].used].sig = c
          /\ \A l \in 1..n : checks[l].sig = c => l <= seen[c].used
      BY <1>0, <1>10 DEF DedupInv, LastUse
    <3>2. seen[c].used <= k /\ k <= seen[c].used
      BY <1>0, <1>4, <1>5, <3>1 DEF IsLast
    <3>3. QED
      BY <1>4, <3>1, <3>2
  <2>5. ShardOf[c] = ShardOf[s]
    BY <2>1 DEF Entries
  <2>6. s \in Q
    BY <1>0, <1>2, <1>4, <1>8, <2>5
  <2>7. ASSUME NEW v \in E \ {c}
        PROVE  v \in Q
    <3>1. v \in DOMAIN seen /\ ShardOf[v] = ShardOf[s] /\ k < seen[v].used
      BY <2>2, <2>3, <2>4 DEF Entries
    <3>2. seen[v].used \in 1..n /\ checks[seen[v].used].sig = v
      BY <1>0, <3>1 DEF DedupInv, LastUse
    <3>3. checks'[seen[v].used].sig = v /\ seen[v].used \in k + 1..n + 1
      BY <1>0, <1>1, <1>4, <3>1, <3>2
    <3>4. QED
      BY <1>8, <2>5, <3>1, <3>3
  <2>8. /\ IsFiniteSet(E)
        /\ Cardinality(E) \in Nat
    <3>1. E \in SUBSET DOMAIN seen
      BY DEF Entries
    <3>2. QED
      BY <3>1, FS_Subset, FS_CardinalityType DEF DedupInv, Fits
  <2>9. /\ IsFiniteSet(E \ {c})
        /\ Cardinality(E \ {c}) = Cardinality(E) - 1
    BY <2>1, <2>8, FS_RemoveElement
  <2>10. s \notin E \ {c}
    BY <2>1 DEF Entries
  <2>11. Cardinality((E \ {c}) \cup {s}) = Cardinality(E)
    <3>1. Cardinality((E \ {c}) \cup {s}) = Cardinality(E \ {c}) + 1
      BY <2>9, <2>10, FS_AddElement
    <3>2. QED
      BY <2>8, <2>9, <3>1
  <2>12. (E \ {c}) \cup {s} \subseteq Q
    BY <2>6, <2>7
  <2>13. Cardinality(E) <= Cardinality(Q)
    BY <1>7, <2>11, <2>12, FS_Subset
  <2>14. QED
    BY <1>7, <2>1, <2>8, <2>13, CapacityAssumption
<1>11. QED
  BY <1>9, <1>10

\* A call that passes again within a window finds no entry, so that its
\* signature was crowded out since its last call.
LEMMA CheckPassesAgain ==
    ASSUME DedupInv, NEW s \in Signature, CheckAndRecord(s)
    PROVE  PassesAgainOnlyCrowdedOut'
<1> DEFINE n == Len(checks)
<1>0. n \in Nat /\ DOMAIN checks = 1..n /\ DOMAIN checks' = 1..n + 1
  BY CheckHistory DEF DedupInv
<1>1. \A i \in 1..n : checks'[i] = checks[i] /\ checks[i] \in Check
  BY CheckHistory DEF DedupInv
<1>2. /\ checks'[n + 1].sig = s /\ checks'[n + 1].at = now
      /\ checks'[n + 1].run = run /\ (checks'[n + 1].passed <=> ~Suppressed(s))
  BY CheckHistory DEF DedupInv
<1> SUFFICES ASSUME NEW j \in 1..n + 1, NEW i \in 1..j - 1,
                    checks'[i].passed, checks'[j].passed,
                    checks'[i].sig = checks'[j].sig, checks'[i].run = checks'[j].run,
                    checks'[j].at < checks'[i].at + Window,
                    NEW k \in i..j - 1,
                    checks'[k].sig = checks'[j].sig,
                    \A l \in k + 1..j - 1 : checks'[l].sig # checks'[j].sig
             PROVE  Cardinality(Rivals(k, j)') >= Capacity
  <2> HIDE DEF n
  <2> QED
    BY <1>0 DEF PassesAgainOnlyCrowdedOut
<1> HIDE DEF n
<1>3. i \in 1..n /\ k \in 1..n /\ i <= k
  BY <1>0
<1>4. CASE j \in 1..n
  <2>1. \A l \in 1..j : checks'[l] = checks[l]
    BY <1>0, <1>1, <1>4
  <2>2. Rivals(k, j)' = Rivals(k, j)
    BY <1>3, <1>4, <2>1 DEF Rivals
  <2>3. Cardinality(Rivals(k, j)) >= Capacity
    <3>1. /\ checks[i].passed /\ checks[j].passed
          /\ checks[i].sig = checks[j].sig /\ checks[i].run = checks[j].run
          /\ checks[j].at < checks[i].at + Window
          /\ checks[k].sig = checks[j].sig
          /\ \A l \in k + 1..j - 1 : checks[l].sig # checks[j].sig
      BY <1>3, <1>4, <2>1
    <3>2. QED
      BY <1>0, <1>4, <3>1 DEF DedupInv, PassesAgainOnlyCrowdedOut
  <2>4. QED
    BY <2>2, <2>3
<1>5. CASE j = n + 1
  <2>1. /\ checks[i].passed /\ checks[i].sig = s /\ checks[i].run = run
        /\ checks[k].sig = s /\ now < checks[i].at + Window /\ ~Suppressed(s)
        /\ \A l \in k + 1..n : checks[l].sig # s
    BY <1>0, <1>1, <1>2, <1>3, <1>5
  <2>2. s \notin DOMAIN seen
    <3>1. SUFFICES ASSUME s \in DOMAIN seen
                   PROVE  FALSE
      OBVIOUS
    <3>2. seen[s].at \in Nat /\ checks[i].at \in Nat /\ now \in Nat /\ Window \in Nat
      BY <1>1, <1>3, <3>1, DedupBounds DEF DedupInv, DedupTypes, Check
    <3>3. checks[i].at <= seen[s].at
      BY <1>0, <1>3, <2>1, <3>1 DEF DedupInv, LastUse
    <3>4. ~(now - seen[s].at < Window)
      BY <2>1, <3>1 DEF Suppressed
    <3>5. QED
      BY <2>1, <3>2, <3>3, <3>4
  <2>3. checks[k].run = run
    <3>1. checks[i].run <= checks[k].run /\ checks[k].run <= run
      BY <1>0, <1>3 DEF DedupInv, Ordered
    <3>2. run \in Nat /\ checks[k].run \in Nat
      BY <1>1, <1>3 DEF DedupInv, DedupTypes, Check
    <3>3. QED
      BY <2>1, <3>1, <3>2
  <2>4. IsLast(k)
    BY <1>0, <1>3, <2>1, <2>3 DEF IsLast
  <2>5. Cardinality(RivalsSince(k)) >= Capacity
    BY <1>0, <1>3, <2>1, <2>2, <2>4 DEF DedupInv, CrowdedOut
  <2>6. Rivals(k, j)' = RivalsSince(k)
    <3>1. j - 1 = n /\ checks'[j].sig = s
      BY <1>0, <1>2, <1>5
    <3>2. \A l \in k + 1..n : checks'[l] = checks[l]
      BY <1>0, <1>1, <1>3
    <3>3. Rivals(k, j)' =
            {checks'[l].sig : l \in {l \in k + 1..n : ShardOf[checks'[l].sig] = ShardOf[s]}} \ {s}
      BY <3>1 DEF Rivals
    <3>4. RivalsSince(k) =
            {checks[l].sig : l \in {l \in k + 1..n : ShardOf[checks[l].sig] = ShardOf[s]}} \ {s}
      BY <2>1 DEF RivalsSince, n
    <3>5. QED
      BY <3>2, <3>3, <3>4
  <2>7. QED
    BY <2>5, <2>6
<1>6. QED
  BY <1>0, <1>4, <1>5

\* Most of the invariant is about the history, the cache and the process only.
LEMMA HistoryKept ==
    ASSUME UNCHANGED checks
    PROVE  /\ SuppressedHasReason => SuppressedHasReason'
           /\ PassesAgainOnlyCrowdedOut => PassesAgainOnlyCrowdedOut'
           /\ UNCHANGED <<seen, run>> =>
                 /\ EntriesPassed => EntriesPassed'
                 /\ LastUse => LastUse'
                 /\ Fits => Fits'
                 /\ CrowdedOut => CrowdedOut'
<1>1. SuppressedHasReason => SuppressedHasReason'
  BY DEF SuppressedHasReason
<1>2. PassesAgainOnlyCrowdedOut => PassesAgainOnlyCrowdedOut'
  <2>1. \A i, j : Rivals(i, j)' = Rivals(i, j)
    BY DEF Rivals
  <2>2. QED
    BY <2>1 DEF PassesAgainOnlyCrowdedOut
<1>3. ASSUME UNCHANGED <<seen, run>>
      PROVE  /\ EntriesPassed => EntriesPassed'
             /\ LastUse => LastUse'
             /\ Fits => Fits'
             /\ CrowdedOut => CrowdedOut'
  <2>1. EntriesPassed => EntriesPassed'
    BY <1>3 DEF EntriesPassed
  <2>2. LastUse => LastUse'
    BY <1>3 DEF LastUse
  <2>3. Fits => Fits'
    BY <1>3 DEF Fits, Entries
  <2>4. CrowdedOut => CrowdedOut'
    BY <1>3 DEF CrowdedOut, IsLast, RivalsSince
  <2>5. QED
    BY <2>1, <2>2, <2>3, <2>4
<1>4. QED
  BY <1>1, <1>2, <1>3

\* Every step of the deduplicator keeps the invariant.
LEMMA DedupStep ==
    ASSUME DedupInv, [DedupNext]_dedupVars
    PROVE  DedupInv'
<1>0. \A i \in DOMAIN checks : checks[i].at \in Nat /\ checks[i].run \in Nat
  <2>1. \A i \in DOMAIN checks : checks[i] \in Check
    BY DEF DedupInv, DedupTypes
  <2>2. QED
    BY <2>1 DEF Check
<1>1. CASE Tick
  <2>1. /\ now' = now + 1 /\ now \in Nat /\ UNCHANGED <<seen, checks, run>>
    BY <1>1 DEF Tick, DedupInv, DedupTypes
  <2>2. DedupTypes'
    BY <2>1 DEF DedupInv, DedupTypes
  <2>3. Ordered'
    BY <1>0, <2>1 DEF DedupInv, Ordered
  <2>4. QED
    BY <2>1, <2>2, <2>3, HistoryKept DEF DedupInv
<1>2. CASE DedupRestart
  <2>0. /\ checks' = checks /\ now' = now /\ run' = run + 1 /\ DOMAIN seen' = {}
        /\ run \in Nat
    BY <1>2 DEF DedupRestart, DedupInv, DedupTypes
  <2>1. DedupTypes' /\ EntriesPassed' /\ LastUse' /\ SuppressedHasReason'
    BY <1>2 DEF DedupRestart, DedupInv, DedupTypes, EntriesPassed, LastUse,
                SuppressedHasReason
  <2>2. \A i \in DOMAIN checks : checks[i].run \in Nat /\ checks[i].run <= run
    BY <1>0 DEF DedupInv, Ordered
  <2>3. Ordered'
    BY <2>0, <2>2 DEF DedupInv, Ordered
  <2>4. CrowdedOut'
    BY <2>0, <2>2 DEF CrowdedOut, IsLast
  <2>5. Fits'
    <3>1. Capacity \in Nat /\ \A k \in Shard : Entries(k)' = {}
      BY <2>0, CapacityAssumption DEF Entries
    <3>2. QED
      BY <2>0, <3>1, FS_EmptySet DEF Fits
  <2>6. PassesAgainOnlyCrowdedOut'
    BY <2>0, HistoryKept DEF DedupInv
  <2>7. QED
    BY <2>1, <2>3, <2>4, <2>5, <2>6 DEF DedupInv
<1>3. ASSUME NEW s \in Signature, CheckAndRecord(s)
      PROVE  DedupInv'
  BY <1>3, CheckTypes, CheckEntries, CheckReason, CheckFits, CheckLastUse,
     CheckCrowdedOut, CheckPassesAgain DEF DedupInv
<1>4. CASE UNCHANGED dedupVars
  <2>1. UNCHANGED <<now, seen, checks, run>>
    BY <1>4 DEF dedupVars
  <2>2. DedupTypes' /\ Ordered'
    BY <2>1 DEF DedupInv, DedupTypes, Ordered
  <2>3. QED
    BY <2>1, <2>2, HistoryKept DEF DedupInv
<1>5. QED
  BY <1>1, <1>2, <1>3, <1>4 DEF DedupNext

LEMMA DedupStart == DedupInit => DedupInv
<1> SUFFICES ASSUME DedupInit
             PROVE  DedupInv
  OBVIOUS
<1>1. now = 0 /\ run = 0 /\ checks = <<>> /\ seen = [s \in {} |-> s] /\ DOMAIN seen = {}
  BY DEF DedupInit
<1>2. DedupTypes /\ EntriesPassed /\ LastUse /\ Ordered /\ CrowdedOut
      /\ SuppressedHasReason /\ PassesAgainOnlyCrowdedOut
  BY <1>1 DEF DedupTypes, EntriesPassed, LastUse, Ordered, CrowdedOut,
              SuppressedHasReason, PassesAgainOnlyCrowdedOut
<1>3. Fits
  <2>1. Capacity \in Nat /\ \A k \in Shard : Entries(k) = {}
    BY <1>1, CapacityAssumption DEF Entries
  <2>2. QED
    BY <1>1, <2>1, FS_EmptySet DEF Fits
<1>4. QED
  BY <1>2, <1>3 DEF DedupInv

\* The deduplicator keeps its invariant.
THEOREM DedupInvariance == DedupSpec => []DedupInv
  BY DedupStart, DedupStep, PTL DEF DedupSpec

\* The types of the deduplicator's state; no shard of the cache ever holds
\* more than its capacity, because a full shard drops an entry for a newcomer.
THEOREM DedupTypeCorrect == DedupSpec => []DedupTypeOK
<1>1. DedupInv => DedupTypeOK
  BY DEF DedupInv, DedupTypes, Fits, DedupTypeOK
<1>2. QED
  BY <1>1, DedupInvariance, PTL

\* Whatever the alerts and however the cache evicts, an alert is suppressed
\* only by one with its signature that passed less than a window before in
\* the same process.
THEOREM NeverSilencedForEver == DedupSpec => []SuppressedHasReason
<1>1. DedupInv => SuppressedHasReason
  BY DEF DedupInv
<1>2. QED
  BY <1>1, DedupInvariance, PTL

\* The other direction: a signature that passed is held back for the whole
\* window, unless since its last call as many other signatures of its shard
\* were checked as the shard has entries.
THEOREM HeldUnlessCrowdedOut == DedupSpec => []PassesAgainOnlyCrowdedOut
<1>1. DedupInv => PassesAgainOnlyCrowdedOut
  BY DEF DedupInv
<1>2. QED
  BY <1>1, DedupInvariance, PTL

-----------------------------------------------------------------------------
(* The engine *)

\* Where the group, the consumer and the event channel stand in the topic.
Consumed ==
    /\ position <= Len(topic)
    /\ committed <= position /\ requested <= position
    /\ requested # 0 => committed <= requested
    /\ cons \in {"enqueue", "dlq"} => committed < position /\ requested < position
    /\ \A i \in DOMAIN eventQ : eventQ[i] \in 1..position

\* The scanner has an alert in hand when it checks or sends one.
Busy == scan \in {"check", "send"} => todo # <<>>

\* No task stops before the token is cancelled.
Ending ==
    /\ cons = "ended" => cancelled
    /\ scan \in {"drain", "closing", "ended"} \/ draining => cancelled
    /\ scan = "ended" => eventQ = <<>>
    /\ batch \in {"drain", "ended"} \/ flushing => cancelled

\* Records behind the consumer's position that nobody has evaluated or given
\* up and that are not in the channel.  The record the consumer holds is not
\* among them; nor is it when the consumer ends with it, unless it is a
\* record of an earlier process that is committed already.
Exposed ==
    {o \in 1..position :
        /\ topic[o] # Empty /\ o \notin scanned \cup dead \cup Queued(eventQ)
        /\ o = position => /\ cons \notin {"enqueue", "dlq"}
                           /\ cons = "ended" => o <= committed \/ o <= requested}

\* What the ends of processes, of the scanner, and failures may have exposed.
Charge == ChannelCap * (run + (IF scan = "ended" THEN 1 ELSE 0)) + failures

Budget == Cardinality(Exposed) <= Charge

EngineInv ==
    /\ DedupInv /\ TaskState /\ EngineTypes
    /\ Consumed /\ Busy /\ Ending /\ Budget /\ RunningKeepsAlerts

\* The elements of a channel when one is put in and when one is taken.
LEMMA QueuedAppend ==
    ASSUME NEW S, NEW q \in Seq(S), NEW x \in S
    PROVE  Queued(Append(q, x)) = Queued(q) \cup {x}
<1>1. /\ Len(q) \in Nat /\ DOMAIN q = 1..Len(q) /\ DOMAIN Append(q, x) = 1..Len(q) + 1
      /\ Append(q, x)[Len(q) + 1] = x
      /\ \A i \in 1..Len(q) : Append(q, x)[i] = q[i]
  OBVIOUS
<1>2. Queued(Append(q, x)) = {Append(q, x)[i] : i \in 1..Len(q) + 1}
      /\ Queued(q) = {q[i] : i \in 1..Len(q)}
  BY <1>1 DEF Queued
<1>3. ASSUME NEW y \in Queued(Append(q, x))
      PROVE  y \in Queued(q) \cup {x}
  BY <1>1, <1>2
<1>4. x \in Queued(Append(q, x))
  <2>1. Len(q) + 1 \in 1..Len(q) + 1
    BY <1>1
  <2>2. QED
    BY <1>1, <1>2, <2>1
<1>5. ASSUME NEW y \in Queued(q)
      PROVE  y \in Queued(Append(q, x))
  <2>1. PICK i \in 1..Len(q) : y = q[i]
    BY <1>2
  <2>2. i \in 1..Len(q) + 1 /\ Append(q, x)[i] = y
    BY <1>1, <2>1
  <2>3. QED
    BY <1>2, <2>2
<1>6. QED
  BY <1>3, <1>4, <1>5

LEMMA QueuedTail ==
    ASSUME NEW S, NEW q \in Seq(S), q # <<>>
    PROVE  /\ Head(q) \in S /\ Tail(q) \in Seq(S) /\ Len(Tail(q)) = Len(q) - 1
           /\ Queued(q) = {Head(q)} \cup Queued(Tail(q))
<1>1. /\ Len(q) \in Nat \ {0} /\ DOMAIN q = 1..Len(q)
      /\ Tail(q) \in Seq(S) /\ Head(q) = q[1] /\ Head(q) \in S
      /\ Len(Tail(q)) = Len(q) - 1 /\ DOMAIN Tail(q) = 1..Len(q) - 1
      /\ \A i \in 1..Len(q) - 1 : Tail(q)[i] = q[i + 1]
  OBVIOUS
<1>2. Queued(q) = {q[i] : i \in 1..Len(q)}
      /\ Queued(Tail(q)) = {Tail(q)[i] : i \in 1..Len(q) - 1}
  BY <1>1 DEF Queued
<1>3. ASSUME NEW y \in Queued(q)
      PROVE  y \in {Head(q)} \cup Queued(Tail(q))
  <2>1. PICK i \in 1..Len(q) : y = q[i]
    BY <1>2
  <2>2. CASE i = 1
    BY <1>1, <2>1, <2>2
  <2>3. CASE i # 1
    <3>1. i - 1 \in 1..Len(q) - 1 /\ Tail(q)[i - 1] = y
      BY <1>1, <2>1, <2>3
    <3>2. QED
      BY <1>2, <3>1
  <2>4. QED
    BY <2>2, <2>3
<1>4. Head(q) \in Queued(q)
  BY <1>1, <1>2
<1>5. ASSUME NEW y \in Queued(Tail(q))
      PROVE  y \in Queued(q)
  <2>1. PICK i \in 1..Len(q) - 1 : y = Tail(q)[i]
    BY <1>2
  <2>2. i + 1 \in 1..Len(q) /\ q[i + 1] = y
    BY <1>1, <2>1
  <2>3. QED
    BY <1>2, <2>2
<1>6. QED
  BY <1>1, <1>3, <1>4, <1>5

LEMMA EmptyQueue ==
    /\ Queued(<<>>) = {}
    /\ <<>> \in Seq(Nat) /\ <<>> \in Seq(Signature)
    /\ Len(<<>>) = 0 /\ Len(<<>>) <= ChannelCap
<1>1. Len(<<>>) = 0
  OBVIOUS
<1>2. QED
  BY <1>1, EngineBounds DEF Queued

\* A channel holds no more different elements than it is long.
LEMMA QueuedSize ==
    ASSUME NEW S, NEW q \in Seq(S)
    PROVE  IsFiniteSet(Queued(q)) /\ Cardinality(Queued(q)) \in Nat
           /\ Cardinality(Queued(q)) <= Len(q) /\ Queued(q) \subseteq S
<1>1. Len(q) \in Nat /\ DOMAIN q = 1..Len(q)
  OBVIOUS
<1>2. q \in Surjection(1..Len(q), Queued(q))
  BY <1>1 DEF Surjection, Queued
<1>3. IsFiniteSet(1..Len(q)) /\ Cardinality(1..Len(q)) = Len(q)
  BY <1>1, FS_Interval
<1>4. IsFiniteSet(Queued(q)) /\ Cardinality(Queued(q)) <= Len(q)
  BY <1>2, <1>3, FS_Surjection
<1>5. Queued(q) \subseteq S
  BY <1>1 DEF Queued
<1>6. QED
  BY <1>4, <1>5, FS_CardinalityType

\* What the engine's rules find in a payload are signatures.
LEMMA EvaluateType ==
    ASSUME rules \in Registries, NEW p \in Payload
    PROVE  evaluate(p) \in Seq(Signature)
<1>1. CASE CategoryOf[p] \notin DOMAIN rules
  BY <1>1 DEF evaluate
<1>2. CASE CategoryOf[p] \in DOMAIN rules
  <2>1. PICK d \in Directory : compile_all(d).ok /\ rules = compile_all(d).rule_sets
    BY DEF Registries
  <2>2. /\ rules = [n \in DOMAIN d \ {"mitre"} |-> d[n]]
        /\ \A n \in DOMAIN d \ {"mitre"} : d[n] \subseteq Rule
    BY <2>1 DEF compile_all, compile_directory
  <2>3. rules[CategoryOf[p]] \in SUBSET Rule
    BY <1>2, <2>2
  <2>4. Matches[rules[CategoryOf[p]]][p] \in Seq(Signature)
    BY <2>3, RulesAssumption
  <2>5. QED
    BY <1>2, <2>4 DEF evaluate
<1>3. QED
  BY <1>1, <1>2

\* Every step of the engine is a step of the deduplicator, or leaves it alone.
LEMMA EngineDedupStep ==
    ASSUME EngineInv, [Next]_vars
    PROVE  [DedupNext]_dedupVars
<1>1. CASE CheckAlert
  <2>1. todo \in Seq(Signature) /\ todo # <<>>
    BY <1>1 DEF EngineInv, EngineTypes, Busy, CheckAlert
  <2>2. Head(todo) \in Signature
    BY <2>1
  <2>3. QED
    BY <1>1, <2>2 DEF CheckAlert, DedupNext
<1>2. CASE Restart \/ Kill \/ Elapse
  BY <1>2 DEF Restart, Kill, Elapse, DedupNext
<1>3. CASE Scan \/ SendAlert \/ ScannerStops \/ ScannerEnds \/ CommitLands \/ CtrlC
  BY <1>3 DEF Scan, SendAlert, ScannerStops, ScannerEnds, CommitLands, CtrlC, dedupVars
<1>4. CASE ConsumerNext
  BY <1>4 DEF ConsumerNext, Poll, Enqueue, DeadLetter, Commit, ConsumerStops,
              consumerFrame, dedupVars
<1>5. CASE BatcherNext
  BY <1>5 DEF BatcherNext, Collect, FlushTimer, BatcherStops, FinalDrain, Publish,
              Insert, batcherFrame, dedupVars
<1>6. CASE (\E p \in Payload : Produce(p)) \/ (\E d \in Directory : Reload(d))
  BY <1>6 DEF Produce, Reload, dedupVars
<1>7. CASE UNCHANGED vars
  BY <1>7 DEF vars, dedupVars
<1>8. QED
  BY <1>1, <1>2, <1>3, <1>4, <1>5, <1>6, <1>7 DEF Next, ScannerNext

\* Every step keeps the states of the tasks, and no task stops on its own.
LEMMA TaskStep ==
    ASSUME EngineInv, [Next]_vars
    PROVE  TaskState' /\ Busy' /\ Ending'
<1> USE DEF EngineInv, TaskState, Busy, Ending
<1>1. CASE ConsumerNext
  BY <1>1 DEF ConsumerNext, Poll, Enqueue, DeadLetter, Commit, ConsumerStops,
              consumerFrame, scanVars, batchVars, mainVars
<1>2. CASE Scan
  BY <1>2 DEF Scan, scannerFrame, consVars, batchVars, mainVars
<1>3. CASE CheckAlert \/ SendAlert
  <2>1. todo \in Seq(Signature) /\ todo # <<>> /\ scan \in {"check", "send"}
    BY <1>3 DEF CheckAlert, SendAlert, EngineTypes
  <2>2. Len(todo) # 1 => Tail(todo) # <<>>
    <3>1. Len(Tail(todo)) = Len(todo) - 1 /\ Len(todo) \in Nat
      BY <2>1, QueuedTail
    <3>2. Tail(todo) = <<>> => Len(Tail(todo)) = Len(<<>>)
      BY Zenon
    <3>3. QED
      BY <3>1, <3>2, EmptyQueue
  <2>3. UNCHANGED <<cons, eventQ, draining, batch, flushing, cancelled>>
    BY <1>3 DEF CheckAlert, SendAlert, scannerFrame, consVars, batchVars, mainVars
  <2>4. \/ todo' = Tail(todo) /\ scan' = IF Len(todo) = 1 THEN Waiting ELSE "check"
        \/ scan' = "send" /\ UNCHANGED todo
    BY <1>3 DEF CheckAlert, SendAlert, NextAlert
  <2>5. QED
    BY <2>1, <2>2, <2>3, <2>4 DEF Waiting
<1>4. CASE ScannerStops \/ ScannerEnds
  BY <1>4 DEF ScannerStops, ScannerEnds, scannerFrame, consVars, batchVars, mainVars
<1>5. CASE BatcherNext
  <2>1. UNCHANGED <<cons, eventQ, scan, todo, draining, cancelled>>
    BY <1>5 DEF BatcherNext, Collect, FlushTimer, BatcherStops, FinalDrain, Publish,
                Insert, batcherFrame, consVars, scanVars, mainVars
  <2>2. \/ batch' \in {"recv", "publish", "insert"} /\ flushing' = flushing
        \/ batch' = batch /\ flushing' = flushing
        \/ cancelled /\ batch' = "drain" /\ flushing' = TRUE
        \/ cancelled /\ batch' = "ended" /\ flushing' = flushing
    BY <1>5 DEF BatcherNext, Collect, FlushTimer, BatcherStops, FinalDrain, Publish, Insert
  <2>3. (batch \in {"drain", "ended"} \/ flushing => cancelled) /\ flushing \in BOOLEAN
    OBVIOUS
  <2>4. batch' \in {"drain", "ended"} \/ flushing' => cancelled
    BY <2>2, <2>3
  <2>5. flushing' \in BOOLEAN
    BY <2>2, <2>3
  <2>6. batch' \in {"recv", "drain", "publish", "insert", "ended"}
    BY <2>2
  <2>7. QED
    BY <2>1, <2>4, <2>5, <2>6
<1>6. CASE Restart \/ Kill
  BY <1>6 DEF Restart, Kill, Started
<1>7. CASE CommitLands \/ CtrlC \/ Elapse
  <2>1. UNCHANGED <<cons, eventQ, scan, todo, draining, batch, flushing>>
        /\ (cancelled' = TRUE \/ cancelled' = cancelled)
    BY <1>7 DEF CommitLands, CtrlC, Elapse, consVars, scanVars, batchVars, mainVars
  <2>2. QED
    BY <2>1
<1>8. CASE (\E p \in Payload : Produce(p)) \/ (\E d \in Directory : Reload(d))
  BY <1>8 DEF Produce, Reload, consVars, scanVars, batchVars, mainVars
<1>9. CASE UNCHANGED vars
  BY <1>9 DEF vars, consVars, scanVars, batchVars, mainVars
<1>10. QED
  BY <1>1, <1>2, <1>3, <1>4, <1>5, <1>6, <1>7, <1>8, <1>9 DEF Next, ScannerNext

\* Every step keeps the types, and the channels within their capacity.
LEMMA TypesStep ==
    ASSUME EngineInv, [Next]_vars
    PROVE  EngineTypes'
<1>0. EngineTypes
  BY DEF EngineInv
<1> USE DEF EngineTypes
<1>1. ASSUME NEW p \in Payload, Produce(p)
      PROVE  EngineTypes'
  BY <1>0, <1>1 DEF Produce, consVars, scanVars, batchVars, mainVars, doneVars, sinkVars
<1>2. CASE CommitLands
  BY <1>0, <1>2 DEF CommitLands, consVars, scanVars, batchVars, mainVars, doneVars, sinkVars
<1>3. CASE Poll \/ Commit \/ ConsumerStops
  BY <1>0, <1>3 DEF Poll, Commit, ConsumerStops, consumerFrame, scanVars, batchVars,
                    mainVars, sinkVars
<1>4. CASE Enqueue
  <2>1. Len(eventQ) < ChannelCap =>
           /\ Append(eventQ, position) \in Seq(Nat)
           /\ Len(Append(eventQ, position)) <= ChannelCap
    BY <1>0, EngineBounds
  <2>2. eventQ' \in Seq(Nat) /\ Len(eventQ') <= ChannelCap
    BY <1>0, <1>4, <2>1 DEF Enqueue
  <2>3. QED
    BY <1>0, <1>4, <2>2 DEF Enqueue, consumerFrame, scanVars, batchVars, mainVars, sinkVars
<1>5. CASE DeadLetter
  <2>1. dead' \subseteq Nat /\ failures' \in Nat
    <3>1. dead' = dead \cup {position} \/ dead' = dead
      BY <1>5 DEF DeadLetter
    <3>2. failures' = failures \/ failures' = failures + 1
      BY <1>5 DEF DeadLetter, Fails
    <3>3. failures' \in Nat
      BY <1>0, <3>2
    <3>4. QED
      BY <1>0, <3>1, <3>3
  <2>2. QED
    BY <1>0, <1>5, <2>1 DEF DeadLetter, consumerFrame, scanVars, batchVars, mainVars, sinkVars
<1>6. CASE Scan
  <2>1. /\ Head(eventQ) \in Nat /\ Tail(eventQ) \in Seq(Nat)
        /\ Len(Tail(eventQ)) <= ChannelCap /\ eventQ # <<>>
    BY <1>0, <1>6, QueuedTail, EngineBounds DEF Scan
  <2>2. topic[Head(eventQ)] \in Payload
    <3>1. Head(eventQ) = eventQ[1] /\ 1 \in DOMAIN eventQ
      BY <1>0, <2>1
    <3>2. Head(eventQ) \in 1..position /\ position <= Len(topic)
      BY <3>1 DEF EngineInv, Consumed
    <3>3. QED
      BY <1>0, <3>2
  <2>3. evaluate(topic[Head(eventQ)]) \in Seq(Signature)
    BY <1>0, <2>2, EvaluateType
  <2>4. eventQ' = Tail(eventQ) /\ todo' \in Seq(Signature)
    BY <1>0, <1>6, <2>3 DEF Scan
  <2>5. scanned' \subseteq Nat /\ failures' \in Nat
    <3>1. scanned' = scanned \cup {Head(eventQ)} \/ scanned' = scanned
      BY <1>6 DEF Scan
    <3>2. failures' = failures \/ failures' = failures + 1
      BY <1>6 DEF Scan, Fails
    <3>3. failures' \in Nat
      BY <1>0, <3>2
    <3>4. QED
      BY <1>0, <2>1, <3>1, <3>3
  <2>6. UNCHANGED <<topic, committed, requested, position, alertQ, buffer, rules,
                    dead, kafka, rows, unstored, kills>>
    BY <1>6 DEF Scan, scannerFrame, brokerVars, consVars, batchVars, mainVars, sinkVars
  <2>7. QED
    BY <1>0, <2>1, <2>4, <2>5, <2>6
<1>7. CASE CheckAlert \/ SendAlert
  <2>1. todo \in Seq(Signature) /\ todo # <<>>
    BY <1>0, <1>7 DEF CheckAlert, SendAlert, EngineInv, Busy
  <2>2. Tail(todo) \in Seq(Signature)
    BY <2>1
  <2>3. todo' \in Seq(Signature)
    BY <1>7, <2>1, <2>2 DEF CheckAlert, SendAlert, NextAlert
  <2>4. Len(checks) \in Nat
    BY DEF EngineInv, DedupInv, DedupTypes
  <2>5. Len(alertQ) < ChannelCap =>
           /\ Append(alertQ, Len(checks)) \in Seq(Nat)
           /\ Len(Append(alertQ, Len(checks))) <= ChannelCap
    BY <1>0, <2>4, EngineBounds
  <2>6. alertQ' \in Seq(Nat) /\ Len(alertQ') <= ChannelCap
    BY <1>0, <1>7, <2>5 DEF CheckAlert, SendAlert
  <2>7. QED
    BY <1>0, <1>7, <2>3, <2>6 DEF CheckAlert, SendAlert, scannerFrame, brokerVars,
                                  consVars, batchVars, mainVars, sinkVars
<1>8. CASE ScannerStops \/ ScannerEnds
  BY <1>0, <1>8, EmptyQueue DEF ScannerStops, ScannerEnds, scannerFrame, brokerVars,
                                  consVars, batchVars, mainVars, sinkVars
<1>9. CASE Collect \/ FinalDrain
  <2>1. alertQ # <<>> =>
           /\ Tail(alertQ) \in Seq(Nat) /\ Len(Tail(alertQ)) <= ChannelCap
           /\ Append(buffer, Head(alertQ)) \in Seq(Nat)
    BY <1>0, QueuedTail, EngineBounds
  <2>2. alertQ' \in Seq(Nat) /\ Len(alertQ') <= ChannelCap /\ buffer' \in Seq(Nat)
    BY <1>0, <1>9, <2>1 DEF Collect, FinalDrain
  <2>3. QED
    BY <1>0, <1>9, <2>2 DEF Collect, FinalDrain, batcherFrame, brokerVars, consVars,
                            scanVars, mainVars, doneVars, sinkVars
<1>10. CASE FlushTimer \/ BatcherStops
  BY <1>0, <1>10 DEF FlushTimer, BatcherStops, batcherFrame, brokerVars, consVars,
                     scanVars, mainVars, doneVars, sinkVars
<1>11. CASE Publish \/ Insert
  <2>1. Buffered \subseteq Nat
    BY <1>0 DEF Buffered
  <2>2. UNCHANGED <<topic, committed, requested, position, eventQ, todo, rules,
                    scanned, dead, kills>>
    BY <1>11 DEF Publish, Insert, batcherFrame, brokerVars, consVars, scanVars,
                 mainVars, doneVars
  <2>3. failures' \in Nat /\ kafka' \subseteq Nat /\ rows' \subseteq Nat /\ unstored' \subseteq Nat
    <3>1. failures' = failures \/ failures' = failures + 1
      BY <1>11 DEF Publish, Insert, Fails
    <3>2. kafka' \subseteq kafka \cup Buffered /\ rows' \subseteq rows \cup Buffered
          /\ unstored' \subseteq unstored \cup Buffered
      BY <1>11 DEF Publish, Insert
    <3>3. failures' \in Nat
      BY <1>0, <3>1
    <3>4. QED
      BY <1>0, <2>1, <3>2, <3>3
  <2>4. (alertQ' = alertQ \/ alertQ' = <<>>) /\ (buffer' = buffer \/ buffer' = <<>>)
    BY <1>11 DEF Publish, Insert
  <2>5. QED
    BY <1>0, <2>2, <2>3, <2>4, EmptyQueue
<1>12. CASE Restart \/ Kill
  <2>1. /\ eventQ' = <<>> /\ alertQ' = <<>> /\ todo' = <<>> /\ buffer' = <<>>
        /\ position' = committed /\ requested' = 0 /\ rules' \in Registries
        /\ UNCHANGED <<topic, committed, scanned, dead, kafka, rows, unstored, failures>>
    BY <1>12 DEF Restart, Kill, Started, doneVars, sinkVars
  <2>2. kills' \in Nat
    BY <1>0, <1>12 DEF Restart, Kill
  <2>3. QED
    BY <1>0, <2>1, <2>2, EmptyQueue
<1>13. CASE CtrlC \/ Elapse
  BY <1>0, <1>13 DEF CtrlC, Elapse, brokerVars, consVars, scanVars, batchVars, mainVars,
                     doneVars, sinkVars
<1>14. ASSUME NEW d \in Directory, Reload(d)
       PROVE  EngineTypes'
  <2>1. rules' \in Registries
    BY <1>0, <1>14 DEF Reload, Registries
  <2>2. QED
    BY <1>0, <1>14, <2>1 DEF Reload, brokerVars, consVars, scanVars, batchVars,
                             doneVars, sinkVars
<1>15. CASE UNCHANGED vars
  BY <1>0, <1>15 DEF vars, brokerVars, consVars, scanVars, batchVars, mainVars,
                     doneVars, sinkVars
<1>16. QED
  BY <1>1, <1>2, <1>3, <1>4, <1>5, <1>6, <1>7, <1>8, <1>9, <1>10, <1>11, <1>12,
     <1>13, <1>14, <1>15 DEF Next, ConsumerNext, ScannerNext, BatcherNext

\* Every step keeps the group, the consumer and the channel in order.
LEMMA ConsumedStep ==
    ASSUME EngineInv, [Next]_vars
    PROVE  Consumed'
<1>0. Consumed /\ EngineTypes /\ TaskState
  BY DEF EngineInv
<1> USE DEF Consumed
<1>1. ASSUME NEW p \in Payload, Produce(p)
      PROVE  Consumed'
  BY <1>0, <1>1 DEF Produce, consVars, EngineTypes
<1>2. CASE CommitLands
  BY <1>0, <1>2 DEF CommitLands, consVars, EngineTypes
<1>3. CASE Poll
  BY <1>0, <1>3 DEF Poll, consumerFrame, EngineTypes
<1>4. CASE Enqueue
  <2>1. UNCHANGED <<topic, committed, requested, position>> /\ cons' \in {"commit", "ended"}
        /\ position \in 1..position
    BY <1>0, <1>4 DEF Enqueue, consumerFrame, EngineTypes
  <2>2. \A i \in DOMAIN eventQ' : eventQ'[i] \in 1..position
    <3>1. CASE eventQ' = Append(eventQ, position)
      <4>1. eventQ \in Seq(Nat) /\ position \in Nat
        BY <1>0 DEF EngineTypes
      <4>2. /\ DOMAIN eventQ = 1..Len(eventQ) /\ Len(eventQ) \in Nat
            /\ DOMAIN eventQ' = 1..Len(eventQ) + 1
            /\ \A i \in 1..Len(eventQ) : eventQ'[i] = eventQ[i]
            /\ eventQ'[Len(eventQ) + 1] = position
        BY <3>1, <4>1
      <4>3. QED
        BY <1>0, <2>1, <4>2
    <3>2. CASE eventQ' = eventQ
      BY <1>0, <3>2
    <3>3. QED
      BY <1>4, <3>1, <3>2 DEF Enqueue
  <2>3. QED
    BY <1>0, <2>1, <2>2
<1>5. CASE DeadLetter \/ Commit \/ ConsumerStops
  BY <1>0, <1>5 DEF DeadLetter, Commit, ConsumerStops, consumerFrame, EngineTypes
<1>6. CASE Scan
  <2>1. eventQ' = Tail(eventQ) /\ eventQ # <<>> /\ eventQ \in Seq(Nat)
    BY <1>0, <1>6 DEF Scan, EngineTypes
  <2>2. \A i \in DOMAIN eventQ' : i + 1 \in DOMAIN eventQ /\ eventQ'[i] = eventQ[i + 1]
    BY <2>1
  <2>3. QED
    BY <1>0, <1>6, <2>2 DEF Scan, scannerFrame, brokerVars, consVars
<1>7. CASE CheckAlert \/ SendAlert \/ ScannerStops
  BY <1>0, <1>7 DEF CheckAlert, SendAlert, ScannerStops, scannerFrame, brokerVars, consVars
<1>8. CASE ScannerEnds
  BY <1>0, <1>8 DEF ScannerEnds, scannerFrame, brokerVars, consVars
<1>9. CASE BatcherNext
  BY <1>0, <1>9 DEF BatcherNext, Collect, FlushTimer, BatcherStops, FinalDrain, Publish,
                    Insert, batcherFrame, brokerVars, consVars
<1>10. CASE Restart \/ Kill
  BY <1>0, <1>10 DEF Restart, Kill, Started, EngineTypes
<1>11. CASE CtrlC \/ Elapse \/ \E d \in Directory : Reload(d)
  BY <1>0, <1>11 DEF CtrlC, Elapse, Reload, brokerVars, consVars
<1>12. CASE UNCHANGED vars
  BY <1>0, <1>12 DEF vars, brokerVars, consVars
<1>13. QED
  BY <1>1, <1>2, <1>3, <1>4, <1>5, <1>6, <1>7, <1>8, <1>9, <1>10, <1>11, <1>12
     DEF Next, ConsumerNext, ScannerNext

\* The exposed records are finitely many.
LEMMA ExposedFinite ==
    ASSUME EngineTypes
    PROVE  IsFiniteSet(Exposed) /\ Cardinality(Exposed) \in Nat
<1>1. IsFiniteSet(1..position)
  BY FS_Interval DEF EngineTypes
<1>2. Exposed \in SUBSET (1..position)
  BY DEF Exposed
<1>3. QED
  BY <1>1, <1>2, FS_Subset, FS_CardinalityType

\* The budget holds as long as every record that becomes exposed is paid for.
LEMMA Paid ==
    ASSUME EngineInv, EngineTypes', NEW X, IsFiniteSet(X), NEW d \in Nat,
           Cardinality(X) <= d, Exposed' \subseteq Exposed \cup X,
           Charge \in Nat, Charge' \in Nat, Charge + d <= Charge'
    PROVE  Budget'
<1>1. /\ IsFiniteSet(Exposed) /\ Cardinality(Exposed) \in Nat
      /\ Cardinality(Exposed) <= Charge
  BY ExposedFinite DEF EngineInv, Budget
<1>2. Cardinality(X) \in Nat
  BY FS_CardinalityType
<1>3. /\ IsFiniteSet(Exposed \cup X)
      /\ Cardinality(Exposed \cup X) =
            Cardinality(Exposed) + Cardinality(X) - Cardinality(Exposed \cap X)
  BY <1>1, FS_Union
<1>4. Cardinality(Exposed \cap X) \in Nat
  BY <1>1, FS_Intersection, FS_CardinalityType
<1>5. IsFiniteSet(Exposed') /\ Cardinality(Exposed') \in Nat
  BY <1>3, FS_Subset, FS_CardinalityType
<1>6. Cardinality(Exposed') <= Cardinality(Exposed \cup X)
  BY <1>3, FS_Subset
<1>7. Cardinality(Exposed') <= Charge'
  BY <1>1, <1>2, <1>3, <1>4, <1>5, <1>6
<1>8. QED
  BY <1>7 DEF Budget

LEMMA PaidNothing ==
    ASSUME EngineInv, EngineTypes', Exposed' \subseteq Exposed, Charge \in Nat,
           Charge' \in Nat, Charge <= Charge'
    PROVE  Budget'
  BY Paid, FS_EmptySet

LEMMA PaidOne ==
    ASSUME EngineInv, EngineTypes', NEW x, Exposed' \subseteq Exposed \cup {x},
           Charge \in Nat, Charge' \in Nat, Charge + 1 <= Charge'
    PROVE  Budget'
<1>1. IsFiniteSet({x}) /\ Cardinality({x}) <= 1
  BY FS_Singleton
<1>2. QED
  BY <1>1, Paid

\* What one more stop is worth.
LEMMA ChargeType ==
    ASSUME NEW r \in Nat, NEW f \in Nat
    PROVE  /\ ChannelCap \in Nat /\ ChannelCap * r + f \in Nat
           /\ ChannelCap * (r + 0) + f = ChannelCap * r + f
           /\ ChannelCap * (r + 1) + f = ChannelCap * r + f + ChannelCap
           /\ ChannelCap * (r + 1) + f \in Nat
<1>1. ChannelCap \in Nat
  BY EngineBounds
<1>2. ChannelCap * r \in Nat
  BY <1>1
<1>3. ChannelCap * (r + 1) = ChannelCap * r + ChannelCap
  BY <1>1
<1>4. QED
  BY <1>1, <1>2, <1>3

LEMMA ChargeIs ==
    ASSUME EngineInv
    PROVE  /\ run \in Nat /\ failures \in Nat
           /\ Charge \in Nat
           /\ scan = "ended" => Charge = ChannelCap * run + failures + ChannelCap
           /\ scan # "ended" => Charge = ChannelCap * run + failures
<1>1. run \in Nat /\ failures \in Nat
  BY DEF EngineInv, DedupInv, DedupTypes, EngineTypes
<1>2. CASE scan = "ended"
  BY <1>1, <1>2, ChargeType DEF Charge
<1>3. CASE scan # "ended"
  BY <1>1, <1>3, ChargeType DEF Charge
<1>4. QED
  BY <1>1, <1>2, <1>3

\* Every step keeps the budget.
LEMMA BudgetStep ==
    ASSUME EngineInv, [Next]_vars, EngineTypes'
    PROVE  Budget'
<1>0. /\ Consumed /\ EngineTypes /\ TaskState /\ Ending
      /\ Charge \in Nat /\ run \in Nat /\ failures \in Nat
  BY ChargeIs DEF EngineInv
<1>a. ASSUME UNCHANGED <<run, scan, failures>>
      PROVE  Charge' = Charge
  BY <1>a DEF Charge
<1>b. ASSUME UNCHANGED <<run, scan>>, failures' = failures + 1
      PROVE  Charge' \in Nat /\ Charge + 1 <= Charge'
  <2>1. ChannelCap * (run + (IF scan = "ended" THEN 1 ELSE 0)) \in Nat
    BY <1>0, EngineBounds
  <2>2. Charge' = Charge + 1
    BY <1>0, <1>b, <2>1 DEF Charge
  <2>3. QED
    BY <1>0, <2>2
<1>1. ASSUME NEW p \in Payload, Produce(p)
      PROVE  Budget'
  <2>1. UNCHANGED <<run, scan, failures, position, eventQ, cons, scanned, dead, committed, requested>>
        /\ topic' = Append(topic, p)
    BY <1>1 DEF Produce, dedupVars, consVars, scanVars, doneVars
  <2>2. \A o \in 1..position : topic'[o] = topic[o]
    BY <1>0, <2>1 DEF Consumed, EngineTypes
  <2>3. Exposed' \subseteq Exposed
    BY <2>1, <2>2 DEF Exposed, Queued
  <2>4. QED
    BY <1>0, <1>a, <2>1, <2>3, PaidNothing
<1>2. CASE CommitLands
  <2>1. UNCHANGED <<run, scan, failures, position, topic, eventQ, cons, scanned, dead>>
        /\ committed' = requested /\ requested' = 0 /\ committed <= requested
    BY <1>0, <1>2 DEF CommitLands, dedupVars, consVars, scanVars, doneVars, Consumed
  <2>2. \A o \in 1..position : o <= committed' \/ o <= requested' => o <= committed \/ o <= requested
    BY <1>0, <2>1 DEF EngineTypes
  <2>3. Exposed' \subseteq Exposed
    BY <2>1, <2>2 DEF Exposed, Queued
  <2>4. QED
    BY <1>0, <1>a, <2>1, <2>3, PaidNothing
<1>3. CASE Poll
  <2>1. /\ UNCHANGED <<run, scan, failures, topic, eventQ, scanned, dead>>
        /\ position' = position + 1 /\ cons = "poll"
        /\ topic[position + 1] = Empty \/ cons' \in {"enqueue", "dlq"}
    BY <1>3 DEF Poll, consumerFrame, dedupVars, scanVars, doneVars
  <2>2. position \in Nat
    BY <1>0 DEF EngineTypes
  <2>3. Exposed' \subseteq Exposed
    BY <2>1, <2>2 DEF Exposed, Queued
  <2>4. QED
    BY <1>0, <1>a, <2>1, <2>3, PaidNothing
<1>4. CASE Enqueue
  <2>1. /\ UNCHANGED <<run, scan, failures, position, topic, scanned, dead, committed, requested>>
        /\ cons = "enqueue"
        /\ \/ eventQ' = Append(eventQ, position)
           \/ eventQ' = eventQ /\ cons' = "ended"
    BY <1>4 DEF Enqueue, consumerFrame, dedupVars, scanVars
  <2>2. position \in Nat /\ eventQ \in Seq(Nat) /\ committed < position /\ requested < position
        /\ committed \in Nat /\ requested \in Nat
    BY <1>0, <2>1 DEF EngineTypes, Consumed
  <2>3. CASE eventQ' = Append(eventQ, position)
    <3>1. Queued(eventQ)' = Queued(eventQ) \cup {position}
      <4>1. Queued(eventQ') = Queued(eventQ) \cup {position}
        BY <2>2, <2>3, QueuedAppend
      <4>2. QED
        BY <4>1 DEF Queued
    <3>2. Exposed' \subseteq Exposed
      BY <2>1, <3>1 DEF Exposed
    <3>3. QED
      BY <1>0, <1>a, <2>1, <3>2, PaidNothing
  <2>4. CASE eventQ' = eventQ /\ cons' = "ended"
    <3>1. Exposed' \subseteq Exposed
      BY <2>1, <2>2, <2>4 DEF Exposed, Queued
    <3>2. QED
      BY <1>0, <1>a, <2>1, <3>1, PaidNothing
  <2>5. QED
    BY <2>1, <2>3, <2>4
<1>5. CASE DeadLetter
  <2>1. /\ UNCHANGED <<run, scan, position, topic, scanned, eventQ, committed, requested>>
        /\ cons = "dlq" /\ cons' = "commit"
        /\ \/ dead' = dead \cup {position} /\ failures' = failures
           \/ dead' = dead /\ failures' = failures + 1
    BY <1>5 DEF DeadLetter, Fails, consumerFrame, dedupVars, scanVars
  <2>2. CASE dead' = dead \cup {position} /\ failures' = failures
    <3>1. Exposed' \subseteq Exposed
      BY <2>1, <2>2 DEF Exposed, Queued
    <3>2. QED
      BY <1>0, <1>a, <2>1, <2>2, <3>1, PaidNothing
  <2>3. CASE dead' = dead /\ failures' = failures + 1
    <3>1. Exposed' \subseteq Exposed \cup {position}
      BY <2>1, <2>3 DEF Exposed, Queued
    <3>2. QED
      BY <1>0, <1>b, <2>1, <2>3, <3>1, PaidOne
  <2>4. QED
    BY <2>1, <2>2, <2>3
<1>6. CASE Commit \/ ConsumerStops
  <2>1. /\ UNCHANGED <<run, scan, failures, position, topic, scanned, dead, eventQ>>
        /\ cons \in {"commit", "poll"}
    BY <1>6 DEF Commit, ConsumerStops, consumerFrame, dedupVars, scanVars
  <2>2. Exposed' \subseteq Exposed
    BY <2>1 DEF Exposed, Queued
  <2>3. QED
    BY <1>0, <1>a, <2>1, <2>2, PaidNothing
<1>7. CASE Scan
  <2>1. /\ UNCHANGED <<run, position, topic, dead, cons, committed, requested>>
        /\ eventQ # <<>> /\ eventQ' = Tail(eventQ)
        /\ scan # "ended" /\ scan' # "ended"
        /\ \/ scanned' = scanned \cup {Head(eventQ)} /\ failures' = failures
           \/ scanned' = scanned /\ failures' = failures + 1
    BY <1>7 DEF Scan, Fails, scannerFrame, dedupVars, brokerVars, consVars
  <2>2. Queued(eventQ) = {Head(eventQ)} \cup Queued(eventQ)'
    <3>1. Queued(eventQ) = {Head(eventQ)} \cup Queued(eventQ')
      BY <1>0, <2>1, QueuedTail DEF EngineTypes
    <3>2. QED
      BY <3>1 DEF Queued
  <2>3. Charge = ChannelCap * run + failures /\ Charge' = ChannelCap * run + failures'
        /\ ChannelCap * run \in Nat
    BY <1>0, <2>1, ChargeType, EngineBounds DEF Charge
  <2>4. CASE scanned' = scanned \cup {Head(eventQ)} /\ failures' = failures
    <3>1. Exposed' \subseteq Exposed
      BY <2>1, <2>2, <2>4 DEF Exposed
    <3>2. QED
      BY <1>0, <2>3, <2>4, <3>1, PaidNothing
  <2>5. CASE scanned' = scanned /\ failures' = failures + 1
    <3>1. Exposed' \subseteq Exposed \cup {Head(eventQ)}
      BY <2>1, <2>2, <2>5 DEF Exposed
    <3>2. Charge' \in Nat /\ Charge + 1 <= Charge'
      BY <1>0, <2>3, <2>5
    <3>3. QED
      BY <1>0, <3>1, <3>2, PaidOne
  <2>6. QED
    BY <2>1, <2>4, <2>5
<1>8. CASE CheckAlert \/ SendAlert \/ ScannerStops
  <2>1. /\ UNCHANGED <<run, failures, position, topic, dead, scanned, eventQ, cons,
                       committed, requested>>
        /\ scan # "ended" /\ scan' # "ended"
    BY <1>8 DEF CheckAlert, SendAlert, ScannerStops, CheckAndRecord, NextAlert, Waiting,
                scannerFrame, dedupVars, brokerVars, consVars
  <2>2. Charge' = Charge
    BY <2>1 DEF Charge
  <2>3. Exposed' \subseteq Exposed
    BY <2>1 DEF Exposed, Queued
  <2>4. QED
    BY <1>0, <2>2, <2>3, PaidNothing
<1>c. IsFiniteSet(Queued(eventQ)) /\ Cardinality(Queued(eventQ)) <= ChannelCap /\ ChannelCap \in Nat
  <2>1. /\ Len(eventQ) \in Nat /\ Len(eventQ) <= ChannelCap /\ ChannelCap \in Nat
        /\ eventQ \in Seq(Nat)
    BY <1>0, EngineBounds DEF EngineTypes
  <2>2. QED
    BY <2>1, QueuedSize
<1>9. CASE ScannerEnds
  <2>1. /\ UNCHANGED <<run, failures, position, topic, dead, scanned, cons, committed, requested>>
        /\ scan = "closing" /\ scan' = "ended" /\ eventQ' = <<>>
    BY <1>9 DEF ScannerEnds, scannerFrame, dedupVars, brokerVars, consVars
  <2>2. Charge' \in Nat /\ Charge + ChannelCap <= Charge'
    <3>1. Charge = ChannelCap * run + failures
      BY <2>1, ChargeIs
    <3>2. Charge' = ChannelCap * (run + 1) + failures
      BY <2>1 DEF Charge
    <3>3. QED
      BY <1>0, <1>c, <3>1, <3>2, ChargeType
  <2>3. Exposed' \subseteq Exposed \cup Queued(eventQ)
    BY <2>1 DEF Exposed
  <2>4. QED
    BY <1>0, <1>c, <2>2, <2>3, Paid
<1>10. CASE Restart \/ Kill
  <2>1. /\ UNCHANGED <<failures, topic, dead, scanned>>
        /\ run' = run + 1 /\ position' = committed /\ scan' = "recv" /\ cons' = "poll"
    BY <1>10 DEF Restart, Kill, Started, DedupRestart, doneVars
  <2>2. Charge' = ChannelCap * (run + 1) + failures
    BY <1>0, <2>1, ChargeType DEF Charge
  <2>3. Exposed' \subseteq Exposed \cup Queued(eventQ)
    <3>1. \A o \in 1..committed : /\ o \in 1..position
                                  /\ o = position => cons \notin {"enqueue", "dlq"}
      BY <1>0 DEF Consumed, EngineTypes
    <3>2. \A o \in 1..committed : o <= committed
      BY <1>0 DEF EngineTypes
    <3>3. ASSUME NEW o \in Exposed'
          PROVE  o \in 1..committed /\ topic[o] # Empty /\ o \notin scanned \cup dead
      BY <2>1 DEF Exposed
    <3>4. QED
      BY <3>1, <3>2, <3>3 DEF Exposed
  <2>4. CASE scan # "ended"
    <3>1. Charge' \in Nat /\ Charge + ChannelCap <= Charge'
      BY <1>0, <1>c, <2>2, <2>4, ChargeIs, ChargeType
    <3>2. QED
      BY <1>0, <1>c, <2>3, <3>1, Paid
  <2>5. CASE scan = "ended"
    <3>1. Charge' = Charge
      BY <1>0, <2>2, <2>5, ChargeIs, ChargeType
    <3>2. Queued(eventQ) = {}
      BY <1>0, <2>5, EmptyQueue DEF Ending
    <3>3. Exposed' \subseteq Exposed
      BY <2>3, <3>2
    <3>4. QED
      BY <1>0, <3>1, <3>3, PaidNothing
  <2>6. QED
    BY <2>4, <2>5
<1>11. CASE BatcherNext
  <2>1. UNCHANGED <<run, scan, position, topic, dead, scanned, eventQ, cons, committed, requested>>
    BY <1>11 DEF BatcherNext, Collect, FlushTimer, BatcherStops, FinalDrain, Publish,
                 Insert, batcherFrame, dedupVars, brokerVars, consVars, scanVars, doneVars
  <2>2. failures' = failures \/ failures' = failures + 1
    BY <1>11 DEF BatcherNext, Collect, FlushTimer, BatcherStops, FinalDrain, Publish,
                 Insert, Fails
  <2>3. Charge' \in Nat /\ Charge <= Charge'
    BY <1>0, <1>a, <1>b, <2>1, <2>2
  <2>4. Exposed' \subseteq Exposed
    BY <2>1 DEF Exposed, Queued
  <2>5. QED
    BY <1>0, <2>3, <2>4, PaidNothing
<1>12. CASE CtrlC \/ Elapse \/ (\E d \in Directory : Reload(d)) \/ UNCHANGED vars
  <2>1. UNCHANGED <<run, scan, failures, position, topic, dead, scanned, eventQ, cons,
                    committed, requested>>
    BY <1>12 DEF CtrlC, Elapse, Tick, Reload, vars, dedupVars, brokerVars, consVars,
                 scanVars, doneVars
  <2>2. Exposed' \subseteq Exposed
    BY <2>1 DEF Exposed, Queued
  <2>3. QED
    BY <1>0, <1>a, <2>1, <2>2, PaidNothing
<1>13. QED
  BY <1>1, <1>2, <1>3, <1>4, <1>5, <1>6, <1>7, <1>8, <1>9, <1>10, <1>11, <1>12
     DEF Next, ConsumerNext, ScannerNext

\* While the process runs, every step keeps the alerts that passed.
LEMMA KeepsStep ==
    ASSUME EngineInv, [Next]_vars, TaskState'
    PROVE  RunningKeepsAlerts'
<1> SUFFICES ASSUME Stops' = 0
             PROVE  Gone' = {}
  BY DEF RunningKeepsAlerts
<1>0. /\ TaskState /\ Ending /\ EngineTypes /\ run \in Nat
      /\ checks \in Seq(Check) /\ Len(checks) \in Nat /\ DOMAIN checks = 1..Len(checks)
  BY DEF EngineInv, DedupInv, DedupTypes
<1>1. ASSUME UNCHANGED <<run, cancelled>>
      PROVE  /\ ~cancelled /\ batch \notin {"drain", "ended"} /\ ~flushing
             /\ Emitted \subseteq rows \cup unstored \cup InFlight
  <2>1. Stops = 0
    BY <1>1 DEF Stops
  <2>2. ~cancelled
    BY <1>0, <2>1 DEF Stops
  <2>3. Gone = {}
    BY <2>1 DEF EngineInv, RunningKeepsAlerts
  <2>4. QED
    BY <1>0, <2>2, <2>3 DEF Ending, Gone
<1>a. SUFFICES Emitted' \subseteq rows' \cup unstored' \cup InFlight'
  BY DEF Gone
<1>b. Buffered = Queued(buffer) /\ Buffered' = Queued(buffer')
  BY DEF Buffered, Queued
<1>c. ASSUME UNCHANGED checks
      PROVE  Emitted' = Emitted
  BY <1>c DEF Emitted
<1>d. /\ InFlight = Queued(alertQ) \cup Buffered \cup (IF scan = "send" THEN {Len(checks)} ELSE {})
      /\ InFlight' = Queued(alertQ') \cup Buffered' \cup (IF scan' = "send" THEN {Len(checks')} ELSE {})
  BY DEF InFlight, Queued
<1>2. ASSUME UNCHANGED <<run, cancelled, checks, alertQ, buffer, rows, unstored>>,
             scan = "send" => scan' = "send"
      PROVE  Emitted' \subseteq rows' \cup unstored' \cup InFlight'
  BY <1>1, <1>2, <1>b, <1>c, <1>d
<1>3. CASE Scan \/ ScannerStops \/ ScannerEnds \/ ConsumerNext
  BY <1>2, <1>3 DEF Scan, ScannerStops, ScannerEnds, ConsumerNext, Poll, Enqueue,
        DeadLetter, Commit, ConsumerStops, consumerFrame, scannerFrame, dedupVars,
        scanVars, batchVars, mainVars, sinkVars
<1>4. CASE CheckAlert
  <2>1. /\ UNCHANGED <<run, cancelled, alertQ, buffer, rows, unstored>> /\ scan = "check"
        /\ CheckAndRecord(Head(todo))
        /\ Suppressed(Head(todo)) \/ scan' = "send"
    BY <1>4 DEF CheckAlert, CheckAndRecord, scannerFrame, batchVars, mainVars, sinkVars
  <2>2. Head(todo) \in Signature
    <3>1. todo \in Seq(Signature) /\ todo # <<>>
      BY <1>0, <2>1 DEF EngineInv, EngineTypes, Busy
    <3>2. QED
      BY <3>1
  <2> DEFINE n == Len(checks)
  <2>3. /\ DOMAIN checks' = 1..n + 1
        /\ \A i \in 1..n : checks'[i] = checks[i]
        /\ checks'[n + 1].passed <=> ~Suppressed(Head(todo))
    BY <2>1, <2>2, CheckHistory DEF EngineInv, DedupInv
  <2>4. Len(checks') = n + 1
    <3>1. checks' \in Seq(Check)
      BY <2>1, <2>2, CheckTypes DEF EngineInv, DedupInv, DedupTypes
    <3>2. QED
      BY <1>0, <2>3, <3>1
  <2>5. ASSUME NEW i \in Emitted'
        PROVE  i \in Emitted \/ (i = n + 1 /\ scan' = "send")
    <3>1. i \in 1..n + 1 /\ checks'[i].passed
      BY <2>3 DEF Emitted
    <3>2. CASE i = n + 1
      BY <2>1, <2>3, <3>1, <3>2
    <3>3. CASE i \in 1..n
      BY <1>0, <2>3, <3>1, <3>3 DEF Emitted
    <3>4. QED
      BY <1>0, <3>1, <3>2, <3>3
  <2>6. QED
    BY <1>1, <1>b, <1>d, <2>1, <2>4, <2>5
<1>5. CASE SendAlert
  <2>1. /\ UNCHANGED <<run, cancelled, checks, buffer, rows, unstored>> /\ scan = "send"
        /\ batch = "ended" \/ alertQ' = Append(alertQ, Len(checks))
    BY <1>5 DEF SendAlert, scannerFrame, dedupVars, batchVars, mainVars, sinkVars
  <2>2. Queued(alertQ') = Queued(alertQ) \cup {Len(checks)}
    <3>1. alertQ' = Append(alertQ, Len(checks)) /\ alertQ \in Seq(Nat)
      BY <1>0, <1>1, <2>1 DEF EngineTypes
    <3>2. QED
      BY <1>0, <3>1, QueuedAppend
  <2>3. QED
    BY <1>1, <1>b, <1>c, <1>d, <2>1, <2>2
<1>6. CASE Collect \/ FinalDrain
  <2>1. /\ UNCHANGED <<run, cancelled, checks, scan, rows, unstored>>
        /\ \/ /\ alertQ # <<>> /\ alertQ' = Tail(alertQ)
              /\ buffer' = Append(buffer, Head(alertQ))
           \/ UNCHANGED <<alertQ, buffer>>
    BY <1>6 DEF Collect, FinalDrain, batcherFrame, dedupVars, scanVars, mainVars, sinkVars
  <2>2. CASE UNCHANGED <<alertQ, buffer>>
    BY <1>2, <2>1, <2>2
  <2>3. CASE alertQ # <<>> /\ alertQ' = Tail(alertQ) /\ buffer' = Append(buffer, Head(alertQ))
    <3>1. Queued(alertQ) = {Head(alertQ)} \cup Queued(alertQ') /\ Head(alertQ) \in Nat
      BY <1>0, <2>3, QueuedTail DEF EngineTypes
    <3>2. Queued(buffer') = Queued(buffer) \cup {Head(alertQ)}
      BY <1>0, <2>3, <3>1, QueuedAppend DEF EngineTypes
    <3>3. QED
      BY <1>1, <1>b, <1>c, <1>d, <2>1, <3>1, <3>2
  <2>4. QED
    BY <2>1, <2>2, <2>3
<1>7. CASE FlushTimer \/ BatcherStops \/ Publish
  BY <1>2, <1>7 DEF FlushTimer, BatcherStops, Publish, batcherFrame, dedupVars,
        scanVars, mainVars, sinkVars
<1>8. CASE Insert
  <2>1. /\ UNCHANGED <<run, cancelled, checks, scan>>
        /\ flushing \/ UNCHANGED alertQ
        /\ rows \cup unstored \cup Buffered \subseteq rows' \cup unstored'
    BY <1>8 DEF Insert, batcherFrame, dedupVars, scanVars, mainVars
  <2>2. QED
    BY <1>1, <1>b, <1>c, <1>d, <2>1
<1>9. CASE Restart \/ Kill \/ CtrlC
  <2>1. run' = run + 1 \/ cancelled'
    BY <1>9 DEF Restart, Kill, DedupRestart, CtrlC
  <2>2. run' \in Nat
    BY <1>0, <1>9 DEF Restart, Kill, DedupRestart, CtrlC, dedupVars
  <2>3. Stops' # 0
    <3>1. CASE cancelled'
      <4>1. Stops' = run' + 1
        BY <3>1 DEF Stops
      <4>2. \A n \in Nat : n + 1 # 0
        OBVIOUS
      <4>3. QED
        BY <2>2, <4>1, <4>2, Zenon
    <3>2. CASE ~cancelled' /\ run' = run + 1
      <4>1. Stops' = run' + 0
        BY <3>2 DEF Stops
      <4>2. QED
        BY <1>0, <3>2, <4>1
    <3>3. QED
      BY <2>1, <3>1, <3>2
  <2>4. QED
    BY <2>3
<1>10. CASE CommitLands \/ Elapse \/ (\E p \in Payload : Produce(p))
            \/ (\E d \in Directory : Reload(d)) \/ UNCHANGED vars
  BY <1>2, <1>10 DEF CommitLands, Elapse, Tick, Produce, Reload, vars, dedupVars, scanVars,
        batchVars, mainVars, sinkVars
<1>11. QED
  BY <1>3, <1>4, <1>5, <1>6, <1>7, <1>8, <1>9, <1>10 DEF Next, ScannerNext, BatcherNext

LEMMA EngineStart == Init => EngineInv
<1> SUFFICES ASSUME Init
             PROVE  EngineInv
  OBVIOUS
<1>1. DedupInv
  BY DedupStart DEF Init
<1>2. TaskState /\ Busy /\ Ending /\ EngineTypes
  <2>1. TaskState
    BY DEF Init, TaskState
  <2>2. Busy /\ Ending
    BY DEF Init, Busy, Ending
  <2>3. <<>> \in Seq(Payload)
    OBVIOUS
  <2>4. EngineTypes
    BY <2>3, EmptyQueue DEF Init, EngineTypes
  <2>5. QED
    BY <2>1, <2>2, <2>4
<1>3. Consumed
  BY EmptyQueue DEF Init, Consumed
<1>4. Budget
  <2>1. Exposed = {}
    BY DEF Init, Exposed
  <2>2. run = 0 /\ scan = "recv" /\ failures = 0
    BY DEF Init, DedupInit
  <2>3. Charge = 0
    BY <2>2, EngineBounds DEF Charge
  <2>4. QED
    BY <2>1, <2>3, FS_EmptySet DEF Budget
<1>5. RunningKeepsAlerts
  <2>1. Emitted = {}
    BY DEF Init, DedupInit, Emitted
  <2>2. QED
    BY <2>1 DEF RunningKeepsAlerts, Gone
<1>6. QED
  BY <1>1, <1>2, <1>3, <1>4, <1>5 DEF EngineInv

LEMMA EngineStep ==
    ASSUME EngineInv, [Next]_vars
    PROVE  EngineInv'
<1>1. DedupInv'
  BY EngineDedupStep, DedupStep DEF EngineInv
<1>2. EngineTypes' /\ TaskState' /\ Busy' /\ Ending' /\ Consumed'
  BY TypesStep, TaskStep, ConsumedStep
<1>3. QED
  BY <1>1, <1>2, BudgetStep, KeepsStep DEF EngineInv

\* The engine keeps its invariant.
THEOREM EngineInvariance == Spec => []EngineInv
  BY EngineStart, EngineStep, PTL DEF Spec

\* The engine uses the deduplicator as AlertDedup describes it: every
\* behaviour of the three tasks is a behaviour of the deduplicator, so each
\* of its theorems holds inside the engine.
THEOREM EngineImplementsDedup == Spec => DedupSpec
<1>1. Init => DedupInit
  BY DEF Init
<1>2. EngineInv /\ [Next]_vars => [DedupNext]_dedupVars
  BY EngineDedupStep
<1>3. QED
  BY <1>1, <1>2, EngineInvariance, PTL DEF Spec, DedupSpec

\* The types of the engine's state, with both channels within their capacity
\* and every shard of the cache within its own.
THEOREM EngineTypeCorrect == Spec => []TypeOK
<1>1. EngineInv => TypeOK
  BY DEF EngineInv, DedupInv, DedupTypes, Fits, DedupTypeOK, TypeOK
<1>2. QED
  BY <1>1, EngineInvariance, PTL

\* A record the group has committed is evaluated, a dead letter or in the
\* channel, but for a channel's content per end of the process and one record
\* per failure.
THEOREM StopsCostAChannel == Spec => []SkippedOnlyByStop
<1>1. ASSUME EngineInv
      PROVE  SkippedOnlyByStop
  <2>0. EngineTypes /\ Consumed /\ Ending /\ Budget
    BY <1>1 DEF EngineInv
  <2>1. Skipped \subseteq Exposed
    <3>1. \A o \in 1..committed : /\ o \in 1..position /\ o <= committed
                                  /\ o = position => cons \notin {"enqueue", "dlq"}
      BY <2>0 DEF Consumed, EngineTypes
    <3>2. QED
      BY <3>1 DEF Skipped, Exposed
  <2>2. IsFiniteSet(Exposed) /\ Cardinality(Exposed) \in Nat
    BY <2>0, ExposedFinite
  <2>3. Cardinality(Skipped) \in Nat /\ Cardinality(Skipped) <= Cardinality(Exposed)
    BY <2>1, <2>2, FS_Subset, FS_CardinalityType
  <2>4. Cardinality(Exposed) <= Charge
    BY <2>0 DEF Budget
  <2>5. /\ run \in Nat /\ failures \in Nat
        /\ Charge \in Nat
        /\ scan = "ended" => Charge = ChannelCap * run + failures + ChannelCap
        /\ scan # "ended" => Charge = ChannelCap * run + failures
    BY <1>1, ChargeIs
  <2>6. Charge <= ChannelCap * Stops + failures /\ ChannelCap * Stops + failures \in Nat
    <3>0. ChannelCap \in Nat /\ ChannelCap * run + failures \in Nat
      BY <2>5, ChargeType
    <3>1. CASE cancelled
      <4>1. Stops = run + 1
        BY <3>1 DEF Stops
      <4>2. ChannelCap * Stops + failures = ChannelCap * run + failures + ChannelCap
        BY <2>5, <4>1, ChargeType
      <4>3. QED
        BY <2>5, <3>0, <4>2
    <3>2. CASE ~cancelled
      <4>1. Stops = run + 0 /\ scan # "ended"
        BY <2>0, <3>2 DEF Stops, Ending
      <4>2. ChannelCap * Stops + failures = ChannelCap * run + failures
        BY <2>5, <4>1, ChargeType
      <4>3. QED
        BY <2>5, <3>0, <4>1, <4>2
    <3>3. QED
      BY <3>1, <3>2
  <2>7. Cardinality(Skipped) <= ChannelCap * Stops + failures
    BY <2>2, <2>3, <2>4, <2>5, <2>6
  <2>8. QED
    BY <2>7 DEF SkippedOnlyByStop
<1>2. QED
  BY <1>1, EngineInvariance, PTL

\* As long as the process runs no alert that passed the deduplicator is lost
\* between the scanner, the channel, the buffer and the INSERT.
THEOREM RunningLosesNoAlert == Spec => []RunningKeepsAlerts
<1>1. EngineInv => RunningKeepsAlerts
  BY DEF EngineInv
<1>2. QED
  BY <1>1, EngineInvariance, PTL

=============================================================================
