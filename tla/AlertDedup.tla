---------------------------- MODULE AlertDedup ----------------------------
(***************************************************************************)
(* rule-engine/engine/dedup.rs: the ShardedDeduplicator that decides       *)
(* whether an alert is emitted or suppressed.                              *)
(*                                                                         *)
(* A shard is an LRU cache from signatures to the time the signature last  *)
(* passed.  Here all shards are one function `seen`, and the order of use  *)
(* inside a shard is the number of the check that used an entry last.  The *)
(* repetition counter next to the time is never read and is left out.      *)
(* RuleEngine puts this module between its scanner and its alert channel.  *)
(***************************************************************************)
EXTENDS Naturals, Sequences, FiniteSets

CONSTANTS Signature,      \* node, rule and technique of an alert
          Shard,          \* shards of the cache
          ShardOf,        \* shard of a signature: a hash of its node
          Capacity,       \* entries per shard: total capacity / SHARD_COUNT
          Window,         \* suppression window
          MaxTime,        \* bound: ticks of the clock
          MaxChecks,      \* bound: alerts checked
          MaxRuns         \* bound: restarts of the process

ASSUME ShardAssumption == ShardOf \in [Signature -> Shard]
ASSUME CapacityAssumption == Capacity \in Nat \ {0}
ASSUME DedupBounds ==
    Window \in Nat /\ MaxTime \in Nat /\ MaxChecks \in Nat /\ MaxRuns \in Nat

VARIABLES now,            \* the monotonic clock
          seen,           \* entries: signature -> [at, used]
          checks,         \* history: every call of check_and_record
          run             \* which start of the process this is

dedupVars == <<now, seen, checks, run>>

DedupInit == now = 0 /\ seen = [s \in {} |-> s] /\ checks = <<>> /\ run = 0

-----------------------------------------------------------------------------

\* The clock advances.
Tick ==
    /\ now < MaxTime
    /\ now' = now + 1
    /\ UNCHANGED <<seen, checks, run>>

Entries(k) == {s \in DOMAIN seen : ShardOf[s] = k}

\* now.duration_since(last_seen) < suppression_window
Suppressed(s) == s \in DOMAIN seen /\ now - seen[s].at < Window

\* Mutant of Evicted: the cache drops its newest entry.
EvictedNewest(s) ==
    IF s \in DOMAIN seen \/ Cardinality(Entries(ShardOf[s])) < Capacity THEN {}
    ELSE {v \in Entries(ShardOf[s]) :
             \A u \in Entries(ShardOf[s]) : seen[u].used <= seen[v].used}

\* What LruCache::put drops for a signature that is new to a full shard.
Evicted(s) ==
    IF s \in DOMAIN seen \/ Cardinality(Entries(ShardOf[s])) < Capacity THEN {}
    ELSE {v \in Entries(ShardOf[s]) :
             \A u \in Entries(ShardOf[s]) : seen[v].used <= seen[u].used}

\* Mutant of EntryFor: every repetition starts the window again.
EntryForSliding(s) == [at |-> now, used |-> Len(checks) + 1]

\* Mutant of EntryFor: a look does not count as use (peek instead of get_mut).
EntryForPeek(s) ==
    IF Suppressed(s) THEN seen[s] ELSE [at |-> now, used |-> Len(checks) + 1]

\* The entry of s after the call: get_mut makes it the most recently used
\* one, and only an alert that passes restarts the window.
EntryFor(s) ==
    [at |-> IF Suppressed(s) THEN seen[s].at ELSE now, used |-> Len(checks) + 1]

\* check_and_record, under the lock of the shard.
CheckAndRecord(s) ==
    /\ Len(checks) < MaxChecks
    /\ checks' = Append(checks, [sig |-> s, at |-> now, run |-> run,
                                 passed |-> ~Suppressed(s)])
    /\ seen' = [u \in (DOMAIN seen \ Evicted(s)) \cup {s} |->
                   IF u = s THEN EntryFor(s) ELSE seen[u]]
    /\ UNCHANGED <<now, run>>

\* A new process starts with an empty cache.
DedupRestart ==
    /\ run < MaxRuns
    /\ run' = run + 1
    /\ seen' = [s \in {} |-> s]
    /\ UNCHANGED <<now, checks>>

DedupNext == Tick \/ DedupRestart \/ \E s \in Signature : CheckAndRecord(s)

DedupSpec == DedupInit /\ [][DedupNext]_dedupVars

-----------------------------------------------------------------------------
(* Properties *)

Check == [sig : Signature, at : Nat, run : Nat, passed : BOOLEAN]

\* Types of the variables, and no shard beyond its capacity.
DedupTypeOK ==
    /\ now \in Nat /\ run \in Nat
    /\ checks \in Seq(Check)
    /\ DOMAIN seen \subseteq Signature
    /\ seen \in [DOMAIN seen -> [at : Nat, used : Nat]]
    /\ \A k \in Shard : Cardinality(Entries(k)) <= Capacity

\* An alert is only suppressed when an alert with its signature passed less
\* than a window ago in this process: a long series of repetitions cannot
\* keep a signature silent for ever, and no other signature, shard or
\* earlier process can silence it.
SuppressedHasReason ==
    \A j \in DOMAIN checks : ~checks[j].passed =>
        \E i \in 1..j - 1 :
            /\ checks[i].passed
            /\ checks[i].sig = checks[j].sig /\ checks[i].run = checks[j].run
            /\ checks[j].at < checks[i].at + Window

\* The other signatures of the same shard that were checked between i and j.
Rivals(i, j) ==
    {checks[l].sig : l \in {l \in i + 1..j - 1 :
        ShardOf[checks[l].sig] = ShardOf[checks[j].sig]}} \ {checks[j].sig}

\* A signature passes twice within a window of one process only when it was
\* crowded out: since it was last checked, passed or not, at least as many
\* other signatures as the shard has entries were checked.
PassesAgainOnlyCrowdedOut ==
    \A j \in DOMAIN checks : \A i \in 1..j - 1 :
        /\ checks[i].passed /\ checks[j].passed
        /\ checks[i].sig = checks[j].sig /\ checks[i].run = checks[j].run
        /\ checks[j].at < checks[i].at + Window
        => \A k \in i..j - 1 :
              checks[k].sig = checks[j].sig
              /\ (\A l \in k + 1..j - 1 : checks[l].sig # checks[j].sig)
              => Cardinality(Rivals(k, j)) >= Capacity

=============================================================================
