------------------------------ MODULE MCAlerts -----------------------------
(* An alert before and after the table, for TLC: the deduplicator of the    *)
(* rule engine and the pages on which operators triage.  They share no      *)
(* state, so one moves while the other is as it began.  Operators are       *)
(* interchangeable; no temporal property is checked.                        *)
EXTENDS AlertDedup, AlertTriage, TLC

\* Four signatures, three of them in one shard.
Crowded == [s \in Signature |-> IF s = "s4" THEN 2 ELSE 1]

\* An alert more than a page holds.
MCCreatedAt == [a \in Alert |-> IF a = "old" THEN 1 ELSE 2]
MCSeverity == [a \in Alert |-> IF a = "old" THEN "high" ELSE "low"]
MCFilters == {NoFilter, [severity |-> "high", status |-> "open"]}
MCSymmetry == Permutations(Operator)

MCInit == DedupInit /\ TriageInit
DedupMoves == TriageInit /\ DedupNext /\ UNCHANGED triageVars
TriageMoves == DedupInit /\ TriageNext /\ UNCHANGED dedupVars

MCSpec == MCInit /\ [][DedupMoves \/ TriageMoves]_<<dedupVars, triageVars>>

=============================================================================
