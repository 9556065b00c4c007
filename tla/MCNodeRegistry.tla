-------------------------- MODULE MCNodeRegistry ---------------------------
(* NodeRegistry for TLC.  Calls, machines, nodes and versions are           *)
(* interchangeable; no temporal property is checked.                        *)
EXTENDS NodeRegistry, TLC

Symmetry == Permutations(Call) \cup Permutations(NodeId) \cup Permutations(Version)
                \cup Permutations(Machine)

=============================================================================
