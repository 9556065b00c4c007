--------------------------- MODULE MCAgentControl ---------------------------
(* AgentControl for TLC: two commands, one death, two outages.  The ids are *)
(* interchangeable, so the server may start out with the first.             *)
EXTENDS AgentControl

MCInit == Init /\ assigned = "n1"

MCSpec == MCInit /\ [][Next]_vars /\ Fairness

=============================================================================
