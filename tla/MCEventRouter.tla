--------------------------- MODULE MCEventRouter ---------------------------
(* EventRouter for TLC. *)
EXTENDS EventRouter

\* A query result only the router's table knows by its name, an event of an
\* unknown type, and no event at all.
FewMessages ==
    {[json |-> TRUE, type |-> "osquery", query |-> "logged_in_users"],
     [json |-> TRUE, type |-> "custom", query |-> Absent],
     [json |-> FALSE, type |-> Absent, query |-> Absent]}

Names == Typed \cup {"osquery", "logged_in_users", "custom", Absent}

=============================================================================
