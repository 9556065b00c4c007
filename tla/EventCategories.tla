-------------------------- MODULE EventCategories --------------------------
(***************************************************************************)
(* How the two halves of the detection path classify an event: the router  *)
(* of kafka-pipeline, which picks a topic for it, and the scanner of       *)
(* rule-engine, which picks a rule set.  An event is reduced to the three  *)
(* things they look at: whether its bytes are JSON, its event_type and the *)
(* query_name of its payload.                                              *)
(***************************************************************************)

Absent == "(absent)"        \* the field is missing or not a string

ProcessTypes ==
    {"process_start", "process_end", "process", "process_events",
     "bpf_process_events", "processes", "osquery_result",
     "osquery_snapshot", "running_processes"}

NetworkTypes ==
    {"network_connect", "network_listen", "socket_events",
     "bpf_socket_events", "network", "listening_ports"}

FileTypes == {"file_create", "file_modify", "file_delete", "file_events", "file"}

AuthTypes == {"user_login", "user_logout", "logged_in_users", "auth", "users"}

Typed == {"process", "network", "file", "auth"}

Dlq == "dlq"

-----------------------------------------------------------------------------
(* The router: topics are named by what follows "aigis.events." *)

route_topic(t) ==
    CASE t \in ProcessTypes -> "process"
      [] t \in NetworkTypes -> "network"
      [] t \in FileTypes    -> "file"
      [] t \in AuthTypes    -> "auth"
      [] OTHER              -> Dlq

\* The type the router goes by: osquery results carry theirs in query_name.
EffectiveType(e) ==
    IF e.type \notin {"osquery", Absent} THEN e.type
    ELSE IF e.query # Absent THEN e.query ELSE "osquery"

\* What is not JSON goes to the dead letters.
Target(e) == IF e.json THEN route_topic(EffectiveType(e)) ELSE Dlq

\* Mutant of Normalized: the event is forwarded as it came.
NormalizedNot(e) == e

\* What the router forwards: in a typed topic event_type is the category, a
\* dead letter is the original bytes.
Normalized(e) == IF Target(e) = Dlq THEN e ELSE [e EXCEPT !.type = Target(e)]

-----------------------------------------------------------------------------
(* The scanner *)

\* The rule set that evaluate picks.
Category(e) ==
    CASE e.type \in ProcessTypes -> "process"
      [] e.type \in NetworkTypes -> "network"
      [] e.type \in FileTypes    -> "file"
      [] e.type \in AuthTypes    -> "auth"
      [] e.type = "osquery" ->
            CASE e.query \in {"running_processes", "processes"} -> "process"
              [] e.query \in {"listening_ports", "network"}     -> "network"
              [] e.query = "users"                              -> "auth"
              [] OTHER                                          -> "custom"
      [] OTHER -> e.type

=============================================================================
