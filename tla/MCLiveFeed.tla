----------------------------- MODULE MCLiveFeed -----------------------------
(* LiveFeed for TLC: an event with an id in its raw and its routed copy    *)
(* and an alert, or events one of which has no id and two records that are *)
(* live events already; one connection.                                     *)
EXTENDS LiveFeed

Blank == [f \in Field |-> Absent]
JSON(g) == [json |-> TRUE, live |-> Absent, field |-> [f \in Field |->
              IF f \in DOMAIN g THEN g[f] ELSE Absent]]

\* The envelope of the fleet server and what the router makes of it.
Raw1 == JSON([id |-> "u1", node_id |-> "n1", event_type |-> "osquery"])
Routed1 == JSON([id |-> "u1", node_id |-> "n1", event_type |-> "process"])
Alert == JSON([agent_uuid |-> "n1"])

\* An event of another producer: no id, the type a number, two nodes inside.
Raw2 == [Raw1 EXCEPT !.field = [Blank EXCEPT !["payload.agent_uuid"] = "n2",
                                             !["agent_uuid"] = "n1",
                                             !["event_type"] = Number]]
\* Live events; the second has fields of its own beside "data".
Live(channel, r) == [r EXCEPT !.live = channel, !.field["data.node_id"] = "n2",
                              !.field["data.event_type"] = "process"]
Health == Live("heartbeats", JSON(<<>>))
Log == Live("logs", Raw1)

MCStr == {Absent, Number, Unknown, "", "logs", "LOGS", "alerts", "heartbeats", "all", "u1",
          "n1", "n2", "osquery", "process"}
MCTopic == {"aigis.events.raw", "aigis.events.process", "aigis.alerts"}
FeedOf(raw, process, alerts) ==
    [t \in MCTopic |-> CASE t = "aigis.events.raw" -> raw
                         [] t = "aigis.events.process" -> process
                         [] OTHER -> alerts]

MCFeeds == {FeedOf(<<Raw1>>, <<Routed1>>, <<Alert>>),
            FeedOf(<<Log, Raw2>>, <<>>, <<Health>>)}

MCLower == [s \in {"logs", "LOGS", "alerts", "all"} |-> IF s = "LOGS" THEN "logs" ELSE s]

MCQuery == {[topics |-> NoTopics, node |-> "n1"], [topics |-> <<"LOGS">>, node |-> Absent]}
MCCommand == {[topics |-> NoTopics, node |-> Absent]}

=============================================================================
