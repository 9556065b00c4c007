---------------------------- MODULE AgentControl ----------------------------
(***************************************************************************)
(* The life of an agent: started and restarted by systemd, it reads its    *)
(* config, connects, enrols, saves its node id, opens the event stream and *)
(* then runs the command listener, which isolates and releases the host    *)
(* and opens the stream again when it breaks.                              *)
(*                                                                         *)
(*   down -> connect -> enroll -> (save -> write) -> stream -> running     *)
(*                                                                         *)
(* READY=1 is sent at the end of this, so TimeoutStartSec may end it       *)
(* anywhere before.                                                        *)
(***************************************************************************)
EXTENDS HostIsolation, Sequences

CONSTANTS Server,         \* the address of the fleet server
          Fallback,       \* 127.0.0.1, when the endpoint cannot be resolved
          Endpoints,      \* kinds of endpoint: TRUE if it names a host, FALSE if
                          \* it is an address
          NodeId,         \* ids the fleet server may assign
          Command,        \* commands a fleet server may send
          InCap,          \* capacity of the inbound channel
          MaxAttempts,    \* max_reconnect_attempts, 0 for no limit
          MaxCommands,    \* bound: commands
          MaxDeaths,      \* bound: ends of the agent, reboots included
          MaxOutages      \* bound: outages of server, network or resolver

NoId == "none"
Commands == {"isolate", "release", "config", "ack", "none"}

ASSUME ControlAssumption ==
    /\ {Server, Fallback} \subseteq Address /\ Server # Fallback
    /\ Endpoints \subseteq BOOLEAN
    /\ NodeId \subseteq STRING \ {NoId}
    /\ Command \subseteq Commands
    /\ InCap \in Nat \ {0}
    /\ {MaxAttempts, MaxCommands, MaxDeaths, MaxOutages} \subseteq Nat

VARIABLES named,      \* the endpoint of the config file names a host
          secret,     \* its enrolment secret is the one of the server
          layout,     \* how the config file is laid out, see below
          conf,       \* node_id of the config file, or NoId
          parses,     \* the config file is valid TOML
          phase,      \* where main is; "down" waits for systemd, "stopped" for
                      \* an administrator
          attempt,    \* attempt of connect_with_retry
          node,       \* the node id the server has answered with
          token,      \* "none", "valid" or "expired"
          fleet_ip,   \* what parse_endpoint has returned
          assigned,   \* the id the server has for this machine
          up,         \* the fleet server answers
          link,       \* the event stream is open
          inbound,    \* the inbound channel
          listener,   \* the command listener: "poll", "handle", "reconnect"
                      \* or "sleep"
          current,    \* the command it handles
          errs,       \* consecutive_errors
          backoff,    \* backoff_ms
          wanted,     \* history: the last isolate or release received
          answered,   \* history: the handler's last answer about isolation
          lost,       \* history: the agent ended with commands in hand, or
                      \* the host was rebooted
          counts      \* history: commands, deaths and outages

fileVars == <<layout, conf, parses>>
procVars == <<named, secret, fileVars, phase, attempt, node, token, fleet_ip>>
serverVars == <<assigned, up>>
listenerVars == <<link, inbound, listener, current, errs, backoff>>
histVars == <<wanted, answered, lost, counts>>
vars == <<nftVars, procVars, serverVars, listenerVars, histVars>>

\* What save_node_id_to_config tells apart: a file with a line [agent] whose
\* node_id, if there is one, starts its line ("plain"); one that spells the
\* table differently, [agent] with a comment behind it for instance
\* ("headerless"); and one whose node_id is indented ("indented").
Layouts == {"plain", "headerless", "indented"}

Starting == {"connect", "enroll", "save", "write", "stream"}

Init ==
    /\ NftInit
    /\ named \in Endpoints /\ secret \in BOOLEAN
    /\ layout \in Layouts /\ parses = TRUE
    /\ conf \in IF layout = "indented" THEN NodeId ELSE NodeId \cup {NoId}
    /\ assigned \in NodeId
    /\ phase = "down" /\ attempt = 0 /\ node = NoId /\ token = "none"
    /\ fleet_ip = Fallback
    /\ up = TRUE
    /\ link = FALSE /\ inbound = <<>> /\ listener = "poll" /\ current = "none"
    /\ errs = 0 /\ backoff = 0
    /\ wanted = "none" /\ answered = "none" /\ lost = FALSE
    /\ counts = [commands |-> 0, deaths |-> 0, outages |-> 0]

-----------------------------------------------------------------------------
(* main up to READY *)

\* The server answers and the rules of an isolated host let the agent through:
\* to the address of the rules, and not to a resolver.
Reachable == up /\ (isolated => Server \in accepts /\ ~named)

\* systemd starts the agent.  A config file that does not parse ends it again
\* at once.
Start ==
    /\ phase = "down" /\ parses
    /\ phase' = "connect" /\ attempt' = 0 /\ token' = "none" /\ node' = NoId
    /\ UNCHANGED <<nftVars, named, secret, fileVars, fleet_ip, serverVars, listenerVars, histVars>>

\* connect_with_retry gives up after MaxAttempts attempts, and main with it.
Retry ==
    /\ attempt' = attempt + 1
    /\ phase' = IF MaxAttempts > 0 /\ attempt + 1 >= MaxAttempts THEN "down" ELSE phase

ConnectOk ==
    /\ phase = "connect" /\ Reachable
    /\ phase' = "enroll" /\ attempt' = 0
    /\ UNCHANGED <<nftVars, named, secret, fileVars, node, token, fleet_ip, serverVars, listenerVars,
                   histVars>>

\* Without a limit the attempts need not be counted.
ConnectFails ==
    /\ phase \in {"connect", "stream"} /\ ~Reachable /\ MaxAttempts > 0
    /\ Retry
    /\ UNCHANGED <<nftVars, named, secret, fileVars, node, token, fleet_ip, serverVars, listenerVars,
                   histVars>>

\* Mutant of Enroll: an id that is in the config already is not replaced.
EnrollKeepsOld ==
    /\ phase = "enroll" /\ Reachable /\ secret
    /\ node' = assigned /\ token' = "valid"
    /\ phase' = IF conf = NoId THEN "save" ELSE "stream"
    /\ UNCHANGED <<nftVars, named, secret, fileVars, attempt, fleet_ip, serverVars, listenerVars, histVars>>

\* The server accepts the secret and answers with the id it has for the
\* machine and a token.  The config is written when the id is not in it
\* (the unit does not pass --enroll).
Enroll ==
    /\ phase = "enroll" /\ Reachable /\ secret
    /\ node' = assigned /\ token' = "valid"
    /\ phase' = IF conf # assigned THEN "save" ELSE "stream"
    /\ UNCHANGED <<nftVars, named, secret, fileVars, attempt, fleet_ip, serverVars, listenerVars, histVars>>

\* The call fails, or the server does not accept the secret; main returns the
\* error.
EnrollFails ==
    /\ phase = "enroll" /\ ~(Reachable /\ secret)
    /\ phase' = "down"
    /\ UNCHANGED <<nftVars, named, secret, fileVars, attempt, node, token, fleet_ip, serverVars,
                   listenerVars, histVars>>

\* fs::write first truncates the file, of which the agent has a copy ...
Truncate ==
    /\ phase = "save"
    /\ parses' = FALSE /\ phase' = "write"
    /\ UNCHANGED <<nftVars, named, secret, layout, conf, attempt, node, token,
                   fleet_ip, serverVars, listenerVars, histVars>>

\* ... and then writes it.  The id is in it if the table was found; if its
\* node_id line was not, that is a second key, which TOML does not allow.
Write ==
    /\ phase = "write" /\ phase' = "stream"
    /\ conf' = IF layout = "plain" THEN node ELSE conf
    /\ parses' = (layout # "indented")
    /\ UNCHANGED <<nftVars, named, secret, layout, attempt, node, token, fleet_ip,
                   serverVars, listenerVars, histVars>>

\* The host of the endpoint is an address or resolves, or it is replaced by
\* 127.0.0.1.
parse_endpoint(resolves) == IF ~named \/ resolves THEN Server ELSE Fallback

\* The stream is open with a token of a moment ago, and the tasks are spawned.
OpenStream ==
    /\ phase = "stream" /\ Reachable
    /\ phase' = "running"
    /\ \E resolves \in BOOLEAN :
          /\ fleet_ip' = parse_endpoint(resolves)
          /\ resolves \/ (named /\ counts.outages < MaxOutages)
          /\ counts' = [counts EXCEPT !.outages = @ + (IF resolves THEN 0 ELSE 1)]
    /\ link' = TRUE /\ inbound' = <<>> /\ listener' = "poll" /\ current' = "none"
    /\ errs' = 0 /\ backoff' = 0
    /\ UNCHANGED <<nftVars, named, secret, fileVars, attempt, node, token, serverVars, wanted, answered,
                   lost>>

-----------------------------------------------------------------------------
(* Ends of the process *)

Gone ==
    /\ link' = FALSE /\ inbound' = <<>> /\ listener' = "poll" /\ current' = "none"
    /\ errs' = 0 /\ backoff' = 0
    /\ counts' = [counts EXCEPT !.deaths = @ + 1]

InHand == inbound # <<>> \/ listener = "handle"

\* The agent is killed, times out while starting or panics: systemd starts it
\* again.  After SIGINT, SIGTERM or the SIGHUP of a reload, which it does not
\* handle, it does not.
Dies ==
    /\ phase \notin {"down", "stopped"} /\ counts.deaths < MaxDeaths
    /\ phase' \in {"down", "stopped"}
    /\ lost' = (lost \/ InHand)
    /\ Gone
    /\ UNCHANGED <<nftVars, named, secret, fileVars, attempt, node, token, fleet_ip, serverVars, wanted,
                   answered>>

\* The agent dies while nft runs, which has done its work or not.
DiesInHandler ==
    /\ listener = "handle" /\ counts.deaths < MaxDeaths
    /\ \/ current = "isolate" /\ isolate(fleet_ip)
       \/ current = "release" /\ de_isolate
    /\ phase' \in {"down", "stopped"} /\ lost' = TRUE
    /\ Gone
    /\ UNCHANGED <<named, secret, fileVars, attempt, node, token, fleet_ip, serverVars, wanted, answered>>

\* systemctl start.
AdminStarts ==
    /\ phase = "stopped"
    /\ phase' = "down"
    /\ UNCHANGED <<nftVars, named, secret, fileVars, attempt, node, token, fleet_ip, serverVars,
                   listenerVars, histVars>>

Reboot ==
    /\ counts.deaths < MaxDeaths
    /\ NftReset
    /\ phase' = "down" /\ lost' = TRUE
    /\ Gone
    /\ UNCHANGED <<named, secret, fileVars, attempt, node, token, fleet_ip, serverVars, wanted, answered>>

-----------------------------------------------------------------------------
(* The fleet server and the network *)

\* A command arrives in the inbound channel (the server of this repository
\* sends only Ack).
CommandArrives(c) ==
    /\ link /\ Len(inbound) < InCap /\ counts.commands < MaxCommands
    /\ inbound' = Append(inbound, c)
    /\ wanted' = IF c \in {"isolate", "release"} THEN c ELSE wanted
    /\ counts' = [counts EXCEPT !.commands = @ + 1]
    /\ UNCHANGED <<nftVars, procVars, serverVars, link, listener, current, errs,
                   backoff, answered, lost>>

\* The stream breaks; what the inbound channel holds stays in it.
LinkBreaks ==
    /\ link /\ counts.outages < MaxOutages
    /\ link' = FALSE
    /\ up' \in BOOLEAN
    /\ counts' = [counts EXCEPT !.outages = @ + 1]
    /\ UNCHANGED <<nftVars, procVars, assigned, inbound, listener, current, errs,
                   backoff, wanted, answered, lost>>

ServerDown ==
    /\ up /\ ~link /\ counts.outages < MaxOutages
    /\ up' = FALSE
    /\ counts' = [counts EXCEPT !.outages = @ + 1]
    /\ UNCHANGED <<nftVars, procVars, assigned, listenerVars, wanted, answered, lost>>

\* The server is back, perhaps with another database and so with another id
\* for the machine.
ServerBack ==
    /\ ~up
    /\ up' = TRUE
    /\ assigned' \in NodeId
    /\ UNCHANGED <<nftVars, procVars, listenerVars, histVars>>

\* 24 hours after enrolment.
TokenExpires ==
    /\ phase = "running" /\ token = "valid"
    /\ token' = "expired"
    /\ UNCHANGED <<nftVars, named, secret, fileVars, phase, attempt, node, fleet_ip, serverVars,
                   listenerVars, histVars>>

-----------------------------------------------------------------------------
(* The command listener *)

\* The channel is empty and its sender alive.
PollEmpty ==
    /\ phase = "running" /\ listener = "poll" /\ inbound = <<>> /\ link
    /\ errs' = 0
    /\ UNCHANGED <<nftVars, procVars, serverVars, link, inbound, listener, current,
                   backoff, histVars>>

PollCommand ==
    /\ phase = "running" /\ listener = "poll" /\ inbound # <<>>
    /\ listener' = "handle" /\ current' = Head(inbound) /\ inbound' = Tail(inbound)
    /\ errs' = 0
    /\ UNCHANGED <<nftVars, procVars, serverVars, link, backoff, histVars>>

\* The handler returns to the listener, which only logs its answer.
Returns(answer) ==
    /\ listener' = "poll" /\ current' = "none"
    /\ answered' = answer
    /\ UNCHANGED <<procVars, serverVars, link, inbound, errs, backoff, wanted, lost,
                   counts>>

\* Mutant of HandleIsolate: the error of nft is not passed on.
HandleIsolateBlind ==
    /\ listener = "handle" /\ current = "isolate"
    /\ (isolate(fleet_ip) \/ isolate_fails) /\ Returns("isolated")

HandleIsolate ==
    /\ listener = "handle" /\ current = "isolate"
    /\ \/ isolate(fleet_ip) /\ Returns("isolated")
       \/ isolate_fails /\ Returns("error")

HandleRelease ==
    /\ listener = "handle" /\ current = "release"
    /\ \/ (de_isolate \/ de_isolate_masked) /\ Returns("unisolated")
       \/ de_isolate_fails /\ Returns("error")

\* ConfigUpdate and Ack are answered and change nothing; a message without a
\* command is an error.
HandleOther ==
    /\ listener = "handle" /\ current \notin {"isolate", "release"}
    /\ Returns(answered)
    /\ UNCHANGED nftVars

Lesser(a, b) == IF a < b THEN a ELSE b

CMD_MAX_BACKOFF_ERRORS == 8
CMD_BACKOFF_BASE_MS == 50
CMD_BACKOFF_CEILING_MS == 12800

\* 50 ms * 2 ^ errors, at most 12.8 s.
delay_ms(errors) == Lesser(CMD_BACKOFF_BASE_MS * 2 ^ Lesser(errors, CMD_MAX_BACKOFF_ERRORS),
                           CMD_BACKOFF_CEILING_MS)

\* Mutant of PollClosed: errors beyond the eighth keep doubling the delay.
PollClosedUncapped ==
    /\ phase = "running" /\ listener = "poll" /\ inbound = <<>> /\ ~link
    /\ errs' = Lesser(errs + 1, 9)
    /\ backoff' = CMD_BACKOFF_BASE_MS * 2 ^ errs'
    /\ listener' = "reconnect"
    /\ UNCHANGED <<nftVars, procVars, serverVars, link, inbound, current, histVars>>

\* Mutant of PollClosed: a broken stream is noticed before what it has
\* delivered was handled, and the new receiver replaces the old.
PollClosedEarly ==
    /\ phase = "running" /\ listener = "poll" /\ ~link
    /\ inbound' = <<>>
    /\ errs' = Lesser(errs + 1, 9)
    /\ backoff' = delay_ms(errs')
    /\ listener' = "reconnect"
    /\ UNCHANGED <<nftVars, procVars, serverVars, link, current, histVars>>

\* The channel is closed and empty.  (The counter saturates far above 9; from
\* the eighth error on it makes no difference.)
PollClosed ==
    /\ phase = "running" /\ listener = "poll" /\ inbound = <<>> /\ ~link
    /\ errs' = Lesser(errs + 1, 9)
    /\ backoff' = delay_ms(errs')
    /\ listener' = "reconnect"
    /\ UNCHANGED <<nftVars, procVars, serverVars, link, inbound, current, histVars>>

\* Mutant of Reconnect: connect(None), which opens no stream.
ReconnectNoToken ==
    /\ listener = "reconnect"
    /\ listener' = "sleep"
    /\ UNCHANGED <<nftVars, procVars, serverVars, link, inbound, current, errs, backoff,
                   histVars>>

\* client.connect with the stored token, which is never renewed.
Reconnect ==
    /\ listener = "reconnect"
    /\ listener' = "sleep"
    /\ link' = (Reachable /\ token = "valid")
    /\ errs' = IF link' THEN 0 ELSE errs
    /\ UNCHANGED <<nftVars, procVars, serverVars, inbound, current, backoff, histVars>>

\* Also after a reconnection the listener sleeps backoff_ms before it polls.
Wakes ==
    /\ listener = "sleep"
    /\ listener' = "poll"
    /\ UNCHANGED <<nftVars, procVars, serverVars, link, inbound, current, errs, backoff,
                   histVars>>

-----------------------------------------------------------------------------

StartNext ==
    Start \/ ConnectOk \/ ConnectFails \/ Enroll \/ EnrollFails \/ Truncate \/ Write
    \/ OpenStream
FaultNext ==
    Dies \/ DiesInHandler \/ AdminStarts \/ Reboot \/ LinkBreaks \/ ServerDown
    \/ ServerBack \/ TokenExpires
ListenerNext ==
    PollEmpty \/ PollCommand \/ HandleIsolate \/ HandleRelease \/ HandleOther
    \/ PollClosed \/ Reconnect \/ Wakes

Next ==
    \/ StartNext \/ ListenerNext \/ FaultNext
    \/ \E c \in Command : CommandArrives(c)

Spec == Init /\ [][Next]_vars

\* systemd and tokio do what they are there for, nft ends, and the server
\* comes back.  Nothing is assumed of administrators or commands.
Fairness == WF_vars(StartNext) /\ WF_vars(ListenerNext) /\ WF_vars(ServerBack)

FairSpec == Spec /\ Fairness

-----------------------------------------------------------------------------
(* Properties *)

NftTypes ==
    /\ isolated \in BOOLEAN /\ masked \in BOOLEAN
    /\ accepts \subseteq Address /\ nftErrors \in Nat
ProcTypes ==
    /\ named \in Endpoints /\ secret \in BOOLEAN
    /\ layout \in Layouts /\ conf \in NodeId \cup {NoId} /\ parses \in BOOLEAN
    /\ phase \in Starting \cup {"down", "stopped", "running"}
    /\ attempt \in Nat /\ node \in NodeId \cup {NoId}
    /\ token \in {"none", "valid", "expired"} /\ fleet_ip \in Address
ServerTypes == assigned \in NodeId /\ up \in BOOLEAN
ListenerTypes ==
    /\ link \in BOOLEAN
    /\ inbound \in Seq(Commands) /\ Len(inbound) <= InCap
    /\ listener \in {"poll", "handle", "reconnect", "sleep"} /\ current \in Commands
    /\ errs \in 0..9 /\ backoff \in {0} \cup {delay_ms(n) : n \in 1..9}
HistTypes ==
    /\ wanted \in {"none", "isolate", "release"}
    /\ answered \in {"none", "isolated", "unisolated", "error"} /\ lost \in BOOLEAN
    /\ counts \in [commands : Nat, deaths : Nat, outages : Nat]

\* Types of the variables, with the bound of the channel.
TypeOK == NftTypes /\ ProcTypes /\ ServerTypes /\ ListenerTypes /\ HistTypes

\* What the config file of a running agent is good for.  In a plain file it
\* names the node the agent enrolled as, so that a restart is the same node,
\* also after the server has assigned another id; and the next start can read
\* it, unless it is an indented one that named another node.
RunningIsNamed ==
    phase = "running" =>
        /\ layout = "plain" => conf = node
        /\ parses \/ (layout = "indented" /\ conf # node)

\* A config that names the node the agent has enrolled as is not opened for
\* writing: a start as the node it names cannot tear it.
NamedConfigStays ==
    [][(conf # NoId /\ conf = node) => UNCHANGED fileVars]_vars

\* When every command was handled, the host is isolated exactly if the last
\* word was to isolate it: across broken streams and restarts of the agent,
\* unless commands were in hand when it died, the host was rebooted or nft
\* failed.
ObeysLast ==
    ~lost /\ nftErrors = 0 /\ ~InHand =>
        (isolated <=> wanted = "isolate")

\* What the handler has answered about isolation stays true, whatever happens
\* to the agent, until the next command or reboot; "unisolated" except where
\* an error of nft was masked.
AnswerStaysTrue ==
    ~lost =>
        /\ answered = "isolated" => isolated
        /\ answered = "unisolated" /\ isolated => masked

\* Between two failed polls with no success in between the delay doubles, up
\* to the ceiling and no further, however long the outage.
BackoffDoubles ==
    [][(listener = "poll" /\ listener' = "reconnect" /\ errs # 0) =>
         backoff' = Lesser(2 * backoff, CMD_BACKOFF_CEILING_MS)]_vars

\* What the comments say of the first delay: CMD_BACKOFF_BASE_MS is the
\* "Starting backoff delay on a transport error (50 ms)".
BackoffStartsAtBase ==
    [][(listener = "poll" /\ listener' = "reconnect" /\ errs = 0) =>
         backoff' = CMD_BACKOFF_BASE_MS]_vars

\* What keeps an agent off for good: a wrong secret, a config that does not
\* parse any more, an administrator, a token that expired, or an isolation
\* that cuts it off from resolver or server.
Excused ==
    \/ ~secret
    \/ ~parses /\ phase = "down"
    \/ phase = "stopped"
    \/ phase = "running" /\ token = "expired"
    \/ isolated /\ (named \/ Server \notin accepts)

\* Whatever outages and deaths there were, the agent gets its stream back or
\* has an excuse.
StreamReturns == []<>(link \/ Excused)

=============================================================================
