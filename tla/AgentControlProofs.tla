------------------------ MODULE AgentControlProofs ------------------------
(***************************************************************************)
(* Theorems about AgentControl.                                            *)
(*                                                                         *)
(* That the host obeys the last word (ObeysLast) says nothing while        *)
(* commands are in hand; Pending says what is true then: the last isolate  *)
(* or release is still in the channel with nothing to the contrary behind  *)
(* it, or is being handled, or has been.  Idle is what makes a new stream  *)
(* start from nothing, and Saving what ties the config file to the node id *)
(* through the steps of its rewriting.                                     *)
(***************************************************************************)
EXTENDS AgentControl, TLAPS

USE DEF fileVars

Orders == {"isolate", "release"}

\* Without a running agent there is no stream and no listener.
Idle ==
    phase # "running" =>
        ~link /\ inbound = <<>> /\ listener = "poll" /\ current = "none"

\* The config file while the node id is saved, and from then on.
Saving ==
    /\ phase \in {"save", "write", "stream", "running"} => node \in NodeId
    /\ phase \in {"connect", "enroll", "save"} => parses
    /\ phase \in {"save", "write"} => conf # node
    /\ phase \in {"stream", "running"} =>
          /\ layout = "plain" => conf = node
          /\ parses \/ (layout = "indented" /\ conf # node)

\* Where the last order is.
Queued ==
    \E i \in DOMAIN inbound :
        /\ inbound[i] = wanted /\ wanted \in Orders
        /\ \A j \in DOMAIN inbound : j > i => inbound[j] \notin Orders
Served ==
    /\ \A j \in DOMAIN inbound : inbound[j] \notin Orders
    /\ IF listener = "handle" /\ current \in Orders THEN current = wanted
       ELSE isolated <=> wanted = "isolate"
Pending == ~lost /\ nftErrors = 0 => Queued \/ Served

IInv == TypeOK /\ Idle /\ Saving /\ Pending /\ AnswerStaysTrue

-----------------------------------------------------------------------------
(* Types *)

\* A step that leaves a group of variables alone keeps its types.
LEMMA Unchanged ==
    /\ NftTypes /\ UNCHANGED nftVars => NftTypes'
    /\ ProcTypes /\ UNCHANGED procVars => ProcTypes'
    /\ ServerTypes /\ UNCHANGED serverVars => ServerTypes'
    /\ ListenerTypes /\ UNCHANGED listenerVars => ListenerTypes'
    /\ HistTypes /\ UNCHANGED histVars => HistTypes'
<1>1. NftTypes /\ UNCHANGED nftVars => NftTypes'
  BY DEF NftTypes, nftVars
<1>2. ProcTypes /\ UNCHANGED procVars => ProcTypes'
  BY DEF ProcTypes, procVars
<1>3. ServerTypes /\ UNCHANGED serverVars => ServerTypes'
  BY DEF ServerTypes, serverVars
<1>4. ListenerTypes /\ UNCHANGED listenerVars => ListenerTypes'
  BY DEF ListenerTypes, listenerVars
<1>5. HistTypes /\ UNCHANGED histVars => HistTypes'
  BY DEF HistTypes, histVars
<1> QED
  BY <1>1, <1>2, <1>3, <1>4, <1>5

\* An empty channel.
LEMMA Nothing == "none" \in Commands /\ <<>> \in Seq(Commands) /\ Len(<<>>) <= InCap
  BY ControlAssumption DEF Commands

\* A fresh machine has the types.
LEMMA InitTypes == Init => TypeOK
<1> SUFFICES ASSUME Init PROVE TypeOK
  OBVIOUS
<1>1. NftTypes
  BY DEF Init, NftInit, NftTypes
<1>2. ProcTypes
  BY ControlAssumption DEF Init, ProcTypes
<1>3. ServerTypes
  BY DEF Init, ServerTypes
<1>4. ListenerTypes
  <2>1. link \in BOOLEAN
    BY DEF Init
  <2>2. errs \in 0..9 /\ backoff \in {0} \cup {delay_ms(n) : n \in 1..9}
    BY DEF Init
  <2>3. listener \in {"poll", "handle", "reconnect", "sleep"} /\ current \in Commands
    BY Nothing DEF Init
  <2>4. inbound \in Seq(Commands) /\ Len(inbound) <= InCap
    BY Nothing DEF Init
  <2> QED
    BY <2>1, <2>2, <2>3, <2>4 DEF ListenerTypes
<1>5. HistTypes
  BY DEF Init, HistTypes
<1> QED
  BY <1>1, <1>2, <1>3, <1>4, <1>5 DEF TypeOK

\* What isolation does to the rules keeps their types.
LEMMA RulesTypes ==
    /\ NftTypes /\ fleet_ip \in Address /\ isolate(fleet_ip) => NftTypes'
    /\ NftTypes /\ isolate_fails => NftTypes'
    /\ NftTypes /\ de_isolate => NftTypes'
    /\ NftTypes /\ de_isolate_masked => NftTypes'
    /\ NftTypes /\ de_isolate_fails => NftTypes'
    /\ NftTypes /\ NftReset => NftTypes'
<1>1. NftTypes /\ fleet_ip \in Address /\ isolate(fleet_ip) => NftTypes'
  BY DEF NftTypes, isolate
<1>2. NftTypes /\ isolate_fails => NftTypes'
  BY DEF NftTypes, isolate_fails
<1>3. NftTypes /\ de_isolate => NftTypes'
  BY DEF NftTypes, de_isolate
<1>4. NftTypes /\ de_isolate_masked => NftTypes'
  BY DEF NftTypes, de_isolate_masked
<1>5. NftTypes /\ de_isolate_fails => NftTypes'
  BY DEF NftTypes, de_isolate_fails
<1>6. NftTypes /\ NftReset => NftTypes'
  BY DEF NftTypes, NftReset
<1> QED
  BY <1>1, <1>2, <1>3, <1>4, <1>5, <1>6

\* The listener of a process that is gone.
LEMMA GoneTypes == Gone => ListenerTypes'
<1> SUFFICES ASSUME Gone PROVE ListenerTypes'
  OBVIOUS
<1>1. link' \in BOOLEAN
  BY DEF Gone
<1>2. errs' \in 0..9 /\ backoff' \in {0} \cup {delay_ms(n) : n \in 1..9}
  BY DEF Gone
<1>3. listener' \in {"poll", "handle", "reconnect", "sleep"} /\ current' \in Commands
  BY Nothing DEF Gone
<1>4. inbound' \in Seq(Commands) /\ Len(inbound') <= InCap
  BY Nothing DEF Gone
<1> QED
  BY <1>1, <1>2, <1>3, <1>4 DEF ListenerTypes

\* main up to READY keeps the types.
LEMMA StartTypes == TypeOK /\ Saving /\ StartNext => TypeOK'
<1> SUFFICES ASSUME TypeOK, Saving, StartNext PROVE TypeOK'
  OBVIOUS
<1>0. NftTypes /\ ProcTypes /\ ServerTypes /\ ListenerTypes /\ HistTypes
  BY DEF TypeOK
<1>1. CASE Start
  <2>1. NftTypes' /\ ServerTypes' /\ ListenerTypes' /\ HistTypes'
    BY <1>0, <1>1, Unchanged DEF Start, nftVars, serverVars, listenerVars, histVars
  <2>2. ProcTypes'
    BY <1>0, <1>1 DEF Start, Starting, ProcTypes
  <2> QED
    BY <2>1, <2>2 DEF TypeOK
<1>2. CASE ConnectOk
  <2>1. NftTypes' /\ ServerTypes' /\ ListenerTypes' /\ HistTypes'
    BY <1>0, <1>2, Unchanged DEF ConnectOk, nftVars, serverVars, listenerVars, histVars
  <2>2. ProcTypes'
    BY <1>0, <1>2 DEF ConnectOk, Starting, ProcTypes
  <2> QED
    BY <2>1, <2>2 DEF TypeOK
<1>3. CASE ConnectFails
  <2>1. NftTypes' /\ ServerTypes' /\ ListenerTypes' /\ HistTypes'
    BY <1>0, <1>3, Unchanged DEF ConnectFails, nftVars, serverVars, listenerVars, histVars
  <2>2. ProcTypes'
    BY <1>0, <1>3 DEF ConnectFails, Retry, Starting, ProcTypes
  <2> QED
    BY <2>1, <2>2 DEF TypeOK
<1>4. CASE Enroll
  <2>1. NftTypes' /\ ServerTypes' /\ ListenerTypes' /\ HistTypes'
    BY <1>0, <1>4, Unchanged DEF Enroll, nftVars, serverVars, listenerVars, histVars
  <2>2. ProcTypes'
    BY <1>0, <1>4 DEF Enroll, Starting, ProcTypes, ServerTypes
  <2> QED
    BY <2>1, <2>2 DEF TypeOK
<1>5. CASE EnrollFails
  <2>1. NftTypes' /\ ServerTypes' /\ ListenerTypes' /\ HistTypes'
    BY <1>0, <1>5, Unchanged DEF EnrollFails, nftVars, serverVars, listenerVars, histVars
  <2>2. ProcTypes'
    BY <1>0, <1>5 DEF EnrollFails, Starting, ProcTypes
  <2> QED
    BY <2>1, <2>2 DEF TypeOK
<1>6. CASE Truncate
  <2>1. NftTypes' /\ ServerTypes' /\ ListenerTypes' /\ HistTypes'
    BY <1>0, <1>6, Unchanged DEF Truncate, nftVars, serverVars, listenerVars, histVars
  <2>2. ProcTypes'
    BY <1>0, <1>6 DEF Truncate, Starting, ProcTypes
  <2> QED
    BY <2>1, <2>2 DEF TypeOK
<1>7. CASE Write
  <2>1. NftTypes' /\ ServerTypes' /\ ListenerTypes' /\ HistTypes'
    BY <1>0, <1>7, Unchanged DEF Write, nftVars, serverVars, listenerVars, histVars
  <2>2. ProcTypes'
    BY <1>0, <1>7 DEF Write, Starting, ProcTypes, Saving
  <2> QED
    BY <2>1, <2>2 DEF TypeOK
<1>8. CASE OpenStream
  <2>1. NftTypes' /\ ServerTypes'
    BY <1>0, <1>8, Unchanged DEF OpenStream, nftVars, serverVars
  <2>2. ProcTypes'
    BY <1>0, <1>8, ControlAssumption DEF OpenStream, parse_endpoint, Starting, ProcTypes
  <2>3. ListenerTypes'
    BY <1>0, <1>8, Nothing DEF OpenStream, ListenerTypes
  <2>4. HistTypes'
    BY <1>0, <1>8 DEF OpenStream, HistTypes
  <2> QED
    BY <2>1, <2>2, <2>3, <2>4 DEF TypeOK
<1> QED
  BY <1>1, <1>2, <1>3, <1>4, <1>5, <1>6, <1>7, <1>8 DEF StartNext

\* So do the listener and the handler.
LEMMA ListenerKeepsTypes == TypeOK /\ Saving /\ ListenerNext => TypeOK'
<1> SUFFICES ASSUME TypeOK, Saving, ListenerNext PROVE TypeOK'
  OBVIOUS
<1>0. NftTypes /\ ProcTypes /\ ServerTypes /\ ListenerTypes /\ HistTypes
  BY DEF TypeOK
<1>1. CASE PollEmpty
  <2>1. NftTypes' /\ ProcTypes' /\ ServerTypes' /\ HistTypes'
    BY <1>0, <1>1, Unchanged DEF PollEmpty, nftVars, procVars, serverVars, histVars
  <2>2. ListenerTypes'
    BY <1>0, <1>1 DEF PollEmpty, ListenerTypes
  <2> QED
    BY <2>1, <2>2 DEF TypeOK
<1>2. CASE PollCommand
  <2>1. NftTypes' /\ ProcTypes' /\ ServerTypes' /\ HistTypes'
    BY <1>0, <1>2, Unchanged DEF PollCommand, nftVars, procVars, serverVars, histVars
  <2>2. ListenerTypes'
    <3>1. Head(inbound) \in Commands /\ Tail(inbound) \in Seq(Commands)
          /\ Len(Tail(inbound)) <= InCap
      BY <1>0, <1>2, ControlAssumption DEF PollCommand, ListenerTypes
    <3>2. link' = link /\ errs' = 0 /\ backoff' = backoff /\ listener' = "handle"
      BY <1>2 DEF PollCommand
    <3> QED
      BY <1>0, <1>2, <3>1, <3>2 DEF PollCommand, ListenerTypes
  <2> QED
    BY <2>1, <2>2 DEF TypeOK
<1>3. CASE HandleIsolate
  <2>1. ProcTypes' /\ ServerTypes'
    BY <1>0, <1>3, Unchanged DEF HandleIsolate, Returns, procVars, serverVars
  <2>2. NftTypes'
    BY <1>0, <1>3, RulesTypes DEF HandleIsolate, NftTypes, ProcTypes
  <2>3. ListenerTypes'
    BY <1>0, <1>3, Nothing DEF HandleIsolate, Returns, ListenerTypes
  <2>4. HistTypes'
    BY <1>0, <1>3 DEF HandleIsolate, Returns, HistTypes
  <2> QED
    BY <2>1, <2>2, <2>3, <2>4 DEF TypeOK
<1>4. CASE HandleRelease
  <2>1. ProcTypes' /\ ServerTypes'
    BY <1>0, <1>4, Unchanged DEF HandleRelease, Returns, procVars, serverVars
  <2>2. NftTypes'
    BY <1>0, <1>4, RulesTypes DEF HandleRelease, NftTypes
  <2>3. ListenerTypes'
    BY <1>0, <1>4, Nothing DEF HandleRelease, Returns, ListenerTypes
  <2>4. HistTypes'
    BY <1>0, <1>4 DEF HandleRelease, Returns, HistTypes
  <2> QED
    BY <2>1, <2>2, <2>3, <2>4 DEF TypeOK
<1>5. CASE HandleOther
  <2>1. NftTypes' /\ ProcTypes' /\ ServerTypes'
    BY <1>0, <1>5, Unchanged DEF HandleOther, Returns, nftVars, procVars, serverVars
  <2>2. ListenerTypes'
    BY <1>0, <1>5, Nothing DEF HandleOther, Returns, ListenerTypes
  <2>3. HistTypes'
    BY <1>0, <1>5 DEF HandleOther, Returns, HistTypes
  <2> QED
    BY <2>1, <2>2, <2>3 DEF TypeOK
<1>6. CASE PollClosed
  <2>1. NftTypes' /\ ProcTypes' /\ ServerTypes' /\ HistTypes'
    BY <1>0, <1>6, Unchanged DEF PollClosed, nftVars, procVars, serverVars, histVars
  <2>2. ListenerTypes'
    <3>1. errs' \in 1..9
      BY <1>0, <1>6 DEF PollClosed, Lesser, ListenerTypes
    <3>2. backoff' \in {delay_ms(n) : n \in 1..9}
      BY <1>6, <3>1 DEF PollClosed
    <3>3. UNCHANGED <<link, inbound, current>> /\ listener' = "reconnect"
      BY <1>6 DEF PollClosed
    <3> QED
      BY <1>0, <3>1, <3>2, <3>3 DEF ListenerTypes
  <2> QED
    BY <2>1, <2>2 DEF TypeOK
<1>7. CASE Reconnect
  <2>1. NftTypes' /\ ProcTypes' /\ ServerTypes' /\ HistTypes'
    BY <1>0, <1>7, Unchanged DEF Reconnect, nftVars, procVars, serverVars, histVars
  <2>2. ListenerTypes'
    BY <1>0, <1>7 DEF Reconnect, Reachable, ListenerTypes
  <2> QED
    BY <2>1, <2>2 DEF TypeOK
<1>8. CASE Wakes
  <2>1. NftTypes' /\ ProcTypes' /\ ServerTypes' /\ HistTypes'
    BY <1>0, <1>8, Unchanged DEF Wakes, nftVars, procVars, serverVars, histVars
  <2>2. ListenerTypes'
    BY <1>0, <1>8 DEF Wakes, ListenerTypes
  <2> QED
    BY <2>1, <2>2 DEF TypeOK
<1> QED
  BY <1>1, <1>2, <1>3, <1>4, <1>5, <1>6, <1>7, <1>8 DEF ListenerNext

\* So do the ends of the process, the network and the server.
LEMMA FaultTypes == TypeOK /\ Saving /\ FaultNext => TypeOK'
<1> SUFFICES ASSUME TypeOK, Saving, FaultNext PROVE TypeOK'
  OBVIOUS
<1>0. NftTypes /\ ProcTypes /\ ServerTypes /\ ListenerTypes /\ HistTypes
  BY DEF TypeOK
<1>1. CASE Dies
  <2>1. NftTypes' /\ ServerTypes'
    BY <1>0, <1>1, Unchanged DEF Dies, nftVars, serverVars
  <2>2. ProcTypes'
    BY <1>0, <1>1 DEF Dies, ProcTypes
  <2>3. ListenerTypes'
    BY <1>0, <1>1, GoneTypes DEF Dies, ListenerTypes
  <2>4. HistTypes'
    BY <1>0, <1>1 DEF Dies, Gone, InHand, HistTypes
  <2> QED
    BY <2>1, <2>2, <2>3, <2>4 DEF TypeOK
<1>2. CASE DiesInHandler
  <2>1. ServerTypes'
    BY <1>0, <1>2, Unchanged DEF DiesInHandler, serverVars
  <2>2. NftTypes'
    BY <1>0, <1>2, RulesTypes DEF DiesInHandler, NftTypes, ProcTypes
  <2>3. ProcTypes'
    BY <1>0, <1>2 DEF DiesInHandler, ProcTypes
  <2>4. ListenerTypes'
    BY <1>0, <1>2, GoneTypes DEF DiesInHandler, ListenerTypes
  <2>5. HistTypes'
    BY <1>0, <1>2 DEF DiesInHandler, Gone, HistTypes
  <2> QED
    BY <2>1, <2>2, <2>3, <2>4, <2>5 DEF TypeOK
<1>3. CASE AdminStarts
  <2>1. NftTypes' /\ ServerTypes' /\ ListenerTypes' /\ HistTypes'
    BY <1>0, <1>3, Unchanged DEF AdminStarts, nftVars, serverVars, listenerVars, histVars
  <2>2. ProcTypes'
    BY <1>0, <1>3 DEF AdminStarts, ProcTypes
  <2> QED
    BY <2>1, <2>2 DEF TypeOK
<1>4. CASE Reboot
  <2>1. ServerTypes'
    BY <1>0, <1>4, Unchanged DEF Reboot, serverVars
  <2>2. NftTypes'
    BY <1>0, <1>4, RulesTypes DEF Reboot, NftTypes
  <2>3. ProcTypes'
    BY <1>0, <1>4 DEF Reboot, ProcTypes
  <2>4. ListenerTypes'
    BY <1>0, <1>4, GoneTypes DEF Reboot, ListenerTypes
  <2>5. HistTypes'
    BY <1>0, <1>4 DEF Reboot, Gone, HistTypes
  <2> QED
    BY <2>1, <2>2, <2>3, <2>4, <2>5 DEF TypeOK
<1>5. CASE LinkBreaks
  <2>1. NftTypes' /\ ProcTypes'
    BY <1>0, <1>5, Unchanged DEF LinkBreaks, nftVars, procVars
  <2>2. ServerTypes'
    BY <1>0, <1>5 DEF LinkBreaks, ServerTypes
  <2>3. ListenerTypes'
    BY <1>0, <1>5 DEF LinkBreaks, ListenerTypes
  <2>4. HistTypes'
    BY <1>0, <1>5 DEF LinkBreaks, HistTypes
  <2> QED
    BY <2>1, <2>2, <2>3, <2>4 DEF TypeOK
<1>6. CASE ServerDown
  <2>1. NftTypes' /\ ProcTypes' /\ ListenerTypes'
    BY <1>0, <1>6, Unchanged DEF ServerDown, nftVars, procVars, listenerVars
  <2>2. ServerTypes'
    BY <1>0, <1>6 DEF ServerDown, ServerTypes
  <2>3. HistTypes'
    BY <1>0, <1>6 DEF ServerDown, HistTypes
  <2> QED
    BY <2>1, <2>2, <2>3 DEF TypeOK
<1>7. CASE ServerBack
  <2>1. NftTypes' /\ ProcTypes' /\ ListenerTypes' /\ HistTypes'
    BY <1>0, <1>7, Unchanged DEF ServerBack, nftVars, procVars, listenerVars, histVars
  <2>2. ServerTypes'
    BY <1>0, <1>7 DEF ServerBack, ServerTypes
  <2> QED
    BY <2>1, <2>2 DEF TypeOK
<1>8. CASE TokenExpires
  <2>1. NftTypes' /\ ServerTypes' /\ ListenerTypes' /\ HistTypes'
    BY <1>0, <1>8, Unchanged DEF TokenExpires, nftVars, serverVars, listenerVars, histVars
  <2>2. ProcTypes'
    BY <1>0, <1>8 DEF TokenExpires, ProcTypes
  <2> QED
    BY <2>1, <2>2 DEF TypeOK
<1> QED
  BY <1>1, <1>2, <1>3, <1>4, <1>5, <1>6, <1>7, <1>8 DEF FaultNext

\* A command goes into a channel that has room for it.
LEMMA ArrivalTypes ==
    ASSUME TypeOK, NEW c \in Command, CommandArrives(c)
    PROVE  TypeOK'
<1>0. NftTypes /\ ProcTypes /\ ServerTypes /\ ListenerTypes /\ HistTypes
  BY DEF TypeOK
<1>1. NftTypes' /\ ProcTypes' /\ ServerTypes'
  BY <1>0, Unchanged DEF CommandArrives
<1>2. ListenerTypes'
  <2>1. inbound' \in Seq(Commands) /\ Len(inbound') <= InCap
    BY <1>0, ControlAssumption DEF CommandArrives, ListenerTypes
  <2>2. UNCHANGED <<link, listener, current, errs, backoff>>
    BY DEF CommandArrives
  <2> QED
    BY <1>0, <2>1, <2>2 DEF ListenerTypes
<1>3. HistTypes'
  BY <1>0 DEF CommandArrives, HistTypes
<1> QED
  BY <1>1, <1>2, <1>3 DEF TypeOK

\* Every step keeps the types.
LEMMA NextTypes == TypeOK /\ Saving /\ [Next]_vars => TypeOK'
<1> SUFFICES ASSUME TypeOK, Saving, [Next]_vars PROVE TypeOK'
  OBVIOUS
<1>1. CASE UNCHANGED vars
  BY <1>1, Unchanged DEF TypeOK, vars
<1> QED
  BY <1>1, StartTypes, ListenerKeepsTypes, FaultTypes, ArrivalTypes DEF Next

-----------------------------------------------------------------------------
(* The stream and the config file *)

\* Streams and listeners come and go with the running agent.
LEMMA NextIdle == TypeOK /\ Idle /\ [Next]_vars => Idle'
<1> SUFFICES ASSUME TypeOK, Idle, [Next]_vars PROVE Idle'
  OBVIOUS
<1> USE DEF Idle
<1>1. CASE StartNext
  BY <1>1 DEF StartNext, Start, ConnectOk, ConnectFails, Retry, Enroll, EnrollFails,
              Truncate, Write, OpenStream, listenerVars, Starting
<1>2. CASE ListenerNext
  BY <1>2 DEF ListenerNext, PollEmpty, PollCommand, HandleIsolate, HandleRelease,
              HandleOther, Returns, PollClosed, Reconnect, Wakes, procVars
<1>3. CASE FaultNext
  BY <1>3 DEF FaultNext, Dies, DiesInHandler, AdminStarts, Reboot, Gone, LinkBreaks,
              ServerDown, ServerBack, TokenExpires, listenerVars, procVars
<1>4. ASSUME NEW c \in Command, CommandArrives(c) PROVE Idle'
  BY <1>4 DEF CommandArrives, procVars
<1>5. CASE UNCHANGED vars
  BY <1>5 DEF vars, listenerVars, procVars
<1> QED
  BY <1>1, <1>2, <1>3, <1>4, <1>5 DEF Next

\* The config file names the node from the moment it is written.
LEMMA NextSaving == TypeOK /\ Saving /\ [Next]_vars => Saving'
<1> SUFFICES ASSUME TypeOK, Saving, [Next]_vars PROVE Saving'
  OBVIOUS
<1> USE DEF Saving
<1>1. CASE StartNext
  <2>1. assigned \in NodeId
    BY DEF TypeOK, ServerTypes
  <2> QED
    BY <1>1, <2>1 DEF StartNext, Start, ConnectOk, ConnectFails, Retry, Enroll,
              EnrollFails, Truncate, Write, OpenStream
<1>2. CASE ListenerNext
  BY <1>2 DEF ListenerNext, PollEmpty, PollCommand, HandleIsolate, HandleRelease,
              HandleOther, Returns, PollClosed, Reconnect, Wakes, procVars
<1>3. CASE FaultNext
  BY <1>3 DEF FaultNext, Dies, DiesInHandler, AdminStarts, Reboot, LinkBreaks,
              ServerDown, ServerBack, TokenExpires, procVars
<1>4. ASSUME NEW c \in Command, CommandArrives(c) PROVE Saving'
  BY <1>4 DEF CommandArrives, procVars
<1>5. CASE UNCHANGED vars
  BY <1>5 DEF vars, procVars
<1> QED
  BY <1>1, <1>2, <1>3, <1>4, <1>5 DEF Next

\* The answers of the handler stay true.
LEMMA NextAnswers == TypeOK /\ AnswerStaysTrue /\ [Next]_vars => AnswerStaysTrue'
<1> SUFFICES ASSUME TypeOK, AnswerStaysTrue, [Next]_vars PROVE AnswerStaysTrue'
  OBVIOUS
<1> USE DEF AnswerStaysTrue
<1>1. CASE StartNext
  BY <1>1 DEF StartNext, Start, ConnectOk, ConnectFails, Enroll, EnrollFails,
              Truncate, Write, OpenStream, nftVars, histVars
<1>2. CASE ListenerNext
  <2>1. CASE HandleIsolate
    BY <2>1 DEF HandleIsolate, Returns, isolate, isolate_fails
  <2>2. CASE HandleRelease
    BY <2>2 DEF HandleRelease, Returns, de_isolate, de_isolate_masked, de_isolate_fails
  <2>3. CASE HandleOther
    BY <2>3 DEF HandleOther, Returns, nftVars
  <2> QED
    BY <1>2, <2>1, <2>2, <2>3
    DEF ListenerNext, PollEmpty, PollCommand, PollClosed, Reconnect, Wakes, nftVars,
        histVars
<1>3. CASE FaultNext
  BY <1>3 DEF FaultNext, Dies, DiesInHandler, AdminStarts, Reboot, LinkBreaks,
              ServerDown, ServerBack, TokenExpires, nftVars, histVars
<1>4. ASSUME NEW c \in Command, CommandArrives(c) PROVE AnswerStaysTrue'
  BY <1>4 DEF CommandArrives, nftVars
<1>5. CASE UNCHANGED vars
  BY <1>5 DEF vars, nftVars, histVars
<1> QED
  BY <1>1, <1>2, <1>3, <1>4, <1>5 DEF Next

-----------------------------------------------------------------------------
(* The last order *)

\* What Pending speaks of, the handler left aside.
orderVars == <<inbound, wanted, isolated, lost, nftErrors>>

\* Pending is kept by a step that leaves the channel, the rules and the
\* history alone, if it puts no order into the hands of the handler or takes
\* one out of them.
LEMMA PendingKept ==
    ASSUME Pending, UNCHANGED orderVars,
           (listener' = listener /\ current' = current)
             \/ (listener # "handle" /\ listener' # "handle")
    PROVE  Pending'
<1>1. Queued => Queued'
  BY DEF Queued, orderVars
<1>2. Served => Served'
  BY DEF Served, orderVars
<1> QED
  BY <1>1, <1>2 DEF Pending, orderVars

\* A command that arrives is the last order, or is none.
LEMMA ArrivalPending ==
    ASSUME TypeOK, Pending, NEW c \in Command, CommandArrives(c)
    PROVE  Pending'
<1> DEFINE n == Len(inbound)
<1>0. inbound \in Seq(Commands) /\ c \in Commands
  BY ControlAssumption DEF TypeOK, ListenerTypes
<1>1. /\ DOMAIN inbound = 1..n /\ n \in Nat
      /\ DOMAIN inbound' = 1..(n + 1)
      /\ inbound'[n + 1] = c
      /\ \A i \in 1..n : inbound'[i] = inbound[i]
  BY <1>0 DEF CommandArrives
<1>2. UNCHANGED <<listener, current, isolated, lost, nftErrors>>
  BY DEF CommandArrives, nftVars
<1>3. CASE c \in Orders
  <2>1. wanted' = c
    BY <1>3 DEF CommandArrives, Orders
  <2>2. Queued'
    BY <1>1, <1>3, <2>1 DEF Queued, Orders
  <2> QED
    BY <2>2 DEF Pending
<1>4. CASE c \notin Orders
  <2>1. wanted' = wanted
    BY <1>4 DEF CommandArrives, Orders
  <2>2. Queued => Queued'
    <3> SUFFICES ASSUME Queued PROVE Queued'
      OBVIOUS
    <3>1. PICK i \in DOMAIN inbound :
             /\ inbound[i] = wanted /\ wanted \in Orders
             /\ \A j \in DOMAIN inbound : j > i => inbound[j] \notin Orders
      BY DEF Queued
    <3>2. i \in DOMAIN inbound' /\ inbound'[i] = wanted' /\ wanted' \in Orders
      BY <1>1, <2>1, <3>1
    <3>3. \A j \in DOMAIN inbound' : j > i => inbound'[j] \notin Orders
      BY <1>1, <1>4, <3>1
    <3> QED
      BY <3>2, <3>3 DEF Queued
  <2>3. Served => Served'
    BY <1>1, <1>2, <1>4, <2>1 DEF Served
  <2> QED
    BY <1>2, <2>2, <2>3 DEF Pending
<1> QED
  BY <1>3, <1>4

\* The head of the channel goes to the handler; an order in it is the last
\* one if none is left behind it.
LEMMA PollPending ==
    ASSUME TypeOK, Pending, PollCommand
    PROVE  Pending'
<1> DEFINE n == Len(inbound)
<1>0. inbound \in Seq(Commands) /\ inbound # <<>>
  BY DEF TypeOK, ListenerTypes, PollCommand
<1>1. /\ DOMAIN inbound = 1..n /\ n \in Nat /\ n > 0
      /\ DOMAIN inbound' = 1..(n - 1)
      /\ \A i \in 1..(n - 1) : inbound'[i] = inbound[i + 1]
      /\ current' = inbound[1] /\ listener' = "handle" /\ listener = "poll"
  BY <1>0 DEF PollCommand
<1>2. UNCHANGED <<wanted, isolated, lost, nftErrors>>
  BY DEF PollCommand, nftVars, histVars
<1>3. Queued => Queued' \/ Served'
  <2> SUFFICES ASSUME Queued PROVE Queued' \/ Served'
    OBVIOUS
  <2>1. PICK i \in DOMAIN inbound :
           /\ inbound[i] = wanted /\ wanted \in Orders
           /\ \A j \in DOMAIN inbound : j > i => inbound[j] \notin Orders
    BY DEF Queued
  <2>2. CASE i = 1
    <3>1. \A j \in DOMAIN inbound' : inbound'[j] \notin Orders
      BY <1>1, <2>1, <2>2
    <3>2. current' = wanted'
      BY <1>1, <1>2, <2>1, <2>2
    <3> QED
      BY <1>1, <1>2, <2>1, <3>1, <3>2 DEF Served
  <2>3. CASE i > 1
    <3>1. i - 1 \in DOMAIN inbound' /\ inbound'[i - 1] = wanted' /\ wanted' \in Orders
      BY <1>1, <1>2, <2>1, <2>3
    <3>2. \A j \in DOMAIN inbound' : j > i - 1 => inbound'[j] \notin Orders
      BY <1>1, <2>1, <2>3
    <3> QED
      BY <3>1, <3>2 DEF Queued
  <2> QED
    BY <1>1, <2>1, <2>2, <2>3
<1>4. Served => Served'
  <2> SUFFICES ASSUME Served PROVE Served'
    OBVIOUS
  <2>1. \A j \in DOMAIN inbound' : inbound'[j] \notin Orders
    BY <1>1 DEF Served
  <2>2. current' \notin Orders
    BY <1>1 DEF Served
  <2> QED
    BY <1>1, <1>2, <2>1, <2>2 DEF Served
<1> QED
  BY <1>2, <1>3, <1>4 DEF Pending

\* What the handler was given is done when it returns, or nft has failed.
LEMMA HandlePending ==
    ASSUME TypeOK, Pending, HandleIsolate \/ HandleRelease \/ HandleOther
    PROVE  Pending'
<1>1. UNCHANGED <<inbound, wanted, lost>> /\ listener = "handle" /\ listener' = "poll"
  BY DEF HandleIsolate, HandleRelease, HandleOther, Returns
<1>2. Queued => Queued'
  BY <1>1 DEF Queued
<1>3. nftErrors \in Nat
  BY DEF TypeOK, NftTypes
<1>4. nftErrors' = 0 => nftErrors = 0
  BY <1>3 DEF HandleIsolate, HandleRelease, HandleOther, isolate, isolate_fails,
              de_isolate, de_isolate_masked, de_isolate_fails, nftVars
<1>5. nftErrors' = 0 /\ Served => Served'
  <2> SUFFICES ASSUME nftErrors' = 0, Served PROVE Served'
    OBVIOUS
  <2>1. \A j \in DOMAIN inbound' : inbound'[j] \notin Orders
    BY <1>1 DEF Served
  <2>2. CASE HandleIsolate
    <3>1. wanted' = "isolate"
      BY <1>1, <2>2 DEF Served, HandleIsolate, Orders
    <3>2. isolated' = TRUE
      BY <1>3, <2>2 DEF HandleIsolate, isolate, isolate_fails
    <3> QED
      BY <1>1, <2>1, <3>1, <3>2 DEF Served
  <2>3. CASE HandleRelease
    <3>1. wanted' = "release"
      BY <1>1, <2>3 DEF Served, HandleRelease, Orders
    <3>2. isolated' = FALSE
      BY <1>3, <2>3 DEF HandleRelease, de_isolate, de_isolate_masked, de_isolate_fails
    <3> QED
      BY <1>1, <2>1, <3>1, <3>2 DEF Served
  <2>4. CASE HandleOther
    <3>1. current \notin Orders /\ isolated' = isolated
      BY <2>4 DEF HandleOther, Orders, nftVars
    <3> QED
      BY <1>1, <2>1, <3>1 DEF Served
  <2> QED
    BY <2>2, <2>3, <2>4
<1> QED
  BY <1>1, <1>2, <1>4, <1>5 DEF Pending

\* An agent that ends with nothing in hand has served the last order.
LEMMA DiesPending ==
    ASSUME TypeOK, Pending, Dies
    PROVE  Pending'
<1>1. /\ inbound' = <<>> /\ listener' = "poll" /\ lost' = (lost \/ InHand)
      /\ UNCHANGED <<wanted, isolated, nftErrors>>
  BY DEF Dies, Gone, nftVars
<1>2. SUFFICES ASSUME ~lost', nftErrors' = 0 PROVE Served'
  BY DEF Pending
<1>3. ~lost /\ inbound = <<>> /\ listener # "handle" /\ nftErrors = 0
  BY <1>1, <1>2 DEF InHand
<1>4. Served
  BY <1>3 DEF Pending, Queued
<1> QED
  BY <1>1, <1>3, <1>4 DEF Served

\* Pending is kept.
LEMMA NextPending == TypeOK /\ Idle /\ Pending /\ [Next]_vars => Pending'
<1> SUFFICES ASSUME TypeOK, Idle, Pending, [Next]_vars PROVE Pending'
  OBVIOUS
<1>1. CASE StartNext
  <2>1. UNCHANGED orderVars
        /\ (UNCHANGED <<listener, current>> \/ (listener # "handle" /\ listener' # "handle"))
    BY <1>1 DEF StartNext, Start, ConnectOk, ConnectFails, Enroll, EnrollFails, Truncate,
                Write, OpenStream, Idle, orderVars, nftVars, listenerVars, histVars
  <2> QED
    BY <2>1, PendingKept
<1>2. CASE ListenerNext
  <2>1. CASE PollEmpty \/ PollClosed \/ Reconnect \/ Wakes
    <3>1. UNCHANGED orderVars
          /\ (UNCHANGED <<listener, current>>
                \/ (listener # "handle" /\ listener' # "handle"))
      BY <2>1 DEF PollEmpty, PollClosed, Reconnect, Wakes, orderVars, nftVars, histVars
    <3> QED
      BY <3>1, PendingKept
  <2> QED
    BY <1>2, <2>1, PollPending, HandlePending DEF ListenerNext
<1>3. CASE FaultNext
  <2>1. CASE AdminStarts \/ LinkBreaks \/ ServerDown \/ ServerBack \/ TokenExpires
    <3>1. UNCHANGED orderVars /\ UNCHANGED <<listener, current>>
      BY <2>1 DEF AdminStarts, LinkBreaks, ServerDown, ServerBack, TokenExpires,
                  orderVars, nftVars, listenerVars, histVars
    <3> QED
      BY <3>1, PendingKept
  <2>2. CASE DiesInHandler \/ Reboot
    BY <2>2 DEF DiesInHandler, Reboot, Pending
  <2> QED
    BY <1>3, <2>1, <2>2, DiesPending DEF FaultNext
<1>4. CASE UNCHANGED vars
  BY <1>4, PendingKept DEF vars, orderVars, nftVars, listenerVars, histVars
<1> QED
  BY <1>1, <1>2, <1>3, <1>4, ArrivalPending DEF Next

-----------------------------------------------------------------------------
(* Theorems *)

\* The conjunction is inductive.
LEMMA NextIInv == IInv /\ [Next]_vars => IInv'
  BY NextTypes, NextIdle, NextSaving, NextPending, NextAnswers DEF IInv

\* It holds in the beginning.
LEMMA InitIInv == Init => IInv
<1> SUFFICES ASSUME Init PROVE IInv
  OBVIOUS
<1>1. Idle /\ Saving /\ AnswerStaysTrue
  BY DEF Init, Idle, Saving, AnswerStaysTrue
<1>2. Served
  <2>1. inbound = <<>> /\ listener = "poll" /\ wanted = "none" /\ isolated = FALSE
    BY DEF Init, NftInit
  <2> QED
    BY <2>1 DEF Served
<1> QED
  BY <1>1, <1>2, InitTypes DEF IInv, Pending

\* The inductive invariant of the agent's life.
THEOREM Inductive == Spec => []IInv
  BY InitIInv, NextIInv, PTL DEF Spec

\* The types of the agent, its server and its host; the delays of the listener
\* are those of delay_ms and the channel keeps its capacity.
THEOREM TypeCorrect == Spec => []TypeOK
<1>1. IInv => TypeOK
  BY DEF IInv
<1> QED
  BY <1>1, Inductive, PTL

\* In a plain config main has saved the id the server assigned before it
\* sends READY, and what save_node_id_to_config leaves can be read again but
\* for a second node_id behind an indented one.
THEOREM NamedWhenRunning == Spec => []RunningIsNamed
<1>1. IInv => RunningIsNamed
  BY DEF IInv, Saving, RunningIsNamed
<1> QED
  BY <1>1, Inductive, PTL

\* handle_command obeys the last word, through reconnections and restarts.
THEOREM LastWordObeyed == Spec => []ObeysLast
<1>1. IInv => ObeysLast
  <2> SUFFICES ASSUME IInv, ~lost, nftErrors = 0, ~InHand
               PROVE  isolated <=> wanted = "isolate"
    BY DEF ObeysLast
  <2>1. inbound = <<>> /\ listener # "handle"
    BY DEF InHand
  <2>2. Served
    BY <2>1 DEF IInv, Pending, Queued
  <2> QED
    BY <2>1, <2>2 DEF Served
<1> QED
  BY <1>1, Inductive, PTL

\* The answers of handle_command outlive the agent that gave them.
THEOREM AnswersStayTrue == Spec => []AnswerStaysTrue
<1>1. IInv => AnswerStaysTrue
  BY DEF IInv
<1> QED
  BY <1>1, Inductive, PTL

\* save_node_id_to_config opens the file only when it does not name the node.
THEOREM ConfigStays == Spec => NamedConfigStays
<1>1. IInv /\ [Next]_vars => [(conf # NoId /\ conf = node) => UNCHANGED fileVars]_vars
  <2> SUFFICES ASSUME IInv, [Next]_vars, conf # NoId, conf = node
               PROVE  UNCHANGED fileVars
    OBVIOUS
  <2>2. phase \notin {"save", "write"}
    BY DEF IInv, Saving
  <2> QED
    BY <2>2 DEF Next, StartNext, Start, ConnectOk, ConnectFails, Enroll, EnrollFails,
         Truncate, Write, OpenStream, ListenerNext, PollEmpty, PollCommand,
         HandleIsolate, HandleRelease, HandleOther, Returns, PollClosed, Reconnect,
         Wakes, FaultNext, Dies, DiesInHandler, AdminStarts, Reboot, LinkBreaks,
         ServerDown, ServerBack, TokenExpires, CommandArrives, procVars, vars
<1> QED
  BY <1>1, Inductive, PTL DEF Spec, NamedConfigStays

-----------------------------------------------------------------------------
(* The delays of the listener *)

\* While polls fail, the delay is the one for the number of failures.
InPace == errs # 0 => backoff = delay_ms(errs)

\* The delays delay_ms can give.
LEMMA Delays ==
    /\ delay_ms(1) = 100 /\ delay_ms(2) = 200 /\ delay_ms(3) = 400
    /\ delay_ms(4) = 800 /\ delay_ms(5) = 1600 /\ delay_ms(6) = 3200
    /\ delay_ms(7) = 6400 /\ delay_ms(8) = 12800 /\ delay_ms(9) = 12800
<1>1. /\ 2 ^ 1 = 2 /\ 2 ^ 2 = 4 /\ 2 ^ 3 = 8 /\ 2 ^ 4 = 16 /\ 2 ^ 5 = 32 /\ 2 ^ 6 = 64
      /\ 2 ^ 7 = 128 /\ 2 ^ 8 = 256
  OBVIOUS
<1> QED
  BY <1>1 DEF delay_ms, Lesser, CMD_BACKOFF_BASE_MS, CMD_MAX_BACKOFF_ERRORS,
              CMD_BACKOFF_CEILING_MS

\* One more failure doubles the delay, up to the ceiling.
LEMMA DelayDoubles ==
    ASSUME NEW n \in 1..9
    PROVE  delay_ms(Lesser(n + 1, 9)) = Lesser(2 * delay_ms(n), 12800)
<1>1. n = 1 \/ n = 2 \/ n = 3 \/ n = 4 \/ n = 5 \/ n = 6 \/ n = 7 \/ n = 8 \/ n = 9
  OBVIOUS
<1>2. Lesser(n + 1, 9) = IF n = 9 THEN 9 ELSE n + 1
  BY DEF Lesser
<1> QED
  BY <1>1, <1>2, Delays DEF Lesser

\* Only a failed poll computes a delay, and only a success or a new listener
\* starts the count again.
LEMMA NextInPace == IInv /\ InPace /\ [Next]_vars => InPace'
<1> SUFFICES ASSUME InPace, [Next]_vars PROVE InPace'
  OBVIOUS
<1>1. CASE PollClosed
  BY <1>1 DEF PollClosed, InPace
<1>2. CASE errs' = 0
  BY <1>2 DEF InPace
<1>3. CASE errs' = errs /\ backoff' = backoff
  BY <1>3 DEF InPace
<1>4. CASE StartNext
  BY <1>2, <1>3, <1>4 DEF StartNext, Start, ConnectOk, ConnectFails, Retry, Enroll,
         EnrollFails, Truncate, Write, OpenStream, listenerVars
<1>5. CASE ListenerNext
  BY <1>1, <1>2, <1>3, <1>5 DEF ListenerNext, PollEmpty, PollCommand, HandleIsolate,
         HandleRelease, HandleOther, Returns, Reconnect, Wakes
<1>6. CASE FaultNext
  BY <1>2, <1>3, <1>6 DEF FaultNext, Dies, DiesInHandler, AdminStarts, Reboot, Gone,
         LinkBreaks, ServerDown, ServerBack, TokenExpires, listenerVars
<1>7. ASSUME NEW c \in Command, CommandArrives(c) PROVE InPace'
  BY <1>3, <1>7 DEF CommandArrives
<1>8. CASE UNCHANGED vars
  BY <1>3, <1>8 DEF vars, listenerVars
<1> QED
  BY <1>4, <1>5, <1>6, <1>7, <1>8 DEF Next

\* The listener waits twice as long after every failed poll, up to 12.8 s.
THEOREM DelaysDouble == Spec => BackoffDoubles
<1>1. Init => InPace
  BY DEF Init, InPace
<1>2. IInv /\ InPace /\ [Next]_vars =>
        [(listener = "poll" /\ listener' = "reconnect" /\ errs # 0) =>
            backoff' = Lesser(2 * backoff, CMD_BACKOFF_CEILING_MS)]_vars
  <2> SUFFICES ASSUME IInv, InPace, [Next]_vars, errs # 0,
                      listener = "poll", listener' = "reconnect"
               PROVE  backoff' = Lesser(2 * backoff, CMD_BACKOFF_CEILING_MS)
    OBVIOUS
  <2>1. PollClosed
    BY DEF Next, StartNext, Start, ConnectOk, ConnectFails, Retry, Enroll, EnrollFails,
         Truncate, Write, OpenStream, ListenerNext, PollEmpty, PollCommand,
         HandleIsolate, HandleRelease, HandleOther, Returns, Reconnect, Wakes,
         FaultNext, Dies, DiesInHandler, AdminStarts, Reboot, Gone, LinkBreaks,
         ServerDown, ServerBack, TokenExpires, CommandArrives, listenerVars, vars
  <2>2. errs \in 0..9 /\ backoff' = delay_ms(Lesser(errs + 1, 9))
    BY <2>1 DEF PollClosed, IInv, TypeOK, ListenerTypes
  <2>3. errs \in 1..9 /\ backoff = delay_ms(errs)
    BY <2>2 DEF InPace
  <2> QED
    BY <2>2, <2>3, DelayDoubles DEF CMD_BACKOFF_CEILING_MS
<1> QED
  BY <1>1, <1>2, Inductive, NextInPace, PTL DEF Spec, BackoffDoubles

=============================================================================
