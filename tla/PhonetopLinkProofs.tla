------------------------- MODULE PhonetopLinkProofs -------------------------
(***************************************************************************)
(* What the mirroring source promises holds with the client of the         *)
(* repository at the other end as well, whenever the client process ends,  *)
(* is started again, or writes a command before it is spoken to.           *)
(***************************************************************************)
EXTENDS PhonetopLink, WifiDisplaySourceProofs

------------------------------------------------------------------------------
(* The steps of the two ends *)

LEMMA StepCases ==
  ASSUME [Next]_allVars
  PROVE  \/ SourceNext /\ UNCHANGED <<rtspVars, linkVars>>
         \/ ClientStep
         \/ UNCHANGED allVars
<1>1. SourceStep => SourceNext /\ UNCHANGED <<rtspVars, linkVars>>
  BY DEF SourceStep, SourceNext, ServiceCalls
<1> QED BY <1>1 DEF Next

------------------------------------------------------------------------------
(* What the client writes *)

\* The client writes messages, or its end, behind what is in the queue.
Writes(k) ==
  /\ UNCHANGED <<nextSession, open, RtspSocket>>
  /\ RtspSocket \in open
  /\ Len(inbox') = Len(inbox) + k
  /\ \A i \in 1 .. Len(inbox) : inbox'[i] = inbox[i]
  /\ \A i \in Len(inbox) + 1 .. Len(inbox) + k :
       inbox'[i].what \in {"data", "error"} /\ inbox'[i].sid = RtspSocket

ClientMessage == SinkRequest \cup SinkResponse

LEMMA WrittenTyped ==
  ASSUME NetTypeOK, ConnectionUp, NEW msgs \in Seq(ClientMessage), Written(msgs)
  PROVE  /\ inbox' \in Seq(Notification)
         /\ UNCHANGED <<nextSession, open, RtspSocket>> => Writes(Len(msgs))
<1> DEFINE es == [i \in DOMAIN msgs |->
                    [what |-> "data", sid |-> RtspSocket, msg |-> msgs[i]]]
<1>1. /\ Len(msgs) \in Nat /\ DOMAIN msgs = 1 .. Len(msgs)
      /\ \A i \in 1 .. Len(msgs) : msgs[i] \in ClientMessage
  BY LenProperties, ElementOfSeq
<1>2. \A i \in 1 .. Len(msgs) : es[i] \in Notification /\ es[i].what = "data" /\ es[i].sid = RtspSocket
  BY <1>1 DEF NetTypeOK, ConnectionUp, Notification, ClientMessage
<1>3. es \in Seq(Notification) /\ Len(es) = Len(msgs)
  BY <1>1, <1>2
<1>4. inbox' = inbox \o es /\ inbox \in Seq(Notification) /\ Len(inbox) \in Nat
  BY LenProperties DEF NetTypeOK, Written
<1> HIDE DEF es
<1>5. /\ inbox' \in Seq(Notification)
      /\ Len(inbox') = Len(inbox) + Len(msgs)
      /\ \A i \in 1 .. Len(inbox) : inbox'[i] = inbox[i]
      /\ \A i \in Len(inbox) + 1 .. Len(inbox) + Len(msgs) : inbox'[i] = es[i - Len(inbox)]
  BY <1>1, <1>3, <1>4, ConcatProperties
<1> QED BY <1>1, <1>2, <1>4, <1>5 DEF Writes, ConnectionUp

LEMMA DiesTyped ==
  ASSUME NetTypeOK, Dies
  PROVE  /\ inbox' \in Seq(Notification)
         /\ process' = "dead"
         /\ ~ConnectionUp => UNCHANGED inbox
         /\ ConnectionUp =>
              inbox' = Append(inbox, [what |-> "error", sid |-> RtspSocket])
         /\ ConnectionUp /\ UNCHANGED <<nextSession, open, RtspSocket>> => Writes(1)
<1>1. CASE ~ConnectionUp
  BY <1>1 DEF Dies, NetTypeOK
<1>2. CASE ConnectionUp
  <2> DEFINE e == [what |-> "error", sid |-> RtspSocket]
  <2>1. e \in Notification /\ inbox' = Append(inbox, e) /\ inbox \in Seq(Notification)
    BY <1>2 DEF Dies, NetTypeOK, ConnectionUp, Notification, PostError
  <2>2. /\ Len(inbox) \in Nat /\ Len(inbox') = Len(inbox) + 1 /\ inbox'[Len(inbox) + 1] = e
        /\ \A i \in 1 .. Len(inbox) : inbox'[i] = inbox[i]
        /\ inbox' \in Seq(Notification)
    BY <2>1, AppendProperties, LenProperties
  <2> QED BY <1>2, <2>1, <2>2 DEF Dies, Writes, ConnectionUp
<1> QED BY <1>1, <1>2

------------------------------------------------------------------------------
(* The steps of the client *)

\* A client whose socket is gone, or that is gone itself, lets go of it.
LetsGo == (~ConnectionUp \/ process = "dead") /\ RtspSocket' = NoSession

\* The client does one of four things to the queue.
ClientDoes ==
  \/ ConnectRtspServer
  \/ \E k \in Nat : Writes(k) /\ UNCHANGED process
  \/ Writes(1) /\ process' = "dead" /\ inbox'[Len(inbox')].what = "error"
  \/ /\ UNCHANGED <<nextSession, open, inbox>>
     /\ UNCHANGED RtspSocket \/ LetsGo
     /\ UNCHANGED process \/ ~ConnectionUp \/ (process = "dead" /\ RtspSocket' = NoSession)

LEMMA ReaderSendsDoes ==
  ASSUME NetTypeOK, UNCHANGED <<nextSession, open>>,
         NEW msgs \in Seq(ClientMessage), NEW state \in 0 .. 8, ReaderSends(msgs, state)
  PROVE  ClientDoes /\ inbox' \in Seq(Notification) /\ (RtspTypeOK => RtspTypeOK')
<1>1. CASE ConnectionUp /\ Written(msgs) /\ RtspState' = state /\ UNCHANGED <<RtspSocket, reader, process>>
  <2>1. Writes(Len(msgs)) /\ Len(msgs) \in Nat /\ inbox' \in Seq(Notification)
    BY <1>1, WrittenTyped, LenProperties
  <2> QED BY <1>1, <2>1 DEF ClientDoes, RtspTypeOK
<1>2. CASE ~ConnectionUp /\ UNCHANGED <<inbox, process>> /\ RtspSocket' \in {RtspSocket, NoSession}
           /\ reader' \in {reader, "ended"} /\ RtspState' \in {RtspState, state}
  BY <1>2 DEF ClientDoes, LetsGo, RtspTypeOK, NetTypeOK
<1>3. CASE ~ConnectionUp /\ Dies /\ UNCHANGED <<RtspState, RtspSocket, reader>>
  BY <1>3, DiesTyped DEF ClientDoes, RtspTypeOK, NetTypeOK
<1> QED BY <1>1, <1>2, <1>3 DEF ReaderSends

LEMMA ClientMessages ==
  ASSUME NEW method \in Methods, NEW cseq \in Nat
  PROVE  RtspRequest(method) \in ClientMessage /\ RtspResponse(cseq) \in ClientMessage
BY DEF RtspRequest, RtspResponse, ClientMessage, SinkRequest, SinkResponse

LEMMA ReadingTyped ==
  ASSUME NetTypeOK, RtspTypeOK, Reading
  PROVE  /\ RtspSocket \in Session
         /\ Packet \in SourceMessage
         /\ Packet.kind = "request" => Packet.cseq \in Nat
         /\ Consumed => toSink' \in [Session -> Seq(SourceMessage)]
<1>1. /\ RtspSocket \in Session
      /\ toSink \in [Session -> Seq(SourceMessage)] /\ toSink[RtspSocket] # << >>
  BY DEF NetTypeOK, RtspTypeOK, Reading
<1>2. Packet \in SourceMessage /\ Tail(toSink[RtspSocket]) \in Seq(SourceMessage)
  BY <1>1, HeadTailProperties DEF Packet
<1>3. Packet.kind = "request" => Packet.cseq \in Nat
  BY <1>2 DEF SourceMessage
<1>4. Consumed => toSink' \in [Session -> Seq(SourceMessage)]
  BY <1>1, <1>2 DEF Consumed
<1> QED BY <1>1, <1>2, <1>3, <1>4

\* What every step of the client keeps.
ClientKeeps ==
  /\ ClientDoes
  /\ inbox' \in Seq(Notification)
  /\ toSink' \in [Session -> Seq(SourceMessage)]
  /\ RtspTypeOK'

LEMMA NothingSent ==
  ASSUME NetTypeOK, RtspTypeOK, UNCHANGED <<nextSession, open, inbox, rtspVars>>
  PROVE  ClientDoes /\ inbox' \in Seq(Notification) /\ RtspTypeOK'
BY DEF ClientDoes, rtspVars, RtspTypeOK, NetTypeOK

LEMMA DiesDoes ==
  ASSUME NetTypeOK, RtspTypeOK, Dies, UNCHANGED <<nextSession, open, RtspSocket, RtspState, reader>>
  PROVE  ClientDoes /\ inbox' \in Seq(Notification) /\ RtspTypeOK'
<1>1. CASE ConnectionUp
  <2>1. Writes(1) /\ inbox' = Append(inbox, [what |-> "error", sid |-> RtspSocket])
    BY <1>1, DiesTyped
  <2>2. inbox'[Len(inbox')].what = "error"
    BY <2>1, AppendProperties, LenProperties DEF NetTypeOK
  <2> QED BY <2>1, <2>2, DiesTyped DEF ClientDoes, RtspTypeOK, NetTypeOK
<1>2. CASE ~ConnectionUp
  BY <1>2, DiesTyped DEF ClientDoes, RtspTypeOK, NetTypeOK
<1> QED BY <1>1, <1>2

LEMMA ReaderDoes ==
  ASSUME NetTypeOK, RtspTypeOK, ReaderStep
  PROVE  ClientKeeps
<1> USE DEF ClientKeeps
<1>1. CASE ReceiveOptions
  <2> DEFINE msgs == <<RtspResponse(Packet.cseq), RtspRequest("OPTIONS")>>
  <2>1. msgs \in Seq(ClientMessage) /\ 2 \in 0 .. 8 /\ toSink' \in [Session -> Seq(SourceMessage)]
    BY <1>1, ReadingTyped, ClientMessages DEF ReceiveOptions, PacketIs, Methods
  <2>2. ReaderSends(msgs, 2) /\ UNCHANGED <<nextSession, open>>
    BY <1>1 DEF ReceiveOptions
  <2> QED BY <2>1, <2>2, ReaderSendsDoes
<1>2. CASE ReceiveGetParameter
  <2> DEFINE msgs == <<RtspResponse(Packet.cseq)>>
             state == IF RtspState = 8 THEN 8 ELSE 3
  <2>1. /\ msgs \in Seq(ClientMessage) /\ state \in 0 .. 8
        /\ toSink' \in [Session -> Seq(SourceMessage)]
    BY <1>2, ReadingTyped, ClientMessages DEF ReceiveGetParameter, PacketIs, Methods
  <2>2. ReaderSends(msgs, state) /\ UNCHANGED <<nextSession, open>>
    BY <1>2 DEF ReceiveGetParameter
  <2> QED BY <2>1, <2>2, ReaderSendsDoes
<1>3. CASE ReceiveSetParameter
  <2> DEFINE one == <<RtspResponse(Packet.cseq)>>
             two == <<RtspResponse(Packet.cseq), RtspRequest("SETUP")>>
  <2>1. /\ one \in Seq(ClientMessage) /\ two \in Seq(ClientMessage) /\ 4 \in 0 .. 8 /\ 6 \in 0 .. 8
        /\ toSink' \in [Session -> Seq(SourceMessage)]
    BY <1>3, ReadingTyped, ClientMessages DEF ReceiveSetParameter, PacketIs, Methods
  <2>2. ReaderSends(one, 4) \/ ReaderSends(two, 6) \/ UNCHANGED <<inbox, rtspVars>>
    BY <1>3 DEF ReceiveSetParameter
  <2>3. UNCHANGED <<nextSession, open>>
    BY <1>3 DEF ReceiveSetParameter
  <2> QED BY <2>1, <2>2, <2>3, ReaderSendsDoes, NothingSent
<1>4. CASE ReceiveResponse
  <2> DEFINE play == <<RtspRequest("PLAY")>>
             pause == <<RtspRequest("PAUSE")>>
  <2>1. /\ play \in Seq(ClientMessage) /\ pause \in Seq(ClientMessage)
        /\ 7 \in 0 .. 8 /\ 8 \in 0 .. 8
        /\ toSink' \in [Session -> Seq(SourceMessage)]
    BY <1>4, ReadingTyped, ClientMessages DEF ReceiveResponse, Methods
  <2>2. \/ ReaderSends(play, 7) \/ ReaderSends(pause, 8) \/ UNCHANGED <<inbox, rtspVars>>
        \/ Dies /\ UNCHANGED <<RtspSocket, RtspState, reader>>
    BY <1>4 DEF ReceiveResponse, AdvanceOnResponse
  <2>3. UNCHANGED <<nextSession, open>>
    BY <1>4 DEF ReceiveResponse
  <2> QED BY <2>1, <2>2, <2>3, ReaderSendsDoes, NothingSent, DiesDoes
<1>5. CASE ReadEndOfStream
  BY <1>5 DEF ReadEndOfStream, ClientDoes, netVars, NetTypeOK, RtspTypeOK
<1> QED BY <1>1, <1>2, <1>3, <1>4, <1>5 DEF ReaderStep

LEMMA CommandDoes ==
  ASSUME NetTypeOK, RtspTypeOK, NEW method \in {"PLAY", "PAUSE"}, MainSends(method)
  PROVE  ClientKeeps
<1> USE DEF ClientKeeps, MainSends
<1> DEFINE msgs == <<RtspRequest(method)>>
<1>1. CASE ConnectionUp
  <2>1. msgs \in Seq(ClientMessage) /\ Written(msgs) /\ UNCHANGED process
    BY <1>1, ClientMessages DEF Methods
  <2>2. inbox' \in Seq(Notification) /\ Writes(Len(msgs)) /\ Len(msgs) \in Nat
    BY <1>1, <2>1, WrittenTyped
  <2>3. ClientDoes
    BY <2>1, <2>2 DEF ClientDoes
  <2> QED BY <2>2, <2>3 DEF RtspTypeOK, NetTypeOK
<1>2. CASE ~ConnectionUp
  BY <1>2 DEF ClientDoes, NetTypeOK, RtspTypeOK
<1> QED BY <1>1, <1>2

LEMMA ConnectDoes ==
  ASSUME NetTypeOK, RtspTypeOK, ConnectRtspServer
  PROVE  ClientKeeps
<1>1. [what |-> "connected", sid |-> nextSession, local |-> FALSE] \in Notification
  BY DEF ConnectRtspServer, Accept, Notification
<1>2. inbox' \in Seq(Notification)
  BY <1>1, AppendProperties DEF ConnectRtspServer, Accept, NetTypeOK
<1> QED BY <1>2 DEF ClientKeeps, ClientDoes, ConnectRtspServer, Accept, NetTypeOK, RtspTypeOK

\* Every step of the client.
LEMMA ClientStepKeeps ==
  ASSUME NetTypeOK, RtspTypeOK, ClientStep
  PROVE  ClientKeeps
<1>1. CASE ConnectRtspServer
  BY <1>1, ConnectDoes
<1>2. CASE ReaderStep
  BY <1>2, ReaderDoes
<1>3. CASE Command
  BY <1>3, CommandDoes DEF Command, requestPlay, requestPause
<1>4. CASE ProcessEnds
  BY <1>4, DiesDoes DEF ProcessEnds, ClientKeeps, NetTypeOK
<1>5. CASE ProcessRestarts
  BY <1>5 DEF ProcessRestarts, ClientKeeps, ClientDoes, LetsGo, netVars, NetTypeOK, RtspTypeOK
<1> QED BY <1>1, <1>2, <1>3, <1>4, <1>5 DEF ClientStep

------------------------------------------------------------------------------
(* Type correctness *)

LEMMA LinkVarsTyped ==
  ASSUME TypeOK, ClientStep
  PROVE  /\ commands' \in 0 .. MaxCommands
         /\ monitor' \in {"none", "START", "SLEEP"}
         /\ early' \in BOOLEAN
<1>1. CASE UNCHANGED linkVars
  BY <1>1 DEF linkVars, TypeOK
<1>2. CASE Command
  <2>1. commands' \in 0 .. MaxCommands
    BY <1>2, LinkAssumption DEF Command, TypeOK
  <2>2. monitor' \in {"none", "START", "SLEEP"}
    BY <1>2 DEF Command, TypeOK
  <2>3. early' \in BOOLEAN
    BY <1>2, Zenon DEF Command, TypeOK
  <2> QED BY <2>1, <2>2, <2>3
<1>3. CASE monitor' = "none" /\ early' = FALSE /\ UNCHANGED commands
  BY <1>3 DEF TypeOK
<1> QED BY <1>1, <1>2, <1>3 DEF ClientStep

\* Every step of the client keeps the types, and leaves the source as it is.
LEMMA ClientTyped == TypeOK /\ ClientStep => TypeOK'
<1> SUFFICES ASSUME TypeOK, ClientStep PROVE TypeOK'
  OBVIOUS
<1>1. NetTypeOK /\ RtspTypeOK /\ UNCHANGED sourceVars
  BY DEF TypeOK, SourceTyped, ClientStep
<1>2. ClientKeeps
  BY <1>1, ClientStepKeeps
<1>3. nextSession' \in 1 .. (MaxSessions + 1) /\ open' \subseteq Session
  <2>1. CASE ConnectRtspServer
    BY <1>1, <2>1, MaxSessionsAssumption DEF ConnectRtspServer, Accept, NetTypeOK, Session
  <2>2. CASE UNCHANGED <<nextSession, open>>
    BY <1>1, <2>2 DEF NetTypeOK
  <2> QED BY <1>2, <2>1, <2>2 DEF ClientKeeps, ClientDoes, Writes
<1>4. NetTypeOK'
  BY <1>2, <1>3 DEF ClientKeeps, NetTypeOK
<1>5. SourceTypeOK'
  BY <1>1 DEF TypeOK, SourceTyped, SourceTypeOK, sourceVars, clientVars, requestVars, hdcpVars,
              timerVars, playbackVars, stopVars
<1> QED BY <1>2, <1>4, <1>5, LinkVarsTyped DEF ClientKeeps, TypeOK, SourceTyped

\* Every variable of the phone, of the network and of the client has its type.
THEOREM LinkTypeCorrect == Spec => []TypeOK
<1>1. Init => TypeOK
  <2> SUFFICES ASSUME Init PROVE TypeOK
    OBVIOUS
  <2>1. SourceTyped
    BY InitTyped DEF Init
  <2>2. RtspTypeOK
    BY DEF Init, RtspInit, RtspTypeOK
  <2>3. commands = 0 /\ MaxCommands \in Nat
    BY LinkAssumption DEF Init
  <2>4. monitor \in {"none", "START", "SLEEP"} /\ early \in BOOLEAN
    BY Zenon DEF Init
  <2>5. commands \in 0 .. MaxCommands
    BY <2>3
  <2> QED BY <2>1, <2>2, <2>4, <2>5 DEF TypeOK
<1>2. TypeOK /\ [Next]_allVars => TypeOK'
  <2> SUFFICES ASSUME TypeOK, [Next]_allVars PROVE TypeOK'
    OBVIOUS
  <2>1. CASE SourceNext /\ UNCHANGED <<rtspVars, linkVars>>
    BY <2>1, SourceStepTyped DEF TypeOK, rtspVars, linkVars, RtspTypeOK
  <2>2. CASE ClientStep
    BY <2>2, ClientTyped
  <2>3. CASE UNCHANGED allVars
    BY <2>3, SourceTypedUnchanged DEF allVars, TypeOK, rtspVars, linkVars, RtspTypeOK
  <2> QED BY <2>1, <2>2, <2>3, StepCases
<1> QED BY <1>1, <1>2, PTL DEF Spec

------------------------------------------------------------------------------
(* Stages and connections *)

LEMMA ClientStepStages == ClientStep \/ UNCHANGED allVars => UNCHANGED stageVars
BY DEF ClientStep, allVars, vars, stageVars, sourceVars, clientVars, hdcpVars, timerVars,
       playbackVars, stopVars

\* Where a session, a stop and the report to the display service are is consistent
\* with this client too: no CHECK of ChecksHold fails.
THEOREM LinkStages == Spec => [](TypeOK /\ Stages)
<1>1. Init => Stages
  BY StagesInit DEF Init
<1>2. TypeOK /\ Stages /\ [Next]_allVars => Stages'
  BY SourceStagesStep, ClientStepStages, StagesUnchanged, StepCases DEF TypeOK
<1> QED BY <1>1, <1>2, LinkTypeCorrect, PTL DEF Spec

LEMMA ClientConnections ==
  ASSUME TypeOK, Connections, ClientStep
  PROVE  Connections'
<1>1. ClientDoes /\ UNCHANGED mClientSessionID
  BY ClientStepKeeps DEF TypeOK, SourceTyped, ClientKeeps, ClientStep, sourceVars, clientVars
<1>2. CASE ConnectRtspServer
  BY <1>1, <1>2, ConnectionsAccepted DEF ConnectRtspServer, TypeOK
<1>3. ASSUME NEW k \in Nat, Writes(k) PROVE Connections'
  <2>1. \A i \in Len(inbox) + 1 .. Len(inbox) + k :
          inbox'[i].what # "connected" /\ inbox'[i].sid \in open
    BY <1>3 DEF Writes
  <2> QED BY <1>1, <1>3, <2>1, ConnectionsGrow DEF Writes, TypeOK
<1>4. CASE UNCHANGED <<nextSession, open, inbox>>
  BY <1>1, <1>4, ConnectionsBeside DEF TypeOK
<1> QED BY <1>1, <1>2, <1>3, <1>4 DEF ClientDoes

\* The client's connection is open, and a connection is announced before anything
\* else is heard of it, also when the client writes at once.
THEOREM LinkConnections == Spec => [](TypeOK /\ Connections)
<1>1. Init => Connections
  BY ConnectionsInit DEF Init
<1>2. TypeOK /\ Connections /\ [Next]_allVars => Connections'
  <2>1. UNCHANGED allVars => UNCHANGED <<netVars, mClientSessionID>>
    BY DEF allVars, vars, sourceVars, clientVars
  <2> QED BY <2>1, SourceConnectionsStep, ClientConnections, ConnectionsUnchanged, StepCases
          DEF TypeOK
<1> QED BY <1>1, <1>2, LinkTypeCorrect, PTL DEF Spec

\* With the client of the repository the promises of the source hold as with any other:
\* no CHECK of the ones no order of events makes fail does, stop() is answered once, and
\* no connection leaks.
THEOREM LinkSafety == Spec => [](ChecksHold /\ StopAnsweredOnce /\ NoLeakedConnection)
<1>1. TypeOK /\ Stages => ChecksHold /\ StopAnsweredOnce
  BY DEF Stages, ChecksHold, StopCheck, PlayCheck, SessionCheck, StopStages, SessionStages,
         StopAnsweredOnce, DisplayStages, STOPPED, STOPPING, TypeOK, SourceTyped, SourceTypeOK
<1>2. Connections => NoLeakedConnection
  BY DEF Connections
<1> QED BY <1>1, <1>2, LinkStages, LinkConnections, PTL

\* The phone watches the client from SETUP on, whatever becomes of it.
THEOREM LinkWatchdog == Spec => []WatchdogArmed
<1>1. Init => WatchdogArmed
  BY DEF Init, SourceInit, WatchdogArmed
<1>2. TypeOK /\ Stages /\ Connections /\ WatchdogArmed /\ [Next]_allVars => WatchdogArmed'
  <2>1. ClientStep \/ UNCHANGED allVars => UNCHANGED armedVars
    BY DEF ClientStep, allVars, vars, armedVars, sourceVars, clientVars, timerVars
  <2> QED BY <2>1, SourceWatchdogStep, WatchdogUnchanged, StepCases DEF TypeOK
<1> QED BY <1>1, <1>2, LinkStages, LinkConnections, PTL DEF Spec

------------------------------------------------------------------------------
(* The media *)

\* Session ids are numbers below that of the next connection.
LEMMA IdsBelow ==
  ASSUME SourceTyped, Connections
  PROVE  /\ \A i \in 1 .. Len(inbox) : inbox[i].sid \in Nat \ {0} /\ inbox[i].sid < nextSession
         /\ nextSession \in Nat \ {0}
         /\ open \subseteq Nat \ {0}
         /\ mClientSessionID \in Nat /\ mClientSessionID < nextSession
<1>1. ASSUME NEW i \in 1 .. Len(inbox)
      PROVE  inbox[i].sid \in Nat \ {0} /\ inbox[i].sid < nextSession
  <2>1. inbox[i] \in Notification
    BY ElementOfSeq DEF SourceTyped, NetTypeOK
  <2>2. inbox[i].sid \in Nat \ {0}
    BY <2>1, MaxSessionsAssumption DEF Notification, Session
  <2> QED BY <2>2 DEF Connections, IdsInOrder
<1>2. nextSession \in Nat \ {0} /\ open \subseteq Nat \ {0}
  BY MaxSessionsAssumption DEF SourceTyped, NetTypeOK, Session
<1>3. mClientSessionID \in Nat
  BY MaxSessionsAssumption DEF SourceTyped, SourceTypeOK, Session, NoSession
<1>4. mClientSessionID < nextSession
  BY DEF Connections, IdsInOrder
<1> QED BY <1>1, <1>2, <1>3, <1>4

\* The connections of the client come in turn, whatever the source does.
LEMMA TurnOfSource ==
  ASSUME TypeOK, Connections, ConnectionsInTurn, SourceNext, UNCHANGED rtspVars
  PROVE  ConnectionsInTurn'
<1> USE DEF rtspVars
<1>1. /\ UNCHANGED nextSession /\ open' \subseteq open
      /\ inbox \in Seq(Notification) /\ SourceTyped
  BY ClosedAfterStep DEF TypeOK, SourceTyped, NetTypeOK
<1>2. \A i \in 1 .. Len(inbox) : inbox[i].sid \in Nat \ {0}
  BY <1>1, IdsBelow
<1>3. CASE UNCHANGED inbox
  <2>1. mClientSessionID' \in {mClientSessionID, NoSession}
    BY <1>3, ClosedAfterStep DEF TypeOK
  <2>2. \A i \in 1 .. Len(inbox) : mClientSessionID' <= inbox[i].sid
    BY <1>2, <2>1 DEF ConnectionsInTurn, NoSession
  <2> QED BY <1>1, <1>3, <2>2 DEF ConnectionsInTurn
<1>4. CASE inbox' # inbox
  <2> DEFINE n == Len(inbox)
  <2>1. /\ n \in Nat /\ 1 \in 1 .. n /\ Head(inbox) = inbox[1] /\ Len(inbox') = n - 1
        /\ \A i \in 1 .. Len(inbox') : i + 1 \in 1 .. n /\ inbox'[i] = inbox[i + 1]
    BY <1>1, <1>4, QueueAfterStep, ConsumeShifts
  <2>2. /\ mClientSessionID' \in {mClientSessionID, NoSession, inbox[1].sid}
        /\ inbox[1].what = "error" => inbox[1].sid \notin open'
    BY <1>4, <2>1, ClosedAfterStep DEF TypeOK
  <2>3. RtspSocket' # NoSession => RtspSocket' = nextSession' - 1
    BY <1>1 DEF ConnectionsInTurn
  <2>4. ASSUME NEW s \in open', s # RtspSocket' \/ process' = "dead"
        PROVE  \E i \in 1 .. Len(inbox') : inbox'[i].what = "error" /\ inbox'[i].sid = s
    <3>1. PICK i \in 1 .. n : inbox[i].what = "error" /\ inbox[i].sid = s
      BY <1>1, <2>4 DEF ConnectionsInTurn
    <3>2. i # 1
      BY <2>2, <3>1, <2>4
    <3>3. i - 1 \in 1 .. Len(inbox') /\ inbox'[i - 1] = inbox[i]
      BY <2>1, <3>1, <3>2
    <3> QED BY <3>1, <3>3
  <2>5. ASSUME NEW i \in 1 .. Len(inbox') PROVE mClientSessionID' <= inbox'[i].sid
    <3>1. i + 1 \in 1 .. n /\ inbox'[i] = inbox[i + 1] /\ 1 < i + 1
      BY <2>1
    <3>2. mClientSessionID <= inbox[i + 1].sid /\ inbox[1].sid <= inbox[i + 1].sid
      BY <2>1, <3>1 DEF ConnectionsInTurn
    <3> QED BY <1>2, <2>2, <3>1, <3>2 DEF NoSession
  <2>6. ASSUME NEW i \in 1 .. Len(inbox'), NEW j \in 1 .. Len(inbox'), i < j
        PROVE  inbox'[i].sid <= inbox'[j].sid
    <3>1. /\ i + 1 \in 1 .. n /\ inbox'[i] = inbox[i + 1]
          /\ j + 1 \in 1 .. n /\ inbox'[j] = inbox[j + 1]
          /\ i + 1 < j + 1
      BY <2>1, <2>6
    <3> QED BY <3>1 DEF ConnectionsInTurn
  <2> QED BY <2>3, <2>4, <2>5, <2>6 DEF ConnectionsInTurn
<1> QED BY <1>3, <1>4

\* The queue grows at its end by what is heard of the connection the client has.
LEMMA TurnOfWrites ==
  ASSUME TypeOK, Connections, ConnectionsInTurn, UNCHANGED mClientSessionID,
         NEW k \in Nat, Writes(k),
         \/ UNCHANGED process
         \/ k = 1 /\ inbox'[Len(inbox')].what = "error"
  PROVE  ConnectionsInTurn'
<1> DEFINE n == Len(inbox)
<1>1. /\ n \in Nat /\ inbox \in Seq(Notification)
      /\ Len(inbox') = n + k
      /\ \A i \in 1 .. n : inbox'[i] = inbox[i]
      /\ \A i \in n + 1 .. n + k : inbox'[i].sid = RtspSocket
      /\ UNCHANGED <<nextSession, open, RtspSocket>>
  BY LenProperties DEF Writes, TypeOK, SourceTyped, NetTypeOK
<1>2. /\ \A i \in 1 .. n : inbox[i].sid \in Nat /\ inbox[i].sid < nextSession
      /\ nextSession \in Nat /\ mClientSessionID \in Nat /\ mClientSessionID < nextSession
  BY IdsBelow DEF TypeOK
<1>3. RtspSocket = nextSession - 1
  BY MaxSessionsAssumption DEF Writes, ConnectionsInTurn, TypeOK, SourceTyped, NetTypeOK, Session,
                               NoSession
<1>4. ASSUME NEW s \in open', s # RtspSocket' \/ process' = "dead"
      PROVE  \E i \in 1 .. Len(inbox') : inbox'[i].what = "error" /\ inbox'[i].sid = s
  <2>1. CASE s # RtspSocket \/ process = "dead"
    <3>1. PICK i \in 1 .. n : inbox[i].what = "error" /\ inbox[i].sid = s
      BY <1>1, <1>4, <2>1 DEF ConnectionsInTurn
    <3> QED BY <1>1, <3>1
  <2>2. CASE s = RtspSocket /\ process # "dead"
    <3>1. k = 1 /\ inbox'[n + 1].what = "error"
      BY <1>1, <1>4, <2>2
    <3> QED BY <1>1, <2>2, <3>1
  <2> QED BY <2>1, <2>2
<1>5. ASSUME NEW i \in 1 .. Len(inbox') PROVE mClientSessionID' <= inbox'[i].sid
  <2>1. CASE i \in 1 .. n
    BY <1>1, <2>1 DEF ConnectionsInTurn
  <2>2. CASE i \in n + 1 .. n + k
    BY <1>1, <1>2, <1>3, <2>2
  <2> QED BY <1>1, <2>1, <2>2
<1>6. ASSUME NEW i \in 1 .. Len(inbox'), NEW j \in 1 .. Len(inbox'), i < j
      PROVE  inbox'[i].sid <= inbox'[j].sid
  <2>1. CASE j \in 1 .. n
    <3>1. i \in 1 .. n
      BY <1>1, <1>6, <2>1
    <3> QED BY <1>1, <1>6, <2>1, <3>1 DEF ConnectionsInTurn
  <2>2. CASE j \in n + 1 .. n + k
    <3>1. CASE i \in 1 .. n
      BY <1>1, <1>2, <1>3, <2>2, <3>1
    <3>2. CASE i \in n + 1 .. n + k
      BY <1>1, <1>2, <1>3, <2>2, <3>2
    <3> QED BY <1>1, <3>1, <3>2
  <2> QED BY <1>1, <2>1, <2>2
<1> QED BY <1>1, <1>4, <1>5, <1>6 DEF ConnectionsInTurn

\* A client without a connection makes the next.
LEMMA TurnOfConnect ==
  ASSUME TypeOK, Connections, ConnectionsInTurn, UNCHANGED mClientSessionID, ConnectRtspServer
  PROVE  ConnectionsInTurn'
<1> DEFINE n == Len(inbox)
           e == [what |-> "connected", sid |-> nextSession, local |-> FALSE]
<1>1. e \in Notification /\ inbox' = Append(inbox, e) /\ inbox \in Seq(Notification)
  BY DEF ConnectRtspServer, Accept, Notification, TypeOK, SourceTyped, NetTypeOK
<1>2. /\ n \in Nat /\ Len(inbox') = n + 1 /\ inbox'[n + 1] = e
      /\ \A i \in 1 .. n : inbox'[i] = inbox[i]
  BY <1>1, AppendProperties, LenProperties
<1>3. /\ nextSession \in Nat \ {0} /\ nextSession' = nextSession + 1
      /\ open' = open \cup {nextSession}
      /\ RtspSocket = NoSession /\ RtspSocket' = nextSession
      /\ process = "running" /\ process' = "running"
  BY MaxSessionsAssumption
     DEF ConnectRtspServer, Accept, TypeOK, SourceTyped, NetTypeOK, Session
<1>4. /\ \A i \in 1 .. n : inbox[i].sid \in Nat /\ inbox[i].sid < nextSession
      /\ mClientSessionID \in Nat /\ mClientSessionID < nextSession
      /\ open \subseteq Nat \ {0}
  BY IdsBelow DEF TypeOK
<1>5. ASSUME NEW s \in open', s # RtspSocket' \/ process' = "dead"
      PROVE  \E i \in 1 .. Len(inbox') : inbox'[i].what = "error" /\ inbox'[i].sid = s
  <2>1. s \in open /\ s # RtspSocket
    BY <1>3, <1>4, <1>5 DEF NoSession
  <2>2. PICK i \in 1 .. n : inbox[i].what = "error" /\ inbox[i].sid = s
    BY <2>1 DEF ConnectionsInTurn
  <2> QED BY <1>2, <2>2
<1>6. ASSUME NEW i \in 1 .. Len(inbox') PROVE mClientSessionID' <= inbox'[i].sid
  <2>1. CASE i \in 1 .. n
    BY <1>2, <2>1 DEF ConnectionsInTurn
  <2>2. CASE i = n + 1
    BY <1>2, <1>3, <1>4, <2>2
  <2> QED BY <1>2, <2>1, <2>2
<1>7. ASSUME NEW i \in 1 .. Len(inbox'), NEW j \in 1 .. Len(inbox'), i < j
      PROVE  inbox'[i].sid <= inbox'[j].sid
  <2>1. i \in 1 .. n
    BY <1>2, <1>7
  <2>2. CASE j \in 1 .. n
    BY <1>2, <1>7, <2>1, <2>2 DEF ConnectionsInTurn
  <2>3. CASE j = n + 1
    BY <1>2, <1>3, <1>4, <2>1, <2>3
  <2> QED BY <1>2, <2>2, <2>3
<1>8. RtspSocket' = nextSession' - 1
  BY <1>3
<1> QED BY <1>5, <1>6, <1>7, <1>8 DEF ConnectionsInTurn

LEMMA TurnOfClient ==
  ASSUME TypeOK, Connections, ConnectionsInTurn, ClientStep
  PROVE  ConnectionsInTurn'
<1>1. ClientDoes /\ UNCHANGED mClientSessionID
  BY ClientStepKeeps DEF TypeOK, SourceTyped, ClientKeeps, ClientStep, sourceVars, clientVars
<1>2. CASE /\ UNCHANGED <<nextSession, open, inbox>>
           /\ UNCHANGED RtspSocket \/ LetsGo
           /\ UNCHANGED process \/ ~ConnectionUp \/ (process = "dead" /\ RtspSocket' = NoSession)
  BY <1>1, <1>2 DEF ConnectionsInTurn, LetsGo, ConnectionUp
<1>3. CASE Writes(1) /\ process' = "dead" /\ inbox'[Len(inbox')].what = "error"
  BY <1>1, <1>3, TurnOfWrites
<1> QED BY <1>1, <1>2, <1>3, TurnOfWrites, TurnOfConnect DEF ClientDoes

LEMMA TurnOfStutter == ConnectionsInTurn /\ UNCHANGED allVars => ConnectionsInTurn'
BY DEF ConnectionsInTurn, allVars, vars, netVars, sourceVars, clientVars, rtspVars

\* The client's connections come in turn, as its processes do.
THEOREM LinkInTurn == Spec => []ConnectionsInTurn
<1>1. Init => ConnectionsInTurn
  BY DEF Init, NetInit, RtspInit, ConnectionsInTurn
<1>2. TypeOK /\ Connections /\ ConnectionsInTurn /\ [Next]_allVars => ConnectionsInTurn'
  BY TurnOfSource, TurnOfClient, TurnOfStutter, StepCases
<1> QED BY <1>1, <1>2, LinkConnections, PTL DEF Spec

\* So a request is the client's: nothing of an older connection is left in the queue,
\* and before a newer one is heard of, the source was told that its client is lost.
LEMMA LinkRequests ==
  ASSUME TypeOK, Connections, ConnectionsInTurn
  PROVE  RequestIsClients
<1> SUFFICES ASSUME inbox # << >>, Head(inbox).what = "data", Head(inbox).msg.kind = "request",
                    mClientSessionID # NoSession
             PROVE  mClientSessionID = Head(inbox).sid
  BY DEF RequestIsClients
<1>1. inbox \in Seq(Notification) /\ Len(inbox) \in Nat /\ 1 \in 1 .. Len(inbox) /\ Head(inbox) = inbox[1]
  BY EmptySeq, LenProperties DEF TypeOK, SourceTyped, NetTypeOK
<1>2. inbox[1].sid \in Nat /\ nextSession \in Nat /\ mClientSessionID \in Nat
  BY <1>1, IdsBelow DEF TypeOK
<1>3. mClientSessionID <= inbox[1].sid /\ inbox[1].sid < nextSession
  BY <1>1 DEF ConnectionsInTurn, Connections, IdsInOrder
<1>4. CASE mClientSessionID = RtspSocket
  BY <1>1, <1>2, <1>3, <1>4 DEF ConnectionsInTurn
<1>5. CASE mClientSessionID # RtspSocket
  <2>1. PICK i \in 1 .. Len(inbox) : inbox[i].what = "error" /\ inbox[i].sid = mClientSessionID
    BY <1>5 DEF ConnectionsInTurn, Connections, ClientIsOpen
  <2>2. i # 1
    BY <1>1, <2>1
  <2>3. inbox[1].sid <= inbox[i].sid
    BY <1>1, <2>1, <2>2 DEF ConnectionsInTurn
  <2> QED BY <1>1, <1>2, <1>3, <2>1, <2>3
<1> QED BY <1>4, <1>5

\* What the client was told is what the media does, as long as there is a client.
THEOREM LinkMedia == Spec => []MediaFollowsState
<1>1. Init => MediaFollowsState
  BY DEF Init, SourceInit, MediaFollowsState
<1>2. UNCHANGED <<mClientSessionID, mState, streaming>> /\ MediaFollowsState => MediaFollowsState'
  BY DEF MediaFollowsState
<1>3. ClientStep \/ UNCHANGED allVars => UNCHANGED <<mClientSessionID, mState, streaming>>
  BY DEF ClientStep, allVars, vars, sourceVars, clientVars, playbackVars
<1>4. TypeOK /\ Stages /\ Connections /\ ConnectionsInTurn /\ MediaFollowsState /\ [Next]_allVars
        => MediaFollowsState'
  BY <1>2, <1>3, SourceMediaStep, LinkRequests, StepCases DEF TypeOK
<1> QED BY <1>1, <1>4, LinkStages, LinkConnections, LinkInTurn, PTL DEF Spec

------------------------------------------------------------------------------
(* What is asked of the source and what the client is told *)

\* The queue, once its oldest notification is handled.
LEMMA AsksConsumed ==
  ASSUME TypeOK, inbox # << >>, Consume, UNCHANGED RtspSocket
  PROVE  /\ Len(inbox) \in Nat /\ 1 \in 1 .. Len(inbox) /\ Len(inbox') = Len(inbox) - 1
         /\ \A i \in 1 .. Len(inbox') : i + 1 \in 1 .. Len(inbox)
         /\ \A i \in 1 .. Len(inbox'), method \in Methods : Asks(i, method)' <=> Asks(i + 1, method)
<1>1. inbox \in Seq(Notification)
  BY DEF TypeOK, SourceTyped, NetTypeOK
<1>2. /\ Len(inbox) \in Nat /\ 1 \in 1 .. Len(inbox) /\ Len(inbox') = Len(inbox) - 1
      /\ \A i \in 1 .. Len(inbox') : i + 1 \in 1 .. Len(inbox) /\ inbox'[i] = inbox[i + 1]
  BY <1>1, ConsumeShifts
<1> QED BY <1>2 DEF Asks

\* The client writes k messages, of which the last is a request if `method' is one.
Requests(k, method) ==
  /\ Len(inbox') = Len(inbox) + k
  /\ \A i \in 1 .. Len(inbox), m \in Methods : Asks(i, m)' <=> Asks(i, m)
  /\ \A i \in Len(inbox) + 1 .. Len(inbox) + k, m \in Methods :
       Asks(i, m)' <=> i = Len(inbox) + k /\ m = method

LEMMA AsksWritten ==
  ASSUME TypeOK, ConnectionUp, UNCHANGED RtspSocket, NEW cseq \in Nat, NEW method \in Methods
  PROVE  /\ Written(<<RtspResponse(cseq)>>) => Requests(1, "none")
         /\ Written(<<RtspRequest(method)>>) => Requests(1, method)
         /\ Written(<<RtspResponse(cseq), RtspRequest(method)>>) => Requests(2, method)
<1>1. inbox \in Seq(Notification) /\ Len(inbox) \in Nat
  BY LenProperties DEF TypeOK, SourceTyped, NetTypeOK
<1>2. ASSUME NEW msgs \in Seq(ClientMessage), Written(msgs)
      PROVE  /\ Len(inbox') = Len(inbox) + Len(msgs) /\ Len(msgs) \in Nat
             /\ \A i \in 1 .. Len(inbox) : inbox'[i] = inbox[i]
             /\ \A i \in 1 .. Len(msgs) :
                  inbox'[Len(inbox) + i] = [what |-> "data", sid |-> RtspSocket, msg |-> msgs[i]]
  <2>1. /\ Len(msgs) \in Nat /\ DOMAIN msgs = 1 .. Len(msgs)
        /\ \A i \in 1 .. Len(msgs) : msgs[i] \in ClientMessage
    BY LenProperties, ElementOfSeq
  <2>2. PICK es \in Seq(Notification) :
          /\ Len(es) = Len(msgs) /\ inbox' = inbox \o es
          /\ \A i \in 1 .. Len(msgs) : es[i] = [what |-> "data", sid |-> RtspSocket, msg |-> msgs[i]]
    <3> DEFINE es == [i \in DOMAIN msgs |-> [what |-> "data", sid |-> RtspSocket, msg |-> msgs[i]]]
    <3>1. \A i \in 1 .. Len(msgs) : es[i] \in Notification
      BY <2>1 DEF TypeOK, SourceTyped, NetTypeOK, ConnectionUp, Notification, ClientMessage
    <3>2. es \in Seq(Notification) /\ Len(es) = Len(msgs)
      BY <2>1, <3>1
    <3>3. inbox' = inbox \o es
      BY <1>2 DEF Written
    <3>4. \A i \in 1 .. Len(msgs) : es[i] = [what |-> "data", sid |-> RtspSocket, msg |-> msgs[i]]
      BY <2>1
    <3> HIDE DEF es
    <3> QED BY <3>2, <3>3, <3>4
  <2>3. /\ Len(inbox') = Len(inbox) + Len(msgs)
        /\ \A i \in 1 .. Len(inbox) + Len(msgs) :
             inbox'[i] = IF i <= Len(inbox) THEN inbox[i] ELSE es[i - Len(inbox)]
    <3>1. /\ Len(inbox \o es) = Len(inbox) + Len(es)
          /\ \A i \in 1 .. Len(inbox) + Len(es) :
               (inbox \o es)[i] = IF i <= Len(inbox) THEN inbox[i] ELSE es[i - Len(inbox)]
      BY <1>1, ConcatProperties
    <3> QED BY <2>2, <3>1
  <2>4. ASSUME NEW i \in 1 .. Len(inbox) PROVE inbox'[i] = inbox[i]
    BY <1>1, <2>1, <2>3
  <2>5. ASSUME NEW i \in 1 .. Len(msgs) PROVE inbox'[Len(inbox) + i] = es[i]
    <3>1. /\ Len(inbox) + i \in 1 .. Len(inbox) + Len(msgs)
          /\ ~(Len(inbox) + i <= Len(inbox)) /\ Len(inbox) + i - Len(inbox) = i
      BY <1>1, <2>1
    <3> QED BY <2>3, <3>1
  <2> QED BY <2>1, <2>2, <2>3, <2>4, <2>5
<1>3. /\ RtspResponse(cseq) \in ClientMessage /\ RtspRequest(method) \in ClientMessage
      /\ RtspResponse(cseq).kind = "response"
      /\ RtspRequest(method).kind = "request" /\ RtspRequest(method).method = method
      /\ "none" \notin Methods
  BY ClientMessages DEF RtspResponse, RtspRequest, Methods
<1>4. ASSUME NEW msg \in ClientMessage, NEW i, i \in Nat,
             inbox'[i] = [what |-> "data", sid |-> RtspSocket, msg |-> msg]
      PROVE  \A m \in Methods : Asks(i, m)' <=> msg.kind = "request" /\ msg.method = m
  BY <1>4 DEF Asks
<1>5. ASSUME NEW msg \in ClientMessage, Written(<<msg>>)
      PROVE  /\ Len(inbox') = Len(inbox) + 1
             /\ \A i \in 1 .. Len(inbox), m \in Methods : Asks(i, m)' <=> Asks(i, m)
             /\ \A i \in Len(inbox) + 1 .. Len(inbox) + 1, m \in Methods :
                  Asks(i, m)' <=> msg.kind = "request" /\ msg.method = m
  <2>1. <<msg>> \in Seq(ClientMessage) /\ Len(<<msg>>) = 1 /\ <<msg>>[1] = msg /\ 1 \in 1 .. 1
    OBVIOUS
  <2>2. /\ Len(inbox') = Len(inbox) + 1
        /\ \A i \in 1 .. Len(inbox) : inbox'[i] = inbox[i]
        /\ inbox'[Len(inbox) + 1] = [what |-> "data", sid |-> RtspSocket, msg |-> msg]
    BY <1>2, <1>5, <2>1
  <2>3. \A i \in 1 .. Len(inbox), m \in Methods : Asks(i, m)' <=> Asks(i, m)
    BY <2>2 DEF Asks
  <2>4. ASSUME NEW i \in Len(inbox) + 1 .. Len(inbox) + 1, NEW m \in Methods
        PROVE  Asks(i, m)' <=> msg.kind = "request" /\ msg.method = m
    <3>1. i = Len(inbox) + 1 /\ i \in Nat
      BY <1>1
    <3> QED BY <1>4, <2>2, <3>1
  <2> QED BY <2>2, <2>3, <2>4
<1>6. \A i \in Len(inbox) + 1 .. Len(inbox) + 1 : i = Len(inbox) + 1
  BY <1>1
<1>7. Written(<<RtspResponse(cseq)>>) => Requests(1, "none")
  <2> DEFINE a == RtspResponse(cseq)
  <2>1. a \in ClientMessage /\ a.kind # "request"
    BY <1>3
  <2> HIDE DEF a
  <2>2. Written(<<a>>) => Requests(1, "none")
    BY <1>3, <1>5, <2>1 DEF Requests
  <2> QED BY <2>2 DEF a
<1>8. Written(<<RtspRequest(method)>>) => Requests(1, method)
  <2> DEFINE b == RtspRequest(method)
  <2>1. b \in ClientMessage /\ b.kind = "request" /\ b.method = method
    BY <1>3
  <2> HIDE DEF b
  <2>2. Written(<<b>>) => Requests(1, method)
    BY <1>5, <1>6, <2>1 DEF Requests
  <2> QED BY <2>2 DEF b
<1>9. ASSUME Written(<<RtspResponse(cseq), RtspRequest(method)>>) PROVE Requests(2, method)
  <2> DEFINE a == RtspResponse(cseq)
             b == RtspRequest(method)
             n == Len(inbox)
  <2>1. /\ <<a, b>> \in Seq(ClientMessage) /\ Len(<<a, b>>) = 2
        /\ <<a, b>>[1] = a /\ <<a, b>>[2] = b /\ 1 \in 1 .. 2 /\ 2 \in 1 .. 2
    BY <1>3
  <2>2. /\ Len(inbox') = n + 2
        /\ \A i \in 1 .. n : inbox'[i] = inbox[i]
        /\ inbox'[n + 1] = [what |-> "data", sid |-> RtspSocket, msg |-> a]
        /\ inbox'[n + 2] = [what |-> "data", sid |-> RtspSocket, msg |-> b]
    BY <1>2, <1>9, <2>1
  <2>3. \A i \in 1 .. n, m \in Methods : Asks(i, m)' <=> Asks(i, m)
    BY <2>2 DEF Asks
  <2>4. ASSUME NEW i \in n + 1 .. n + 2, NEW m \in Methods
        PROVE  Asks(i, m)' <=> i = n + 2 /\ m = method
    <3>1. i \in Nat /\ (i = n + 1 \/ i = n + 2) /\ n + 1 # n + 2
      BY <1>1
    <3>2. CASE i = n + 1
      BY <1>3, <1>4, <2>2, <3>1, <3>2
    <3>3. CASE i = n + 2
      BY <1>3, <1>4, <2>2, <3>1, <3>3
    <3> QED BY <3>1, <3>2, <3>3
  <2> QED BY <2>2, <2>3, <2>4 DEF Requests
<1> QED BY <1>7, <1>8, <1>9

\* The stream, once the client has read its oldest message,
LEMMA UnreadRead ==
  ASSUME TypeOK, Reading, Consumed, UNCHANGED RtspSocket
  PROVE  /\ Len(Unread) \in Nat /\ 1 \in 1 .. Len(Unread) /\ Unread[1] = Packet
         /\ Len(Unread') = Len(Unread) - 1
         /\ \A i \in 1 .. Len(Unread') : i + 1 \in 1 .. Len(Unread) /\ Unread'[i] = Unread[i + 1]
<1>1. Unread \in Seq(SourceMessage) /\ Unread # << >> /\ RtspSocket \in Session
  BY DEF TypeOK, SourceTyped, NetTypeOK, RtspTypeOK, Reading, Unread
<1>2. Unread' = Tail(Unread)
  BY <1>1 DEF Consumed, Unread, TypeOK, SourceTyped, NetTypeOK
<1>3. Packet = Head(Unread)
  BY DEF Packet, Unread
<1>4. Len(Unread) \in Nat /\ Len(Unread) # 0
  BY <1>1, EmptySeq, LenProperties
<1> HIDE DEF Unread
<1> QED BY <1>1, <1>2, <1>3, <1>4, HeadTailProperties

\* and once the source has told it one message, or two.
LEMMA UnreadTold ==
  ASSUME TypeOK, ConnectionUp, UNCHANGED RtspSocket, NEW msgs \in Seq(SourceMessage),
         Deliver(RtspSocket, msgs)
  PROVE  /\ Len(Unread) \in Nat /\ Len(msgs) \in Nat
         /\ Len(Unread') = Len(Unread) + Len(msgs)
         /\ \A i \in 1 .. Len(Unread) : Unread'[i] = Unread[i]
         /\ \A i \in 1 .. Len(msgs) : Unread'[Len(Unread) + i] = msgs[i]
<1>1. Unread \in Seq(SourceMessage) /\ RtspSocket \in Session
  BY DEF TypeOK, SourceTyped, NetTypeOK, ConnectionUp, Unread
<1>2. Unread' = Unread \o msgs
  BY <1>1 DEF Deliver, ConnectionUp, Unread, TypeOK, SourceTyped, NetTypeOK
<1> HIDE DEF Unread
<1>3. Len(Unread) \in Nat /\ Len(msgs) \in Nat
  BY <1>1, LenProperties
<1>4. /\ Len(Unread') = Len(Unread) + Len(msgs)
      /\ \A i \in 1 .. Len(Unread) : Unread'[i] = Unread[i]
      /\ \A i \in Len(Unread) + 1 .. Len(Unread) + Len(msgs) : Unread'[i] = msgs[i - Len(Unread)]
  BY <1>1, <1>2, <1>3, ConcatProperties
<1>5. ASSUME NEW i \in 1 .. Len(msgs) PROVE Unread'[Len(Unread) + i] = msgs[i]
  <2>1. Len(Unread) + i \in Len(Unread) + 1 .. Len(Unread) + Len(msgs) /\ Len(Unread) + i - Len(Unread) = i
    BY <1>3
  <2> QED BY <1>4, <2>1
<1> QED BY <1>3, <1>4, <1>5

------------------------------------------------------------------------------
(* The conversation, when the client acts *)

LEMMA NothingRequested ==
  ASSUME TypeOK, UNCHANGED <<inbox, RtspSocket>>
  PROVE  Requests(0, "none")
<1>1. Len(inbox) \in Nat
  BY LenProperties DEF TypeOK, SourceTyped, NetTypeOK
<1> QED BY <1>1 DEF Requests, Asks

\* What a reader that goes on may have read, and what it makes of it.
ReaderHears ==
  \/ Tells(1, {"M1"}) /\ RtspState' = 2 /\ Requests(2, "OPTIONS")
  \/ /\ Tells(1, {"M3", "M16"})
     /\ RtspState' = (IF RtspState = 8 THEN 8 ELSE 3)
     /\ Requests(1, "none")
  \/ /\ Tells(1, {"M4", "SETUP", "PLAY", "PAUSE", "TEARDOWN"})
     /\ \/ RtspState = 3 /\ RtspState' = 4 /\ Requests(1, "none")
        \/ RtspState = 4 /\ RtspState' = 6 /\ Requests(2, "SETUP")
        \/ RtspState \notin {3, 4} /\ RtspState' = RtspState /\ Requests(0, "none")
  \/ /\ Unread[1].kind = "response"
     /\ \/ RtspState = 6 /\ RtspState' = 7 /\ Requests(1, "PLAY")
        \/ RtspState = 7 /\ RtspState' = 8 /\ Requests(1, "PAUSE")
        \/ RtspState \notin {6, 7} /\ RtspState' = RtspState /\ Requests(0, "none")

ReadOne ==
  /\ Len(Unread) \in Nat /\ 1 \in 1 .. Len(Unread)
  /\ Len(Unread') = Len(Unread) - 1
  /\ \A i \in 1 .. Len(Unread') : i + 1 \in 1 .. Len(Unread) /\ Unread'[i] = Unread[i + 1]

LEMMA SendsHeard ==
  ASSUME ConnectionUp, process' = "running", NEW msgs, NEW state, ReaderSends(msgs, state)
  PROVE  Written(msgs) /\ RtspState' = state /\ UNCHANGED RtspSocket
BY DEF ReaderSends, Dies

LEMMA ReaderHeard ==
  ASSUME TypeOK, Healthy, Healthy', ReaderStep
  PROVE  UNCHANGED RtspSocket /\ ReadOne /\ ReaderHears
<1>1. ConnectionUp /\ process' = "running" /\ ~ReadEndOfStream
  BY DEF Healthy, ReadEndOfStream
<1>2. ASSUME Reading, Consumed, UNCHANGED RtspSocket
      PROVE  ReadOne /\ Unread[1] = Packet
  BY <1>2, UnreadRead DEF ReadOne
<1>3. Reading /\ Packet.kind = "request" => Packet.cseq \in Nat
  BY ReadingTyped DEF TypeOK, SourceTyped
<1>4. CASE ReceiveOptions
  <2>1. /\ Reading /\ Consumed /\ PacketIs({"M1"})
        /\ ReaderSends(<<RtspResponse(Packet.cseq), RtspRequest("OPTIONS")>>, 2)
    BY <1>4 DEF ReceiveOptions
  <2>2. /\ Written(<<RtspResponse(Packet.cseq), RtspRequest("OPTIONS")>>)
        /\ RtspState' = 2 /\ UNCHANGED RtspSocket
    BY <1>1, <2>1, SendsHeard
  <2>3. Requests(2, "OPTIONS")
    BY <1>1, <1>3, <2>1, <2>2, AsksWritten DEF PacketIs, Methods
  <2> QED BY <1>2, <2>1, <2>2, <2>3 DEF ReaderHears, Tells, PacketIs
<1>5. CASE ReceiveGetParameter
  <2> DEFINE state == IF RtspState = 8 THEN 8 ELSE 3
  <2>1. /\ Reading /\ Consumed /\ PacketIs({"M3", "M16"})
        /\ ReaderSends(<<RtspResponse(Packet.cseq)>>, state)
    BY <1>5 DEF ReceiveGetParameter
  <2>2. /\ Written(<<RtspResponse(Packet.cseq)>>)
        /\ RtspState' = state /\ UNCHANGED RtspSocket
    BY <1>1, <2>1, SendsHeard
  <2>3. Requests(1, "none")
    BY <1>1, <1>3, <2>1, <2>2, AsksWritten DEF PacketIs, Methods
  <2> QED BY <1>2, <2>1, <2>2, <2>3 DEF ReaderHears, Tells, PacketIs
<1>6. CASE ReceiveSetParameter
  <2>1. /\ Reading /\ Consumed /\ PacketIs({"M4", "SETUP", "PLAY", "PAUSE", "TEARDOWN"})
        /\ \/ RtspState = 3 /\ ReaderSends(<<RtspResponse(Packet.cseq)>>, 4)
           \/ /\ RtspState = 4
              /\ ReaderSends(<<RtspResponse(Packet.cseq), RtspRequest("SETUP")>>, 6)
           \/ RtspState \notin {3, 4} /\ UNCHANGED <<inbox, rtspVars>>
    BY <1>6 DEF ReceiveSetParameter
  <2>2. Packet.cseq \in Nat
    BY <1>3, <2>1 DEF PacketIs
  <2>3. ASSUME RtspState = 3, ReaderSends(<<RtspResponse(Packet.cseq)>>, 4)
        PROVE  RtspState' = 4 /\ UNCHANGED RtspSocket /\ Requests(1, "none")
    BY <1>1, <2>2, <2>3, SendsHeard, AsksWritten DEF Methods
  <2>4. ASSUME RtspState = 4, ReaderSends(<<RtspResponse(Packet.cseq), RtspRequest("SETUP")>>, 6)
        PROVE  RtspState' = 6 /\ UNCHANGED RtspSocket /\ Requests(2, "SETUP")
    BY <1>1, <2>2, <2>4, SendsHeard, AsksWritten DEF Methods
  <2>5. ASSUME UNCHANGED <<inbox, rtspVars>>
        PROVE  RtspState' = RtspState /\ UNCHANGED RtspSocket /\ Requests(0, "none")
    BY <2>5, NothingRequested DEF rtspVars
  <2>6. /\ UNCHANGED RtspSocket
        /\ \/ RtspState = 3 /\ RtspState' = 4 /\ Requests(1, "none")
           \/ RtspState = 4 /\ RtspState' = 6 /\ Requests(2, "SETUP")
           \/ RtspState \notin {3, 4} /\ RtspState' = RtspState /\ Requests(0, "none")
    BY <2>1, <2>3, <2>4, <2>5
  <2> QED BY <1>2, <2>1, <2>6 DEF ReaderHears, Tells, PacketIs
<1>7. CASE ReceiveResponse
  <2>1. /\ Reading /\ Consumed /\ Packet.kind = "response" /\ AdvanceOnResponse
    BY <1>1, <1>7 DEF ReceiveResponse, Dies
  <2>2. ASSUME ReaderSends(<<RtspRequest("PLAY")>>, 7)
        PROVE  RtspState' = 7 /\ UNCHANGED RtspSocket /\ Requests(1, "PLAY")
    BY <1>1, <2>2, SendsHeard, AsksWritten DEF Methods
  <2>3. ASSUME ReaderSends(<<RtspRequest("PAUSE")>>, 8)
        PROVE  RtspState' = 8 /\ UNCHANGED RtspSocket /\ Requests(1, "PAUSE")
    BY <1>1, <2>3, SendsHeard, AsksWritten DEF Methods
  <2>4. ASSUME UNCHANGED <<inbox, rtspVars>>
        PROVE  RtspState' = RtspState /\ UNCHANGED RtspSocket /\ Requests(0, "none")
    BY <2>4, NothingRequested DEF rtspVars
  <2>5. /\ UNCHANGED RtspSocket
        /\ \/ RtspState = 6 /\ RtspState' = 7 /\ Requests(1, "PLAY")
           \/ RtspState = 7 /\ RtspState' = 8 /\ Requests(1, "PAUSE")
           \/ RtspState \notin {6, 7} /\ RtspState' = RtspState /\ Requests(0, "none")
    BY <2>1, <2>2, <2>3, <2>4 DEF AdvanceOnResponse
  <2> QED BY <1>2, <2>1, <2>5 DEF ReaderHears
<1> QED BY <1>1, <1>4, <1>5, <1>6, <1>7 DEF ReaderStep

LEMMA AskedThen ==
  ASSUME TypeOK, NEW k \in 0 .. 2, NEW method, Requests(k, method), k = 0 => method \notin Methods
  PROVE  \A m \in Methods : Asked(m)' <=> Asked(m) \/ m = method
<1>1. Len(inbox) \in Nat
  BY LenProperties DEF TypeOK, SourceTyped, NetTypeOK
<1>2. ASSUME NEW m \in Methods, Asked(m)' PROVE Asked(m) \/ m = method
  <2>1. PICK i \in 1 .. Len(inbox') : Asks(i, m)'
    BY <1>2 DEF Asked
  <2>2. CASE i \in 1 .. Len(inbox)
    BY <2>1, <2>2 DEF Requests, Asked
  <2>3. CASE i \in Len(inbox) + 1 .. Len(inbox) + k
    BY <2>1, <2>3 DEF Requests
  <2> QED BY <1>1, <2>2, <2>3 DEF Requests
<1>3. ASSUME NEW m \in Methods, Asked(m) PROVE Asked(m)'
  <2>1. PICK i \in 1 .. Len(inbox) : Asks(i, m)
    BY <1>3 DEF Asked
  <2>2. i \in 1 .. Len(inbox') /\ Asks(i, m)'
    BY <1>1, <2>1 DEF Requests
  <2> QED BY <2>2 DEF Asked
<1>4. ASSUME NEW m \in Methods, m = method PROVE Asked(m)'
  <2> DEFINE n == Len(inbox) + k
  <2>1. n \in Len(inbox) + 1 .. Len(inbox) + k /\ n \in 1 .. Len(inbox')
    BY <1>1, <1>4 DEF Requests
  <2>2. \A i \in Len(inbox) + 1 .. Len(inbox) + k : i = n => Asks(i, m)'
    BY <1>4 DEF Requests
  <2>3. \E i \in 1 .. Len(inbox') : Asks(i, m)'
    BY <2>1, <2>2
  <2> QED BY <2>3 DEF Asked
<1> QED BY <1>2, <1>3, <1>4

LEMMA ToldThen ==
  ASSUME ReadOne, NEW tags
  PROVE  /\ Told(tags)' => Told(tags)
         /\ Told(tags) /\ ~Tells(1, tags) => Told(tags)'
         /\ \A i \in 1 .. Len(Unread') : Tells(i, tags)' => i + 1 \in 1 .. Len(Unread) /\ Tells(i + 1, tags)
         /\ Answered /\ Unread[1].kind # "response" => Answered'
<1> USE DEF ReadOne, Told, Tells, Answered
<1>1. \A i \in 1 .. Len(Unread') : Tells(i, tags)' => i + 1 \in 1 .. Len(Unread) /\ Tells(i + 1, tags)
  OBVIOUS
<1>2. ASSUME NEW i \in 1 .. Len(Unread), i # 1
      PROVE  i - 1 \in 1 .. Len(Unread') /\ Unread'[i - 1] = Unread[i]
  BY <1>2
<1>3. ASSUME Told(tags), ~Tells(1, tags) PROVE Told(tags)'
  BY <1>2, <1>3
<1>4. ASSUME Answered, Unread[1].kind # "response" PROVE Answered'
  BY <1>2, <1>4
<1> QED BY <1>1, <1>3, <1>4

\* What the steps of the reader leave alone.
SourceStays ==
  UNCHANGED <<mState, mPlaybackSession, mPlaybackSessionEstablished, streaming, monitor>>

ReaderGoesOn ==
  /\ TypeOK
  /\ UNCHANGED RtspSocket
  /\ SourceStays
  /\ ReadOne
  /\ ReaderHears
  /\ Conversation

LEMMA ReaderOpensOnce ==
  ASSUME ReaderGoesOn
  PROVE  OpenedOnce'
<1> USE DEF ReaderGoesOn, Conversation
<1>1. Len(inbox) \in Nat
  BY LenProperties DEF TypeOK, SourceTyped, NetTypeOK
<1>2. \A i \in 1 .. Len(Unread') : ~Tells(i, {"M1"})'
  BY ToldThen DEF OpenedOnce, ReadOne
<1>3. PICK k \in 0 .. 2, method \in Methods \cup {"none"} :
        /\ Requests(k, method) /\ (k = 0 => method = "none")
        /\ method = "OPTIONS" <=> Tells(1, {"M1"})
  BY DEF ReaderHears, Methods, Tells
<1>4. Asked("OPTIONS")' <=> Asked("OPTIONS") \/ Tells(1, {"M1"})
  BY <1>3, AskedThen DEF Methods
<1>5. Tells(1, {"M1"}) => RtspState = 0 /\ ~Asked("OPTIONS") /\ ~Told({"M3"}) /\ RtspState' = 2
  BY DEF OpenedOnce, ReaderHears, Tells, ReadOne
<1>6. ASSUME Tells(1, {"M3"}) PROVE ~Told({"M3"})' /\ ~Asked("OPTIONS")
  <2>1. Told({"M3"}) /\ 1 \in 1 .. Len(Unread)
    BY <1>6 DEF Told, ReadOne
  <2>2. ~Asked("OPTIONS")
    BY <2>1 DEF OpenedOnce
  <2>3. \A i \in 1 .. Len(Unread') : Tells(i, {"M3"})' => i + 1 \in 1 .. Len(Unread) /\ Tells(i + 1, {"M3"})
    BY ToldThen
  <2>4. \A i \in 1 .. Len(Unread') : i + 1 # 1
    OBVIOUS
  <2>5. \A i \in 1 .. Len(Unread') : ~Tells(i, {"M3"})'
    BY <1>6, <2>1, <2>3, <2>4 DEF OpenedOnce
  <2> QED BY <2>2, <2>5 DEF Told
<1>7. Told({"M3"})' \/ Asked("OPTIONS")' => RtspState' = 2
  <2>1. CASE Tells(1, {"M1"})
    BY <1>5, <2>1
  <2>2. CASE Tells(1, {"M3"})
    <3>1. ~Tells(1, {"M1"})
      BY <2>2 DEF Tells
    <3> QED BY <1>4, <1>6, <2>2, <3>1
  <2>3. CASE Tells(1, {"M16"})
    <3>1. RtspState = 8 /\ ~Tells(1, {"M1"})
      BY <2>3 DEF InStep, Told, Tells, ReadOne
    <3>2. ~Told({"M3"}) /\ ~Asked("OPTIONS")
      BY <3>1 DEF OpenedOnce
    <3> QED BY <1>4, <3>1, <3>2, ToldThen
  <2>4. CASE ~Tells(1, {"M1"}) /\ ~Tells(1, {"M3"}) /\ ~Tells(1, {"M16"})
    <3>1. RtspState = 2 => RtspState' = 2
      BY <2>4 DEF ReaderHears, Tells
    <3> QED BY <1>4, <2>4, <3>1, ToldThen DEF OpenedOnce
  <2> QED BY <2>1, <2>2, <2>3, <2>4
<1>8. Told({"M3"})' => ~Asked("OPTIONS")'
  BY <1>4, <1>5, ToldThen DEF OpenedOnce
<1>9. ASSUME NEW i \in 1 .. Len(Unread'), NEW j \in 1 .. Len(Unread'),
             Tells(i, {"M3"})', Tells(j, {"M3"})'
      PROVE  i = j
  <2>1. i + 1 \in 1 .. Len(Unread) /\ j + 1 \in 1 .. Len(Unread) /\ Tells(i + 1, {"M3"}) /\ Tells(j + 1, {"M3"})
    BY <1>9, ToldThen
  <2>2. i + 1 = j + 1 /\ i \in Int /\ j \in Int
    BY <2>1 DEF OpenedOnce
  <2> QED BY <2>2
<1>10. ASSUME NEW i \in 1 .. Len(inbox'), NEW j \in 1 .. Len(inbox'),
              Asks(i, "OPTIONS")', Asks(j, "OPTIONS")'
       PROVE  i = j
  <2>1. CASE Tells(1, {"M1"})
    <3>1. Requests(2, "OPTIONS") /\ ~Asked("OPTIONS")
      BY <1>5, <2>1 DEF ReaderHears, Tells
    <3>2. \A l \in 1 .. Len(inbox') : Asks(l, "OPTIONS")' => l = Len(inbox) + 2
      BY <1>1, <3>1 DEF Requests, Asked, Methods
    <3> QED BY <1>10, <3>2
  <2>2. CASE ~Tells(1, {"M1"})
    <3>1. method # "OPTIONS" /\ "OPTIONS" \in Methods
      BY <1>3, <2>2 DEF Methods
    <3>2. \A l \in 1 .. Len(inbox') : Asks(l, "OPTIONS")' => l \in 1 .. Len(inbox) /\ Asks(l, "OPTIONS")
      BY <1>1, <1>3, <3>1 DEF Requests
    <3> QED BY <1>10, <3>2 DEF OpenedOnce
  <2> QED BY <2>1, <2>2
<1> QED BY <1>2, <1>7, <1>8, <1>9, <1>10 DEF OpenedOnce

LEMMA ReaderInStep ==
  ASSUME ReaderGoesOn
  PROVE  InStep'
<1> USE DEF ReaderGoesOn, Conversation
<1>1. PICK k \in 0 .. 2, method \in Methods \cup {"none"} :
        /\ Requests(k, method) /\ (k = 0 => method = "none")
        /\ method = "SETUP" => RtspState' = 6
        /\ RtspState' = 6 /\ RtspState # 6 => method = "SETUP"
        /\ RtspState' = 7 /\ RtspState # 7 => method = "PLAY"
  BY DEF ReaderHears, Methods
<1>2. \A m \in Methods : Asked(m)' <=> Asked(m) \/ m = method
  BY <1>1, AskedThen DEF Methods
<1>3. RtspState >= 6 => RtspState' >= 6
  <2>1. CASE Tells(1, {"M1"})
    BY <2>1 DEF OpenedOnce, ReadOne
  <2>2. CASE Tells(1, {"M3"})
    BY <2>2 DEF OpenedOnce, ReadOne, Told
  <2>3. CASE Tells(1, {"M16"})
    BY <2>3 DEF InStep, ReadOne, Told, ReaderHears, Tells
  <2>4. CASE ~Tells(1, {"M1"}) /\ ~Tells(1, {"M3"}) /\ ~Tells(1, {"M16"})
    BY <2>4 DEF ReaderHears, Tells, TypeOK, RtspTypeOK
  <2> QED BY <2>1, <2>2, <2>3, <2>4
<1>4. Asked("SETUP")' \/ mState' >= AWAITING_CLIENT_PLAY => RtspState' >= 6
  BY <1>1, <1>2, <1>3 DEF InStep, Methods, SourceStays
<1>5. RtspState' \in {6, 7} /\ RtspState = RtspState' /\ Answered => Answered'
  BY ToldThen DEF ReaderHears, Tells
<1>6. RtspState' = 6 => Asked("SETUP")' \/ Answered'
  BY <1>1, <1>2, <1>5 DEF InStep, Methods
<1>7. RtspState' = 7 => Asked("PLAY")' \/ Answered'
  BY <1>1, <1>2, <1>5 DEF InStep, Methods
<1>8. Told({"M16"})' => RtspState' = 8
  <2>1. Told({"M16"})' => RtspState = 8
    BY ToldThen DEF InStep
  <2>2. RtspState = 8 => RtspState' = 8
    <3>1. RtspState = 8 => ~Tells(1, {"M1"})
      BY DEF OpenedOnce, ReadOne
    <3> QED BY <3>1 DEF ReaderHears
  <2> QED BY <2>1, <2>2
<1> QED BY <1>4, <1>6, <1>7, <1>8 DEF InStep

LEMMA ReaderPlaysAfterSetup ==
  ASSUME ReaderGoesOn
  PROVE  PlayFollowsSetup'
<1> USE DEF ReaderGoesOn, Conversation
<1> SUFFICES ASSUME RtspState' >= 7
             PROVE  \/ \E i \in 1 .. Len(inbox') :
                         Asks(i, "PLAY")' /\ \A j \in i + 1 .. Len(inbox') : ~Asks(j, "SETUP")'
                    \/ ~Asked("SETUP")' /\ (mPlaybackSession' => mState' >= ABOUT_TO_PLAY)
  BY DEF PlayFollowsSetup
<1>1. Len(inbox) \in Nat /\ {"PLAY", "SETUP"} \subseteq Methods
  BY LenProperties DEF TypeOK, SourceTyped, NetTypeOK, Methods
<1>2. CASE RtspState = 6
  <2>1. Requests(1, "PLAY")
    BY <1>2 DEF ReaderHears
  <2> DEFINE n == Len(inbox) + 1
  <2>2. n \in 1 .. Len(inbox') /\ n \in Len(inbox) + 1 .. Len(inbox) + 1 /\ Len(inbox') = n
    BY <1>1, <2>1 DEF Requests
  <2>3. \A i \in Len(inbox) + 1 .. Len(inbox) + 1 : i = n => Asks(i, "PLAY")'
    BY <1>1, <2>1 DEF Requests
  <2>4. n + 1 .. Len(inbox') = {}
    BY <1>1, <2>2
  <2> QED BY <2>2, <2>3, <2>4
<1>3. CASE RtspState # 6
  <2>1. RtspState >= 7
    BY <1>3 DEF ReaderHears, TypeOK, RtspTypeOK
  <2>2. PICK k \in 0 .. 2, method \in Methods \cup {"none"} :
          Requests(k, method) /\ (k = 0 => method = "none") /\ method # "SETUP"
    BY <2>1 DEF ReaderHears, Methods
  <2>3. CASE ~Asked("SETUP") /\ (mPlaybackSession => mState >= ABOUT_TO_PLAY)
    <3>1. ~Asked("SETUP")'
      BY <1>1, <2>2, <2>3, AskedThen DEF Methods
    <3> QED BY <2>3, <3>1 DEF SourceStays
  <2>4. CASE \E i \in 1 .. Len(inbox) :
               Asks(i, "PLAY") /\ \A j \in i + 1 .. Len(inbox) : ~Asks(j, "SETUP")
    <3>1. PICK i \in 1 .. Len(inbox) :
            Asks(i, "PLAY") /\ \A j \in i + 1 .. Len(inbox) : ~Asks(j, "SETUP")
      BY <2>4
    <3>2. i \in 1 .. Len(inbox') /\ Asks(i, "PLAY")'
      BY <1>1, <2>2, <3>1 DEF Requests
    <3>3. ASSUME NEW j \in i + 1 .. Len(inbox') PROVE ~Asks(j, "SETUP")'
      <4>1. CASE j \in 1 .. Len(inbox)
        BY <1>1, <2>2, <3>1, <4>1 DEF Requests
      <4>2. CASE j \in Len(inbox) + 1 .. Len(inbox) + k
        BY <1>1, <2>2, <4>2 DEF Requests
      <4> QED BY <1>1, <2>2, <3>1, <4>1, <4>2 DEF Requests
    <3> QED BY <3>2, <3>3
  <2> QED BY <2>1, <2>3, <2>4 DEF PlayFollowsSetup
<1> QED BY <1>2, <1>3

LEMMA ReaderKeepsOrder ==
  ASSUME ReaderGoesOn, UNCHANGED linkVars
  PROVE  LastOrderStands'
<1> USE DEF ReaderGoesOn, Conversation
<1> SUFFICES ASSUME monitor' # "none" PROVE LastOrderStands'
  BY DEF LastOrderStands
<1>1. /\ Len(inbox) \in Nat /\ {"PLAY", "PAUSE"} \subseteq Methods
      /\ UNCHANGED <<monitor, streaming, mPlaybackSessionEstablished>>
  BY LenProperties DEF TypeOK, SourceTyped, NetTypeOK, Methods, SourceStays
<1>2. monitor # "none" /\ RtspState = 8 /\ mPlaybackSessionEstablished
  BY <1>1 DEF LastOrderStands, LinkReady
<1>3. PICK k \in 0 .. 2 : Requests(k, "none") /\ RtspState' = 8
  <2>1. ~Tells(1, {"M1"})
    BY <1>2 DEF OpenedOnce, ReadOne
  <2> QED BY <1>2, <2>1 DEF ReaderHears
<1>4. LinkReady'
  BY <1>1, <1>2, <1>3 DEF LinkReady
<1>5. UNCHANGED Order /\ Order \in {"PLAY", "PAUSE"}
  BY <1>1 DEF Order
<1>6. CASE ~Asked("PLAY") /\ ~Asked("PAUSE") /\ streaming = (monitor = "START")
  <2>1. ~Asked("PLAY")' /\ ~Asked("PAUSE")'
    BY <1>1, <1>3, <1>6, AskedThen DEF Methods
  <2>2. streaming' = (monitor' = "START")
    BY <1>1, <1>6
  <2> QED BY <1>4, <2>1, <2>2 DEF LastOrderStands
<1>7. CASE \E i \in 1 .. Len(inbox) :
             /\ Asks(i, Order)
             /\ \A j \in i + 1 .. Len(inbox) : ~Asks(j, "PLAY") /\ ~Asks(j, "PAUSE")
  <2>1. PICK i \in 1 .. Len(inbox) :
          /\ Asks(i, Order)
          /\ \A j \in i + 1 .. Len(inbox) : ~Asks(j, "PLAY") /\ ~Asks(j, "PAUSE")
    BY <1>7
  <2>2. i \in 1 .. Len(inbox')
    BY <1>1, <1>3 DEF Requests
  <2>3. /\ Order = "PLAY" => Asks(i, "PLAY")'
        /\ Order = "PAUSE" => Asks(i, "PAUSE")'
    BY <1>1, <1>3, <2>1 DEF Requests
  <2>4. ASSUME NEW j \in i + 1 .. Len(inbox') PROVE ~Asks(j, "PLAY")' /\ ~Asks(j, "PAUSE")'
    <3>1. CASE j \in 1 .. Len(inbox)
      BY <1>1, <1>3, <2>1, <3>1 DEF Requests
    <3>2. CASE j \in Len(inbox) + 1 .. Len(inbox) + k
      BY <1>1, <1>3, <3>2 DEF Requests, Methods
    <3> QED BY <1>1, <1>3, <2>1, <3>1, <3>2 DEF Requests
  <2>5. Asks(i, Order)'
    BY <1>5, <2>3
  <2> QED BY <1>4, <2>2, <2>4, <2>5 DEF LastOrderStands
<1> QED BY <1>2, <1>6, <1>7 DEF LastOrderStands

\* A command is the last thing the client asks for, until the next.
LEMMA CommandKeepsConversation ==
  ASSUME TypeOK, Conversation, ConnectionUp, Command, UNCHANGED sourceVars
  PROVE  Conversation'
<1>1. /\ Len(inbox) \in Nat /\ {"PLAY", "PAUSE", "SETUP", "OPTIONS"} \subseteq Methods
      /\ UNCHANGED <<mState, mPlaybackSession, mPlaybackSessionEstablished, streaming>>
  BY LenProperties DEF TypeOK, SourceTyped, NetTypeOK, Methods, sourceVars, clientVars, playbackVars
<1>2. PICK command \in {"START", "SLEEP"} :
        /\ IF command = "START" THEN requestPlay ELSE requestPause
        /\ monitor' = IF LinkReady THEN command ELSE monitor
  BY DEF Command
<1> DEFINE method == IF command = "START" THEN "PLAY" ELSE "PAUSE"
<1>3. /\ UNCHANGED <<toSink, RtspSocket, RtspState>>
      /\ Written(<<RtspRequest(method)>>)
  <2>1. MainSends(method)
    BY <1>2 DEF requestPlay, requestPause
  <2> QED BY <2>1 DEF MainSends
<1>4. method \in {"PLAY", "PAUSE"} /\ method \in Methods
  BY DEF Methods
<1>5. Requests(1, method)
  <2> HIDE DEF method
  <2>1. 0 \in Nat
    OBVIOUS
  <2> QED BY <1>3, <1>4, <2>1, AsksWritten
<1> HIDE DEF method
<1>6. \A m \in Methods : Asked(m)' <=> Asked(m) \/ m = method
  BY <1>5, AskedThen
<1>7. UNCHANGED Unread
  BY <1>3 DEF Unread
<1>8. \A i \in 1 .. Len(inbox') : i \in 1 .. Len(inbox) \/ i \in Len(inbox) + 1 .. Len(inbox) + 1
  BY <1>1, <1>5 DEF Requests
<1>9. OpenedOnce'
  <2>1. \A tags : Told(tags)' <=> Told(tags)
    BY <1>7 DEF Told, Tells
  <2>2. \A i \in 1 .. Len(Unread') : Tells(i, {"M1"})' => i = 1 /\ RtspState' = 0
    BY <1>3, <1>7 DEF Tells, Conversation, OpenedOnce
  <2>3. \A i, j \in 1 .. Len(Unread') : Tells(i, {"M3"})' /\ Tells(j, {"M3"})' => i = j
    BY <1>7 DEF Tells, Conversation, OpenedOnce
  <2>4. \A i \in 1 .. Len(inbox') : Asks(i, "OPTIONS")' => i \in 1 .. Len(inbox) /\ Asks(i, "OPTIONS")
    BY <1>1, <1>4, <1>5, <1>8 DEF Requests
  <2>5. Asked("OPTIONS")' <=> Asked("OPTIONS")
    BY <1>1, <1>4, <1>6
  <2>6. /\ Told({"M3"})' \/ Asked("OPTIONS")' => RtspState' = 2
        /\ Told({"M3"})' => ~Asked("OPTIONS")'
    BY <1>3, <2>1, <2>5 DEF Conversation, OpenedOnce
  <2>7. \A i, j \in 1 .. Len(inbox') : Asks(i, "OPTIONS")' /\ Asks(j, "OPTIONS")' => i = j
    BY <2>4 DEF Conversation, OpenedOnce
  <2> QED BY <2>2, <2>3, <2>6, <2>7 DEF Conversation, OpenedOnce
<1>10. InStep'
  <2>1. (Told({"M16"})' <=> Told({"M16"})) /\ (Answered' <=> Answered)
    BY <1>7 DEF Told, Tells, Answered
  <2> QED BY <1>1, <1>3, <1>4, <1>6, <2>1 DEF Conversation, InStep
<1>11. PlayFollowsSetup'
  <2> SUFFICES ASSUME RtspState >= 7 PROVE PlayFollowsSetup'
    BY <1>3 DEF PlayFollowsSetup
  <2>1. CASE ~Asked("SETUP") /\ (mPlaybackSession => mState >= ABOUT_TO_PLAY)
    <3>1. ~Asked("SETUP")'
      BY <1>1, <1>4, <1>6, <2>1
    <3> QED BY <1>1, <2>1, <3>1 DEF PlayFollowsSetup
  <2>2. CASE \E i \in 1 .. Len(inbox) :
               Asks(i, "PLAY") /\ \A j \in i + 1 .. Len(inbox) : ~Asks(j, "SETUP")
    <3>1. PICK i \in 1 .. Len(inbox) :
            Asks(i, "PLAY") /\ \A j \in i + 1 .. Len(inbox) : ~Asks(j, "SETUP")
      BY <2>2
    <3>2. i \in 1 .. Len(inbox') /\ Asks(i, "PLAY")'
      BY <1>1, <1>5, <3>1 DEF Requests
    <3>3. ASSUME NEW j \in i + 1 .. Len(inbox') PROVE ~Asks(j, "SETUP")'
      <4>1. j \in 1 .. Len(inbox) => ~Asks(j, "SETUP")'
        BY <1>1, <1>5, <3>1 DEF Requests
      <4>2. j \in Len(inbox) + 1 .. Len(inbox) + 1 => ~Asks(j, "SETUP")'
        BY <1>1, <1>4, <1>5 DEF Requests
      <4> QED BY <1>8, <3>1, <4>1, <4>2
    <3> QED BY <3>2, <3>3 DEF PlayFollowsSetup
  <2> QED BY <2>1, <2>2 DEF Conversation, PlayFollowsSetup
<1>12. LastOrderStands'
  <2>1. CASE ~LinkReady
    <3>1. monitor = "none" /\ monitor' = "none"
      BY <1>2, <2>1 DEF Conversation, LastOrderStands
    <3> QED BY <3>1 DEF LastOrderStands
  <2>2. CASE LinkReady
    <3>1. LinkReady' /\ monitor' = command
      BY <1>1, <1>2, <1>3, <2>2 DEF LinkReady
    <3>2. Order' = method
      BY <3>1 DEF Order, method
    <3> DEFINE n == Len(inbox) + 1
    <3>3. n \in 1 .. Len(inbox') /\ n + 1 .. Len(inbox') = {} /\ n \in Len(inbox) + 1 .. Len(inbox) + 1
      BY <1>1, <1>5 DEF Requests
    <3>4. \A i \in Len(inbox) + 1 .. Len(inbox) + 1 : i = n => Asks(i, method)'
      BY <1>4, <1>5 DEF Requests
    <3>5. \A i \in Len(inbox) + 1 .. Len(inbox) + 1 : i = n => Asks(i, Order)'
      BY <3>2, <3>4 DEF Asks
    <3> QED BY <3>1, <3>3, <3>5 DEF LastOrderStands
  <2> QED BY <2>1, <2>2
<1> QED BY <1>9, <1>10, <1>11, <1>12 DEF Conversation

------------------------------------------------------------------------------
(* The conversation, when the source acts *)

HeardStates == <<mState, mPlaybackSession, mPlaybackSessionEstablished, streaming>>

\* A source that is heard handles what its client wrote, and keeps the connection.
LEMMA HeardQueue ==
  ASSUME TypeOK, Connections, ConnectionsInTurn, Heard
  PROVE  /\ RtspSocket \in Session /\ RtspSocket \in open /\ mClientSessionID = RtspSocket
         /\ mClientSessionID # NoSession
         /\ inbox # << >> => Head(inbox).sid = RtspSocket
<1>1. RtspSocket \in Session /\ RtspSocket \in open /\ mClientSessionID = RtspSocket /\ RtspSocket # NoSession
  BY MaxSessionsAssumption DEF Heard, Healthy, ConnectionUp, TypeOK, SourceTyped, NetTypeOK, Session, NoSession
<1>2. inbox # << >> => 1 \in 1 .. Len(inbox) /\ Head(inbox) = inbox[1]
  BY EmptySeq, LenProperties DEF TypeOK, SourceTyped, NetTypeOK
<1>3. ASSUME inbox # << >> PROVE Head(inbox).sid = RtspSocket
  <2>1. /\ inbox[1].sid \in Nat /\ inbox[1].sid < nextSession
        /\ nextSession \in Nat /\ RtspSocket = nextSession - 1
        /\ mClientSessionID <= inbox[1].sid
    BY <1>1, <1>2, <1>3, IdsBelow DEF TypeOK, ConnectionsInTurn
  <2> QED BY <1>1, <1>2, <1>3, <2>1
<1> QED BY <1>1, <1>3

\* What it does beside the queue neither asks nor tells the client anything; only the
\* media may have been announced.
Beside ==
  /\ UNCHANGED <<inbox, toSink, mPlaybackSession>>
  /\ \/ UNCHANGED <<mState, mPlaybackSessionEstablished, streaming>>
     \/ /\ mState' = AWAITING_CLIENT_CONNECTION /\ mState = INITIALIZED
        /\ UNCHANGED <<mPlaybackSessionEstablished, streaming>>
     \/ /\ mState' = (IF mState = ABOUT_TO_PLAY THEN PLAYING ELSE mState)
        /\ ~mPlaybackSessionEstablished

LEMMA HeardBeside ==
  ASSUME TypeOK, Stages, Heard, Heard',
         Start \/ Stop \/ Release \/ Timers \/ PlaybackHandlers \/ LifesignExpires
  PROVE  Beside
<1> USE DEF Beside, clientVars, playbackVars, netVars, stopVars, finishStopRest
<1>1. mState' < AWAITING_CLIENT_TEARDOWN /\ mState < AWAITING_CLIENT_TEARDOWN
  BY DEF Heard
<1>2. ~FinishStop
  BY <1>1, FinishStopState DEF AWAITING_CLIENT_TEARDOWN, STOPPING, STOPPED
<1>3. ~Stop
  BY <1>1, <1>2 DEF Stop, AWAITING_CLIENT_TEARDOWN
<1>4. CASE Start \/ Release \/ LifesignExpires
  BY <1>4 DEF Start, Release, LifesignExpires
<1>5. CASE ReapDeadClients
  BY <1>5 DEF ReapDeadClients
<1>6. CASE TeardownTriggerTimedOut
  BY <1>1, <1>2, <1>6 DEF TeardownTriggerTimedOut
<1>7. ~FinishStop2Delayed
  BY <1>1 DEF FinishStop2Delayed, FinishStop2, AWAITING_CLIENT_TEARDOWN, STOPPED
<1>8. CASE SessionDead \/ SessionEstablished
  BY <1>8 DEF SessionDead, SessionEstablished
<1>9. ~SessionDestroyed
  BY <1>1 DEF SessionDestroyed, Stages, StopStages, Destroying, AWAITING_CLIENT_TEARDOWN, STOPPING
<1> QED BY <1>3, <1>4, <1>5, <1>6, <1>7, <1>8, <1>9 DEF Timers, PlaybackHandlers

\* What the source tells the client: nothing, msg, or an answer to OPTIONS and M3.
TellsNothing == UNCHANGED Unread
TellsOne(msg) ==
  /\ msg \in SourceMessage
  /\ Len(Unread) \in Nat /\ Len(Unread') = Len(Unread) + 1
  /\ \A i \in 1 .. Len(Unread) : Unread'[i] = Unread[i]
  /\ \A i \in Len(Unread) + 1 .. Len(Unread) + 1 : Unread'[i] = msg
AnswersOptions ==
  \E msg \in SourceMessage :
    /\ msg.kind = "request" /\ msg.tag = "M3"
    /\ Len(Unread) \in Nat /\ Len(Unread') = Len(Unread) + 2
    /\ \A i \in 1 .. Len(Unread) : Unread'[i] = Unread[i]
    /\ \A i \in Len(Unread) + 1 .. Len(Unread) + 1 : Unread'[i] = Response(200)
    /\ \A i \in Len(Unread) + 2 .. Len(Unread) + 2 : Unread'[i] = msg

LEMMA OneTold ==
  ASSUME TypeOK, ConnectionUp, UNCHANGED RtspSocket, NEW msg \in SourceMessage,
         Deliver(RtspSocket, <<msg>>)
  PROVE  TellsOne(msg)
<1>1. <<msg>> \in Seq(SourceMessage) /\ Len(<<msg>>) = 1 /\ <<msg>>[1] = msg /\ 1 \in 1 .. 1
  OBVIOUS
<1>2. /\ Len(Unread) \in Nat /\ Len(Unread') = Len(Unread) + 1
      /\ \A i \in 1 .. Len(Unread) : Unread'[i] = Unread[i]
      /\ Unread'[Len(Unread) + 1] = msg
  BY <1>1, UnreadTold
<1>3. \A i \in Len(Unread) + 1 .. Len(Unread) + 1 : i = Len(Unread) + 1
  BY <1>2
<1> QED BY <1>2, <1>3 DEF TellsOne

LEMMA TwoTold ==
  ASSUME TypeOK, ConnectionUp, UNCHANGED RtspSocket, NEW cseq \in Nat,
         Deliver(RtspSocket, <<Response(200), Request("M3", cseq)>>)
  PROVE  AnswersOptions
<1> DEFINE a == Response(200)
           b == Request("M3", cseq)
<1>1. /\ a \in SourceMessage /\ b \in SourceMessage
      /\ b.kind = "request" /\ b.tag = "M3"
  BY MessagesTyped DEF Request, Tags
<1>2. Deliver(RtspSocket, <<a, b>>)
  OBVIOUS
<1> HIDE DEF a, b
<1>3. /\ <<a, b>> \in Seq(SourceMessage) /\ Len(<<a, b>>) = 2
      /\ <<a, b>>[1] = a /\ <<a, b>>[2] = b /\ 1 \in 1 .. 2 /\ 2 \in 1 .. 2
  BY <1>1
<1>4. /\ Len(Unread) \in Nat /\ Len(Unread') = Len(Unread) + 2
      /\ \A i \in 1 .. Len(Unread) : Unread'[i] = Unread[i]
      /\ Unread'[Len(Unread) + 1] = a
      /\ Unread'[Len(Unread) + 2] = b
  BY <1>2, <1>3, UnreadTold
<1>5. /\ \A i \in Len(Unread) + 1 .. Len(Unread) + 1 : i = Len(Unread) + 1
      /\ \A i \in Len(Unread) + 2 .. Len(Unread) + 2 : i = Len(Unread) + 2
  BY <1>4
<1>6. \A i \in Len(Unread) + 1 .. Len(Unread) + 1 : Unread'[i] = Response(200)
  BY <1>4, <1>5 DEF a
<1> QED BY <1>1, <1>4, <1>5, <1>6 DEF AnswersOptions

\* The handling of one notification, of which the client is told at most one message.
HandlesOne(methods) ==
  /\ inbox # << >> /\ Consume
  /\ \A method \in Methods : Asks(1, method) => method \in methods

TellsPlain ==
  \/ TellsNothing
  \/ \E msg \in SourceMessage :
       TellsOne(msg) /\ (msg.kind = "request" => msg.tag \notin {"M1", "M3", "M16"})

TellsAnswer == \E msg \in SourceMessage : TellsOne(msg) /\ msg.kind = "response"

TellsNoAnswer ==
  \/ TellsNothing
  \/ \E msg \in SourceMessage :
       TellsOne(msg) /\ msg.kind = "request" /\ msg.tag \notin {"M1", "M3", "M16"}

LEMMA HeadAsks ==
  ASSUME TypeOK, inbox # << >>, NEW method, Asks(1, method)
  PROVE  Head(inbox).what = "data" /\ Head(inbox).msg.kind = "request" /\ Head(inbox).msg.method = method
<1>1. Head(inbox) = inbox[1]
  BY EmptySeq, LenProperties DEF TypeOK, SourceTyped, NetTypeOK
<1> QED BY <1>1 DEF Asks

LEMMA HeadOnly ==
  ASSUME TypeOK, NEW method, HandlingRequest(method), Consume
  PROVE  HandlesOne({method})
<1>1. inbox # << >>
  BY DEF HandlingRequest, Handling
<1> QED BY <1>1, HeadAsks DEF HandlesOne, HandlingRequest

LEMMA AnswerTold ==
  ASSUME TypeOK, ConnectionUp, UNCHANGED RtspSocket, Head(inbox).sid = RtspSocket,
         NEW code \in Nat, Reply(code)
  PROVE  TellsAnswer
<1>1. Response(code) \in SourceMessage /\ Response(code).kind = "response"
  BY MessagesTyped DEF Response, Tags
<1>2. TellsOne(Response(code))
  BY <1>1, OneTold DEF Reply
<1> QED BY <1>1, <1>2 DEF TellsAnswer

\* What every lemma of this section assumes.
SourceIsHeard ==
  /\ TypeOK /\ Stages /\ Connections /\ ConnectionsInTurn
  /\ MediaBegins /\ ClientBegins
  /\ Heard /\ Heard' /\ UNCHANGED <<rtspVars, linkVars>>

LEMMA HeardGround ==
  ASSUME SourceIsHeard
  PROVE  /\ TypeOK /\ ConnectionUp /\ UNCHANGED RtspSocket
         /\ RtspSocket \in Session /\ RtspSocket \in open /\ RtspSocket \in open'
         /\ mClientSessionID = RtspSocket /\ mClientSessionID # NoSession
         /\ mState < AWAITING_CLIENT_TEARDOWN /\ mState' < AWAITING_CLIENT_TEARDOWN
         /\ inbox # << >> => Head(inbox).sid = RtspSocket
BY HeardQueue DEF SourceIsHeard, Heard, Healthy, ConnectionUp, rtspVars

LEMMA HeardSend ==
  ASSUME SourceIsHeard, NEW tag \in Tags, NEW handled,
         SendAfter(<< >>, RtspSocket, tag, handled)
  PROVE  \E msg \in SourceMessage : TellsOne(msg) /\ msg.kind = "request" /\ msg.tag = tag
<1>1. ConnectionUp /\ TypeOK /\ UNCHANGED RtspSocket /\ RtspSocket \in open /\ mNextCSeq \in Nat
  BY HeardGround DEF TypeOK, SourceTyped, SourceTypeOK
<1> DEFINE m == Request(tag, mNextCSeq)
<1>2. m \in SourceMessage /\ m.kind = "request" /\ m.tag = tag
  BY <1>1, MessagesTyped DEF Request, Response
<1>3. Deliver(RtspSocket, Append(<< >>, m)) /\ Append(<< >>, m) = <<m>>
  BY <1>1 DEF SendAfter
<1> HIDE DEF m
<1>4. TellsOne(m)
  BY <1>1, <1>2, <1>3, OneTold
<1> QED BY <1>2, <1>4

LEMMA HeardRefuses ==
  ASSUME SourceIsHeard, NEW code \in Nat, Refuse(code), Handling("data"), UNCHANGED playbackVars
  PROVE  Consume /\ TellsAnswer /\ UNCHANGED HeardStates
<1>1. /\ ConnectionUp /\ TypeOK /\ UNCHANGED RtspSocket
      /\ Head(inbox).sid = RtspSocket
  BY HeardGround DEF Handling
<1> QED BY <1>1, AnswerTold DEF Refuse, HeardStates, clientVars, playbackVars

LEMMA AppendToOne ==
  ASSUME NEW S, NEW x \in S, NEW y \in S
  PROVE  Append(<<x>>, y) = <<x, y>>
<1>1. <<x>> \in Seq(S) /\ <<x, y>> \in Seq(S) /\ Append(<<x>>, y) \in Seq(S)
  BY AppendProperties
<1>2. Len(<<x>>) = 1 /\ Len(<<x, y>>) = 2 /\ Len(Append(<<x>>, y)) = 2
  BY <1>1, AppendProperties
<1>3. Append(<<x>>, y)[1] = x /\ Append(<<x>>, y)[2] = y
  BY <1>1, <1>2, AppendProperties
<1>4. \A i \in 1 .. 2 : Append(<<x>>, y)[i] = <<x, y>>[i]
  BY <1>3
<1> QED BY <1>1, <1>2, <1>4, SeqEqual

LEMMA HeardOptions ==
  ASSUME SourceIsHeard, OptionsRequest
  PROVE  HandlesOne({"OPTIONS"}) /\ Asks(1, "OPTIONS") /\ AnswersOptions /\ UNCHANGED HeardStates
<1>1. /\ ConnectionUp /\ TypeOK /\ UNCHANGED RtspSocket /\ RtspSocket \in open
      /\ inbox # << >> /\ Head(inbox) = inbox[1] /\ Head(inbox).sid = RtspSocket /\ mNextCSeq \in Nat
  BY HeardGround, EmptySeq, LenProperties
     DEF OptionsRequest, HandlingRequest, Handling, TypeOK, SourceTyped, SourceTypeOK, NetTypeOK
<1>2. HandlesOne({"OPTIONS"}) /\ Asks(1, "OPTIONS")
  BY <1>1, HeadOnly DEF OptionsRequest, HandlingRequest, Handling, Asks
<1>3. UNCHANGED HeardStates
  BY DEF OptionsRequest, HeardStates, clientVars
<1> DEFINE a == Response(200)
           b == Request("M3", mNextCSeq)
<1>4. Deliver(RtspSocket, <<a, b>>)
  <2>1. SendAfter(<<a>>, RtspSocket, "M3", {})
    BY <1>1 DEF OptionsRequest
  <2>2. Deliver(RtspSocket, Append(<<a>>, b))
    BY <1>1, <2>1 DEF SendAfter
  <2>3. a \in SourceMessage /\ b \in SourceMessage
    BY <1>1, MessagesTyped DEF Tags
  <2> HIDE DEF a, b
  <2>4. Append(<<a>>, b) = <<a, b>>
    BY <2>3, AppendToOne
  <2> QED BY <2>2, <2>4
<1>5. AnswersOptions
  BY <1>1, <1>4, TwoTold
<1> QED BY <1>2, <1>3, <1>5

LEMMA HeardAnswers ==
  ASSUME SourceIsHeard,
         UnsolicitedResponse \/ StatusResponse \/ M3Response \/ M4Response \/ M16Response
  PROVE  HandlesOne({}) /\ TellsNoAnswer /\ UNCHANGED HeardStates
<1>1. /\ Handling("data") /\ Head(inbox).msg.kind = "response" /\ Consume /\ inbox # << >>
  BY DEF UnsolicitedResponse, StatusResponse, M3Response, M4Response, M16Response,
         HandlingResponse, Handling
<1>2. TypeOK /\ Head(inbox).sid = RtspSocket /\ UNCHANGED RtspSocket
  BY <1>1, HeardGround
<1>3. HandlesOne({})
  BY <1>1, <1>2, HeadAsks DEF HandlesOne
<1>4. UNCHANGED HeardStates
  BY DEF UnsolicitedResponse, StatusResponse, M3Response, M4Response, M16Response, HeardStates,
         clientVars, playbackVars
<1>5. UNCHANGED toSink => TellsNoAnswer
  BY <1>2 DEF TellsNoAnswer, TellsNothing, Unread
<1>6. ASSUME NEW tag \in {"M4", "SETUP"}, NEW handled, SendAfter(<< >>, RtspSocket, tag, handled)
      PROVE  TellsNoAnswer
  <2>1. tag \in Tags
    BY DEF Tags
  <2> QED BY <1>6, <2>1, HeardSend DEF TellsNoAnswer
<1>7. UnsolicitedResponse \/ StatusResponse \/ M16Response => TellsNoAnswer
  BY <1>5 DEF UnsolicitedResponse, StatusResponse, M16Response
<1>8. M3Response => TellsNoAnswer
  <2>1. M3Response => UNCHANGED toSink \/ SendAfter(<< >>, RtspSocket, "M4", Matching)
    BY <1>2 DEF M3Response
  <2> QED BY <1>5, <1>6, <2>1
<1>9. M4Response => TellsNoAnswer
  <2>1. M4Response => UNCHANGED toSink \/ SendAfter(<< >>, RtspSocket, "SETUP", Matching)
    BY <1>2 DEF M4Response
  <2> QED BY <1>5, <1>6, <2>1
<1> QED BY <1>3, <1>4, <1>7, <1>8, <1>9

LEMMA HeardOthers ==
  ASSUME SourceIsHeard,
         TeardownRefused \/ TeardownUnasked \/ ParameterRefused \/ ParameterAccepted \/ OtherRequest
  PROVE  /\ HandlesOne({"TEARDOWN", "GET_PARAMETER", "SET_PARAMETER", "OTHER"})
         /\ \E method \in {"TEARDOWN", "GET_PARAMETER", "SET_PARAMETER", "OTHER"} : Asks(1, method)
         /\ TellsAnswer /\ UNCHANGED HeardStates
<1>1. PICK method \in {"TEARDOWN", "GET_PARAMETER", "SET_PARAMETER", "OTHER"} : HandlingRequest(method)
  BY DEF TeardownRefused, TeardownUnasked, ParameterRefused, ParameterAccepted, OtherRequest,
         HandlingParameterRequest
<1>2. Handling("data")
  BY <1>1 DEF HandlingRequest
<1>3. /\ TypeOK /\ ConnectionUp /\ UNCHANGED RtspSocket /\ Head(inbox).sid = RtspSocket
      /\ inbox # << >> /\ Head(inbox) = inbox[1]
  BY <1>2, HeardGround, EmptySeq, LenProperties DEF Handling, TypeOK, SourceTyped, NetTypeOK
<1>4. Asks(1, method)
  BY <1>1, <1>3 DEF Asks, HandlingRequest, Handling
<1>5. CASE ParameterAccepted
  <2>1. Consume /\ Reply(200) /\ UNCHANGED HeardStates
    BY <1>5 DEF ParameterAccepted, HeardStates, clientVars
  <2>2. TellsAnswer
    BY <1>3, <2>1, AnswerTold
  <2> QED BY <1>1, <1>3, <1>4, <2>1, <2>2, HeadOnly DEF HandlesOne
<1>6. CASE ~ParameterAccepted
  <2>1. PICK code \in Nat : Refuse(code) /\ UNCHANGED playbackVars
    BY <1>6 DEF TeardownRefused, TeardownUnasked, ParameterRefused, OtherRequest
  <2>2. Consume /\ TellsAnswer /\ UNCHANGED HeardStates
    BY <1>2, <2>1, HeardRefuses
  <2> QED BY <1>1, <1>3, <1>4, <2>2, HeadOnly DEF HandlesOne
<1> QED BY <1>5, <1>6

\* A SETUP is always answered; the first one makes the session.
LEMMA HeardSetup ==
  ASSUME SourceIsHeard, SetupRefused \/ SetupFailed \/ SetupAccepted
  PROVE  /\ HandlesOne({"SETUP"}) /\ Asks(1, "SETUP") /\ TellsAnswer
         /\ \/ UNCHANGED HeardStates
            \/ /\ mState < AWAITING_CLIENT_PLAY /\ mState' = AWAITING_CLIENT_PLAY
               /\ mPlaybackSession'
               /\ ~mPlaybackSessionEstablished /\ UNCHANGED mPlaybackSessionEstablished
<1>1. HandlingRequest("SETUP") /\ Handling("data")
  BY DEF SetupRefused, SetupFailed, SetupAccepted, HandlingRequest
<1>2. /\ TypeOK /\ ConnectionUp /\ UNCHANGED RtspSocket /\ inbox # << >>
      /\ Head(inbox).sid = RtspSocket /\ Head(inbox) = inbox[1]
      /\ mClientSessionID # NoSession /\ mState < AWAITING_CLIENT_TEARDOWN
  BY <1>1, HeardGround, EmptySeq, LenProperties DEF Handling, TypeOK, SourceTyped, NetTypeOK
<1>3. Asks(1, "SETUP")
  BY <1>1, <1>2 DEF Asks, HandlingRequest, Handling
<1>4. ASSUME NEW code \in Nat, Refuse(code), UNCHANGED playbackVars
      PROVE  HandlesOne({"SETUP"}) /\ TellsAnswer /\ UNCHANGED HeardStates
  BY <1>1, <1>2, <1>4, HeardRefuses, HeadOnly
<1>5. CASE SetupRefused \/ SetupFailed
  BY <1>3, <1>4, <1>5 DEF SetupRefused, SetupFailed
<1>6. CASE SetupAccepted
  <2>1. HandlesOne({"SETUP"}) /\ TellsAnswer
    BY <1>1, <1>2, <1>6, AnswerTold, HeadOnly DEF SetupAccepted
  <2>2. /\ ~mPlaybackSessionID /\ mPlaybackSession' /\ mState' = AWAITING_CLIENT_PLAY
        /\ UNCHANGED mPlaybackSessionEstablished
    BY <1>6 DEF SetupAccepted
  <2>3. mState < AWAITING_CLIENT_PLAY
    BY <1>2, <2>2
       DEF SourceIsHeard, Stages, SessionStages, TypeOK, SourceTyped, SourceTypeOK,
           AWAITING_CLIENT_PLAY, INITIALIZED, STOPPED
  <2>4. ~mPlaybackSession
    BY <2>2 DEF SourceIsHeard, Stages, SessionStages
  <2>5. playback \notin {"running", "destroying"}
    BY <2>4 DEF SourceIsHeard, Stages, SessionStages
  <2>6. ~mPlaybackSessionEstablished
    <3>1. playback # "gone"
      BY <2>3 DEF SourceIsHeard, MediaBegins, STOPPING, AWAITING_CLIENT_PLAY, TypeOK, SourceTyped,
                  SourceTypeOK, INITIALIZED, STOPPED
    <3> QED BY <2>5, <3>1 DEF SourceIsHeard, MediaBegins, TypeOK, SourceTyped, SourceTypeOK
  <2> QED BY <1>3, <2>1, <2>2, <2>3, <2>6
<1> QED BY <1>5, <1>6

\* Established media belong to a session the client asked for.
LEMMA EstablishedSession ==
  ASSUME SourceIsHeard, mPlaybackSessionEstablished
  PROVE  mPlaybackSession /\ mState >= AWAITING_CLIENT_PLAY /\ mState # ABOUT_TO_PLAY
<1>1. playback \in {"none", "running", "destroying", "gone"} /\ playback # "none" /\ mState # ABOUT_TO_PLAY
  BY DEF SourceIsHeard, TypeOK, SourceTyped, SourceTypeOK, MediaBegins
<1>2. mState \in 0 .. 11 /\ mState < 9
  BY HeardGround DEF TypeOK, SourceTyped, SourceTypeOK, INITIALIZED, STOPPED, AWAITING_CLIENT_TEARDOWN
<1>3. playback = "running"
  BY <1>1, <1>2 DEF SourceIsHeard, MediaBegins, STOPPING
<1>4. mPlaybackSession
  BY <1>3 DEF SourceIsHeard, Stages, SessionStages
<1>5. mState > AWAITING_CLIENT_SETUP
  BY <1>1, <1>2 DEF SourceIsHeard, Stages, SessionStages, AWAITING_CLIENT_SETUP
<1> QED BY <1>1, <1>2, <1>4, <1>5 DEF AWAITING_CLIENT_SETUP, AWAITING_CLIENT_PLAY

LEMMA SessionState ==
  ASSUME SourceIsHeard, mPlaybackSession
  PROVE  mState \in 3 .. 8
<1>1. mState \in 0 .. 11 /\ mState < 9
  BY HeardGround DEF TypeOK, SourceTyped, SourceTypeOK, INITIALIZED, STOPPED, AWAITING_CLIENT_TEARDOWN
<1>2. playback # "none"
  BY DEF SourceIsHeard, Stages, SessionStages
<1>3. mState > AWAITING_CLIENT_SETUP
  BY <1>1, <1>2 DEF SourceIsHeard, Stages, SessionStages, AWAITING_CLIENT_SETUP
<1> QED BY <1>1, <1>3 DEF AWAITING_CLIENT_SETUP

\* A PLAY is always answered, and when the media are established they play.
LEMMA HeardPlay ==
  ASSUME SourceIsHeard, MediaFollowsState, PlayRefused \/ PlayAccepted
  PROVE  /\ HandlesOne({"PLAY"}) /\ Asks(1, "PLAY") /\ TellsAnswer
         /\ UNCHANGED <<mPlaybackSession, mPlaybackSessionEstablished>>
         /\ mPlaybackSession => mState' >= ABOUT_TO_PLAY
         /\ ~mPlaybackSession => UNCHANGED mState
         /\ mPlaybackSessionEstablished => streaming'
<1>1. HandlingRequest("PLAY") /\ Handling("data")
  BY DEF PlayRefused, PlayAccepted, HandlingRequest
<1>2. /\ TypeOK /\ ConnectionUp /\ UNCHANGED RtspSocket /\ inbox # << >>
      /\ Head(inbox).sid = RtspSocket /\ Head(inbox) = inbox[1] /\ 1 \in 1 .. Len(inbox)
      /\ RtspSocket \in open /\ mClientSessionID # NoSession
  BY <1>1, HeardGround, EmptySeq, LenProperties DEF Handling, TypeOK, SourceTyped, NetTypeOK
<1>3. Asks(1, "PLAY")
  BY <1>1, <1>2 DEF Asks, HandlingRequest, Handling
<1>4. SessionFound <=> mPlaybackSession
  BY <1>1, <1>2 DEF SessionFound, SourceIsHeard, ClientBegins, HandlingRequest, Handling
<1>5. CASE PlayRefused
  <2>1. PICK code \in Nat : Refuse(code) /\ UNCHANGED playbackVars
    BY <1>5 DEF PlayRefused
  <2>2. HandlesOne({"PLAY"}) /\ TellsAnswer /\ UNCHANGED HeardStates
    BY <1>1, <1>2, <2>1, HeardRefuses, HeadOnly
  <2>3. mPlaybackSession => mState \notin PlayableStates /\ mState \in 3 .. 8
    BY <1>4, <1>5, SessionState DEF PlayRefused
  <2>4. mPlaybackSession => mState \in {4, 5, 6}
    BY <2>3 DEF PlayableStates, AWAITING_CLIENT_PLAY, PAUSED_TO_PLAYING, PAUSED
  <2>5. mPlaybackSessionEstablished => mState \in {5, 6}
    BY <2>4, EstablishedSession DEF ABOUT_TO_PLAY
  <2>6. mPlaybackSessionEstablished => streaming
    BY <1>2, <2>5 DEF MediaFollowsState, PLAYING, PLAYING_TO_PAUSED
  <2> QED BY <1>3, <2>2, <2>4, <2>6 DEF HeardStates, ABOUT_TO_PLAY
<1>6. CASE PlayAccepted
  <2>1. Consume /\ Reply(200) /\ CanReply /\ mPlaybackSession
    BY <1>2, <1>4, <1>6 DEF PlayAccepted, CanReply
  <2>2. HandlesOne({"PLAY"}) /\ TellsAnswer
    BY <1>1, <1>2, <2>1, AnswerTold, HeadOnly
  <2>3. mState' \in {PLAYING, ABOUT_TO_PLAY}
    BY <1>6, <2>1 DEF PlayAccepted
  <2>4. UNCHANGED <<mPlaybackSession, mPlaybackSessionEstablished>>
    BY <1>6 DEF PlayAccepted, clientVars
  <2>5. mPlaybackSessionEstablished => streaming'
    BY <1>6, Zenon DEF PlayAccepted
  <2>6. mState' >= ABOUT_TO_PLAY
    BY <2>3 DEF PLAYING, ABOUT_TO_PLAY
  <2> QED BY <1>3, <2>1, <2>2, <2>4, <2>5, <2>6
<1> QED BY <1>5, <1>6

\* A PAUSE stops established media that were to play.
LEMMA HeardPause ==
  ASSUME SourceIsHeard, MediaFollowsState, PauseRefused \/ PauseIgnored \/ PauseAccepted
  PROVE  /\ HandlesOne({"PAUSE"}) /\ Asks(1, "PAUSE") /\ TellsPlain
         /\ UNCHANGED <<mPlaybackSession, mPlaybackSessionEstablished>>
         /\ mState' = mState \/ (mState >= ABOUT_TO_PLAY /\ mState' >= ABOUT_TO_PLAY)
         /\ mPlaybackSessionEstablished /\ mState >= ABOUT_TO_PLAY => ~streaming'
<1>1. HandlingRequest("PAUSE") /\ Handling("data")
  BY DEF PauseRefused, PauseIgnored, PauseAccepted, HandlingRequest
<1>2. /\ TypeOK /\ ConnectionUp /\ UNCHANGED RtspSocket /\ inbox # << >>
      /\ Head(inbox).sid = RtspSocket /\ Head(inbox) = inbox[1] /\ 1 \in 1 .. Len(inbox)
      /\ RtspSocket \in open /\ mClientSessionID # NoSession
  BY <1>1, HeardGround, EmptySeq, LenProperties DEF Handling, TypeOK, SourceTyped, NetTypeOK
<1>3. Asks(1, "PAUSE")
  BY <1>1, <1>2 DEF Asks, HandlingRequest, Handling
<1>4. SessionFound <=> mPlaybackSession
  BY <1>1, <1>2 DEF SessionFound, SourceIsHeard, ClientBegins, HandlingRequest, Handling
<1>5. TellsAnswer => TellsPlain
  BY DEF TellsAnswer, TellsPlain
<1>6. CASE PauseRefused
  <2>1. Refuse(454) /\ UNCHANGED playbackVars /\ ~mPlaybackSession
    BY <1>4, <1>6 DEF PauseRefused
  <2>2. HandlesOne({"PAUSE"}) /\ TellsAnswer /\ UNCHANGED HeardStates
    BY <1>1, <1>2, <2>1, HeardRefuses, HeadOnly
  <2> QED BY <1>3, <1>5, <2>1, <2>2, EstablishedSession DEF HeardStates
<1>7. CASE PauseIgnored
  <2>1. Consume /\ UNCHANGED toSink /\ UNCHANGED HeardStates /\ mState \notin PausableStates
        /\ mPlaybackSession
    BY <1>4, <1>7 DEF PauseIgnored, HeardStates, clientVars, playbackVars
  <2>2. HandlesOne({"PAUSE"})
    BY <1>1, <1>2, <2>1, HeadOnly
  <2>3. TellsPlain
    BY <1>2, <2>1 DEF TellsPlain, TellsNothing, Unread
  <2>4. mPlaybackSessionEstablished /\ mState >= ABOUT_TO_PLAY => mState \in {7, 8}
    BY <2>1, EstablishedSession, SessionState
       DEF ABOUT_TO_PLAY, PausableStates, PLAYING, PLAYING_TO_PAUSED
  <2>5. mPlaybackSessionEstablished /\ mState >= ABOUT_TO_PLAY => ~streaming
    BY <1>2, <2>4 DEF MediaFollowsState, PAUSED, PAUSED_TO_PLAYING
  <2> QED BY <1>3, <2>1, <2>2, <2>3, <2>5 DEF HeardStates
<1>8. CASE PauseAccepted
  <2>1. Consume /\ Reply(200) /\ CanReply /\ mState \in PausableStates
    BY <1>2, <1>8 DEF PauseAccepted, CanReply
  <2>2. HandlesOne({"PAUSE"}) /\ TellsAnswer
    BY <1>1, <1>2, <2>1, AnswerTold, HeadOnly
  <2>3. mState' = PAUSED /\ ~streaming'
    BY <1>8, <2>1 DEF PauseAccepted
  <2>4. UNCHANGED <<mPlaybackSession, mPlaybackSessionEstablished>>
    BY <1>8 DEF PauseAccepted, clientVars
  <2>5. mState' >= ABOUT_TO_PLAY /\ mState >= ABOUT_TO_PLAY
    BY <2>1, <2>3 DEF PAUSED, ABOUT_TO_PLAY, PausableStates, PLAYING, PLAYING_TO_PAUSED
  <2> QED BY <1>3, <1>5, <2>2, <2>3, <2>4, <2>5
<1> QED BY <1>6, <1>7, <1>8

\* A source that is heard, and stays it, does one of these.
LEMMA HeardCases ==
  ASSUME SourceIsHeard, SourceStep
  PROVE  \/ Start \/ Stop \/ Release \/ Timers \/ PlaybackHandlers \/ LifesignExpires
         \/ Quiet /\ KeepAlive
         \/ OptionsRequest
         \/ UnsolicitedResponse \/ StatusResponse \/ M3Response \/ M4Response \/ M16Response
         \/ SetupRefused \/ (Faults /\ SetupFailed) \/ SetupAccepted
         \/ PlayRefused \/ PlayAccepted
         \/ PauseRefused \/ PauseIgnored \/ PauseAccepted
         \/ TeardownRefused \/ TeardownUnasked
         \/ ParameterRefused \/ ParameterAccepted \/ OtherRequest
<1>1. /\ RtspSocket \in open' /\ mClientSessionID = RtspSocket /\ mClientSessionID # NoSession
      /\ mState < AWAITING_CLIENT_TEARDOWN
      /\ inbox # << >> => Head(inbox).sid = RtspSocket
  BY HeardGround
<1>2. ~RejectClient /\ ~SessionError
  BY <1>1 DEF RejectClient, SessionError, Handling
<1>3. ~ClientConnectedAbort /\ ~ClientConnected
  BY <1>1 DEF ClientConnectedAbort, ClientConnected
<1>4. ~M4Abort /\ ~M16ResponseAbort /\ ~SetupAbort
  BY <1>1 DEF M4Abort, M16ResponseAbort, SetupAbort, HandlingResponse, HandlingRequest, Handling
<1>5. ~TeardownRequest
  BY <1>1 DEF TeardownRequest, AWAITING_CLIENT_TEARDOWN
<1>6. ~ConnectionHandlers
  BY <1>2, <1>3 DEF ConnectionHandlers
<1>7. \/ Start \/ Stop \/ Release \/ ResponseHandlers \/ RequestHandlers \/ Timers
      \/ PlaybackHandlers \/ LifesignExpires \/ (Faults /\ SetupFailed) \/ (Quiet /\ KeepAlive)
  BY <1>6 DEF SourceStep, NetworkHandlers, SendKeepAlive
<1>8. ResponseHandlers =>
        \/ UnsolicitedResponse \/ StatusResponse \/ M3Response \/ M4Response \/ M16Response
  BY <1>4 DEF ResponseHandlers
<1>9. RequestHandlers =>
        \/ OptionsRequest \/ SetupRefused \/ SetupAccepted \/ PlayRefused \/ PlayAccepted
        \/ PauseRefused \/ PauseIgnored \/ PauseAccepted \/ TeardownRefused \/ TeardownUnasked
        \/ ParameterRefused \/ ParameterAccepted \/ OtherRequest
  BY <1>4, <1>5 DEF RequestHandlers
<1> QED BY <1>7, <1>8, <1>9

\* A keep-alive is sent to a client that has nothing left to do.
LEMMA HeardKeepAlive ==
  ASSUME SourceIsHeard, Quiet, KeepAlive
  PROVE  /\ UNCHANGED <<inbox, HeardStates>>
         /\ \/ TellsNothing
            \/ /\ mState >= AWAITING_CLIENT_PLAY /\ Unread = << >>
               /\ \E msg \in SourceMessage : TellsOne(msg) /\ msg.kind = "request" /\ msg.tag = "M16"
<1>1. /\ ConnectionUp /\ TypeOK /\ UNCHANGED RtspSocket /\ RtspSocket \in Session
      /\ mClientSessionID = RtspSocket
  BY HeardGround
<1>2. PICK sid \in keepAlives :
        \/ sid # mClientSessionID /\ UNCHANGED toSink
        \/ sid = mClientSessionID /\ Send(sid, "M16")
  BY DEF KeepAlive
<1>3. UNCHANGED <<inbox, HeardStates>>
  BY DEF KeepAlive, HeardStates, clientVars, playbackVars
<1>4. CASE UNCHANGED toSink
  BY <1>1, <1>3, <1>4 DEF TellsNothing, Unread
<1>5. CASE Send(RtspSocket, "M16")
  <2>1. SendAfter(<< >>, RtspSocket, "M16", {})
    BY <1>5 DEF Send
  <2>2. "M16" \in Tags
    BY DEF Tags
  <2>3. \E msg \in SourceMessage : TellsOne(msg) /\ msg.kind = "request" /\ msg.tag = "M16"
    BY <2>1, <2>2, HeardSend
  <2>4. mState >= AWAITING_CLIENT_PLAY
    BY <1>2 DEF SourceIsHeard, MediaBegins
  <2>5. Unread = << >>
    BY <1>1 DEF Quiet, Unread
  <2> QED BY <1>3, <2>3, <2>4, <2>5
<1> QED BY <1>1, <1>2, <1>4, <1>5

LEMMA AskedAfter ==
  ASSUME TypeOK, inbox # << >>, Consume, UNCHANGED RtspSocket, NEW method \in Methods
  PROVE  /\ Asked(method)' => Asked(method)
         /\ Asked(method) /\ ~Asks(1, method) => Asked(method)'
         /\ Asks(1, method) => Asked(method)
<1>1. /\ Len(inbox) \in Nat /\ 1 \in 1 .. Len(inbox) /\ Len(inbox') = Len(inbox) - 1
      /\ \A i \in 1 .. Len(inbox') : i + 1 \in 1 .. Len(inbox)
      /\ \A i \in 1 .. Len(inbox') : Asks(i, method)' <=> Asks(i + 1, method)
  BY AsksConsumed
<1>2. Asked(method)' => Asked(method)
  BY <1>1 DEF Asked
<1>3. ASSUME Asked(method), ~Asks(1, method) PROVE Asked(method)'
  <2>1. PICK i \in 1 .. Len(inbox) : Asks(i, method)
    BY <1>3 DEF Asked
  <2>2. i # 1
    BY <1>3, <2>1
  <2>3. i - 1 \in 1 .. Len(inbox') /\ (i - 1) + 1 = i
    BY <1>1, <2>1, <2>2
  <2>4. \E j \in 1 .. Len(inbox') : Asks(j, method)'
    <3>1. \A j \in 1 .. Len(inbox') : j + 1 = i => Asks(j, method)'
      BY <1>1, <2>1
    <3> QED BY <2>3, <3>1
  <2> QED BY <2>4 DEF Asked
<1> QED BY <1>1, <1>2, <1>3 DEF Asked

Openers == {{"M1"}, {"M3"}, {"M16"}}

LEMMA PlainTold ==
  ASSUME TellsPlain \/ TellsAnswer
  PROVE  /\ \A tags \in Openers, i \in 1 .. Len(Unread') :
              Tells(i, tags)' => i \in 1 .. Len(Unread) /\ Tells(i, tags)
         /\ \A tags \in Openers : Told(tags)' => Told(tags)
         /\ Answered => Answered'
         /\ TellsAnswer => Answered'
<1>1. CASE TellsNothing
  <2>1. /\ \A tags \in Openers, i \in 1 .. Len(Unread') :
             Tells(i, tags)' => i \in 1 .. Len(Unread) /\ Tells(i, tags)
        /\ Answered => Answered'
    BY <1>1 DEF TellsNothing, Tells, Answered
  <2>2. ~TellsAnswer
    BY <1>1 DEF TellsNothing, TellsAnswer, TellsOne
  <2> QED BY <2>1, <2>2 DEF Told
<1>2. ASSUME NEW msg \in SourceMessage, TellsOne(msg),
             msg.kind = "request" => msg.tag \notin {"M1", "M3", "M16"}
      PROVE  /\ \A tags \in Openers, i \in 1 .. Len(Unread') :
                  Tells(i, tags)' => i \in 1 .. Len(Unread) /\ Tells(i, tags)
             /\ Answered => Answered'
             /\ msg.kind = "response" => Answered'
  <2>1. /\ Len(Unread) \in Nat /\ Len(Unread') = Len(Unread) + 1
        /\ \A i \in 1 .. Len(Unread) : Unread'[i] = Unread[i]
        /\ \A i \in Len(Unread) + 1 .. Len(Unread) + 1 : Unread'[i] = msg
    BY <1>2 DEF TellsOne
  <2>2. \A i \in 1 .. Len(Unread') : i \in 1 .. Len(Unread) \/ i \in Len(Unread) + 1 .. Len(Unread) + 1
    BY <2>1
  <2>3. ASSUME NEW tags \in Openers, NEW i \in 1 .. Len(Unread'), Tells(i, tags)'
        PROVE  i \in 1 .. Len(Unread) /\ Tells(i, tags)
    BY <1>2, <2>1, <2>2, <2>3 DEF Tells, Openers
  <2>4. Answered => Answered'
    BY <2>1 DEF Answered
  <2>5. msg.kind = "response" => Answered'
    <3>1. Len(Unread) + 1 \in 1 .. Len(Unread') /\ Len(Unread) + 1 \in Len(Unread) + 1 .. Len(Unread) + 1
      BY <2>1
    <3> QED BY <2>1, <3>1 DEF Answered
  <2> QED BY <2>3, <2>4, <2>5
<1>3. CASE TellsAnswer
  <2>1. PICK msg \in SourceMessage : TellsOne(msg) /\ msg.kind = "response"
    BY <1>3 DEF TellsAnswer
  <2> QED BY <1>2, <2>1 DEF Told
<1>4. CASE TellsPlain /\ ~TellsAnswer /\ ~TellsNothing
  <2>1. PICK msg \in SourceMessage :
          TellsOne(msg) /\ (msg.kind = "request" => msg.tag \notin {"M1", "M3", "M16"})
    BY <1>4 DEF TellsPlain
  <2> QED BY <1>2, <1>4, <2>1 DEF Told
<1> QED BY <1>1, <1>3, <1>4

\* Openers, once the source has handled something else than OPTIONS,
LEMMA OpenedAfterPlain ==
  ASSUME TypeOK, UNCHANGED <<RtspSocket, RtspState>>, inbox # << >>, Consume,
         ~Asks(1, "OPTIONS"), TellsPlain \/ TellsAnswer, OpenedOnce
  PROVE  OpenedOnce'
<1>1. /\ \A i \in 1 .. Len(inbox') : i + 1 \in 1 .. Len(inbox)
      /\ \A i \in 1 .. Len(inbox') : Asks(i, "OPTIONS")' <=> Asks(i + 1, "OPTIONS")
      /\ Asked("OPTIONS")' => Asked("OPTIONS")
  BY AsksConsumed, AskedAfter DEF Methods
<1>2. /\ \A i \in 1 .. Len(Unread') : Tells(i, {"M1"})' => i \in 1 .. Len(Unread) /\ Tells(i, {"M1"})
      /\ \A i \in 1 .. Len(Unread') : Tells(i, {"M3"})' => i \in 1 .. Len(Unread) /\ Tells(i, {"M3"})
      /\ Told({"M3"})' => Told({"M3"})
  BY PlainTold DEF Openers
<1>3. \A i, j \in 1 .. Len(inbox') : Asks(i, "OPTIONS")' /\ Asks(j, "OPTIONS")' => i = j
  <2> SUFFICES ASSUME NEW i \in 1 .. Len(inbox'), NEW j \in 1 .. Len(inbox'),
                      Asks(i, "OPTIONS")', Asks(j, "OPTIONS")'
               PROVE  i = j
    OBVIOUS
  <2>1. i + 1 = j + 1 /\ i \in Int /\ j \in Int
    BY <1>1 DEF OpenedOnce
  <2> QED BY <2>1
<1> QED BY <1>1, <1>2, <1>3 DEF OpenedOnce

\* and once it has answered that.
LEMMA OpenedAfterOptions ==
  ASSUME TypeOK, UNCHANGED <<RtspSocket, RtspState>>, inbox # << >>, Consume,
         Asks(1, "OPTIONS"), AnswersOptions, OpenedOnce
  PROVE  OpenedOnce'
<1>1. /\ 1 \in 1 .. Len(inbox)
      /\ \A i \in 1 .. Len(inbox') : i + 1 \in 1 .. Len(inbox)
      /\ \A i \in 1 .. Len(inbox') : Asks(i, "OPTIONS")' <=> Asks(i + 1, "OPTIONS")
  BY AsksConsumed DEF Methods
<1>2. RtspState = 2 /\ ~Told({"M3"})
  BY <1>1 DEF OpenedOnce, Asked
<1>3. ~Asked("OPTIONS")'
  <2>1. ASSUME NEW i \in 1 .. Len(inbox'), Asks(i, "OPTIONS")' PROVE FALSE
    <3>1. i + 1 = 1 /\ i \in Int /\ i >= 1
      BY <1>1, <2>1 DEF OpenedOnce
    <3> QED BY <3>1
  <2> QED BY <2>1 DEF Asked
<1>4. PICK msg \in SourceMessage :
        /\ msg.kind = "request" /\ msg.tag = "M3"
        /\ Len(Unread) \in Nat /\ Len(Unread') = Len(Unread) + 2
        /\ \A i \in 1 .. Len(Unread) : Unread'[i] = Unread[i]
        /\ \A i \in Len(Unread) + 1 .. Len(Unread) + 1 : Unread'[i] = Response(200)
        /\ \A i \in Len(Unread) + 2 .. Len(Unread) + 2 : Unread'[i] = msg
  BY DEF AnswersOptions
<1>5. \A i \in 1 .. Len(Unread') : \/ i \in 1 .. Len(Unread)
                                   \/ i \in Len(Unread) + 1 .. Len(Unread) + 1
                                   \/ i \in Len(Unread) + 2 .. Len(Unread) + 2
  BY <1>4
<1>6. Response(200).kind = "response"
  BY DEF Response
<1>7. \A i \in 1 .. Len(Unread') : Tells(i, {"M1"})' => i \in 1 .. Len(Unread) /\ Tells(i, {"M1"})
  BY <1>4, <1>5, <1>6 DEF Tells
<1>8. \A i \in 1 .. Len(Unread') : Tells(i, {"M3"})' => i \in Len(Unread) + 2 .. Len(Unread) + 2
  <2>1. \A i \in 1 .. Len(Unread) : ~Tells(i, {"M3"})
    BY <1>2 DEF Told
  <2> QED BY <1>4, <1>5, <1>6, <2>1 DEF Tells
<1>9. \A i, j \in 1 .. Len(Unread') : Tells(i, {"M3"})' /\ Tells(j, {"M3"})' => i = j
  BY <1>4, <1>8
<1>10. \A i, j \in 1 .. Len(inbox') : Asks(i, "OPTIONS")' /\ Asks(j, "OPTIONS")' => i = j
  BY <1>3 DEF Asked
<1> QED BY <1>2, <1>3, <1>7, <1>9, <1>10 DEF OpenedOnce

\* The client is still in step, if it is answered.
LEMMA InStepAfter ==
  ASSUME TypeOK, UNCHANGED <<RtspSocket, RtspState>>, inbox # << >>, Consume, InStep,
         mState' >= AWAITING_CLIENT_PLAY => mState >= AWAITING_CLIENT_PLAY \/ Asks(1, "SETUP"),
         Asks(1, "SETUP") \/ Asks(1, "PLAY") \/ Answered => Answered',
         Told({"M16"})' => Told({"M16"})
  PROVE  InStep'
<1>1. \A m \in {"SETUP", "PLAY"} :
        /\ Asked(m)' => Asked(m)
        /\ Asked(m) /\ ~Asks(1, m) => Asked(m)'
        /\ Asks(1, m) => Asked(m)
  BY AskedAfter DEF Methods
<1> QED BY <1>1 DEF InStep

\* The PLAY of the handshake comes after its SETUP or has been handled.
LEMMA PlayAfter ==
  ASSUME TypeOK, UNCHANGED <<RtspSocket, RtspState>>, inbox # << >>, Consume, PlayFollowsSetup,
         mPlaybackSession' => mPlaybackSession \/ Asks(1, "SETUP"),
         mState >= ABOUT_TO_PLAY => mState' >= ABOUT_TO_PLAY,
         Asks(1, "PLAY") /\ mPlaybackSession' => mState' >= ABOUT_TO_PLAY
  PROVE  PlayFollowsSetup'
<1> SUFFICES ASSUME RtspState >= 7 PROVE PlayFollowsSetup'
  BY DEF PlayFollowsSetup
<1>1. /\ Len(inbox) \in Nat /\ 1 \in 1 .. Len(inbox) /\ Len(inbox') = Len(inbox) - 1
      /\ \A i \in 1 .. Len(inbox') : i + 1 \in 1 .. Len(inbox)
      /\ \A i \in 1 .. Len(inbox') : Asks(i, "PLAY")' <=> Asks(i + 1, "PLAY")
      /\ \A i \in 1 .. Len(inbox') : Asks(i, "SETUP")' <=> Asks(i + 1, "SETUP")
      /\ Asked("SETUP")' => Asked("SETUP")
      /\ Asks(1, "SETUP") => Asked("SETUP")
  BY AsksConsumed, AskedAfter DEF Methods
<1>2. CASE ~Asked("SETUP") /\ (mPlaybackSession => mState >= ABOUT_TO_PLAY)
  BY <1>1, <1>2 DEF PlayFollowsSetup
<1>3. CASE \E i \in 1 .. Len(inbox) :
             Asks(i, "PLAY") /\ \A j \in i + 1 .. Len(inbox) : ~Asks(j, "SETUP")
  <2>1. PICK i \in 1 .. Len(inbox) :
          Asks(i, "PLAY") /\ \A j \in i + 1 .. Len(inbox) : ~Asks(j, "SETUP")
    BY <1>3
  <2>2. CASE i = 1
    <3>1. ASSUME NEW j \in 1 .. Len(inbox') PROVE ~Asks(j, "SETUP")'
      <4>1. j + 1 \in i + 1 .. Len(inbox)
        BY <1>1, <2>2
      <4> QED BY <1>1, <2>1, <4>1
    <3>2. ~Asked("SETUP")'
      BY <3>1 DEF Asked
    <3> QED BY <2>1, <2>2, <3>2 DEF PlayFollowsSetup
  <2>3. CASE i # 1
    <3>1. PICK h \in 1 .. Len(inbox') : h + 1 = i
      <4>1. i - 1 \in 1 .. Len(inbox') /\ (i - 1) + 1 = i
        BY <1>1, <2>3
      <4> QED BY <4>1
    <3>2. Asks(h, "PLAY")'
      BY <1>1, <2>1, <3>1
    <3>3. ASSUME NEW j \in h + 1 .. Len(inbox') PROVE ~Asks(j, "SETUP")'
      <4>1. j \in 1 .. Len(inbox') /\ j + 1 \in i + 1 .. Len(inbox)
        BY <1>1, <3>1
      <4> QED BY <1>1, <2>1, <4>1
    <3> QED BY <3>2, <3>3 DEF PlayFollowsSetup
  <2> QED BY <2>2, <2>3
<1> QED BY <1>2, <1>3 DEF PlayFollowsSetup

\* The last order stands, or was carried out.
LEMMA OrderAfter ==
  ASSUME TypeOK, UNCHANGED <<RtspSocket, RtspState, monitor>>, inbox # << >>, Consume,
         PlayFollowsSetup, LastOrderStands,
         mPlaybackSessionEstablished => mPlaybackSessionEstablished' /\ mPlaybackSession,
         mPlaybackSessionEstablished /\ Asks(1, "PLAY") => streaming',
         /\ mPlaybackSessionEstablished /\ Asks(1, "PAUSE") /\ mState >= ABOUT_TO_PLAY
            => ~streaming',
         mPlaybackSessionEstablished /\ ~Asks(1, "PLAY") /\ ~Asks(1, "PAUSE")
            => UNCHANGED streaming,
         streaming' \in BOOLEAN
  PROVE  LastOrderStands'
<1> SUFFICES ASSUME monitor # "none" PROVE LastOrderStands'
  BY DEF LastOrderStands
<1>1. /\ Len(inbox) \in Nat /\ 1 \in 1 .. Len(inbox) /\ Len(inbox') = Len(inbox) - 1
      /\ \A i \in 1 .. Len(inbox') : i + 1 \in 1 .. Len(inbox)
      /\ \A i \in 1 .. Len(inbox') : Asks(i, "PLAY")' <=> Asks(i + 1, "PLAY")
      /\ \A i \in 1 .. Len(inbox') : Asks(i, "PAUSE")' <=> Asks(i + 1, "PAUSE")
      /\ Asked("PLAY")' => Asked("PLAY")
      /\ Asked("PAUSE")' => Asked("PAUSE")
      /\ Asks(1, "PLAY") => Asked("PLAY")
      /\ Asks(1, "PAUSE") => Asked("PAUSE")
  BY AsksConsumed, AskedAfter DEF Methods
<1>2. LinkReady /\ LinkReady' /\ mPlaybackSessionEstablished /\ mPlaybackSession /\ RtspState = 8
  BY DEF LastOrderStands, LinkReady
<1>3. UNCHANGED Order /\ Order \in {"PLAY", "PAUSE"}
  BY DEF Order
<1>4. CASE ~Asked("PLAY") /\ ~Asked("PAUSE") /\ streaming = (monitor = "START")
  <2>1. ~Asked("PLAY")' /\ ~Asked("PAUSE")' /\ UNCHANGED streaming
    BY <1>1, <1>2, <1>4
  <2>2. streaming' = (monitor' = "START")
    BY <1>4, <2>1
  <2> QED BY <1>2, <2>1, <2>2 DEF LastOrderStands
<1>5. CASE \E i \in 1 .. Len(inbox) :
             /\ Asks(i, Order)
             /\ \A j \in i + 1 .. Len(inbox) : ~Asks(j, "PLAY") /\ ~Asks(j, "PAUSE")
  <2>1. PICK i \in 1 .. Len(inbox) :
          /\ Asks(i, Order)
          /\ \A j \in i + 1 .. Len(inbox) : ~Asks(j, "PLAY") /\ ~Asks(j, "PAUSE")
    BY <1>5
  <2>2. CASE i = 1
    <3>1. ASSUME NEW j \in 1 .. Len(inbox') PROVE ~Asks(j, "PLAY")' /\ ~Asks(j, "PAUSE")'
      <4>1. j + 1 \in i + 1 .. Len(inbox)
        BY <1>1, <2>2
      <4> QED BY <1>1, <2>1, <4>1
    <3>2. ~Asked("PLAY")' /\ ~Asked("PAUSE")'
      BY <3>1 DEF Asked
    <3>3. CASE monitor = "START"
      <4>1. Asks(1, "PLAY")
        BY <2>1, <2>2, <3>3 DEF Order
      <4>2. streaming'
        BY <1>2, <4>1
      <4>3. streaming' = (monitor' = "START")
        BY <3>3, <4>2
      <4> QED BY <1>2, <3>2, <4>3 DEF LastOrderStands
    <3>4. CASE monitor # "START"
      <4>1. Asks(1, "PAUSE")
        BY <2>1, <2>2, <3>4 DEF Order
      <4>2. ~\E l \in 1 .. Len(inbox) :
               Asks(l, "PLAY") /\ \A j \in l + 1 .. Len(inbox) : ~Asks(j, "SETUP")
        <5>1. ASSUME NEW l \in 1 .. Len(inbox), Asks(l, "PLAY") PROVE FALSE
          <6>1. l # 1
            BY <4>1, <5>1 DEF Asks
          <6>2. l \in i + 1 .. Len(inbox)
            BY <1>1, <2>2, <6>1
          <6> QED BY <2>1, <5>1, <6>2
        <5> QED BY <5>1
      <4>3. mState >= ABOUT_TO_PLAY
        BY <1>2, <4>2 DEF PlayFollowsSetup
      <4>4. ~streaming'
        BY <1>2, <4>1, <4>3
      <4>5. streaming' = (monitor' = "START")
        BY <3>4, <4>4
      <4> QED BY <1>2, <3>2, <4>5 DEF LastOrderStands
    <3> QED BY <3>3, <3>4
  <2>3. CASE i # 1
    <3>1. PICK h \in 1 .. Len(inbox') : h + 1 = i
      <4>1. i - 1 \in 1 .. Len(inbox') /\ (i - 1) + 1 = i
        BY <1>1, <2>3
      <4> QED BY <4>1
    <3>2. Asks(h, Order)'
      <4>1. /\ Order = "PLAY" => Asks(h, "PLAY")'
            /\ Order = "PAUSE" => Asks(h, "PAUSE")'
        BY <1>1, <2>1, <3>1
      <4> QED BY <1>3, <4>1
    <3>3. ASSUME NEW j \in h + 1 .. Len(inbox') PROVE ~Asks(j, "PLAY")' /\ ~Asks(j, "PAUSE")'
      <4>1. j \in 1 .. Len(inbox') /\ j + 1 \in i + 1 .. Len(inbox)
        BY <1>1, <3>1
      <4> QED BY <1>1, <2>1, <4>1
    <3> QED BY <1>2, <3>2, <3>3 DEF LastOrderStands
  <2> QED BY <2>2, <2>3
<1> QED BY <1>4, <1>5 DEF LastOrderStands

\* What the source does beside the queue changes nothing of the conversation.
LEMMA BesideKeeps ==
  ASSUME TypeOK, Beside, UNCHANGED <<rtspVars, linkVars>>, Conversation
  PROVE  Conversation'
<1> USE DEF AWAITING_CLIENT_CONNECTION, AWAITING_CLIENT_PLAY, INITIALIZED, ABOUT_TO_PLAY, PLAYING
<1>1. /\ UNCHANGED <<inbox, Unread, RtspSocket, RtspState, monitor, mPlaybackSession>>
      /\ mState \in 0 .. 11
  BY DEF Beside, Unread, rtspVars, linkVars, TypeOK, SourceTyped, SourceTypeOK, STOPPED
<1>2. /\ \A i \in 1 .. Len(inbox), m \in Methods : Asks(i, m)' <=> Asks(i, m)
      /\ \A m \in Methods : Asked(m)' <=> Asked(m)
      /\ \A tags : Told(tags)' <=> Told(tags)
      /\ \A i \in 1 .. Len(Unread) : \A tags : Tells(i, tags)' <=> Tells(i, tags)
      /\ Answered' <=> Answered
  BY <1>1 DEF Asks, Asked, Tells, Told, Answered
<1>3. /\ mState' >= AWAITING_CLIENT_PLAY <=> mState >= AWAITING_CLIENT_PLAY
      /\ mState' >= ABOUT_TO_PLAY <=> mState >= ABOUT_TO_PLAY
  BY <1>1 DEF Beside
<1>4. OpenedOnce'
  BY <1>1, <1>2 DEF Conversation, OpenedOnce, Methods
<1>5. InStep'
  BY <1>1, <1>2, <1>3 DEF Conversation, InStep, Methods
<1>6. PlayFollowsSetup'
  BY <1>1, <1>2, <1>3 DEF Conversation, PlayFollowsSetup, Methods
<1>7. LastOrderStands'
  <2>1. CASE monitor = "none"
    BY <1>1, <2>1 DEF LastOrderStands
  <2>2. CASE monitor # "none"
    <3>1. UNCHANGED <<mPlaybackSessionEstablished, streaming>>
      BY <2>2 DEF Beside, Conversation, LastOrderStands, LinkReady
    <3>2. UNCHANGED Order /\ Order \in Methods
      BY <1>1 DEF Order, Methods
    <3> QED BY <1>1, <1>2, <3>1, <3>2 DEF Conversation, LastOrderStands, LinkReady, Methods
  <2> QED BY <2>1, <2>2
<1> QED BY <1>4, <1>5, <1>6, <1>7 DEF Conversation

\* A keep-alive finds the client in its last state.
LEMMA KeepAliveKeeps ==
  ASSUME SourceIsHeard, Conversation, Quiet, KeepAlive
  PROVE  Conversation'
<1>1. /\ UNCHANGED <<inbox, HeardStates>> /\ TypeOK /\ UNCHANGED <<RtspSocket, RtspState, monitor>>
      /\ inbox = << >>
  BY HeardKeepAlive DEF Quiet, SourceIsHeard, rtspVars, linkVars
<1>2. /\ \A m : ~Asked(m) /\ ~Asked(m)'
      /\ Len(inbox) = 0 /\ Len(inbox') = 0
  BY <1>1 DEF Asked
<1>3. PlayFollowsSetup' /\ LastOrderStands'
  BY <1>1, <1>2 DEF Conversation, PlayFollowsSetup, LastOrderStands, HeardStates, LinkReady
<1>4. CASE TellsNothing
  BY <1>1, <1>2, <1>3, <1>4
     DEF Conversation, OpenedOnce, InStep, TellsNothing, Tells, Told, Answered, HeardStates
<1>5. ASSUME mState >= AWAITING_CLIENT_PLAY, Unread = << >>,
             NEW msg \in SourceMessage, TellsOne(msg), msg.kind = "request", msg.tag = "M16"
      PROVE  Conversation'
  <2>1. /\ Len(Unread) = 0 /\ Len(Unread') = 1
        /\ \A i \in 1 .. Len(Unread') : i \in Len(Unread) + 1 .. Len(Unread) + 1
        /\ \A i \in 1 .. Len(Unread') : Unread'[i] = msg
    BY <1>5 DEF TellsOne
  <2>2. ~Answered
    BY <2>1 DEF Answered
  <2>3. RtspState = 8
    <3>1. RtspState \in 0 .. 8
      BY <1>1 DEF TypeOK, RtspTypeOK
    <3> QED BY <1>2, <1>5, <2>2, <3>1 DEF Conversation, InStep
  <2>4. \A i \in 1 .. Len(Unread') : ~Tells(i, {"M1"})' /\ ~Tells(i, {"M3"})'
    BY <1>5, <2>1 DEF Tells
  <2>5. ~Told({"M3"})'
    BY <2>4 DEF Told
  <2>6. OpenedOnce'
    BY <1>2, <2>4, <2>5 DEF OpenedOnce
  <2>7. InStep'
    BY <1>1, <1>2, <2>3 DEF InStep
  <2> QED BY <1>3, <2>6, <2>7 DEF Conversation
<1> QED BY <1>4, <1>5, HeardKeepAlive

\* An answer to OPTIONS is an answer, and its M3 no keep-alive.
LEMMA OptionsTold ==
  ASSUME AnswersOptions
  PROVE  Answered' /\ (Told({"M16"})' => Told({"M16"}))
<1>1. PICK msg \in SourceMessage :
        /\ msg.kind = "request" /\ msg.tag = "M3"
        /\ Len(Unread) \in Nat /\ Len(Unread') = Len(Unread) + 2
        /\ \A i \in 1 .. Len(Unread) : Unread'[i] = Unread[i]
        /\ \A i \in Len(Unread) + 1 .. Len(Unread) + 1 : Unread'[i] = Response(200)
        /\ \A i \in Len(Unread) + 2 .. Len(Unread) + 2 : Unread'[i] = msg
  BY DEF AnswersOptions
<1>2. Response(200).kind = "response"
  BY DEF Response
<1>3. Answered'
  <2>1. /\ Len(Unread) + 1 \in 1 .. Len(Unread')
        /\ Len(Unread) + 1 \in Len(Unread) + 1 .. Len(Unread) + 1
    BY <1>1
  <2> QED BY <1>1, <1>2, <2>1 DEF Answered
<1>4. ASSUME NEW i \in 1 .. Len(Unread'), Tells(i, {"M16"})'
      PROVE  i \in 1 .. Len(Unread) /\ Tells(i, {"M16"})
  <2>1. \/ i \in 1 .. Len(Unread)
        \/ i \in Len(Unread) + 1 .. Len(Unread) + 1
        \/ i \in Len(Unread) + 2 .. Len(Unread) + 2
    BY <1>1
  <2> QED BY <1>1, <1>2, <1>4, <2>1 DEF Tells
<1> QED BY <1>3, <1>4 DEF Told

\* Whatever a source that is heard does, the conversation goes on.
LEMMA SourceKeepsConversation ==
  ASSUME SourceIsHeard, MediaFollowsState, Conversation, SourceStep
  PROVE  Conversation'
<1>1. /\ TypeOK /\ Stages /\ Heard /\ Heard' /\ UNCHANGED <<rtspVars, linkVars>>
      /\ UNCHANGED <<RtspSocket, RtspState, monitor>>
      /\ mState \in 0 .. 11
  BY DEF SourceIsHeard, rtspVars, linkVars, TypeOK, SourceTyped, SourceTypeOK, INITIALIZED, STOPPED
<1>2. streaming' \in BOOLEAN
  <2>1. SourceNext
    BY DEF SourceStep, SourceNext, ServiceCalls
  <2> QED BY <1>1, <2>1, SourceStepTyped DEF TypeOK, SourceTyped, SourceTypeOK
<1>3. OpenedOnce /\ InStep /\ PlayFollowsSetup /\ LastOrderStands
  BY DEF Conversation
<1>4. mPlaybackSessionEstablished => mPlaybackSession
  BY EstablishedSession
<1>5. {"OPTIONS", "SETUP", "PLAY", "PAUSE"} \subseteq Methods
  BY DEF Methods
<1>6. ASSUME TellsPlain \/ TellsAnswer
      PROVE  /\ Told({"M16"})' => Told({"M16"})
             /\ Answered => Answered'
             /\ TellsAnswer => Answered'
  BY <1>6, PlainTold DEF Openers
<1>7. CASE Start \/ Stop \/ Release \/ Timers \/ PlaybackHandlers \/ LifesignExpires
  BY <1>1, <1>7, HeardBeside, BesideKeeps
<1>8. CASE Quiet /\ KeepAlive
  BY <1>8, KeepAliveKeeps
<1>9. CASE OptionsRequest
  <2>1. /\ HandlesOne({"OPTIONS"}) /\ Asks(1, "OPTIONS") /\ AnswersOptions
        /\ UNCHANGED HeardStates
    BY <1>9, HeardOptions
  <2>2. /\ inbox # << >> /\ Consume
        /\ ~Asks(1, "SETUP") /\ ~Asks(1, "PLAY") /\ ~Asks(1, "PAUSE")
    BY <1>5, <2>1 DEF HandlesOne
  <2>3. OpenedOnce'
    BY <1>1, <1>3, <2>1, <2>2, OpenedAfterOptions
  <2>4. InStep'
    BY <1>1, <1>3, <2>1, <2>2, OptionsTold, InStepAfter DEF HeardStates
  <2>5. PlayFollowsSetup'
    BY <1>1, <1>3, <2>1, <2>2, PlayAfter DEF HeardStates
  <2>6. LastOrderStands'
    BY <1>1, <1>2, <1>3, <1>4, <2>1, <2>2, OrderAfter DEF HeardStates
  <2> QED BY <2>3, <2>4, <2>5, <2>6 DEF Conversation
<1>10. CASE \/ UnsolicitedResponse \/ StatusResponse \/ M3Response \/ M4Response \/ M16Response
            \/ TeardownRefused \/ TeardownUnasked
            \/ ParameterRefused \/ ParameterAccepted \/ OtherRequest
  <2>1. PICK methods \in {{}, {"TEARDOWN", "GET_PARAMETER", "SET_PARAMETER", "OTHER"}} :
          HandlesOne(methods) /\ (TellsPlain \/ TellsAnswer) /\ UNCHANGED HeardStates
    BY <1>10, HeardAnswers, HeardOthers DEF TellsNoAnswer, TellsPlain
  <2>2. /\ inbox # << >> /\ Consume
        /\ ~Asks(1, "OPTIONS") /\ ~Asks(1, "SETUP") /\ ~Asks(1, "PLAY") /\ ~Asks(1, "PAUSE")
    BY <1>5, <2>1 DEF HandlesOne
  <2>3. OpenedOnce'
    BY <1>1, <1>3, <2>1, <2>2, OpenedAfterPlain
  <2>4. InStep'
    BY <1>1, <1>3, <1>6, <2>1, <2>2, InStepAfter DEF HeardStates
  <2>5. PlayFollowsSetup'
    BY <1>1, <1>3, <2>1, <2>2, PlayAfter DEF HeardStates
  <2>6. LastOrderStands'
    BY <1>1, <1>2, <1>3, <1>4, <2>1, <2>2, OrderAfter DEF HeardStates
  <2> QED BY <2>3, <2>4, <2>5, <2>6 DEF Conversation
<1>11. CASE SetupRefused \/ SetupFailed \/ SetupAccepted
  <2>1. /\ HandlesOne({"SETUP"}) /\ Asks(1, "SETUP") /\ TellsAnswer
        /\ \/ UNCHANGED HeardStates
           \/ /\ mState < AWAITING_CLIENT_PLAY /\ mState' = AWAITING_CLIENT_PLAY
              /\ mPlaybackSession'
              /\ ~mPlaybackSessionEstablished /\ UNCHANGED mPlaybackSessionEstablished
    BY <1>11, HeardSetup
  <2>2. /\ inbox # << >> /\ Consume
        /\ ~Asks(1, "OPTIONS") /\ ~Asks(1, "PLAY") /\ ~Asks(1, "PAUSE")
    BY <1>5, <2>1 DEF HandlesOne
  <2>3. OpenedOnce'
    BY <1>1, <1>3, <2>1, <2>2, OpenedAfterPlain
  <2>4. InStep'
    BY <1>1, <1>3, <1>6, <2>1, <2>2, InStepAfter DEF HeardStates
  <2>5. PlayFollowsSetup'
    <3>1. mState >= ABOUT_TO_PLAY => mState' >= ABOUT_TO_PLAY
      BY <1>1, <2>1 DEF HeardStates, AWAITING_CLIENT_PLAY, ABOUT_TO_PLAY
    <3> QED BY <1>1, <1>3, <2>1, <2>2, <3>1, PlayAfter DEF HeardStates
  <2>6. LastOrderStands'
    BY <1>1, <1>2, <1>3, <1>4, <2>1, <2>2, OrderAfter DEF HeardStates
  <2> QED BY <2>3, <2>4, <2>5, <2>6 DEF Conversation
<1>12. CASE PlayRefused \/ PlayAccepted
  <2>1. /\ HandlesOne({"PLAY"}) /\ Asks(1, "PLAY") /\ TellsAnswer
        /\ UNCHANGED <<mPlaybackSession, mPlaybackSessionEstablished>>
        /\ mPlaybackSession => mState' >= ABOUT_TO_PLAY /\ mState >= AWAITING_CLIENT_PLAY
        /\ ~mPlaybackSession => UNCHANGED mState
        /\ mPlaybackSessionEstablished => streaming'
    BY <1>12, HeardPlay, SessionState DEF AWAITING_CLIENT_PLAY
  <2>2. /\ inbox # << >> /\ Consume
        /\ ~Asks(1, "OPTIONS") /\ ~Asks(1, "SETUP") /\ ~Asks(1, "PAUSE")
    BY <1>5, <2>1 DEF HandlesOne
  <2>3. OpenedOnce'
    BY <1>1, <1>3, <2>1, <2>2, OpenedAfterPlain
  <2>4. InStep'
    BY <1>1, <1>3, <1>6, <2>1, <2>2, InStepAfter
  <2>5. PlayFollowsSetup'
    BY <1>1, <1>3, <2>1, <2>2, PlayAfter
  <2>6. LastOrderStands'
    BY <1>1, <1>2, <1>3, <1>4, <2>1, <2>2, OrderAfter
  <2> QED BY <2>3, <2>4, <2>5, <2>6 DEF Conversation
<1>13. CASE PauseRefused \/ PauseIgnored \/ PauseAccepted
  <2>1. /\ HandlesOne({"PAUSE"}) /\ Asks(1, "PAUSE") /\ TellsPlain
        /\ UNCHANGED <<mPlaybackSession, mPlaybackSessionEstablished>>
        /\ mState' = mState \/ (mState >= ABOUT_TO_PLAY /\ mState' >= ABOUT_TO_PLAY)
        /\ mPlaybackSessionEstablished /\ mState >= ABOUT_TO_PLAY => ~streaming'
    BY <1>13, HeardPause
  <2>2. /\ inbox # << >> /\ Consume
        /\ ~Asks(1, "OPTIONS") /\ ~Asks(1, "SETUP") /\ ~Asks(1, "PLAY")
        /\ mState' >= AWAITING_CLIENT_PLAY => mState >= AWAITING_CLIENT_PLAY
        /\ mState >= ABOUT_TO_PLAY => mState' >= ABOUT_TO_PLAY
    BY <1>1, <1>5, <2>1 DEF HandlesOne, ABOUT_TO_PLAY, AWAITING_CLIENT_PLAY
  <2>3. OpenedOnce'
    BY <1>1, <1>3, <2>1, <2>2, OpenedAfterPlain
  <2>4. InStep'
    BY <1>1, <1>3, <1>6, <2>1, <2>2, InStepAfter
  <2>5. PlayFollowsSetup'
    BY <1>1, <1>3, <2>1, <2>2, PlayAfter
  <2>6. LastOrderStands'
    BY <1>1, <1>2, <1>3, <1>4, <2>1, <2>2, OrderAfter
  <2> QED BY <2>3, <2>4, <2>5, <2>6 DEF Conversation
<1> QED BY <1>7, <1>8, <1>9, <1>10, <1>11, <1>12, <1>13, HeardCases

------------------------------------------------------------------------------
(* What holds besides the conversation *)

beginVars == <<mState, mPlaybackSessionEstablished, playback, keepAlives>>

LEMMA BystandersBegin ==
  BystanderHandlers => UNCHANGED beginVars \/ (UNCHANGED <<mState, mPlaybackSessionEstablished, playback>>
                                                /\ keepAlives # {})
<1> SUFFICES ASSUME BystanderHandlers
             PROVE  UNCHANGED keepAlives \/ keepAlives # {}
  BY BystandersStages DEF stageVars, beginVars
<1>1. CASE ~SendKeepAlive
  BY <1>1, BystandersArmed DEF armedVars
<1>2. CASE SendKeepAlive
  BY <1>2 DEF SendKeepAlive, KeepAlive
<1> QED BY <1>1, <1>2

LEMMA FinishStopBegins ==
  ASSUME MediaBegins, FinishStop, UNCHANGED <<mPlaybackSessionEstablished, keepAlives>>
  PROVE  MediaBegins'
<1>1. mState' \in {STOPPING, STOPPED}
  BY FinishStopState
<1>2. playback' \in {playback, "destroying"}
  BY DEF FinishStop
<1> QED BY <1>1, <1>2 DEF MediaBegins, STOPPING, STOPPED, ABOUT_TO_PLAY, AWAITING_CLIENT_PLAY

\* Media begin with a SETUP, and end with a stop, whatever the source does.
LEMMA SourceMediaBegins ==
  ASSUME SourceTyped, Stages, MediaBegins, SourceNext
  PROVE  MediaBegins'
<1> USE DEF INITIALIZED, AWAITING_CLIENT_CONNECTION, AWAITING_CLIENT_SETUP, AWAITING_CLIENT_PLAY,
    ABOUT_TO_PLAY, PLAYING, PLAYING_TO_PAUSED, PAUSED, PAUSED_TO_PLAYING,
    AWAITING_CLIENT_TEARDOWN, STOPPING, STOPPED, beginVars, timerVars, playbackVars, stopVars
<1>1. CASE UNCHANGED beginVars
  BY <1>1 DEF MediaBegins
<1>2. CASE BystanderHandlers
  BY <1>1, <1>2, BystandersBegin DEF MediaBegins
<1>3. CASE Start \/ ClientConnected
  <2>1. /\ mState \in {INITIALIZED, AWAITING_CLIENT_CONNECTION} /\ mState' \in {1, 2}
        /\ UNCHANGED <<mPlaybackSessionEstablished, playback, keepAlives>>
    BY <1>3 DEF Start, ClientConnected
  <2>2. playback = "none"
    BY <2>1 DEF Stages, SessionStages
  <2> QED BY <2>1, <2>2 DEF MediaBegins
<1>4. CASE Stop
  <2>1. CASE FinishStop /\ UNCHANGED finishStopRest
    BY <2>1, FinishStopBegins DEF finishStopRest
  <2>2. CASE mState >= AWAITING_CLIENT_PLAY /\ mState' = AWAITING_CLIENT_TEARDOWN
             /\ UNCHANGED <<playbackVars, keepAlives>>
    <3>1. mState < AWAITING_CLIENT_TEARDOWN /\ mState \in INITIALIZED .. STOPPED
      BY <1>4 DEF Stop, Stages, StopStages, SourceTyped, SourceTypeOK
    <3> QED BY <2>2, <3>1 DEF MediaBegins
  <2> QED BY <1>4, <2>1, <2>2 DEF Stop
<1>5. CASE TriggerCalls
  BY <1>5 DEF TriggerCalls, Pause, Resume, MediaBegins
<1>6. CASE SessionError \/ M3Response
  BY <1>1, <1>6 DEF SessionError, M3Response
<1>7. CASE SetupAccepted
  BY <1>7 DEF SetupAccepted, MediaBegins
<1>8. CASE PlayAccepted
  <2>1. /\ mState \in {3, 7, 8} /\ mState' \in {mState, ABOUT_TO_PLAY, PLAYING}
        /\ mPlaybackSessionEstablished => mState' # ABOUT_TO_PLAY
        /\ UNCHANGED <<mPlaybackSessionEstablished, playback, keepAlives>>
    BY <1>8 DEF PlayAccepted, PlayableStates
  <2> QED BY <2>1 DEF MediaBegins
<1>9. CASE PauseAccepted
  <2>1. /\ mState \in {5, 6} /\ mState' \in {mState, PAUSED}
        /\ UNCHANGED <<mPlaybackSessionEstablished, playback, keepAlives>>
    BY <1>9 DEF PauseAccepted, PausableStates
  <2> QED BY <2>1 DEF MediaBegins
<1>10. CASE TeardownRequest
  BY <1>10, FinishStopBegins DEF TeardownRequest, finishStopRest
<1>11. CASE ReapDeadClients
  BY <1>1, <1>11 DEF ReapDeadClients
<1>12. CASE TeardownTriggerTimedOut
  <2>1. CASE FinishStop /\ UNCHANGED finishStopRest
    BY <2>1, FinishStopBegins DEF finishStopRest
  <2>2. CASE UNCHANGED beginVars
    BY <1>1, <2>2
  <2> QED BY <1>12, <2>1, <2>2 DEF TeardownTriggerTimedOut
<1>13. CASE FinishStop2Delayed
  BY <1>13 DEF FinishStop2Delayed, FinishStop2, MediaBegins
<1>14. CASE SessionEstablished
  BY <1>14 DEF SessionEstablished, MediaBegins
<1>15. CASE SessionDestroyed
  <2>1. mState = STOPPING
    BY <1>15 DEF SessionDestroyed, Stages, StopStages, Destroying
  <2>2. mState' \in {STOPPING, STOPPED}
    BY <1>15, <2>1 DEF SessionDestroyed, DisconnectClient2, FinishStopAfterDisconnectingClient,
                       FinishStop2
  <2>3. playback' = "gone" /\ UNCHANGED <<mPlaybackSessionEstablished, keepAlives>>
    BY <1>15 DEF SessionDestroyed, finishStopRest
  <2> QED BY <2>2, <2>3 DEF MediaBegins
<1>16. CASE HDCPHandlers
  BY <1>1, <1>16 DEF HDCPHandlers, HDCPInitialized, HDCPShutdown, HDCPFailed
<1> QED BY <1>2, <1>3, <1>4, <1>5, <1>6, <1>7, <1>8, <1>9, <1>10, <1>11, <1>12, <1>13, <1>14,
           <1>15, <1>16, SourceCases DEF ActingHandlers

LEMMA DeliveredTo ==
  ASSUME SourceTyped, NEW sid, NEW msgs, Deliver(sid, msgs), NEW s \in Session, toSink'[s] # toSink[s]
  PROVE  s = sid /\ s \in open
BY DEF Deliver, SourceTyped, NetTypeOK

LEMMA SentTo ==
  ASSUME SourceTyped, NEW before, NEW sid, NEW tag, NEW handled,
         SendAfter(before, sid, tag, handled), NEW s \in Session, toSink'[s] # toSink[s]
  PROVE  s = sid /\ s \in open
BY DeliveredTo DEF SendAfter

\* The source only tells its client something, or the sink it has just heard of.
LEMMA SourceTells ==
  ASSUME SourceTyped, SourceNext, NEW s \in Session, toSink'[s] # toSink[s]
  PROVE  /\ s \in open
         /\ s = mClientSessionID \/ s = mClientSessionID' \/ (Handling("data") /\ Head(inbox).sid = s)
<1> USE DEF netVars
<1>1. ~(UNCHANGED toSink)
  OBVIOUS
<1>2. CASE RefusingHandlers
  <2>1. PICK code \in Nat : Refuse(code)
    BY <1>2, Refusals
  <2>2. Handling("data") /\ Deliver(Head(inbox).sid, <<Response(code)>>)
    BY <1>2, <2>1, Refusals DEF Refuse, Reply
  <2> QED BY <2>2, DeliveredTo
<1>3. CASE Stop \/ TriggerCalls \/ HDCPHandlers
  <2>1. PICK tag : Send(mClientSessionID, tag)
    BY <1>1, <1>3 DEF Stop, TriggerCalls, Pause, Resume, HDCPHandlers, HDCPInitialized,
                      HDCPShutdown, HDCPFailed
  <2> QED BY <2>1, SentTo DEF Send
<1>4. CASE ClientConnected
  BY <1>4, SentTo DEF ClientConnected, Send
<1>5. CASE SendKeepAlive
  <2>1. Send(mClientSessionID, "M16")
    BY <1>1, <1>5 DEF SendKeepAlive, KeepAlive
  <2> QED BY <2>1, SentTo DEF Send
<1>6. CASE M3Response \/ M4Response
  <2>1. PICK tag : SendAfter(<< >>, Head(inbox).sid, tag, Matching)
    BY <1>1, <1>6 DEF M3Response, M4Response
  <2>2. Handling("data")
    BY <1>6 DEF M3Response, M4Response, HandlingResponse
  <2>3. s = Head(inbox).sid /\ s \in open
    BY <2>1, SentTo
  <2> QED BY <2>2, <2>3
<1>7. CASE OptionsRequest
  BY <1>7, SentTo DEF OptionsRequest, HandlingRequest
<1>8. CASE SetupAccepted \/ PlayAccepted \/ PauseAccepted \/ TeardownRequest \/ ParameterAccepted
  <2>1. Handling("data") /\ Reply(200)
    BY <1>8 DEF SetupAccepted, PlayAccepted, PauseAccepted, TeardownRequest, ParameterAccepted,
                HandlingParameterRequest, HandlingRequest
  <2> QED BY <2>1, DeliveredTo DEF Reply
<1>9. ~RejectClient /\ ~SessionError
  BY <1>1 DEF RejectClient, SessionError
<1>10. ~ClientConnectedAbort /\ ~M4Abort /\ ~M16ResponseAbort /\ ~SetupAbort
  BY <1>1 DEF ClientConnectedAbort, M4Abort, M16ResponseAbort, SetupAbort, Abort
<1>11. ~UnsolicitedResponse /\ ~StatusResponse /\ ~M16Response /\ ~PauseIgnored
  BY <1>1 DEF UnsolicitedResponse, StatusResponse, M16Response, PauseIgnored
<1>12. ~Start /\ ~Release
  BY <1>1 DEF Start, Release
<1>13. ~ReapDeadClients /\ ~TeardownTriggerTimedOut /\ ~FinishStop2Delayed
  BY <1>1 DEF ReapDeadClients, TeardownTriggerTimedOut, FinishStop2Delayed
<1>14. ~SessionDead /\ ~SessionEstablished /\ ~SessionDestroyed /\ ~LifesignExpires
  BY <1>1 DEF SessionDead, SessionEstablished, SessionDestroyed, LifesignExpires
<1> QED BY <1>2, <1>3, <1>4, <1>5, <1>6, <1>7, <1>8, <1>9, <1>10, <1>11, <1>12, <1>13, <1>14,
           SourceCases DEF BystanderHandlers, ActingHandlers, RefusingHandlers

\* The client's requests are well formed.
GoodMessage == {msg \in ClientMessage : msg.kind = "request" => msg.good}

\* What a step of the client adds to the queue.
ClientSays ==
  \/ UNCHANGED inbox
  \/ \E e \in Notification : e.what # "data" /\ inbox' = Append(inbox, e)
  \/ ConnectionUp /\ \E msgs \in Seq(GoodMessage) : Written(msgs)

LEMMA GoodMessages ==
  ASSUME NEW method \in Methods, NEW cseq \in Nat
  PROVE  RtspRequest(method) \in GoodMessage /\ RtspResponse(cseq) \in GoodMessage
BY ClientMessages DEF GoodMessage, RtspRequest, RtspResponse

LEMMA DiesSays == NetTypeOK /\ Dies => ClientSays
BY DEF Dies, PostError, ConnectionUp, NetTypeOK, Notification, ClientSays

LEMMA SendsSays ==
  ASSUME NetTypeOK, NEW msgs \in Seq(GoodMessage), NEW state, ReaderSends(msgs, state)
  PROVE  ClientSays
BY DiesSays DEF ReaderSends, ClientSays

LEMMA ReaderSays ==
  ASSUME NetTypeOK, RtspTypeOK, ReaderStep
  PROVE  ClientSays
<1>1. Reading /\ Packet.kind = "request" => Packet.cseq \in Nat
  BY ReadingTyped
<1>2. CASE ReceiveOptions
  <2>1. <<RtspResponse(Packet.cseq), RtspRequest("OPTIONS")>> \in Seq(GoodMessage)
    BY <1>1, <1>2, GoodMessages DEF ReceiveOptions, PacketIs, Methods
  <2> QED BY <1>2, <2>1, SendsSays DEF ReceiveOptions
<1>3. CASE ReceiveGetParameter
  <2>1. <<RtspResponse(Packet.cseq)>> \in Seq(GoodMessage)
    BY <1>1, <1>3, GoodMessages DEF ReceiveGetParameter, PacketIs, Methods
  <2> QED BY <1>3, <2>1, SendsSays DEF ReceiveGetParameter
<1>4. CASE ReceiveSetParameter
  <2>1. /\ <<RtspResponse(Packet.cseq)>> \in Seq(GoodMessage)
        /\ <<RtspResponse(Packet.cseq), RtspRequest("SETUP")>> \in Seq(GoodMessage)
    BY <1>1, <1>4, GoodMessages DEF ReceiveSetParameter, PacketIs, Methods
  <2> QED BY <1>4, <2>1, SendsSays DEF ReceiveSetParameter, ClientSays
<1>5. CASE ReceiveResponse
  <2>1. <<RtspRequest("PLAY")>> \in Seq(GoodMessage) /\ <<RtspRequest("PAUSE")>> \in Seq(GoodMessage)
    BY GoodMessages DEF Methods
  <2> QED BY <1>5, <2>1, SendsSays, DiesSays DEF ReceiveResponse, AdvanceOnResponse, ClientSays
<1>6. CASE ReadEndOfStream
  BY <1>6 DEF ReadEndOfStream, netVars, ClientSays
<1> QED BY <1>2, <1>3, <1>4, <1>5, <1>6 DEF ReaderStep

LEMMA ClientStepSays ==
  ASSUME NetTypeOK, RtspTypeOK, ClientStep
  PROVE  ClientSays
<1>1. CASE ConnectRtspServer
  <2>1. [what |-> "connected", sid |-> nextSession, local |-> FALSE] \in Notification
    BY <1>1 DEF ConnectRtspServer, Accept, Notification
  <2> QED BY <1>1, <2>1 DEF ConnectRtspServer, Accept, ClientSays
<1>2. CASE ReaderStep
  BY <1>2, ReaderSays
<1>3. CASE Command
  <2>1. /\ <<RtspRequest("PLAY")>> \in Seq(GoodMessage)
        /\ <<RtspRequest("PAUSE")>> \in Seq(GoodMessage)
    BY GoodMessages DEF Methods
  <2>2. MainSends("PLAY") \/ MainSends("PAUSE")
    BY <1>3 DEF Command, requestPlay, requestPause
  <2> QED BY <2>1, <2>2 DEF MainSends, ClientSays
<1>4. CASE ProcessEnds
  BY <1>4, DiesSays DEF ProcessEnds
<1>5. CASE ProcessRestarts
  BY <1>5 DEF ProcessRestarts, netVars, ClientSays
<1> QED BY <1>1, <1>2, <1>3, <1>4, <1>5 DEF ClientStep

\* What the client has not been told it does not come to be told by a step of its own.
LEMMA ClientReads ==
  ASSUME NetTypeOK, RtspTypeOK, ClientStep, NEW s \in Session, toSink[s] = << >>
  PROVE  toSink'[s] = << >>
<1>1. CASE UNCHANGED toSink
  BY <1>1
<1>2. CASE Reading /\ Consumed
  BY <1>2 DEF Reading, Consumed, NetTypeOK
<1>3. ReaderStep => UNCHANGED toSink \/ (Reading /\ Consumed)
  BY DEF ReaderStep, ReceiveOptions, ReceiveGetParameter, ReceiveSetParameter, ReceiveResponse,
         ReadEndOfStream, netVars
<1>4. ConnectRtspServer \/ Command \/ ProcessEnds \/ ProcessRestarts => UNCHANGED toSink
  BY DEF ConnectRtspServer, Accept, Command, requestPlay, requestPause, MainSends, ProcessEnds,
         ProcessRestarts, netVars
<1> QED BY <1>1, <1>2, <1>3, <1>4 DEF ClientStep

GoodRequests ==
  \A i \in 1 .. Len(inbox) :
    inbox[i].what = "data" /\ inbox[i].msg.kind = "request" => inbox[i].msg.good

LEMMA ClientAsksWell ==
  ASSUME NetTypeOK, RtspTypeOK, ClientStep, GoodRequests
  PROVE  GoodRequests'
<1> DEFINE n == Len(inbox)
<1>1. n \in Nat /\ inbox \in Seq(Notification)
  BY LenProperties DEF NetTypeOK
<1>2. CASE UNCHANGED inbox
  BY <1>2 DEF GoodRequests
<1>3. ASSUME NEW e \in Notification, e.what # "data", inbox' = Append(inbox, e)
      PROVE  GoodRequests'
  <2>1. /\ Len(inbox') = n + 1 /\ inbox'[n + 1] = e
        /\ \A i \in 1 .. n : inbox'[i] = inbox[i]
    BY <1>1, <1>3, AppendProperties
  <2>2. \A i \in 1 .. Len(inbox') : i \in 1 .. n \/ i = n + 1
    BY <1>1, <2>1
  <2> QED BY <1>3, <2>1, <2>2 DEF GoodRequests
<1>4. ASSUME NEW msgs \in Seq(GoodMessage), ConnectionUp, Written(msgs)
      PROVE  GoodRequests'
  <2> DEFINE es == [i \in DOMAIN msgs |->
                     [what |-> "data", sid |-> RtspSocket, msg |-> msgs[i]]]
  <2>1. /\ Len(msgs) \in Nat /\ DOMAIN msgs = 1 .. Len(msgs)
        /\ \A i \in 1 .. Len(msgs) : msgs[i] \in GoodMessage
    BY LenProperties, ElementOfSeq
  <2>2. \A i \in 1 .. Len(msgs) :
          es[i] \in Notification /\ (es[i].msg.kind = "request" => es[i].msg.good)
    BY <1>4, <2>1 DEF NetTypeOK, ConnectionUp, Notification, ClientMessage, GoodMessage
  <2>3. es \in Seq(Notification) /\ Len(es) = Len(msgs)
    BY <2>1, <2>2
  <2>4. inbox' = inbox \o es
    BY <1>4 DEF Written
  <2> HIDE DEF es
  <2>5. /\ Len(inbox') = n + Len(msgs)
        /\ \A i \in 1 .. n : inbox'[i] = inbox[i]
        /\ \A i \in n + 1 .. n + Len(msgs) : inbox'[i] = es[i - n]
    <3>1. Len(es) \in Nat /\ Len(inbox') = Len(inbox) + Len(es)
      BY <1>1, <2>1, <2>3, <2>4, ConcatProperties
    <3>2. \A i \in 1 .. Len(inbox) + Len(es) :
            inbox'[i] = IF i <= Len(inbox) THEN inbox[i] ELSE es[i - Len(inbox)]
      BY <1>1, <2>3, <2>4, ConcatProperties
    <3> QED BY <1>1, <2>1, <2>3, <3>1, <3>2
  <2>6. \A i \in 1 .. Len(inbox') :
          i \in 1 .. n \/ (i \in n + 1 .. n + Len(msgs) /\ i - n \in 1 .. Len(msgs))
    BY <1>1, <2>1, <2>5
  <2> QED BY <2>2, <2>5, <2>6 DEF GoodRequests
<1> QED BY <1>2, <1>3, <1>4, ClientStepSays DEF ClientSays

LEMMA ClientBeginsAfterSource ==
  ASSUME TypeOK, Connections, ClientBegins, SourceNext, UNCHANGED <<rtspVars, linkVars>>
  PROVE  ClientBegins'
<1>1. SourceTyped /\ inbox \in Seq(Notification)
  BY DEF TypeOK, SourceTyped, NetTypeOK
<1>2. UNCHANGED nextSession /\ (UNCHANGED inbox \/ (inbox # << >> /\ Consume))
  BY <1>1, ClosedAfterStep, QueueAfterStep
<1>3. (reader = "none" => RtspState = 0 /\ RtspSocket = NoSession /\ monitor = "none")'
  BY DEF ClientBegins, rtspVars, linkVars
<1>4. ASSUME NEW s \in Session, s >= nextSession' PROVE toSink'[s] = << >>
  <2>1. s \notin open
    BY <1>1, <1>2, <1>4, IdsBelow, MaxSessionsAssumption
       DEF Connections, IdsInOrder, Session, SourceTyped, NetTypeOK
  <2> QED BY <1>1, <1>2, <1>4, <2>1, SourceTells DEF ClientBegins
<1>5. GoodRequests'
  <2>1. CASE UNCHANGED inbox
    BY <2>1 DEF GoodRequests, ClientBegins
  <2>2. CASE inbox # << >> /\ Consume
    <3>1. \A i \in 1 .. Len(inbox') : i + 1 \in 1 .. Len(inbox) /\ inbox'[i] = inbox[i + 1]
      BY <1>1, <2>2, ConsumeShifts
    <3> QED BY <3>1 DEF GoodRequests, ClientBegins
  <2> QED BY <1>2, <2>1, <2>2
<1> QED BY <1>3, <1>4, <1>5 DEF ClientBegins, GoodRequests

LEMMA ClientBeginsAfterClient ==
  ASSUME TypeOK, ClientBegins, ClientStep
  PROVE  ClientBegins'
<1>1. NetTypeOK /\ RtspTypeOK /\ nextSession \in Nat
  BY MaxSessionsAssumption DEF TypeOK, SourceTyped, NetTypeOK
<1>2. GoodRequests'
  BY <1>1, ClientAsksWell DEF GoodRequests, ClientBegins
<1>3. nextSession' \in {nextSession, nextSession + 1}
  BY <1>1, ClientStepKeeps DEF ClientKeeps, ClientDoes, ConnectRtspServer, Accept, Writes
<1>4. ASSUME NEW s \in Session, s >= nextSession' PROVE toSink'[s] = << >>
  <2>1. s >= nextSession
    BY <1>1, <1>3, <1>4, MaxSessionsAssumption DEF Session
  <2> QED BY <1>1, <2>1, ClientReads DEF ClientBegins
<1>5. reader' = "none" => RtspState' = 0 /\ RtspSocket' = NoSession /\ monitor' = "none"
  <2>1. CASE ConnectRtspServer
    BY <2>1 DEF ConnectRtspServer
  <2>2. CASE ReaderStep
    <3>1. reader = "running"
      BY <2>2 DEF ReaderStep, ReceiveOptions, ReceiveGetParameter, ReceiveSetParameter,
                  ReceiveResponse, ReadEndOfStream, Reading
    <3>2. ASSUME NEW msgs, NEW state, ReaderSends(msgs, state)
          PROVE  reader' # "none"
      BY <3>1, <3>2 DEF ReaderSends
    <3> QED BY <2>2, <3>1, <3>2
            DEF ReaderStep, ReceiveOptions, ReceiveGetParameter, ReceiveSetParameter,
                ReceiveResponse, AdvanceOnResponse, ReadEndOfStream, rtspVars
  <2>3. CASE Command
    BY <2>3 DEF Command, requestPlay, requestPause, MainSends
  <2>4. CASE ProcessEnds /\ UNCHANGED linkVars
    BY <2>4 DEF ProcessEnds, ClientBegins, linkVars
  <2>5. CASE ProcessRestarts /\ monitor' = "none"
    BY <2>5 DEF ProcessRestarts
  <2> QED BY <2>1, <2>2, <2>3, <2>4, <2>5 DEF ClientStep
<1> QED BY <1>2, <1>4, <1>5 DEF ClientBegins, GoodRequests

------------------------------------------------------------------------------
(* Before the source takes the connection, and when it does *)

\* The source has not handled anything of a connection that is not its client's yet.
LEMMA NothingHandled ==
  ASSUME SourceTyped, Connections, ConnectionUp, mClientSessionID # RtspSocket
  PROVE  ~(Handling("data") /\ Head(inbox).sid = RtspSocket)
<1> SUFFICES ASSUME Handling("data"), Head(inbox).sid = RtspSocket PROVE FALSE
  OBVIOUS
<1>1. Len(inbox) \in Nat /\ 1 \in 1 .. Len(inbox) /\ Head(inbox) = inbox[1]
  BY EmptySeq, LenProperties DEF SourceTyped, NetTypeOK, Handling
<1>2. PICK i \in 1 .. Len(inbox) : inbox[i].what = "connected" /\ inbox[i].sid = RtspSocket
  BY Announced DEF ConnectionUp, Connections, NoLeakedConnection
<1>3. i # 1
  BY <1>1, <1>2 DEF Handling
<1>4. 1 \in 1 .. (i - 1)
  BY <1>1, <1>2, <1>3
<1> QED BY <1>1, <1>2, <1>4 DEF Connections, AnnouncedFirst

\* Only the handler of its announcement takes a connection as the client's, and the
\* client's is not given up but closed.
LEMMA NewClient ==
  ASSUME SourceTyped, SourceNext, mClientSessionID' \notin {mClientSessionID, NoSession}
  PROVE  ClientConnected
<1>1. ~KeepsConnections /\ ~DropsClient
  BY DEF KeepsConnections, DropsClient
<1>2. ~RejectClient /\ ~SessionError
  BY DEF RejectClient, SessionError, sourceVars, clientVars
<1> QED BY <1>1, <1>2, SourceCases, BystandersKeep, ActorsKeepOrDrop

LEMMA ClientIsClosed ==
  ASSUME SourceTyped, Connections, Connections', SourceNext, mClientSessionID # NoSession,
         mClientSessionID' # mClientSessionID
  PROVE  mClientSessionID \notin open'
<1> SUFFICES ASSUME mClientSessionID \in open' PROVE FALSE
  OBVIOUS
<1>1. mClientSessionID \in AnnouncedConnections'
  BY DEF Connections, NoLeakedConnection
<1>2. PICK i \in 1 .. Len(inbox') : inbox'[i].what = "connected" /\ inbox'[i].sid = mClientSessionID
  BY <1>1, Announced
<1>3. \E j \in 1 .. Len(inbox) : inbox'[i] = inbox[j]
  <2>1. CASE UNCHANGED inbox
    BY <1>2, <2>1
  <2>2. CASE inbox # << >> /\ Consume
    BY <1>2, <2>2, ConsumeShifts DEF SourceTyped, NetTypeOK
  <2> QED BY <2>1, <2>2, QueueAfterStep
<1> QED BY <1>2, <1>3 DEF Connections, AnnouncedFirst

LEMMA UnheardAfterSource ==
  ASSUME TypeOK, Connections, Connections', Unheard, SourceNext, UNCHANGED <<rtspVars, linkVars>>
  PROVE  Unheard'
<1> SUFFICES ASSUME Healthy', mClientSessionID' # RtspSocket' PROVE Unheard'
  BY DEF Unheard
<1>1. /\ UNCHANGED <<RtspSocket, RtspState, monitor>> /\ SourceTyped
      /\ RtspSocket \in open' /\ RtspSocket \in open /\ Healthy
      /\ RtspSocket \in Session
  BY ClosedAfterStep DEF Healthy, ConnectionUp, rtspVars, linkVars, TypeOK, SourceTyped, NetTypeOK
<1>2. mClientSessionID # RtspSocket
  BY <1>1, ClientIsClosed, MaxSessionsAssumption DEF Session, NoSession
<1>3. /\ RtspState = 0 /\ monitor = "none" /\ toSink[RtspSocket] = << >>
      /\ ~Asked("OPTIONS") /\ ~Asked("SETUP")
  BY <1>1, <1>2 DEF Unheard, Unread
<1>4. toSink'[RtspSocket] = toSink[RtspSocket]
  BY <1>1, <1>2, SourceTells, NothingHandled DEF ConnectionUp
<1>5. ASSUME NEW method \in Methods, ~Asked(method) PROVE ~Asked(method)'
  <2>1. CASE UNCHANGED inbox
    BY <1>1, <1>5, <2>1 DEF Asked, Asks
  <2>2. CASE inbox # << >> /\ Consume
    BY <1>1, <1>5, <2>2, AskedAfter
  <2> QED BY <2>1, <2>2, QueueAfterStep
<1> QED BY <1>1, <1>3, <1>4, <1>5 DEF Unheard, Unread, Methods

LEMMA ReaderStaysHealthy ==
  ASSUME TypeOK, ReaderStep, Healthy'
  PROVE  Healthy /\ UNCHANGED RtspSocket /\ Reading
<1> USE DEF Healthy
<1>1. ~ReadEndOfStream
  BY DEF ReadEndOfStream
<1>2. Reading /\ UNCHANGED open
  BY <1>1 DEF ReaderStep, ReceiveOptions, ReceiveGetParameter, ReceiveSetParameter, ReceiveResponse
<1>3. RtspSocket' # NoSession
  BY <1>2, MaxSessionsAssumption DEF ConnectionUp, TypeOK, SourceTyped, NetTypeOK, Session, NoSession
<1>4. ASSUME NEW msgs, NEW state, ReaderSends(msgs, state) PROVE UNCHANGED RtspSocket
  BY <1>3, <1>4 DEF ReaderSends
<1>5. UNCHANGED RtspSocket
  BY <1>1, <1>4 DEF ReaderStep, ReceiveOptions, ReceiveGetParameter, ReceiveSetParameter,
                    ReceiveResponse, AdvanceOnResponse, rtspVars
<1> QED BY <1>2, <1>5 DEF Reading, ConnectionUp

\* What the source is told of a new connection asks for nothing.
LEMMA NothingAskedYet ==
  ASSUME TypeOK, Connections, ConnectRtspServer
  PROVE  \A i \in 1 .. Len(inbox') : \A method : ~Asks(i, method)'
<1>1. RtspSocket' = nextSession /\ nextSession \in Session
  BY DEF ConnectRtspServer, Accept
<1> DEFINE e == [what |-> "connected", sid |-> nextSession, local |-> FALSE]
<1>2. e \in Notification /\ inbox' = Append(inbox, e) /\ inbox \in Seq(Notification)
  BY <1>1 DEF ConnectRtspServer, Accept, Notification, TypeOK, SourceTyped, NetTypeOK
<1>3. /\ Len(inbox) \in Nat /\ Len(inbox') = Len(inbox) + 1
      /\ \A i \in 1 .. Len(inbox) : inbox'[i] = inbox[i]
      /\ \A i \in Len(inbox) + 1 .. Len(inbox) + 1 : inbox'[i].what = "connected"
  BY <1>2, AppendProperties, LenProperties
<1>4. \A i \in 1 .. Len(inbox) : inbox[i].sid # nextSession
  BY IdsBelow DEF TypeOK
<1>5. ASSUME NEW method, NEW i \in 1 .. Len(inbox') PROVE ~Asks(i, method)'
  <2>1. i \in 1 .. Len(inbox) \/ i \in Len(inbox) + 1 .. Len(inbox) + 1
    BY <1>3
  <2> QED BY <1>1, <1>3, <1>4, <2>1 DEF Asks
<1> QED BY <1>5

LEMMA UnheardAfterConnect ==
  ASSUME TypeOK, Connections, ClientBegins, ConnectRtspServer, UNCHANGED linkVars
  PROVE  Unheard'
<1>1. /\ RtspSocket' = nextSession /\ UNCHANGED <<RtspState, toSink>> /\ nextSession \in Session
      /\ RtspState = 0 /\ UNCHANGED monitor /\ monitor = "none"
      /\ nextSession \in Nat
      /\ toSink[nextSession] = << >>
  BY MaxSessionsAssumption DEF ConnectRtspServer, Accept, ClientBegins, linkVars, Session
<1> QED BY <1>1, NothingAskedYet DEF Unheard, Unread, Asked

LEMMA CommandRequests ==
  ASSUME TypeOK, ConnectionUp, Command
  PROVE  /\ UNCHANGED <<RtspSocket, RtspState, toSink, reader, open>>
         /\ \E method \in {"PLAY", "PAUSE"} : Requests(1, method)
<1>1. PICK method \in {"PLAY", "PAUSE"} : MainSends(method)
  BY DEF Command, requestPlay, requestPause
<1>2. Written(<<RtspRequest(method)>>) /\ UNCHANGED <<RtspSocket, RtspState, toSink, reader, open>>
  BY <1>1 DEF MainSends
<1>3. method \in Methods /\ 0 \in Nat
  BY DEF Methods
<1> QED BY <1>2, <1>3, AsksWritten

LEMMA UnheardAfterClient ==
  ASSUME TypeOK, Connections, ClientBegins, Unheard, ClientStep
  PROVE  Unheard'
<1>0. UNCHANGED mClientSessionID
  BY DEF ClientStep, sourceVars, clientVars
<1>1. CASE ConnectRtspServer /\ UNCHANGED linkVars
  BY <1>1, UnheardAfterConnect
<1>2. CASE ReaderStep
  <2> SUFFICES ASSUME Healthy', mClientSessionID' # RtspSocket' PROVE FALSE
    BY DEF Unheard
  <2>1. Healthy /\ UNCHANGED RtspSocket /\ Reading
    BY <1>2, ReaderStaysHealthy
  <2> QED BY <1>0, <2>1 DEF Unheard, Unread, Reading
<1>3. CASE Command
  <2> SUFFICES ASSUME Healthy', mClientSessionID' # RtspSocket' PROVE Unheard'
    BY DEF Unheard
  <2>1. UNCHANGED <<RtspSocket, reader, open>> /\ process = "running"
    BY <1>3 DEF Command, requestPlay, requestPause, MainSends
  <2>2. Healthy /\ ConnectionUp /\ mClientSessionID # RtspSocket
    BY <1>0, <2>1 DEF Healthy, ConnectionUp
  <2>3. /\ RtspState = 0 /\ monitor = "none" /\ Unread = << >>
        /\ ~Asked("OPTIONS") /\ ~Asked("SETUP")
    BY <2>2 DEF Unheard
  <2>4. PICK method \in {"PLAY", "PAUSE"} : Requests(1, method)
    BY <1>3, <2>2, CommandRequests
  <2>5. UNCHANGED <<RtspState, toSink>> /\ monitor' = "none"
    BY <1>3, <2>2, <2>3, CommandRequests DEF Command, LinkReady
  <2>6. ~Asked("OPTIONS")' /\ ~Asked("SETUP")'
    <3>1. \A m \in Methods : Asked(m)' <=> Asked(m) \/ m = method
      BY <2>4, AskedThen
    <3> QED BY <2>3, <2>4, <3>1 DEF Methods
  <2> QED BY <2>1, <2>3, <2>5, <2>6 DEF Unheard, Unread
<1>4. CASE ProcessEnds
  BY <1>4 DEF ProcessEnds, Dies, Unheard, Healthy
<1>5. CASE ProcessRestarts
  BY <1>5 DEF ProcessRestarts, Unheard, Healthy
<1> QED BY <1>1, <1>2, <1>3, <1>4, <1>5 DEF ClientStep

\* When the source takes the connection, nothing but commands has been written.
LEMMA ConversationBegins ==
  ASSUME TypeOK, Connections, Unheard, Healthy, mClientSessionID # RtspSocket,
         ClientConnected, mClientSessionID' = RtspSocket, UNCHANGED <<rtspVars, linkVars>>
  PROVE  Conversation'
<1>1. /\ RtspState = 0 /\ monitor = "none" /\ Unread = << >>
      /\ ~Asked("OPTIONS") /\ ~Asked("SETUP")
  BY DEF Unheard
<1>2. /\ ConnectionUp /\ UNCHANGED <<RtspSocket, RtspState, monitor>> /\ RtspSocket \in open
      /\ inbox # << >> /\ Consume /\ mNextCSeq \in Nat /\ mState' = AWAITING_CLIENT_SETUP
  BY DEF Healthy, ConnectionUp, ClientConnected, Handling, rtspVars, linkVars, TypeOK, SourceTyped,
         SourceTypeOK
<1> DEFINE msg == Request("M1", mNextCSeq)
<1>3. msg \in SourceMessage /\ msg.kind = "request" /\ msg.tag = "M1"
  <2>1. "M1" \in Tags /\ 0 \in Nat
    BY DEF Tags
  <2> QED BY <1>2, <2>1, MessagesTyped DEF Request
<1>4. Deliver(RtspSocket, Append(<< >>, msg)) /\ Append(<< >>, msg) = <<msg>>
  BY <1>2 DEF ClientConnected, Send, SendAfter
<1> HIDE DEF msg
<1>5. TellsOne(msg)
  BY <1>2, <1>3, <1>4, OneTold
<1>6. /\ Len(Unread) = 0 /\ Len(Unread') = 1
      /\ \A i \in 1 .. Len(Unread') : i = 1 /\ i \in Len(Unread) + 1 .. Len(Unread) + 1
      /\ \A i \in 1 .. Len(Unread') : Unread'[i] = msg
  BY <1>1, <1>5 DEF TellsOne
<1>7. ~Told({"M3"})' /\ ~Told({"M16"})'
  BY <1>3, <1>6 DEF Told, Tells
<1>8. ~Asked("OPTIONS")' /\ ~Asked("SETUP")'
  BY <1>1, <1>2, AskedAfter DEF Methods
<1>9. OpenedOnce'
  BY <1>1, <1>2, <1>6, <1>7, <1>8 DEF OpenedOnce, Told, Asked
<1>10. InStep'
  BY <1>1, <1>2, <1>7, <1>8 DEF InStep, AWAITING_CLIENT_SETUP, AWAITING_CLIENT_PLAY
<1>11. PlayFollowsSetup' /\ LastOrderStands'
  BY <1>1, <1>2 DEF PlayFollowsSetup, LastOrderStands
<1> QED BY <1>9, <1>10, <1>11 DEF Conversation

\* The conversation begins there and goes on, whatever the source does
LEMMA ConversationAfterSource ==
  ASSUME TypeOK, Stages, Connections, Connections', ConnectionsInTurn, MediaFollowsState, Obedience,
         SourceStep, UNCHANGED <<rtspVars, linkVars>>, Heard'
  PROVE  Conversation'
<1>1. SourceNext
  BY DEF SourceStep, SourceNext, ServiceCalls
<1>2. /\ UNCHANGED RtspSocket /\ RtspSocket \in open /\ RtspSocket \in Session /\ Healthy
      /\ SourceTyped /\ mClientSessionID' = RtspSocket
  BY <1>1, ClosedAfterStep
     DEF Heard, Healthy, ConnectionUp, rtspVars, linkVars, TypeOK, SourceTyped, NetTypeOK
<1>3. mState < AWAITING_CLIENT_TEARDOWN
  <2>1. mState' < AWAITING_CLIENT_TEARDOWN /\ mState \in 0 .. 11 /\ mState' \in 0 .. 11
    BY <1>1, <1>2, SourceStepTyped DEF Heard, SourceTyped, SourceTypeOK, INITIALIZED, STOPPED
  <2> QED BY <1>1, <1>2, <2>1, StopKept DEF AWAITING_CLIENT_TEARDOWN
<1>4. CASE mClientSessionID = RtspSocket
  <2>1. Heard
    BY <1>2, <1>3, <1>4 DEF Heard
  <2> QED BY <2>1, SourceKeepsConversation DEF SourceIsHeard, Obedience
<1>5. CASE mClientSessionID # RtspSocket
  <2>1. ClientConnected
    BY <1>1, <1>2, <1>5, NewClient, MaxSessionsAssumption DEF Session, NoSession
  <2> QED BY <1>2, <1>5, <2>1, ConversationBegins DEF Obedience
<1> QED BY <1>4, <1>5

\* or the client.
LEMMA ConversationAfterClient ==
  ASSUME TypeOK, Connections, Obedience, ClientStep, Heard'
  PROVE  Conversation'
<1>1. UNCHANGED sourceVars /\ UNCHANGED <<mClientSessionID, mState>>
  BY DEF ClientStep, sourceVars, clientVars
<1>2. Healthy' /\ mClientSessionID = RtspSocket' /\ mState < AWAITING_CLIENT_TEARDOWN
  BY <1>1 DEF Heard
<1>3. CASE ConnectRtspServer
  <2>1. RtspSocket' = nextSession
    BY <1>3 DEF ConnectRtspServer
  <2> QED BY <1>2, <2>1, IdsBelow DEF TypeOK
<1>4. CASE ReaderStep /\ UNCHANGED linkVars
  <2>1. Healthy /\ UNCHANGED RtspSocket
    BY <1>2, <1>4, ReaderStaysHealthy
  <2>2. Conversation
    BY <1>2, <2>1 DEF Heard, Obedience
  <2>3. ReaderGoesOn
    BY <1>1, <1>2, <1>4, <2>1, <2>2, ReaderHeard
       DEF ReaderGoesOn, SourceStays, sourceVars, clientVars, playbackVars, linkVars
  <2> QED BY <1>4, <2>3, ReaderOpensOnce, ReaderInStep, ReaderPlaysAfterSetup, ReaderKeepsOrder
          DEF Conversation
<1>5. CASE Command
  <2>1. UNCHANGED <<RtspSocket, reader, open>> /\ process = "running"
    BY <1>5 DEF Command, requestPlay, requestPause, MainSends
  <2>2. Healthy /\ ConnectionUp
    BY <1>2, <2>1 DEF Healthy, ConnectionUp
  <2>3. Conversation
    BY <1>2, <2>1, <2>2 DEF Heard, Obedience
  <2> QED BY <1>1, <1>5, <2>2, <2>3, CommandKeepsConversation
<1>6. CASE ProcessEnds
  BY <1>2, <1>6 DEF ProcessEnds, Dies, Healthy
<1>7. CASE ProcessRestarts
  BY <1>2, <1>7 DEF ProcessRestarts, Healthy
<1> QED BY <1>3, <1>4, <1>5, <1>6, <1>7 DEF ClientStep

LEMMA ObedienceAfterSource ==
  ASSUME TypeOK, Stages, Connections, ConnectionsInTurn, MediaFollowsState, Obedience,
         SourceStep, UNCHANGED <<rtspVars, linkVars>>
  PROVE  Obedience'
<1>1. SourceNext /\ SourceTyped
  BY DEF SourceStep, SourceNext, ServiceCalls, TypeOK
<1>2. Connections'
  BY <1>1, SourceConnectionsStep
<1>3. MediaBegins' /\ ClientBegins'
  BY <1>1, SourceMediaBegins, ClientBeginsAfterSource DEF Obedience
<1>4. Unheard'
  BY <1>1, <1>2, UnheardAfterSource DEF Obedience
<1>5. Heard' => Conversation'
  BY <1>2, ConversationAfterSource
<1> QED BY <1>3, <1>4, <1>5 DEF Obedience

LEMMA ObedienceAfterClient ==
  ASSUME TypeOK, Connections, Obedience, ClientStep
  PROVE  Obedience'
<1>1. MediaBegins'
  BY DEF ClientStep, sourceVars, playbackVars, timerVars, MediaBegins, Obedience
<1>2. ClientBegins'
  BY ClientBeginsAfterClient DEF Obedience
<1>3. Unheard'
  BY UnheardAfterClient DEF Obedience
<1>4. Heard' => Conversation'
  BY ConversationAfterClient
<1> QED BY <1>1, <1>2, <1>3, <1>4 DEF Obedience

LEMMA ObedienceUnchanged == Obedience /\ UNCHANGED allVars => Obedience'
<1> SUFFICES ASSUME Obedience, UNCHANGED allVars PROVE Obedience'
  OBVIOUS
<1>1. UNCHANGED <<nextSession, open, inbox, toSink, RtspSocket, RtspState, reader, process, monitor,
                  mState, mClientSessionID, mPlaybackSession, mPlaybackSessionEstablished, playback,
                  streaming, keepAlives>>
  BY DEF allVars, vars, netVars, sourceVars, clientVars, timerVars, playbackVars, rtspVars, linkVars
<1>2. MediaBegins' /\ ClientBegins'
  BY <1>1 DEF Obedience, MediaBegins, ClientBegins
<1>3. /\ \A i, m : Asks(i, m)' <=> Asks(i, m)
      /\ \A m : Asked(m)' <=> Asked(m)
      /\ \A i, tags : Tells(i, tags)' <=> Tells(i, tags)
      /\ \A tags : Told(tags)' <=> Told(tags)
      /\ UNCHANGED <<Unread, Order>>
      /\ Answered' <=> Answered
      /\ Heard' <=> Heard
      /\ Healthy' <=> Healthy
  BY <1>1 DEF Asks, Asked, Tells, Told, Unread, Order, Answered, Heard, Healthy, ConnectionUp
<1>4. Unheard'
  BY <1>1, <1>3 DEF Obedience, Unheard
<1>5. OpenedOnce => OpenedOnce'
  BY <1>1, <1>3 DEF OpenedOnce
<1>6. InStep => InStep'
  BY <1>1, <1>3 DEF InStep
<1>7. PlayFollowsSetup => PlayFollowsSetup'
  BY <1>1, <1>3 DEF PlayFollowsSetup
<1>8. LastOrderStands => LastOrderStands'
  BY <1>1, <1>3 DEF LastOrderStands, LinkReady
<1> QED BY <1>2, <1>3, <1>4, <1>5, <1>6, <1>7, <1>8 DEF Obedience, Conversation

\* The client and the source hold their conversation to what was said last, whatever
\* happens in between: how a client is heard and spoken to, from the moment it connects.
THEOREM LinkObedience == Spec => []Obedience
<1>1. Init => Obedience
  <2> SUFFICES ASSUME Init PROVE Obedience
    OBVIOUS
  <2>1. Len(inbox) = 0 /\ ~Healthy /\ ~Heard
    BY DEF Init, NetInit, RtspInit, Healthy, Heard
  <2>2. MediaBegins
    BY DEF Init, SourceInit, MediaBegins
  <2>3. ClientBegins
    BY <2>1 DEF Init, NetInit, RtspInit, ClientBegins
  <2> QED BY <2>1, <2>2, <2>3 DEF Obedience, Unheard
<1>2. /\ TypeOK /\ Stages /\ Connections /\ ConnectionsInTurn /\ MediaFollowsState /\ Obedience
      /\ [Next]_allVars
      => Obedience'
  <2>1. SourceStep => UNCHANGED <<rtspVars, linkVars>>
    BY DEF SourceStep
  <2> QED BY <2>1, ObedienceAfterSource, ObedienceAfterClient, ObedienceUnchanged DEF Next
<1> QED BY <1>1, <1>2, LinkStages, LinkConnections, LinkInTurn, LinkMedia, PTL DEF Spec

\* When nothing is under way any more, the media does what was commanded last, in spite of
\* commands that come in a row, and of the PLAY and PAUSE the client sends of its own.
THEOREM MonitorObeys == Spec => []MonitorFollowsCommand
<1>1. TypeOK /\ Obedience => MonitorFollowsCommand
  <2> SUFFICES ASSUME TypeOK, Obedience, Quiet, Healthy, monitor # "none",
                      mState < AWAITING_CLIENT_TEARDOWN
               PROVE  streaming = (monitor = "START")
    BY DEF MonitorFollowsCommand
  <2>1. mClientSessionID = RtspSocket
    BY DEF Obedience, Unheard
  <2>2. LastOrderStands
    BY <2>1 DEF Obedience, Heard, Conversation
  <2>3. Len(inbox) = 0
    BY DEF Quiet
  <2> QED BY <2>2, <2>3 DEF LastOrderStands
<1> QED BY <1>1, LinkTypeCorrect, LinkObedience, PTL

------------------------------------------------------------------------------
(* The handshake, when nothing else is asked for *)

\* The queue, once the client has written,
LEMMA SilentThen ==
  ASSUME TypeOK, NEW k \in 0 .. 2, NEW method, Requests(k, method), k = 0 => method \notin Methods
  PROVE  /\ Silent /\ method \notin Methods => Silent'
         /\ Silent /\ method \in Methods => AsksOnly(method)'
         /\ \A m \in Methods : AsksOnly(m) /\ method \notin Methods => AsksOnly(m)'
<1>1. /\ Len(inbox) \in Nat /\ Len(inbox') = Len(inbox) + k
      /\ \A i \in 1 .. Len(inbox') : i \in 1 .. Len(inbox) \/ i \in Len(inbox) + 1 .. Len(inbox) + k
      /\ \A i \in 1 .. Len(inbox) : i \in 1 .. Len(inbox')
  BY LenProperties DEF TypeOK, SourceTyped, NetTypeOK, Requests
<1>2. /\ \A i \in 1 .. Len(inbox), m \in Methods : Asks(i, m)' <=> Asks(i, m)
      /\ \A i \in Len(inbox) + 1 .. Len(inbox) + k, m \in Methods :
           Asks(i, m)' <=> i = Len(inbox) + k /\ m = method
  BY DEF Requests
<1>3. Silent /\ method \notin Methods => Silent'
  BY AskedThen DEF Silent
<1>4. ASSUME Silent, method \in Methods PROVE AsksOnly(method)'
  <2> DEFINE n == Len(inbox) + k
  <2>1. n \in 1 .. Len(inbox') /\ n \in Len(inbox) + 1 .. Len(inbox) + k
    BY <1>1, <1>4
  <2>2. \A i \in Len(inbox) + 1 .. Len(inbox) + k : i = n => Asks(i, method)'
    BY <1>2, <1>4
  <2>3. \A j \in 1 .. Len(inbox'), m \in Methods : Asks(j, m)' => j = n
    BY <1>1, <1>2, <1>4 DEF Silent, Asked
  <2> HIDE DEF n
  <2> QED BY <2>1, <2>2, <2>3 DEF AsksOnly
<1>5. ASSUME NEW m \in Methods, AsksOnly(m), method \notin Methods PROVE AsksOnly(m)'
  <2>1. PICK i \in 1 .. Len(inbox) :
          Asks(i, m) /\ \A j \in 1 .. Len(inbox), n \in Methods : Asks(j, n) => j = i
    BY <1>5 DEF AsksOnly
  <2>2. i \in 1 .. Len(inbox') /\ Asks(i, m)'
    BY <1>1, <1>2, <2>1
  <2>3. \A j \in 1 .. Len(inbox'), n \in Methods : Asks(j, n)' => j = i
    BY <1>1, <1>2, <1>5, <2>1
  <2> QED BY <2>2, <2>3 DEF AsksOnly
<1> QED BY <1>3, <1>4, <1>5

\* and once the source has handled its oldest notification.
LEMMA SilentAfter ==
  ASSUME TypeOK, inbox # << >>, Consume, UNCHANGED RtspSocket
  PROVE  /\ Silent => Silent' /\ \A m \in Methods : ~Asks(1, m)
         /\ \A m \in Methods : AsksOnly(m) /\ ~Asks(1, m) => AsksOnly(m)'
         /\ \A m \in Methods : AsksOnly(m) /\ Asks(1, m) => Silent'
         /\ \A m \in Methods, n \in Methods : AsksOnly(m) /\ Asks(1, n) => n = m
<1>1. /\ Len(inbox) \in Nat /\ 1 \in 1 .. Len(inbox) /\ Len(inbox') = Len(inbox) - 1
      /\ \A i \in 1 .. Len(inbox') : i + 1 \in 1 .. Len(inbox)
      /\ \A i \in 1 .. Len(inbox'), m \in Methods : Asks(i, m)' <=> Asks(i + 1, m)
  BY AsksConsumed
<1>2. ASSUME NEW m \in Methods, NEW i \in 1 .. Len(inbox), Asks(i, m),
             \A j \in 1 .. Len(inbox), n \in Methods : Asks(j, n) => j = i
      PROVE  /\ ~Asks(1, m) => AsksOnly(m)'
             /\ Asks(1, m) => Silent'
             /\ \A n \in Methods : Asks(1, n) => n = m
  <2>1. ASSUME ~Asks(1, m) PROVE AsksOnly(m)'
    <3>1. i # 1
      BY <1>2, <2>1
    <3>2. PICK h \in 1 .. Len(inbox') : h + 1 = i
      <4>1. i - 1 \in 1 .. Len(inbox') /\ (i - 1) + 1 = i
        BY <1>1, <3>1
      <4> QED BY <4>1
    <3>3. Asks(h, m)'
      BY <1>1, <1>2, <3>2
    <3>4. \A j \in 1 .. Len(inbox'), n \in Methods : Asks(j, n)' => j = h
      <4>1. \A j \in 1 .. Len(inbox'), n \in Methods : Asks(j, n)' => j + 1 = h + 1
        BY <1>1, <1>2, <3>2
      <4> QED BY <4>1
    <3> QED BY <3>3, <3>4 DEF AsksOnly
  <2>2. ASSUME Asks(1, m) PROVE Silent'
    <3>1. i = 1
      BY <1>1, <1>2, <2>2
    <3>2. ASSUME NEW j \in 1 .. Len(inbox'), NEW n \in Methods PROVE ~Asks(j, n)'
      <4>1. j + 1 \in 1 .. Len(inbox) /\ j + 1 # 1
        BY <1>1
      <4> QED BY <1>1, <1>2, <3>1, <4>1
    <3> QED BY <3>2 DEF Silent, Asked
  <2>3. ASSUME NEW n \in Methods, Asks(1, n) PROVE n = m
    <3>1. i = 1
      BY <1>1, <1>2, <2>3
    <3> QED BY <1>2, <2>3, <3>1 DEF Asks
  <2> QED BY <2>1, <2>2, <2>3
<1>3. Silent => Silent' /\ \A m \in Methods : ~Asks(1, m)
  BY <1>1, AskedAfter DEF Silent
<1> QED BY <1>2, <1>3 DEF AsksOnly

\* The stream, once the client has read its oldest message,
LEMMA AnsweredThen ==
  ASSUME ReadOne
  PROVE  /\ ~Answered => ~Answered'
         /\ AnsweredOnce /\ Unread[1].kind = "response" => ~Answered'
         /\ AnsweredOnce /\ Unread[1].kind # "response" => AnsweredOnce'
         /\ M3Follows => M3Follows'
<1>1. /\ Len(Unread) \in Nat /\ 1 \in 1 .. Len(Unread) /\ Len(Unread') = Len(Unread) - 1
      /\ \A i \in 1 .. Len(Unread') : i + 1 \in 1 .. Len(Unread) /\ Unread'[i] = Unread[i + 1]
      /\ \A i \in 1 .. Len(Unread') : i + 1 # 1
  BY DEF ReadOne
<1>2. ~Answered => ~Answered'
  BY <1>1 DEF Answered
<1>3. ASSUME NEW i \in 1 .. Len(Unread), Unread[i].kind = "response",
             \A j \in 1 .. Len(Unread) : Unread[j].kind = "response" => j = i
      PROVE  /\ Unread[1].kind = "response" => ~Answered'
             /\ Unread[1].kind # "response" => AnsweredOnce'
  <2>1. ASSUME Unread[1].kind = "response" PROVE ~Answered'
    BY <1>1, <1>3, <2>1 DEF Answered
  <2>2. ASSUME Unread[1].kind # "response" PROVE AnsweredOnce'
    <3>1. i # 1
      BY <1>3, <2>2
    <3>2. PICK h \in 1 .. Len(Unread') : h + 1 = i
      <4>1. i - 1 \in 1 .. Len(Unread') /\ (i - 1) + 1 = i
        BY <1>1, <3>1
      <4> QED BY <4>1
    <3>3. Unread'[h].kind = "response"
      BY <1>1, <1>3, <3>2
    <3>4. \A j \in 1 .. Len(Unread') : Unread'[j].kind = "response" => j = h
      <4>1. \A j \in 1 .. Len(Unread') : Unread'[j].kind = "response" => j + 1 = h + 1
        BY <1>1, <1>3, <3>2
      <4> QED BY <4>1
    <3> QED BY <3>3, <3>4 DEF AnsweredOnce
  <2> QED BY <2>1, <2>2
<1>4. ASSUME M3Follows PROVE M3Follows'
  <2> SUFFICES ASSUME NEW i \in 1 .. Len(Unread'), Unread'[i].kind = "response"
               PROVE  i + 1 \in 1 .. Len(Unread') /\ Tells(i + 1, {"M3"})'
    BY DEF M3Follows
  <2>1. i + 1 \in 1 .. Len(Unread) /\ Unread[i + 1].kind = "response"
    BY <1>1
  <2>2. (i + 1) + 1 \in 1 .. Len(Unread) /\ Tells((i + 1) + 1, {"M3"})
    BY <1>4, <2>1 DEF M3Follows
  <2>3. i + 1 \in 1 .. Len(Unread')
    BY <1>1, <2>2
  <2> QED BY <1>1, <2>2, <2>3 DEF Tells
<1> QED BY <1>2, <1>3, <1>4 DEF AnsweredOnce

\* and once the source has told it something that answers nothing, or an answer.
LEMMA AnsweredAfter ==
  /\ TellsNoAnswer => /\ ~Answered => ~Answered'
                      /\ AnsweredOnce => AnsweredOnce'
                      /\ M3Follows => M3Follows'
  /\ TellsAnswer => (~Answered => AnsweredOnce')
<1>1. CASE TellsNothing
  <2>1. ~TellsAnswer
    BY <1>1 DEF TellsNothing, TellsAnswer, TellsOne
  <2> QED BY <1>1, <2>1 DEF TellsNothing, Answered, AnsweredOnce, M3Follows, Tells
<1>2. ASSUME NEW msg \in SourceMessage, TellsOne(msg)
      PROVE  /\ msg.kind = "request" => /\ ~Answered => ~Answered'
                                        /\ AnsweredOnce => AnsweredOnce'
                                        /\ M3Follows => M3Follows'
             /\ msg.kind = "response" => (~Answered => AnsweredOnce')
  <2>1. /\ Len(Unread) \in Nat /\ Len(Unread') = Len(Unread) + 1
        /\ \A i \in 1 .. Len(Unread) : i \in 1 .. Len(Unread') /\ Unread'[i] = Unread[i]
        /\ \A i \in Len(Unread) + 1 .. Len(Unread) + 1 : Unread'[i] = msg
        /\ \A i \in 1 .. Len(Unread') :
             i \in 1 .. Len(Unread) \/ (i \in Len(Unread) + 1 .. Len(Unread) + 1 /\ i = Len(Unread) + 1)
    BY <1>2 DEF TellsOne
  <2>2. ASSUME msg.kind = "request", ~Answered PROVE ~Answered'
    BY <2>1, <2>2 DEF Answered
  <2>3. ASSUME msg.kind = "request", AnsweredOnce PROVE AnsweredOnce'
    <3>1. PICK i \in 1 .. Len(Unread) :
            /\ Unread[i].kind = "response"
            /\ \A j \in 1 .. Len(Unread) : Unread[j].kind = "response" => j = i
      BY <2>3 DEF AnsweredOnce
    <3>2. i \in 1 .. Len(Unread') /\ Unread'[i].kind = "response"
      BY <2>1, <3>1
    <3>3. \A j \in 1 .. Len(Unread') : Unread'[j].kind = "response" => j \in 1 .. Len(Unread)
      BY <2>1, <2>3
    <3>4. \A j \in 1 .. Len(Unread') : Unread'[j].kind = "response" => j = i
      BY <2>1, <3>1, <3>3
    <3> QED BY <3>2, <3>4 DEF AnsweredOnce
  <2>4. ASSUME msg.kind = "request", M3Follows PROVE M3Follows'
    BY <2>1, <2>4 DEF M3Follows, Tells
  <2>5. ASSUME msg.kind = "response", ~Answered PROVE AnsweredOnce'
    <3>1. Len(Unread) + 1 \in 1 .. Len(Unread') /\ Len(Unread) + 1 \in Len(Unread) + 1 .. Len(Unread) + 1
      BY <2>1
    <3>2. \A i \in 1 .. Len(Unread') : Unread'[i].kind = "response" => i = Len(Unread) + 1
      BY <2>1, <2>5 DEF Answered
    <3>3. \A i \in Len(Unread) + 1 .. Len(Unread) + 1 : Unread'[i].kind = "response"
      BY <2>1, <2>5
    <3> QED BY <3>1, <3>2, <3>3 DEF AnsweredOnce
  <2> QED BY <2>2, <2>3, <2>4, <2>5
<1> QED BY <1>1, <1>2 DEF TellsNoAnswer, TellsAnswer

LEMMA M3Told ==
  ASSUME AnswersOptions, ~Answered
  PROVE  M3Follows'
<1>1. PICK msg \in SourceMessage :
        /\ msg.kind = "request" /\ msg.tag = "M3"
        /\ Len(Unread) \in Nat /\ Len(Unread') = Len(Unread) + 2
        /\ \A i \in 1 .. Len(Unread) : Unread'[i] = Unread[i]
        /\ \A i \in Len(Unread) + 1 .. Len(Unread) + 1 : Unread'[i] = Response(200)
        /\ \A i \in Len(Unread) + 2 .. Len(Unread) + 2 : Unread'[i] = msg
  BY DEF AnswersOptions
<1> SUFFICES ASSUME NEW i \in 1 .. Len(Unread'), Unread'[i].kind = "response"
             PROVE  i + 1 \in 1 .. Len(Unread') /\ Tells(i + 1, {"M3"})'
  BY DEF M3Follows
<1>2. i \notin 1 .. Len(Unread)
  BY <1>1 DEF Answered
<1>3. i \notin Len(Unread) + 2 .. Len(Unread) + 2
  BY <1>1
<1>4. i + 1 \in 1 .. Len(Unread') /\ i + 1 \in Len(Unread) + 2 .. Len(Unread) + 2
  BY <1>1, <1>2, <1>3
<1> QED BY <1>1, <1>4 DEF Tells

\* What changes nothing of it,
LEMMA TurnKept ==
  ASSUME HandshakeInTurn, RtspState' = RtspState,
         Silent => Silent',
         \A m \in Methods : AsksOnly(m) => AsksOnly(m)',
         ~Asked("SETUP") => ~Asked("SETUP")',
         ~Answered => ~Answered',
         RtspState \in {6, 7} /\ AnsweredOnce => AnsweredOnce',
         RtspState = 2 /\ M3Follows => M3Follows',
         mPlaybackSession => mPlaybackSession',
         mState < AWAITING_CLIENT_PLAY => mState' < AWAITING_CLIENT_PLAY,
         mState = AWAITING_CLIENT_PLAY => mState' = AWAITING_CLIENT_PLAY,
         mState >= ABOUT_TO_PLAY => mState' >= ABOUT_TO_PLAY
  PROVE  HandshakeInTurn'
<1>1. {"OPTIONS", "SETUP", "PLAY"} \subseteq Methods
  BY DEF Methods
<1>2. RtspState \notin {2, 6, 7, 8} => Silent' /\ ~Answered'
  BY DEF HandshakeInTurn
<1>3. RtspState = 2 =>
        \/ AsksOnly("OPTIONS")' /\ ~Answered'
        \/ Silent' /\ M3Follows'
  BY <1>1 DEF HandshakeInTurn
<1>4. RtspState = 6 =>
        \/ AsksOnly("SETUP")' /\ ~Answered' /\ mState' < AWAITING_CLIENT_PLAY
        \/ Silent' /\ AnsweredOnce' /\ mPlaybackSession' /\ mState' = AWAITING_CLIENT_PLAY
  BY <1>1 DEF HandshakeInTurn
<1>5. RtspState = 7 =>
        /\ mPlaybackSession'
        /\ \/ AsksOnly("PLAY")' /\ ~Answered' /\ mState' = AWAITING_CLIENT_PLAY
           \/ Silent' /\ AnsweredOnce' /\ mState' >= ABOUT_TO_PLAY
  BY <1>1 DEF HandshakeInTurn
<1>6. RtspState = 8 => ~Asked("SETUP")' /\ mPlaybackSession' /\ mState' >= ABOUT_TO_PLAY
  BY DEF HandshakeInTurn
<1> QED BY <1>2, <1>3, <1>4, <1>5, <1>6 DEF HandshakeInTurn

LEMMA OnlyAsked ==
  ASSUME NEW method \in Methods, AsksOnly(method)
  PROVE  Asked(method)
BY DEF AsksOnly, Asked

\* how the reader goes from one state to the next,
LEMMA ReaderKeepsTurn ==
  ASSUME ReaderGoesOn, HandshakeInTurn
  PROVE  HandshakeInTurn'
<1> USE DEF ReaderGoesOn, SourceStays
<1>1. /\ TypeOK /\ ReadOne /\ 1 \in 1 .. Len(Unread) /\ RtspState \in 0 .. 8
      /\ {"OPTIONS", "SETUP", "PLAY", "PAUSE"} \subseteq Methods /\ "none" \notin Methods
      /\ 0 \in 0 .. 2 /\ 1 \in 0 .. 2 /\ 2 \in 0 .. 2
      /\ mState \in 0 .. 11
  BY DEF ReadOne, Methods, TypeOK, RtspTypeOK, SourceTyped, SourceTypeOK, INITIALIZED, STOPPED
<1>2. /\ ~Answered => ~Answered'
      /\ AnsweredOnce /\ Unread[1].kind = "response" => ~Answered'
      /\ AnsweredOnce /\ Unread[1].kind # "response" => AnsweredOnce'
      /\ M3Follows => M3Follows'
  BY <1>1, AnsweredThen
<1>3. /\ Tells(1, {"M1"}) => RtspState = 0
      /\ Tells(1, {"M3"}) => RtspState = 2 /\ ~Asked("OPTIONS")
      /\ Tells(1, {"M16"}) => RtspState = 8
      /\ Unread[1].kind = "response" => Answered
      /\ mState >= AWAITING_CLIENT_PLAY => RtspState >= 6
  BY <1>1 DEF Conversation, OpenedOnce, InStep, Told, Answered
<1>4. ASSUME NEW k \in 0 .. 2, Requests(k, "none")
      PROVE  /\ Silent => Silent'
             /\ \A m \in Methods : AsksOnly(m) => AsksOnly(m)'
             /\ ~Asked("SETUP") => ~Asked("SETUP")'
  BY <1>1, <1>4, SilentThen, AskedThen
<1>5. ASSUME NEW k \in 0 .. 2, NEW method \in Methods, Requests(k, method), k # 0, Silent
      PROVE  /\ AsksOnly(method)'
             /\ method # "SETUP" => ~Asked("SETUP")'
  BY <1>1, <1>5, SilentThen, AskedThen DEF Silent
<1>6. CASE Tells(1, {"M1"}) /\ RtspState' = 2 /\ Requests(2, "OPTIONS")
  <2>1. Silent /\ ~Answered
    BY <1>3, <1>6 DEF HandshakeInTurn
  <2>2. AsksOnly("OPTIONS")' /\ ~Answered'
    BY <1>1, <1>2, <1>5, <1>6, <2>1
  <2> QED BY <1>6, <2>2 DEF HandshakeInTurn
<1>7. CASE /\ Tells(1, {"M3", "M16"})
           /\ RtspState' = (IF RtspState = 8 THEN 8 ELSE 3)
           /\ Requests(1, "none")
  <2>1. Tells(1, {"M3"}) \/ Tells(1, {"M16"})
    BY <1>7 DEF Tells
  <2>2. CASE Tells(1, {"M3"})
    <3>1. RtspState = 2 /\ ~AsksOnly("OPTIONS") /\ RtspState' = 3
      BY <1>1, <1>3, <1>7, <2>2, OnlyAsked
    <3>2. Silent /\ M3Follows
      BY <3>1 DEF HandshakeInTurn
    <3>3. ~Answered'
      <4>1. ASSUME NEW i \in 1 .. Len(Unread'), Unread'[i].kind = "response" PROVE FALSE
        <5>1. i + 1 \in 1 .. Len(Unread) /\ Unread[i + 1].kind = "response" /\ i + 1 # 1
          BY <4>1 DEF ReadOne
        <5>2. (i + 1) + 1 \in 1 .. Len(Unread) /\ Tells((i + 1) + 1, {"M3"})
          BY <3>2, <5>1 DEF M3Follows
        <5>3. (i + 1) + 1 = 1
          BY <1>1, <2>2, <5>2 DEF Conversation, OpenedOnce
        <5> QED BY <5>3
      <4> QED BY <4>1 DEF Answered
    <3>4. Silent'
      BY <1>1, <1>4, <1>7, <3>2
    <3> QED BY <3>1, <3>3, <3>4 DEF HandshakeInTurn
  <2>3. CASE Tells(1, {"M16"})
    <3>1. RtspState = 8 /\ RtspState' = 8
      BY <1>3, <1>7, <2>3
    <3>2. ~Asked("SETUP") => ~Asked("SETUP")'
      BY <1>1, <1>4, <1>7
    <3> QED BY <3>1, <3>2 DEF HandshakeInTurn
  <2> QED BY <2>1, <2>2, <2>3
<1>8. CASE /\ Tells(1, {"M4", "SETUP", "PLAY", "PAUSE", "TEARDOWN"})
           /\ RtspState = 3 /\ RtspState' = 4 /\ Requests(1, "none")
  <2>1. Silent /\ ~Answered
    BY <1>8 DEF HandshakeInTurn
  <2>2. Silent' /\ ~Answered'
    BY <1>1, <1>2, <1>4, <1>8, <2>1
  <2> QED BY <1>8, <2>2 DEF HandshakeInTurn
<1>9. CASE /\ Tells(1, {"M4", "SETUP", "PLAY", "PAUSE", "TEARDOWN"})
           /\ RtspState = 4 /\ RtspState' = 6 /\ Requests(2, "SETUP")
  <2>1. Silent /\ ~Answered
    BY <1>9 DEF HandshakeInTurn
  <2>2. AsksOnly("SETUP")' /\ ~Answered'
    BY <1>1, <1>2, <1>5, <1>9, <2>1
  <2>3. mState' < AWAITING_CLIENT_PLAY
    BY <1>1, <1>3, <1>9 DEF AWAITING_CLIENT_PLAY
  <2> QED BY <1>9, <2>2, <2>3 DEF HandshakeInTurn
<1>10. CASE /\ RtspState' = RtspState /\ Requests(0, "none")
            /\ RtspState \in {6, 7} => Unread[1].kind # "response"
  BY <1>1, <1>2, <1>4, <1>10, TurnKept
<1>11. CASE /\ Unread[1].kind = "response"
            /\ RtspState = 6 /\ RtspState' = 7 /\ Requests(1, "PLAY")
  <2>1. Silent /\ AnsweredOnce /\ mPlaybackSession /\ mState = AWAITING_CLIENT_PLAY
    BY <1>3, <1>11 DEF HandshakeInTurn
  <2>2. AsksOnly("PLAY")' /\ ~Answered'
    BY <1>1, <1>2, <1>5, <1>11, <2>1
  <2> QED BY <1>11, <2>1, <2>2 DEF HandshakeInTurn
<1>12. CASE /\ Unread[1].kind = "response"
            /\ RtspState = 7 /\ RtspState' = 8 /\ Requests(1, "PAUSE")
  <2>1. Silent /\ mPlaybackSession /\ mState >= ABOUT_TO_PLAY
    BY <1>3, <1>12 DEF HandshakeInTurn
  <2>2. ~Asked("SETUP")'
    BY <1>1, <1>5, <1>12, <2>1
  <2> QED BY <1>12, <2>1, <2>2 DEF HandshakeInTurn
<1>13. Tells(1, {"M4", "SETUP", "PLAY", "PAUSE", "TEARDOWN"}) => Unread[1].kind # "response"
  BY DEF Tells
<1> QED BY <1>6, <1>7, <1>8, <1>9, <1>10, <1>11, <1>12, <1>13 DEF ReaderHears

\* a command, which does not fall into the handshake,
LEMMA CommandKeepsTurn ==
  ASSUME TypeOK, Healthy, HandshakeInTurn, Command, ~early', UNCHANGED sourceVars
  PROVE  HandshakeInTurn'
<1>1. RtspState = 8 /\ UNCHANGED RtspState
  BY CommandRequests DEF Command, LinkReady, Healthy
<1>2. PICK method \in {"PLAY", "PAUSE"} : Requests(1, method)
  BY CommandRequests DEF Healthy
<1>3. ~Asked("SETUP") => ~Asked("SETUP")'
  <2>1. \A m \in Methods : Asked(m)' <=> Asked(m) \/ m = method
    BY <1>2, AskedThen
  <2>2. "SETUP" \in Methods /\ method # "SETUP"
    BY <1>2 DEF Methods
  <2> QED BY <2>1, <2>2
<1>4. UNCHANGED <<mState, mPlaybackSession>>
  BY DEF sourceVars, clientVars
<1> QED BY <1>1, <1>3, <1>4 DEF HandshakeInTurn

\* what leaves the queue and the stream alone,
LEMMA StillInTurn ==
  ASSUME UNCHANGED <<inbox, Unread, RtspSocket, RtspState, mPlaybackSession>>, HandshakeInTurn,
         mState < AWAITING_CLIENT_PLAY => mState' < AWAITING_CLIENT_PLAY,
         mState = AWAITING_CLIENT_PLAY => mState' = AWAITING_CLIENT_PLAY,
         mState >= ABOUT_TO_PLAY => mState' >= ABOUT_TO_PLAY
  PROVE  HandshakeInTurn'
<1>1. /\ \A i \in 1 .. Len(inbox), m \in Methods : Asks(i, m)' <=> Asks(i, m)
      /\ \A m \in Methods : Asked(m)' <=> Asked(m)
      /\ Answered' <=> Answered
      /\ AnsweredOnce' <=> AnsweredOnce
      /\ M3Follows' <=> M3Follows
  BY DEF Asks, Asked, Answered, AnsweredOnce, M3Follows, Tells
<1>2. Silent' <=> Silent
  BY <1>1 DEF Silent
<1>3. \A m \in Methods : AsksOnly(m) => AsksOnly(m)'
  BY <1>1 DEF AsksOnly
<1>4. "SETUP" \in Methods
  BY DEF Methods
<1> QED BY <1>1, <1>2, <1>3, <1>4, TurnKept

\* what the source does beside the queue,
LEMMA BesideKeepsTurn ==
  ASSUME TypeOK, Beside, UNCHANGED rtspVars, HandshakeInTurn
  PROVE  HandshakeInTurn'
<1> USE DEF AWAITING_CLIENT_CONNECTION, AWAITING_CLIENT_PLAY, INITIALIZED, ABOUT_TO_PLAY, PLAYING
<1>1. /\ UNCHANGED <<inbox, Unread, RtspSocket, RtspState, mPlaybackSession>>
      /\ mState \in 0 .. 11
  BY DEF Beside, Unread, rtspVars, TypeOK, SourceTyped, SourceTypeOK, STOPPED
<1>2. /\ mState < AWAITING_CLIENT_PLAY => mState' < AWAITING_CLIENT_PLAY
      /\ mState = AWAITING_CLIENT_PLAY => mState' = AWAITING_CLIENT_PLAY
      /\ mState >= ABOUT_TO_PLAY => mState' >= ABOUT_TO_PLAY
  BY <1>1 DEF Beside
<1> HIDE DEF AWAITING_CLIENT_CONNECTION, AWAITING_CLIENT_PLAY, INITIALIZED, ABOUT_TO_PLAY, PLAYING
<1> QED BY <1>1, <1>2, StillInTurn

\* what it does with a notification it does not answer,
LEMMA QuietKeepsTurn ==
  ASSUME TypeOK, UNCHANGED <<RtspSocket, RtspState>>, inbox # << >>, Consume,
         HandlesOne({}), TellsNoAnswer, UNCHANGED HeardStates, HandshakeInTurn
  PROVE  HandshakeInTurn'
<1>1. /\ Silent => Silent'
      /\ \A m \in Methods : AsksOnly(m) => AsksOnly(m)'
      /\ ~Asked("SETUP") => ~Asked("SETUP")'
  BY SilentAfter, AskedAfter DEF HandlesOne, Methods
<1>2. /\ ~Answered => ~Answered'
      /\ AnsweredOnce => AnsweredOnce'
      /\ M3Follows => M3Follows'
  BY AnsweredAfter
<1> QED BY <1>1, <1>2, TurnKept DEF HeardStates

LEMMA HeadIsGood ==
  ASSUME TypeOK, ClientBegins, inbox # << >>, NEW method, Asks(1, method)
  PROVE  Head(inbox).msg.good
<1>1. Head(inbox) = inbox[1] /\ 1 \in 1 .. Len(inbox)
  BY EmptySeq, LenProperties DEF TypeOK, SourceTyped, NetTypeOK
<1> QED BY <1>1 DEF Asks, ClientBegins

\* and what it answers.
LEMMA SourceKeepsTurn ==
  ASSUME SourceIsHeard, MediaFollowsState, Conversation, Conversation', HandshakeInTurn,
         FreshClient, SourceStep, ~(Faults /\ SetupFailed)
  PROVE  HandshakeInTurn'
<1>1. /\ TypeOK /\ Stages /\ Heard /\ Heard' /\ UNCHANGED rtspVars
      /\ UNCHANGED <<RtspSocket, RtspState>>
      /\ mState \in 0 .. 11
  BY DEF SourceIsHeard, rtspVars, TypeOK, SourceTyped, SourceTypeOK, INITIALIZED, STOPPED
<1>2. {"OPTIONS", "SETUP", "PLAY", "PAUSE", "TEARDOWN", "GET_PARAMETER", "SET_PARAMETER", "OTHER"}
        \subseteq Methods
  BY DEF Methods
<1>3. ASSUME inbox # << >>, Consume
      PROVE  /\ Silent => \A m \in Methods : ~Asks(1, m)
             /\ \A m \in Methods : AsksOnly(m) /\ Asks(1, m) => Silent'
             /\ \A m \in Methods, n \in Methods : AsksOnly(m) /\ Asks(1, n) => n = m
             /\ Asked("SETUP")' => Asked("SETUP")
             /\ Asks(1, "SETUP") => Asked("SETUP")
             /\ Asks(1, "OPTIONS") => Asked("OPTIONS")
  BY <1>1, <1>2, <1>3, SilentAfter, AskedAfter
<1>4. ASSUME inbox # << >>, Consume, NEW n \in Methods, Asks(1, n)
      PROVE  /\ RtspState \in {2, 6, 7, 8}
             /\ RtspState = 2 => n = "OPTIONS" /\ AsksOnly(n) /\ ~Answered
             /\ RtspState = 6 =>
                  n = "SETUP" /\ AsksOnly(n) /\ ~Answered /\ mState < AWAITING_CLIENT_PLAY
             /\ RtspState = 7 =>
                  n = "PLAY" /\ AsksOnly(n) /\ ~Answered /\ mState = AWAITING_CLIENT_PLAY
                  /\ mPlaybackSession
  BY <1>2, <1>3, <1>4 DEF HandshakeInTurn
<1>5. RtspState = 8 => ~Asked("SETUP") /\ mPlaybackSession /\ mState >= ABOUT_TO_PLAY
  BY DEF HandshakeInTurn
<1>6. TellsAnswer /\ ~Answered => AnsweredOnce'
  BY AnsweredAfter
<1>7. CASE Start \/ Stop \/ Release \/ Timers \/ PlaybackHandlers \/ LifesignExpires
  BY <1>1, <1>7, HeardBeside, BesideKeepsTurn
<1>8. CASE Quiet /\ KeepAlive
  <2>1. UNCHANGED <<inbox, HeardStates>>
    BY <1>8, HeardKeepAlive
  <2>2. CASE TellsNothing
    <3> QED BY <1>1, <2>1, <2>2, StillInTurn DEF TellsNothing, HeardStates
  <2>3. CASE ~TellsNothing
    <3>1. PICK msg \in SourceMessage : TellsOne(msg) /\ msg.kind = "request" /\ msg.tag = "M16"
      BY <1>8, <2>3, HeardKeepAlive
    <3>2. /\ Len(Unread) + 1 \in 1 .. Len(Unread')
          /\ Len(Unread) + 1 \in Len(Unread) + 1 .. Len(Unread) + 1
          /\ \A i \in Len(Unread) + 1 .. Len(Unread) + 1 : Unread'[i] = msg
      BY <3>1 DEF TellsOne
    <3>3. Told({"M16"})'
      BY <3>1, <3>2 DEF Told, Tells
    <3>4. RtspState = 8
      BY <1>1, <3>3 DEF Conversation, InStep
    <3>5. Asked("SETUP")' <=> Asked("SETUP")
      BY <1>1, <2>1 DEF Asked, Asks
    <3> QED BY <1>1, <1>5, <2>1, <3>4, <3>5 DEF HandshakeInTurn, HeardStates
  <2> QED BY <2>2, <2>3
<1>9. CASE OptionsRequest
  <2>1. /\ inbox # << >> /\ Consume /\ Asks(1, "OPTIONS") /\ AnswersOptions
    BY <1>9, HeardOptions DEF HandlesOne
  <2>2. RtspState = 2
    BY <1>3, <2>1 DEF Conversation, OpenedOnce
  <2>3. Silent' /\ ~Answered
    BY <1>2, <1>3, <1>4, <2>1, <2>2
  <2>4. M3Follows'
    BY <2>1, <2>3, M3Told
  <2> QED BY <1>1, <2>2, <2>3, <2>4 DEF HandshakeInTurn
<1>10. CASE UnsolicitedResponse \/ StatusResponse \/ M3Response \/ M4Response \/ M16Response
  <2>1. HandlesOne({}) /\ TellsNoAnswer /\ UNCHANGED HeardStates
    BY <1>10, HeardAnswers
  <2> QED BY <1>1, <2>1, QuietKeepsTurn DEF HandlesOne
<1>11. CASE TeardownRefused \/ TeardownUnasked \/ ParameterRefused \/ ParameterAccepted \/ OtherRequest
  <2>1. PICK method \in {"TEARDOWN", "GET_PARAMETER", "SET_PARAMETER", "OTHER"} :
          Asks(1, method) /\ inbox # << >> /\ Consume /\ UNCHANGED HeardStates
    BY <1>11, HeardOthers DEF HandlesOne
  <2>2. RtspState = 8
    BY <1>2, <1>4, <2>1
  <2> QED BY <1>1, <1>3, <1>5, <2>1, <2>2 DEF HandshakeInTurn, HeardStates
<1>12. CASE SetupRefused \/ SetupAccepted
  <2>1. HandlesOne({"SETUP"}) /\ Asks(1, "SETUP") /\ TellsAnswer /\ inbox # << >> /\ Consume
    BY <1>12, HeardSetup DEF HandlesOne
  <2>2. RtspState = 6
    BY <1>2, <1>3, <1>4, <1>5, <2>1
  <2>3. /\ Silent' /\ AnsweredOnce' /\ mState < AWAITING_CLIENT_PLAY
    BY <1>2, <1>3, <1>4, <1>6, <2>1, <2>2
  <2>4. ~SetupRefused
    <3>1. Head(inbox).msg.good
      BY <1>1, <1>2, <2>1, HeadIsGood DEF SourceIsHeard
    <3> QED BY <2>3, <3>1 DEF SetupRefused, FreshClient
  <2>5. mPlaybackSession' /\ mState' = AWAITING_CLIENT_PLAY
    BY <1>12, <2>4 DEF SetupAccepted
  <2> QED BY <1>1, <2>2, <2>3, <2>5 DEF HandshakeInTurn
<1>13. CASE PlayRefused \/ PlayAccepted
  <2>1. /\ Asks(1, "PLAY") /\ TellsAnswer /\ inbox # << >> /\ Consume
        /\ UNCHANGED mPlaybackSession
        /\ mPlaybackSession => mState' >= ABOUT_TO_PLAY
    BY <1>13, HeardPlay DEF HandlesOne
  <2>2. RtspState = 7 \/ RtspState = 8
    BY <1>2, <1>4, <2>1
  <2>3. mPlaybackSession' /\ mState' >= ABOUT_TO_PLAY
    BY <1>2, <1>4, <1>5, <2>1, <2>2
  <2>4. RtspState = 7 => Silent' /\ AnsweredOnce'
    BY <1>2, <1>3, <1>4, <1>6, <2>1
  <2>5. RtspState = 8 => ~Asked("SETUP")'
    BY <1>3, <1>5, <2>1
  <2> QED BY <1>1, <2>2, <2>3, <2>4, <2>5 DEF HandshakeInTurn
<1>14. CASE PauseRefused \/ PauseIgnored \/ PauseAccepted
  <2>1. /\ Asks(1, "PAUSE") /\ inbox # << >> /\ Consume
        /\ UNCHANGED mPlaybackSession
        /\ mState' = mState \/ (mState >= ABOUT_TO_PLAY /\ mState' >= ABOUT_TO_PLAY)
    BY <1>14, HeardPause DEF HandlesOne
  <2>2. RtspState = 8
    BY <1>2, <1>4, <2>1
  <2> QED BY <1>1, <1>3, <1>5, <2>1, <2>2 DEF HandshakeInTurn
<1> QED BY <1>7, <1>8, <1>9, <1>10, <1>11, <1>12, <1>13, <1>14, HeardCases

\* A client that has set nothing up has no playback session,
LEMMA FreshAfterSource ==
  ASSUME SourceTyped, SourceNext, FreshClient
  PROVE  FreshClient'
<1> USE DEF FreshClient, stageVars, clientVars, requestVars, hdcpVars, timerVars, playbackVars,
    stopVars, netVars, sourceVars, INITIALIZED, AWAITING_CLIENT_CONNECTION, AWAITING_CLIENT_PLAY,
    AWAITING_CLIENT_SETUP, ABOUT_TO_PLAY, AWAITING_CLIENT_TEARDOWN, STOPPING, STOPPED, PLAYING,
    PLAYING_TO_PAUSED, PAUSED, PAUSED_TO_PLAYING, SourceTyped, SourceTypeOK
<1>1. CASE UNCHANGED <<mState, mPlaybackSessionID>>
  BY <1>1
<1>2. CASE Stop
  <2>1. mState' = AWAITING_CLIENT_TEARDOWN \/ FinishStop
    BY <1>2 DEF Stop
  <2> QED BY <2>1, FinishStopState
<1>3. CASE TeardownRequest
  BY <1>3, FinishStopState DEF TeardownRequest
<1>4. CASE TeardownTriggerTimedOut
  <2>1. mState = AWAITING_CLIENT_TEARDOWN => FinishStop
    BY <1>4 DEF TeardownTriggerTimedOut
  <2>2. mState # AWAITING_CLIENT_TEARDOWN => UNCHANGED <<mState, mPlaybackSessionID>>
    BY <1>4 DEF TeardownTriggerTimedOut
  <2> QED BY <1>1, <2>1, <2>2, FinishStopState
<1>5. CASE FinishStop2Delayed
  BY <1>5 DEF FinishStop2Delayed, FinishStop2
<1>6. CASE SessionDestroyed
  BY <1>6 DEF SessionDestroyed, finishStopRest, DisconnectClient2,
              FinishStopAfterDisconnectingClient, FinishStop2
<1>7. CASE Start
  BY <1>7 DEF Start
<1>8. CASE ClientConnected \/ SetupAccepted
  BY <1>8 DEF ClientConnected, SetupAccepted
<1>9. CASE TriggerCalls
  BY <1>9 DEF TriggerCalls, Pause, Resume
<1>10. CASE PlayAccepted
  BY <1>10 DEF PlayAccepted, PlayableStates
<1>11. CASE PauseAccepted
  BY <1>11 DEF PauseAccepted, PausableStates
<1>12. CASE SessionEstablished
  BY <1>12 DEF SessionEstablished
<1>13. CASE SessionError \/ M3Response \/ ReapDeadClients \/ HDCPHandlers
  <2>1. SessionError \/ M3Response => UNCHANGED <<mState, mPlaybackSessionID>>
    BY DEF SessionError, M3Response
  <2>2. ReapDeadClients => UNCHANGED <<mState, mPlaybackSessionID>>
    BY DEF ReapDeadClients
  <2>3. HDCPHandlers => UNCHANGED <<mState, mPlaybackSessionID>>
    BY DEF HDCPHandlers, HDCPInitialized, HDCPShutdown, HDCPFailed
  <2> QED BY <1>1, <1>13, <2>1, <2>2, <2>3
<1>14. CASE BystanderHandlers
  BY <1>1, <1>14, BystandersStages
<1>15. CASE ActingHandlers
  BY <1>2, <1>3, <1>4, <1>5, <1>6, <1>7, <1>8, <1>9, <1>10, <1>11, <1>12, <1>13, <1>15
     DEF ActingHandlers
<1> QED BY <1>14, <1>15, SourceCases

\* one the source has not heard has asked for nothing,
LEMMA SilentAfterSource ==
  ASSUME TypeOK, Silent, SourceNext, UNCHANGED RtspSocket
  PROVE  Silent'
<1>1. SourceTyped
  BY DEF TypeOK
<1>2. CASE UNCHANGED inbox
  BY <1>2 DEF Silent, Asked, Asks
<1>3. CASE inbox # << >> /\ Consume
  BY <1>3, SilentAfter
<1> QED BY <1>1, <1>2, <1>3, QueueAfterStep

LEMMA UnheardIsSilentAfterSource ==
  ASSUME TypeOK, Connections, Connections', UnheardIsSilent, SourceNext,
         UNCHANGED <<rtspVars, linkVars>>
  PROVE  UnheardIsSilent'
<1> SUFFICES ASSUME ~early', Healthy', mClientSessionID' # RtspSocket' PROVE Silent'
  BY DEF UnheardIsSilent
<1>1. /\ UNCHANGED RtspSocket /\ SourceTyped /\ RtspSocket \in open' /\ Healthy
      /\ RtspSocket \in Session /\ ~early
  BY ClosedAfterStep DEF Healthy, ConnectionUp, rtspVars, linkVars, TypeOK, SourceTyped, NetTypeOK
<1>2. mClientSessionID # RtspSocket
  BY <1>1, ClientIsClosed, MaxSessionsAssumption DEF Session, NoSession
<1>3. Silent
  BY <1>1, <1>2 DEF UnheardIsSilent
<1> QED BY <1>1, <1>3, SilentAfterSource

LEMMA UnheardIsSilentAfterClient ==
  ASSUME TypeOK, Connections, ClientBegins, UnheardIsSilent, Unheard, ClientStep
  PROVE  UnheardIsSilent'
<1> SUFFICES ASSUME ~early', Healthy', mClientSessionID' # RtspSocket' PROVE Silent'
  BY DEF UnheardIsSilent
<1>1. UNCHANGED mClientSessionID
  BY DEF ClientStep, sourceVars, clientVars
<1>2. CASE ConnectRtspServer
  BY <1>2, NothingAskedYet DEF Silent, Asked
<1>3. CASE ReaderStep
  <2>1. Healthy /\ UNCHANGED RtspSocket /\ Reading
    BY <1>3, ReaderStaysHealthy
  <2> QED BY <1>1, <2>1 DEF Unheard, Unread, Reading
<1>4. CASE Command
  <2>1. /\ UNCHANGED <<RtspSocket, reader, open>> /\ process = "running"
        /\ LinkReady
    BY <1>4 DEF Command, requestPlay, requestPause, MainSends
  <2>2. Healthy /\ mClientSessionID # RtspSocket
    BY <1>1, <2>1 DEF Healthy, ConnectionUp
  <2> QED BY <2>1, <2>2 DEF Unheard, LinkReady
<1>5. CASE ProcessEnds
  BY <1>5 DEF ProcessEnds, Dies, Healthy
<1>6. CASE ProcessRestarts
  BY <1>6 DEF ProcessRestarts, Healthy
<1> QED BY <1>2, <1>3, <1>4, <1>5, <1>6 DEF ClientStep

\* and so its handshake begins in turn, and goes on in turn whatever the source does
LEMMA TurnBegins ==
  ASSUME TypeOK, Connections, Unheard, UnheardIsSilent, ~early, Healthy,
         mClientSessionID # RtspSocket, ClientConnected, mClientSessionID' = RtspSocket,
         SourceNext, UNCHANGED <<rtspVars, linkVars>>
  PROVE  HandshakeInTurn'
<1>1. RtspState = 0 /\ Unread = << >> /\ Silent
  BY DEF Unheard, UnheardIsSilent
<1>2. RtspState' = 0 /\ UNCHANGED RtspSocket
  BY <1>1 DEF rtspVars
<1>3. Silent'
  BY <1>1, <1>2, SilentAfterSource
<1>4. ~Answered'
  <2>1. ConnectionUp /\ mNextCSeq \in Nat /\ RtspSocket \in open
    BY DEF Healthy, ConnectionUp, TypeOK, SourceTyped, SourceTypeOK
  <2> DEFINE msg == Request("M1", mNextCSeq)
  <2>2. msg \in SourceMessage /\ msg.kind = "request"
    <3>1. "M1" \in Tags /\ 0 \in Nat
      BY DEF Tags
    <3> QED BY <2>1, <3>1, MessagesTyped DEF Request
  <2>3. Deliver(RtspSocket, Append(<< >>, msg)) /\ Append(<< >>, msg) = <<msg>>
    BY <1>2, <2>1 DEF ClientConnected, Send, SendAfter
  <2> HIDE DEF msg
  <2>4. TellsOne(msg)
    BY <1>2, <2>1, <2>2, <2>3, OneTold
  <2>5. /\ Len(Unread) = 0 /\ Len(Unread') = 1
        /\ \A i \in 1 .. Len(Unread') : i \in Len(Unread) + 1 .. Len(Unread) + 1
        /\ \A i \in 1 .. Len(Unread') : Unread'[i] = msg
    BY <1>1, <2>4 DEF TellsOne
  <2> QED BY <2>2, <2>5 DEF Answered
<1> QED BY <1>2, <1>3, <1>4 DEF HandshakeInTurn

LEMMA TurnAfterSource ==
  ASSUME TypeOK, Stages, Connections, Connections', ConnectionsInTurn, MediaFollowsState,
         Obedience, Obedience', Undisturbed, SourceStep, ~(Faults /\ SetupFailed),
         ~early', Heard'
  PROVE  HandshakeInTurn'
<1>1. SourceNext /\ UNCHANGED <<rtspVars, linkVars>>
  BY DEF SourceStep, SourceNext, ServiceCalls
<1>2. /\ UNCHANGED RtspSocket /\ RtspSocket \in open /\ RtspSocket \in Session /\ Healthy
      /\ SourceTyped /\ mClientSessionID' = RtspSocket /\ ~early
  BY <1>1, ClosedAfterStep
     DEF Heard, Healthy, ConnectionUp, rtspVars, linkVars, TypeOK, SourceTyped, NetTypeOK
<1>3. mState < AWAITING_CLIENT_TEARDOWN
  <2>1. mState' < AWAITING_CLIENT_TEARDOWN /\ mState \in 0 .. 11 /\ mState' \in 0 .. 11
    BY <1>1, <1>2, SourceStepTyped DEF Heard, SourceTyped, SourceTypeOK, INITIALIZED, STOPPED
  <2> QED BY <1>1, <1>2, <2>1, StopKept DEF AWAITING_CLIENT_TEARDOWN
<1>4. CASE mClientSessionID = RtspSocket
  <2>1. Heard
    BY <1>2, <1>3, <1>4 DEF Heard
  <2>2. Conversation /\ Conversation' /\ MediaBegins /\ ClientBegins
    BY <2>1 DEF Obedience
  <2>3. HandshakeInTurn /\ FreshClient
    BY <1>2, <2>1 DEF Undisturbed
  <2>4. SourceIsHeard
    BY <1>1, <2>1, <2>2 DEF SourceIsHeard
  <2> QED BY <2>2, <2>3, <2>4, SourceKeepsTurn
<1>5. CASE mClientSessionID # RtspSocket
  <2>1. ClientConnected
    BY <1>1, <1>2, <1>5, NewClient, MaxSessionsAssumption DEF Session, NoSession
  <2> QED BY <1>1, <1>2, <1>5, <2>1, TurnBegins DEF Obedience, Undisturbed
<1> QED BY <1>4, <1>5

\* or the client.
LEMMA TurnAfterClient ==
  ASSUME TypeOK, Connections, Obedience, Undisturbed, ClientStep, ~early', Heard'
  PROVE  HandshakeInTurn'
<1>1. UNCHANGED sourceVars /\ UNCHANGED <<mClientSessionID, mState>>
  BY DEF ClientStep, sourceVars, clientVars
<1>2. Healthy' /\ mClientSessionID = RtspSocket' /\ mState < AWAITING_CLIENT_TEARDOWN
  BY <1>1 DEF Heard
<1>3. CASE ConnectRtspServer
  <2>1. RtspSocket' = nextSession
    BY <1>3 DEF ConnectRtspServer
  <2> QED BY <1>2, <2>1, IdsBelow DEF TypeOK
<1>4. CASE ReaderStep /\ UNCHANGED linkVars
  <2>1. Healthy /\ UNCHANGED RtspSocket /\ ~early
    BY <1>2, <1>4, ReaderStaysHealthy DEF linkVars
  <2>2. Conversation /\ HandshakeInTurn
    BY <1>2, <2>1 DEF Heard, Obedience, Undisturbed
  <2>3. ReaderGoesOn
    BY <1>1, <1>2, <1>4, <2>1, <2>2, ReaderHeard
       DEF ReaderGoesOn, SourceStays, sourceVars, clientVars, playbackVars, linkVars
  <2> QED BY <2>2, <2>3, ReaderKeepsTurn
<1>5. CASE Command
  <2>1. UNCHANGED <<RtspSocket, reader, open>> /\ process = "running" /\ ~early
    BY <1>5 DEF Command, requestPlay, requestPause, MainSends
  <2>2. Healthy /\ ConnectionUp
    BY <1>2, <2>1 DEF Healthy, ConnectionUp
  <2>3. HandshakeInTurn
    BY <1>2, <2>1, <2>2 DEF Heard, Undisturbed
  <2> QED BY <1>1, <1>5, <2>2, <2>3, CommandKeepsTurn
<1>6. CASE ProcessEnds
  BY <1>2, <1>6 DEF ProcessEnds, Dies, Healthy
<1>7. CASE ProcessRestarts
  BY <1>2, <1>7 DEF ProcessRestarts, Healthy
<1> QED BY <1>3, <1>4, <1>5, <1>6, <1>7 DEF ClientStep

LEMMA UndisturbedStep ==
  ASSUME TypeOK, Stages, Connections, Connections', ConnectionsInTurn, MediaFollowsState,
         Obedience, Obedience', Undisturbed, Next, ~(Faults /\ SetupFailed)
  PROVE  Undisturbed'
<1>1. FreshClient /\ UnheardIsSilent /\ SourceTyped
  BY DEF Undisturbed, TypeOK
<1>2. CASE SourceStep
  <2>1. SourceNext /\ UNCHANGED <<rtspVars, linkVars>>
    BY <1>2 DEF SourceStep, SourceNext, ServiceCalls
  <2>2. FreshClient' /\ UnheardIsSilent'
    BY <1>1, <2>1, FreshAfterSource, UnheardIsSilentAfterSource
  <2>3. ~early' /\ Heard' => HandshakeInTurn'
    BY <1>2, TurnAfterSource
  <2> QED BY <2>2, <2>3 DEF Undisturbed
<1>3. CASE ClientStep
  <2>1. FreshClient'
    BY <1>1, <1>3 DEF ClientStep, sourceVars, clientVars, FreshClient
  <2>2. UnheardIsSilent'
    BY <1>1, <1>3, UnheardIsSilentAfterClient DEF Obedience
  <2>3. ~early' /\ Heard' => HandshakeInTurn'
    BY <1>3, TurnAfterClient
  <2> QED BY <2>1, <2>2, <2>3 DEF Undisturbed
<1> QED BY <1>2, <1>3 DEF Next

LEMMA UndisturbedUnchanged == Undisturbed /\ UNCHANGED allVars => Undisturbed'
<1> SUFFICES ASSUME Undisturbed, UNCHANGED allVars PROVE Undisturbed'
  OBVIOUS
<1>1. UNCHANGED <<nextSession, open, inbox, toSink, RtspSocket, RtspState, reader, process, early,
                  mState, mClientSessionID, mPlaybackSession, mPlaybackSessionID>>
  BY DEF allVars, vars, netVars, sourceVars, clientVars, rtspVars, linkVars
<1>2. /\ UNCHANGED Unread
      /\ Heard' <=> Heard
      /\ Healthy' <=> Healthy
      /\ Silent' <=> Silent
  BY <1>1 DEF Unread, Heard, Healthy, ConnectionUp, Silent, Asked, Asks
<1>3. HandshakeInTurn => HandshakeInTurn'
  BY <1>1, <1>2, StillInTurn
<1> QED BY <1>1, <1>2, <1>3 DEF Undisturbed, FreshClient, UnheardIsSilent

\* As long as no command falls into the handshake and no SETUP fails for want of resources,
\* the client asks for one thing at a time, and the source answers before it asks for the next.
THEOREM LinkUndisturbed == Spec /\ [][~(Faults /\ SetupFailed)]_allVars => []Undisturbed
<1>1. Init => Undisturbed
  BY DEF Init, SourceInit, RtspInit, Undisturbed, FreshClient, UnheardIsSilent, Healthy, Heard
<1>2. /\ TypeOK /\ Stages /\ Connections /\ Connections' /\ ConnectionsInTurn /\ MediaFollowsState
      /\ Obedience /\ Obedience' /\ Undisturbed
      /\ [Next]_allVars /\ [~(Faults /\ SetupFailed)]_allVars
      => Undisturbed'
  BY UndisturbedStep, UndisturbedUnchanged
<1> QED
  BY <1>1, <1>2, LinkStages, LinkConnections, LinkInTurn, LinkMedia, LinkObedience, PTL DEF Spec

\* The client, which counts responses and looks into none, is then right about the source: when
\* it has counted one, its SETUP has been accepted, when it has counted two, its PLAY as well.
THEOREM StagesAlwaysAgree == Spec /\ [][~(Faults /\ SetupFailed)]_allVars => []StagesAgree
<1>1. TypeOK /\ Undisturbed => StagesAgree
  <2> SUFFICES ASSUME TypeOK, Undisturbed, ~early, Heard PROVE StagesAgree
    BY DEF StagesAgree, Heard
  <2>1. HandshakeInTurn /\ RtspState \in 0 .. 8 /\ mState \in 0 .. 11
    BY DEF Undisturbed, TypeOK, RtspTypeOK, SourceTyped, SourceTypeOK, INITIALIZED, STOPPED
  <2>2. RtspState >= 7 => RtspState = 7 \/ RtspState = 8
    BY <2>1
  <2> QED BY <2>1, <2>2 DEF HandshakeInTurn, StagesAgree, AWAITING_CLIENT_PLAY, ABOUT_TO_PLAY
<1> QED BY <1>1, LinkStages, LinkUndisturbed, PTL

\* In particular where no fault is injected at all, as in the run that checks it.
COROLLARY StagesAgreeWithoutFaults ==
  ASSUME Faults = FALSE
  PROVE  Spec => []StagesAgree
<1>1. [Next]_allVars => [~(Faults /\ SetupFailed)]_allVars
  OBVIOUS
<1>2. Spec => [][~(Faults /\ SetupFailed)]_allVars
  BY <1>1, PTL DEF Spec
<1> QED BY <1>2, StagesAlwaysAgree, PTL
==============================================================================
