------------------------- MODULE MirrorSourceProofs -------------------------
(***************************************************************************)
(* What is proved of MirrorSource for every number of sessions, every      *)
(* bound, every set of requests and every way of answering: its steps are  *)
(* those of the source, of which WifiDisplaySourceProofs speaks, and those *)
(* of the sink.                                                            *)
(***************************************************************************)
EXTENDS MirrorSource, WifiDisplaySourceProofs

LEMMA NextCases ==
  ASSUME [Next]_allVars
  PROVE  SourceNext \/ SinkNext \/ UNCHANGED allVars
BY DEF Next

------------------------------------------------------------------------------
(* Type correctness *)

LEMMA SinkTyped == TypeOK /\ SinkNext => TypeOK'
<1> SUFFICES ASSUME TypeOK, SinkNext PROVE TypeOK'
  OBVIOUS
<1> USE DEF TypeOK, SourceTyped, NetTypeOK, SourceTypeOK, sourceVars, clientVars, requestVars, hdcpVars,
            timerVars, playbackVars, stopVars
<1>1. CASE SinkConnects
  <2>1. PICK local \in BOOLEAN : Accept(local)
    BY <1>1 DEF SinkConnects
  <2>2. [what |-> "connected", sid |-> nextSession, local |-> local] \in Notification
    BY <2>1 DEF Notification, Accept
  <2>3. inbox' \in Seq(Notification)
    BY <2>1, <2>2, AppendProperties DEF Accept
  <2>4. nextSession' \in 1 .. (MaxSessions + 1)
    BY <2>1, MaxSessionsAssumption DEF Accept, Session
  <2> QED BY <1>1, <2>1, <2>3, <2>4, SMT DEF SinkConnects, Accept
<1>2. ASSUME NEW sid \in Session, SinkReads(sid) PROVE TypeOK'
  <2>1. toSink' \in [Session -> Seq(SourceMessage)]
    <3>1. Tail(toSink[sid]) \in Seq(SourceMessage)
      BY <1>2, HeadTailProperties DEF SinkReads
    <3> QED BY <1>2, <3>1 DEF SinkReads
  <2>2. inbox' \in Seq(Notification)
    <3>1. Head(toSink[sid]) \in SourceMessage
      BY <1>2, HeadTailProperties DEF SinkReads
    <3>2. CASE UNCHANGED inbox
      BY <3>2
    <3>3. CASE inbox' # inbox
      <4>1. Head(toSink[sid]).kind = "request"
        BY <1>2, <3>3 DEF SinkReads
      <4>2. Head(toSink[sid]).cseq \in Nat
        BY <3>1, <4>1 DEF SourceMessage
      <4>3. PICK body \in Answers \ {"ignore"} :
              PostData(sid, [kind |-> "response", cseq |-> Head(toSink[sid]).cseq,
                             body |-> body])
        BY <1>2, <3>3 DEF SinkReads
      <4>4. [kind |-> "response", cseq |-> Head(toSink[sid]).cseq, body |-> body]
              \in SinkResponse
        BY <4>2, SinkAssumption DEF SinkResponse
      <4> QED BY <4>3, <4>4, PostDataTyped
    <3> QED BY <3>2, <3>3
  <2> QED BY <1>2, <2>1, <2>2, SMT DEF SinkReads
<1>3. ASSUME NEW sid \in Session, SinkSends(sid) PROVE TypeOK'
  <2>1. inbox' \in Seq(Notification)
    BY <1>3, SinkAssumption, PostDataTyped DEF SinkSends
  <2> QED BY <1>3, <2>1, SMT DEF SinkSends
<1>4. ASSUME NEW sid \in Session, SinkDrops(sid) PROVE TypeOK'
  <2>1. inbox' \in Seq(Notification)
    BY <1>4, PostErrorTyped DEF SinkDrops
  <2> QED BY <1>4, <2>1, SMT DEF SinkDrops
<1> QED BY <1>1, <1>2, <1>3, <1>4 DEF SinkNext

\* Every state of every behaviour is well typed: no handler stores a session, a
\* message or a state the rest of the code does not expect.
THEOREM TypeCorrect == Spec => []TypeOK
<1>1. Init => TypeOK
  BY InitTyped DEF Init, TypeOK
<1>2. TypeOK /\ [Next]_allVars => TypeOK'
  <2>1. TypeOK /\ SourceNext /\ UNCHANGED up => TypeOK'
    BY SourceStepTyped DEF TypeOK
  <2>2. TypeOK /\ UNCHANGED allVars => TypeOK'
    BY SourceTypedUnchanged DEF TypeOK, allVars
  <2> QED BY <2>1, <2>2, SinkTyped DEF Next
<1> QED BY <1>1, <1>2, PTL DEF Spec

------------------------------------------------------------------------------
(* The stages of a session *)

LEMMA SinkStages == SinkNext => UNCHANGED stageVars
BY DEF SinkNext, SinkConnects, SinkReads, SinkSends, SinkDrops, stageVars, sourceVars,
       clientVars, hdcpVars, timerVars, playbackVars, stopVars

LEMMA StutterStages == UNCHANGED allVars => UNCHANGED stageVars
BY DEF allVars, vars, stageVars, sourceVars, clientVars, hdcpVars, timerVars, playbackVars,
       stopVars

LEMMA StagesStep == TypeOK /\ Stages /\ [Next]_allVars => Stages'
BY SourceStagesStep, SinkStages, StutterStages, StagesUnchanged, NextCases DEF TypeOK

\* Where a session, a stop and the report to the display service are is always consistent:
\* stop() waits for one thing at a time, the playback session exists from SETUP until
\* it was destroyed, and the display was told what the stage says.
THEOREM StagesInvariant == Spec => [](TypeOK /\ Stages)
<1>1. Spec => []Stages
  <2>1. Spec => []TypeOK
    BY TypeCorrect
  <2>2. Init => Stages
    BY StagesInit DEF Init
  <2> QED BY <2>1, <2>2, StagesStep, PTL DEF Spec
<1> QED BY <1>1, TypeCorrect, PTL

\* No order in which the network, the playback session, the timers and the display
\* service post their messages makes the CHECKs of stop(), of the TEARDOWN request
\* and its timeout, or of onPlayRequest fail, or finishPlay run without a session.
THEOREM ChecksNeverFail == Spec => []ChecksHold
<1>1. TypeOK /\ Stages => ChecksHold
  BY DEF Stages, ChecksHold, StopCheck, PlayCheck, SessionCheck, StopStages, SessionStages
<1> QED BY <1>1, StagesInvariant, PTL

\* The reply to stop() is posted once, when nothing of the session is left.
THEOREM StopIsAnsweredOnce == Spec => []StopAnsweredOnce
<1>1. TypeOK /\ Stages => StopAnsweredOnce
  BY DEF Stages, StopAnsweredOnce, StopStages, DisplayStages, STOPPED, STOPPING,
         TypeOK, SourceTyped, SourceTypeOK
<1> QED BY <1>1, StagesInvariant, PTL

LEMMA StopKeptStep ==
  ASSUME TypeOK, Stages, [Next]_allVars
  PROVE  mState >= AWAITING_CLIENT_TEARDOWN => mState' >= mState
<1>1. CASE SourceNext
  BY <1>1, StopKept DEF TypeOK
<1>2. CASE SinkNext \/ UNCHANGED allVars
  BY <1>2, SinkStages, StutterStages DEF stageVars, TypeOK, SourceTyped, SourceTypeOK
<1> QED BY <1>1, <1>2, NextCases

\* Nothing a sink or a late notification does brings a stopping source back.
THEOREM StopIsNeverUndone == Spec => StopNeverUndone
<1>1. TypeOK /\ Stages /\ [Next]_allVars =>
        [mState >= AWAITING_CLIENT_TEARDOWN => mState' >= mState]_allVars
  BY StopKeptStep
<1> QED BY <1>1, StagesInvariant, PTL DEF Spec, StopNeverUndone

------------------------------------------------------------------------------
(* Connections, the watchdog and the media *)

LEMMA ConnectionsStep == TypeOK /\ Connections /\ [Next]_allVars => Connections'
<1> SUFFICES ASSUME TypeOK, Connections, [Next]_allVars PROVE Connections'
  OBVIOUS
<1> USE DEF TypeOK, sourceVars, clientVars
<1>1. CASE SourceNext
  BY <1>1, SourceConnectionsStep
<1>2. CASE SinkConnects
  BY <1>2, ConnectionsAccepted DEF SinkConnects
<1>3. ASSUME NEW sid \in Session, SinkReads(sid) PROVE Connections'
  <2>1. UNCHANGED <<nextSession, open, mClientSessionID>>
    BY <1>3 DEF SinkReads
  <2>2. CASE UNCHANGED inbox
    BY <2>1, <2>2, ConnectionsBeside
  <2>3. CASE inbox' # inbox
    <3>1. /\ sid \in open
          /\ Head(toSink[sid]).kind = "request"
          /\ toSink[sid] # << >>
      BY <1>3, <2>3 DEF SinkReads
    <3>2. PICK body \in Answers \ {"ignore"} :
            PostData(sid, [kind |-> "response", cseq |-> Head(toSink[sid]).cseq, body |-> body])
      BY <1>3, <2>3 DEF SinkReads
    <3> DEFINE e == [what |-> "data", sid |-> sid,
                     msg |-> [kind |-> "response", cseq |-> Head(toSink[sid]).cseq,
                              body |-> body]]
    <3>3. Head(toSink[sid]) \in SourceMessage
      BY <3>1, HeadTailProperties DEF SourceTyped, NetTypeOK
    <3>4. e \in Notification
      BY <3>1, <3>3, SinkAssumption DEF Notification, SinkResponse, SourceMessage
    <3>5. e.what # "connected" /\ e.sid = sid /\ inbox' = Append(inbox, e)
      BY <3>2 DEF PostData
    <3> QED BY <2>1, <3>1, <3>4, <3>5, ConnectionsPosted
  <2> QED BY <2>2, <2>3
<1>4. ASSUME NEW sid \in Session, SinkSends(sid) PROVE Connections'
  <2>1. PICK request \in Requests : PostData(sid, request)
    BY <1>4 DEF SinkSends
  <2> DEFINE e == [what |-> "data", sid |-> sid, msg |-> request]
  <2>2. e \in Notification
    BY SinkAssumption DEF Notification
  <2>3. e.what # "connected" /\ e.sid = sid /\ inbox' = Append(inbox, e)
    BY <2>1 DEF PostData
  <2>4. /\ sid \in open
        /\ UNCHANGED <<nextSession, open, mClientSessionID>>
    BY <1>4 DEF SinkSends, Connections, ClientIsOpen, Session, NoSession
  <2> QED BY <2>2, <2>3, <2>4, ConnectionsPosted
<1>5. ASSUME NEW sid \in Session, SinkDrops(sid) PROVE Connections'
  <2> DEFINE e == [what |-> "error", sid |-> sid]
  <2>1. e \in Notification /\ e.what # "connected" /\ e.sid = sid
    BY DEF Notification
  <2>2. /\ inbox' = Append(inbox, e) /\ sid \in open
        /\ UNCHANGED <<nextSession, open, mClientSessionID>>
    BY <1>5 DEF SinkDrops, PostError
  <2> QED BY <2>1, <2>2, ConnectionsPosted
<1>6. CASE UNCHANGED allVars
  BY <1>6, ConnectionsUnchanged DEF allVars, vars
<1> QED BY <1>1, <1>2, <1>3, <1>4, <1>5, <1>6, NextCases DEF SinkNext

\* The client's connection is open, and a connection is announced before anything
\* else is heard of it, while it is open.
THEOREM ConnectionsInvariant == Spec => []Connections
<1>1. Init => Connections
  BY ConnectionsInit DEF Init
<1> QED BY <1>1, TypeCorrect, ConnectionsStep, PTL DEF Spec

\* No connection leaks: whoever connects, refused, lost or disconnected, the network
\* keeps only the client's connection and those not yet looked at.
THEOREM NoConnectionLeaks == Spec => []NoLeakedConnection
<1>1. Connections => NoLeakedConnection
  BY DEF Connections
<1> QED BY <1>1, ConnectionsInvariant, PTL

\* A sink with a playback session is watched from SETUP on: the reaper and the next
\* keep-alive are posted, whatever else happens to it.
THEOREM WatchdogIsArmed == Spec => []WatchdogArmed
<1>1. Init => WatchdogArmed
  BY DEF Init, SourceInit, WatchdogArmed
<1>2. TypeOK /\ Stages /\ Connections /\ WatchdogArmed /\ [Next]_allVars => WatchdogArmed'
  <2>1. SinkNext => UNCHANGED armedVars
    BY DEF SinkNext, SinkConnects, SinkReads, SinkSends, SinkDrops, armedVars, sourceVars,
           clientVars, timerVars
  <2>2. UNCHANGED allVars => UNCHANGED armedVars
    BY DEF allVars, vars, armedVars, sourceVars, clientVars, timerVars
  <2> QED BY <2>1, <2>2, SourceWatchdogStep, WatchdogUnchanged, NextCases DEF TypeOK
<1> QED BY <1>1, <1>2, StagesInvariant, ConnectionsInvariant, PTL DEF Spec

IsRequest(e) == e.what = "data" /\ e.msg.kind = "request"

\* What a sink that waits to be spoken to makes of the source's queue.
LEMMA RequestsStep ==
  ASSUME TypeOK, RequestsOfClient, [Next]_allVars
  PROVE  RequestsOfClient'
<1> DEFINE n == Len(inbox)
           Fits(e) == /\ mState > AWAITING_CLIENT_CONNECTION
                      /\ mClientSessionID \in {NoSession, e.sid}
<1>1. RequestsOfClient <=>
        /\ mState <= AWAITING_CLIENT_CONNECTION => mClientSessionID = NoSession
        /\ \A i \in 1 .. n : IsRequest(inbox[i]) => Fits(inbox[i])
  BY DEF RequestsOfClient, IsRequest
<1>2. RequestsOfClient' <=>
        /\ mState' <= AWAITING_CLIENT_CONNECTION => mClientSessionID' = NoSession
        /\ \A i \in 1 .. Len(inbox') : IsRequest(inbox'[i]) =>
              /\ mState' > AWAITING_CLIENT_CONNECTION
              /\ mClientSessionID' \in {NoSession, inbox'[i].sid}
  BY DEF RequestsOfClient, IsRequest
<1>3. mState \in Nat /\ mState' \in Nat /\ SourceTyped /\ inbox \in Seq(Notification)
  <2>1. SourceTyped /\ mState \in Nat /\ inbox \in Seq(Notification)
    BY DEF TypeOK, SourceTyped, NetTypeOK, SourceTypeOK, INITIALIZED, STOPPED
  <2>2. CASE SourceNext
    <3>1. SourceTyped'
      BY <2>2, SourceStepTyped DEF TypeOK
    <3>2. mState' \in Nat
      BY <3>1 DEF SourceTyped, SourceTypeOK, INITIALIZED, STOPPED
    <3> QED BY <2>1, <3>2
  <2>3. CASE SinkNext \/ UNCHANGED allVars
    BY <2>1, <2>3, SinkStages, StutterStages DEF stageVars
  <2> QED BY <2>2, <2>3, NextCases
<1>4. CASE SourceNext
  <2>1. mState > AWAITING_CLIENT_CONNECTION => mState' > AWAITING_CLIENT_CONNECTION
    BY <1>3, <1>4, StateAfterClient
  <2>2. \/ mClientSessionID' \in {mClientSessionID, NoSession}
        \/ mState = AWAITING_CLIENT_CONNECTION /\ mState' = AWAITING_CLIENT_SETUP
    BY <1>3, <1>4, ClientAfterStep
  <2>3. mState' <= AWAITING_CLIENT_CONNECTION => mClientSessionID' = NoSession
    BY <1>1, <1>3, <2>1, <2>2 DEF AWAITING_CLIENT_CONNECTION, AWAITING_CLIENT_SETUP
  <2>4. ASSUME NEW i \in 1 .. Len(inbox'), IsRequest(inbox'[i])
        PROVE  /\ mState' > AWAITING_CLIENT_CONNECTION
               /\ mClientSessionID' \in {NoSession, inbox'[i].sid}
    <3>1. PICK j \in 1 .. n : inbox'[i] = inbox[j]
      BY <1>3, <1>4, <2>4, QueueAfterStep, ConsumeShifts
    <3>2. Fits(inbox[j])
      BY <1>1, <2>4, <3>1
    <3> QED BY <2>1, <2>2, <3>1, <3>2 DEF AWAITING_CLIENT_CONNECTION
  <2> QED BY <1>2, <2>3, <2>4
<1>5. CASE SinkNext
  <2>1. UNCHANGED <<mState, mClientSessionID>>
    BY <1>5, SinkStages DEF stageVars
  <2>2. CASE \E e \in Notification : inbox' = Append(inbox, e) /\ (IsRequest(e) => Fits(e))
    <3>1. PICK e \in Notification : inbox' = Append(inbox, e) /\ (IsRequest(e) => Fits(e))
      BY <2>2
    <3>2. /\ Len(inbox') = n + 1 /\ inbox'[n + 1] = e /\ n \in Nat
          /\ \A i \in 1 .. n : inbox'[i] = inbox[i]
      BY <1>3, <3>1, AppendProperties, LenProperties
    <3> QED BY <1>1, <1>2, <2>1, <3>1, <3>2
  <2>3. CASE UNCHANGED inbox
    BY <1>1, <1>2, <2>1, <2>3
  <2>4. CASE SinkConnects
    <3>1. PICK local \in BOOLEAN :
            inbox' = Append(inbox, [what |-> "connected", sid |-> nextSession, local |-> local])
            /\ nextSession \in Session
      BY <2>4 DEF SinkConnects, Accept
    <3> DEFINE e == [what |-> "connected", sid |-> nextSession, local |-> local]
    <3>2. e \in Notification /\ ~IsRequest(e)
      BY <3>1 DEF Notification, IsRequest
    <3> QED BY <2>2, <3>1, <3>2
  <2>5. ASSUME NEW sid \in Session, SinkReads(sid) PROVE RequestsOfClient'
    <3>1. CASE UNCHANGED inbox
      BY <2>3, <3>1
    <3>2. CASE inbox' # inbox
      <4>1. Head(toSink[sid]).kind = "request" /\ toSink[sid] # << >>
        BY <2>5, <3>2 DEF SinkReads
      <4>2. PICK body \in Answers \ {"ignore"} :
              PostData(sid, [kind |-> "response", cseq |-> Head(toSink[sid]).cseq, body |-> body])
        BY <2>5, <3>2 DEF SinkReads
      <4> DEFINE e == [what |-> "data", sid |-> sid,
                       msg |-> [kind |-> "response", cseq |-> Head(toSink[sid]).cseq,
                                body |-> body]]
      <4>3. Head(toSink[sid]) \in SourceMessage
        BY <4>1, HeadTailProperties DEF TypeOK, SourceTyped, NetTypeOK
      <4>4. e \in Notification
        BY <4>1, <4>3, SinkAssumption DEF Notification, SinkResponse, SourceMessage
      <4>5. inbox' = Append(inbox, e) /\ ~IsRequest(e)
        BY <4>2 DEF PostData, IsRequest
      <4> QED BY <2>2, <4>4, <4>5
    <3> QED BY <3>1, <3>2
  <2>6. ASSUME NEW sid \in Session, SinkSends(sid) PROVE RequestsOfClient'
    <3>1. PICK request \in Requests : PostData(sid, request)
      BY <2>6 DEF SinkSends
    <3> DEFINE e == [what |-> "data", sid |-> sid, msg |-> request]
    <3>2. e \in Notification /\ inbox' = Append(inbox, e) /\ e.sid = sid
      BY <3>1, SinkAssumption DEF Notification, PostData
    <3>3. sid = mClientSessionID /\ sid # NoSession
      BY <2>6 DEF SinkSends, Session, NoSession
    <3>4. Fits(e)
      BY <1>1, <1>3, <3>2, <3>3 DEF AWAITING_CLIENT_CONNECTION
    <3> QED BY <2>2, <3>2, <3>4
  <2>7. ASSUME NEW sid \in Session, SinkDrops(sid) PROVE RequestsOfClient'
    <3> DEFINE e == [what |-> "error", sid |-> sid]
    <3>1. e \in Notification /\ inbox' = Append(inbox, e) /\ ~IsRequest(e)
      BY <2>7 DEF Notification, SinkDrops, PostError, IsRequest
    <3> QED BY <2>2, <3>1
  <2> QED BY <1>5, <2>4, <2>5, <2>6, <2>7 DEF SinkNext
<1>6. CASE UNCHANGED allVars
  BY <1>1, <1>2, <1>6 DEF allVars, vars, sourceVars, netVars, clientVars
<1> QED BY <1>4, <1>5, <1>6, NextCases

\* What the sink was told is what the media does, as long as there is a sink: playing
\* media streams, paused media does not.
THEOREM MediaFollowsTheState == Spec => []MediaFollowsState
<1>1. Init => RequestsOfClient /\ MediaFollowsState
  BY DEF Init, NetInit, SourceInit, RequestsOfClient, MediaFollowsState
<1>2. TypeOK /\ RequestsOfClient => SourceTyped /\ RequestIsClients
  <2> SUFFICES ASSUME TypeOK, RequestsOfClient, inbox # << >>,
                      Head(inbox).what = "data", Head(inbox).msg.kind = "request"
               PROVE  mClientSessionID \in {NoSession, Head(inbox).sid}
    BY DEF RequestIsClients, TypeOK
  <2>1. 1 \in 1 .. Len(inbox) /\ Head(inbox) = inbox[1]
    BY EmptySeq, LenProperties DEF TypeOK, SourceTyped, NetTypeOK
  <2> QED BY <2>1 DEF RequestsOfClient
<1>3. UNCHANGED <<mClientSessionID, mState, streaming>> /\ MediaFollowsState => MediaFollowsState'
  BY DEF MediaFollowsState
<1>4. SinkNext \/ UNCHANGED allVars => UNCHANGED <<mClientSessionID, mState, streaming>>
  BY DEF SinkNext, SinkConnects, SinkReads, SinkSends, SinkDrops, allVars, vars, sourceVars,
         clientVars, playbackVars
<1>5. TypeOK /\ Stages /\ Connections /\ RequestsOfClient /\ MediaFollowsState /\ [Next]_allVars
        => MediaFollowsState'
  BY <1>2, <1>3, <1>4, SourceMediaStep, NextCases
<1>6. TypeOK /\ RequestsOfClient /\ [Next]_allVars => RequestsOfClient'
  BY RequestsStep
<1> QED BY <1>1, <1>5, <1>6, StagesInvariant, ConnectionsInvariant, PTL DEF Spec
==============================================================================
