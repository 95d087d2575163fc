----------------------- MODULE MirrorSourceRefinement -----------------------
(***************************************************************************)
(* The source implements DisplaySession, for every sink: each of its steps *)
(* is a step of the session the display service sees, or none.             *)
(***************************************************************************)
EXTENDS MirrorSourceProofs

\* what the display service sees
seenVars == <<display, mStopReplyID, stopReplies, errorReported, life>>

\* A step that changes nothing of this is none of the session.
LEMMA UnseenStep == UNCHANGED seenVars => UNCHANGED Service!vars
BY DEF seenVars, Service!vars, StopSeen, Dead

\* Initial states map to initial states.
LEMMA InitSeen == Init => Service!Init
BY DEF Init, SourceInit, Service!Init, StopSeen, Dead, FailingChecks

\* onDisplayErrorIf reports an error or changes nothing.
LEMMA ErrorChoice ==
  ASSUME SourceTyped, NEW failed, OnDisplayErrorIf(failed)
  PROVE  errorReported' \in {errorReported, TRUE}
BY Zenon DEF OnDisplayErrorIf, SourceTyped, SourceTypeOK

\* A step after which only an error may have been reported.
LEMMA ErrorSeen ==
  ASSUME Alive, SourceTyped, errorReported' \in {errorReported, TRUE},
         UNCHANGED <<display, mStopReplyID, stopReplies, life>>
  PROVE  [Service!Next]_Service!vars
<1>1. ~Dead /\ Dead' = Dead /\ StopSeen' = StopSeen
  BY DEF Alive, Dead, FailingChecks, StopSeen
<1>2. CASE errorReported' = TRUE
  BY <1>1, <1>2 DEF Service!Next, Service!Fault
<1>3. CASE errorReported' = errorReported
  BY <1>1, <1>3 DEF Service!vars
<1> QED BY <1>2, <1>3

\* A CHECK fails: all the service sees is a process that is gone.
LEMMA AbortSeen ==
  ASSUME Alive, NEW check \in FailingChecks, Abort(check)
  PROVE  [Service!Next]_Service!vars
<1>1. ~Dead /\ Dead' = TRUE
  BY DEF Alive, Dead, FailingChecks, Abort
<1>2. UNCHANGED <<display, StopSeen, errorReported>>
  BY DEF Abort, stopVars, StopSeen
<1> QED BY <1>1, <1>2 DEF Service!Next, Service!Die

\* finishStop, for a stop() that is being answered or was just called
LEMMA FinishStopSeen ==
  ASSUME SourceTyped, Stages, Alive, FinishStop, mState < STOPPING,
         mStopReplyID' = 1, UNCHANGED <<errorReported, life>>
  PROVE  [Service!Next]_Service!vars
<1>1. /\ ~Dead /\ Dead' = Dead
      /\ stopReplies = 0
      /\ display # "disconnected"
      /\ StopSeen = IF mStopReplyID # 0 THEN "called" ELSE "no"
  BY DEF Alive, Dead, FailingChecks, Stages, StopStages, DisplayStages, STOPPED, STOPPING,
         SourceTyped, SourceTypeOK, StopSeen
<1>2. CASE UNCHANGED <<display, stopReplies>>
  <2>1. StopSeen' = "called"
    BY <1>1, <1>2 DEF StopSeen
  <2> QED BY <1>1, <1>2, <2>1 DEF Service!Next, Service!Stop, Service!vars
<1>3. CASE display' = "disconnected" /\ stopReplies' \in {0, 1}
  <2>1. StopSeen' \in {"called", "answered"}
    BY <1>3 DEF StopSeen
  <2> QED BY <1>1, <1>3, <2>1 DEF Service!Next, Service!Stop, Service!Disconnected
<1>4. \/ UNCHANGED <<display, stopReplies>>
      \/ display' = "disconnected" /\ stopReplies' \in {0, 1}
  BY <1>1 DEF FinishStop, DisconnectClient2, FinishStopAfterDisconnectingClient, FinishStop2
<1> QED BY <1>2, <1>3, <1>4

\* The handlers that answer, and those that abort.
LEMMA BystandersSeen ==
  ASSUME SourceTyped, BystanderHandlers
  PROVE  [Service!Next]_Service!vars
<1> USE DEF stopVars
<1>1. CASE ClientConnectedAbort \/ M4Abort \/ SetupAbort \/ M16ResponseAbort
  <2>1. Alive /\ \E check \in FailingChecks : Abort(check)
    BY <1>1 DEF ClientConnectedAbort, M4Abort, SetupAbort, M16ResponseAbort, Handling,
                HandlingResponse, HandlingRequest, FailingChecks
  <2> QED BY <2>1, AbortSeen
<1>2. CASE RejectClient \/ M16Response \/ SendKeepAlive \/ LifesignExpires
  BY <1>2, UnseenStep DEF RejectClient, sourceVars, M16Response, SendKeepAlive, KeepAlive,
                          LifesignExpires, seenVars
<1>3. CASE Release
  <2>1. UNCHANGED <<display, StopSeen, errorReported>>
    BY <1>3 DEF Release, StopSeen
  <2>2. UNCHANGED Dead
    BY <1>3 DEF Release, Alive, Dead, FailingChecks
  <2> QED BY <2>1, <2>2 DEF Service!vars
<1>4. CASE \/ UnsolicitedResponse \/ StatusResponse \/ M4Response \/ OptionsRequest
           \/ ParameterAccepted \/ PauseIgnored \/ SessionDead
  <2>1. Alive
    BY <1>4 DEF UnsolicitedResponse, StatusResponse, M4Response, OptionsRequest,
       ParameterAccepted, HandlingParameterRequest, PauseIgnored, SessionDead, Handling,
       HandlingResponse, HandlingRequest
  <2>2. /\ errorReported' \in {errorReported, TRUE}
        /\ UNCHANGED <<display, mStopReplyID, stopReplies, life>>
    BY <1>4, ErrorChoice DEF UnsolicitedResponse, StatusResponse, M4Response, OptionsRequest,
       ParameterAccepted, PauseIgnored, SessionDead
  <2> QED BY <2>1, <2>2, ErrorSeen
<1>5. CASE RefusingHandlers
  <2>1. Alive
    BY <1>5, Refusals DEF Handling
  <2>2. \E code \in Nat : Refuse(code)
    BY <1>5, Refusals
  <2>3. /\ errorReported' \in {errorReported, TRUE}
        /\ UNCHANGED <<display, mStopReplyID, stopReplies, life>>
    BY <2>2, ErrorChoice DEF Refuse
  <2> QED BY <2>1, <2>3, ErrorSeen
<1> QED BY <1>1, <1>2, <1>3, <1>4, <1>5 DEF BystanderHandlers, RefusingHandlers

\* Every step of the source is a step of the session or a stutter.
LEMMA SeenStep ==
  ASSUME SourceTyped, Stages, [Next]_allVars
  PROVE  [Service!Next]_Service!vars
<1> USE DEF stopVars, clientVars
<1>1. CASE BystanderHandlers
  BY <1>1, BystandersSeen
<1>2. CASE SinkNext \/ UNCHANGED allVars
  BY <1>2, UnseenStep DEF SinkNext, SinkConnects, SinkReads, SinkSends, SinkDrops, allVars, vars,
                          sourceVars, seenVars
<1>3. CASE Start \/ TriggerCalls \/ ClientConnected \/ SetupAccepted \/ HDCPInitialized \/ HDCPShutdown
  BY <1>3, UnseenStep DEF Start, TriggerCalls, Pause, Resume, ClientConnected, SetupAccepted,
                          HDCPInitialized, HDCPShutdown, seenVars
<1>4. CASE SessionError \/ M3Response \/ PlayAccepted \/ PauseAccepted \/ ReapDeadClients \/ HDCPFailed
  <2>1. Alive
    BY <1>4 DEF SessionError, M3Response, PlayAccepted, PauseAccepted, ReapDeadClients, HDCPFailed,
                HandlingResponse, HandlingRequest, Handling
  <2>2. /\ errorReported' \in {errorReported, TRUE}
        /\ UNCHANGED <<display, mStopReplyID, stopReplies, life>>
    <3>1. CASE SessionError \/ ReapDeadClients
      BY <1>4, <3>1 DEF SessionError, ReapDeadClients
    <3>2. CASE M3Response \/ PlayAccepted \/ PauseAccepted \/ HDCPFailed
      BY <3>2, ErrorChoice DEF M3Response, PlayAccepted, PauseAccepted, HDCPFailed
    <3> QED BY <1>4, <3>1, <3>2
  <2> QED BY <2>1, <2>2, ErrorSeen
<1>5. CASE Stop
  <2>1. Alive /\ mStopReplyID = 0 /\ mStopReplyID' = 1 /\ mState < STOPPING
    BY <1>5 DEF Stop, Stages, StopStages, AWAITING_CLIENT_TEARDOWN, STOPPING, SourceTyped, SourceTypeOK
  <2>2. CASE FinishStop /\ UNCHANGED finishStopRest
    BY <2>1, <2>2, FinishStopSeen DEF finishStopRest
  <2>3. CASE UNCHANGED <<display, stopReplies, errorReported, life>>
    <3>1. stopReplies = 0 /\ ~Dead /\ Dead' = Dead
      BY <2>1, <2>3 DEF Alive, Dead, FailingChecks, Stages, StopStages, STOPPED, STOPPING, SourceTyped, SourceTypeOK
    <3>2. StopSeen = "no" /\ StopSeen' = "called"
      BY <2>1, <2>3, <3>1 DEF StopSeen
    <3> QED BY <2>3, <3>1, <3>2 DEF Service!Next, Service!Stop
  <2> QED BY <1>5, <2>2, <2>3 DEF Stop
<1>6. CASE TeardownRequest
  <2>1. Alive /\ mState < STOPPING /\ mStopReplyID' = 1
    BY <1>6 DEF TeardownRequest, HandlingRequest, Handling, Stages, StopStages, AWAITING_CLIENT_TEARDOWN,
                STOPPING, SourceTyped, SourceTypeOK
  <2> QED BY <1>6, <2>1, FinishStopSeen DEF TeardownRequest, finishStopRest
<1>7. CASE TeardownTriggerTimedOut
  <2>1. CASE mState = AWAITING_CLIENT_TEARDOWN
    <3>1. Alive /\ mState < STOPPING /\ mStopReplyID' = 1 /\ FinishStop /\ UNCHANGED finishStopRest
      BY <1>7, <2>1 DEF TeardownTriggerTimedOut, Stages, StopStages, AWAITING_CLIENT_TEARDOWN,
                        STOPPING, SourceTyped, SourceTypeOK
    <3> QED BY <3>1, FinishStopSeen DEF finishStopRest
  <2>2. CASE mState # AWAITING_CLIENT_TEARDOWN
    BY <1>7, <2>2, UnseenStep DEF TeardownTriggerTimedOut, seenVars
  <2> QED BY <2>1, <2>2
<1>8. CASE FinishStop2Delayed
  <2>1. mState = STOPPING /\ stopReplies = 0 /\ mStopReplyID = 1 /\ display = "disconnected"
    BY <1>8 DEF FinishStop2Delayed, Stages, StopStages, DisplayStages, Finishing, STOPPING, STOPPED,
                AWAITING_CLIENT_TEARDOWN, SourceTyped, SourceTypeOK
  <2>2. /\ stopReplies' = 1
        /\ Alive
        /\ UNCHANGED <<display, errorReported, life>>
    BY <1>8, <2>1 DEF FinishStop2Delayed, FinishStop2
  <2>3. StopSeen = "called" /\ StopSeen' = "answered" /\ ~Dead /\ Dead' = Dead
    BY <2>1, <2>2 DEF StopSeen, Alive, Dead, FailingChecks
  <2> QED BY <2>1, <2>2, <2>3 DEF Service!Next, Service!Answer
<1>9. CASE SessionEstablished
  <2>1. /\ Alive
        /\ display' = "connected"
        /\ UNCHANGED <<mStopReplyID, stopReplies, errorReported, life>>
    BY <1>9 DEF SessionEstablished
  <2>2. display = "none" /\ stopReplies = 0
    BY <1>9 DEF SessionEstablished, Stages, StopStages, SessionStages, DisplayStages, SourceTyped, SourceTypeOK
  <2>3. StopSeen # "answered" /\ StopSeen' = StopSeen /\ ~Dead /\ Dead' = Dead
    BY <2>1, <2>2 DEF StopSeen, Alive, Dead, FailingChecks
  <2> QED BY <2>1, <2>2, <2>3 DEF Service!Next, Service!Connected
<1>10. CASE SessionDestroyed
  <2>1. /\ mState = STOPPING /\ mStopReplyID = 1 /\ stopReplies = 0
        /\ display # "disconnected"
    BY <1>10 DEF SessionDestroyed, Stages, StopStages, SessionStages, DisplayStages, Destroying,
                 STOPPING, STOPPED, AWAITING_CLIENT_TEARDOWN, SourceTyped, SourceTypeOK
  <2>2. /\ Alive
        /\ display' = "disconnected"
        /\ stopReplies' \in {0, 1}
        /\ UNCHANGED <<mStopReplyID, errorReported, life>>
    BY <1>10, <2>1 DEF SessionDestroyed, DisconnectClient2, FinishStopAfterDisconnectingClient,
                       FinishStop2, finishStopRest
  <2>3. StopSeen = "called" /\ StopSeen' \in {"called", "answered"} /\ ~Dead /\ Dead' = Dead
    BY <2>1, <2>2 DEF StopSeen, Alive, Dead, FailingChecks
  <2> QED BY <2>1, <2>2, <2>3 DEF Service!Next, Service!Disconnected
<1> QED BY <1>1, <1>2, <1>3, <1>4, <1>5, <1>6, <1>7, <1>8, <1>9, <1>10, NextCases, SourceCases
        DEF ActingHandlers, HDCPHandlers

\* The source keeps what DisplaySession promises the display service: the display
\* is announced before it is gone, gone once and only after stop(), and stop() is
\* answered once, after that; whatever the sink does.
THEOREM SourceImplementsSession == Spec => ImplementsDisplaySession
<1>1. Spec => [](TypeOK /\ Stages)
  BY StagesInvariant
<1>2. TypeOK /\ Stages /\ [Next]_allVars => [Service!Next]_Service!vars
  BY SeenStep DEF TypeOK
<1> QED BY <1>1, <1>2, InitSeen, PTL DEF Spec, ImplementsDisplaySession, Service!Spec

------------------------------------------------------------------------------
(* The deferred SETUP trigger *)

\* Whichever of the M4 response and the end of the HDCP handshake comes first, the
\* SETUP trigger is deferred only while there is something to wait for, and is sent when
\* the wait ends.
THEOREM SetupTriggerIsNotLost == Spec => SetupTriggerNotLost
<1>1. Init => DeferralWaits
  BY DEF Init, SourceInit, DeferralWaits
<1>2. DeferralWaits /\ Connections /\ [Next]_allVars => DeferralWaits' /\ [DeferralEnds]_vars
  <2>1. ASSUME DeferralWaits, Connections, SourceNext PROVE DeferralWaits' /\ DeferralEnds
    BY <2>1, TriggerStep DEF Connections
  <2>2. ASSUME DeferralWaits, SinkNext \/ UNCHANGED allVars PROVE DeferralWaits' /\ DeferralEnds
    BY <2>2 DEF DeferralWaits, DeferralEnds, SinkNext, SinkConnects, SinkReads, SinkSends,
                SinkDrops, allVars, vars, sourceVars, hdcpVars
  <2> QED BY <2>1, <2>2, NextCases
<1> QED BY <1>1, <1>2, ConnectionsInvariant, PTL DEF Spec, SetupTriggerNotLost
==============================================================================
