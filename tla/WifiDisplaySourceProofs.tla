----------------------- MODULE WifiDisplaySourceProofs -----------------------
(***************************************************************************)
(* What each step of the mirroring source keeps, whatever drives it: its   *)
(* types, and the invariants from which the properties of WifiDisplay-     *)
(* Source follow.  MirrorSourceProofs and PhonetopLinkProofs put them      *)
(* together with the steps of their sinks.                                 *)
(***************************************************************************)
EXTENDS WifiDisplaySource, TLAPS, SequenceTheorems

------------------------------------------------------------------------------
(* What the helpers keep well typed *)

LEMMA HeadTyped ==
  ASSUME inbox \in Seq(Notification), inbox # << >>
  PROVE  /\ Head(inbox) \in Notification
         /\ Head(inbox).sid \in Session
         /\ Tail(inbox) \in Seq(Notification)
<1>1. Head(inbox) \in Notification /\ Tail(inbox) \in Seq(Notification)
  BY HeadTailProperties
<1>2. Head(inbox).sid \in Session
  BY <1>1 DEF Notification
<1> QED BY <1>1, <1>2

LEMMA DataTyped ==
  ASSUME inbox \in Seq(Notification), Handling("data")
  PROVE  /\ Head(inbox).msg \in SinkRequest \cup SinkResponse
         /\ Head(inbox).msg.kind = "response" => Head(inbox).msg.cseq \in Nat
<1>1. Head(inbox) \in Notification /\ Head(inbox).what = "data"
  BY HeadTyped DEF Handling
<1>2. Head(inbox).msg \in SinkRequest \cup SinkResponse
  BY <1>1 DEF Notification
<1> QED BY <1>2 DEF SinkRequest, SinkResponse

LEMMA MessagesTyped ==
  ASSUME NEW tag \in Tags, NEW cseq \in Nat, NEW code \in Nat
  PROVE  Request(tag, cseq) \in SourceMessage /\ Response(code) \in SourceMessage
BY DEF Request, Response, SourceMessage

LEMMA DeliverTyped ==
  ASSUME toSink \in [Session -> Seq(SourceMessage)],
         NEW sid, NEW msgs \in Seq(SourceMessage), Deliver(sid, msgs)
  PROVE  toSink' \in [Session -> Seq(SourceMessage)]
<1>1. ASSUME NEW s \in Session PROVE toSink[s] \o msgs \in Seq(SourceMessage)
  BY ConcatProperties
<1> QED BY <1>1 DEF Deliver

LEMMA PostDataTyped ==
  ASSUME inbox \in Seq(Notification), NEW sid \in Session,
         NEW msg \in SinkRequest \cup SinkResponse, PostData(sid, msg)
  PROVE  inbox' \in Seq(Notification)
<1>1. [what |-> "data", sid |-> sid, msg |-> msg] \in Notification
  BY DEF Notification
<1> QED BY <1>1, AppendProperties DEF PostData

LEMMA PostErrorTyped ==
  ASSUME inbox \in Seq(Notification), NEW sid \in Session, PostError(sid)
  PROVE  inbox' \in Seq(Notification)
<1>1. [what |-> "error", sid |-> sid] \in Notification
  BY DEF Notification
<1> QED BY <1>1, AppendProperties DEF PostError

LEMMA SendAfterTyped ==
  ASSUME SourceTyped, NEW before \in Seq(SourceMessage), NEW sid, NEW tag \in Tags,
         NEW handled, SendAfter(before, sid, tag, handled)
  PROVE  /\ toSink' \in [Session -> Seq(SourceMessage)]
         /\ mResponseHandlers' \subseteq [sid: Session, cseq: Nat, func: Handlers]
         /\ mNextCSeq' \in Nat
<1>1. CASE sid \notin open
  BY <1>1 DEF SendAfter, SourceTyped, SourceTypeOK, NetTypeOK
<1>2. CASE sid \in open
  <2>1. /\ Deliver(sid, Append(before, Request(tag, mNextCSeq)))
        /\ RegisterResponseHandler(sid, tag, handled)
        /\ mNextCSeq' = mNextCSeq + 1
    BY <1>2 DEF SendAfter
  <2>2. mNextCSeq \in Nat /\ sid \in Session
    BY <1>2 DEF SourceTyped, SourceTypeOK, NetTypeOK
  <2>3. Append(before, Request(tag, mNextCSeq)) \in Seq(SourceMessage)
    BY <2>2, MessagesTyped, AppendProperties
  <2>4. toSink' \in [Session -> Seq(SourceMessage)]
    BY <2>1, <2>3, DeliverTyped DEF SourceTyped, NetTypeOK
  <2>5. HandlerOf(tag) \in Handlers
    BY DEF HandlerOf, Handlers, Tags
  <2>6. mResponseHandlers' \subseteq [sid: Session, cseq: Nat, func: Handlers]
    BY <2>1, <2>2, <2>5 DEF RegisterResponseHandler, SourceTyped, SourceTypeOK
  <2> QED BY <2>1, <2>2, <2>4, <2>6
<1> QED BY <1>1, <1>2

LEMMA SendTyped ==
  ASSUME SourceTyped, NEW sid, NEW tag \in Tags, Send(sid, tag)
  PROVE  /\ toSink' \in [Session -> Seq(SourceMessage)]
         /\ mResponseHandlers' \subseteq [sid: Session, cseq: Nat, func: Handlers]
         /\ mNextCSeq' \in Nat
<1>1. << >> \in Seq(SourceMessage)
  OBVIOUS
<1> QED BY <1>1, SendAfterTyped DEF Send

LEMMA ReplyTyped ==
  ASSUME SourceTyped, NEW code \in Nat, Reply(code)
  PROVE  toSink' \in [Session -> Seq(SourceMessage)]
<1>1. <<Response(code)>> \in Seq(SourceMessage)
  BY DEF Response, SourceMessage
<1> QED BY <1>1, DeliverTyped DEF Reply, SourceTyped, NetTypeOK

LEMMA DisconnectTyped ==
  ASSUME SourceTyped, NEW state \in INITIALIZED .. STOPPED, DisconnectClient2(state)
  PROVE  /\ mPlaybackSession' \in BOOLEAN
         /\ open' \subseteq Session
         /\ mClientSessionID' \in Session \cup {NoSession}
         /\ display' \in {"none", "connected", "disconnected"}
         /\ hdcpPending' \subseteq {"initialized", "failed", "shutdown"}
         /\ mHDCP' \in BOOLEAN
         /\ mSessionID' \in {0, 1}
         /\ stopReplies' \in Nat
         /\ mState' \in INITIALIZED .. STOPPED
<1> USE DEF DisconnectClient2, SourceTyped, SourceTypeOK, NetTypeOK
<1>1. CASE mHDCP
  BY <1>1 DEF FinishStopAfterDisconnectingClient
<1>2. CASE ~mHDCP
  <2>1. FinishStop2 /\ UNCHANGED hdcpPending
    BY <1>2 DEF FinishStopAfterDisconnectingClient
  <2>2. stopReplies' \in Nat /\ mState' \in INITIALIZED .. STOPPED
    BY <2>1 DEF FinishStop2, INITIALIZED, STOPPED
  <2> QED BY <2>1, <2>2, Zenon DEF FinishStop2
<1> QED BY <1>1, <1>2

LEMMA FinishStopTyped ==
  ASSUME SourceTyped, FinishStop
  PROVE  /\ mPlaybackSession' \in BOOLEAN
         /\ open' \subseteq Session
         /\ mClientSessionID' \in Session \cup {NoSession}
         /\ display' \in {"none", "connected", "disconnected"}
         /\ hdcpPending' \subseteq {"initialized", "failed", "shutdown"}
         /\ mHDCP' \in BOOLEAN
         /\ mSessionID' \in {0, 1}
         /\ stopReplies' \in Nat
         /\ mState' \in INITIALIZED .. STOPPED
         /\ playback' \in {"none", "running", "destroying", "gone"}
<1>1. STOPPING \in INITIALIZED .. STOPPED
  BY DEF STOPPING, INITIALIZED, STOPPED
<1>2. CASE mPlaybackSession
  BY <1>1, <1>2 DEF FinishStop, SourceTyped, SourceTypeOK, NetTypeOK
<1>3. CASE ~mPlaybackSession
  BY <1>1, <1>3, DisconnectTyped DEF FinishStop, SourceTyped, SourceTypeOK
<1> QED BY <1>2, <1>3

LEMMA ConsumeTyped ==
  ASSUME SourceTyped, NEW what, Handling(what), Consume
  PROVE  inbox' \in Seq(Notification) /\ Head(inbox).sid \in Session
BY HeadTyped DEF Handling, Consume, SourceTyped, NetTypeOK

LEMMA ErrorTyped ==
  ASSUME SourceTyped, NEW failed, OnDisplayErrorIf(failed)
  PROVE  errorReported' \in BOOLEAN
BY Zenon DEF OnDisplayErrorIf, SourceTyped, SourceTypeOK

\* Refuse leaves everything but the queue, the stream and the error report.
LEMMA RefuseTyped ==
  ASSUME SourceTyped, NEW code \in Nat, Handling("data"), Refuse(code),
         UNCHANGED playbackVars
  PROVE  SourceTyped'
<1> USE DEF SourceTyped, NetTypeOK, SourceTypeOK, clientVars, requestVars, hdcpVars,
            timerVars, playbackVars, stopVars
<1>1. inbox' \in Seq(Notification)
  BY ConsumeTyped DEF Refuse
<1>2. errorReported' \in BOOLEAN
  BY ErrorTyped DEF Refuse
<1>3. toSink' \in [Session -> Seq(SourceMessage)]
  BY ReplyTyped DEF Refuse
<1> QED BY <1>1, <1>2, <1>3, SMT DEF Refuse

\* The handlers that only refuse.
RefusingHandlers ==
  \/ SetupRefused \/ SetupFailed \/ PlayRefused \/ PauseRefused \/ TeardownRefused
  \/ TeardownUnasked \/ ParameterRefused \/ OtherRequest

\* What they have in common.
LEMMA Refusals ==
  ASSUME RefusingHandlers
  PROVE  Handling("data") /\ UNCHANGED playbackVars /\ \E code \in Nat : Refuse(code)
<1>1. CASE SetupRefused
  BY <1>1 DEF SetupRefused, HandlingRequest
<1>2. CASE SetupFailed
  BY <1>2 DEF SetupFailed, HandlingRequest
<1>3. CASE PlayRefused
  BY <1>3 DEF PlayRefused, HandlingRequest
<1>4. CASE PauseRefused
  BY <1>4 DEF PauseRefused, HandlingRequest
<1>5. CASE TeardownRefused
  BY <1>5 DEF TeardownRefused, HandlingRequest
<1>6. CASE TeardownUnasked
  BY <1>6 DEF TeardownUnasked, HandlingRequest
<1>7. CASE ParameterRefused
  BY <1>7 DEF ParameterRefused, HandlingParameterRequest, HandlingRequest
<1>8. CASE OtherRequest
  BY <1>8 DEF OtherRequest, HandlingRequest
<1> QED BY <1>1, <1>2, <1>3, <1>4, <1>5, <1>6, <1>7, <1>8 DEF RefusingHandlers

\* They keep the types.
LEMMA RefusalsTyped == SourceTyped /\ RefusingHandlers => SourceTyped'
BY Refusals, RefuseTyped

------------------------------------------------------------------------------
(* Type correctness *)

LEMMA InitTyped == NetInit /\ SourceInit => SourceTyped
<1> SUFFICES ASSUME NetInit, SourceInit PROVE SourceTyped
  OBVIOUS
<1>1. NetTypeOK
  BY MaxSessionsAssumption DEF NetInit, NetTypeOK
<1>2. mState \in INITIALIZED .. STOPPED /\ mNextCSeq \in Nat /\ stopReplies \in Nat
  BY DEF SourceInit, INITIALIZED, STOPPED
<1>3. SourceTypeOK
  BY <1>2, Zenon DEF SourceInit, SourceTypeOK, NoSession
<1> QED BY <1>1, <1>3 DEF SourceTyped

LEMMA ServiceCallsTyped == SourceTyped /\ ServiceCalls => SourceTyped'
<1> SUFFICES ASSUME SourceTyped, ServiceCalls PROVE SourceTyped'
  OBVIOUS
<1> USE DEF SourceTyped, NetTypeOK, SourceTypeOK, netVars, clientVars, requestVars, hdcpVars,
            timerVars, playbackVars, stopVars, INITIALIZED, STOPPED
<1>1. CASE Start
  BY <1>1 DEF Start, AWAITING_CLIENT_CONNECTION
<1>2. CASE Stop
  <2>1. CASE Send(mClientSessionID, "TEARDOWN") /\ mState' = AWAITING_CLIENT_TEARDOWN
             /\ delayed' = delayed \cup {"TeardownTriggerTimedOut"}
             /\ UNCHANGED <<nextSession, open, inbox, clientVars, hdcpVars, mReaperPending,
                       keepAlives, playbackVars, mSessionID, stopReplies, display,
                       errorReported, life>>
    <3>1. "TEARDOWN" \in Tags
      BY DEF Tags
    <3> QED BY <1>2, <2>1, <3>1, SendTyped DEF Stop, AWAITING_CLIENT_TEARDOWN
  <2>2. CASE FinishStop /\ UNCHANGED <<finishStopRest, mResponseHandlers, inbox, toSink, delayed>>
    BY <1>2, <2>2, FinishStopTyped DEF Stop, finishStopRest
  <2> QED BY <1>2, <2>1, <2>2 DEF Stop
<1>3. CASE Release
  BY <1>3 DEF Release
<1> QED BY <1>1, <1>2, <1>3 DEF ServiceCalls
LEMMA TriggerCallsTyped == SourceTyped /\ TriggerCalls => SourceTyped'
<1> SUFFICES ASSUME SourceTyped, TriggerCalls PROVE SourceTyped'
  OBVIOUS
<1> USE DEF SourceTyped, NetTypeOK, SourceTypeOK, netVars, clientVars, requestVars, hdcpVars,
            timerVars, playbackVars, stopVars, INITIALIZED, STOPPED
<1>1. CASE Pause
  <2>1. "PAUSE" \in Tags
    BY DEF Tags
  <2> QED BY <1>1, <2>1, SendTyped DEF Pause, PLAYING_TO_PAUSED
<1>2. CASE Resume
  <2>1. "PLAY" \in Tags
    BY DEF Tags
  <2> QED BY <1>2, <2>1, SendTyped DEF Resume, PAUSED_TO_PLAYING
<1> QED BY <1>1, <1>2 DEF TriggerCalls

LEMMA ConnectionsTyped == SourceTyped /\ ConnectionHandlers => SourceTyped'
<1> SUFFICES ASSUME SourceTyped, ConnectionHandlers PROVE SourceTyped'
  OBVIOUS
<1> USE DEF SourceTyped, NetTypeOK, SourceTypeOK, netVars, clientVars, requestVars, hdcpVars,
            timerVars, playbackVars, stopVars, INITIALIZED, STOPPED
<1>1. CASE RejectClient
  BY <1>1, HeadTyped DEF RejectClient, Handling, Consume, sourceVars
<1>2. CASE ClientConnectedAbort
  BY <1>2 DEF ClientConnectedAbort, Abort, FailingChecks
<1>3. CASE ClientConnected
  <2>1. "M1" \in Tags
    BY DEF Tags
  <2>2. Head(inbox).sid \in Session /\ inbox' \in Seq(Notification)
    BY <1>3, HeadTyped DEF ClientConnected, Handling, Consume
  <2>3. mState' \in INITIALIZED .. STOPPED
    BY <1>3 DEF ClientConnected, AWAITING_CLIENT_SETUP
  <2>4. /\ toSink' \in [Session -> Seq(SourceMessage)]
        /\ mResponseHandlers' \subseteq [sid: Session, cseq: Nat, func: Handlers]
        /\ mNextCSeq' \in Nat
    BY <1>3, <2>1, SendTyped DEF ClientConnected
  <2>5. mPlaybackSessionID' \in BOOLEAN /\ mClientSessionID' \in Session
    BY <1>3, <2>2, Zenon DEF ClientConnected
  <2> QED BY <1>3, <2>2, <2>3, <2>4, <2>5, SMT DEF ClientConnected
<1>4. CASE SessionError
  <2>1. inbox' \in Seq(Notification)
    BY <1>4, HeadTyped DEF SessionError, Handling, Consume
  <2>2. mClientSessionID' \in Session \cup {NoSession} /\ errorReported' \in BOOLEAN
    BY <1>4 DEF SessionError
  <2> QED BY <1>4, <2>1, <2>2 DEF SessionError
<1> QED BY <1>1, <1>2, <1>3, <1>4 DEF ConnectionHandlers
LEMMA ResponsesTyped == SourceTyped /\ ResponseHandlers => SourceTyped'
<1> SUFFICES ASSUME SourceTyped, ResponseHandlers PROVE SourceTyped'
  OBVIOUS
<1> USE DEF SourceTyped, NetTypeOK, SourceTypeOK, netVars, clientVars, requestVars, hdcpVars,
            timerVars, playbackVars, stopVars, INITIALIZED, STOPPED
<1>1. CASE UnsolicitedResponse
  <2>1. inbox' \in Seq(Notification) /\ Head(inbox).sid \in Session
    BY <1>1, ConsumeTyped DEF UnsolicitedResponse
  <2>2. errorReported' \in BOOLEAN
    BY <1>1, ErrorTyped DEF UnsolicitedResponse
  <2> QED BY <1>1, <2>1, <2>2, SMT DEF UnsolicitedResponse
<1>2. CASE StatusResponse
  <2>1. inbox' \in Seq(Notification) /\ Head(inbox).sid \in Session
    BY <1>2, ConsumeTyped DEF StatusResponse, HandlingResponse
  <2>2. errorReported' \in BOOLEAN
    BY <1>2, ErrorTyped DEF StatusResponse
  <2> QED BY <1>2, <2>1, <2>2, SMT DEF StatusResponse
<1>3. CASE M3Response
  <2>1. inbox' \in Seq(Notification) /\ Head(inbox).sid \in Session
    BY <1>3, ConsumeTyped DEF M3Response, HandlingResponse
  <2>2. errorReported' \in BOOLEAN
    BY <1>3, ErrorTyped DEF M3Response
  <2>3. "M4" \in Tags /\ << >> \in Seq(SourceMessage)
    BY DEF Tags
  <2>4. /\ toSink' \in [Session -> Seq(SourceMessage)]
        /\ mResponseHandlers' \subseteq [sid: Session, cseq: Nat, func: Handlers]
        /\ mNextCSeq' \in Nat
    BY <1>3, <2>3, SendAfterTyped DEF M3Response
  <2>5. mUsingHDCP' \in BOOLEAN /\ mHDCP' \in BOOLEAN
    BY <1>3, Zenon DEF M3Response, MakeHDCP
  <2>6. hdcpPending' \subseteq {"initialized", "failed", "shutdown"}
    BY <1>3 DEF M3Response, MakeHDCP
  <2> QED BY <1>3, <2>1, <2>2, <2>4, <2>5, <2>6, SMT DEF M3Response
<1>4. CASE M4Abort
  BY <1>4 DEF M4Abort, Abort, FailingChecks
<1>5. CASE M4Response
  <2>1. inbox' \in Seq(Notification) /\ Head(inbox).sid \in Session
    BY <1>5, ConsumeTyped DEF M4Response, HandlingResponse
  <2>2. errorReported' \in BOOLEAN
    BY <1>5, ErrorTyped, Zenon DEF M4Response
  <2>3. "SETUP" \in Tags /\ << >> \in Seq(SourceMessage)
    BY DEF Tags
  <2>4. /\ toSink' \in [Session -> Seq(SourceMessage)]
        /\ mResponseHandlers' \subseteq [sid: Session, cseq: Nat, func: Handlers]
        /\ mNextCSeq' \in Nat
    BY <1>5, <2>3, SendAfterTyped DEF M4Response
  <2>5. mSetupTriggerDeferred' \in BOOLEAN
    BY <1>5, Zenon DEF M4Response
  <2> QED BY <1>5, <2>1, <2>2, <2>4, <2>5, SMT DEF M4Response
<1>6. CASE M16Response
  <2>1. inbox' \in Seq(Notification) /\ Head(inbox).sid \in Session
    BY <1>6, ConsumeTyped DEF M16Response, HandlingResponse
  <2>2. lifesign' \in BOOLEAN
    BY <1>6, Zenon DEF M16Response
  <2> QED BY <1>6, <2>1, <2>2, SMT DEF M16Response
<1>7. CASE M16ResponseAbort
  BY <1>7 DEF M16ResponseAbort, Abort, FailingChecks
<1> QED BY <1>1, <1>2, <1>3, <1>4, <1>5, <1>6, <1>7 DEF ResponseHandlers
\* The handlers of requests keep the types.
LEMMA RequestsTyped == SourceTyped /\ RequestHandlers => SourceTyped'
<1> SUFFICES ASSUME SourceTyped, RequestHandlers PROVE SourceTyped'
  OBVIOUS
<1>1. CASE RefusingHandlers
  BY <1>1, RefusalsTyped
<1> USE DEF SourceTyped, NetTypeOK, SourceTypeOK, netVars, clientVars, requestVars, hdcpVars,
            timerVars, playbackVars, stopVars, INITIALIZED, STOPPED
<1>2. CASE OptionsRequest
  <2>1. inbox' \in Seq(Notification) /\ Head(inbox).sid \in Session
    BY <1>2, ConsumeTyped DEF OptionsRequest, HandlingRequest
  <2>2. errorReported' \in BOOLEAN
    BY <1>2, ErrorTyped DEF OptionsRequest
  <2>3. "M3" \in Tags /\ <<Response(200)>> \in Seq(SourceMessage)
    BY DEF Tags, Response, SourceMessage
  <2>4. /\ toSink' \in [Session -> Seq(SourceMessage)]
        /\ mResponseHandlers' \subseteq [sid: Session, cseq: Nat, func: Handlers]
        /\ mNextCSeq' \in Nat
    BY <1>2, <2>3, SendAfterTyped DEF OptionsRequest
  <2>5. lifesign' \in BOOLEAN
    BY <1>2, Zenon DEF OptionsRequest
  <2> QED BY <1>2, <2>1, <2>2, <2>4, <2>5, SMT DEF OptionsRequest
<1>3. CASE SetupAccepted
  <2>1. inbox' \in Seq(Notification) /\ Head(inbox).sid \in Session
    BY <1>3, ConsumeTyped DEF SetupAccepted, HandlingRequest
  <2>2. /\ mPlaybackSessionID' \in BOOLEAN
        /\ mPlaybackSession' \in BOOLEAN
        /\ streaming' \in BOOLEAN
        /\ lifesign' \in BOOLEAN
        /\ mReaperPending' \in BOOLEAN
    BY <1>3, Zenon DEF SetupAccepted, ScheduleReaper
  <2>3. toSink' \in [Session -> Seq(SourceMessage)]
    BY <1>3, ReplyTyped DEF SetupAccepted
  <2>4. keepAlives' \subseteq Session
    BY <1>3, <2>1 DEF SetupAccepted, ScheduleKeepAlive
  <2> QED BY <1>3, <2>1, <2>2, <2>3, <2>4, SMT DEF SetupAccepted, AWAITING_CLIENT_PLAY
<1>4. CASE SetupAbort
  BY <1>4 DEF SetupAbort, Abort, FailingChecks
<1>5. CASE PlayAccepted
  <2>1. inbox' \in Seq(Notification) /\ Head(inbox).sid \in Session
    BY <1>5, ConsumeTyped DEF PlayAccepted, HandlingRequest
  <2>2. errorReported' \in BOOLEAN
    BY <1>5, ErrorTyped DEF PlayAccepted
  <2>3. toSink' \in [Session -> Seq(SourceMessage)]
    BY <1>5, ReplyTyped DEF PlayAccepted
  <2>4. streaming' \in BOOLEAN
    BY <1>5, Zenon DEF PlayAccepted
  <2>5. mState' \in INITIALIZED .. STOPPED
    BY <1>5 DEF PlayAccepted, PLAYING, ABOUT_TO_PLAY
  <2> QED BY <1>5, <2>1, <2>2, <2>3, <2>4, <2>5, SMT DEF PlayAccepted
<1>6. CASE PauseIgnored
  <2>1. inbox' \in Seq(Notification)
    BY <1>6, ConsumeTyped DEF PauseIgnored, HandlingRequest
  <2>2. errorReported' \in BOOLEAN
    BY <1>6, ErrorTyped DEF PauseIgnored
  <2> QED BY <1>6, <2>1, <2>2, SMT DEF PauseIgnored
<1>7. CASE PauseAccepted
  <2>1. inbox' \in Seq(Notification) /\ Head(inbox).sid \in Session
    BY <1>7, ConsumeTyped DEF PauseAccepted, HandlingRequest
  <2>2. errorReported' \in BOOLEAN
    BY <1>7, ErrorTyped DEF PauseAccepted
  <2>3. toSink' \in [Session -> Seq(SourceMessage)]
    BY <1>7, ReplyTyped DEF PauseAccepted
  <2>4. streaming' \in BOOLEAN
    BY <1>7, Zenon DEF PauseAccepted
  <2>5. mState' \in INITIALIZED .. STOPPED
    BY <1>7 DEF PauseAccepted, PAUSED
  <2> QED BY <1>7, <2>1, <2>2, <2>3, <2>4, <2>5, SMT DEF PauseAccepted
<1>8. CASE TeardownRequest
  <2>1. inbox' \in Seq(Notification) /\ Head(inbox).sid \in Session
    BY <1>8, ConsumeTyped DEF TeardownRequest, HandlingRequest
  <2>2. toSink' \in [Session -> Seq(SourceMessage)]
    BY <1>8, ReplyTyped DEF TeardownRequest
  <2>3. /\ FinishStop
        /\ UNCHANGED <<mResponseHandlers, mStopReplyID, delayed, mPlaybackSessionID, mNextCSeq,
                       mUsingHDCP, nextSession, mHDCPInitializationComplete,
                       mSetupTriggerDeferred, mReaperPending, keepAlives,
                       mPlaybackSessionEstablished, streaming, lifesign, errorReported, life>>
    BY <1>8 DEF TeardownRequest, finishStopRest
  <2>4. SourceTyped
    OBVIOUS
  <2> HIDE DEF SourceTyped, NetTypeOK, SourceTypeOK
  <2>5. /\ mPlaybackSession' \in BOOLEAN /\ mHDCP' \in BOOLEAN /\ open' \subseteq Session
        /\ mClientSessionID' \in Session \cup {NoSession}
        /\ display' \in {"none", "connected", "disconnected"}
        /\ hdcpPending' \subseteq {"initialized", "failed", "shutdown"}
        /\ mSessionID' \in {0, 1} /\ stopReplies' \in Nat
        /\ mState' \in INITIALIZED .. STOPPED
        /\ playback' \in {"none", "running", "destroying", "gone"}
    BY <2>3, <2>4, FinishStopTyped
  <2> QED BY <2>1, <2>2, <2>3, <2>4, <2>5, SMT DEF SourceTyped, NetTypeOK, SourceTypeOK
<1>9. CASE ParameterAccepted
  <2>1. inbox' \in Seq(Notification)
    BY <1>9, ConsumeTyped DEF ParameterAccepted, HandlingParameterRequest, HandlingRequest
  <2>2. errorReported' \in BOOLEAN
    BY <1>9, ErrorTyped DEF ParameterAccepted
  <2>3. toSink' \in [Session -> Seq(SourceMessage)]
    BY <1>9, ReplyTyped DEF ParameterAccepted
  <2>4. lifesign' \in BOOLEAN
    BY <1>9, Zenon DEF ParameterAccepted
  <2> QED BY <1>9, <2>1, <2>2, <2>3, <2>4, SMT DEF ParameterAccepted
<1> QED BY <1>1, <1>2, <1>3, <1>4, <1>5, <1>6, <1>7, <1>8, <1>9
        DEF RequestHandlers, RefusingHandlers

LEMMA TimersTyped == SourceTyped /\ (SendKeepAlive \/ Timers) => SourceTyped'
<1> SUFFICES ASSUME SourceTyped, (SendKeepAlive \/ Timers) PROVE SourceTyped'
  OBVIOUS
<1> USE DEF SourceTyped, NetTypeOK, SourceTypeOK, netVars, clientVars, requestVars, hdcpVars,
            timerVars, playbackVars, stopVars, INITIALIZED, STOPPED
<1>1. CASE SendKeepAlive
  <2>1. "M16" \in Tags
    BY DEF Tags
  <2>2. PICK sid \in keepAlives :
          \/ /\ sid # mClientSessionID
             /\ keepAlives' = keepAlives \ {sid}
             /\ UNCHANGED <<toSink, requestVars>>
          \/ /\ sid = mClientSessionID
             /\ Send(sid, "M16")
             /\ IF sid \in open THEN ScheduleKeepAlive(sid)
                                ELSE keepAlives' = keepAlives \ {sid}
    BY <1>1 DEF SendKeepAlive, KeepAlive
  <2>3. keepAlives' \subseteq Session
    <3>1. keepAlives' = keepAlives \ {sid} \/ keepAlives' = keepAlives \cup {sid}
      BY <2>2, Zenon DEF ScheduleKeepAlive
    <3> QED BY <3>1
  <2>4. /\ toSink' \in [Session -> Seq(SourceMessage)]
        /\ mResponseHandlers' \subseteq [sid: Session, cseq: Nat, func: Handlers]
        /\ mNextCSeq' \in Nat
    BY <2>1, <2>2, SendTyped
  <2> QED BY <1>1, <2>3, <2>4, SMT DEF SendKeepAlive, KeepAlive
<1>2. CASE ReapDeadClients
  <2>1. mReaperPending' \in BOOLEAN /\ errorReported' \in BOOLEAN
    BY <1>2, Zenon DEF ReapDeadClients, ScheduleReaper
  <2>2. open' \subseteq Session /\ mClientSessionID' \in Session \cup {NoSession}
    BY <1>2 DEF ReapDeadClients
  <2> QED BY <1>2, <2>1, <2>2, SMT DEF ReapDeadClients
<1>3. CASE TeardownTriggerTimedOut
  <2>1. CASE FinishStop /\ UNCHANGED finishStopRest
    BY <1>3, <2>1, FinishStopTyped DEF TeardownTriggerTimedOut, finishStopRest
  <2>2. CASE mState # AWAITING_CLIENT_TEARDOWN
    <3>1. /\ delayed' = delayed \ {"TeardownTriggerTimedOut"}
          /\ UNCHANGED <<netVars, mState, clientVars, requestVars, hdcpVars,
                         mReaperPending, keepAlives, playbackVars, stopVars, display,
                         errorReported, life>>
      BY <1>3, <2>2 DEF TeardownTriggerTimedOut
    <3> QED BY <3>1
  <2>3. mState = AWAITING_CLIENT_TEARDOWN => FinishStop /\ UNCHANGED finishStopRest
    BY <1>3 DEF TeardownTriggerTimedOut
  <2> QED BY <2>1, <2>2, <2>3
<1>4. CASE FinishStop2Delayed
  <2>1. mState' \in INITIALIZED .. STOPPED /\ stopReplies' \in Nat
    BY <1>4 DEF FinishStop2Delayed, FinishStop2
  <2>2. mHDCP' \in BOOLEAN /\ mSessionID' \in {0, 1}
    BY <1>4, Zenon DEF FinishStop2Delayed, FinishStop2
  <2> QED BY <1>4, <2>1, <2>2, SMT DEF FinishStop2Delayed
<1> QED BY <1>1, <1>2, <1>3, <1>4 DEF Timers

LEMMA PlaybackTyped == SourceTyped /\ (PlaybackHandlers \/ LifesignExpires) => SourceTyped'
<1> SUFFICES ASSUME SourceTyped, (PlaybackHandlers \/ LifesignExpires) PROVE SourceTyped'
  OBVIOUS
<1> USE DEF SourceTyped, NetTypeOK, SourceTypeOK, netVars, clientVars, requestVars, hdcpVars,
            timerVars, playbackVars, stopVars, INITIALIZED, STOPPED
<1>1. CASE SessionDead
  <2>1. errorReported' \in BOOLEAN
    BY <1>1, ErrorTyped DEF SessionDead
  <2> QED BY <1>1, <2>1, SMT DEF SessionDead
<1>2. CASE SessionEstablished
  <2>1. mPlaybackSessionEstablished' \in BOOLEAN /\ streaming' \in BOOLEAN
    BY <1>2, Zenon DEF SessionEstablished
  <2>2. mState' \in INITIALIZED .. STOPPED
    BY <1>2 DEF SessionEstablished, PLAYING
  <2> QED BY <1>2, <2>1, <2>2, SMT DEF SessionEstablished
<1>3. CASE SessionDestroyed
  <2> USE DEF SessionDestroyed
  <2>1. DisconnectClient2(mState) /\ mState \in INITIALIZED .. STOPPED
    BY <1>3, SMT
  <2>2. /\ mPlaybackSession' \in BOOLEAN /\ open' \subseteq Session
        /\ mClientSessionID' \in Session \cup {NoSession}
        /\ display' \in {"none", "connected", "disconnected"}
        /\ hdcpPending' \subseteq {"initialized", "failed", "shutdown"}
        /\ mHDCP' \in BOOLEAN /\ mSessionID' \in {0, 1}
        /\ stopReplies' \in Nat /\ mState' \in INITIALIZED .. STOPPED
    BY <2>1, DisconnectTyped, Zenon
  <2> QED BY <1>3, <2>2, SMT DEF finishStopRest
<1>4. CASE LifesignExpires
  <2>1. lifesign' \in BOOLEAN
    BY <1>4, Zenon DEF LifesignExpires
  <2> QED BY <1>4, <2>1, SMT DEF LifesignExpires
<1> QED BY <1>1, <1>2, <1>3, <1>4 DEF PlaybackHandlers

LEMMA HDCPTyped == SourceTyped /\ HDCPHandlers => SourceTyped'
<1> SUFFICES ASSUME SourceTyped, HDCPHandlers PROVE SourceTyped'
  OBVIOUS
<1> USE DEF SourceTyped, NetTypeOK, SourceTypeOK, netVars, clientVars, requestVars, hdcpVars,
            timerVars, playbackVars, stopVars, INITIALIZED, STOPPED
<1>1. CASE HDCPInitialized
  <2>1. "SETUP" \in Tags
    BY DEF Tags
  <2>2. mHDCPInitializationComplete' \in BOOLEAN /\ mSetupTriggerDeferred' \in BOOLEAN
    BY <1>1, Zenon DEF HDCPInitialized
  <2>3. /\ toSink' \in [Session -> Seq(SourceMessage)]
        /\ mResponseHandlers' \subseteq [sid: Session, cseq: Nat, func: Handlers]
        /\ mNextCSeq' \in Nat
    BY <1>1, <2>1, SendTyped DEF HDCPInitialized
  <2> QED BY <1>1, <2>2, <2>3, SMT DEF HDCPInitialized
<1>2. CASE HDCPShutdown
  BY <1>2 DEF HDCPShutdown
<1>3. CASE HDCPFailed
  <2>1. errorReported' \in BOOLEAN
    BY <1>3, ErrorTyped DEF HDCPFailed
  <2> QED BY <1>3, <2>1, SMT DEF HDCPFailed
<1> QED BY <1>1, <1>2, <1>3 DEF HDCPHandlers

\* Every step of the source keeps the types.
LEMMA SourceStepTyped == SourceTyped /\ SourceNext => SourceTyped'
BY ServiceCallsTyped, RefusalsTyped, TriggerCallsTyped, ConnectionsTyped, ResponsesTyped,
   RequestsTyped, TimersTyped, PlaybackTyped, HDCPTyped
   DEF SourceNext, NetworkHandlers, RefusingHandlers

LEMMA SourceTypedUnchanged == SourceTyped /\ UNCHANGED vars => SourceTyped'
BY DEF vars, sourceVars, netVars, clientVars, requestVars, hdcpVars, timerVars, playbackVars,
       stopVars, SourceTyped, NetTypeOK, SourceTypeOK

------------------------------------------------------------------------------
(* The stages of a session *)

\* the state the invariant Stages is about
stageVars == <<mState, mClientSessionID, mSessionID, mPlaybackSessionID, mPlaybackSession,
               mPlaybackSessionEstablished, hdcpPending, delayed, mStopReplyID,
               stopReplies, playback, display>>

LEMMA StagesUnchanged == Stages /\ UNCHANGED stageVars => Stages'
BY DEF Stages, PlayCheck, StopStages, SessionStages, DisplayStages, stageVars,
       Destroying, ShuttingDown, Finishing

LEMMA StagesInit == SourceInit => Stages
<1> SUFFICES ASSUME SourceInit PROVE Stages
  OBVIOUS
<1> USE DEF SourceInit, Destroying, ShuttingDown, Finishing, INITIALIZED, AWAITING_CLIENT_PLAY,
    AWAITING_CLIENT_SETUP, AWAITING_CLIENT_TEARDOWN, STOPPING, STOPPED, PLAYING, PAUSED_TO_PLAYING
<1>1. PlayCheck
  BY DEF PlayCheck
<1>2. StopStages
  BY DEF StopStages
<1>3. SessionStages
  BY DEF SessionStages
<1>4. DisplayStages
  BY DEF DisplayStages
<1> QED BY <1>1, <1>2, <1>3, <1>4 DEF Stages

LEMMA FinishStopStages ==
  ASSUME SourceTyped, Stages, FinishStop, mState < STOPPING, mStopReplyID' = 1,
         UNCHANGED <<mPlaybackSessionID, mPlaybackSessionEstablished>>,
         Finishing' = Finishing
  PROVE  Stages'
<1> USE DEF Destroying, ShuttingDown, Finishing, INITIALIZED, AWAITING_CLIENT_PLAY,
    AWAITING_CLIENT_SETUP, AWAITING_CLIENT_TEARDOWN, STOPPING, STOPPED, PLAYING,
    PAUSED_TO_PLAYING, Stages, SourceTyped, SourceTypeOK, PlayCheck, StopStages,
    SessionStages, DisplayStages
<1>1. CASE mPlaybackSession
  <2>1. /\ playback' = "destroying"
        /\ mState' = STOPPING
        /\ UNCHANGED <<mPlaybackSession, mClientSessionID, display, hdcpPending,
                       mSessionID, stopReplies>>
    BY <1>1 DEF FinishStop
  <2> QED BY <1>1, <2>1
<1>2. CASE ~mPlaybackSession
  <2>1. /\ mPlaybackSession' = FALSE
        /\ mClientSessionID' = NoSession
        /\ display' = "disconnected"
        /\ FinishStopAfterDisconnectingClient(STOPPING)
        /\ playback' = playback
    BY <1>2 DEF FinishStop, DisconnectClient2
  <2>2. CASE mHDCP
    <3>1. /\ hdcpPending' = hdcpPending \cup {"shutdown"}
          /\ mState' = STOPPING
          /\ UNCHANGED <<mSessionID, stopReplies>>
      BY <2>1, <2>2 DEF FinishStopAfterDisconnectingClient
    <3> QED BY <1>2, <2>1, <3>1
  <2>3. CASE ~mHDCP
    <3>1. /\ hdcpPending' = hdcpPending
          /\ mState' = STOPPED
          /\ mSessionID' = 0
          /\ stopReplies' = stopReplies + 1
      BY <2>1, <2>3 DEF FinishStopAfterDisconnectingClient, FinishStop2
    <3> QED BY <1>2, <2>1, <3>1
  <2> QED BY <2>2, <2>3
<1> QED BY <1>1, <1>2

\* The handlers that read the state and answer, and change none of it.
BystanderHandlers ==
  \/ RejectClient \/ ClientConnectedAbort \/ UnsolicitedResponse \/ StatusResponse
  \/ M4Abort \/ M4Response \/ M16Response \/ M16ResponseAbort \/ OptionsRequest
  \/ SetupRefused \/ SetupFailed \/ SetupAbort \/ PlayRefused \/ PauseRefused
  \/ PauseIgnored \/ TeardownRefused \/ TeardownUnasked \/ ParameterRefused
  \/ ParameterAccepted \/ OtherRequest \/ SendKeepAlive \/ SessionDead
  \/ LifesignExpires \/ Release

LEMMA BystandersStages == BystanderHandlers => UNCHANGED stageVars
<1> SUFFICES ASSUME BystanderHandlers PROVE UNCHANGED stageVars
  OBVIOUS
<1> USE DEF stageVars, clientVars, requestVars, hdcpVars, timerVars, playbackVars, stopVars,
    netVars, sourceVars
<1>1. CASE RejectClient
  BY <1>1 DEF RejectClient
<1>2. CASE ClientConnectedAbort
  BY <1>2 DEF ClientConnectedAbort, Abort
<1>3. CASE UnsolicitedResponse
  BY <1>3 DEF UnsolicitedResponse
<1>4. CASE StatusResponse
  BY <1>4 DEF StatusResponse
<1>5. CASE M4Abort
  BY <1>5 DEF M4Abort, Abort
<1>6. CASE M4Response
  BY <1>6 DEF M4Response
<1>7. CASE M16Response
  BY <1>7 DEF M16Response
<1>8. CASE M16ResponseAbort
  BY <1>8 DEF M16ResponseAbort, Abort
<1>9. CASE OptionsRequest
  BY <1>9 DEF OptionsRequest
<1>10. CASE SetupRefused
  BY <1>10 DEF SetupRefused, Refuse
<1>11. CASE SetupFailed
  BY <1>11 DEF SetupFailed, Refuse
<1>12. CASE SetupAbort
  BY <1>12 DEF SetupAbort, Abort
<1>13. CASE PlayRefused
  BY <1>13 DEF PlayRefused, Refuse
<1>14. CASE PauseRefused
  BY <1>14 DEF PauseRefused, Refuse
<1>15. CASE PauseIgnored
  BY <1>15 DEF PauseIgnored
<1>16. CASE TeardownRefused
  BY <1>16 DEF TeardownRefused, Refuse
<1>17. CASE TeardownUnasked
  BY <1>17 DEF TeardownUnasked, Refuse
<1>18. CASE ParameterRefused
  BY <1>18 DEF ParameterRefused, Refuse
<1>19. CASE ParameterAccepted
  BY <1>19 DEF ParameterAccepted
<1>20. CASE OtherRequest
  BY <1>20 DEF OtherRequest, Refuse
<1>21. CASE SendKeepAlive
  BY <1>21 DEF SendKeepAlive, KeepAlive
<1>22. CASE SessionDead
  BY <1>22 DEF SessionDead
<1>23. CASE LifesignExpires
  BY <1>23 DEF LifesignExpires
<1>24. CASE Release
  BY <1>24 DEF Release
<1> QED BY <1>1, <1>2, <1>3, <1>4, <1>5, <1>6, <1>7, <1>8, <1>9, <1>10, <1>11, <1>12,
           <1>13, <1>14, <1>15, <1>16, <1>17, <1>18, <1>19, <1>20, <1>21, <1>22, <1>23, <1>24
           DEF BystanderHandlers

LEMMA DestroyedStages ==
  ASSUME SourceTyped, Stages, SessionDestroyed
  PROVE  Stages'
<1> USE DEF stageVars, clientVars, requestVars, hdcpVars, timerVars, playbackVars, stopVars,
    netVars, sourceVars, Destroying, ShuttingDown, Finishing, INITIALIZED,
    AWAITING_CLIENT_CONNECTION, AWAITING_CLIENT_PLAY, AWAITING_CLIENT_SETUP, ABOUT_TO_PLAY,
    AWAITING_CLIENT_TEARDOWN, STOPPING, STOPPED, PLAYING, PLAYING_TO_PAUSED, PAUSED,
    PAUSED_TO_PLAYING, Stages, SourceTyped, SourceTypeOK, PlayCheck, StopStages, SessionStages,
    DisplayStages
<1>1. /\ playback' = "gone"
      /\ mPlaybackSession' = FALSE
      /\ mClientSessionID' = NoSession
      /\ display' = "disconnected"
      /\ FinishStopAfterDisconnectingClient(mState)
      /\ UNCHANGED <<mPlaybackSessionID, mPlaybackSessionEstablished, delayed, mStopReplyID>>
  BY DEF SessionDestroyed, DisconnectClient2, finishStopRest
<1>2. playback = "destroying"
  BY DEF SessionDestroyed
<1>3. CASE mHDCP
  <2>1. /\ hdcpPending' = hdcpPending \cup {"shutdown"}
        /\ UNCHANGED <<mState, mSessionID, stopReplies>>
    BY <1>1, <1>3 DEF FinishStopAfterDisconnectingClient
  <2> QED BY <1>1, <1>2, <2>1
<1>4. CASE ~mHDCP
  <2>1. /\ hdcpPending' = hdcpPending
        /\ mState' = STOPPED
        /\ mSessionID' = 0
        /\ stopReplies' = stopReplies + 1
    BY <1>1, <1>4 DEF FinishStopAfterDisconnectingClient, FinishStop2
  <2> QED BY <1>1, <1>2, <2>1
<1> QED BY <1>3, <1>4

\* The handlers that move a session through its stages.
LEMMA ActorsStages ==
  ASSUME SourceTyped, Stages,
         \/ Start \/ Stop \/ TriggerCalls \/ ClientConnected \/ SessionError \/ M3Response
         \/ SetupAccepted \/ PlayAccepted \/ PauseAccepted \/ TeardownRequest
         \/ Timers \/ SessionEstablished \/ SessionDestroyed \/ HDCPHandlers
  PROVE  Stages'
<1> USE DEF stageVars, clientVars, requestVars, hdcpVars, timerVars, playbackVars, stopVars,
    netVars, sourceVars, Destroying, ShuttingDown, Finishing, INITIALIZED,
    AWAITING_CLIENT_CONNECTION, AWAITING_CLIENT_PLAY, AWAITING_CLIENT_SETUP, ABOUT_TO_PLAY,
    AWAITING_CLIENT_TEARDOWN, STOPPING, STOPPED, PLAYING, PLAYING_TO_PAUSED, PAUSED,
    PAUSED_TO_PLAYING, Stages, SourceTyped, SourceTypeOK, PlayCheck, StopStages, SessionStages,
    DisplayStages
<1>1. CASE Start
  BY <1>1 DEF Start
<1>2. CASE Stop
  <2>1. CASE Send(mClientSessionID, "TEARDOWN") /\ mState' = AWAITING_CLIENT_TEARDOWN
             /\ mClientSessionID \in open
             /\ delayed' = delayed \cup {"TeardownTriggerTimedOut"}
             /\ UNCHANGED <<nextSession, open, inbox, clientVars, hdcpVars, mReaperPending,
                       keepAlives, playbackVars, mSessionID, stopReplies, display,
                       errorReported, life>>
    <3>1. /\ mState' = AWAITING_CLIENT_TEARDOWN
          /\ mState < AWAITING_CLIENT_TEARDOWN
          /\ mStopReplyID' = 1
          /\ Finishing' = Finishing
          /\ UNCHANGED <<clientVars, hdcpVars, playbackVars, mSessionID, stopReplies, display>>
      BY <1>2, <2>1 DEF Stop
    <3>2. mState >= AWAITING_CLIENT_PLAY
      BY <1>2, <2>1 DEF Stop, FinishStop, DisconnectClient2, FinishStopAfterDisconnectingClient, FinishStop2
    <3> QED BY <3>1, <3>2
  <2>2. CASE FinishStop /\ UNCHANGED <<finishStopRest, mResponseHandlers, inbox, toSink, delayed>>
    BY <1>2, <2>2, FinishStopStages DEF Stop, finishStopRest
  <2> QED BY <1>2, <2>1, <2>2 DEF Stop
<1>3. CASE TriggerCalls
  BY <1>3 DEF TriggerCalls, Pause, Resume
<1>4. CASE ClientConnected
  BY <1>4 DEF ClientConnected
<1>5. CASE SessionError
  BY <1>5 DEF SessionError
<1>6. CASE M3Response
  <2>1. "shutdown" \in hdcpPending' <=> "shutdown" \in hdcpPending
    BY <1>6 DEF M3Response, MakeHDCP
  <2> QED BY <1>6, <2>1 DEF M3Response
<1>7. CASE SetupAccepted
  <2>1. mClientSessionID # NoSession
    BY <1>7, ConsumeTyped DEF SetupAccepted, HandlingRequest, NoSession, Session
  <2>2. mState <= AWAITING_CLIENT_SETUP
    BY <1>7, <2>1 DEF SetupAccepted
  <2> QED BY <1>7, <2>1, <2>2 DEF SetupAccepted
<1>8. CASE PlayAccepted
  BY <1>8 DEF PlayAccepted, PlayableStates
<1>9. CASE PauseAccepted
  BY <1>9 DEF PauseAccepted, PausableStates
<1>10. CASE TeardownRequest
  BY <1>10, FinishStopStages DEF TeardownRequest, finishStopRest
<1>11. CASE ReapDeadClients
  BY <1>11 DEF ReapDeadClients
<1>12. CASE TeardownTriggerTimedOut
  <2>1. CASE mState = AWAITING_CLIENT_TEARDOWN
    <3>1. /\ FinishStop
          /\ UNCHANGED <<mPlaybackSessionID, mPlaybackSessionEstablished, mStopReplyID>>
          /\ delayed' = delayed \ {"TeardownTriggerTimedOut"}
      BY <1>12, <2>1 DEF TeardownTriggerTimedOut, finishStopRest
    <3> QED BY <2>1, <3>1, FinishStopStages
  <2>2. CASE mState # AWAITING_CLIENT_TEARDOWN
    <3>1. /\ delayed' = delayed \ {"TeardownTriggerTimedOut"}
          /\ UNCHANGED <<mState, clientVars, hdcpVars, playbackVars, stopVars, display>>
      BY <1>12, <2>2 DEF TeardownTriggerTimedOut
    <3> QED BY <3>1
  <2> QED BY <2>1, <2>2
<1>13. CASE FinishStop2Delayed
  BY <1>13 DEF FinishStop2Delayed, FinishStop2
<1>14. CASE SessionEstablished
  BY <1>14 DEF SessionEstablished
<1>15. CASE SessionDestroyed
  BY <1>15, DestroyedStages
<1>16. CASE HDCPInitialized
  BY <1>16 DEF HDCPInitialized
<1>17. CASE HDCPShutdown
  BY <1>17 DEF HDCPShutdown
<1>18. CASE HDCPFailed
  BY <1>18 DEF HDCPFailed
<1> QED BY <1>1, <1>2, <1>3, <1>4, <1>5, <1>6, <1>7, <1>8, <1>9, <1>10,
           <1>11, <1>12, <1>13, <1>14, <1>15, <1>16, <1>17, <1>18
           DEF Timers, HDCPHandlers

\* The others move it from one to the next.
ActingHandlers ==
  \/ Start \/ Stop \/ TriggerCalls \/ ClientConnected \/ SessionError \/ M3Response
  \/ SetupAccepted \/ PlayAccepted \/ PauseAccepted \/ TeardownRequest
  \/ ReapDeadClients \/ TeardownTriggerTimedOut \/ FinishStop2Delayed
  \/ SessionEstablished \/ SessionDestroyed \/ HDCPHandlers

LEMMA SourceCases == SourceNext => BystanderHandlers \/ ActingHandlers
BY DEF SourceNext, ServiceCalls, NetworkHandlers, ConnectionHandlers, ResponseHandlers,
       RequestHandlers, Timers, PlaybackHandlers, BystanderHandlers, ActingHandlers

LEMMA SourceStagesStep == SourceTyped /\ Stages /\ SourceNext => Stages'
BY SourceCases, BystandersStages, StagesUnchanged, ActorsStages DEF ActingHandlers, Timers

\* Whatever finishStop finds, the source ends up stopping or stopped.
LEMMA FinishStopState == ASSUME FinishStop PROVE mState' \in {STOPPING, STOPPED}
BY DEF FinishStop, DisconnectClient2, FinishStopAfterDisconnectingClient, FinishStop2

LEMMA StopKept ==
  ASSUME SourceTyped, Stages, SourceNext
  PROVE  mState >= AWAITING_CLIENT_TEARDOWN => mState' >= mState
<1> SUFFICES ASSUME mState >= AWAITING_CLIENT_TEARDOWN PROVE mState' >= mState
  OBVIOUS
<1> USE DEF stageVars, clientVars, requestVars, hdcpVars, timerVars, playbackVars, stopVars,
    netVars, sourceVars, Destroying, ShuttingDown, Finishing, INITIALIZED,
    AWAITING_CLIENT_CONNECTION, AWAITING_CLIENT_PLAY, AWAITING_CLIENT_SETUP, ABOUT_TO_PLAY,
    AWAITING_CLIENT_TEARDOWN, STOPPING, STOPPED, PLAYING, PLAYING_TO_PAUSED, PAUSED,
    PAUSED_TO_PLAYING, Stages, SourceTyped, SourceTypeOK, PlayCheck, StopStages, SessionStages,
    DisplayStages
<1>1. CASE UNCHANGED mState
  BY <1>1
<1>2. CASE TeardownRequest
  BY <1>2, FinishStopState DEF TeardownRequest
<1>3. CASE TeardownTriggerTimedOut
  <2>1. mState = AWAITING_CLIENT_TEARDOWN => FinishStop
    BY <1>3 DEF TeardownTriggerTimedOut
  <2>2. mState # AWAITING_CLIENT_TEARDOWN => UNCHANGED mState
    BY <1>3 DEF TeardownTriggerTimedOut
  <2> QED BY <2>1, <2>2, FinishStopState
<1>4. CASE FinishStop2Delayed
  BY <1>4 DEF FinishStop2Delayed, FinishStop2
<1>5. CASE SessionDestroyed
  BY <1>5 DEF SessionDestroyed, DisconnectClient2, FinishStopAfterDisconnectingClient, FinishStop2
<1>6. ~SetupAccepted
  BY ConsumeTyped DEF SetupAccepted, HandlingRequest, NoSession, Session
<1>7. ~Start /\ ~Stop /\ ~ClientConnected
  BY DEF Start, Stop, ClientConnected
<1>8. ~TriggerCalls
  BY DEF TriggerCalls, Pause, Resume
<1>9. ~PlayAccepted /\ ~PauseAccepted
  BY DEF PlayAccepted, PlayableStates, PauseAccepted, PausableStates
<1>10. CASE SessionEstablished
  BY <1>10 DEF SessionEstablished
<1>11. CASE SessionError \/ M3Response \/ ReapDeadClients \/ HDCPHandlers
  <2>1. SessionError \/ M3Response => UNCHANGED mState
    BY DEF SessionError, M3Response
  <2>2. ReapDeadClients => UNCHANGED mState
    BY DEF ReapDeadClients
  <2>3. HDCPHandlers => UNCHANGED mState
    BY DEF HDCPHandlers, HDCPInitialized, HDCPShutdown, HDCPFailed
  <2> QED BY <1>1, <1>11, <2>1, <2>2, <2>3
<1>12. CASE BystanderHandlers
  BY <1>12, <1>1, BystandersStages
<1>13. CASE ActingHandlers
  BY <1>2, <1>3, <1>4, <1>5, <1>6, <1>7, <1>8, <1>9, <1>10, <1>11, <1>13 DEF ActingHandlers
<1> QED BY <1>12, <1>13, SourceCases

\* Only two handlers touch the deferral and the end of the HDCP handshake.
LEMMA TriggerStep ==
  ASSUME DeferralWaits, ClientIsOpen, SourceNext
  PROVE  DeferralWaits' /\ DeferralEnds
<1> DEFINE Untouched == UNCHANGED mSetupTriggerDeferred /\ UNCHANGED mHDCPInitializationComplete
<1> USE DEF hdcpVars, finishStopRest
<1>1. CASE M4Response
  <2>1. /\ UNCHANGED mHDCPInitializationComplete
        /\ \/ UNCHANGED mSetupTriggerDeferred
           \/ mSetupTriggerDeferred' /\ ~mHDCPInitializationComplete
    BY <1>1 DEF M4Response
  <2> QED BY <2>1 DEF DeferralWaits, DeferralEnds
<1>2. CASE HDCPInitialized
  <2>1. DeferralWaits'
    BY <1>2 DEF HDCPInitialized, DeferralWaits
  <2>2. ASSUME mSetupTriggerDeferred, mClientSessionID # NoSession
        PROVE  toSink' = [toSink EXCEPT ![mClientSessionID] =
                            @ \o <<Request("SETUP", mNextCSeq)>>]
    BY <1>2, <2>2 DEF HDCPInitialized, Send, SendAfter, Deliver, ClientIsOpen
  <2> QED BY <2>1, <2>2 DEF DeferralEnds
<1>3. ASSUME M3Response PROVE Untouched
  BY <1>3 DEF M3Response
<1>4. ASSUME Start \/ Stop \/ TriggerCalls \/ Release PROVE Untouched
  BY <1>4 DEF Start, Stop, FinishStop, TriggerCalls, Pause, Resume, Release
<1>5. ASSUME ConnectionHandlers PROVE Untouched
  BY <1>5 DEF ConnectionHandlers, RejectClient, sourceVars, ClientConnectedAbort, Abort,
              ClientConnected, SessionError
<1>6. ASSUME ResponseHandlers /\ ~M3Response /\ ~M4Response PROVE Untouched
  BY <1>6 DEF ResponseHandlers, UnsolicitedResponse, StatusResponse, M4Abort, Abort,
              M16Response, M16ResponseAbort
<1>7. ASSUME RequestHandlers PROVE Untouched
  <2>1. ASSUME NEW code, Refuse(code) PROVE UNCHANGED hdcpVars
    BY <2>1 DEF Refuse
  <2>2. CASE RefusingHandlers
    BY <2>1, <2>2, Refusals
  <2>3. CASE OptionsRequest \/ SetupAbort \/ PauseIgnored \/ ParameterAccepted
    BY <2>3 DEF OptionsRequest, SetupAbort, Abort, PauseIgnored, ParameterAccepted
  <2>4. CASE SetupAccepted \/ PlayAccepted \/ PauseAccepted
    BY <2>4 DEF SetupAccepted, PlayAccepted, PauseAccepted
  <2>5. CASE TeardownRequest
    BY <2>5 DEF TeardownRequest
  <2> QED BY <1>7, <2>2, <2>3, <2>4, <2>5 DEF RequestHandlers, RefusingHandlers
<1>8. ASSUME SendKeepAlive \/ Timers PROVE Untouched
  BY <1>8 DEF SendKeepAlive, KeepAlive, Timers, ReapDeadClients, TeardownTriggerTimedOut,
              FinishStop2Delayed
<1>9. ASSUME SetupFailed \/ PlaybackHandlers \/ LifesignExpires PROVE Untouched
  BY <1>9 DEF SetupFailed, Refuse, PlaybackHandlers, SessionDead, SessionEstablished,
              SessionDestroyed, LifesignExpires
<1>10. ASSUME HDCPShutdown \/ HDCPFailed PROVE Untouched
  BY <1>10 DEF HDCPShutdown, HDCPFailed
<1>11. ASSUME Untouched PROVE DeferralWaits' /\ DeferralEnds
  BY <1>11 DEF DeferralWaits, DeferralEnds
<1> HIDE DEF Untouched
<1> QED BY <1>1, <1>2, <1>3, <1>4, <1>5, <1>6, <1>7, <1>8, <1>9, <1>10, <1>11
        DEF SourceNext, ServiceCalls, NetworkHandlers, HDCPHandlers

------------------------------------------------------------------------------
(* Connections *)

LEMMA ConsumeShifts ==
  ASSUME inbox \in Seq(Notification), inbox # << >>, Consume
  PROVE  /\ Len(inbox) \in Nat /\ 1 \in 1 .. Len(inbox)
         /\ Head(inbox) = inbox[1]
         /\ Len(inbox') = Len(inbox) - 1
         /\ \A i \in 1 .. Len(inbox') : i + 1 \in 1 .. Len(inbox) /\ inbox'[i] = inbox[i + 1]
<1>1. Len(inbox) \in Nat /\ Len(inbox) # 0
  BY EmptySeq, LenProperties
<1>2. Len(inbox') = Len(inbox) - 1 /\ \A i \in 1 .. Len(inbox') : inbox'[i] = inbox[i + 1]
  BY HeadTailProperties DEF Consume
<1> QED BY <1>1, <1>2

LEMMA Announced ==
  ASSUME NEW s
  PROVE  /\ s \in AnnouncedConnections <=>
              \E i \in 1 .. Len(inbox) : inbox[i].what = "connected" /\ inbox[i].sid = s
         /\ s \in AnnouncedConnections' <=>
              \E i \in 1 .. Len(inbox') : inbox'[i].what = "connected" /\ inbox'[i].sid = s
BY DEF AnnouncedConnections

\* One notification is handled, and with it sessions are closed: at most those
\* of the client and of the notification.
LEMMA ConnectionsAfter ==
  ASSUME SourceTyped, Connections, inbox # << >>, Consume, UNCHANGED nextSession,
         open' \subseteq open,
         open \ open' \subseteq {mClientSessionID, Head(inbox).sid},
         mClientSessionID' \in open' \cup {NoSession},
         mClientSessionID \in open' => mClientSessionID' = mClientSessionID,
         mClientSessionID' \in {NoSession, mClientSessionID, Head(inbox).sid},
         Head(inbox).what = "connected" /\ Head(inbox).sid \in open' =>
           mClientSessionID' = Head(inbox).sid
  PROVE  Connections'
<1> DEFINE n == Len(inbox)
<1>1. /\ n \in Nat /\ 1 \in 1 .. n
      /\ Head(inbox) = inbox[1]
      /\ Len(inbox') = n - 1
      /\ \A i \in 1 .. Len(inbox') : i + 1 \in 1 .. n /\ inbox'[i] = inbox[i + 1]
  BY ConsumeShifts DEF SourceTyped, NetTypeOK
<1>2. nextSession \in Nat \ {0} /\ open \subseteq Nat \ {0}
  BY MaxSessionsAssumption DEF SourceTyped, NetTypeOK, Session
<1>3. ClientIsOpen'
  BY DEF ClientIsOpen
<1>4. IdsInOrder'
  <2>1. \A s \in open' \cup {mClientSessionID'} : s < nextSession
    BY <1>2 DEF Connections, IdsInOrder, NoSession
  <2>2. \A i \in 1 .. Len(inbox') : inbox'[i].sid < nextSession
    BY <1>1 DEF Connections, IdsInOrder
  <2> QED BY <2>1, <2>2 DEF IdsInOrder
<1>5. AnnouncedFirst'
  <2> SUFFICES ASSUME NEW i \in 1 .. Len(inbox'), inbox'[i].what = "connected"
               PROVE  /\ inbox'[i].sid \in open' \ {mClientSessionID'}
                      /\ \A j \in 1 .. (i - 1) : inbox'[j].sid # inbox'[i].sid
    BY DEF AnnouncedFirst
  <2>1. i + 1 \in 1 .. n /\ inbox'[i] = inbox[i + 1]
    BY <1>1
  <2>2. /\ inbox[i + 1].sid \in open \ {mClientSessionID}
        /\ \A j \in 1 .. i : inbox[j].sid # inbox[i + 1].sid
    BY <1>1, <2>1 DEF Connections, AnnouncedFirst
  <2>3. inbox[i + 1].sid # Head(inbox).sid
    BY <1>1, <2>2
  <2>4. inbox[i + 1].sid \in open' \ {mClientSessionID'}
    BY <1>2, <2>2, <2>3 DEF NoSession
  <2>5. ASSUME NEW j \in 1 .. (i - 1) PROVE inbox'[j].sid # inbox'[i].sid
    <3>1. inbox'[j] = inbox[j + 1] /\ j + 1 \in 1 .. i
      BY <1>1
    <3> QED BY <2>1, <2>2, <3>1
  <2> QED BY <2>1, <2>4, <2>5
<1>6. NoLeakedConnection'
  <2> SUFFICES ASSUME NEW s \in open', s # mClientSessionID'
               PROVE  s \in AnnouncedConnections'
    BY DEF NoLeakedConnection
  <2>1. s \in AnnouncedConnections
    BY DEF Connections, NoLeakedConnection
  <2>2. PICK i \in 1 .. n : inbox[i].what = "connected" /\ inbox[i].sid = s
    BY <2>1, Announced
  <2>3. i # 1
    BY <1>1, <2>2
  <2>4. i - 1 \in 1 .. Len(inbox') /\ inbox'[i - 1] = inbox[i]
    BY <1>1, <2>3
  <2> QED BY <2>2, <2>4, Announced
<1> QED BY <1>3, <1>4, <1>5, <1>6 DEF Connections

\* No notification is handled, and the client may be disconnected.
LEMMA ConnectionsBeside ==
  ASSUME SourceTyped, Connections, UNCHANGED <<inbox, nextSession>>,
         \/ UNCHANGED <<open, mClientSessionID>>
         \/ open' = open \ {mClientSessionID} /\ mClientSessionID' = NoSession
  PROVE  Connections'
<1>1. nextSession \in Nat \ {0} /\ open \subseteq Nat \ {0}
  BY MaxSessionsAssumption DEF SourceTyped, NetTypeOK, Session
<1>2. ClientIsOpen'
  BY DEF Connections, ClientIsOpen
<1>3. IdsInOrder'
  <2>1. ASSUME NEW s \in open' \cup {mClientSessionID'} PROVE s < nextSession'
    <3>1. CASE s \in open \cup {mClientSessionID}
      BY <3>1 DEF Connections, IdsInOrder
    <3>2. CASE s = NoSession
      BY <1>1, <3>2 DEF NoSession
    <3> QED BY <3>1, <3>2
  <2>2. \A i \in 1 .. Len(inbox') : inbox'[i].sid < nextSession'
    BY DEF Connections, IdsInOrder
  <2> QED BY <2>1, <2>2 DEF IdsInOrder
<1>4. AnnouncedFirst'
  BY <1>1 DEF Connections, AnnouncedFirst, NoSession
<1>5. NoLeakedConnection'
  BY DEF Connections, NoLeakedConnection, AnnouncedConnections
<1> QED BY <1>2, <1>3, <1>4, <1>5 DEF Connections

\* The queue grows at its end, by messages of open sessions or by their ends.
LEMMA ConnectionsGrow ==
  ASSUME SourceTyped, Connections, UNCHANGED <<nextSession, open, mClientSessionID>>,
         NEW k \in Nat, Len(inbox') = Len(inbox) + k,
         \A i \in 1 .. Len(inbox) : inbox'[i] = inbox[i],
         \A i \in Len(inbox) + 1 .. Len(inbox) + k :
           inbox'[i].what # "connected" /\ inbox'[i].sid \in open
  PROVE  Connections'
<1> DEFINE n == Len(inbox)
<1>1. n \in Nat /\ \A i \in 1 .. Len(inbox') : i \in 1 .. n \/ i \in n + 1 .. n + k
  BY LenProperties DEF SourceTyped, NetTypeOK
<1>2. ClientIsOpen'
  BY DEF Connections, ClientIsOpen
<1>3. IdsInOrder'
  BY <1>1 DEF Connections, IdsInOrder
<1>4. AnnouncedFirst'
  BY <1>1 DEF Connections, AnnouncedFirst
<1>5. NoLeakedConnection'
  <2> SUFFICES ASSUME NEW s \in AnnouncedConnections PROVE s \in AnnouncedConnections'
    BY DEF Connections, NoLeakedConnection
  <2>1. PICK i \in 1 .. n : inbox[i].what = "connected" /\ inbox[i].sid = s
    BY Announced
  <2> QED BY <1>1, <2>1, Announced
<1> QED BY <1>2, <1>3, <1>4, <1>5 DEF Connections

\* A message of a session, or the end of one, is posted behind the others.
LEMMA ConnectionsPosted ==
  ASSUME SourceTyped, Connections, UNCHANGED <<nextSession, open, mClientSessionID>>,
         NEW e \in Notification, e.what # "connected", e.sid \in open, inbox' = Append(inbox, e)
  PROVE  Connections'
<1>1. /\ Len(inbox) \in Nat /\ Len(inbox') = Len(inbox) + 1
      /\ inbox'[Len(inbox) + 1] = e
      /\ \A i \in 1 .. Len(inbox) : inbox'[i] = inbox[i]
  BY AppendProperties, LenProperties DEF SourceTyped, NetTypeOK
<1>2. \A i \in Len(inbox) + 1 .. Len(inbox) + 1 :
        inbox'[i].what # "connected" /\ inbox'[i].sid \in open
  BY <1>1
<1> QED BY <1>1, <1>2, ConnectionsGrow

\* A connection is accepted.
LEMMA ConnectionsAccepted ==
  ASSUME SourceTyped, Connections, NEW local \in BOOLEAN, Accept(local),
         UNCHANGED mClientSessionID
  PROVE  Connections'
<1> DEFINE n == Len(inbox)
           e == [what |-> "connected", sid |-> nextSession, local |-> local]
<1>1. e \in Notification /\ inbox' = Append(inbox, e)
  BY DEF Accept, Notification
<1>2. /\ n \in Nat /\ Len(inbox') = n + 1 /\ inbox'[n + 1] = e
      /\ \A i \in 1 .. n : inbox'[i] = inbox[i]
  BY <1>1, AppendProperties, LenProperties DEF SourceTyped, NetTypeOK
<1>3. /\ nextSession \in Nat \ {0} /\ nextSession' = nextSession + 1
      /\ open' = open \cup {nextSession} /\ open \subseteq Nat
  BY MaxSessionsAssumption DEF Accept, SourceTyped, NetTypeOK, Session
<1>4. ClientIsOpen'
  BY <1>3 DEF Connections, ClientIsOpen
<1>5. mClientSessionID \in Nat /\ \A i \in 1 .. n : inbox[i].sid \in Nat
  <2>1. ASSUME NEW i \in 1 .. n PROVE inbox[i].sid \in Nat
    <3>1. inbox[i] \in Notification
      BY ElementOfSeq DEF SourceTyped, NetTypeOK
    <3> QED BY <3>1, MaxSessionsAssumption DEF Notification, Session
  <2> QED BY <2>1, MaxSessionsAssumption DEF SourceTyped, SourceTypeOK, Session, NoSession
<1>6. IdsInOrder'
  <2>1. \A s \in open' \cup {mClientSessionID'} : s < nextSession'
    BY <1>3, <1>5 DEF Connections, IdsInOrder
  <2>2. ASSUME NEW i \in 1 .. Len(inbox') PROVE inbox'[i].sid < nextSession'
    <3>1. CASE i = n + 1
      BY <1>2, <1>3, <3>1
    <3>2. CASE i \in 1 .. n
      BY <1>2, <1>3, <1>5, <3>2 DEF Connections, IdsInOrder
    <3> QED BY <1>2, <3>1, <3>2
  <2> QED BY <2>1, <2>2 DEF IdsInOrder
<1>7. AnnouncedFirst'
  <2> SUFFICES ASSUME NEW i \in 1 .. Len(inbox'), inbox'[i].what = "connected"
               PROVE  /\ inbox'[i].sid \in open' \ {mClientSessionID'}
                      /\ \A j \in 1 .. (i - 1) : inbox'[j].sid # inbox'[i].sid
    BY DEF AnnouncedFirst
  <2>1. CASE i = n + 1
    <3>1. inbox'[i].sid = nextSession
      BY <1>2, <2>1
    <3>2. mClientSessionID < nextSession /\ \A j \in 1 .. n : inbox'[j].sid < nextSession
      BY <1>2 DEF Connections, IdsInOrder
    <3> QED BY <1>2, <1>3, <1>5, <2>1, <3>1, <3>2
  <2>2. CASE i \in 1 .. n
    BY <1>2, <1>3, <2>2 DEF Connections, AnnouncedFirst
  <2> QED BY <1>2, <2>1, <2>2
<1>8. NoLeakedConnection'
  <2> SUFFICES ASSUME NEW s \in open', s # mClientSessionID'
               PROVE  s \in AnnouncedConnections'
    BY DEF NoLeakedConnection
  <2>1. CASE s = nextSession
    BY <1>2, <2>1, Announced
  <2>2. CASE s \in open
    <3>1. PICK i \in 1 .. n : inbox[i].what = "connected" /\ inbox[i].sid = s
      BY <2>2, Announced DEF Connections, NoLeakedConnection
    <3> QED BY <1>2, <3>1, Announced
  <2> QED BY <1>3, <2>1, <2>2
<1> QED BY <1>4, <1>6, <1>7, <1>8 DEF Connections

\* What most handlers do to the queue, and to the connections.
HandlesDataIfAny == UNCHANGED inbox \/ (Handling("data") /\ Consume)

KeepsConnections == UNCHANGED <<nextSession, open, mClientSessionID>> /\ HandlesDataIfAny

DropsClient ==
  /\ UNCHANGED nextSession
  /\ open' = open \ {mClientSessionID}
  /\ mClientSessionID' = NoSession
  /\ HandlesDataIfAny

LEMMA BystandersKeep == BystanderHandlers /\ ~RejectClient => KeepsConnections
<1> SUFFICES ASSUME BystanderHandlers, ~RejectClient PROVE KeepsConnections
  OBVIOUS
<1> USE DEF KeepsConnections, HandlesDataIfAny, clientVars, netVars
<1>1. CASE ClientConnectedAbort \/ M4Abort \/ M16ResponseAbort \/ SetupAbort
  BY <1>1 DEF ClientConnectedAbort, M4Abort, M16ResponseAbort, SetupAbort, Abort
<1>2. CASE UnsolicitedResponse \/ StatusResponse
  BY <1>2 DEF UnsolicitedResponse, StatusResponse, HandlingResponse
<1>3. CASE M4Response
  BY <1>3 DEF M4Response, HandlingResponse
<1>4. CASE M16Response
  BY <1>4 DEF M16Response, HandlingResponse
<1>5. CASE OptionsRequest \/ PauseIgnored
  BY <1>5 DEF OptionsRequest, PauseIgnored, HandlingRequest
<1>6. CASE ParameterAccepted
  BY <1>6 DEF ParameterAccepted, HandlingParameterRequest, HandlingRequest
<1>7. CASE RefusingHandlers
  BY <1>7, Refusals DEF Refuse
<1>8. CASE SendKeepAlive
  BY <1>8 DEF SendKeepAlive, KeepAlive
<1>9. CASE SessionDead \/ LifesignExpires \/ Release
  BY <1>9 DEF SessionDead, LifesignExpires, Release
<1> QED BY <1>1, <1>2, <1>3, <1>4, <1>5, <1>6, <1>7, <1>8, <1>9
        DEF BystanderHandlers, RefusingHandlers

LEMMA FinishStopDrops ==
  ASSUME FinishStop
  PROVE  \/ UNCHANGED <<open, mClientSessionID>>
         \/ open' = open \ {mClientSessionID} /\ mClientSessionID' = NoSession
BY DEF FinishStop, DisconnectClient2

LEMMA ActorsKeepOrDrop ==
  ActingHandlers /\ ~ClientConnected /\ ~SessionError => KeepsConnections \/ DropsClient
<1> SUFFICES ASSUME ActingHandlers, ~ClientConnected, ~SessionError
             PROVE  KeepsConnections \/ DropsClient
  OBVIOUS
<1> USE DEF KeepsConnections, DropsClient, HandlesDataIfAny, clientVars, netVars
<1>1. CASE Start \/ TriggerCalls
  BY <1>1 DEF Start, TriggerCalls, Pause, Resume
<1>2. CASE Stop
  BY <1>2, FinishStopDrops DEF Stop, finishStopRest
<1>3. CASE M3Response
  BY <1>3 DEF M3Response, HandlingResponse
<1>4. CASE SetupAccepted
  BY <1>4 DEF SetupAccepted, HandlingRequest
<1>5. CASE PlayAccepted \/ PauseAccepted
  BY <1>5 DEF PlayAccepted, PauseAccepted, HandlingRequest
<1>6. CASE TeardownRequest
  BY <1>6, FinishStopDrops DEF TeardownRequest, HandlingRequest, finishStopRest
<1>7. CASE ReapDeadClients
  BY <1>7 DEF ReapDeadClients
<1>8. CASE TeardownTriggerTimedOut
  BY <1>8, FinishStopDrops DEF TeardownTriggerTimedOut, finishStopRest
<1>9. CASE FinishStop2Delayed \/ SessionEstablished
  BY <1>9 DEF FinishStop2Delayed, SessionEstablished
<1>10. CASE SessionDestroyed
  BY <1>10 DEF SessionDestroyed, DisconnectClient2, finishStopRest
<1>11. CASE HDCPHandlers
  BY <1>11 DEF HDCPHandlers, HDCPInitialized, HDCPShutdown, HDCPFailed
<1> QED BY <1>1, <1>2, <1>3, <1>4, <1>5, <1>6, <1>7, <1>8, <1>9, <1>10, <1>11
        DEF ActingHandlers

\* Every step of the source keeps what is known of the connections.
LEMMA SourceConnectionsStep == SourceTyped /\ Connections /\ SourceNext => Connections'
<1> SUFFICES ASSUME SourceTyped, Connections, SourceNext PROVE Connections'
  OBVIOUS
<1>1. ClientIsOpen /\ AnnouncedFirst /\ NoSession \notin open
  BY DEF Connections, SourceTyped, NetTypeOK, Session, NoSession
<1>2. CASE KeepsConnections \/ DropsClient
  <2>1. CASE UNCHANGED inbox
    BY <1>2, <2>1, ConnectionsBeside DEF KeepsConnections, DropsClient
  <2>2. CASE Handling("data") /\ Consume
    <3>1. inbox # << >> /\ Head(inbox).what = "data"
      BY <2>2 DEF Handling
    <3> QED BY <1>1, <1>2, <2>2, <3>1, ConnectionsAfter
            DEF KeepsConnections, DropsClient, ClientIsOpen
  <2> QED BY <1>2, <2>1, <2>2 DEF KeepsConnections, DropsClient, HandlesDataIfAny
<1>3. CASE RejectClient \/ ClientConnected
  <2>1. /\ inbox # << >> /\ Consume /\ Head(inbox).what = "connected"
        /\ UNCHANGED nextSession
    BY <1>3 DEF RejectClient, ClientConnected, Handling
  <2>2. Head(inbox).sid \in open \ {mClientSessionID}
    BY <1>1, <2>1, ConsumeShifts DEF AnnouncedFirst, SourceTyped, NetTypeOK
  <2>3. CASE RejectClient
    <3>1. open' = open \ {Head(inbox).sid} /\ UNCHANGED mClientSessionID
      BY <2>3 DEF RejectClient, sourceVars, clientVars
    <3> QED BY <1>1, <2>1, <2>2, <3>1, ConnectionsAfter DEF ClientIsOpen
  <2>4. CASE ClientConnected
    <3>1. /\ UNCHANGED open
          /\ mClientSessionID = NoSession /\ mClientSessionID' = Head(inbox).sid
      BY <2>4 DEF ClientConnected
    <3> QED BY <1>1, <2>1, <2>2, <3>1, ConnectionsAfter
  <2> QED BY <1>3, <2>3, <2>4
<1>4. CASE SessionError
  <2>1. /\ inbox # << >> /\ Consume /\ Head(inbox).what = "error"
        /\ UNCHANGED nextSession
        /\ open' = open \ {Head(inbox).sid}
        /\ Head(inbox).sid = mClientSessionID => mClientSessionID' = NoSession
        /\ Head(inbox).sid # mClientSessionID => UNCHANGED mClientSessionID
    BY <1>4 DEF SessionError, Handling
  <2> QED BY <1>1, <2>1, ConnectionsAfter DEF ClientIsOpen
<1> QED BY <1>2, <1>3, <1>4, SourceCases, BystandersKeep, ActorsKeepOrDrop

LEMMA ConnectionsUnchanged == Connections /\ UNCHANGED <<netVars, mClientSessionID>> => Connections'
BY DEF Connections, ClientIsOpen, IdsInOrder, AnnouncedFirst, NoLeakedConnection,
       AnnouncedConnections, netVars

LEMMA ConnectionsInit == NetInit /\ SourceInit => Connections
BY DEF NetInit, SourceInit, Connections, ClientIsOpen, IdsInOrder, AnnouncedFirst,
       NoLeakedConnection, NoSession

------------------------------------------------------------------------------
(* The watchdog and the media *)

\* what the invariant WatchdogArmed is about
armedVars == <<mClientSessionID, mPlaybackSession, mReaperPending, keepAlives>>

LEMMA WatchdogUnchanged ==
  WatchdogArmed /\ (UNCHANGED armedVars \/ mClientSessionID' = NoSession) => WatchdogArmed'
BY DEF WatchdogArmed, armedVars

LEMMA BystandersArmed == BystanderHandlers /\ ~SendKeepAlive => UNCHANGED armedVars
<1> SUFFICES ASSUME BystanderHandlers, ~SendKeepAlive PROVE UNCHANGED armedVars
  OBVIOUS
<1> USE DEF armedVars, clientVars, timerVars, sourceVars
<1>1. CASE ClientConnectedAbort \/ M4Abort \/ M16ResponseAbort \/ SetupAbort
  BY <1>1 DEF ClientConnectedAbort, M4Abort, M16ResponseAbort, SetupAbort, Abort
<1>2. CASE UnsolicitedResponse \/ StatusResponse \/ M4Response \/ M16Response
  BY <1>2 DEF UnsolicitedResponse, StatusResponse, M4Response, M16Response
<1>3. CASE OptionsRequest \/ PauseIgnored \/ ParameterAccepted
  BY <1>3 DEF OptionsRequest, PauseIgnored, ParameterAccepted
<1>4. CASE RefusingHandlers
  BY <1>4, Refusals DEF Refuse
<1>5. CASE SessionDead \/ LifesignExpires \/ Release \/ RejectClient
  BY <1>5 DEF SessionDead, LifesignExpires, Release, RejectClient
<1> QED BY <1>1, <1>2, <1>3, <1>4, <1>5 DEF BystanderHandlers, RefusingHandlers

\* finishStop disconnects the client, or leaves it and its session.
LEMMA FinishStopClient ==
  ASSUME FinishStop
  PROVE  UNCHANGED <<mClientSessionID, mPlaybackSession>> \/ mClientSessionID' = NoSession
BY DEF FinishStop, DisconnectClient2

\* The handlers that leave the watchdog alone, or the client without a connection.
LEMMA ActorsArmed ==
  ActingHandlers /\ ~ClientConnected /\ ~SetupAccepted /\ ~ReapDeadClients =>
    UNCHANGED armedVars \/ mClientSessionID' = NoSession
<1> SUFFICES ASSUME ActingHandlers, ~ClientConnected, ~SetupAccepted, ~ReapDeadClients
             PROVE  UNCHANGED armedVars \/ mClientSessionID' = NoSession
  OBVIOUS
<1> USE DEF armedVars, clientVars, timerVars
<1>1. CASE Start \/ TriggerCalls
  BY <1>1 DEF Start, TriggerCalls, Pause, Resume
<1>2. CASE Stop
  BY <1>2, FinishStopClient DEF Stop, finishStopRest
<1>3. CASE SessionError
  BY <1>3 DEF SessionError
<1>4. CASE M3Response \/ PlayAccepted \/ PauseAccepted
  BY <1>4 DEF M3Response, PlayAccepted, PauseAccepted
<1>5. CASE TeardownRequest
  BY <1>5, FinishStopClient DEF TeardownRequest, finishStopRest
<1>6. CASE TeardownTriggerTimedOut
  BY <1>6, FinishStopClient DEF TeardownTriggerTimedOut, finishStopRest
<1>7. CASE FinishStop2Delayed \/ SessionEstablished
  BY <1>7 DEF FinishStop2Delayed, SessionEstablished
<1>8. CASE SessionDestroyed
  BY <1>8 DEF SessionDestroyed, DisconnectClient2
<1>9. CASE HDCPHandlers
  BY <1>9 DEF HDCPHandlers, HDCPInitialized, HDCPShutdown, HDCPFailed
<1> QED BY <1>1, <1>2, <1>3, <1>4, <1>5, <1>6, <1>7, <1>8, <1>9 DEF ActingHandlers

\* Every step of the source keeps the watchdog armed.
LEMMA SourceWatchdogStep ==
  SourceTyped /\ Stages /\ Connections /\ WatchdogArmed /\ SourceNext => WatchdogArmed'
<1> SUFFICES ASSUME SourceTyped, Stages, Connections, WatchdogArmed, SourceNext
             PROVE  WatchdogArmed'
  OBVIOUS
<1>1. CASE SendKeepAlive
  <2>1. UNCHANGED <<mClientSessionID, mPlaybackSession, mReaperPending>>
    BY <1>1 DEF SendKeepAlive, KeepAlive, clientVars
  <2>2. ASSUME mClientSessionID # NoSession, mClientSessionID \in keepAlives
        PROVE  mClientSessionID \in keepAlives'
    <3>1. PICK sid \in keepAlives :
            \/ sid # mClientSessionID /\ keepAlives' = keepAlives \ {sid}
            \/ /\ sid = mClientSessionID
               /\ IF sid \in open THEN ScheduleKeepAlive(sid)
                                  ELSE keepAlives' = keepAlives \ {sid}
      BY <1>1 DEF SendKeepAlive, KeepAlive
    <3>2. mClientSessionID \in open
      BY <2>2 DEF Connections, ClientIsOpen
    <3> QED BY <2>2, <3>1, <3>2 DEF ScheduleKeepAlive
  <2> QED BY <2>1, <2>2 DEF WatchdogArmed
<1>2. CASE ClientConnected
  <2>1. ~mPlaybackSession /\ UNCHANGED mPlaybackSession
    BY <1>2 DEF ClientConnected, Stages, SessionStages, AWAITING_CLIENT_CONNECTION, AWAITING_CLIENT_SETUP
  <2> QED BY <2>1 DEF WatchdogArmed
<1>3. CASE SetupAccepted
  <2>1. mReaperPending' = TRUE /\ mClientSessionID' \in keepAlives'
    BY <1>3 DEF SetupAccepted, ScheduleReaper, ScheduleKeepAlive
  <2> QED BY <2>1 DEF WatchdogArmed
<1>4. CASE ReapDeadClients
  <2>1. UNCHANGED <<mPlaybackSession, keepAlives>>
    BY <1>4 DEF ReapDeadClients
  <2>2. \/ mClientSessionID' = NoSession
        \/ ~mPlaybackSession
        \/ mReaperPending' = TRUE /\ UNCHANGED mClientSessionID
    BY <1>4 DEF ReapDeadClients, ScheduleReaper
  <2> QED BY <2>1, <2>2 DEF WatchdogArmed
<1> QED BY <1>1, <1>2, <1>3, <1>4, WatchdogUnchanged, SourceCases, BystandersArmed, ActorsArmed

LEMMA BystandersMedia == BystanderHandlers => UNCHANGED <<mClientSessionID, mState, streaming>>
<1> SUFFICES ASSUME BystanderHandlers PROVE UNCHANGED streaming
  BY BystandersStages DEF stageVars
<1> USE DEF playbackVars, sourceVars
<1>1. CASE ClientConnectedAbort \/ M4Abort \/ M16ResponseAbort \/ SetupAbort
  BY <1>1 DEF ClientConnectedAbort, M4Abort, M16ResponseAbort, SetupAbort, Abort
<1>2. CASE UnsolicitedResponse \/ StatusResponse \/ M4Response \/ M16Response
  BY <1>2 DEF UnsolicitedResponse, StatusResponse, M4Response, M16Response
<1>3. CASE OptionsRequest \/ PauseIgnored \/ ParameterAccepted
  BY <1>3 DEF OptionsRequest, PauseIgnored, ParameterAccepted
<1>4. CASE RefusingHandlers
  BY <1>4, Refusals DEF Refuse
<1>5. CASE SessionDead \/ LifesignExpires \/ Release \/ RejectClient \/ SendKeepAlive
  BY <1>5 DEF SessionDead, LifesignExpires, Release, RejectClient, SendKeepAlive, KeepAlive
<1> QED BY <1>1, <1>2, <1>3, <1>4, <1>5 DEF BystanderHandlers, RefusingHandlers

\* A request being handled is the client's, or was one's that is gone.
RequestIsClients ==
  inbox # << >> /\ Head(inbox).what = "data" /\ Head(inbox).msg.kind = "request" =>
    mClientSessionID \in {NoSession, Head(inbox).sid}

\* Every step of the source keeps the media as the state says, if the requests it
\* handles are the client's.
LEMMA SourceMediaStep ==
  ASSUME SourceTyped, Stages, Connections, MediaFollowsState, RequestIsClients, SourceNext
  PROVE  MediaFollowsState'
<1> USE DEF MediaFollowsState, clientVars, playbackVars, INITIALIZED, AWAITING_CLIENT_CONNECTION,
    AWAITING_CLIENT_SETUP, AWAITING_CLIENT_PLAY, ABOUT_TO_PLAY, PLAYING, PLAYING_TO_PAUSED,
    PAUSED, PAUSED_TO_PLAYING, AWAITING_CLIENT_TEARDOWN, STOPPING, STOPPED
<1>1. CASE BystanderHandlers
  BY <1>1, BystandersMedia
<1>2. CASE PlayAccepted \/ PauseAccepted
  <2>1. /\ mClientSessionID # NoSession => CanReply
        /\ UNCHANGED mClientSessionID
    BY <1>2 DEF PlayAccepted, PauseAccepted, HandlingRequest, Handling, RequestIsClients,
                Connections, ClientIsOpen, CanReply
  <2>2. CASE PlayAccepted
    <3>1. /\ streaming' = (streaming \/ mPlaybackSessionEstablished)
          /\ CanReply => mState' \in {PLAYING, ABOUT_TO_PLAY}
          /\ CanReply /\ mState' = PLAYING =>
               mState = PAUSED_TO_PLAYING \/ mPlaybackSessionEstablished
      BY <2>2 DEF PlayAccepted
    <3>2. mState = PAUSED_TO_PLAYING => mPlaybackSessionEstablished
      BY DEF Stages, PlayCheck
    <3>3. CanReply /\ mState' = PLAYING => streaming'
      BY <3>1, <3>2, Zenon
    <3> HIDE DEF CanReply
    <3>4. CanReply => mState' \in {PLAYING, ABOUT_TO_PLAY}
      BY <3>1
    <3> QED BY <2>1, <3>3, <3>4
  <2>3. CASE PauseAccepted
    BY <2>1, <2>3 DEF PauseAccepted
  <2> QED BY <1>2, <2>2, <2>3
<1>3. CASE Start
  BY <1>3 DEF Start
<1>4. CASE TriggerCalls
  BY <1>4 DEF TriggerCalls, Pause, Resume
<1>5. CASE Stop
  <2>1. UNCHANGED streaming
    BY <1>5 DEF Stop, finishStopRest
  <2>2. mState' \in {AWAITING_CLIENT_TEARDOWN, STOPPING, STOPPED}
    BY <1>5, FinishStopState DEF Stop
  <2> QED BY <2>1, <2>2
<1>6. CASE ClientConnected
  BY <1>6 DEF ClientConnected
<1>7. CASE SessionError
  BY <1>7 DEF SessionError
<1>8. CASE M3Response
  BY <1>8 DEF M3Response
<1>9. CASE SetupAccepted
  BY <1>9 DEF SetupAccepted
<1>10. CASE TeardownRequest
  BY <1>10, FinishStopState DEF TeardownRequest
<1>11. CASE ReapDeadClients
  BY <1>11 DEF ReapDeadClients
<1>12. CASE TeardownTriggerTimedOut
  BY <1>12, FinishStopState DEF TeardownTriggerTimedOut
<1>13. CASE FinishStop2Delayed
  BY <1>13 DEF FinishStop2Delayed, FinishStop2
<1>14. CASE SessionEstablished
  BY <1>14 DEF SessionEstablished, Stages, PlayCheck
<1>15. CASE SessionDestroyed
  BY <1>15 DEF SessionDestroyed, DisconnectClient2
<1>16. CASE HDCPHandlers
  BY <1>16 DEF HDCPHandlers, HDCPInitialized, HDCPShutdown, HDCPFailed
<1> QED BY <1>1, <1>2, <1>3, <1>4, <1>5, <1>6, <1>7, <1>8, <1>9, <1>10, <1>11, <1>12, <1>13,
           <1>14, <1>15, <1>16, SourceCases DEF ActingHandlers

\* A source that got a client never waits for one again.
LEMMA StateAfterClient ==
  ASSUME SourceTyped, SourceNext, mState > AWAITING_CLIENT_CONNECTION
  PROVE  mState' > AWAITING_CLIENT_CONNECTION
<1> USE DEF INITIALIZED, AWAITING_CLIENT_CONNECTION, AWAITING_CLIENT_SETUP, AWAITING_CLIENT_PLAY,
    ABOUT_TO_PLAY, PLAYING, PLAYING_TO_PAUSED, PAUSED, PAUSED_TO_PLAYING,
    AWAITING_CLIENT_TEARDOWN, STOPPING, STOPPED
<1>1. CASE UNCHANGED mState
  BY <1>1
<1>2. CASE BystanderHandlers
  BY <1>1, <1>2, BystandersMedia
<1>3. ~Start
  BY DEF Start
<1>4. CASE TriggerCalls \/ ClientConnected \/ SetupAccepted
  BY <1>4 DEF TriggerCalls, Pause, Resume, ClientConnected, SetupAccepted
<1>5. CASE Stop
  BY <1>5, FinishStopState DEF Stop
<1>6. CASE PlayAccepted \/ PauseAccepted
  BY <1>6 DEF PlayAccepted, PauseAccepted
<1>7. CASE TeardownRequest
  BY <1>7, FinishStopState DEF TeardownRequest
<1>8. CASE TeardownTriggerTimedOut
  BY <1>8, FinishStopState DEF TeardownTriggerTimedOut
<1>9. CASE FinishStop2Delayed
  BY <1>9 DEF FinishStop2Delayed, FinishStop2
<1>10. CASE SessionEstablished
  BY <1>10 DEF SessionEstablished
<1>11. CASE SessionDestroyed
  BY <1>11 DEF SessionDestroyed, DisconnectClient2, FinishStopAfterDisconnectingClient, FinishStop2
<1>12. SessionError \/ M3Response \/ ReapDeadClients => UNCHANGED mState
  BY DEF SessionError, M3Response, ReapDeadClients
<1>13. HDCPHandlers => UNCHANGED mState
  BY DEF HDCPHandlers, HDCPInitialized, HDCPShutdown, HDCPFailed
<1> QED BY <1>1, <1>2, <1>3, <1>4, <1>5, <1>6, <1>7, <1>8, <1>9, <1>10, <1>11, <1>12, <1>13,
           SourceCases DEF ActingHandlers

\* Only the handler of a new connection makes it the client's, and only then is the
\* state no longer that of a source that waits.
LEMMA ClientAfterStep ==
  ASSUME SourceTyped, SourceNext
  PROVE  \/ mClientSessionID' \in {mClientSessionID, NoSession}
         \/ mState = AWAITING_CLIENT_CONNECTION /\ mState' = AWAITING_CLIENT_SETUP
<1>1. CASE KeepsConnections \/ DropsClient
  BY <1>1 DEF KeepsConnections, DropsClient
<1>2. CASE RejectClient \/ SessionError
  BY <1>2 DEF RejectClient, SessionError, sourceVars, clientVars
<1>3. CASE ClientConnected
  BY <1>3 DEF ClientConnected
<1> QED BY <1>1, <1>2, <1>3, SourceCases, BystandersKeep, ActorsKeepOrDrop

\* The source takes the head of the queue or nothing.
LEMMA QueueAfterStep ==
  ASSUME SourceNext
  PROVE  UNCHANGED inbox \/ (inbox # << >> /\ Consume)
<1>1. CASE KeepsConnections \/ DropsClient
  BY <1>1 DEF KeepsConnections, DropsClient, HandlesDataIfAny, Handling
<1>2. CASE RejectClient \/ ClientConnected \/ SessionError
  BY <1>2 DEF RejectClient, ClientConnected, SessionError, Handling
<1> QED BY <1>1, <1>2, SourceCases, BystandersKeep, ActorsKeepOrDrop

\* Connections are only closed, and that of a kWhatError is; a new client is that
\* of the notification handled.
LEMMA ClosedAfterStep ==
  ASSUME SourceTyped, SourceNext
  PROVE  /\ UNCHANGED nextSession
         /\ open' \subseteq open
         /\ UNCHANGED inbox => mClientSessionID' \in {mClientSessionID, NoSession}
         /\ inbox' # inbox =>
              /\ mClientSessionID' \in {mClientSessionID, NoSession, Head(inbox).sid}
              /\ Head(inbox).what = "error" => Head(inbox).sid \notin open'
<1>1. CASE KeepsConnections \/ DropsClient
  BY <1>1 DEF KeepsConnections, DropsClient, HandlesDataIfAny, Handling
<1>2. CASE RejectClient \/ ClientConnected \/ SessionError
  <2>1. inbox # << >> /\ Consume
    BY <1>2 DEF RejectClient, ClientConnected, SessionError, Handling
  <2>2. inbox' # inbox
    BY <2>1, ConsumeShifts DEF SourceTyped, NetTypeOK
  <2>3. CASE RejectClient
    BY <2>2, <2>3 DEF RejectClient, sourceVars, clientVars, Handling
  <2>4. CASE ClientConnected
    BY <2>2, <2>4 DEF ClientConnected, Handling
  <2>5. CASE SessionError
    BY <2>2, <2>5 DEF SessionError, Handling
  <2> QED BY <1>2, <2>3, <2>4, <2>5
<1> QED BY <1>1, <1>2, SourceCases, BystandersKeep, ActorsKeepOrDrop
==============================================================================
