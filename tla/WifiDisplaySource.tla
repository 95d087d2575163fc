-------------------------- MODULE WifiDisplaySource --------------------------
(***************************************************************************)
(* The mirroring source of the phone (WifiDisplaySource.cpp): the RTSP     *)
(* server that negotiates with one sink, starts and stops the playback     *)
(* session, and reports to the display service.  All its handlers run on   *)
(* one looper thread, so each is one atomic action; what is concurrent is  *)
(* the order in which the network, the playback session, the HDCP module,  *)
(* the delayed messages and the callers of stop, pause and resume post to  *)
(* that looper.                                                            *)
(*                                                                         *)
(* A CHECK that fails kills the process: `life' then names the CHECK.  The *)
(* CHECKs that cannot fail are stated as the invariant ChecksHold.         *)
(***************************************************************************)
EXTENDS ANetworkSession, FiniteSets

CONSTANT MaxCSeq     \* bound: no handler that only sends a new request starts beyond it

ASSUME MaxCSeqAssumption == MaxCSeq \in Nat

VARIABLES
  mState, mClientSessionID,
  mSessionID,                    \* 0, or 1 while the RTSP server listens
  mNextCSeq, mResponseHandlers,
  mPlaybackSessionID,            \* is mClientInfo.mPlaybackSessionID not -1?
  mPlaybackSession,              \* is mClientInfo.mPlaybackSession not NULL?
  mPlaybackSessionEstablished,
  mUsingHDCP, mHDCP,             \* mHDCP: is the HDCP module instantiated?
  mHDCPInitializationComplete, mSetupTriggerDeferred,
  mReaperPending,                \* kWhatReapDeadClients is posted
  keepAlives,                    \* the sessions with a kWhatKeepAlive posted
  delayed,                       \* the other delayed messages posted
  mStopReplyID,                  \* 0, or 1 once stop() was received
  stopReplies,                   \* replies posted to stop()
  \* the playback session and the HDCP module, which are outside the repository
  playback,                      \* "none", "running", "destroying", "gone"
  streaming,                     \* play() was called, and pause() not since
  lifesign,                      \* a lifesign in the last 30 seconds
  hdcpPending,                   \* the notifications the module may still post
  \* what the display service was told through IRemoteDisplayClient
  display, errorReported,
  life                           \* "running", "released", or the CHECK that failed

clientVars   == <<mClientSessionID, mPlaybackSessionID, mPlaybackSession>>
requestVars  == <<mNextCSeq, mResponseHandlers>>
hdcpVars     == <<mUsingHDCP, mHDCP, mHDCPInitializationComplete,
                  mSetupTriggerDeferred, hdcpPending>>
timerVars    == <<mReaperPending, keepAlives, delayed>>
playbackVars == <<mPlaybackSessionEstablished, playback, streaming, lifesign>>
stopVars     == <<mSessionID, mStopReplyID, stopReplies>>

sourceVars == <<mState, clientVars, requestVars, hdcpVars, timerVars,
                playbackVars, stopVars, display, errorReported, life>>
vars == <<netVars, sourceVars>>

\* enum State, in the order the comparisons of the code rely on
INITIALIZED                == 0
AWAITING_CLIENT_CONNECTION == 1
AWAITING_CLIENT_SETUP      == 2
AWAITING_CLIENT_PLAY       == 3
ABOUT_TO_PLAY              == 4
PLAYING                    == 5
PLAYING_TO_PAUSED          == 6
PAUSED                     == 7
PAUSED_TO_PLAYING          == 8
AWAITING_CLIENT_TEARDOWN   == 9
STOPPING                   == 10
STOPPED                    == 11

Handlers == {"onReceiveM1Response", "onReceiveM3Response", "onReceiveM4Response",
             "onReceiveM5Response", "onReceiveM16Response"}

\* The CHECKs some order of events makes fail, by the handler they are in.
FailingChecks == {"clientConnected", "onSetupRequest", "sendM4", "onReceiveM16Response"}

SourceTypeOK ==
  /\ mState \in INITIALIZED .. STOPPED
  /\ mClientSessionID \in Session \cup {NoSession}
  /\ mSessionID \in {0, 1}
  /\ mNextCSeq \in Nat
  /\ mResponseHandlers \subseteq [sid: Session, cseq: Nat, func: Handlers]
  /\ mPlaybackSessionID \in BOOLEAN
  /\ mPlaybackSession \in BOOLEAN
  /\ mPlaybackSessionEstablished \in BOOLEAN
  /\ mUsingHDCP \in BOOLEAN
  /\ mHDCP \in BOOLEAN
  /\ mHDCPInitializationComplete \in BOOLEAN
  /\ mSetupTriggerDeferred \in BOOLEAN
  /\ mReaperPending \in BOOLEAN
  /\ keepAlives \subseteq Session
  /\ delayed \subseteq {"TeardownTriggerTimedOut", "FinishStop2"}
  /\ mStopReplyID \in {0, 1}
  /\ stopReplies \in Nat
  /\ playback \in {"none", "running", "destroying", "gone"}
  /\ streaming \in BOOLEAN
  /\ lifesign \in BOOLEAN
  /\ hdcpPending \subseteq {"initialized", "failed", "shutdown"}
  /\ display \in {"none", "connected", "disconnected"}
  /\ errorReported \in BOOLEAN
  /\ life \in {"running", "released"} \cup FailingChecks

SourceInit ==
  /\ mState = INITIALIZED
  /\ mClientSessionID = NoSession
  /\ mSessionID = 0
  /\ mNextCSeq = 1
  /\ mResponseHandlers = {}
  /\ mPlaybackSessionID = FALSE
  /\ mPlaybackSession = FALSE
  /\ mPlaybackSessionEstablished = FALSE
  /\ mUsingHDCP = FALSE
  /\ mHDCP = FALSE
  /\ mHDCPInitializationComplete = FALSE
  /\ mSetupTriggerDeferred = FALSE
  /\ mReaperPending = FALSE
  /\ keepAlives = {}
  /\ delayed = {}
  /\ mStopReplyID = 0
  /\ stopReplies = 0
  /\ playback = "none"
  /\ streaming = FALSE
  /\ lifesign = FALSE
  /\ hdcpPending = {}
  /\ display = "none"
  /\ errorReported = FALSE
  /\ life = "running"

Alive == life = "running"

\* A CHECK of the handler fails and the process dies.
Abort(check) ==
  /\ life' = check
  /\ UNCHANGED <<netVars, mState, clientVars, requestVars, hdcpVars, timerVars,
                 playbackVars, stopVars, display, errorReported>>

OnDisplayErrorIf(failed) == errorReported' = (errorReported \/ failed)

------------------------------------------------------------------------------
(* Sending *)

HandlerOf(tag) ==
  CASE tag = "M1"  -> "onReceiveM1Response"
    [] tag = "M3"  -> "onReceiveM3Response"
    [] tag = "M4"  -> "onReceiveM4Response"
    [] tag = "M16" -> "onReceiveM16Response"
    [] OTHER       -> "onReceiveM5Response"

\* registerResponseHandler, after `handled' was removed from the map
RegisterResponseHandler(sid, tag, handled) ==
  mResponseHandlers' = (mResponseHandlers \ handled)
                         \cup {[sid |-> sid, cseq |-> mNextCSeq, func |-> HandlerOf(tag)]}

\* sendM1, sendM3, sendM4, sendM16 and sendTrigger share this shape: a request
\* ANetworkSession refuses leaves no handler and does not use up a CSeq.  `before'
\* is what the same handler sent first.
SendAfter(before, sid, tag, handled) ==
  IF sid \in open
  THEN /\ Deliver(sid, Append(before, Request(tag, mNextCSeq)))
       /\ RegisterResponseHandler(sid, tag, handled)
       /\ mNextCSeq' = mNextCSeq + 1
  ELSE /\ mResponseHandlers' = mResponseHandlers \ handled
       /\ UNCHANGED <<toSink, mNextCSeq>>

Send(sid, tag) == SendAfter(<< >>, sid, tag, {})

ScheduleReaper         == mReaperPending' = TRUE
ScheduleKeepAlive(sid) == keepAlives' = keepAlives \cup {sid}

------------------------------------------------------------------------------
(* Stopping *)

FinishStop2 ==
  /\ mHDCP' = FALSE
  /\ mSessionID' = 0
  /\ mState' = STOPPED
  /\ stopReplies' = stopReplies + 1

\* `state' is the value of mState when these helpers run
FinishStopAfterDisconnectingClient(state) ==
  \/ /\ mHDCP
     /\ hdcpPending' = hdcpPending \cup {"shutdown"}
     /\ mState' = state
     /\ UNCHANGED <<mHDCP, mSessionID, stopReplies>>
  \/ /\ ~mHDCP
     /\ FinishStop2
     /\ UNCHANGED hdcpPending

\* mutant: the pointer to the playback session is not cleared
DisconnectClient2KeepsSession(state) ==
  /\ UNCHANGED mPlaybackSession
  /\ open' = open \ {mClientSessionID}
  /\ mClientSessionID' = NoSession
  /\ display' = "disconnected"
  /\ FinishStopAfterDisconnectingClient(state)

DisconnectClient2(state) ==
  /\ mPlaybackSession' = FALSE
  /\ open' = open \ {mClientSessionID}
  /\ mClientSessionID' = NoSession
  /\ display' = "disconnected"
  /\ FinishStopAfterDisconnectingClient(state)

\* mutant: the end of the playback session is not waited for
FinishStopAtOnce ==
  /\ playback' = IF mPlaybackSession THEN "destroying" ELSE playback
  /\ DisconnectClient2(STOPPING)

\* finishStop, with disconnectClientAsync
FinishStop ==
  \/ /\ mPlaybackSession
     /\ playback' = "destroying"
     /\ mState' = STOPPING
     /\ UNCHANGED <<mPlaybackSession, open, mClientSessionID, display,
                    hdcpPending, mHDCP, mSessionID, stopReplies>>
  \/ /\ ~mPlaybackSession
     /\ DisconnectClient2(STOPPING)
     /\ UNCHANGED playback

\* what a handler that ends in finishStop leaves alone on that path
finishStopRest == <<mPlaybackSessionID, mNextCSeq, mUsingHDCP, nextSession,
                    mHDCPInitializationComplete, mSetupTriggerDeferred,
                    mReaperPending, keepAlives, mPlaybackSessionEstablished,
                    streaming, lifesign, errorReported, life>>

------------------------------------------------------------------------------
(* Calls of the display service *)

\* kWhatStart.  mState advances whether or not the server could be created.
Start ==
  /\ Alive
  /\ mState = INITIALIZED
  /\ \E err \in BOOLEAN : mSessionID' = IF err THEN 0 ELSE 1
  /\ mState' = AWAITING_CLIENT_CONNECTION
  /\ UNCHANGED <<netVars, clientVars, requestVars, hdcpVars, timerVars, playbackVars,
                 mStopReplyID, stopReplies, display, errorReported, life>>

\* mutant: the TEARDOWN trigger has no timeout
StopWithoutTimeout ==
  /\ Alive
  /\ mState # INITIALIZED
  /\ mStopReplyID = 0
  /\ mStopReplyID' = 1
  /\ UNCHANGED delayed
  /\ \/ /\ mState >= AWAITING_CLIENT_PLAY
        /\ mClientSessionID \in open
        /\ Send(mClientSessionID, "TEARDOWN")
        /\ mState' = AWAITING_CLIENT_TEARDOWN
        /\ UNCHANGED <<nextSession, open, inbox, clientVars, hdcpVars, mReaperPending,
                       keepAlives, playbackVars, mSessionID, stopReplies, display,
                       errorReported, life>>
     \/ /\ mState < AWAITING_CLIENT_PLAY \/ mClientSessionID \notin open
        /\ FinishStop
        /\ UNCHANGED <<finishStopRest, mResponseHandlers, inbox, toSink>>

\* kWhatStop.  RemoteDisplay, which owns the source, calls stop() once.  When the
\* TEARDOWN trigger cannot be sent the code falls through to finishStop.
Stop ==
  /\ Alive
  /\ mState # INITIALIZED
  /\ mStopReplyID = 0
  /\ mStopReplyID' = 1
  /\ \/ /\ mState >= AWAITING_CLIENT_PLAY
        /\ mClientSessionID \in open
        /\ Send(mClientSessionID, "TEARDOWN")
        /\ mState' = AWAITING_CLIENT_TEARDOWN
        /\ delayed' = delayed \cup {"TeardownTriggerTimedOut"}
        /\ UNCHANGED <<nextSession, open, inbox, clientVars, hdcpVars, mReaperPending,
                       keepAlives, playbackVars, mSessionID, stopReplies, display,
                       errorReported, life>>
     \/ /\ mState < AWAITING_CLIENT_PLAY \/ mClientSessionID \notin open
        /\ FinishStop
        /\ UNCHANGED <<finishStopRest, mResponseHandlers, inbox, toSink, delayed>>

\* kWhatPause: the trigger's result is not looked at.
Pause ==
  /\ Alive
  /\ mState = PLAYING
  /\ mState' = PLAYING_TO_PAUSED
  /\ Send(mClientSessionID, "PAUSE")
  /\ UNCHANGED <<nextSession, open, inbox, clientVars, hdcpVars, timerVars,
                 playbackVars, stopVars, display, errorReported, life>>

\* kWhatResume
Resume ==
  /\ Alive
  /\ mState = PAUSED
  /\ mState' = PAUSED_TO_PLAYING
  /\ Send(mClientSessionID, "PLAY")
  /\ UNCHANGED <<nextSession, open, inbox, clientVars, hdcpVars, timerVars,
                 playbackVars, stopVars, display, errorReported, life>>

\* Once stop() was answered the owner drops the source: what is still in the
\* looper's queue is never delivered.
Release ==
  /\ Alive
  /\ stopReplies > 0
  /\ life' = "released"
  /\ UNCHANGED <<netVars, mState, clientVars, requestVars, hdcpVars, timerVars,
                 playbackVars, stopVars, display, errorReported>>

------------------------------------------------------------------------------
(* kWhatRTSPNotify: connections and errors *)

\* the oldest notification, of the kind `what', is being handled
Handling(what) ==
  /\ Alive
  /\ inbox # << >>
  /\ Head(inbox).what = what

Consume == inbox' = Tail(inbox)

RejectedConnection ==
  \/ mClientSessionID > 0
  \/ mState = AWAITING_CLIENT_CONNECTION /\ Head(inbox).local

\* mutant: the refused connection is not closed
RejectClientKeepsSession ==
  /\ Handling("connected")
  /\ RejectedConnection
  /\ Consume
  /\ UNCHANGED <<nextSession, open, toSink, sourceVars>>

\* A second client, or one on the phone itself.
RejectClient ==
  /\ Handling("connected")
  /\ RejectedConnection
  /\ Consume
  /\ open' = open \ {Head(inbox).sid}
  /\ UNCHANGED <<nextSession, toSink, sourceVars>>

\* CHECK_EQ(mState, AWAITING_CLIENT_CONNECTION)
ClientConnectedAbort ==
  /\ Handling("connected")
  /\ mClientSessionID = NoSession
  /\ mState # AWAITING_CLIENT_CONNECTION
  /\ Abort("clientConnected")

ClientConnected ==
  /\ Handling("connected")
  /\ mClientSessionID = NoSession
  /\ mState = AWAITING_CLIENT_CONNECTION
  /\ ~Head(inbox).local
  /\ Consume
  /\ mPlaybackSessionID' = FALSE
  /\ mClientSessionID' = Head(inbox).sid
  /\ mState' = AWAITING_CLIENT_SETUP
  /\ Send(Head(inbox).sid, "M1")
  /\ UNCHANGED <<nextSession, open, mPlaybackSession, hdcpVars, timerVars,
                 playbackVars, stopVars, display, errorReported, life>>

\* mutant: the client is reset to -1, as the playback session's id is
SessionErrorResetsToMinusOne ==
  /\ Handling("error")
  /\ Consume
  /\ open' = open \ {Head(inbox).sid}
  /\ mClientSessionID' =
       IF Head(inbox).sid = mClientSessionID THEN NoSession - 1 ELSE mClientSessionID
  /\ OnDisplayErrorIf(Head(inbox).sid = mClientSessionID)
  /\ UNCHANGED <<nextSession, toSink, mState, mPlaybackSessionID, mPlaybackSession,
                 requestVars, hdcpVars, timerVars, playbackVars, stopVars, display, life>>

\* mutant: a lost client is reported as a display that is gone
SessionErrorDisconnects ==
  /\ Handling("error")
  /\ Consume
  /\ open' = open \ {Head(inbox).sid}
  /\ IF Head(inbox).sid = mClientSessionID
     THEN mClientSessionID' = NoSession /\ display' = "disconnected"
     ELSE UNCHANGED <<mClientSessionID, display>>
  /\ UNCHANGED <<nextSession, toSink, mState, mPlaybackSessionID, mPlaybackSession,
                 requestVars, hdcpVars, timerVars, playbackVars, stopVars,
                 errorReported, life>>

\* kWhatError.  mState and the playback session stay as they were.
SessionError ==
  /\ Handling("error")
  /\ Consume
  /\ open' = open \ {Head(inbox).sid}
  /\ IF Head(inbox).sid = mClientSessionID
     THEN mClientSessionID' = NoSession /\ errorReported' = TRUE
     ELSE UNCHANGED <<mClientSessionID, errorReported>>
  /\ UNCHANGED <<nextSession, toSink, mState, mPlaybackSessionID, mPlaybackSession,
                 requestVars, hdcpVars, timerVars, playbackVars, stopVars, display, life>>

------------------------------------------------------------------------------
(* kWhatRTSPNotify: responses of the sink *)

\* the handlers registered for the response being handled (at most one)
Matching == {h \in mResponseHandlers : /\ h.sid = Head(inbox).sid
                                       /\ h.cseq = Head(inbox).msg.cseq}

HandlingResponse(func) ==
  /\ Handling("data")
  /\ Head(inbox).msg.kind = "response"
  /\ \E h \in Matching : h.func = func

Failed == Head(inbox).msg.body = "error"

UnsolicitedResponse ==
  /\ Handling("data")
  /\ Head(inbox).msg.kind = "response"
  /\ Matching = {}
  /\ Consume
  /\ OnDisplayErrorIf(TRUE)
  /\ UNCHANGED <<nextSession, open, toSink, mState, clientVars, requestVars, hdcpVars,
                 timerVars, playbackVars, stopVars, display, life>>

\* onReceiveM1Response, onReceiveM5Response
StatusResponse ==
  /\ \/ HandlingResponse("onReceiveM1Response")
     \/ HandlingResponse("onReceiveM5Response")
  /\ Consume
  /\ mResponseHandlers' = mResponseHandlers \ Matching
  /\ OnDisplayErrorIf(Failed)
  /\ UNCHANGED <<nextSession, open, toSink, mState, clientVars, mNextCSeq, hdcpVars,
                 timerVars, playbackVars, stopVars, display, life>>

\* makeHDCP: instantiated and initialising, instantiated with initAsync refused,
\* or not instantiated at all.
MakeHDCP ==
  \/ /\ mHDCP' = TRUE
     /\ mUsingHDCP' = TRUE
     /\ hdcpPending' = hdcpPending \cup {"initialized", "failed"}
  \/ /\ mHDCP' \in BOOLEAN
     /\ mUsingHDCP' = FALSE
     /\ UNCHANGED hdcpPending

\* onReceiveM3Response, then sendM4 with its CHECK_EQ(sessionID, mClientSessionID)
M3Response ==
  /\ HandlingResponse("onReceiveM3Response")
  /\ Failed \/ Head(inbox).sid = mClientSessionID
  /\ Consume
  /\ OnDisplayErrorIf(Failed)
  /\ \/ /\ Failed
        /\ mResponseHandlers' = mResponseHandlers \ Matching
        /\ mUsingHDCP' \in {mUsingHDCP, TRUE}   \* contents may be refused on either side of it
        /\ UNCHANGED <<mNextCSeq, toSink, mHDCP, hdcpPending>>
     \/ /\ ~Failed
        /\ SendAfter(<< >>, Head(inbox).sid, "M4", Matching)
        /\ \/ /\ Head(inbox).msg.body = "plain"
              /\ mUsingHDCP' = FALSE
              /\ UNCHANGED <<mHDCP, hdcpPending>>
           \/ /\ Head(inbox).msg.body = "hdcp"
              /\ MakeHDCP
  /\ UNCHANGED <<nextSession, open, mState, clientVars, mHDCPInitializationComplete,
                 mSetupTriggerDeferred, timerVars, playbackVars, stopVars, display, life>>

M4Abort ==
  /\ HandlingResponse("onReceiveM3Response")
  /\ ~Failed
  /\ Head(inbox).sid # mClientSessionID
  /\ Abort("sendM4")

\* onReceiveM4Response: the SETUP trigger waits for the HDCP handshake.  Its
\* status is returned: a trigger that cannot be sent is a display error.
M4Response ==
  /\ HandlingResponse("onReceiveM4Response")
  /\ Consume
  /\ \/ /\ Failed
        /\ OnDisplayErrorIf(TRUE)
        /\ mResponseHandlers' = mResponseHandlers \ Matching
        /\ UNCHANGED <<mNextCSeq, toSink, mSetupTriggerDeferred>>
     \/ /\ ~Failed
        /\ mUsingHDCP /\ ~mHDCPInitializationComplete
        /\ mSetupTriggerDeferred' = TRUE
        /\ mResponseHandlers' = mResponseHandlers \ Matching
        /\ UNCHANGED <<mNextCSeq, toSink, errorReported>>
     \/ /\ ~Failed
        /\ ~mUsingHDCP \/ mHDCPInitializationComplete
        /\ SendAfter(<< >>, Head(inbox).sid, "SETUP", Matching)
        /\ OnDisplayErrorIf(Head(inbox).sid \notin open)
        /\ UNCHANGED mSetupTriggerDeferred
  /\ UNCHANGED <<nextSession, open, mState, clientVars, mUsingHDCP, mHDCP,
                 mHDCPInitializationComplete, hdcpPending, timerVars, playbackVars,
                 stopVars, display, life>>

\* onReceiveM16Response
M16Response ==
  /\ HandlingResponse("onReceiveM16Response")
  /\ Head(inbox).sid = mClientSessionID
  /\ Consume
  /\ mResponseHandlers' = mResponseHandlers \ Matching
  /\ lifesign' = (lifesign \/ mPlaybackSession)
  /\ UNCHANGED <<nextSession, open, toSink, mState, clientVars, mNextCSeq, hdcpVars,
                 timerVars, mPlaybackSessionEstablished, playback, streaming, stopVars,
                 display, errorReported, life>>

\* CHECK_EQ(sessionID, mClientSessionID)
M16ResponseAbort ==
  /\ HandlingResponse("onReceiveM16Response")
  /\ Head(inbox).sid # mClientSessionID
  /\ Abort("onReceiveM16Response")

------------------------------------------------------------------------------
(* kWhatRTSPNotify: requests of the sink *)

HandlingRequest(method) ==
  /\ Handling("data")
  /\ Head(inbox).msg.kind = "request"
  /\ Head(inbox).msg.method = method

\* findPlaybackSession does not return NULL
SessionFound == mPlaybackSession /\ Head(inbox).msg.good

Reply(code) == Deliver(Head(inbox).sid, <<Response(code)>>)

\* sendRequest succeeds for the session the request came from
CanReply == Head(inbox).sid \in open

\* The handler answers with an error (or cannot answer) and returns an error.
Refuse(code) ==
  /\ Consume
  /\ Reply(code)
  /\ OnDisplayErrorIf(TRUE)
  /\ UNCHANGED <<nextSession, open, mState, clientVars, requestVars, hdcpVars,
                 timerVars, stopVars, display, life>>

\* mutant: OPTIONS is only answered
OptionsRequestWithoutM3 ==
  /\ HandlingRequest("OPTIONS")
  /\ Consume
  /\ lifesign' = (lifesign \/ SessionFound)
  /\ Reply(200)
  /\ OnDisplayErrorIf(~CanReply)
  /\ UNCHANGED <<nextSession, open, mState, clientVars, requestVars, hdcpVars, timerVars,
                 mPlaybackSessionEstablished, playback, streaming, stopVars, display, life>>

\* onOptionsRequest: every OPTIONS is followed by another M3.
OptionsRequest ==
  /\ HandlingRequest("OPTIONS")
  /\ Consume
  /\ lifesign' = (lifesign \/ SessionFound)
  /\ SendAfter(<<Response(200)>>, Head(inbox).sid, "M3", {})
  /\ OnDisplayErrorIf(~CanReply)
  /\ UNCHANGED <<nextSession, open, mState, clientVars, hdcpVars, timerVars,
                 mPlaybackSessionEstablished, playback, streaming, stopVars, display, life>>

\* onSetupRequest: a single playback session per client; a bad transport or URL
\* is 400, 404 or 461.
SetupRefused ==
  /\ HandlingRequest("SETUP")
  /\ Head(inbox).sid = mClientSessionID
  /\ mPlaybackSessionID \/ ~Head(inbox).msg.good
  /\ Refuse(400)
  /\ UNCHANGED playbackVars

\* PlaybackSession::init fails: 403, or 404 for a missing media file.
SetupFailed ==
  /\ HandlingRequest("SETUP")
  /\ Head(inbox).sid = mClientSessionID
  /\ ~mPlaybackSessionID /\ Head(inbox).msg.good
  /\ Refuse(403)
  /\ UNCHANGED playbackVars

\* mutant: the reaper is not scheduled
SetupAcceptedWithoutReaper ==
  /\ HandlingRequest("SETUP")
  /\ Head(inbox).sid = mClientSessionID
  /\ ~mPlaybackSessionID
  /\ Head(inbox).msg.good
  /\ Consume
  /\ mPlaybackSessionID' = TRUE
  /\ mPlaybackSession' = TRUE
  /\ playback' = "running"
  /\ streaming' = FALSE
  /\ lifesign' = TRUE
  /\ Reply(200)
  /\ mState' = AWAITING_CLIENT_PLAY
  /\ ScheduleKeepAlive(Head(inbox).sid)
  /\ UNCHANGED <<nextSession, open, mClientSessionID, requestVars, hdcpVars, delayed,
                 mReaperPending, mPlaybackSessionEstablished, stopVars, display,
                 errorReported, life>>

\* The response cannot fail to be sent: the session is the client's.
SetupAccepted ==
  /\ HandlingRequest("SETUP")
  /\ Head(inbox).sid = mClientSessionID
  /\ ~mPlaybackSessionID
  /\ Head(inbox).msg.good
  /\ Consume
  /\ mPlaybackSessionID' = TRUE
  /\ mPlaybackSession' = TRUE
  /\ playback' = "running"
  /\ streaming' = FALSE
  /\ lifesign' = TRUE
  /\ Reply(200)
  /\ mState' = AWAITING_CLIENT_PLAY
  /\ ScheduleReaper
  /\ ScheduleKeepAlive(Head(inbox).sid)
  /\ UNCHANGED <<nextSession, open, mClientSessionID, requestVars, hdcpVars, delayed,
                 mPlaybackSessionEstablished, stopVars, display, errorReported, life>>

\* CHECK_EQ(sessionID, mClientSessionID)
SetupAbort ==
  /\ HandlingRequest("SETUP")
  /\ Head(inbox).sid # mClientSessionID
  /\ Abort("onSetupRequest")

\* mutants: PLAY without a look at the state, and PLAY after a trigger only
AllStates       == INITIALIZED .. STOPPED
TriggeredStates == {AWAITING_CLIENT_PLAY, PAUSED_TO_PLAYING}

PlayableStates == {AWAITING_CLIENT_PLAY, PAUSED_TO_PLAYING, PAUSED}

\* onPlayRequest: 454 without a session, 455 outside the states above
PlayRefused ==
  /\ HandlingRequest("PLAY")
  /\ \/ ~SessionFound /\ Refuse(454)
     \/ SessionFound /\ mState \notin PlayableStates /\ Refuse(455)
  /\ UNCHANGED playbackVars

\* mutant: the playback session is not waited for
PlayAcceptedAtOnce ==
  /\ HandlingRequest("PLAY")
  /\ SessionFound
  /\ mState \in PlayableStates
  /\ Consume
  /\ streaming' = (streaming \/ mPlaybackSessionEstablished)
  /\ Reply(200)
  /\ OnDisplayErrorIf(~CanReply)
  /\ mState' = IF CanReply THEN PLAYING ELSE mState
  /\ UNCHANGED <<nextSession, open, clientVars, requestVars, hdcpVars, timerVars,
                 mPlaybackSessionEstablished, playback, lifesign, stopVars, display, life>>

\* The media may already be started when the response turns out not to be sendable.
PlayAccepted ==
  /\ HandlingRequest("PLAY")
  /\ SessionFound
  /\ mState \in PlayableStates
  /\ Consume
  /\ streaming' = (streaming \/ mPlaybackSessionEstablished)
  /\ Reply(200)
  /\ OnDisplayErrorIf(~CanReply)
  /\ mState' = IF ~CanReply THEN mState
               ELSE IF mState = PAUSED_TO_PLAYING \/ mPlaybackSessionEstablished
               THEN PLAYING
               ELSE ABOUT_TO_PLAY
  /\ UNCHANGED <<nextSession, open, clientVars, requestVars, hdcpVars, timerVars,
                 mPlaybackSessionEstablished, playback, lifesign, stopVars, display, life>>

\* mutant: PAUSE after a trigger only
TriggeredPauseStates == {PLAYING_TO_PAUSED}

PausableStates == {PLAYING_TO_PAUSED, PLAYING}

\* onPauseRequest: 454 without a session
PauseRefused ==
  /\ HandlingRequest("PAUSE")
  /\ ~SessionFound
  /\ Refuse(454)
  /\ UNCHANGED playbackVars

\* In any state but these two the request is not answered at all.
PauseIgnored ==
  /\ HandlingRequest("PAUSE")
  /\ SessionFound
  /\ mState \notin PausableStates
  /\ Consume
  /\ OnDisplayErrorIf(TRUE)
  /\ UNCHANGED <<nextSession, open, toSink, mState, clientVars, requestVars, hdcpVars,
                 timerVars, playbackVars, stopVars, display, life>>

PauseAccepted ==
  /\ HandlingRequest("PAUSE")
  /\ SessionFound
  /\ mState \in PausableStates
  /\ Consume
  /\ streaming' = FALSE
  /\ Reply(200)
  /\ OnDisplayErrorIf(~CanReply)
  /\ mState' = IF CanReply THEN PAUSED ELSE mState
  /\ UNCHANGED <<nextSession, open, clientVars, requestVars, hdcpVars, timerVars,
                 mPlaybackSessionEstablished, playback, lifesign, stopVars, display, life>>

\* onTeardownRequest
TeardownRefused ==
  /\ HandlingRequest("TEARDOWN")
  /\ ~SessionFound
  /\ Refuse(454)
  /\ UNCHANGED playbackVars

\* Not asked for by a trigger: answered, and only reported.
TeardownUnasked ==
  /\ HandlingRequest("TEARDOWN")
  /\ SessionFound
  /\ mState # AWAITING_CLIENT_TEARDOWN
  /\ Refuse(200)
  /\ UNCHANGED playbackVars

\* mutant: a TEARDOWN nobody asked for stops the source
TeardownRequestAnytime ==
  /\ HandlingRequest("TEARDOWN")
  /\ SessionFound
  /\ Consume
  /\ Reply(200)
  /\ FinishStop
  /\ UNCHANGED <<finishStopRest, mResponseHandlers, mStopReplyID, delayed>>

TeardownRequest ==
  /\ HandlingRequest("TEARDOWN")
  /\ SessionFound
  /\ mState = AWAITING_CLIENT_TEARDOWN
  /\ Consume
  /\ Reply(200)
  /\ FinishStop
  /\ UNCHANGED <<finishStopRest, mResponseHandlers, mStopReplyID, delayed>>

\* onGetParameterRequest, onSetParameterRequest: the sink's own keep-alives
HandlingParameterRequest ==
  HandlingRequest("GET_PARAMETER") \/ HandlingRequest("SET_PARAMETER")

ParameterRefused ==
  /\ HandlingParameterRequest
  /\ ~SessionFound
  /\ Refuse(454)
  /\ UNCHANGED playbackVars

ParameterAccepted ==
  /\ HandlingParameterRequest
  /\ SessionFound
  /\ Consume
  /\ lifesign' = TRUE
  /\ Reply(200)
  /\ OnDisplayErrorIf(~CanReply)
  /\ UNCHANGED <<nextSession, open, mState, clientVars, requestVars, hdcpVars,
                 timerVars, mPlaybackSessionEstablished, playback, streaming,
                 stopVars, display, life>>

\* 400 without a CSeq, 505 for another version, 405 for another method
OtherRequest ==
  /\ HandlingRequest("OTHER")
  /\ Refuse(405)
  /\ UNCHANGED playbackVars

------------------------------------------------------------------------------
(* Delayed messages *)

\* mutant: a client that gave a lifesign is not looked at again
ReapDeadClientsOnce ==
  /\ Alive
  /\ mReaperPending
  /\ mReaperPending' = FALSE
  /\ \/ /\ mClientSessionID = NoSession \/ ~mPlaybackSession \/ lifesign
        /\ UNCHANGED <<open, mClientSessionID, errorReported>>
     \/ /\ mClientSessionID # NoSession /\ mPlaybackSession
        /\ ~lifesign
        /\ open' = open \ {mClientSessionID}
        /\ mClientSessionID' = NoSession
        /\ errorReported' = TRUE
  /\ UNCHANGED <<nextSession, inbox, toSink, mState, mPlaybackSessionID,
                 mPlaybackSession, requestVars, hdcpVars, keepAlives, delayed,
                 playbackVars, stopVars, display, life>>

\* kWhatReapDeadClients
ReapDeadClients ==
  /\ Alive
  /\ mReaperPending
  /\ \/ /\ mClientSessionID = NoSession \/ ~mPlaybackSession
        /\ mReaperPending' = FALSE
        /\ UNCHANGED <<open, mClientSessionID, errorReported>>
     \/ /\ mClientSessionID # NoSession /\ mPlaybackSession
        /\ ~lifesign
        /\ mReaperPending' = FALSE
        /\ open' = open \ {mClientSessionID}
        /\ mClientSessionID' = NoSession
        /\ errorReported' = TRUE
     \/ /\ mClientSessionID # NoSession /\ mPlaybackSession
        /\ lifesign
        /\ ScheduleReaper
        /\ UNCHANGED <<open, mClientSessionID, errorReported>>
  /\ UNCHANGED <<nextSession, inbox, toSink, mState, mPlaybackSessionID,
                 mPlaybackSession, requestVars, hdcpVars, keepAlives, delayed,
                 playbackVars, stopVars, display, life>>

\* kWhatKeepAlive: nothing for a client that is gone; else M16, which posts the next.
KeepAlive ==
  /\ Alive
  /\ \E sid \in keepAlives :
       \/ /\ sid # mClientSessionID
          /\ keepAlives' = keepAlives \ {sid}
          /\ UNCHANGED <<toSink, requestVars>>
       \/ /\ sid = mClientSessionID
          /\ Send(sid, "M16")
          /\ IF sid \in open THEN ScheduleKeepAlive(sid)
                             ELSE keepAlives' = keepAlives \ {sid}
  /\ UNCHANGED <<nextSession, open, inbox, mState, clientVars, hdcpVars, mReaperPending,
                 delayed, playbackVars, stopVars, display, errorReported, life>>

\* kWhatTeardownTriggerTimedOut
TeardownTriggerTimedOut ==
  /\ Alive
  /\ "TeardownTriggerTimedOut" \in delayed
  /\ delayed' = delayed \ {"TeardownTriggerTimedOut"}
  /\ \/ /\ mState = AWAITING_CLIENT_TEARDOWN
        /\ FinishStop
        /\ UNCHANGED finishStopRest
     \/ /\ mState # AWAITING_CLIENT_TEARDOWN
        /\ UNCHANGED <<nextSession, open, mState, clientVars, mNextCSeq, hdcpVars,
                       mReaperPending, keepAlives, playbackVars, mSessionID,
                       stopReplies, display, errorReported, life>>
  /\ UNCHANGED <<inbox, toSink, mResponseHandlers, mStopReplyID>>

\* kWhatFinishStop2, 300 ms after the HDCP module was shut down
FinishStop2Delayed ==
  /\ Alive
  /\ "FinishStop2" \in delayed
  /\ delayed' = delayed \ {"FinishStop2"}
  /\ FinishStop2
  /\ UNCHANGED <<netVars, clientVars, requestVars, mUsingHDCP, hdcpPending,
                 mHDCPInitializationComplete, mSetupTriggerDeferred, mReaperPending,
                 keepAlives, playbackVars, mStopReplyID, display, errorReported, life>>

------------------------------------------------------------------------------
(* kWhatPlaybackSessionNotify.  A PlaybackSession posts Established once, Dead   *)
(* while it lives, and Destroyed last, after destroyAsync.                       *)

SessionDead ==
  /\ Alive
  /\ playback \in {"running", "destroying"}
  /\ OnDisplayErrorIf(TRUE)
  /\ UNCHANGED <<netVars, mState, clientVars, requestVars, hdcpVars, timerVars,
                 playbackVars, stopVars, display, life>>

\* finishPlay starts the media even when the sink has not asked for PLAY yet.
SessionEstablished ==
  /\ Alive
  /\ playback \in {"running", "destroying"}
  /\ ~mPlaybackSessionEstablished
  /\ mPlaybackSessionEstablished' = TRUE
  /\ display' = "connected"
  /\ streaming' = TRUE
  /\ mState' = IF mState = ABOUT_TO_PLAY THEN PLAYING ELSE mState
  /\ UNCHANGED <<netVars, clientVars, requestVars, hdcpVars, timerVars, playback,
                 lifesign, stopVars, errorReported, life>>

SessionDestroyed ==
  /\ Alive
  /\ playback = "destroying"
  /\ playback' = "gone"
  /\ DisconnectClient2(mState)
  /\ UNCHANGED <<finishStopRest, mResponseHandlers, mStopReplyID, delayed, inbox, toSink>>

\* kPlaybackSessionTimeoutUs pass without a lifesign
LifesignExpires ==
  /\ Alive
  /\ lifesign
  /\ lifesign' = FALSE
  /\ UNCHANGED <<netVars, mState, clientVars, requestVars, hdcpVars, timerVars,
                 mPlaybackSessionEstablished, playback, streaming, stopVars, display,
                 errorReported, life>>

------------------------------------------------------------------------------
(* kWhatHDCPNotify *)

\* mutant: the deferral is cleared before it is looked at
HDCPInitializedClearsFirst ==
  /\ Alive
  /\ "initialized" \in hdcpPending
  /\ hdcpPending' = hdcpPending \ {"initialized"}
  /\ mHDCPInitializationComplete' = TRUE
  /\ mSetupTriggerDeferred' = FALSE
  /\ UNCHANGED <<netVars, mState, clientVars, requestVars, mUsingHDCP, mHDCP,
                 timerVars, playbackVars, stopVars, display, errorReported, life>>

HDCPInitialized ==
  /\ Alive
  /\ "initialized" \in hdcpPending
  /\ hdcpPending' = hdcpPending \ {"initialized"}
  /\ mHDCPInitializationComplete' = TRUE
  /\ mSetupTriggerDeferred' = FALSE
  /\ IF mSetupTriggerDeferred
     THEN Send(mClientSessionID, "SETUP")
     ELSE UNCHANGED <<toSink, requestVars>>
  /\ UNCHANGED <<nextSession, open, inbox, mState, clientVars, mUsingHDCP, mHDCP,
                 timerVars, playbackVars, stopVars, display, errorReported, life>>

HDCPShutdown ==
  /\ Alive
  /\ "shutdown" \in hdcpPending
  /\ hdcpPending' = hdcpPending \ {"shutdown"}
  /\ delayed' = delayed \cup {"FinishStop2"}
  /\ UNCHANGED <<netVars, mState, clientVars, requestVars, mUsingHDCP, mHDCP,
                 mHDCPInitializationComplete, mSetupTriggerDeferred, mReaperPending,
                 keepAlives, playbackVars, stopVars, display, errorReported, life>>

HDCPFailed ==
  /\ Alive
  /\ "failed" \in hdcpPending
  /\ hdcpPending' = hdcpPending \ {"failed"}
  /\ OnDisplayErrorIf(TRUE)
  /\ UNCHANGED <<netVars, mState, clientVars, requestVars, mUsingHDCP, mHDCP,
                 mHDCPInitializationComplete, mSetupTriggerDeferred, timerVars,
                 playbackVars, stopVars, display, life>>

------------------------------------------------------------------------------
(* The next-state relation, by who makes the source move *)

CSeqLeft == mNextCSeq <= MaxCSeq

ServiceCalls == Start \/ Stop \/ Release

TriggerCalls == CSeqLeft /\ (Pause \/ Resume)

ConnectionHandlers ==
  RejectClient \/ ClientConnectedAbort \/ ClientConnected \/ SessionError

ResponseHandlers ==
  \/ UnsolicitedResponse \/ StatusResponse \/ M3Response \/ M4Abort \/ M4Response
  \/ M16Response \/ M16ResponseAbort

RequestHandlers ==
  \/ OptionsRequest \/ SetupRefused \/ SetupAccepted \/ SetupAbort
  \/ PlayRefused \/ PlayAccepted \/ PauseRefused \/ PauseIgnored \/ PauseAccepted
  \/ TeardownRefused \/ TeardownUnasked \/ TeardownRequest
  \/ ParameterRefused \/ ParameterAccepted \/ OtherRequest

NetworkHandlers == ConnectionHandlers \/ ResponseHandlers \/ RequestHandlers

SendKeepAlive == CSeqLeft /\ KeepAlive

Timers == ReapDeadClients \/ TeardownTriggerTimedOut \/ FinishStop2Delayed

PlaybackHandlers == SessionDead \/ SessionEstablished \/ SessionDestroyed

HDCPHandlers == HDCPInitialized \/ HDCPShutdown \/ HDCPFailed

SourceNext ==
  \/ ServiceCalls \/ TriggerCalls \/ NetworkHandlers \/ SendKeepAlive \/ Timers
  \/ SetupFailed \/ PlaybackHandlers \/ LifesignExpires \/ HDCPHandlers

------------------------------------------------------------------------------
(* Properties, for whatever drives the source *)

SourceTyped == NetTypeOK /\ SourceTypeOK

Dead == life \in FailingChecks

\* The CHECKs no order of events makes fail, each as what its handler needs.
\* kWhatStop: CHECK_LT(mState, AWAITING_CLIENT_TEARDOWN); read the other way, the
\* CHECK_NE(mStopReplyID, 0) of the TEARDOWN request and of its timeout
StopCheck == mStopReplyID = 0 => mState < AWAITING_CLIENT_TEARDOWN

\* onPlayRequest, now that it also takes PLAY in PAUSED: a session that was
\* paused is established, so CHECK_EQ(mState, AWAITING_CLIENT_PLAY) is only
\* reached in that state
PlayCheck == mState \in PLAYING .. PAUSED_TO_PLAYING => mPlaybackSessionEstablished

\* kWhatSessionEstablished and finishPlay use mPlaybackSession unchecked
SessionCheck == playback \in {"running", "destroying"} => mPlaybackSession

\* No order in which the network, the playback session, the timers and the
\* display service post their messages makes one of these CHECKs fail.
ChecksHold == StopCheck /\ PlayCheck /\ SessionCheck

\* What RTSP state the sink was told is what the media does, as long as there is
\* a sink: playing media streams, paused media does not.
MediaFollowsState ==
  mClientSessionID # NoSession =>
    /\ mState \in {PLAYING, PLAYING_TO_PAUSED} => streaming
    /\ mState \in {PAUSED, PAUSED_TO_PLAYING} => ~streaming

\* A sink with a playback session is always watched: the reaper is posted, and so
\* is the next keep-alive; neither chain of delayed messages can break off.
WatchdogArmed ==
  mClientSessionID # NoSession /\ mPlaybackSession =>
    mReaperPending /\ mClientSessionID \in keepAlives

\* The SETUP trigger waits for the HDCP handshake only while that is unfinished, whichever
\* of the M4 response and the module's notification comes first, and whoever ends the wait
\* sends it to the client that is there then.
DeferralWaits == mSetupTriggerDeferred => ~mHDCPInitializationComplete

DeferralEnds ==
  mSetupTriggerDeferred /\ ~mSetupTriggerDeferred' /\ mClientSessionID # NoSession =>
    toSink' = [toSink EXCEPT ![mClientSessionID] = @ \o <<Request("SETUP", mNextCSeq)>>]

SetupTriggerNotLost == []DeferralWaits /\ [][DeferralEnds]_vars

AnnouncedConnections ==
  {inbox[i].sid : i \in {j \in 1 .. Len(inbox) : inbox[j].what = "connected"}}

\* No connection leaks: the network keeps the client's, and those whose
\* kWhatClientConnected the source has still to handle.
NoLeakedConnection == open \subseteq {mClientSessionID} \cup AnnouncedConnections

\* The reply to stop() is posted once, when nothing of the session is left.
StopAnsweredOnce ==
  /\ stopReplies <= 1
  /\ stopReplies = 1 => /\ mState = STOPPED
                        /\ mClientSessionID = NoSession
                        /\ ~mPlaybackSession
                        /\ mSessionID = 0
                        /\ display = "disconnected"

\* Why ChecksHold, StopAnsweredOnce and the refinement below hold, inductively.
\* A stop passes through three waits, one at a time: for the playback session to
\* be destroyed, for the HDCP module to shut down, for the delayed FinishStop2.
Destroying   == playback = "destroying"
ShuttingDown == "shutdown" \in hdcpPending
Finishing    == "FinishStop2" \in delayed

StopStages ==
  /\ mStopReplyID = 0 <=> mState < AWAITING_CLIENT_TEARDOWN
  /\ Destroying \/ ShuttingDown \/ Finishing => mState = STOPPING
  /\ ~(Destroying /\ ShuttingDown)
  /\ ~(Destroying /\ Finishing)
  /\ ~(ShuttingDown /\ Finishing)
  /\ mState = STOPPED => stopReplies = 1 /\ mSessionID = 0
  /\ mState # STOPPED => stopReplies = 0

\* The playback session exists from SETUP until it has been destroyed.
SessionStages ==
  /\ mPlaybackSession <=> playback \in {"running", "destroying"}
  /\ mPlaybackSession => mPlaybackSessionID
  /\ mState <= AWAITING_CLIENT_SETUP => playback = "none"
  /\ mState >= AWAITING_CLIENT_PLAY /\ mClientSessionID # NoSession => mPlaybackSessionID

\* The display is announced by a live playback session and reported gone after it.
DisplayStages ==
  /\ display = "connected" => mPlaybackSessionEstablished
  /\ display = "disconnected" =>
       mState >= STOPPING /\ ~mPlaybackSession /\ mClientSessionID = NoSession
  /\ ShuttingDown \/ Finishing \/ mState = STOPPED => display = "disconnected"

Stages == PlayCheck /\ StopStages /\ SessionStages /\ DisplayStages

\* Why NoLeakedConnection holds, inductively: the client's connection is open, ids
\* are given in order, and a connection is announced before anything else is heard
\* of it, while it is open and not yet the client's.
ClientIsOpen == mClientSessionID # NoSession => mClientSessionID \in open

IdsInOrder ==
  /\ \A s \in open \cup {mClientSessionID} : s < nextSession
  /\ \A i \in 1 .. Len(inbox) : inbox[i].sid < nextSession

AnnouncedFirst ==
  \A i \in 1 .. Len(inbox) : inbox[i].what = "connected" =>
    /\ inbox[i].sid \in open \ {mClientSessionID}
    /\ \A j \in 1 .. (i - 1) : inbox[j].sid # inbox[i].sid

Connections == ClientIsOpen /\ IdsInOrder /\ AnnouncedFirst /\ NoLeakedConnection
==============================================================================
