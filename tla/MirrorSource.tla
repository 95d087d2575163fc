---------------------------- MODULE MirrorSource ----------------------------
(***************************************************************************)
(* WifiDisplaySource driven by every sink that waits to be spoken to: one  *)
(* that connects, answers or ignores what it is sent, sends any request at *)
(* any moment once it is the client, and drops the connection at any       *)
(* moment.  The sink of the repository may also write before it is spoken  *)
(* to; it is the one of module PhonetopLink.                               *)
(***************************************************************************)
EXTENDS WifiDisplaySource

CONSTANTS
  MaxInbox,    \* notifications waiting in the looper's queue
  MaxUnread,   \* messages the sink has not read
  Requests,    \* the requests the sink may send
  Answers      \* what it may do with a request: answer with a body, or "ignore" it

ASSUME BoundsAssumption == {MaxInbox, MaxUnread} \subseteq Nat

ASSUME SinkAssumption ==
  /\ Requests \subseteq SinkRequest
  /\ Answers \subseteq {"plain", "hdcp", "error", "ignore"}

VARIABLE up    \* the connections whose socket has not failed

allVars == <<vars, up>>

Init ==
  /\ NetInit
  /\ SourceInit
  /\ up = {}

------------------------------------------------------------------------------
(* The sink *)

InboxLeft == Len(inbox) < MaxInbox

SinkConnects ==
  /\ Alive
  /\ mSessionID # 0
  /\ InboxLeft
  /\ \E local \in BOOLEAN : Accept(local)
  /\ up' = up \cup {nextSession}
  /\ UNCHANGED sourceVars

\* The sink reads a message; a request it answers, in some way, or ignores.
SinkReads(sid) ==
  /\ Alive
  /\ sid \in up
  /\ toSink[sid] # << >>
  /\ toSink' = [toSink EXCEPT ![sid] = Tail(@)]
  /\ LET msg == Head(toSink[sid]) IN
       \/ /\ msg.kind = "response" \/ sid \notin open \/ "ignore" \in Answers
          /\ UNCHANGED inbox
       \/ /\ msg.kind = "request"
          /\ sid \in open
          /\ InboxLeft
          /\ \E body \in Answers \ {"ignore"} :
               PostData(sid, [kind |-> "response", cseq |-> msg.cseq, body |-> body])
  /\ UNCHANGED <<nextSession, open, sourceVars, up>>

\* In a handshake the source speaks first, and only the client it accepted was
\* sent an M1: a connection it refused, or has not handled yet, sends nothing.
SinkSends(sid) ==
  /\ Alive
  /\ sid \in up /\ sid = mClientSessionID
  /\ InboxLeft
  /\ CSeqLeft
  /\ Len(toSink[sid]) < MaxUnread
  /\ \E request \in Requests : PostData(sid, request)
  /\ UNCHANGED <<nextSession, open, toSink, sourceVars, up>>

SinkDrops(sid) ==
  /\ Alive
  /\ sid \in up /\ sid \in open
  /\ InboxLeft
  /\ PostError(sid)
  /\ up' = up \ {sid}
  /\ UNCHANGED <<nextSession, open, toSink, sourceVars>>

SinkNext ==
  \/ SinkConnects
  \/ \E sid \in Session : SinkReads(sid) \/ SinkSends(sid) \/ SinkDrops(sid)

Next ==
  \/ SourceNext /\ UNCHANGED up
  \/ SinkNext

Spec == Init /\ [][Next]_allVars

\* What the looper and the modules behind it always do in the end: deliver the
\* delayed messages and the notifications, and destroy the playback session.
\* Nothing is assumed of the sink, of the network or of the display service.
SourceProgress ==
  /\ WF_allVars(TeardownTriggerTimedOut /\ UNCHANGED up)
  /\ WF_allVars(FinishStop2Delayed /\ UNCHANGED up)
  /\ WF_allVars(SessionDestroyed /\ UNCHANGED up)
  /\ WF_allVars(HDCPShutdown /\ UNCHANGED up)
  /\ WF_allVars(ReapDeadClients /\ UNCHANGED up)

FairSpec == Spec /\ SourceProgress

------------------------------------------------------------------------------
(* Properties *)

TypeOK == SourceTyped /\ up \subseteq Session

\* Nothing a sink or a late notification does brings a stopping source back.
StopNeverUndone ==
  [][mState >= AWAITING_CLIENT_TEARDOWN => mState' >= mState]_allVars

\* stop() is answered whatever the sink does: one that never answers the TEARDOWN
\* trigger, one that is lost meanwhile, one that sends requests for ever; and
\* whichever step of the shutdown of the playback session and of the HDCP module
\* the source was in.  Only a CHECK that fails can prevent it.
StopAnswered == mStopReplyID = 1 ~> stopReplies = 1 \/ Dead

\* A sink with a playback session that gives no more lifesign is dropped.
SilentSinkDropped ==
  (mClientSessionID # NoSession /\ playback = "running")
    ~> (mClientSessionID = NoSession \/ Dead \/ lifesign)

\* What the display service sees of its stop().
StopSeen == IF stopReplies > 0 THEN "answered"
            ELSE IF mStopReplyID # 0 THEN "called" ELSE "no"

Service == INSTANCE DisplaySession WITH
  phase <- display, stop <- StopSeen, fault <- errorReported, dead <- Dead

\* The source implements what the display service relies on: a display is announced
\* before it is gone, and stop() is answered once, after that.
ImplementsDisplaySession == Service!Spec

\* Why MediaFollowsState holds, with the other invariants: a request is the
\* client's, or was one's that is gone, and there is a client only after start().
RequestsOfClient ==
  /\ mState <= AWAITING_CLIENT_CONNECTION => mClientSessionID = NoSession
  /\ \A i \in 1 .. Len(inbox) : inbox[i].what = "data" /\ inbox[i].msg.kind = "request" =>
       /\ mState > AWAITING_CLIENT_CONNECTION
       /\ mClientSessionID \in {NoSession, inbox[i].sid}
==============================================================================
