--------------------------- MODULE ANetworkSession ---------------------------
(***************************************************************************)
(* The network side of the mirroring source, as WifiDisplaySource.cpp uses *)
(* it.  ANetworkSession itself is not part of the repository: its thread   *)
(* accepts connections, frames the RTSP bytes and posts one notification   *)
(* per event to the looper of WifiDisplaySource, in the order the events   *)
(* happened on the socket.  Notifications already posted for a session     *)
(* stay in the looper's queue when that session is destroyed.              *)
(*                                                                         *)
(* A stream keeps its order and loses nothing while the connection is up.  *)
(* A message is a whole RTSP request or response: only what the receiver's *)
(* control flow reads of it is kept.                                       *)
(***************************************************************************)
EXTENDS Naturals, Sequences

CONSTANT MaxSessions      \* how many connections are accepted in a behaviour

ASSUME MaxSessionsAssumption == MaxSessions \in Nat

VARIABLES
  nextSession,   \* id of the next connection accepted
  open,          \* the sessions ANetworkSession knows (sendRequest succeeds)
  inbox,         \* notifications posted to the source's looper, oldest first
  toSink         \* per session, what was sent to the sink and not read yet

netVars == <<nextSession, open, inbox, toSink>>

Session   == 1 .. MaxSessions
NoSession == 0

Methods == {"OPTIONS", "SETUP", "PLAY", "PAUSE", "TEARDOWN",
            "GET_PARAMETER", "SET_PARAMETER", "OTHER"}

\* What a sink sends.  good: the request is well formed and its Session header
\* is absent or names the current playback session.  body: "error" stands for a
\* status other than 200 and for contents the handler refuses, "hdcp" for an M3
\* response that announces wfd_content_protection.
SinkRequest  == [kind: {"request"}, method: Methods, good: BOOLEAN]
SinkResponse == [kind: {"response"}, cseq: Nat, body: {"plain", "hdcp", "error"}]

Notification ==
    [what: {"connected"}, sid: Session, local: BOOLEAN]
      \cup [what: {"data"}, sid: Session, msg: SinkRequest \cup SinkResponse]
      \cup [what: {"error"}, sid: Session]

\* What the source sends: the requests of the handshake, by the name the code
\* gives them (a SET_PARAMETER trigger by its wfd_trigger_method), and responses.
Tags == {"M1", "M3", "M4", "M16", "SETUP", "PLAY", "PAUSE", "TEARDOWN"}

SourceMessage == [kind: {"request"}, tag: Tags, cseq: Nat]
                   \cup [kind: {"response"}, code: Nat]

Request(tag, cseq) == [kind |-> "request", tag |-> tag, cseq |-> cseq]
Response(code)     == [kind |-> "response", code |-> code]

NetTypeOK ==
  /\ nextSession \in 1 .. (MaxSessions + 1)
  /\ open \subseteq Session
  /\ inbox \in Seq(Notification)
  /\ toSink \in [Session -> Seq(SourceMessage)]

NetInit ==
  /\ nextSession = 1
  /\ open = {}
  /\ inbox = << >>
  /\ toSink = [s \in Session |-> << >>]

\* sendRequest appends to the stream of a session that still exists.
Deliver(sid, msgs) ==
  toSink' = IF sid \in open THEN [toSink EXCEPT ![sid] = @ \o msgs] ELSE toSink

\* The network thread accepts a connection and posts kWhatClientConnected.
Accept(local) ==
  /\ nextSession \in Session
  /\ nextSession' = nextSession + 1
  /\ open' = open \cup {nextSession}
  /\ inbox' = Append(inbox, [what |-> "connected", sid |-> nextSession, local |-> local])
  /\ UNCHANGED toSink

\* A whole message of the sink was read: kWhatData.
PostData(sid, msg) ==
  inbox' = Append(inbox, [what |-> "data", sid |-> sid, msg |-> msg])

\* Reading or writing the socket failed: kWhatError.
PostError(sid) ==
  inbox' = Append(inbox, [what |-> "error", sid |-> sid])
==============================================================================
