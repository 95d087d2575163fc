---------------------------- MODULE PhonetopLink ----------------------------
(***************************************************************************)
(* The screen link of the product: the mirroring source of the phone       *)
(* (WifiDisplaySource) and the Linux client (RtspClient), over one RTSP    *)
(* connection.  The phone switches the monitor on and off by two commands  *)
(* the client gets over its input connection and turns into PLAY and PAUSE *)
(* requests, while the client's reader thread goes through the handshake.  *)
(*                                                                         *)
(* Delays of seconds are taken to be longer than a round trip over the     *)
(* cable: a keep-alive finds no message under way, and a lifesign expires  *)
(* only when the client does not answer any more.                          *)
(***************************************************************************)
EXTENDS WifiDisplaySource, RtspClient

CONSTANTS
  MaxCommands,      \* bound on the monitor commands
  Faults,           \* may the client process end and be started again, and the
                    \* playback session fail to start?
  Stops             \* may the display service stop the source?

ASSUME LinkAssumption ==
  /\ MaxCommands \in Nat
  /\ {Faults, Stops} \subseteq BOOLEAN

VARIABLES
  commands,         \* monitor commands so far
  monitor,          \* the last one given since the link is ready, or "none"
  early             \* was one given before the link was ready?

linkVars == <<commands, monitor, early>>
allVars  == <<vars, rtspVars, linkVars>>

Init ==
  /\ NetInit
  /\ SourceInit
  /\ RtspInit
  /\ commands = 0
  /\ monitor = "none"
  /\ early = FALSE

------------------------------------------------------------------------------
(* The source *)

Healthy == process = "running" /\ reader = "running" /\ ConnectionUp

Quiet == inbox = << >> /\ (RtspSocket \in Session => toSink[RtspSocket] = << >>)

SourceStep ==
  /\ \/ Start
     \/ Stops /\ (Stop \/ Release)
     \/ NetworkHandlers
     \/ Faults /\ SetupFailed
     \/ Timers
     \/ PlaybackHandlers
     \/ Quiet /\ SendKeepAlive
     \/ ~Healthy /\ LifesignExpires
  /\ UNCHANGED <<rtspVars, linkVars>>

------------------------------------------------------------------------------
(* The client *)

ReaderStep ==
  \/ ReceiveOptions \/ ReceiveGetParameter \/ ReceiveSetParameter \/ ReceiveResponse
  \/ ReadEndOfStream

\* The reader will not write PLAY or PAUSE of its own any more, and the media can
\* be started and stopped.
LinkReady == RtspState = 8 /\ mPlaybackSessionEstablished

\* main() has connected both sockets when the first command can be read.
Command ==
  /\ commands < MaxCommands
  /\ commands' = commands + 1
  /\ early' = (early \/ ~LinkReady)
  /\ \E command \in {"START", "SLEEP"} :
       /\ IF command = "START" THEN requestPlay ELSE requestPause
       /\ monitor' = IF LinkReady THEN command ELSE monitor

ClientStep ==
  /\ Alive
  /\ \/ mSessionID # 0 /\ ConnectRtspServer /\ UNCHANGED linkVars
     \/ ReaderStep /\ UNCHANGED linkVars
     \/ Command
     \/ Faults /\ ProcessEnds /\ UNCHANGED linkVars
     \/ Faults /\ ProcessRestarts /\ monitor' = "none" /\ early' = FALSE
        /\ UNCHANGED commands
  /\ UNCHANGED sourceVars

Next == SourceStep \/ ClientStep

Spec == Init /\ [][Next]_allVars

\* Both ends run: the looper handles what is posted to it, the playback session
\* announces itself, main() retries the connection, the reader thread reads.
FairSpec ==
  /\ Spec
  /\ WF_allVars(Start /\ UNCHANGED <<rtspVars, linkVars>>)
  /\ WF_allVars(NetworkHandlers /\ UNCHANGED <<rtspVars, linkVars>>)
  /\ WF_allVars(SessionEstablished /\ UNCHANGED <<rtspVars, linkVars>>)
  /\ WF_allVars(Alive /\ mSessionID # 0 /\ ConnectRtspServer
                  /\ UNCHANGED <<linkVars, sourceVars>>)
  /\ WF_allVars(Alive /\ ReaderStep /\ UNCHANGED <<linkVars, sourceVars>>)

------------------------------------------------------------------------------
(* Properties *)

TypeOK ==
  /\ SourceTyped
  /\ RtspTypeOK
  /\ commands \in 0 .. MaxCommands
  /\ monitor \in {"none", "START", "SLEEP"}
  /\ early \in BOOLEAN

\* The client walks through the handshake by counting responses; as long as the
\* main thread writes nothing before the link is ready, and no SETUP fails because the
\* playback session cannot be made (its refusal is counted like an acceptance), the
\* count is right: in state 7 the source has accepted the SETUP, in state 8 also the PLAY.
StagesAgree ==
  /\ Healthy /\ ~early
  /\ mClientSessionID = RtspSocket /\ mState < AWAITING_CLIENT_TEARDOWN
  =>
    /\ RtspState >= 7 => mPlaybackSession /\ mState >= AWAITING_CLIENT_PLAY
    /\ RtspState = 8 => mState >= ABOUT_TO_PLAY

\* The last command given since the link was ready decides what the media does,
\* however many were given in a row and whatever the client's own PAUSE did: a
\* refused PLAY or an ignored PAUSE is one that had nothing to change.
MonitorFollowsCommand ==
  Quiet /\ Healthy /\ monitor # "none" /\ mState < AWAITING_CLIENT_TEARDOWN =>
    streaming = (monitor = "START")

\* The link gets ready whatever commands come meanwhile and however they are
\* mistaken for answers of the handshake, unless the client process dies of one or
\* the display service stops the source.
ServerNotCreated == mState # INITIALIZED /\ mSessionID = 0

LinkGetsReady ==
  <>(LinkReady \/ process = "dead" \/ ServerNotCreated \/ mStopReplyID = 1)

\* What the CHECK in kWhatClientConnected says: a client only ever connects to a
\* source that waits for one, also when main() is started again and retries.
ClientMayReconnect == mStopReplyID = 0 => life # "clientConnected"

\* What the CHECKs in sendM4, onSetupRequest and onReceiveM16Response say: no
\* message is handled for a client that stop() or the reaper has disconnected.
DisconnectedClientIsSilent ==
  life \notin {"sendM4", "onSetupRequest", "onReceiveM16Response"}

\* Why MediaFollowsState holds for this client, inductively: its connections come one
\* after the other, each closed, and the source told so, before the next is made;
\* so the queue holds what was heard of them in turn, and nothing of one before the
\* source's client.
ConnectionsInTurn ==
  /\ RtspSocket # NoSession => RtspSocket = nextSession - 1
  /\ \A s \in open : s # RtspSocket \/ process = "dead" =>
       \E i \in 1 .. Len(inbox) : inbox[i].what = "error" /\ inbox[i].sid = s
  /\ \A i \in 1 .. Len(inbox) : mClientSessionID <= inbox[i].sid
  /\ \A i, j \in 1 .. Len(inbox) : i < j => inbox[i].sid <= inbox[j].sid

------------------------------------------------------------------------------
(* The conversation *)

\* Why MonitorFollowsCommand holds, inductively: what the client asked for and the source
\* has not handled, and what the source told the client and it has not read.
Asks(i, method) ==
  /\ inbox[i].what = "data" /\ inbox[i].sid = RtspSocket
  /\ inbox[i].msg.kind = "request" /\ inbox[i].msg.method = method
Asked(method) == \E i \in 1 .. Len(inbox) : Asks(i, method)

Unread == toSink[RtspSocket]
Tells(i, tags) == Unread[i].kind = "request" /\ Unread[i].tag \in tags
Told(tags)     == \E i \in 1 .. Len(Unread) : Tells(i, tags)
Answered       == \E i \in 1 .. Len(Unread) : Unread[i].kind = "response"

\* The media are established for a playback session only, and a client is kept alive after
\* its SETUP only.
MediaBegins ==
  /\ mPlaybackSessionEstablished => playback # "none" /\ mState # ABOUT_TO_PLAY
  /\ playback \in {"destroying", "gone"} => mState >= STOPPING
  /\ keepAlives # {} => mState >= AWAITING_CLIENT_PLAY

\* A client begins with the first state and no command, and asks for nothing ill-formed.
ClientBegins ==
  /\ reader = "none" => RtspState = 0 /\ RtspSocket = NoSession /\ monitor = "none"
  /\ \A s \in Session : s >= nextSession => toSink[s] = << >>
  /\ \A i \in 1 .. Len(inbox) :
       inbox[i].what = "data" /\ inbox[i].msg.kind = "request" => inbox[i].msg.good

\* Before the source takes its connection, only commands can have been written.
Heard == Healthy /\ mClientSessionID = RtspSocket /\ mState < AWAITING_CLIENT_TEARDOWN

Unheard ==
  Healthy /\ mClientSessionID # RtspSocket =>
    /\ RtspState = 0
    /\ monitor = "none"
    /\ Unread = << >>
    /\ ~Asked("OPTIONS") /\ ~Asked("SETUP")

\* Then M1 is read first and leads to the only OPTIONS, and that to the only M3,
OpenedOnce ==
  /\ \A i \in 1 .. Len(Unread) : Tells(i, {"M1"}) => i = 1 /\ RtspState = 0
  /\ Told({"M3"}) \/ Asked("OPTIONS") => RtspState = 2
  /\ Told({"M3"}) => ~Asked("OPTIONS")
  /\ \A i, j \in 1 .. Len(Unread) : Tells(i, {"M3"}) /\ Tells(j, {"M3"}) => i = j
  /\ \A i, j \in 1 .. Len(inbox) : Asks(i, "OPTIONS") /\ Asks(j, "OPTIONS") => i = j

\* the client waits in 6 and 7 only for an answer it will get, and a keep-alive, which it
\* would take for another M3, finds it in 8,
InStep ==
  /\ Asked("SETUP") \/ mState >= AWAITING_CLIENT_PLAY => RtspState >= 6
  /\ RtspState = 6 => Asked("SETUP") \/ Answered
  /\ RtspState = 7 => Asked("PLAY") \/ Answered
  /\ Told({"M16"}) => RtspState = 8

\* no session waits for a PLAY that was sent before its SETUP,
PlayFollowsSetup ==
  RtspState >= 7 =>
    \/ \E i \in 1 .. Len(inbox) :
         Asks(i, "PLAY") /\ \A j \in i + 1 .. Len(inbox) : ~Asks(j, "SETUP")
    \/ ~Asked("SETUP") /\ (mPlaybackSession => mState >= ABOUT_TO_PLAY)

\* and what the client asks for last is what was commanded last, or the media do it.
Order == IF monitor = "START" THEN "PLAY" ELSE "PAUSE"

LastOrderStands ==
  monitor # "none" =>
    /\ LinkReady
    /\ \/ \E i \in 1 .. Len(inbox) :
            /\ Asks(i, Order)
            /\ \A j \in i + 1 .. Len(inbox) : ~Asks(j, "PLAY") /\ ~Asks(j, "PAUSE")
       \/ ~Asked("PLAY") /\ ~Asked("PAUSE") /\ streaming = (monitor = "START")

Conversation == OpenedOnce /\ InStep /\ PlayFollowsSetup /\ LastOrderStands

\* From the moment the client connects, what it and the source have asked each other and
\* not yet handled is a handshake that goes on and ends with the last command.
Obedience == MediaBegins /\ ClientBegins /\ Unheard /\ (Heard => Conversation)

\* Why StagesAgree holds, inductively: as long as no command falls into the handshake, one
\* thing is asked for at a time, and answered before the next.
Silent == \A method \in Methods : ~Asked(method)

AsksOnly(method) ==
  \E i \in 1 .. Len(inbox) :
    Asks(i, method) /\ \A j \in 1 .. Len(inbox), m \in Methods : Asks(j, m) => j = i

AnsweredOnce ==
  \E i \in 1 .. Len(Unread) :
    /\ Unread[i].kind = "response"
    /\ \A j \in 1 .. Len(Unread) : Unread[j].kind = "response" => j = i

\* The answer to OPTIONS, which the client reads in state 2, moves it nowhere: M3 comes next.
M3Follows ==
  \A i \in 1 .. Len(Unread) :
    Unread[i].kind = "response" => i + 1 \in 1 .. Len(Unread) /\ Tells(i + 1, {"M3"})

HandshakeInTurn ==
  /\ RtspState \notin {2, 6, 7, 8} => Silent /\ ~Answered
  /\ RtspState = 2 =>
       \/ AsksOnly("OPTIONS") /\ ~Answered
       \/ Silent /\ M3Follows
  /\ RtspState = 6 =>
       \/ AsksOnly("SETUP") /\ ~Answered /\ mState < AWAITING_CLIENT_PLAY
       \/ Silent /\ AnsweredOnce /\ mPlaybackSession /\ mState = AWAITING_CLIENT_PLAY
  /\ RtspState = 7 =>
       /\ mPlaybackSession
       /\ \/ AsksOnly("PLAY") /\ ~Answered /\ mState = AWAITING_CLIENT_PLAY
          \/ Silent /\ AnsweredOnce /\ mState >= ABOUT_TO_PLAY
  /\ RtspState = 8 => ~Asked("SETUP") /\ mPlaybackSession /\ mState >= ABOUT_TO_PLAY

\* It begins with a client that has set nothing up, so that its SETUP is not refused, and
\* has asked for nothing.
FreshClient == mState < AWAITING_CLIENT_PLAY => ~mPlaybackSessionID

UnheardIsSilent == ~early /\ Healthy /\ mClientSessionID # RtspSocket => Silent

Undisturbed == FreshClient /\ UnheardIsSilent /\ (~early /\ Heard => HandshakeInTurn)
==============================================================================
