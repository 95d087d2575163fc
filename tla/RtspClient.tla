----------------------------- MODULE RtspClient -----------------------------
(***************************************************************************)
(* The RTSP half of the Linux client (RtspClient.cpp, rtsp.cpp, and the    *)
(* monitor commands of main.cpp).  A reader thread walks through the       *)
(* handshake by a counter, RtspState, and by nothing else: it looks        *)
(* neither at the status nor at the CSeq of a response.  The main thread   *)
(* writes PLAY and PAUSE to the same socket when the phone asks for it.    *)
(*                                                                         *)
(* A thread that writes to a connection the phone closed may lose the      *)
(* message, get an error (SendRtspData throws) or be killed by SIGPIPE,    *)
(* which main() leaves at its default.                                     *)
(***************************************************************************)
EXTENDS ANetworkSession

VARIABLES
  RtspSocket,    \* the connection, or NoSession for -1
  RtspState,     \* 0 .. 8
  reader,        \* the reader thread: "none", "running", "spinning", "ended"
  process        \* "running" or "dead"

rtspVars == <<RtspSocket, RtspState, reader, process>>

RtspTypeOK ==
  /\ RtspSocket \in Session \cup {NoSession}
  /\ RtspState \in 0 .. 8
  /\ reader \in {"none", "running", "spinning", "ended"}
  /\ process \in {"running", "dead"}

RtspInit ==
  /\ RtspSocket = NoSession
  /\ RtspState = 0
  /\ reader = "none"
  /\ process = "running"

RtspRequest(method) == [kind |-> "request", method |-> method, good |-> TRUE]
RtspResponse(cseq)  == [kind |-> "response", cseq |-> cseq, body |-> "plain"]

ConnectionUp == RtspSocket \in open

\* The process dies; the kernel closes its socket, which the phone sees as an error.
Dies ==
  /\ process' = "dead"
  /\ IF ConnectionUp THEN PostError(RtspSocket) ELSE UNCHANGED inbox

\* mutant: main() connects again although it is connected
ConnectRtspServerAgain ==
  /\ process = "running"
  /\ Accept(FALSE)
  /\ RtspSocket' = nextSession
  /\ reader' = "running"
  /\ UNCHANGED <<RtspState, process>>

\* main() retries ConnectRtspServer every second and then starts the reader.
ConnectRtspServer ==
  /\ process = "running"
  /\ RtspSocket = NoSession
  /\ reader = "none"
  /\ Accept(FALSE)
  /\ RtspSocket' = nextSession
  /\ reader' = "running"
  /\ UNCHANGED <<RtspState, process>>

\* The bytes of one or two messages reach the phone in order.
Written(msgs) ==
  inbox' = inbox \o [i \in DOMAIN msgs |->
                       [what |-> "data", sid |-> RtspSocket, msg |-> msgs[i]]]

\* SendRtspData in the reader thread, for what one packet makes it send, and the
\* RtspState it reaches: unless the write fails, and the exception ends the thread.
ReaderSends(msgs, state) ==
  \/ /\ ConnectionUp
     /\ Written(msgs)
     /\ RtspState' = state
     /\ UNCHANGED <<RtspSocket, reader, process>>
  \/ /\ ~ConnectionUp
     /\ RtspState' = state
     /\ UNCHANGED <<inbox, RtspSocket, reader, process>>
  \/ /\ ~ConnectionUp
     /\ RtspSocket' = NoSession
     /\ reader' = "ended"
     /\ UNCHANGED <<inbox, RtspState, process>>
  \/ /\ ~ConnectionUp
     /\ Dies
     /\ UNCHANGED <<RtspState, RtspSocket, reader>>

\* The reader thread takes the next packet from the stream.
Reading ==
  /\ process = "running"
  /\ reader = "running"
  /\ RtspSocket # NoSession
  /\ toSink[RtspSocket] # << >>

Packet == Head(toSink[RtspSocket])

Consumed == toSink' = [toSink EXCEPT ![RtspSocket] = Tail(@)]

PacketIs(tags) == Packet.kind = "request" /\ Packet.tag \in tags

ReceiveOptions ==
  /\ Reading
  /\ PacketIs({"M1"})
  /\ Consumed
  /\ ReaderSends(<<RtspResponse(Packet.cseq), RtspRequest("OPTIONS")>>, 2)
  /\ UNCHANGED <<nextSession, open>>

\* GET_PARAMETER is taken for the M3 of a handshake in any state but the last.
ReceiveGetParameter ==
  /\ Reading
  /\ PacketIs({"M3", "M16"})
  /\ Consumed
  /\ ReaderSends(<<RtspResponse(Packet.cseq)>>, IF RtspState = 8 THEN 8 ELSE 3)
  /\ UNCHANGED <<nextSession, open>>

\* mutant: the SETUP trigger is counted as two steps
ReceiveSetParameterSkips ==
  /\ Reading
  /\ PacketIs({"M4", "SETUP", "PLAY", "PAUSE", "TEARDOWN"})
  /\ Consumed
  /\ \/ /\ RtspState = 3
        /\ ReaderSends(<<RtspResponse(Packet.cseq)>>, 4)
     \/ /\ RtspState = 4
        /\ ReaderSends(<<RtspResponse(Packet.cseq), RtspRequest("SETUP")>>, 7)
     \/ /\ RtspState \notin {3, 4}
        /\ UNCHANGED <<inbox, rtspVars>>
  /\ UNCHANGED <<nextSession, open>>

\* The first SET_PARAMETER is M4, the second the SETUP trigger, whatever they
\* hold; in any other state a trigger gets no answer.
ReceiveSetParameter ==
  /\ Reading
  /\ PacketIs({"M4", "SETUP", "PLAY", "PAUSE", "TEARDOWN"})
  /\ Consumed
  /\ \/ /\ RtspState = 3
        /\ ReaderSends(<<RtspResponse(Packet.cseq)>>, 4)
     \/ /\ RtspState = 4
        /\ ReaderSends(<<RtspResponse(Packet.cseq), RtspRequest("SETUP")>>, 6)
     \/ /\ RtspState \notin {3, 4}
        /\ UNCHANGED <<inbox, rtspVars>>
  /\ UNCHANGED <<nextSession, open>>

\* mutant: every response is counted
AdvanceOnEveryResponse ==
  \/ /\ RtspState = 6
     /\ ReaderSends(<<RtspRequest("PLAY")>>, 7)
  \/ /\ RtspState >= 7
     /\ ReaderSends(<<RtspRequest("PAUSE")>>, RtspState + 1)
  \/ /\ RtspState < 6
     /\ UNCHANGED <<inbox, rtspVars>>

\* Any response moves a client in state 6 to PLAY and one in state 7 to PAUSE.
AdvanceOnResponse ==
  \/ /\ RtspState = 6
     /\ ReaderSends(<<RtspRequest("PLAY")>>, 7)
  \/ /\ RtspState = 7
     /\ ReaderSends(<<RtspRequest("PAUSE")>>, 8)
  \/ /\ RtspState \notin {6, 7}
     /\ UNCHANGED <<inbox, rtspVars>>

\* setHeader splits the status line into an array of three strings.  The reason
\* phrase of an error has more than one word: writing past the array is undefined,
\* so the process may go on or die.
ReceiveResponse ==
  /\ Reading
  /\ Packet.kind = "response"
  /\ Consumed
  /\ \/ AdvanceOnResponse
     \/ /\ Packet.code # 200
        /\ Dies
        /\ UNCHANGED <<RtspSocket, RtspState, reader>>
  /\ UNCHANGED <<nextSession, open>>

\* At the end of the stream ReadRtspLine returns "" for ever, which is not the
\* "\r\n" that ReadRtspPacket waits for: the thread never leaves its loop.
ReadEndOfStream ==
  /\ process = "running"
  /\ reader = "running"
  /\ RtspSocket # NoSession
  /\ ~ConnectionUp
  /\ reader' = "spinning"
  /\ UNCHANGED <<netVars, RtspSocket, RtspState, process>>

\* requestPlay and requestPause, in the main thread, where the exception of
\* SendRtspData is not caught.
MainSends(method) ==
  /\ process = "running"
  /\ reader # "none"
  /\ \/ /\ ConnectionUp
        /\ Written(<<RtspRequest(method)>>)
        /\ UNCHANGED process
     \/ /\ ~ConnectionUp
        /\ process' \in {"running", "dead"}
        /\ RtspSocket = NoSession => process' = "dead"
        /\ UNCHANGED inbox
  /\ UNCHANGED <<nextSession, open, toSink, RtspSocket, RtspState, reader>>

requestPlay  == MainSends("PLAY")
requestPause == MainSends("PAUSE")

\* The process ends (closeApp, a signal, a crash): the kernel closes the socket.
ProcessEnds ==
  /\ process = "running"
  /\ Dies
  /\ UNCHANGED <<nextSession, open, toSink, RtspSocket, RtspState, reader>>

\* It is started again: main() from the top.
ProcessRestarts ==
  /\ process = "dead"
  /\ RtspSocket' = NoSession
  /\ RtspState' = 0
  /\ reader' = "none"
  /\ process' = "running"
  /\ UNCHANGED netVars
==============================================================================
