----------------------------- MODULE InputClient -----------------------------
(***************************************************************************)
(* The process on the Linux side as the phone's input server sees it       *)
(* (main of main.cpp, ConnectInputServer of input.cpp): it connects, opens *)
(* its devices, and then waits for the mode bytes of the phone until the   *)
(* connection ends.  A process that ended may be started again.            *)
(***************************************************************************)
EXTENDS PhonetopService

VARIABLES
  process,         \* "ended", "opening" its devices, or "reading" modes
  InputSocket,     \* the instance it is connected to
  queued           \* is that connection behind the one the server accepts?

clientVars == <<process, InputSocket, queued>>

ClientInit == process = "ended" /\ InputSocket = NoInstance /\ queued = FALSE

ClientTypeOK ==
  /\ process \in {"ended", "opening", "reading"}
  /\ InputSocket \in Instance \cup {NoInstance}
  /\ queued \in BOOLEAN
  /\ process = "ended" <=> InputSocket = NoInstance

PhoneOnly == UNCHANGED <<androidVars, handler, uiMessages, destroying, overtaken>>

\* The server accepts one connection; the kernel completes those behind it all the same.
ConnectInputServer ==
  /\ process = "ended"
  /\ process' = "opening"
  /\ \E i \in Instance :
       /\ service[i].server = "open"
       /\ InputSocket' = i
       /\ queued' = (service[i].conn # "none")
       /\ service' = [service EXCEPT ![i].conn = IF @ = "none" THEN "open" ELSE @]
  /\ PhoneOnly

\* The open of the pipe returns when a player opens its other end; the sender threads
\* start after it.
PipeOpen ==
  /\ process = "opening"
  /\ process' = "reading"
  /\ UNCHANGED <<serviceVars, InputSocket, queued>>

\* mutant: the connection is not forgotten
OnlyEnded == process' = "ended" /\ UNCHANGED <<InputSocket, queued>>

ClientGone == process' = "ended" /\ InputSocket' = NoInstance /\ queued' = FALSE

ConnectionOver ==
  IF queued THEN service[InputSocket].server # "open"
            ELSE service[InputSocket].conn = "phoneClosed"

\* receiveMode returns at the end of the connection, and main then ends the process.
ReceiveEnd ==
  /\ process = "reading"
  /\ ConnectionOver
  /\ ClientGone
  /\ UNCHANGED serviceVars

\* closeApp, by a signal or for want of a device.
closeApp ==
  /\ process # "ended"
  /\ ClientGone
  /\ service' = [i \in Instance |->
       IF i = InputSocket /\ ~queued /\ service[i].conn = "open"
         THEN [service[i] EXCEPT !.conn = "peerClosed"] ELSE service[i]]
  /\ PhoneOnly
==============================================================================
