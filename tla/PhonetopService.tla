--------------------------- MODULE PhonetopService ---------------------------
(***************************************************************************)
(* PhonetopService.java with the thread of its input server, and what      *)
(* Android's activity manager does for it.  Android creates an instance    *)
(* when the service is started or bound, destroys it when it is neither,   *)
(* and creates another one when the process of a started service dies.     *)
(*                                                                         *)
(* The main thread handles the commands of the activity manager and the    *)
(* messages of UIHandler one at a time; a command may take longer to       *)
(* arrive than a message posted after it.  The server thread of an       *)
(* instance shares the fields of the instance with it, without a lock.     *)
(***************************************************************************)
EXTENDS Integers, Sequences

CONSTANT MaxInstances      \* bound on the instances of the service

ASSUME ServiceAssumption == MaxInstances \in Nat

Instance == 1 .. MaxInstances
NoInstance == 0

VARIABLES
  ime,             \* the default input method: the user's or "HardKeyboard"
  isConnected,     \* the saved preference
  started, bound,  \* what keeps the service
  current,         \* the instance the activity manager knows
  born,            \* instances so far
  commands,        \* of the activity manager, for the main thread: FIFO
  handler,         \* is MainActivity.handler set?
  uiMessages,      \* messages for it: FIFO
  destroying,      \* the instance whose onDestroy the main thread is in
  service,         \* the instances: their fields, and how far their thread is
  overtaken        \* history: instances whose thread took something after onDestroy
                   \* had looked for it

androidVars == <<ime, isConnected, started, bound, current, born, commands>>
serviceVars == <<androidVars, handler, uiMessages, destroying, service, overtaken>>

\* conn is the connection accept() returns, and before that the first one that waits for
\* it; client is the field it is assigned to.
Unborn ==
  [life |-> "unborn", thread |-> "none", server |-> "null", conn |-> "none",
   client |-> FALSE, inputEventHandler |-> "null", savedIme |-> "none", told |-> "nothing"]

Fields ==
  [life : {"unborn", "created", "destroyed", "killed"},
   thread : {"none", "bind", "accept", "accepted", "greeted", "saved", "made",
             "serving", "served", "closed", "ended"},
   server : {"null", "open", "closed"},
   conn : {"none", "open", "phoneClosed", "peerClosed"},
   client : BOOLEAN,
   inputEventHandler : {"null", "running", "stopped"},
   savedIme : {"none", "user", "HardKeyboard"},
   told : {"nothing", "START", "SLEEP"}]

ServiceInit ==
  /\ ime = "user" /\ isConnected = FALSE
  /\ started = FALSE /\ bound = FALSE
  /\ current = NoInstance /\ born = 0
  /\ commands = << >> /\ uiMessages = << >>
  /\ handler = FALSE
  /\ destroying = NoInstance
  /\ service = [i \in Instance |-> Unborn]
  /\ overtaken = {}

ServiceTypeOK ==
  /\ ime \in {"user", "HardKeyboard"}
  /\ {isConnected, started, bound, handler} \subseteq BOOLEAN
  /\ {current, destroying} \subseteq Instance \cup {NoInstance}
  /\ born \in 0 .. MaxInstances
  /\ commands \in Seq([what : {"create", "destroy"}, instance : Instance])
  /\ uiMessages \in Seq({"CONNECTING", "CONNECTED", "CLOSE"})
  /\ service \in [Instance -> Fields]
  /\ overtaken \subseteq Instance

------------------------------------------------------------------------------
(* The activity manager *)

Command(what, i) == [what |-> what, instance |-> i]

\* startService and bindService: an instance is created unless there is one.
StartAndBind ==
  /\ started' = TRUE
  /\ bound' = TRUE
  /\ IF current = NoInstance
       THEN /\ current' = born + 1
            /\ born' = born + 1
            /\ commands' = Append(commands, Command("create", born + 1))
       ELSE UNCHANGED <<current, born, commands>>

MayStart == current # NoInstance \/ born < MaxInstances

\* stopService, stopSelf and unbindService leave it started and bound as said.
Release(stillStarted, stillBound) ==
  /\ started' = stillStarted
  /\ bound' = stillBound
  /\ IF ~stillStarted /\ ~stillBound /\ current # NoInstance
       THEN /\ commands' = Append(commands, Command("destroy", current))
            /\ current' = NoInstance
       ELSE UNCHANGED <<commands, current>>
  /\ UNCHANGED born

\* The process dies.  A service that is started is created again in a new process, with
\* its preferences and without any of its threads and sockets.
ServiceDies ==
  /\ handler' = FALSE
  /\ uiMessages' = << >>
  /\ destroying' = NoInstance
  /\ bound' = FALSE
  /\ IF started /\ born < MaxInstances
       THEN /\ current' = born + 1
            /\ born' = born + 1
            /\ commands' = <<Command("create", born + 1)>>
            /\ UNCHANGED started
       ELSE /\ started' = FALSE
            /\ current' = NoInstance
            /\ commands' = << >>
            /\ UNCHANGED born
  /\ service' = [i \in Instance |->
       IF service[i].life = "unborn" THEN Unborn
       ELSE [service[i] EXCEPT !.life = IF @ = "destroyed" THEN @ ELSE "killed",
               !.thread = "ended",
               !.server = IF @ = "open" THEN "closed" ELSE @,
               !.conn = IF @ = "open" THEN "phoneClosed" ELSE @]]
  /\ UNCHANGED <<ime, isConnected, overtaken>>

------------------------------------------------------------------------------
(* The main thread *)

MainIdle == destroying = NoInstance

At(i, where) == service[i].thread = where

NextCommand(what) == MainIdle /\ commands # << >> /\ Head(commands).what = what

\* onCreate: setInputMethod and startInputServer.
onCreate ==
  /\ NextCommand("create")
  /\ LET i == Head(commands).instance
     IN  service' = [service EXCEPT ![i] =
                   [@ EXCEPT !.life = "created", !.savedIme = ime, !.thread = "bind"]]
  /\ ime' = "HardKeyboard"
  /\ commands' = Tail(commands)
  /\ UNCHANGED <<isConnected, started, bound, current, born, handler, uiMessages,
                 destroying, overtaken>>

\* mutant: the input handler is not told
KeepsRunning(inputEventHandler) == inputEventHandler

Stopped(inputEventHandler) ==
  IF inputEventHandler = "running" THEN "stopped" ELSE inputEventHandler

\* onDestroy until it closes the sockets.
onDestroy ==
  /\ NextCommand("destroy")
  /\ LET i == Head(commands).instance
     IN  /\ destroying' = i
         /\ service' = [service EXCEPT ![i].inputEventHandler = Stopped(@)]
  /\ commands' = Tail(commands)
  /\ UNCHANGED <<ime, isConnected, started, bound, current, born, handler, uiMessages,
                 overtaken>>

\* mutant: the server socket stays open
ServerStays(server) == server

ServerClosed(server) == IF server = "open" THEN "closed" ELSE server

\* The connection is that of the field, or still waits in the server socket.
Reached(i) == service[i].client \/ (At(i, "accept") /\ service[i].conn # "none")

\* mutant: the input method is not restored
restoreNothing(i) == UNCHANGED ime

restoreInputMethod(i) == ime' = service[i].savedIme

\* mutant: the preference stays
PreferenceStays == UNCHANGED isConnected

NotConnected == isConnected' = FALSE

\* The rest of onDestroy: it closes the sockets it finds in the fields, resets the
\* preference and restores the input method.
CloseSockets ==
  /\ destroying # NoInstance
  /\ service' = [service EXCEPT
       ![destroying].life = "destroyed",
       ![destroying].conn = IF Reached(destroying) THEN "phoneClosed" ELSE @,
       ![destroying].server = ServerClosed(@)]
  /\ overtaken' = IF service[destroying].thread \in {"bind", "accepted"}
                    THEN overtaken \cup {destroying} ELSE overtaken
  /\ NotConnected
  /\ restoreInputMethod(destroying)
  /\ destroying' = NoInstance
  /\ UNCHANGED <<started, bound, current, born, commands, handler, uiMessages>>

------------------------------------------------------------------------------
(* The server thread of an instance *)

Goes(i, where) == service' = [service EXCEPT ![i].thread = where]

ThreadOnly == UNCHANGED <<androidVars, handler, uiMessages, destroying, overtaken>>

\* The constructor of ServerSocket fails while another instance has the port.
BindServer(i) ==
  /\ At(i, "bind")
  /\ service' = IF \E j \in Instance : service[j].server = "open"
                  THEN [service EXCEPT ![i].thread = "ended"]
                  ELSE [service EXCEPT ![i].thread = "accept", ![i].server = "open"]
  /\ ThreadOnly

\* accept() returns the first connection, even one the client has closed since, or fails
\* when the server was closed.
Accepts(i) ==
  /\ At(i, "accept")
  /\ service[i].server = "open" /\ service[i].conn # "none"
  /\ Goes(i, "accepted")
  /\ ThreadOnly

AcceptFails(i) ==
  /\ At(i, "accept")
  /\ service[i].server = "closed"
  /\ Goes(i, "ended")
  /\ ThreadOnly

\* The field client is assigned, and the activity is told.
Greet(i) ==
  /\ At(i, "accepted")
  /\ service' = [service EXCEPT ![i].thread = "greeted", ![i].client = TRUE]
  /\ uiMessages' = IF handler THEN Append(uiMessages, "CONNECTED") ELSE uiMessages
  /\ UNCHANGED <<androidVars, handler, destroying, overtaken>>

SaveConnected(i) ==
  /\ At(i, "greeted")
  /\ Goes(i, "saved")
  /\ isConnected' = TRUE
  /\ overtaken' = IF service[i].life = "destroyed" THEN overtaken \cup {i} ELSE overtaken
  /\ UNCHANGED <<ime, started, bound, current, born, commands, handler, uiMessages, destroying>>

MakeInputHandler(i) ==
  /\ At(i, "saved")
  /\ service' = [service EXCEPT ![i].thread = "made", ![i].inputEventHandler = "running"]
  /\ overtaken' = IF service[i].life = "destroyed" \/ destroying = i
                    THEN overtaken \cup {i} ELSE overtaken
  /\ UNCHANGED <<androidVars, handler, uiMessages, destroying>>

\* PhonetopInputHandler.start gets the streams of the connection; of one that onDestroy
\* has closed it gets none, and setEventType then dereferences null.
StartInputHandler(i) ==
  /\ At(i, "made")
  /\ service[i].conn # "phoneClosed"
  /\ Goes(i, "serving")
  /\ ThreadOnly

StartFails(i) == At(i, "made") /\ service[i].conn = "phoneClosed"

\* buttonEvents: the end of the stream sets isEnd, as stop() does; the loop ends when the
\* read it is in returns or throws.  A read of a connection that onDestroy has closed
\* throws and does not set isEnd.
LeaveEventLoop(i) ==
  /\ At(i, "serving")
  /\ service[i].conn = "peerClosed" \/ service[i].inputEventHandler = "stopped"
  /\ Goes(i, "served")
  /\ ThreadOnly

AnnounceClose(i) ==
  /\ At(i, "served")
  /\ Goes(i, "closed")
  /\ uiMessages' = IF handler THEN Append(uiMessages, "CLOSE") ELSE uiMessages
  /\ UNCHANGED <<androidVars, handler, destroying, overtaken>>

\* stopSelf() stops the instance it is called for, and no other.
StopSelf(i) ==
  /\ At(i, "closed")
  /\ Goes(i, "ended")
  /\ IF current = i THEN Release(FALSE, bound)
                    ELSE UNCHANGED <<started, bound, current, born, commands>>
  /\ UNCHANGED <<ime, isConnected, handler, uiMessages, destroying, overtaken>>

ThreadStep(i) ==
  \/ BindServer(i) \/ Accepts(i) \/ AcceptFails(i) \/ Greet(i) \/ SaveConnected(i) \/ MakeInputHandler(i)
  \/ StartInputHandler(i) \/ LeaveEventLoop(i) \/ AnnounceClose(i) \/ StopSelf(i)
==============================================================================
