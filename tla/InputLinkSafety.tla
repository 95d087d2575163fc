--------------------------- MODULE InputLinkSafety ---------------------------
(***************************************************************************)
(* The safety properties of InputLink about the server threads, the saved  *)
(* preference and the box of the monitor, for any number of instances and  *)
(* kills.                                                                  *)
(***************************************************************************)
EXTENDS InputLinkProofs

------------------------------------------------------------------------------
(* The invariant of an instance and its thread *)

\* How far a thread is, and what it has made of its instance's fields.
Stage(s) ==
  /\ s.life = "unborn" => s.thread = "none"
  /\ s.life = "killed" => s.thread = "ended"
  /\ s.life = "created" => s.thread # "none" /\ s.server # "closed"
  /\ s.server = "null" => s.conn = "none" /\ ~s.client
  /\ s.conn = "phoneClosed" => s.life \in {"destroyed", "killed"}
  /\ s.thread \in {"none", "bind"} => s.server = "null"
  /\ s.thread \in {"accept", "accepted"} => s.server # "null"
  /\ s.thread \in {"greeted", "saved", "made", "serving", "served", "closed"} => s.client
  /\ s.thread \in {"made", "serving"} => s.inputEventHandler # "null"
  /\ s.life = "created" /\ s.thread = "accept" => s.server = "open"
  /\ s.life = "created" /\ s.thread = "ended" /\ ~s.client => s.server = "null"

\* The thread of a destroyed instance has nothing to do but to end.
Late(s) == s.life = "destroyed" => s.server # "open" /\ s.thread \notin {"bind", "accepted"}

\* An event loop that is there has been told to stop.
ToldToStop(s) == s.thread \in {"made", "serving"} => s.inputEventHandler = "stopped"

\* The Linux side is connected to the instance, by the connection accepted or next.
ConnectedTo(i) == InputSocket = i /\ ~queued

\* What holds of an instance, the more if its thread took nothing after onDestroy had
\* looked for it.
Sound(i) ==
  /\ Stage(service[i])
  /\ ConnectedTo(i) => service[i].conn \in {"open", "phoneClosed"}
  /\ i \notin overtaken =>
       /\ Late(service[i])
       /\ destroying = i \/ service[i].conn = "phoneClosed" => ToldToStop(service[i])
       /\ service[i].life = "destroyed" /\ ConnectedTo(i) => service[i].conn = "phoneClosed"

AllSound == \A i \in Instance : Sound(i)

\* The two properties of an instance say what a sound instance is.
LEMMA SoundIsEnough == AllSound => DestroyReleases /\ LoopIsTold
BY DEF AllSound, Sound, Late, ToldToStop, ConnectedTo, DestroyReleases, LoopIsTold, ConnectionOver,
   At, Instance

\* What a step leaves of an instance it has nothing to do with.
Kept(j) ==
  /\ service'[j].life = service[j].life /\ service'[j].thread = service[j].thread
  /\ service'[j].server = service[j].server /\ service'[j].conn = service[j].conn
  /\ service'[j].client = service[j].client
  /\ service'[j].inputEventHandler = service[j].inputEventHandler
  /\ j \in overtaken => j \in overtaken'
  /\ destroying' = j => destroying = j
  /\ ConnectedTo(j)' => ConnectedTo(j)

LEMMA KeptSound ==
  ASSUME NEW j \in Instance, Sound(j), Kept(j)
  PROVE  Sound(j)'
BY DEF Sound, Kept, Stage, Late, ToldToStop, ConnectedTo

------------------------------------------------------------------------------
(* The steps of a server thread *)

\* A step of a thread touches its own instance only, and not its connection.
LEMMA ThreadTouches ==
  ASSUME TypeOK, NEW i \in Instance, ThreadStep(i), UNCHANGED clientVars
  PROVE  /\ \A j \in Instance \ {i} : service'[j] = service[j]
         /\ service'[i].life = service[i].life /\ service'[i].conn = service[i].conn
         /\ i \in overtaken => i \in overtaken'
         /\ \A j \in Instance \ {i} : j \in overtaken' <=> j \in overtaken
         /\ UNCHANGED <<destroying, InputSocket, queued>>
<1>1. service \in [Instance -> Fields]
  BY DEF TypeOK, ServiceTypeOK
<1>2. UNCHANGED <<InputSocket, queued>>
  BY DEF clientVars
<1>3. ASSUME NEW where, Goes(i, where)
      PROVE  /\ \A j \in Instance \ {i} : service'[j] = service[j]
             /\ service'[i].life = service[i].life /\ service'[i].conn = service[i].conn
  BY <1>1, <1>3 DEF Goes, Fields
<1>4. CASE BindServer(i)
  BY <1>1, <1>2, <1>4 DEF BindServer, ThreadOnly, Fields
<1>5. CASE Accepts(i) \/ AcceptFails(i) \/ StartInputHandler(i) \/ LeaveEventLoop(i)
  BY <1>2, <1>3, <1>5 DEF Accepts, AcceptFails, StartInputHandler, LeaveEventLoop, ThreadOnly
<1>6. CASE Greet(i)
  BY <1>1, <1>2, <1>6 DEF Greet, Fields
<1>7. CASE SaveConnected(i)
  BY <1>2, <1>3, <1>7 DEF SaveConnected
<1>8. CASE MakeInputHandler(i)
  BY <1>1, <1>2, <1>8 DEF MakeInputHandler, Fields
<1>9. CASE AnnounceClose(i) \/ StopSelf(i)
  BY <1>2, <1>3, <1>9 DEF AnnounceClose, StopSelf
<1> QED BY <1>4, <1>5, <1>6, <1>7, <1>8, <1>9 DEF ThreadStep

\* So the other instances are kept.
LEMMA ThreadKeeps ==
  ASSUME TypeOK, NEW i \in Instance, ThreadStep(i), UNCHANGED clientVars,
         NEW j \in Instance, j # i
  PROVE  Kept(j)
BY ThreadTouches DEF Kept, ConnectedTo

\* A thread that only goes on changes nothing else of its instance.
LEMMA GoesTouches ==
  ASSUME TypeOK, NEW i \in Instance, NEW where, Goes(i, where)
  PROVE  /\ service'[i].thread = where
         /\ service'[i].server = service[i].server /\ service'[i].client = service[i].client
         /\ service'[i].inputEventHandler = service[i].inputEventHandler
BY DEF Goes, TypeOK, ServiceTypeOK, Fields

\* Every step of a thread leaves its instance sound.
LEMMA ThreadSound ==
  ASSUME TypeOK, NEW i \in Instance, ThreadStep(i), UNCHANGED clientVars, Sound(i)
  PROVE  Sound(i)'
<1>1. /\ service'[i].life = service[i].life /\ service'[i].conn = service[i].conn
      /\ i \in overtaken => i \in overtaken'
      /\ UNCHANGED <<destroying, InputSocket, queued>>
  BY ThreadTouches
<1>2. service \in [Instance -> Fields]
  BY DEF TypeOK, ServiceTypeOK
<1>3. service[i].life \in {"unborn", "created", "destroyed", "killed"}
  BY <1>2 DEF Fields
<1> USE DEF Sound, Stage, Late, ToldToStop, ConnectedTo, At
<1>4. CASE BindServer(i)
  <2>1. service'[i].client = service[i].client
        /\ service'[i].inputEventHandler = service[i].inputEventHandler
        /\ \/ service'[i].thread = "ended" /\ service'[i].server = service[i].server
           \/ service'[i].thread = "accept" /\ service'[i].server = "open"
    BY <1>2, <1>4 DEF BindServer, Fields
  <2> QED BY <1>1, <1>3, <1>4, <2>1 DEF BindServer
<1>5. CASE Accepts(i) \/ AcceptFails(i)
  BY <1>1, <1>3, <1>5, GoesTouches DEF Accepts, AcceptFails
<1>6. CASE Greet(i)
  <2>1. /\ service'[i].thread = "greeted" /\ service'[i].client
        /\ service'[i].server = service[i].server
        /\ service'[i].inputEventHandler = service[i].inputEventHandler
    BY <1>2, <1>6 DEF Greet, Fields
  <2> QED BY <1>1, <1>3, <1>6, <2>1 DEF Greet
<1>7. CASE SaveConnected(i)
  BY <1>1, <1>3, <1>7, GoesTouches DEF SaveConnected
<1>8. CASE MakeInputHandler(i)
  <2>1. /\ service'[i].thread = "made" /\ service'[i].inputEventHandler = "running"
        /\ service'[i].server = service[i].server /\ service'[i].client = service[i].client
    BY <1>2, <1>8 DEF MakeInputHandler, Fields
  <2>2. i \notin overtaken' => service[i].life # "destroyed" /\ destroying # i
    BY <1>8 DEF MakeInputHandler
  <2> QED BY <1>1, <1>3, <1>8, <2>1, <2>2 DEF MakeInputHandler
<1>9. CASE StartInputHandler(i) \/ LeaveEventLoop(i)
  <2>1. CASE StartInputHandler(i)
    <3>1. service[i].thread = "made" /\ Goes(i, "serving")
      BY <2>1 DEF StartInputHandler
    <3> QED BY <1>1, <1>3, <3>1, GoesTouches
  <2>2. CASE LeaveEventLoop(i)
    <3>1. service[i].thread = "serving" /\ Goes(i, "served")
      BY <2>2 DEF LeaveEventLoop
    <3> QED BY <1>1, <1>3, <3>1, GoesTouches
  <2> QED BY <1>9, <2>1, <2>2
<1>10. CASE AnnounceClose(i) \/ StopSelf(i)
  <2>1. CASE AnnounceClose(i)
    <3>1. service[i].thread = "served" /\ Goes(i, "closed")
      BY <2>1 DEF AnnounceClose
    <3> QED BY <1>1, <1>3, <3>1, GoesTouches
  <2>2. CASE StopSelf(i)
    <3>1. service[i].thread = "closed" /\ Goes(i, "ended")
      BY <2>2 DEF StopSelf
    <3> QED BY <1>1, <1>3, <3>1, GoesTouches
  <2> QED BY <1>10, <2>1, <2>2
<1> QED BY <1>4, <1>5, <1>6, <1>7, <1>8, <1>9, <1>10 DEF ThreadStep

------------------------------------------------------------------------------
(* The commands of the main thread *)

\* onCreate finds the instance unborn.
LEMMA CreateSound ==
  ASSUME Lives, AllSound, onCreate, UNCHANGED clientVars
  PROVE  AllSound'
<1>1. /\ commands \in Seq(Commands) /\ commands # << >> /\ commands' = Tail(commands)
      /\ service \in [Instance -> Fields] /\ UNCHANGED <<overtaken, destroying, InputSocket, queued>>
  BY DEF Lives, onCreate, NextCommand, clientVars, TypeOK, ServiceTypeOK, Commands
<1>2. commands[1] \in Commands /\ Head(commands) = commands[1] /\ 1 \in DOMAIN commands
  BY <1>1, Taken
<1>3. PICK i \in Instance :
      /\ i = commands[1].instance /\ commands[1].what = "create"
      /\ service' = [service EXCEPT ![i] =
                   [@ EXCEPT !.life = "created", !.savedIme = ime, !.thread = "bind"]]
  BY <1>1, <1>2 DEF onCreate, NextCommand, Commands
<1>4. service[i].life = "unborn"
  <2>1. i >= i
    BY <1>3, Instances, SMTT(30)
  <2> QED BY <1>2, <1>3, <2>1 DEF Lives, Order, UnbornAhead
<1>5. /\ service'[i].life = "created" /\ service'[i].thread = "bind"
      /\ service'[i].server = service[i].server /\ service'[i].client = service[i].client
      /\ service'[i].conn = service[i].conn
      /\ service'[i].inputEventHandler = service[i].inputEventHandler
      /\ \A j \in Instance \ {i} : service'[j] = service[j]
  BY <1>1, <1>3 DEF Fields
<1>6. ASSUME NEW j \in Instance, j # i PROVE Sound(j)'
  <2>1. Kept(j)
    BY <1>1, <1>5, <1>6 DEF Kept, ConnectedTo
  <2> QED BY <2>1, KeptSound DEF AllSound
<1>7. Sound(i)'
  BY <1>1, <1>3, <1>4, <1>5, ZenonT(60) DEF AllSound, Sound, Stage, Late, ToldToStop, ConnectedTo
<1> QED BY <1>6, <1>7 DEF AllSound

\* onDestroy tells the event loop before it looks for the sockets.
LEMMA DestroySound ==
  ASSUME Lives, AllSound, onDestroy, UNCHANGED clientVars
  PROVE  AllSound'
<1>1. /\ commands \in Seq(Commands) /\ commands # << >> /\ commands' = Tail(commands)
      /\ service \in [Instance -> Fields] /\ UNCHANGED <<overtaken, InputSocket, queued>>
  BY DEF Lives, onDestroy, NextCommand, clientVars, TypeOK, ServiceTypeOK, Commands
<1>2. commands[1] \in Commands /\ Head(commands) = commands[1] /\ 1 \in DOMAIN commands
  BY <1>1, Taken
<1>3. PICK i \in Instance :
      /\ i = commands[1].instance /\ destroying' = i
      /\ service' = [service EXCEPT ![i].inputEventHandler = Stopped(@)]
  BY <1>1, <1>2 DEF onDestroy, NextCommand, Commands
<1>4. /\ service'[i].life = service[i].life /\ service'[i].thread = service[i].thread
      /\ service'[i].server = service[i].server /\ service'[i].client = service[i].client
      /\ service'[i].conn = service[i].conn
      /\ service'[i].inputEventHandler = Stopped(service[i].inputEventHandler)
      /\ service[i].inputEventHandler \in {"null", "running", "stopped"}
      /\ \A j \in Instance \ {i} : service'[j] = service[j]
  BY <1>1, <1>3 DEF Fields
<1>5. ASSUME NEW j \in Instance, j # i PROVE Sound(j)'
  <2>1. Kept(j)
    BY <1>1, <1>3, <1>4, <1>5 DEF Kept, ConnectedTo
  <2> QED BY <2>1, KeptSound DEF AllSound
<1>6. Sound(i)'
  <2>1. Sound(i)
    BY DEF AllSound
  <2>2. Stage(service[i])'
    BY <1>4, <2>1 DEF Sound, Stage, Stopped
  <2>3. ToldToStop(service[i])'
    BY <1>4, <2>1, <2>2 DEF Stage, ToldToStop, Stopped
  <2>4. Late(service[i]) => Late(service[i])'
    BY <1>4 DEF Late
  <2>5. UNCHANGED ConnectedTo(i)
    BY <1>1 DEF ConnectedTo
  <2> QED BY <1>1, <1>4, <2>1, <2>2, <2>3, <2>4, <2>5 DEF Sound
<1> QED BY <1>5, <1>6 DEF AllSound

\* CloseSockets finds the connection, in the field or in the server socket, unless the
\* thread is between the two.
LEMMA CloseSound ==
  ASSUME Lives, AllSound, CloseSockets, UNCHANGED clientVars
  PROVE  AllSound'
<1>1. PICK i \in Instance :
      /\ i = destroying /\ service \in [Instance -> Fields] /\ service[i].life = "created"
      /\ destroying' = NoInstance /\ UNCHANGED <<InputSocket, queued>>
      /\ overtaken' = IF service[i].thread \in {"bind", "accepted"}
                        THEN overtaken \cup {i} ELSE overtaken
      /\ service' = [service EXCEPT
           ![i].life = "destroyed",
           ![i].conn = IF Reached(i) THEN "phoneClosed" ELSE @,
           ![i].server = ServerClosed(@)]
  BY DEF Lives, CloseSockets, clientVars, TypeOK, ServiceTypeOK, Order, OneCreated, Created
<1>2. /\ service'[i].life = "destroyed" /\ service'[i].thread = service[i].thread
      /\ service'[i].server = ServerClosed(service[i].server)
      /\ service'[i].client = service[i].client
      /\ service'[i].conn = IF Reached(i) THEN "phoneClosed" ELSE service[i].conn
      /\ service'[i].inputEventHandler = service[i].inputEventHandler
      /\ \A j \in Instance \ {i} : service'[j] = service[j]
  BY <1>1 DEF Fields
<1>3. ASSUME NEW j \in Instance, j # i PROVE Sound(j)'
  <2>1. Kept(j)
    BY <1>1, <1>2, <1>3, Instances DEF Kept, ConnectedTo
  <2> QED BY <2>1, KeptSound DEF AllSound
<1>4. Sound(i)'
  <2>1. Sound(i) /\ destroying = i
    BY <1>1 DEF AllSound
  <2>2. Stage(service[i])'
    BY <1>1, <1>2, <2>1, SMTT(30) DEF Sound, Stage, ServerClosed, Reached, At
  <2>3. ConnectedTo(i)' => service'[i].conn \in {"open", "phoneClosed"}
    BY <1>1, <1>2, <2>1 DEF Sound, ConnectedTo
  <2>4. ASSUME i \notin overtaken'
        PROVE  /\ Late(service[i])' /\ ToldToStop(service[i])'
               /\ ConnectedTo(i)' => service'[i].conn = "phoneClosed"
    <3>1. i \notin overtaken /\ service[i].thread \notin {"bind", "accepted"}
      BY <1>1, <2>4
    <3>2. Late(service[i])'
      BY <1>1, <1>2, <2>1, <3>1 DEF Late, ServerClosed
    <3>3. ToldToStop(service[i])'
      BY <1>2, <2>1, <3>1 DEF Sound, ToldToStop
    <3>4. ConnectedTo(i)' => service'[i].conn = "phoneClosed"
      <4> SUFFICES ASSUME ConnectedTo(i)' PROVE Reached(i)
        BY <1>2
      <4>1. service[i].conn # "none" /\ service[i].server # "null"
        BY <1>1, <2>1 DEF Sound, Stage, ConnectedTo
      <4>2. service[i].thread \in {"accept", "greeted", "saved", "made", "serving", "served",
                                   "closed", "ended"}
        BY <1>1, <2>1, <3>1, <4>1 DEF Sound, Stage, Fields
      <4> QED BY <1>1, <2>1, <4>1, <4>2 DEF Sound, Stage, Reached, At
    <3> QED BY <3>2, <3>3, <3>4
  <2> QED BY <2>2, <2>3, <2>4 DEF Sound
<1> QED BY <1>3, <1>4 DEF AllSound

\* The death of the process ends the threads and closes what was open.
LEMMA DeathSound ==
  ASSUME TypeOK, AllSound, ProcessDies, UNCHANGED clientVars
  PROVE  AllSound'
<1>1. /\ service' = [j \in Instance |-> Dead(service[j])]
      /\ destroying' = NoInstance /\ UNCHANGED <<overtaken, InputSocket, queued>>
  BY DEF ProcessDies, ServiceDies, Dead, clientVars
<1>2. service \in [Instance -> Fields]
  BY DEF TypeOK, ServiceTypeOK
<1> SUFFICES ASSUME NEW i \in Instance PROVE Sound(i)'
  BY DEF AllSound
<1>3. Sound(i) /\ service[i] \in Fields /\ service'[i] = Dead(service[i])
  BY <1>1, <1>2 DEF AllSound
<1>4. CASE service[i].life = "unborn"
  <2>1. service'[i] = Unborn
    BY <1>3, <1>4 DEF Dead
  <2>2. ~ConnectedTo(i)
    BY <1>3, <1>4 DEF Sound, Stage
  <2> QED BY <1>1, <2>1, <2>2 DEF Sound, Stage, Late, ToldToStop, ConnectedTo, Unborn
<1>5. CASE service[i].life # "unborn"
  <2>1. /\ service'[i].life = IF service[i].life = "destroyed" THEN "destroyed" ELSE "killed"
        /\ service'[i].thread = "ended"
        /\ service'[i].server = IF service[i].server = "open" THEN "closed" ELSE service[i].server
        /\ service'[i].conn = IF service[i].conn = "open" THEN "phoneClosed" ELSE service[i].conn
        /\ service'[i].client = service[i].client
    BY <1>3, <1>5 DEF Dead, Fields
  <2> QED BY <1>1, <1>3, <2>1 DEF Sound, Stage, Late, ToldToStop, ConnectedTo
<1> QED BY <1>4, <1>5

------------------------------------------------------------------------------
(* The other steps *)

\* The Linux side connects to a server socket that is open, and closes its own end.
LEMMA ClientSound ==
  ASSUME TypeOK, AllSound, Client
  PROVE  AllSound'
<1>1. service \in [Instance -> Fields]
  BY DEF TypeOK, ServiceTypeOK
<1>2. CASE ConnectInputServer
  <2>1. PICK i \in Instance :
          /\ service[i].server = "open"
          /\ InputSocket' = i
          /\ queued' = (service[i].conn # "none")
          /\ service' = [service EXCEPT ![i].conn = IF @ = "none" THEN "open" ELSE @]
          /\ UNCHANGED <<destroying, overtaken>>
    BY <1>2 DEF ConnectInputServer, PhoneOnly
  <2>2. /\ service'[i].life = service[i].life /\ service'[i].thread = service[i].thread
        /\ service'[i].server = "open" /\ service'[i].client = service[i].client
        /\ service'[i].conn = IF service[i].conn = "none" THEN "open" ELSE service[i].conn
        /\ service'[i].inputEventHandler = service[i].inputEventHandler
        /\ \A j \in Instance \ {i} : service'[j] = service[j]
    BY <1>1, <2>1 DEF Fields
  <2>3. ASSUME NEW j \in Instance, j # i PROVE Sound(j)'
    <3>1. Kept(j)
      BY <2>1, <2>2, <2>3 DEF Kept, ConnectedTo
    <3> QED BY <3>1, KeptSound DEF AllSound
  <2>4. Sound(i)'
    <3>1. Sound(i) /\ (i \notin overtaken => service[i].life # "destroyed")
      BY <2>1 DEF AllSound, Sound, Late
    <3>2. queued' <=> service[i].conn # "none"
      BY <2>1
    <3> QED BY <2>1, <2>2, <3>1, <3>2 DEF Sound, Stage, Late, ToldToStop, ConnectedTo
  <2> QED BY <2>3, <2>4 DEF AllSound
<1>3. CASE PipeOpen \/ ReceiveEnd
  <2>1. \A j \in Instance : Kept(j)
    BY <1>3, Instances DEF PipeOpen, ReceiveEnd, ClientGone, serviceVars, Kept, ConnectedTo
  <2> QED BY <2>1, KeptSound DEF AllSound
<1>4. CASE closeApp
  <2>1. InputSocket' = NoInstance /\ UNCHANGED <<destroying, overtaken>>
    BY <1>4 DEF closeApp, ClientGone, PhoneOnly
  <2> SUFFICES ASSUME NEW i \in Instance PROVE Sound(i)'
    BY DEF AllSound
  <2>2. CASE i = InputSocket /\ ~queued /\ service[i].conn = "open"
    <3>1. /\ service'[i].life = service[i].life /\ service'[i].thread = service[i].thread
          /\ service'[i].server = service[i].server /\ service'[i].client = service[i].client
          /\ service'[i].conn = "peerClosed"
          /\ service'[i].inputEventHandler = service[i].inputEventHandler
      BY <1>1, <1>4, <2>2 DEF closeApp, Fields
    <3> QED BY <2>1, <2>2, <3>1, Instances
        DEF AllSound, Sound, Stage, Late, ToldToStop, ConnectedTo
  <2>3. CASE ~(i = InputSocket /\ ~queued /\ service[i].conn = "open")
    <3>1. service'[i] = service[i]
      BY <1>4, <2>3 DEF closeApp
    <3>2. Kept(i)
      BY <2>1, <3>1, Instances DEF Kept, ConnectedTo
    <3> QED BY <3>2, KeptSound DEF AllSound
  <2> QED BY <2>2, <2>3
<1> QED BY <1>2, <1>3, <1>4 DEF Client

\* What the activity does.
ActivityStep ==
  \/ SwitchOn \/ SwitchOff \/ UseBox \/ Launch \/ Leave
  \/ HandleConnection \/ HandleClose \/ onServiceConnected \/ Timer

\* It tells an instance something at most.
LEMMA ActivityTouches ==
  ASSUME ActivityStep
  PROVE  /\ (\E i, what : Tell(i, what)) \/ UNCHANGED service
         /\ UNCHANGED <<overtaken, destroying, isConnected>>
<1>1. CASE SwitchOn \/ SwitchOff \/ Launch \/ Leave \/ HandleConnection
  BY <1>1 DEF SwitchOn, SwitchOff, Launch, Leave, HandleConnection, androidVars
<1>2. CASE UseBox
  BY <1>2 DEF UseBox, SendCommand, androidVars
<1>3. CASE HandleClose
  BY <1>3 DEF HandleClose
<1>4. CASE onServiceConnected
  BY <1>4 DEF onServiceConnected, serviceVars, androidVars
<1>5. CASE Timer
  BY <1>5 DEF Timer, TimerSends, androidVars
<1> QED BY <1>1, <1>2, <1>3, <1>4, <1>5 DEF ActivityStep

LEMMA ActivityKeeps ==
  ASSUME TypeOK, ActivityStep, UNCHANGED clientVars, NEW j \in Instance
  PROVE  Kept(j)
<1>1. service \in [Instance -> Fields]
  BY DEF TypeOK, ServiceTypeOK
<1> QED BY <1>1, ActivityTouches DEF Tell, Kept, ConnectedTo, Fields, clientVars

\* Every step is one of these.
LEMMA Steps ==
  ASSUME Next
  PROVE  \/ Client /\ UNCHANGED activityVars
         \/ /\ UNCHANGED clientVars
            /\ \/ ActivityStep \/ ProcessDies
               \/ ServiceCommands
               \/ \E i \in Instance : ServiceThread(i)
BY DEF Next, Phone, User, Messages, UseBoxTooEarly, LeaveFails, HandleCloseFails,
       UncaughtException, ActivityStep

\* Every step leaves every instance sound.
LEMMA SoundNext == Lives /\ AllSound /\ [Next]_linkVars => AllSound'
<1> SUFFICES ASSUME Lives, AllSound, [Next]_linkVars PROVE AllSound'
  OBVIOUS
<1>1. TypeOK
  BY DEF Lives
<1>2. CASE UNCHANGED linkVars
  <2>1. \A j \in Instance : Kept(j)
    BY <1>2 DEF Kept, ConnectedTo, linkVars, phoneVars, serviceVars, clientVars
  <2> QED BY <2>1, KeptSound DEF AllSound
<1>3. CASE Next
  <2>1. CASE Client
    BY <1>1, <2>1, ClientSound
  <2>2. CASE ProcessDies /\ UNCHANGED clientVars
    BY <1>1, <2>2, DeathSound
  <2>3. CASE ServiceCommands /\ UNCHANGED clientVars
    BY <2>3, CreateSound, DestroySound, CloseSound DEF ServiceCommands
  <2>4. CASE ActivityStep /\ UNCHANGED clientVars
    BY <1>1, <2>4, ActivityKeeps, KeptSound DEF AllSound
  <2>5. ASSUME NEW i \in Instance, ServiceThread(i), UNCHANGED clientVars PROVE AllSound'
    BY <1>1, <2>5, ThreadSound, ThreadKeeps, KeptSound DEF AllSound, ServiceThread
  <2> QED BY <1>3, <2>1, <2>2, <2>3, <2>4, <2>5, Steps
<1> QED BY <1>2, <1>3

LEMMA SoundInit == Init => AllSound
BY DEF Init, ServiceInit, ClientInit, AllSound, Sound, Stage, Late, ToldToStop, ConnectedTo,
   Unborn, NoInstance, Instance

THEOREM SoundAlways == Spec => []AllSound
BY SoundInit, SoundNext, LivesAlways, PTL DEF Spec

\* onDestroy closes the server socket and the connection it finds in the fields, or in
\* the server socket, whatever the thread does meanwhile, unless it is overtaken.
THEOREM DestroyAlwaysReleases == Spec => []DestroyReleases
BY SoundIsEnough, SoundAlways, PTL

\* An event loop is told to stop before its connection is closed, unless onDestroy is
\* overtaken.
THEOREM LoopIsAlwaysTold == Spec => []LoopIsTold
BY SoundIsEnough, SoundAlways, PTL

------------------------------------------------------------------------------
(* The saved preference *)

\* The instance accounts for a preference that says connected.
Owner(i) ==
  \/ service[i].life = "killed" \/ i \in overtaken
  \/ service[i].life = "created" /\ service[i].client

\* Owners that stay keep the property when the preference does.
LEMMA OwnersStay ==
  ASSUME PreferenceHasOwner, UNCHANGED isConnected,
         \A i \in Instance : Owner(i) => Owner(i)'
  PROVE  PreferenceHasOwner'
BY DEF PreferenceHasOwner, Owner

\* A thread saves the preference for an instance that has had its connection.
LEMMA ThreadPreference ==
  ASSUME TypeOK, AllSound, PreferenceHasOwner, NEW i \in Instance, ThreadStep(i),
         UNCHANGED clientVars
  PROVE  PreferenceHasOwner'
<1>1. service \in [Instance -> Fields]
  BY DEF TypeOK, ServiceTypeOK
<1>2. CASE SaveConnected(i)
  <2>1. /\ service'[i].life = service[i].life /\ service'[i].client = service[i].client
        /\ service[i].thread = "greeted"
        /\ service[i].life \in {"unborn", "created", "destroyed", "killed"}
    BY <1>1, <1>2 DEF SaveConnected, Goes, At, Fields
  <2>2. service[i].client /\ service[i].life \in {"created", "destroyed"}
    BY <2>1 DEF AllSound, Sound, Stage
  <2>3. Owner(i)'
    BY <1>2, <2>1, <2>2 DEF SaveConnected, Owner
  <2> QED BY <2>3 DEF PreferenceHasOwner, Owner
<1>3. CASE ~SaveConnected(i)
  <2>1. UNCHANGED isConnected
    BY <1>3 DEF ThreadStep, BindServer, Accepts, AcceptFails, Greet, MakeInputHandler,
       StartInputHandler, LeaveEventLoop, AnnounceClose, StopSelf, ThreadOnly, androidVars
  <2>2. service'[i].client = service[i].client \/ service'[i].client
    <3>1. CASE BindServer(i)
      BY <1>1, <3>1 DEF BindServer, Fields
    <3>2. CASE Greet(i) \/ MakeInputHandler(i)
      BY <1>1, <3>2 DEF Greet, MakeInputHandler, Fields
    <3>3. ASSUME NEW where, Goes(i, where) PROVE service'[i].client = service[i].client
      BY <1>1, <3>3 DEF Goes, Fields
    <3> QED BY <1>3, <3>1, <3>2, <3>3 DEF ThreadStep, Accepts, AcceptFails, StartInputHandler,
         LeaveEventLoop, AnnounceClose, StopSelf
  <2>3. Owner(i) => Owner(i)'
    BY <2>2, ThreadTouches DEF Owner
  <2>4. \A j \in Instance \ {i} : Owner(j) => Owner(j)'
    BY ThreadKeeps DEF Owner, Kept
  <2> QED BY <2>1, <2>3, <2>4, OwnersStay
<1> QED BY <1>2, <1>3

\* An instance's commands keep its owners, and onDestroy resets the preference.
LEMMA CommandsPreference ==
  ASSUME Lives, PreferenceHasOwner, ServiceCommands
  PROVE  PreferenceHasOwner'
<1>1. service \in [Instance -> Fields] /\ commands \in Seq(Commands)
  BY DEF Lives, TypeOK, ServiceTypeOK, Commands
<1>2. CASE CloseSockets
  BY <1>2 DEF CloseSockets, NotConnected, PreferenceHasOwner
<1>3. CASE onDestroy
  <2>1. \A i \in Instance : Owner(i) => Owner(i)'
    BY <1>1, <1>3 DEF onDestroy, Owner, Fields
  <2> QED BY <1>3, <2>1, OwnersStay DEF onDestroy
<1>4. CASE onCreate
  <2>1. commands # << >> /\ commands' = Tail(commands)
    BY <1>4 DEF onCreate, NextCommand
  <2>2. commands[1] \in Commands /\ Head(commands) = commands[1] /\ 1 \in DOMAIN commands
    BY <1>1, <2>1, Taken
  <2>3. PICK i \in Instance :
          /\ i = commands[1].instance /\ commands[1].what = "create"
          /\ service' = [service EXCEPT ![i] =
                       [@ EXCEPT !.life = "created", !.savedIme = ime, !.thread = "bind"]]
    BY <1>4, <2>2 DEF onCreate, NextCommand, Commands
  <2>4. service[i].life = "unborn"
    <3>1. i >= i
      BY <2>3, Instances, SMTT(30)
    <3> QED BY <2>2, <2>3, <3>1 DEF Lives, Order, UnbornAhead
  <2>5. \A j \in Instance : Owner(j) => Owner(j)'
    BY <1>1, <1>4, <2>3, <2>4 DEF onCreate, Owner, Fields
  <2> QED BY <1>4, <2>5, OwnersStay DEF onCreate
<1> QED BY <1>2, <1>3, <1>4 DEF ServiceCommands

\* What the death of the process takes away it has killed.
LEMMA DeathPreference ==
  ASSUME TypeOK, PreferenceHasOwner, ProcessDies
  PROVE  PreferenceHasOwner'
<1>1. service' = [j \in Instance |-> Dead(service[j])] /\ UNCHANGED <<overtaken, isConnected>>
  BY DEF ProcessDies, ServiceDies, Dead
<1>2. ASSUME NEW f \in Fields, f.life \in {"created", "killed"} PROVE Dead(f).life = "killed"
  BY <1>2 DEF Fields, Dead
<1>3. \A j \in Instance : Owner(j) => Owner(j)'
  BY <1>1, <1>2 DEF Owner, TypeOK, ServiceTypeOK
<1> QED BY <1>1, <1>3, OwnersStay

LEMMA PreferenceNext ==
  Lives /\ AllSound /\ PreferenceHasOwner /\ [Next]_linkVars => PreferenceHasOwner'
<1> SUFFICES ASSUME Lives, AllSound, PreferenceHasOwner, [Next]_linkVars
             PROVE  PreferenceHasOwner'
  OBVIOUS
<1>1. TypeOK /\ service \in [Instance -> Fields]
  BY DEF Lives, TypeOK, ServiceTypeOK
<1>2. CASE UNCHANGED linkVars
  BY <1>2 DEF PreferenceHasOwner, linkVars, phoneVars, serviceVars, androidVars
<1>3. CASE Next
  <2>1. CASE Client
    <3>1. UNCHANGED <<isConnected, overtaken>>
      BY <2>1 DEF Client, ConnectInputServer, PipeOpen, ReceiveEnd, closeApp, PhoneOnly,
         serviceVars, androidVars
    <3>2. \A j \in Instance : service'[j].life = service[j].life
                              /\ service'[j].client = service[j].client
      <4>1. CASE ConnectInputServer
        BY <1>1, <4>1 DEF ConnectInputServer, Fields
      <4>2. CASE closeApp
        BY <1>1, <4>2 DEF closeApp, Fields
      <4>3. CASE PipeOpen \/ ReceiveEnd
        BY <4>3 DEF PipeOpen, ReceiveEnd, serviceVars
      <4> QED BY <2>1, <4>1, <4>2, <4>3 DEF Client
    <3> QED BY <3>1, <3>2, OwnersStay DEF Owner
  <2>2. CASE ProcessDies
    BY <1>1, <2>2, DeathPreference
  <2>3. CASE ServiceCommands
    BY <2>3, CommandsPreference
  <2>4. CASE ActivityStep /\ UNCHANGED clientVars
    <3>1. \A j \in Instance : Owner(j) => Owner(j)'
      BY <1>1, <2>4, ActivityKeeps DEF Owner, Kept
    <3> QED BY <2>4, <3>1, ActivityTouches, OwnersStay
  <2>5. ASSUME NEW i \in Instance, ServiceThread(i), UNCHANGED clientVars
        PROVE  PreferenceHasOwner'
    BY <1>1, <2>5, ThreadPreference DEF ServiceThread
  <2> QED BY <1>3, <2>1, <2>2, <2>3, <2>4, <2>5, Steps
<1> QED BY <1>2, <1>3

\* The preference that says connected has an instance that accounts for it.
THEOREM PreferenceAlwaysHasOwner == Spec => []PreferenceHasOwner
<1>1. Init => PreferenceHasOwner
  BY DEF Init, ServiceInit, PreferenceHasOwner
<1> QED BY <1>1, PreferenceNext, LivesAlways, SoundAlways, PTL DEF Spec

------------------------------------------------------------------------------
(* The box of the monitor *)

\* The three ways in which the box, the command told last and the timers of the instance
\* go together.  Without a timer when it is switched off, none comes until it is switched
\* on again.
AwakeOrWaking(i) == service[i].told = "START" \/ \E timer \in Pending(i) : timer.next = "START"
Asleep(i)        == service[i].told = "SLEEP" /\ Pending(i) = {}
Overridden(i)    == Pending(i) = {} => service[i].told = "START"

Box ==
  switched # "no" =>
    /\ ptservice # NoInstance
    /\ monitorCb => AwakeOrWaking(ptservice)
    /\ ~monitorCb /\ switched = "yes" => Asleep(ptservice)
    /\ ~monitorCb /\ switched = "underTimer" => Overridden(ptservice)

LEMMA BoxIsEnough == Box => OnlyTimerOverridesBox
BY DEF Box, OnlyTimerOverridesBox, AwakeOrWaking, Asleep, Overridden

\* A step that tells nothing and leaves the box alone.
LEMMA BoxKept ==
  ASSUME TypeOK, Box, UNCHANGED <<switched, ptservice, timers, monitorCb>>,
         \A i \in Instance : service'[i].told = service[i].told
  PROVE  Box'
BY DEF Box, TypeOK, ActivityTypeOK, AwakeOrWaking, Asleep, Overridden, Pending

\* Threads, commands of the main thread and the Linux side tell nothing.
LEMMA OthersTellNothing ==
  ASSUME TypeOK,
         Client \/ ServiceCommands \/ (\E i \in Instance : ThreadStep(i))
  PROVE  \A i \in Instance : service'[i].told = service[i].told
<1>1. service \in [Instance -> Fields]
  BY DEF TypeOK, ServiceTypeOK
<1>2. CASE Client
  <2>1. CASE ConnectInputServer
    BY <1>1, <2>1 DEF ConnectInputServer, Fields
  <2>2. CASE closeApp
    BY <1>1, <2>2 DEF closeApp, Fields
  <2>3. CASE PipeOpen \/ ReceiveEnd
    BY <2>3 DEF PipeOpen, ReceiveEnd, serviceVars
  <2> QED BY <1>2, <2>1, <2>2, <2>3 DEF Client
<1>3. CASE ServiceCommands
  <2>1. CASE onCreate
    BY <1>1, <2>1 DEF onCreate, Fields
  <2>2. CASE onDestroy
    BY <1>1, <2>2 DEF onDestroy, Fields
  <2>3. CASE CloseSockets
    BY <1>1, <2>3 DEF CloseSockets, Fields
  <2> QED BY <1>3, <2>1, <2>2, <2>3 DEF ServiceCommands
<1>4. ASSUME NEW i \in Instance, ThreadStep(i)
      PROVE  \A j \in Instance : service'[j].told = service[j].told
  <2>1. CASE BindServer(i)
    BY <1>1, <2>1 DEF BindServer, Fields
  <2>2. CASE Greet(i) \/ MakeInputHandler(i)
    BY <1>1, <2>2 DEF Greet, MakeInputHandler, Fields
  <2>3. ASSUME NEW where, Goes(i, where)
        PROVE  \A j \in Instance : service'[j].told = service[j].told
    BY <1>1, <2>3 DEF Goes, Fields
  <2> QED BY <1>4, <2>1, <2>2, <2>3 DEF ThreadStep, Accepts, AcceptFails, StartInputHandler,
       LeaveEventLoop, AnnounceClose, StopSelf, SaveConnected
<1> QED BY <1>2, <1>3, <1>4

\* The command of the box is the last one, and the timer it may start has yet to send.
LEMMA BoxUsed ==
  ASSUME TypeOK, SendCommand(~monitorCb, ptservice), monitorCb' = ~monitorCb,
         UNCHANGED ptservice, ptservice # NoInstance
  PROVE  Box'
<1>1. /\ service \in [Instance -> Fields] /\ ptservice \in Instance /\ monitorCb \in BOOLEAN
      /\ switched' = IF Pending(ptservice) = {} THEN "yes" ELSE "underTimer"
  BY DEF TypeOK, ServiceTypeOK, ActivityTypeOK, SendCommand
<1>2. CASE monitorCb
  <2>1. timers' = timers /\ Tell(ptservice, "SLEEP")
    BY <1>2 DEF SendCommand
  <2>2. service'[ptservice].told = "SLEEP"
    BY <1>1, <2>1 DEF Tell, Fields
  <2>3. UNCHANGED Pending(ptservice)
    BY <2>1 DEF Pending
  <2> QED BY <1>1, <1>2, <2>2, <2>3 DEF Box, Asleep, Overridden
<1>3. CASE ~monitorCb
  <2>1. service'[ptservice].told = "START"
    BY <1>1, <1>3 DEF SendCommand, Tell, Fields
  <2> QED BY <1>1, <1>3, <2>1 DEF Box, AwakeOrWaking
<1> QED BY <1>1, <1>2, <1>3

\* A timer that has sent SLEEP will send START, and one that has sent START is gone.
LEMMA TimerBox ==
  ASSUME TypeOK, Box, Timer
  PROVE  Box'
<1>1. PICK timer \in timers : TimerSends(timer)
  BY DEF Timer
<1>2. /\ UNCHANGED <<switched, ptservice, monitorCb>>
      /\ service \in [Instance -> Fields] /\ ptservice \in Instance \cup {NoInstance}
      /\ timer.instance \in Instance /\ timer.next \in {"SLEEP", "START"}
      /\ [timer EXCEPT !.next = "START"].instance = timer.instance
      /\ [timer EXCEPT !.next = "START"].next = "START"
  BY DEF Timer, TypeOK, ServiceTypeOK, ActivityTypeOK
<1>3. SUFFICES ASSUME switched # "no" PROVE Box'
  BY <1>2 DEF Box
<1>4. /\ \A i \in Instance \ {timer.instance} : service'[i].told = service[i].told
      /\ service'[timer.instance].told = timer.next
  BY <1>1, <1>2 DEF TimerSends, Tell, Fields
<1>5. ptservice \in Instance
  BY <1>2, <1>3 DEF Box
<1>6. CASE timer.instance # ptservice
  <2>1. UNCHANGED Pending(ptservice)
    BY <1>1, <1>2, <1>6 DEF TimerSends, Pending
  <2> QED BY <1>2, <1>3, <1>4, <1>5, <1>6, <2>1 DEF Box, AwakeOrWaking, Asleep, Overridden
<1>7. CASE timer.instance = ptservice
  <2>1. timer \in Pending(ptservice) /\ ~Asleep(ptservice)
    BY <1>1, <1>7 DEF Pending, Asleep
  <2>2. CASE timer.next = "SLEEP"
    <3>1. [timer EXCEPT !.next = "START"] \in Pending(ptservice)'
      BY <1>1, <1>2, <1>7, <2>2 DEF TimerSends, Pending
    <3> QED BY <1>2, <1>3, <2>1, <3>1 DEF Box, AwakeOrWaking, Overridden
  <2>3. CASE timer.next = "START"
    BY <1>2, <1>3, <1>4, <1>7, <2>1, <2>3 DEF Box, AwakeOrWaking, Overridden
  <2> QED BY <1>2, <2>2, <2>3
<1> QED BY <1>6, <1>7

\* Of the activity's steps only those of the box and of the timer tell something.
LEMMA ActivityBox ==
  ASSUME TypeOK, Box, ActivityStep
  PROVE  Box'
<1>1. /\ service \in [Instance -> Fields] /\ ptservice \in Instance \cup {NoInstance}
      /\ monitorCb \in BOOLEAN
      /\ timers \subseteq [instance : Instance, next : {"SLEEP", "START"}]
  BY DEF TypeOK, ServiceTypeOK, ActivityTypeOK
<1>2. CASE SwitchOn \/ SwitchOff
  BY <1>2 DEF SwitchOn, SwitchOff, TurnOn, TurnOff, Box
<1>3. CASE Leave
  BY <1>3 DEF Leave, NoViews, Box
<1>4. CASE HandleClose
  BY <1>4 DEF HandleClose, SwitchGoesOff, TurnOff, Box
<1>5. CASE HandleConnection
  BY <1>5, BoxKept DEF HandleConnection
<1>6. CASE onServiceConnected
  BY <1>6 DEF onServiceConnected, Box
<1>7. CASE Launch
  <2>1. CASE current # NoInstance
    BY <1>7, <2>1 DEF Launch, TurnOn, Box
  <2>2. CASE current = NoInstance
    BY <1>7, <2>2, BoxKept DEF Launch
  <2> QED BY <2>1, <2>2
<1>8. CASE UseBox
  <2>1. CASE ptservice = NoInstance
    BY <1>8, <2>1 DEF UseBox, Box
  <2>2. CASE ptservice # NoInstance
    BY <1>8, <2>2, BoxUsed DEF UseBox
  <2> QED BY <2>1, <2>2
<1>9. CASE Timer
  BY <1>9, TimerBox
<1> QED BY <1>2, <1>3, <1>4, <1>5, <1>6, <1>7, <1>8, <1>9 DEF ActivityStep

LEMMA BoxNext == Lives /\ Box /\ [Next]_linkVars => Box'
<1> SUFFICES ASSUME Lives, Box, [Next]_linkVars PROVE Box'
  OBVIOUS
<1>1. TypeOK
  BY DEF Lives
<1>2. CASE UNCHANGED linkVars
  BY <1>1, <1>2, BoxKept DEF linkVars, phoneVars, serviceVars, activityVars
<1>3. CASE Next
  <2>1. CASE Client /\ UNCHANGED activityVars
    BY <1>1, <2>1, BoxKept, OthersTellNothing DEF activityVars
  <2>2. CASE ProcessDies
    BY <2>2 DEF ProcessDies, NoViews, Box
  <2>3. CASE ServiceCommands
    BY <1>1, <2>3, BoxKept, OthersTellNothing DEF ServiceCommands, activityVars
  <2>4. CASE ActivityStep
    BY <1>1, <2>4, ActivityBox
  <2>5. ASSUME NEW i \in Instance, ServiceThread(i) PROVE Box'
    BY <1>1, <2>5, BoxKept, OthersTellNothing DEF ServiceThread, activityVars
  <2> QED BY <1>3, <2>1, <2>2, <2>3, <2>4, <2>5, Steps
<1> QED BY <1>2, <1>3

\* What the Linux side was last told is what the box says, but for the timer of the first
\* start, which overrides it for a while, or for good if the box was switched off under it.
THEOREM OnlyTimerEverOverridesBox == Spec => []OnlyTimerOverridesBox
<1>1. Init => Box
  BY DEF Init, ActivityInit, Box
<1> QED BY <1>1, BoxIsEnough, BoxNext, LivesAlways, PTL DEF Spec
==============================================================================
