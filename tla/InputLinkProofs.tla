--------------------------- MODULE InputLinkProofs ---------------------------
(***************************************************************************)
(* What is proved of InputLink, for any number of instances of the         *)
(* service, and however often the process of the phone is killed: what     *)
(* onCreate changes is changed back, what onDestroy looks for it releases, *)
(* and the last use of the monitor's box wins.                             *)
(***************************************************************************)
EXTENDS InputLink, TLAPS, SequenceTheorems

Commands == [what : {"create", "destroy"}, instance : Instance]
UiMessages == {"CONNECTING", "CONNECTED", "CLOSE"}

------------------------------------------------------------------------------
(* Types *)

\* NoInstance is none of the instances, and each is a positive number.
LEMMA Instances == NoInstance \notin Instance /\ \A i \in Instance : i \in Nat /\ i > 0
BY ServiceAssumption DEF Instance, NoInstance

\* A command that is posted keeps the queue a sequence of commands.
LEMMA CommandTyped ==
  ASSUME commands \in Seq(Commands), NEW what \in {"create", "destroy"}, NEW i \in Instance
  PROVE  Append(commands, Command(what, i)) \in Seq(Commands)
<1>1. Command(what, i) \in Commands
  BY DEF Command, Commands
<1> QED BY <1>1, AppendProperties

\* So does taking the first one.
LEMMA NextCommandTyped ==
  ASSUME commands \in Seq(Commands), commands # << >>
  PROVE  Head(commands) \in Commands /\ Tail(commands) \in Seq(Commands)
BY HeadTailProperties

\* The life of the service keeps its types in startService and bindService.
LEMMA StartAndBindTyped ==
  ASSUME TypeOK, MayStart, StartAndBind
  PROVE  /\ {started', bound'} \subseteq BOOLEAN
         /\ current' \in Instance \cup {NoInstance}
         /\ born' \in 0 .. MaxInstances
         /\ commands' \in Seq(Commands)
<1>1. commands \in Seq(Commands)
  BY DEF TypeOK, ServiceTypeOK, Commands
<1>2. CASE current = NoInstance
  <2>1. born + 1 \in Instance /\ born + 1 \in 0 .. MaxInstances
    BY <1>2, ServiceAssumption DEF MayStart, Instance, TypeOK, ServiceTypeOK
  <2>2. commands' \in Seq(Commands)
    BY <1>1, <1>2, <2>1, CommandTyped DEF StartAndBind
  <2> QED BY <1>2, <2>1, <2>2 DEF StartAndBind
<1>3. CASE current # NoInstance
  BY <1>1, <1>3 DEF StartAndBind, TypeOK, ServiceTypeOK
<1> QED BY <1>2, <1>3

\* And in stopService, stopSelf and unbindService.
LEMMA ReleaseTyped ==
  ASSUME TypeOK, NEW stillStarted \in BOOLEAN, NEW stillBound \in BOOLEAN,
         Release(stillStarted, stillBound)
  PROVE  /\ {started', bound'} \subseteq BOOLEAN
         /\ current' \in Instance \cup {NoInstance}
         /\ born' \in 0 .. MaxInstances
         /\ commands' \in Seq(Commands)
<1>1. commands \in Seq(Commands)
  BY DEF TypeOK, ServiceTypeOK, Commands
<1>2. CASE ~stillStarted /\ ~stillBound /\ current # NoInstance
  <2>1. current \in Instance
    BY <1>2 DEF TypeOK, ServiceTypeOK
  <2>2. commands' \in Seq(Commands)
    BY <1>1, <1>2, <2>1, CommandTyped DEF Release
  <2> QED BY <1>2, <2>2 DEF Release, TypeOK, ServiceTypeOK
<1>3. CASE ~(~stillStarted /\ ~stillBound /\ current # NoInstance)
  BY <1>1, <1>3 DEF Release, TypeOK, ServiceTypeOK
<1> QED BY <1>2, <1>3

\* The queue of the activity's handler keeps its type.
LEMMA UiTyped ==
  ASSUME NEW queue \in Seq(UiMessages), NEW message \in UiMessages
  PROVE  Append(queue, message) \in Seq(UiMessages)
BY AppendProperties

Threads == {"none", "bind", "accept", "accepted", "greeted", "saved", "made",
            "serving", "served", "closed", "ended"}

\* A thread that only goes on leaves its instance with fields of their types.
LEMMA GoesTyped ==
  ASSUME service \in [Instance -> Fields], NEW i \in Instance, NEW where \in Threads,
         Goes(i, where)
  PROVE  service' \in [Instance -> Fields]
<1>1. ASSUME NEW f \in Fields PROVE [f EXCEPT !.thread = where] \in Fields
  BY DEF Fields, Threads
<1> QED BY <1>1 DEF Goes

\* So does every step of a thread.
LEMMA ThreadFieldsTyped ==
  ASSUME TypeOK, NEW i \in Instance, ThreadStep(i)
  PROVE  service' \in [Instance -> Fields]
<1>1. service \in [Instance -> Fields]
  BY DEF TypeOK, ServiceTypeOK
<1>2. CASE BindServer(i)
  <2>1. CASE service' = [service EXCEPT ![i].thread = "ended"]
    BY <1>1, <2>1, GoesTyped DEF Goes, Threads
  <2>2. CASE service' = [service EXCEPT ![i].thread = "accept", ![i].server = "open"]
    <3>1. ASSUME NEW f \in Fields
          PROVE  [f EXCEPT !.thread = "accept", !.server = "open"] \in Fields
      BY DEF Fields
    <3> QED BY <1>1, <2>2, <3>1
  <2> QED BY <1>2, <2>1, <2>2 DEF BindServer
<1>3. CASE Accepts(i) \/ AcceptFails(i)
  BY <1>1, <1>3, GoesTyped DEF Accepts, AcceptFails, Threads
<1>4. CASE Greet(i)
  <2>1. ASSUME NEW f \in Fields
        PROVE  [f EXCEPT !.thread = "greeted", !.client = TRUE] \in Fields
    BY DEF Fields
  <2> QED BY <1>1, <1>4, <2>1 DEF Greet
<1>5. CASE SaveConnected(i) \/ StartInputHandler(i)
  BY <1>1, <1>5, GoesTyped DEF SaveConnected, StartInputHandler, Threads
<1>6. CASE MakeInputHandler(i)
  <2>1. ASSUME NEW f \in Fields
        PROVE  [f EXCEPT !.thread = "made", !.inputEventHandler = "running"] \in Fields
    BY ZenonT(60) DEF Fields
  <2> QED BY <1>1, <1>6, <2>1 DEF MakeInputHandler
<1>7. CASE LeaveEventLoop(i) \/ AnnounceClose(i) \/ StopSelf(i)
  BY <1>1, <1>7, GoesTyped DEF LeaveEventLoop, AnnounceClose, StopSelf, Threads
<1> QED BY <1>2, <1>3, <1>4, <1>5, <1>6, <1>7 DEF ThreadStep

\* The other fields of the phone keep their types in a step of a thread.
LEMMA ThreadTyped ==
  ASSUME TypeOK, NEW i \in Instance, ServiceThread(i), UNCHANGED clientVars
  PROVE  TypeOK'
<1>1. service' \in [Instance -> Fields]
  BY ThreadFieldsTyped DEF ServiceThread
<1>2. uiMessages \in Seq(UiMessages) /\ commands \in Seq(Commands)
  BY DEF TypeOK, ServiceTypeOK, UiMessages, Commands
<1>3. ActivityTypeOK' /\ ClientTypeOK'
  BY DEF ServiceThread, TypeOK, ActivityTypeOK, ClientTypeOK, activityVars, clientVars
<1> USE DEF TypeOK, ServiceTypeOK, UiMessages, Commands
<1>4. CASE \/ BindServer(i) \/ Accepts(i) \/ AcceptFails(i) \/ StartInputHandler(i)
           \/ LeaveEventLoop(i)
  BY <1>1, <1>3, <1>4 DEF BindServer, Accepts, AcceptFails, StartInputHandler, LeaveEventLoop,
     ThreadOnly, androidVars
<1>5. CASE Greet(i) \/ AnnounceClose(i)
  <2>1. uiMessages' \in Seq(UiMessages)
    BY <1>2, <1>5, UiTyped DEF Greet, AnnounceClose
  <2> QED BY <1>1, <1>3, <1>5, <2>1 DEF Greet, AnnounceClose, androidVars
<1>6. CASE SaveConnected(i) \/ MakeInputHandler(i)
  BY <1>1, <1>3, <1>6 DEF SaveConnected, MakeInputHandler, androidVars
<1>7. CASE StopSelf(i)
  <2>1. /\ {started', bound'} \subseteq BOOLEAN
        /\ current' \in Instance \cup {NoInstance}
        /\ born' \in 0 .. MaxInstances
        /\ commands' \in Seq(Commands)
    BY <1>2, <1>7, ReleaseTyped DEF StopSelf
  <2> QED BY <1>1, <1>3, <1>7, <2>1 DEF StopSelf
<1> QED BY <1>4, <1>5, <1>6, <1>7 DEF ServiceThread, ThreadStep

\* An instance that is being destroyed is created, and has saved an input method.
Destroying ==
  destroying # NoInstance =>
    service[destroying].life = "created" /\ service[destroying].savedIme # "none"

\* The main thread's commands keep the types.
LEMMA CommandsTyped ==
  ASSUME TypeOK, Destroying, ServiceCommands, UNCHANGED clientVars
  PROVE  TypeOK'
<1>1. service \in [Instance -> Fields] /\ commands \in Seq(Commands)
  BY DEF TypeOK, ServiceTypeOK, Commands
<1>2. ActivityTypeOK' /\ ClientTypeOK'
  BY DEF ServiceCommands, TypeOK, ActivityTypeOK, ClientTypeOK, activityVars, clientVars
<1>3. CASE onCreate
  <2>1. /\ Head(commands) \in Commands
        /\ commands' \in Seq(Commands)
    BY <1>1, <1>3, NextCommandTyped DEF onCreate, NextCommand
  <2>2. service' \in [Instance -> Fields]
    <3>1. Head(commands).instance \in Instance
      BY <2>1 DEF Commands
    <3>2. ime \in {"none", "user", "HardKeyboard"}
      BY DEF TypeOK, ServiceTypeOK
    <3>3. ASSUME NEW f \in Fields
          PROVE  [f EXCEPT !.life = "created", !.savedIme = ime, !.thread = "bind"] \in Fields
      BY <3>2, ZenonT(60) DEF Fields
    <3> QED BY <1>1, <1>3, <3>1, <3>3 DEF onCreate
  <2> QED BY <1>2, <1>3, <2>1, <2>2 DEF onCreate, TypeOK, ServiceTypeOK, Commands
<1>4. CASE onDestroy
  <2>1. /\ Head(commands) \in Commands
        /\ commands' \in Seq(Commands)
    BY <1>1, <1>4, NextCommandTyped DEF onDestroy, NextCommand
  <2>2. Head(commands).instance \in Instance
    BY <2>1 DEF Commands
  <2>3. service' \in [Instance -> Fields]
    <3>1. ASSUME NEW fields \in Fields
          PROVE  [fields EXCEPT !.inputEventHandler = Stopped(@)] \in Fields
      BY DEF Fields, Stopped
    <3> QED BY <1>1, <1>4, <2>2, <3>1 DEF onDestroy
  <2> QED BY <1>2, <1>4, <2>1, <2>2, <2>3 DEF onDestroy, TypeOK, ServiceTypeOK, Commands
<1>5. CASE CloseSockets
  <2>1. destroying \in Instance
    BY <1>5 DEF CloseSockets, TypeOK, ServiceTypeOK
  <2>2. service' \in [Instance -> Fields]
    <3>1. ASSUME NEW fields \in Fields, NEW conn \in {fields.conn, "phoneClosed"}
          PROVE  [fields EXCEPT !.life = "destroyed", !.conn = conn, !.server = ServerClosed(@)]
                   \in Fields
      BY ZenonT(60) DEF Fields, ServerClosed
    <3>2. PICK conn \in {service[destroying].conn, "phoneClosed"} :
            service' = [service EXCEPT ![destroying].life = "destroyed",
                                       ![destroying].conn = conn,
                                       ![destroying].server = ServerClosed(@)]
      BY <1>1, <1>5, <2>1 DEF CloseSockets
    <3> QED BY <1>1, <2>1, <3>1, <3>2
  <2>3. ime' \in {"user", "HardKeyboard"}
    BY <1>1, <1>5, <2>1 DEF CloseSockets, restoreInputMethod, Destroying, Fields
  <2> QED BY <1>2, <1>5, <2>1, <2>2, <2>3 DEF CloseSockets, NotConnected, TypeOK, ServiceTypeOK
<1> QED BY <1>3, <1>4, <1>5 DEF ServiceCommands

\* What the death of the process leaves of an instance.
Dead(f) ==
  IF f.life = "unborn" THEN Unborn
  ELSE [f EXCEPT !.life = IF @ = "destroyed" THEN @ ELSE "killed",
                 !.thread = "ended",
                 !.server = IF @ = "open" THEN "closed" ELSE @,
                 !.conn = IF @ = "open" THEN "phoneClosed" ELSE @]

\* The death of the process keeps the types.
LEMMA DeathTyped ==
  ASSUME TypeOK, ProcessDies, savedMonitorCb' \in BOOLEAN, UNCHANGED clientVars
  PROVE  TypeOK'
<1>1. service' \in [Instance -> Fields]
  <2>1. ASSUME NEW f \in Fields PROVE Dead(f) \in Fields
    <3>1. CASE f.life = "unborn"
      BY <3>1 DEF Dead, Unborn, Fields
    <3>2. ASSUME NEW life \in {"destroyed", "killed"}, NEW server \in {"null", "open", "closed"},
                 NEW conn \in {"none", "open", "phoneClosed", "peerClosed"}
          PROVE  [f EXCEPT !.life = life, !.thread = "ended", !.server = server, !.conn = conn]
                   \in Fields
      <4>1. PICK g \in Fields : g = [f EXCEPT !.life = life, !.thread = "ended"]
        BY DEF Fields
      <4>2. PICK h \in Fields : h = [g EXCEPT !.server = server]
        BY DEF Fields
      <4>3. [h EXCEPT !.conn = conn] \in Fields
        BY DEF Fields
      <4> QED BY <4>1, <4>2, <4>3
    <3>3. CASE f.life # "unborn"
      <4> DEFINE life   == IF f.life = "destroyed" THEN f.life ELSE "killed"
                 server == IF f.server = "open" THEN "closed" ELSE f.server
                 conn   == IF f.conn = "open" THEN "phoneClosed" ELSE f.conn
      <4>1. /\ life \in {"destroyed", "killed"}
            /\ server \in {"null", "open", "closed"}
            /\ conn \in {"none", "open", "phoneClosed", "peerClosed"}
        BY DEF Fields
      <4>2. Dead(f) =
              [f EXCEPT !.life = life, !.thread = "ended", !.server = server, !.conn = conn]
        BY <3>3 DEF Dead
      <4> HIDE DEF life, server, conn
      <4> QED BY <3>2, <4>1, <4>2
    <3> QED BY <3>1, <3>3
  <2>2. service' = [i \in Instance |-> Dead(service[i])]
    BY DEF ProcessDies, ServiceDies, Dead
  <2> QED BY <2>1, <2>2 DEF TypeOK, ServiceTypeOK
<1>2. /\ {started', bound'} \subseteq BOOLEAN
      /\ current' \in Instance \cup {NoInstance}
      /\ born' \in 0 .. MaxInstances
      /\ commands' \in Seq(Commands)
  <2>1. CASE started /\ born < MaxInstances
    <3>1. born + 1 \in Instance /\ born + 1 \in 0 .. MaxInstances
      BY <2>1, ServiceAssumption DEF TypeOK, ServiceTypeOK, Instance
    <3>2. Command("create", born + 1) \in Commands
      BY <3>1 DEF Command, Commands
    <3>3. commands' = <<Command("create", born + 1)>> /\ UNCHANGED started
          /\ bound' = FALSE /\ current' = born + 1 /\ born' = born + 1
      BY <2>1 DEF ProcessDies, ServiceDies
    <3>4. commands' \in Seq(Commands)
      BY <3>2, <3>3
    <3>5. {started', bound'} \subseteq BOOLEAN
      BY <3>3 DEF TypeOK, ServiceTypeOK
    <3> QED BY <3>1, <3>3, <3>4, <3>5
  <2>2. CASE ~(started /\ born < MaxInstances)
    <3>1. commands' = << >> /\ started' = FALSE /\ bound' = FALSE
          /\ current' = NoInstance /\ born' = born
      BY <2>2 DEF ProcessDies, ServiceDies
    <3> QED BY <3>1, EmptySeq DEF TypeOK, ServiceTypeOK
  <2> QED BY <2>1, <2>2
<1>3. ActivityTypeOK' /\ ClientTypeOK'
  BY DEF ProcessDies, NoViews, TypeOK, ActivityTypeOK, ClientTypeOK, clientVars
<1>4. /\ handler' = FALSE /\ uiMessages' = << >> /\ destroying' = NoInstance
      /\ UNCHANGED <<ime, isConnected, overtaken>>
  BY DEF ProcessDies, ServiceDies
<1> QED BY <1>1, <1>2, <1>3, <1>4, EmptySeq DEF TypeOK, ServiceTypeOK, Commands

\* The user's steps that reach no instance keep the types, and so do the messages.
LEMMA SwitchTyped ==
  ASSUME TypeOK, SwitchOn \/ SwitchOff \/ Launch \/ Leave, UNCHANGED clientVars
  PROVE  TypeOK'
<1>1. uiMessages \in Seq(UiMessages) /\ << >> \in Seq(UiMessages) /\ commands \in Seq(Commands)
  BY DEF TypeOK, ServiceTypeOK, UiMessages, Commands
<1>2. ClientTypeOK'
  BY DEF TypeOK, ClientTypeOK, clientVars
<1> USE DEF TypeOK, ServiceTypeOK, ActivityTypeOK, Commands
<1>3. CASE SwitchOn
  <2>1. StartAndBind /\ MayStart
    BY <1>3 DEF SwitchOn, TurnOn
  <2>2. uiMessages' \in Seq(UiMessages)
    BY <1>1, <1>3, UiTyped DEF SwitchOn, TurnOn, UiMessages
  <2> QED BY <1>2, <1>3, <2>1, <2>2, StartAndBindTyped DEF SwitchOn, TurnOn, UiMessages
<1>4. CASE SwitchOff
  <2>1. Release(FALSE, FALSE)
    BY <1>4 DEF SwitchOff, TurnOff
  <2>2. uiMessages' \in Seq(UiMessages)
    BY <1>1, <1>4, UiTyped DEF SwitchOff, TurnOff, UiMessages
  <2> QED BY <1>2, <1>4, <2>1, <2>2, ReleaseTyped DEF SwitchOff, TurnOff, UiMessages
<1>5. CASE Launch
  <2>1. CASE current # NoInstance
    <3>1. StartAndBind /\ MayStart
      BY <1>5, <2>1 DEF Launch, TurnOn, MayStart
    <3>2. uiMessages' \in Seq(UiMessages)
      BY <1>1, <1>5, <2>1, UiTyped DEF Launch, TurnOn, UiMessages
    <3> QED BY <1>2, <1>5, <2>1, <3>1, <3>2, StartAndBindTyped DEF Launch, TurnOn, UiMessages
  <2>2. CASE current = NoInstance
    BY <1>2, <1>5, <2>2 DEF Launch
  <2> QED BY <2>1, <2>2
<1>6. CASE Leave
  <2>1. Release(started, FALSE)
    BY <1>6 DEF Leave
  <2>2. ActivityTypeOK'
    BY <1>6 DEF Leave, NoViews
  <2> QED BY <1>1, <1>2, <1>6, <2>1, <2>2, ReleaseTyped DEF Leave, UiMessages
<1> QED BY <1>3, <1>4, <1>5, <1>6

\* The fields of one instance but for what it was told keep their types.
LEMMA TellTyped ==
  ASSUME service \in [Instance -> Fields], NEW i, NEW what \in {"START", "SLEEP"}, Tell(i, what)
  PROVE  service' \in [Instance -> Fields]
<1>1. ASSUME NEW f \in Fields PROVE [f EXCEPT !.told = what] \in Fields
  BY DEF Fields
<1> QED BY <1>1 DEF Tell

\* The box of the monitor and its timer keep the types.
LEMMA MonitorTyped ==
  ASSUME TypeOK, UseBox \/ Timer, UNCHANGED clientVars
  PROVE  TypeOK'
<1>1. ClientTypeOK'
  BY DEF TypeOK, ClientTypeOK, clientVars
<1>2. service \in [Instance -> Fields]
  BY DEF TypeOK, ServiceTypeOK
<1> USE DEF TypeOK, ServiceTypeOK, ActivityTypeOK
<1>3. CASE UseBox
  <2>1. CASE ptservice # NoInstance
    <3>1. SendCommand(~monitorCb, ptservice)
      BY <1>3, <2>1 DEF UseBox
    <3>2. service' \in [Instance -> Fields]
      BY <1>2, <3>1, TellTyped DEF SendCommand
    <3>3. timers' \subseteq [instance : Instance, next : {"SLEEP", "START"}]
      BY <2>1, <3>1 DEF SendCommand
    <3>4. isFirst' \in BOOLEAN /\ switched' \in {"no", "yes", "underTimer"}
      BY <3>1 DEF SendCommand
    <3> QED BY <1>1, <1>3, <3>2, <3>3, <3>4 DEF UseBox, androidVars
  <2>2. CASE ptservice = NoInstance
    BY <1>1, <1>3, <2>2 DEF UseBox, androidVars
  <2> QED BY <2>1, <2>2
<1>4. CASE Timer
  <2>1. PICK timer \in timers : TimerSends(timer)
    BY <1>4 DEF Timer
  <2>2. timer \in [instance : Instance, next : {"SLEEP", "START"}]
    BY <2>1
  <2>3. service' \in [Instance -> Fields]
    BY <1>2, <2>1, <2>2, TellTyped DEF TimerSends
  <2>4. timers' \subseteq [instance : Instance, next : {"SLEEP", "START"}]
    BY <2>1, <2>2 DEF TimerSends
  <2> QED BY <1>1, <1>4, <2>3, <2>4 DEF Timer, androidVars
<1> QED BY <1>3, <1>4

\* The messages of the activity's handler and of the binding keep the types.
LEMMA MessagesTyped ==
  ASSUME TypeOK, HandleConnection \/ HandleClose \/ onServiceConnected, UNCHANGED clientVars
  PROVE  TypeOK'
<1>1. ClientTypeOK'
  BY DEF TypeOK, ClientTypeOK, clientVars
<1>2. /\ service \in [Instance -> Fields] /\ commands \in Seq(Commands)
      /\ uiMessages \in Seq(UiMessages)
  BY DEF TypeOK, ServiceTypeOK, Commands, UiMessages
<1> USE DEF TypeOK, ServiceTypeOK, ActivityTypeOK, Commands
<1>3. CASE HandleConnection
  <2>1. uiMessages' \in Seq(UiMessages)
    BY <1>2, <1>3, HeadTailProperties DEF HandleConnection, NextMessage
  <2> QED BY <1>1, <1>3, <2>1 DEF HandleConnection, NextMessage, androidVars, UiMessages
<1>4. CASE HandleClose
  <2>1. Tail(uiMessages) \in Seq(UiMessages)
    BY <1>2, <1>4, HeadTailProperties DEF HandleClose, NextMessage
  <2>2. service' \in [Instance -> Fields]
    BY <1>2, <1>4, TellTyped DEF HandleClose
  <2>3. CASE sw
    <3>1. Release(FALSE, FALSE)
      BY <1>4, <2>3 DEF HandleClose, SwitchGoesOff, TurnOff
    <3>2. uiMessages' \in Seq(UiMessages)
      BY <1>4, <2>1, <2>3, UiTyped DEF HandleClose, SwitchGoesOff, TurnOff, UiMessages
    <3> QED BY <1>1, <1>4, <2>2, <2>3, <3>1, <3>2, ReleaseTyped
        DEF HandleClose, SwitchGoesOff, TurnOff, UiMessages
  <2>4. CASE ~sw
    BY <1>1, <1>4, <2>1, <2>2, <2>4 DEF HandleClose, SwitchGoesOff, UiMessages
  <2> QED BY <2>3, <2>4
<1>5. CASE onServiceConnected
  BY <1>1, <1>5 DEF onServiceConnected, serviceVars, androidVars
<1> QED BY <1>3, <1>4, <1>5

\* The steps of the Linux side keep the types.
LEMMA ClientTyped ==
  ASSUME TypeOK, Client, UNCHANGED activityVars
  PROVE  TypeOK'
<1>1. ActivityTypeOK'
  BY DEF TypeOK, ActivityTypeOK, activityVars
<1>2. service \in [Instance -> Fields]
  BY DEF TypeOK, ServiceTypeOK
<1> USE DEF TypeOK, ServiceTypeOK, ClientTypeOK
<1>3. CASE ConnectInputServer
  <2>1. PICK i \in Instance :
          /\ InputSocket' = i
          /\ queued' = (service[i].conn # "none")
          /\ service' = [service EXCEPT ![i].conn = IF @ = "none" THEN "open" ELSE @]
    BY <1>3 DEF ConnectInputServer
  <2>2. ASSUME NEW f \in Fields
        PROVE  [f EXCEPT !.conn = IF @ = "none" THEN "open" ELSE @] \in Fields
    BY DEF Fields
  <2>3. service' \in [Instance -> Fields]
    BY <1>2, <2>1, <2>2
  <2> QED BY <1>1, <1>3, <2>1, <2>3, Instances DEF ConnectInputServer, PhoneOnly, androidVars
<1>4. CASE PipeOpen
  BY <1>1, <1>4 DEF PipeOpen, serviceVars, androidVars
<1>5. CASE ReceiveEnd
  BY <1>1, <1>5 DEF ReceiveEnd, ClientGone, serviceVars, androidVars
<1>6. CASE closeApp
  <2>1. ASSUME NEW f \in Fields PROVE [f EXCEPT !.conn = "peerClosed"] \in Fields
    BY DEF Fields
  <2>2. service' \in [Instance -> Fields]
    BY <1>2, <1>6, <2>1 DEF closeApp
  <2> QED BY <1>1, <1>6, <2>2 DEF closeApp, ClientGone, PhoneOnly, androidVars
<1> QED BY <1>3, <1>4, <1>5, <1>6 DEF Client

\* Every step keeps the types.
LEMMA NextTyped ==
  ASSUME TypeOK, Destroying, Next
  PROVE  TypeOK'
<1>1. CASE Client /\ UNCHANGED activityVars
  BY <1>1, ClientTyped
<1>2. CASE ProcessDies /\ UNCHANGED <<savedMonitorCb, clientVars>>
  BY <1>2, DeathTyped DEF TypeOK, ActivityTypeOK
<1>3. CASE Phone /\ UNCHANGED clientVars
  <2>1. CASE User
    <3>1. CASE UseBoxTooEarly
      BY <1>3, <3>1, DeathTyped DEF UseBoxTooEarly, TypeOK, ActivityTypeOK
    <3>2. CASE LeaveFails
      <4>1. savedMonitorCb' \in BOOLEAN
        BY <3>2 DEF LeaveFails, TypeOK, ActivityTypeOK
      <4> QED BY <1>3, <3>2, <4>1, DeathTyped DEF LeaveFails
    <3> QED BY <1>3, <2>1, <3>1, <3>2, SwitchTyped, MonitorTyped DEF User
  <2>2. CASE Messages
    <3>1. CASE HandleCloseFails
      BY <1>3, <3>1, DeathTyped DEF HandleCloseFails, TypeOK, ActivityTypeOK
    <3> QED BY <1>3, <2>2, <3>1, MessagesTyped DEF Messages
  <2>3. CASE onServiceConnected \/ Timer
    BY <1>3, <2>3, MessagesTyped, MonitorTyped
  <2>4. CASE \E i \in Instance : ServiceThread(i)
    BY <1>3, <2>4, ThreadTyped
  <2>5. CASE ServiceCommands \/ UncaughtException
    <3>1. CASE UncaughtException
      BY <1>3, <3>1, DeathTyped DEF UncaughtException, TypeOK, ActivityTypeOK
    <3> QED BY <1>3, <2>5, <3>1, CommandsTyped
  <2> QED BY <1>3, <2>1, <2>2, <2>3, <2>4, <2>5 DEF Phone
<1> QED BY <1>1, <1>2, <1>3 DEF Next

\* The initial state is in its type.
LEMMA InitTyped == Init => TypeOK
<1> SUFFICES ASSUME Init PROVE TypeOK
  OBVIOUS
<1>1. Unborn \in Fields
  BY DEF Unborn, Fields
<1>2. service \in [Instance -> Fields]
  BY <1>1 DEF Init, ServiceInit
<1>3. << >> \in Seq(Commands) /\ << >> \in Seq(UiMessages)
  BY EmptySeq
<1>4. ServiceTypeOK
  <2>1. commands \in Seq(Commands) /\ uiMessages \in Seq(UiMessages)
    BY <1>3 DEF Init, ServiceInit
  <2>2. /\ ime = "user" /\ overtaken = {} /\ born = 0
        /\ {isConnected, started, bound, handler} \subseteq BOOLEAN
        /\ {current, destroying} \subseteq {NoInstance}
    BY DEF Init, ServiceInit
  <2> QED BY <1>2, <2>1, <2>2, ServiceAssumption DEF ServiceTypeOK, Commands, UiMessages
<1>5. ActivityTypeOK
  BY DEF Init, ActivityInit, ActivityTypeOK
<1>6. ClientTypeOK
  BY DEF Init, ClientInit, ClientTypeOK
<1> QED BY <1>4, <1>5, <1>6 DEF TypeOK

------------------------------------------------------------------------------
(* The steps, by what they do to the lives of the instances *)

SameLives ==
  \A i \in Instance : /\ service'[i].life = service[i].life
                      /\ service'[i].savedIme = service[i].savedIme

\* Nothing is asked of the activity manager, and it does nothing.
Quiet == SameLives /\ UNCHANGED <<commands, born, current, destroying, ime>>

Starts == StartAndBind /\ MayStart /\ SameLives /\ UNCHANGED <<destroying, ime>>

Releases ==
  \E stillStarted, stillBound \in BOOLEAN :
    Release(stillStarted, stillBound) /\ SameLives /\ UNCHANGED <<destroying, ime>>

\* The steps of a server thread ask for a release at most.
LEMMA ThreadKind ==
  ASSUME TypeOK, NEW i \in Instance, ThreadStep(i)
  PROVE  Quiet \/ Releases
<1>1. service \in [Instance -> Fields]
  BY DEF TypeOK, ServiceTypeOK
<1>2. ASSUME NEW where, Goes(i, where) PROVE SameLives
  BY <1>1, <1>2 DEF Goes, SameLives, Fields
<1>3. CASE BindServer(i)
  BY <1>1, <1>3 DEF BindServer, Quiet, SameLives, Fields, ThreadOnly, androidVars
<1>4. CASE Accepts(i) \/ AcceptFails(i) \/ StartInputHandler(i) \/ LeaveEventLoop(i)
  BY <1>2, <1>4 DEF Accepts, AcceptFails, StartInputHandler, LeaveEventLoop, Quiet, ThreadOnly,
     androidVars
<1>5. CASE Greet(i)
  BY <1>1, <1>5 DEF Greet, Quiet, SameLives, Fields, androidVars
<1>6. CASE SaveConnected(i) \/ AnnounceClose(i)
  BY <1>2, <1>6 DEF SaveConnected, AnnounceClose, Quiet, androidVars
<1>7. CASE MakeInputHandler(i)
  BY <1>1, <1>7 DEF MakeInputHandler, Quiet, SameLives, Fields, androidVars
<1>8. CASE StopSelf(i)
  <2>1. SameLives /\ UNCHANGED <<destroying, ime>>
    BY <1>2, <1>8 DEF StopSelf
  <2>2. CASE current = i
    <3>1. bound \in BOOLEAN
      BY DEF TypeOK, ServiceTypeOK
    <3> QED BY <1>8, <2>1, <2>2, <3>1 DEF StopSelf, Releases
  <2>3. CASE current # i
    BY <1>8, <2>1, <2>3 DEF StopSelf, Quiet
  <2> QED BY <2>2, <2>3
<1> QED BY <1>3, <1>4, <1>5, <1>6, <1>7, <1>8 DEF ThreadStep

\* A step that tells an instance something, or nothing, is quiet if the rest of it is.
LEMMA TellKind ==
  ASSUME TypeOK, (\E i, what : Tell(i, what)) \/ UNCHANGED service
  PROVE  SameLives
<1>1. service \in [Instance -> Fields]
  BY DEF TypeOK, ServiceTypeOK
<1> QED BY <1>1 DEF Tell, SameLives, Fields

\* The steps of the user ask for a start or a release at most.
LEMMA UserKind ==
  ASSUME TypeOK, SwitchOn \/ SwitchOff \/ UseBox \/ Launch \/ Leave
  PROVE  Quiet \/ Starts \/ Releases
<1>1. started \in BOOLEAN
  BY DEF TypeOK, ServiceTypeOK
<1>2. CASE SwitchOn
  BY <1>2, TellKind DEF SwitchOn, TurnOn, Starts
<1>3. CASE SwitchOff
  BY <1>3, TellKind DEF SwitchOff, TurnOff, Releases
<1>4. CASE UseBox
  <2>1. SameLives
    BY <1>4, TellKind DEF UseBox, SendCommand
  <2> QED BY <1>4, <2>1 DEF UseBox, Quiet, androidVars
<1>5. CASE Launch
  <2>1. SameLives
    BY <1>5, TellKind DEF Launch
  <2>2. CASE current # NoInstance
    BY <1>5, <2>1, <2>2 DEF Launch, TurnOn, Starts, MayStart
  <2>3. CASE current = NoInstance
    BY <1>5, <2>1, <2>3 DEF Launch, Quiet
  <2> QED BY <2>2, <2>3
<1>6. CASE Leave
  <2>1. SameLives
    BY <1>6, TellKind DEF Leave
  <2> QED BY <1>1, <1>6, <2>1 DEF Leave, Releases
<1> QED BY <1>2, <1>3, <1>4, <1>5, <1>6

\* So do the messages of the activity's handler, the binding and the timer.
LEMMA MessageKind ==
  ASSUME TypeOK, HandleConnection \/ HandleClose \/ onServiceConnected \/ Timer
  PROVE  Quiet \/ Releases
<1>1. CASE HandleConnection
  BY <1>1, TellKind DEF HandleConnection, Quiet, androidVars
<1>2. CASE HandleClose
  <2>1. SameLives
    BY <1>2, TellKind DEF HandleClose
  <2>2. CASE sw
    BY <1>2, <2>1, <2>2 DEF HandleClose, SwitchGoesOff, TurnOff, Releases
  <2>3. CASE ~sw
    BY <1>2, <2>1, <2>3 DEF HandleClose, SwitchGoesOff, Quiet
  <2> QED BY <2>2, <2>3
<1>3. CASE onServiceConnected
  BY <1>3, TellKind DEF onServiceConnected, Quiet, serviceVars, androidVars
<1>4. CASE Timer
  <2>1. SameLives
    BY <1>4, TellKind DEF Timer, TimerSends
  <2> QED BY <1>4, <2>1 DEF Timer, Quiet, androidVars
<1> QED BY <1>1, <1>2, <1>3, <1>4

\* The Linux side asks nothing of the activity manager.
LEMMA ClientKind ==
  ASSUME TypeOK, Client
  PROVE  Quiet
<1>1. service \in [Instance -> Fields]
  BY DEF TypeOK, ServiceTypeOK
<1>2. CASE ConnectInputServer
  BY <1>1, <1>2 DEF ConnectInputServer, Quiet, SameLives, Fields, PhoneOnly, androidVars
<1>3. CASE PipeOpen \/ ReceiveEnd
  BY <1>3, TellKind DEF PipeOpen, ReceiveEnd, Quiet, serviceVars, androidVars
<1>4. CASE closeApp
  BY <1>1, <1>4 DEF closeApp, Quiet, SameLives, Fields, PhoneOnly, androidVars
<1> QED BY <1>2, <1>3, <1>4 DEF Client

\* Every step is of one of seven kinds.
LEMMA StepKinds ==
  ASSUME TypeOK, Next
  PROVE  Quiet \/ Starts \/ Releases \/ onCreate \/ onDestroy \/ CloseSockets \/ ProcessDies
BY ThreadKind, UserKind, MessageKind, ClientKind
   DEF Next, Phone, User, Messages, UseBoxTooEarly, LeaveFails, HandleCloseFails,
       UncaughtException, ServiceThread, ServiceCommands

------------------------------------------------------------------------------
(* The lives of the instances *)

Created(i) == service[i].life = "created"
Killed     == \E i \in Instance : service[i].life = "killed"

\* An instance is created once, in the order of their numbers, and destroyed before the
\* next one is: the commands that wait say so of the instances to come.
CommandsAlternate ==
  /\ \A m \in DOMAIN commands : commands[m].instance <= born
  /\ \A m, n \in DOMAIN commands : m < n =>
       /\ commands[m].instance <= commands[n].instance
       /\ commands[n].what = "create" => commands[m].instance < commands[n].instance
  /\ \A m \in DOMAIN commands : m + 1 \in DOMAIN commands =>
       IF commands[m].what = "create"
         THEN commands[m + 1] = Command("destroy", commands[m].instance)
         ELSE commands[m + 1].what = "create"

\* An instance whose turn has not come is unborn.
UnbornAhead ==
  /\ \A j \in Instance : j > born => service[j].life = "unborn"
  /\ \A m \in DOMAIN commands : commands[m].what = "create" =>
       \A j \in Instance : j >= commands[m].instance => service[j].life = "unborn"

\* What the first command finds, and what the last one leaves the activity manager with.
FirstCommand ==
  commands # << >> =>
    IF commands[1].what = "create"
      THEN destroying = NoInstance => \A j \in Instance : ~Created(j)
      ELSE destroying = NoInstance /\ Created(commands[1].instance)

LastCommand ==
  IF current = NoInstance
    THEN IF commands = << >>
           THEN destroying = NoInstance => \A j \in Instance : ~Created(j)
           ELSE commands[Len(commands)].what = "destroy"
    ELSE /\ current = born
         /\ IF commands = << >>
              THEN destroying = NoInstance /\ Created(current)
              ELSE commands[Len(commands)] = Command("create", current)

OneCreated ==
  /\ destroying # NoInstance => Created(destroying)
  /\ \A i, j \in Instance : Created(i) /\ Created(j) => i = j

Order == CommandsAlternate /\ UnbornAhead /\ FirstCommand /\ LastCommand /\ OneCreated

\* The input method the next instance finds, and the one that is there has saved, is the
\* user's until an instance was killed.
Method == IF Killed THEN "HardKeyboard" ELSE "user"

UsersInputMethod ==
  /\ (\A i \in Instance : ~Created(i)) => ime = Method
  /\ \A i \in Instance : Created(i) => ime = "HardKeyboard" /\ service[i].savedIme = Method

\* Without a word to the activity manager, the order stays.
LEMMA QuietOrder ==
  ASSUME TypeOK, Order, Quiet
  PROVE  Order'
<1>1. /\ UNCHANGED <<commands, born, current, destroying>>
      /\ \A i \in Instance : service'[i].life = service[i].life
  BY DEF Quiet, SameLives
<1>2. /\ \A m \in DOMAIN commands : commands[m].instance \in Instance
      /\ current # NoInstance => current \in Instance
      /\ destroying # NoInstance => destroying \in Instance
  <2>1. commands \in Seq(Commands)
    BY DEF TypeOK, ServiceTypeOK, Commands
  <2>2. \A m \in DOMAIN commands : commands[m] \in Commands
    BY <2>1, LenProperties, ElementOfSeq
  <2> QED BY <2>2 DEF TypeOK, ServiceTypeOK, Commands
<1>3. CommandsAlternate' /\ UnbornAhead'
  BY <1>1 DEF Order, CommandsAlternate, UnbornAhead
<1>4. FirstCommand'
  <2>1. commands # << >> => 1 \in DOMAIN commands
    BY DEF TypeOK, ServiceTypeOK
  <2> QED BY <1>1, <1>2, <2>1 DEF Order, FirstCommand, Created
<1>5. LastCommand' /\ OneCreated'
  BY <1>1, <1>2 DEF Order, LastCommand, OneCreated, Created
<1> QED BY <1>3, <1>4, <1>5 DEF Order

\* What Append does to the queue of commands.
LEMMA Appended ==
  ASSUME commands \in Seq(Commands), NEW c \in Commands, commands' = Append(commands, c)
  PROVE  /\ Len(commands) \in Nat /\ DOMAIN commands = 1 .. Len(commands)
         /\ commands' # << >> /\ Len(commands') = Len(commands) + 1
         /\ DOMAIN commands' = 1 .. Len(commands) + 1
         /\ \A m \in 1 .. Len(commands) : commands'[m] = commands[m] /\ commands[m] \in Commands
         /\ commands'[Len(commands) + 1] = c
         /\ commands = << >> <=> Len(commands) = 0
BY LenProperties, EmptySeq, ElementOfSeq, AppendProperties

\* startService and bindService ask for an instance when there is none.
LEMMA StartOrder ==
  ASSUME TypeOK, Order, Starts
  PROVE  Order'
<1>1. CASE current # NoInstance
  <2>1. Quiet
    BY <1>1 DEF Starts, StartAndBind, Quiet
  <2> QED BY <2>1, QuietOrder
<1>2. CASE current = NoInstance
  <2> DEFINE n == Len(commands)
             c == Command("create", born + 1)
  <2>1. /\ commands \in Seq(Commands) /\ born \in Nat /\ born + 1 \in Instance
        /\ destroying \in Instance \cup {NoInstance}
    BY <1>2, ServiceAssumption DEF Starts, MayStart, Instance, TypeOK, ServiceTypeOK, Commands
  <2>2. c \in Commands /\ c.what = "create" /\ c.instance = born + 1
    BY <2>1 DEF Command, Commands
  <2>3. /\ commands' = Append(commands, c) /\ current' = born + 1 /\ born' = born + 1
        /\ UNCHANGED destroying
        /\ \A i \in Instance : service'[i].life = service[i].life
    BY <1>2 DEF Starts, StartAndBind, SameLives
  <2> HIDE DEF c
  <2>4. /\ n \in Nat /\ DOMAIN commands = 1 .. n
        /\ commands' # << >> /\ Len(commands') = n + 1
        /\ DOMAIN commands' = 1 .. n + 1
        /\ \A m \in 1 .. n : commands'[m] = commands[m] /\ commands[m] \in Commands
        /\ commands'[n + 1] = c
        /\ commands = << >> <=> n = 0
    BY <2>1, <2>2, <2>3, Appended
  <2> HIDE DEF n
  <2>5. \A m \in 1 .. n : commands[m].instance \in Instance /\ commands[m].instance <= born
    BY <2>4 DEF Commands, Order, CommandsAlternate
  <2>6. CommandsAlternate'
    <3>1. \A m \in DOMAIN commands' : commands'[m].instance <= born'
      BY <2>1, <2>2, <2>3, <2>4, <2>5, Instances
    <3>2. \A m, k \in DOMAIN commands' : m < k =>
            /\ commands'[m].instance <= commands'[k].instance
            /\ commands'[k].what = "create" => commands'[m].instance < commands'[k].instance
      <4> SUFFICES ASSUME NEW m \in 1 .. n + 1, NEW k \in 1 .. n + 1, m < k
                   PROVE  /\ commands'[m].instance <= commands'[k].instance
                          /\ commands'[k].what = "create" =>
                               commands'[m].instance < commands'[k].instance
        BY <2>4
      <4>1. CASE k = n + 1
        BY <2>1, <2>2, <2>4, <2>5, <4>1, Instances
      <4>2. CASE k # n + 1
        <5>1. m \in 1 .. n /\ k \in 1 .. n
          BY <2>4, <4>2
        <5>2. commands'[m] = commands[m] /\ commands'[k] = commands[k]
          BY <2>4, <5>1
        <5>3. m \in DOMAIN commands /\ k \in DOMAIN commands
          BY <2>4, <5>1
        <5> QED BY <5>2, <5>3 DEF Order, CommandsAlternate
      <4> QED BY <4>1, <4>2
    <3>3. ASSUME NEW m \in DOMAIN commands', m + 1 \in DOMAIN commands'
          PROVE  IF commands'[m].what = "create"
                   THEN commands'[m + 1] = Command("destroy", commands'[m].instance)
                   ELSE commands'[m + 1].what = "create"
      <4>1. CASE m + 1 = n + 1
        <5>1. m = n /\ n # 0 /\ commands'[m] = commands[n]
          BY <2>4, <3>3, <4>1
        <5>2. commands[n].what = "destroy"
          BY <1>2, <2>4, <5>1 DEF Order, LastCommand, n
        <5> QED BY <2>2, <2>4, <4>1, <5>1, <5>2
      <4>2. CASE m + 1 # n + 1
        BY <2>4, <3>3, <4>2 DEF Order, CommandsAlternate
      <4> QED BY <4>1, <4>2
    <3> QED BY <3>1, <3>2, <3>3 DEF CommandsAlternate
  <2>7. UnbornAhead'
    <3>1. ASSUME NEW j \in Instance, j >= born + 1 PROVE service'[j].life = "unborn"
      BY <2>1, <2>3, <3>1, Instances DEF Order, UnbornAhead
    <3>2. ASSUME NEW m \in DOMAIN commands', commands'[m].what = "create",
                 NEW j \in Instance, j >= commands'[m].instance
          PROVE  service'[j].life = "unborn"
      <4>1. CASE m = n + 1
        BY <2>2, <2>4, <3>1, <3>2, <4>1
      <4>2. CASE m # n + 1
        BY <2>3, <2>4, <3>2, <4>2 DEF Order, UnbornAhead
      <4> QED BY <4>1, <4>2
    <3> QED BY <2>1, <2>3, <3>1, <3>2, Instances DEF UnbornAhead
  <2>8. FirstCommand'
    <3>1. CASE n = 0
      BY <1>2, <2>1, <2>2, <2>3, <2>4, <3>1 DEF Order, LastCommand, FirstCommand, Created
    <3>2. CASE n # 0
      BY <2>1, <2>3, <2>4, <2>5, <3>2 DEF Order, FirstCommand, Created
    <3> QED BY <3>1, <3>2
  <2>9. LastCommand'
    BY <2>1, <2>3, <2>4, Instances DEF LastCommand, c
  <2>10. OneCreated'
    BY <2>1, <2>3 DEF Order, OneCreated, Created
  <2> QED BY <2>6, <2>7, <2>8, <2>9, <2>10 DEF Order
<1> QED BY <1>1, <1>2

\* stopService, stopSelf and unbindService let go of the instance that is there last.
LEMMA ReleaseOrder ==
  ASSUME TypeOK, Order, Releases
  PROVE  Order'
<1>1. PICK stillStarted, stillBound \in BOOLEAN :
        Release(stillStarted, stillBound) /\ SameLives /\ UNCHANGED <<destroying, ime>>
  BY DEF Releases
<1>2. CASE ~(~stillStarted /\ ~stillBound /\ current # NoInstance)
  <2>1. Quiet
    BY <1>1, <1>2 DEF Release, Quiet
  <2> QED BY <2>1, QuietOrder
<1>3. CASE ~stillStarted /\ ~stillBound /\ current # NoInstance
  <2> DEFINE n == Len(commands)
             c == Command("destroy", current)
  <2>1. /\ commands \in Seq(Commands) /\ born \in Nat /\ current \in Instance
        /\ destroying \in Instance \cup {NoInstance}
    BY <1>3 DEF TypeOK, ServiceTypeOK, Commands
  <2>2. c \in Commands /\ c.what = "destroy" /\ c.instance = current
    BY <2>1 DEF Command, Commands
  <2>3. /\ commands' = Append(commands, c) /\ current' = NoInstance
        /\ UNCHANGED <<born, destroying>>
        /\ \A i \in Instance : service'[i].life = service[i].life
    BY <1>1, <1>3 DEF Release, SameLives
  <2> HIDE DEF c
  <2>4. /\ n \in Nat /\ DOMAIN commands = 1 .. n
        /\ commands' # << >> /\ Len(commands') = n + 1
        /\ DOMAIN commands' = 1 .. n + 1
        /\ \A m \in 1 .. n : commands'[m] = commands[m] /\ commands[m] \in Commands
        /\ commands'[n + 1] = c
        /\ commands = << >> <=> n = 0
    BY <2>1, <2>2, <2>3, Appended
  <2>5. /\ current = born
        /\ n = 0 => destroying = NoInstance /\ Created(current)
        /\ n # 0 => commands[n] = Command("create", current)
    BY <1>3, <2>4 DEF Order, LastCommand
  <2> HIDE DEF n
  <2>6. \A m \in 1 .. n : commands[m].instance \in Instance /\ commands[m].instance <= born
    BY <2>4 DEF Commands, Order, CommandsAlternate
  <2>7. CommandsAlternate'
    <3>1. \A m \in DOMAIN commands' : commands'[m].instance <= born'
      BY <2>1, <2>2, <2>3, <2>4, <2>5, <2>6
    <3>2. \A m, k \in DOMAIN commands' : m < k =>
            /\ commands'[m].instance <= commands'[k].instance
            /\ commands'[k].what = "create" => commands'[m].instance < commands'[k].instance
      <4> SUFFICES ASSUME NEW m \in 1 .. n + 1, NEW k \in 1 .. n + 1, m < k
                   PROVE  /\ commands'[m].instance <= commands'[k].instance
                          /\ commands'[k].what = "create" =>
                               commands'[m].instance < commands'[k].instance
        BY <2>4
      <4>1. m \in 1 .. n /\ commands'[m] = commands[m]
        BY <2>4
      <4>2. CASE k = n + 1
        BY <2>2, <2>4, <2>5, <2>6, <4>1, <4>2
      <4>3. CASE k # n + 1
        <5>1. k \in 1 .. n /\ commands'[k] = commands[k]
          BY <2>4, <4>3
        <5>2. m \in DOMAIN commands /\ k \in DOMAIN commands
          BY <2>4, <4>1, <5>1
        <5> QED BY <4>1, <5>1, <5>2 DEF Order, CommandsAlternate
      <4> QED BY <4>2, <4>3
    <3>3. ASSUME NEW m \in DOMAIN commands', m + 1 \in DOMAIN commands'
          PROVE  IF commands'[m].what = "create"
                   THEN commands'[m + 1] = Command("destroy", commands'[m].instance)
                   ELSE commands'[m + 1].what = "create"
      <4>1. m \in 1 .. n /\ commands'[m] = commands[m]
        BY <2>4, <3>3
      <4>2. CASE m + 1 = n + 1
        <5>1. commands'[m] = Command("create", current)
          BY <2>4, <2>5, <4>1, <4>2
        <5> QED BY <2>4, <4>2, <5>1 DEF c, Command
      <4>3. CASE m + 1 # n + 1
        BY <2>4, <3>3, <4>3 DEF Order, CommandsAlternate
      <4> QED BY <4>2, <4>3
    <3> QED BY <3>1, <3>2, <3>3 DEF CommandsAlternate
  <2>8. UnbornAhead'
    <3>1. ASSUME NEW m \in DOMAIN commands', commands'[m].what = "create",
                 NEW j \in Instance, j >= commands'[m].instance
          PROVE  service'[j].life = "unborn"
      <4>1. m \in 1 .. n /\ commands'[m] = commands[m]
        BY <2>2, <2>4, <3>1
      <4>2. m \in DOMAIN commands
        BY <2>4, <4>1
      <4> QED BY <2>3, <3>1, <4>1, <4>2 DEF Order, UnbornAhead
    <3> QED BY <2>3, <3>1 DEF Order, UnbornAhead
  <2>9. FirstCommand'
    <3>1. CASE n = 0
      BY <2>1, <2>2, <2>3, <2>4, <2>5, <3>1 DEF FirstCommand, Created
    <3>2. CASE n # 0
      BY <2>1, <2>3, <2>4, <2>6, <3>2 DEF Order, FirstCommand, Created
    <3> QED BY <3>1, <3>2
  <2>10. LastCommand'
    BY <2>2, <2>3, <2>4 DEF LastCommand
  <2>11. OneCreated'
    BY <2>1, <2>3 DEF Order, OneCreated, Created
  <2> QED BY <2>7, <2>8, <2>9, <2>10, <2>11 DEF Order
<1> QED BY <1>2, <1>3

\* What Tail does to the queue of commands.
LEMMA Taken ==
  ASSUME commands \in Seq(Commands), commands # << >>, commands' = Tail(commands)
  PROVE  /\ Len(commands) \in Nat \ {0} /\ DOMAIN commands = 1 .. Len(commands)
         /\ commands[1] \in Commands /\ Head(commands) = commands[1]
         /\ Len(commands') = Len(commands) - 1
         /\ DOMAIN commands' = 1 .. Len(commands) - 1
         /\ \A m \in 1 .. Len(commands) - 1 : commands'[m] = commands[m + 1]
         /\ commands' = << >> <=> Len(commands) = 1
<1>1. /\ Len(commands) \in Nat \ {0} /\ DOMAIN commands = 1 .. Len(commands)
      /\ commands[1] \in Commands
  BY LenProperties, EmptySeq, ElementOfSeq
<1>2. /\ Head(commands) = commands[1] /\ commands' \in Seq(Commands)
      /\ Len(commands') = Len(commands) - 1
      /\ \A m \in 1 .. Len(commands) - 1 : commands'[m] = commands[m + 1]
  BY HeadTailProperties
<1>3. DOMAIN commands' = 1 .. Len(commands) - 1
  BY <1>2, LenProperties
<1>4. commands' = << >> <=> Len(commands') = 0
  BY <1>2, EmptySeq
<1> QED BY <1>1, <1>2, <1>3, <1>4

\* When the first command is taken, the others alternate still.
LEMMA TakenAlternate ==
  ASSUME TypeOK, Order, commands # << >>, commands' = Tail(commands), UNCHANGED born
  PROVE  CommandsAlternate'
<1> DEFINE n == Len(commands)
<1>1. /\ n \in Nat \ {0} /\ DOMAIN commands = 1 .. n /\ DOMAIN commands' = 1 .. n - 1
      /\ \A m \in 1 .. n - 1 : commands'[m] = commands[m + 1]
  BY Taken DEF TypeOK, ServiceTypeOK, Commands
<1> HIDE DEF n
<1>2. \A m \in DOMAIN commands' : m + 1 \in DOMAIN commands /\ commands'[m] = commands[m + 1]
  BY <1>1
<1>3. \A m, k \in DOMAIN commands' : m < k =>
        /\ commands'[m].instance <= commands'[k].instance
        /\ commands'[k].what = "create" => commands'[m].instance < commands'[k].instance
  <2> SUFFICES ASSUME NEW m \in DOMAIN commands', NEW k \in DOMAIN commands', m < k
               PROVE  /\ commands'[m].instance <= commands'[k].instance
                      /\ commands'[k].what = "create" =>
                           commands'[m].instance < commands'[k].instance
    OBVIOUS
  <2>1. m + 1 < k + 1
    BY <1>1
  <2> QED BY <1>2, <2>1 DEF Order, CommandsAlternate
<1>4. ASSUME NEW m \in DOMAIN commands', m + 1 \in DOMAIN commands'
      PROVE  IF commands'[m].what = "create"
               THEN commands'[m + 1] = Command("destroy", commands'[m].instance)
               ELSE commands'[m + 1].what = "create"
  BY <1>2, <1>4 DEF Order, CommandsAlternate
<1>5. \A m \in DOMAIN commands' : commands'[m].instance <= born'
  BY <1>2 DEF Order, CommandsAlternate
<1> QED BY <1>3, <1>4, <1>5 DEF CommandsAlternate

\* onCreate makes the instance of the first command, which was the next one to be made.
LEMMA CreateOrder ==
  ASSUME TypeOK, Order, onCreate
  PROVE  Order'
<1> DEFINE n == Len(commands)
           i == commands[1].instance
<1>1. /\ commands \in Seq(Commands) /\ commands # << >> /\ destroying = NoInstance
      /\ service \in [Instance -> Fields] /\ commands' = Tail(commands)
      /\ UNCHANGED <<born, current, destroying>>
  BY DEF onCreate, NextCommand, MainIdle, TypeOK, ServiceTypeOK, Commands
<1>2. /\ n \in Nat \ {0} /\ DOMAIN commands = 1 .. n /\ commands[1] \in Commands
      /\ Head(commands) = commands[1]
      /\ Len(commands') = n - 1 /\ DOMAIN commands' = 1 .. n - 1
      /\ \A m \in 1 .. n - 1 : commands'[m] = commands[m + 1]
      /\ commands' = << >> <=> n = 1
  BY <1>1, Taken
<1>3. /\ i \in Instance /\ commands[1].what = "create"
      /\ service' = [service EXCEPT ![i] =
                   [@ EXCEPT !.life = "created", !.savedIme = ime, !.thread = "bind"]]
  BY <1>2 DEF onCreate, NextCommand, Commands
<1> HIDE DEF n, i
<1>4. /\ service'[i].life = "created"
      /\ \A j \in Instance : j # i => service'[j].life = service[j].life
  BY <1>1, <1>3 DEF Fields
<1>5. \A j \in Instance : ~Created(j)
  BY <1>1, <1>3 DEF Order, FirstCommand
<1>6. \A m \in 2 .. n : commands[m].what = "create" => i < commands[m].instance
  BY <1>2 DEF Order, CommandsAlternate, i
<1>7. n > 1 => commands'[1] = Command("destroy", i)
  BY <1>2, <1>3, SMTT(30) DEF Order, CommandsAlternate, i
<1>8. CommandsAlternate'
  BY <1>1, TakenAlternate
<1>9. UnbornAhead'
  <2>1. i <= born /\ born \in Nat /\ i \in Nat
    <3>1. i \in Nat /\ born \in Nat
      BY <1>3, Instances DEF TypeOK, ServiceTypeOK
    <3>2. i <= born
      BY <1>2, <1>3 DEF Order, CommandsAlternate, i
    <3> QED BY <3>1, <3>2
  <2>2. ASSUME NEW j \in Instance, j > born PROVE service'[j].life = "unborn"
    BY <1>4, <2>1, <2>2, Instances DEF Order, UnbornAhead
  <2>3. ASSUME NEW m \in DOMAIN commands', commands'[m].what = "create",
               NEW j \in Instance, j >= commands'[m].instance
        PROVE  service'[j].life = "unborn"
    <3>1. m + 1 \in 2 .. n /\ m + 1 \in DOMAIN commands /\ commands'[m] = commands[m + 1]
      BY <1>2, <2>3
    <3>2. i < commands[m + 1].instance /\ commands[m + 1].instance \in Nat
      <4>1. commands[m + 1] \in Commands
        BY <1>1, <1>2, <3>1, ElementOfSeq
      <4> QED BY <1>6, <2>3, <3>1, <4>1, Instances DEF Commands
    <3>3. j # i
      BY <2>1, <2>3, <3>1, <3>2, Instances
    <3>4. service[j].life = "unborn"
      BY <2>3, <3>1 DEF Order, UnbornAhead
    <3> QED BY <1>4, <3>3, <3>4
  <2> QED BY <1>1, <2>2, <2>3 DEF UnbornAhead
<1>10. FirstCommand'
  BY <1>1, <1>2, <1>3, <1>4, <1>7 DEF FirstCommand, Created, Command
<1>11. LastCommand'
  <2>1. CASE n = 1
    BY <1>1, <1>2, <1>3, <1>4, <2>1, Instances, SMTT(60) DEF Order, LastCommand, Created, Command, i, n
  <2>2. CASE n # 1
    BY <1>1, <1>2, <2>2 DEF Order, LastCommand, n
  <2> QED BY <2>1, <2>2
<1>12. OneCreated'
  BY <1>1, <1>4, <1>5 DEF OneCreated, Created
<1> QED BY <1>8, <1>9, <1>10, <1>11, <1>12 DEF Order

\* onDestroy is for the instance that is there.
LEMMA DestroyOrder ==
  ASSUME TypeOK, Order, onDestroy
  PROVE  Order'
<1> DEFINE n == Len(commands)
           i == commands[1].instance
<1>1. /\ commands \in Seq(Commands) /\ commands # << >> /\ destroying = NoInstance
      /\ service \in [Instance -> Fields] /\ commands' = Tail(commands)
      /\ UNCHANGED <<born, current>>
  BY DEF onDestroy, NextCommand, MainIdle, TypeOK, ServiceTypeOK, Commands
<1>2. /\ n \in Nat \ {0} /\ DOMAIN commands = 1 .. n /\ commands[1] \in Commands
      /\ Head(commands) = commands[1]
      /\ Len(commands') = n - 1 /\ DOMAIN commands' = 1 .. n - 1
      /\ \A m \in 1 .. n - 1 : commands'[m] = commands[m + 1]
      /\ commands' = << >> <=> n = 1
  BY <1>1, Taken
<1>3. /\ i \in Instance /\ commands[1].what = "destroy" /\ destroying' = i
      /\ service' = [service EXCEPT ![i].inputEventHandler = Stopped(@)]
  BY <1>2 DEF onDestroy, NextCommand, Commands
<1> HIDE DEF n
<1>4. \A j \in Instance : service'[j].life = service[j].life
  BY <1>1, <1>3 DEF Fields
<1>5. Created(i)
  BY <1>1, <1>3 DEF Order, FirstCommand
<1>6. n > 1 => commands'[1].what = "create"
  BY <1>2, <1>3 DEF Order, CommandsAlternate
<1>7. CommandsAlternate'
  BY <1>1, TakenAlternate
<1>8. UnbornAhead'
  BY <1>1, <1>2, <1>4, SMTT(30) DEF Order, UnbornAhead
<1> HIDE DEF i
<1>9. FirstCommand'
  BY <1>2, <1>3, <1>6, Instances DEF FirstCommand
<1>10. LastCommand'
  <2>1. CASE n = 1
    BY <1>1, <1>2, <1>3, <2>1, Instances DEF Order, LastCommand, Command, n
  <2>2. CASE n # 1
    BY <1>1, <1>2, <2>2 DEF Order, LastCommand, n
  <2> QED BY <2>1, <2>2
<1>11. OneCreated'
  BY <1>3, <1>4, <1>5 DEF Order, OneCreated, Created
<1> QED BY <1>7, <1>8, <1>9, <1>10, <1>11 DEF Order

\* When it has closed the sockets, no instance is there.
LEMMA CloseOrder ==
  ASSUME TypeOK, Order, CloseSockets
  PROVE  /\ Order'
         /\ \A j \in Instance : ~Created(j)'
         /\ \A j \in Instance \ {destroying} : service'[j] = service[j]
<1>1. /\ destroying \in Instance /\ destroying' = NoInstance
      /\ service \in [Instance -> Fields]
      /\ UNCHANGED <<commands, born, current>>
  BY DEF CloseSockets, TypeOK, ServiceTypeOK
<1>2. /\ service'[destroying].life = "destroyed"
      /\ \A j \in Instance \ {destroying} : service'[j] = service[j]
  BY <1>1 DEF CloseSockets, Fields
<1>3. Created(destroying)
  BY <1>1, Instances DEF Order, OneCreated
<1>4. \A j \in Instance : ~Created(j)'
  BY <1>1, <1>2, <1>3 DEF Order, OneCreated, Created
<1>5. CommandsAlternate'
  BY <1>1 DEF Order, CommandsAlternate
<1>6. UnbornAhead'
  BY <1>1, <1>2, <1>3 DEF Order, UnbornAhead, Created
<1>7. FirstCommand'
  BY <1>1, <1>4, Instances DEF Order, FirstCommand, Created
<1>8. LastCommand'
  BY <1>1, <1>4, Instances DEF Order, LastCommand, Created
<1>9. OneCreated'
  BY <1>1, <1>4 DEF OneCreated, Created
<1> QED BY <1>2, <1>4, <1>5, <1>6, <1>7, <1>8, <1>9 DEF Order

\* The process that dies leaves no instance, and one command at most.
LEMMA DeathOrder ==
  ASSUME TypeOK, Order, ProcessDies
  PROVE  /\ Order'
         /\ \A j \in Instance : ~Created(j)'
         /\ ~Killed' => \A j \in Instance : ~Created(j)
<1>1. /\ service \in [Instance -> Fields] /\ born \in Nat
      /\ service' = [j \in Instance |-> Dead(service[j])]
      /\ destroying' = NoInstance
  <2>1. service' = [j \in Instance |-> Dead(service[j])] /\ destroying' = NoInstance
    BY DEF ProcessDies, ServiceDies, Dead
  <2> QED BY <2>1 DEF TypeOK, ServiceTypeOK
<1>2. \A j \in Instance :
        /\ service[j].life = "unborn" <=> service'[j].life = "unborn"
        /\ service'[j].life # "created"
        /\ service[j].life = "created" => service'[j].life = "killed"
  <2>1. ASSUME NEW f \in Fields
        PROVE  /\ f.life = "unborn" <=> Dead(f).life = "unborn"
               /\ Dead(f).life # "created"
               /\ f.life = "created" => Dead(f).life = "killed"
    BY DEF Fields, Dead, Unborn
  <2> QED BY <1>1, <2>1
<1>3. CASE started /\ born < MaxInstances
  <2>1. /\ current' = born + 1 /\ born' = born + 1
        /\ commands' = <<Command("create", born + 1)>>
    BY <1>3 DEF ProcessDies, ServiceDies
  <2>2. /\ commands'[1].what = "create" /\ commands'[1].instance = born + 1
        /\ commands'[1] = Command("create", born + 1)
        /\ DOMAIN commands' = {1} /\ Len(commands') = 1 /\ commands' # << >>
    BY <2>1 DEF Command
  <2>3. CommandsAlternate'
    BY <1>1, <2>1, <2>2 DEF CommandsAlternate
  <2>4. UnbornAhead'
    BY <1>1, <1>2, <2>1, <2>2, Instances DEF Order, UnbornAhead
  <2>5. FirstCommand' /\ OneCreated'
    BY <1>1, <1>2, <2>2 DEF FirstCommand, OneCreated, Created
  <2>6. LastCommand'
    BY <1>1, <2>1, <2>2 DEF LastCommand, NoInstance
  <2> QED BY <1>2, <2>3, <2>4, <2>5, <2>6 DEF Order, Created, Killed
<1>4. CASE ~(started /\ born < MaxInstances)
  <2>1. current' = NoInstance /\ born' = born /\ commands' = << >>
    BY <1>4 DEF ProcessDies, ServiceDies
  <2>2. DOMAIN commands' = {}
    BY <2>1, EmptySeq, LenProperties
  <2>3. CommandsAlternate' /\ UnbornAhead' /\ FirstCommand' /\ OneCreated' /\ LastCommand'
    BY <1>1, <1>2, <2>1, <2>2
    DEF Order, CommandsAlternate, UnbornAhead, FirstCommand, OneCreated, LastCommand, Created
  <2> QED BY <1>2, <2>3 DEF Order, Created, Killed
<1> QED BY <1>3, <1>4

------------------------------------------------------------------------------
(* The input method *)

\* A step that leaves lives and input method alone leaves the user's alone.
LEMMA SameUsers ==
  ASSUME UsersInputMethod, SameLives, UNCHANGED ime
  PROVE  UsersInputMethod'
BY DEF UsersInputMethod, SameLives, Created, Killed, Method

\* onCreate finds no instance, and so saves the input method that is left.
LEMMA CreateUsers ==
  ASSUME TypeOK, Order, UsersInputMethod, onCreate
  PROVE  UsersInputMethod'
<1> DEFINE i == commands[1].instance
<1>1. /\ commands \in Seq(Commands) /\ commands # << >> /\ destroying = NoInstance
      /\ service \in [Instance -> Fields] /\ ime # "none"
      /\ commands[1] \in Commands /\ Head(commands) = commands[1] /\ 1 \in DOMAIN commands
  <2>1. commands \in Seq(Commands) /\ commands # << >> /\ commands' = Tail(commands)
    BY DEF onCreate, NextCommand, TypeOK, ServiceTypeOK, Commands
  <2>2. /\ commands[1] \in Commands /\ Head(commands) = commands[1] /\ 1 \in DOMAIN commands
    BY <2>1, Taken
  <2> QED BY <2>1, <2>2 DEF onCreate, NextCommand, MainIdle, TypeOK, ServiceTypeOK
<1>2. /\ i \in Instance /\ commands[1].what = "create"
      /\ service' = [service EXCEPT ![i] =
                   [@ EXCEPT !.life = "created", !.savedIme = ime, !.thread = "bind"]]
  BY <1>1 DEF onCreate, NextCommand, Commands
<1>3. /\ \A j \in Instance : ~Created(j)
      /\ service[i].life = "unborn"
  <2>1. i >= i
    BY <1>2, Instances
  <2> QED BY <1>1, <1>2, <2>1 DEF Order, FirstCommand, UnbornAhead
<1> HIDE DEF i
<1>4. /\ service'[i].life = "created" /\ service'[i].savedIme = ime
      /\ \A j \in Instance \ {i} : service'[j] = service[j]
  BY <1>1, <1>2 DEF Fields
<1>5. Killed' <=> Killed
  BY <1>2, <1>3, <1>4 DEF Killed
<1>6. ime = Method /\ UNCHANGED Method /\ ime' = "HardKeyboard"
  BY <1>3, <1>5 DEF UsersInputMethod, Method, onCreate
<1> QED BY <1>2, <1>3, <1>4, <1>6 DEF UsersInputMethod, Created

\* CloseSockets gives the user back the input method that was saved.
LEMMA CloseUsers ==
  ASSUME TypeOK, Order, UsersInputMethod, CloseSockets
  PROVE  UsersInputMethod'
<1>1. /\ destroying \in Instance /\ Created(destroying)
      /\ ime' = service[destroying].savedIme
  BY DEF CloseSockets, restoreInputMethod, TypeOK, ServiceTypeOK, Order, OneCreated
<1>2. /\ \A j \in Instance : ~Created(j)'
      /\ \A j \in Instance \ {destroying} : service'[j] = service[j]
  BY CloseOrder
<1>3. Killed' <=> Killed
  <2>1. service'[destroying].life = "destroyed"
    BY <1>1, SMTT(30) DEF CloseSockets, TypeOK, ServiceTypeOK, Fields
  <2> QED BY <1>1, <1>2, <2>1 DEF Killed, Created
<1>4. service[destroying].savedIme = Method' /\ \A j \in Instance : ~Created(j)'
  BY <1>1, <1>2, <1>3 DEF UsersInputMethod, Method
<1> QED BY <1>1, <1>4 DEF UsersInputMethod

\* A process that dies with an instance leaves HardKeyboard, and without one what it was.
LEMMA DeathUsers ==
  ASSUME TypeOK, Order, UsersInputMethod, ProcessDies
  PROVE  UsersInputMethod'
<1>1. /\ \A j \in Instance : ~Created(j)'
      /\ ~Killed' => \A j \in Instance : ~Created(j)
      /\ UNCHANGED ime
  BY DeathOrder DEF ProcessDies, ServiceDies
<1>3. CASE \E j \in Instance : Created(j)
  <2>1. ime = "HardKeyboard" /\ Killed'
    BY <1>1, <1>3 DEF UsersInputMethod
  <2> QED BY <1>1, <2>1 DEF UsersInputMethod, Method
<1>4. CASE \A j \in Instance : ~Created(j)
  <2>1. service \in [Instance -> Fields] /\ service' = [j \in Instance |-> Dead(service[j])]
    <3>1. service' = [j \in Instance |-> Dead(service[j])]
      BY DEF ProcessDies, ServiceDies, Dead
    <3> QED BY <3>1 DEF TypeOK, ServiceTypeOK
  <2>2. ASSUME NEW f \in Fields, f.life # "created"
        PROVE  Dead(f).life = "killed" <=> f.life = "killed"
    BY <2>2 DEF Fields, Dead, Unborn
  <2>3. Killed' <=> Killed
    BY <1>4, <2>1, <2>2 DEF Killed, Created
  <2> QED BY <1>1, <1>4, <2>3 DEF UsersInputMethod, Method
<1> QED BY <1>3, <1>4

\* The inductive invariant: the lives of the instances in the order of the commands, and
\* what is saved of the input method.
Lives == TypeOK /\ Order /\ UsersInputMethod

LEMMA LivesInit == Init => Lives
<1> SUFFICES ASSUME Init PROVE Lives
  OBVIOUS
<1>1. /\ commands = << >> /\ current = NoInstance /\ destroying = NoInstance /\ born = 0
      /\ ime = "user" /\ \A i \in Instance : service[i].life = "unborn"
  BY DEF Init, ServiceInit, Unborn
<1>2. DOMAIN commands = {}
  BY <1>1, EmptySeq, LenProperties
<1>3. Order
  BY <1>1, <1>2
  DEF Order, CommandsAlternate, UnbornAhead, FirstCommand, LastCommand, OneCreated, Created
<1>4. UsersInputMethod
  BY <1>1 DEF UsersInputMethod, Created, Killed, Method
<1> QED BY <1>3, <1>4, InitTyped DEF Lives

LEMMA LivesNext == Lives /\ [Next]_linkVars => Lives'
<1> SUFFICES ASSUME Lives, [Next]_linkVars PROVE Lives'
  OBVIOUS
<1>1. TypeOK /\ Order /\ UsersInputMethod
  BY DEF Lives
<1>2. CASE UNCHANGED linkVars
  <2>1. TypeOK'
    BY <1>1, <1>2 DEF TypeOK, ServiceTypeOK, ActivityTypeOK, ClientTypeOK, linkVars, phoneVars,
       serviceVars, androidVars, activityVars, clientVars
  <2>2. Quiet
    BY <1>2 DEF Quiet, SameLives, linkVars, phoneVars, serviceVars, androidVars
  <2> QED BY <1>1, <2>1, <2>2, QuietOrder, SameUsers DEF Quiet, Lives
<1>3. CASE Next
  <2>1. Destroying
    BY <1>1 DEF Destroying, Order, OneCreated, Created, UsersInputMethod, Method, TypeOK,
       ServiceTypeOK
  <2>2. TypeOK'
    BY <1>1, <1>3, <2>1, NextTyped
  <2>3. CASE Quiet
    BY <1>1, <2>2, <2>3, QuietOrder, SameUsers DEF Quiet, Lives
  <2>4. CASE Starts
    BY <1>1, <2>2, <2>4, StartOrder, SameUsers DEF Starts, Lives
  <2>5. CASE Releases
    BY <1>1, <2>2, <2>5, ReleaseOrder, SameUsers DEF Releases, Lives
  <2>6. CASE onCreate
    BY <1>1, <2>2, <2>6, CreateOrder, CreateUsers DEF Lives
  <2>7. CASE onDestroy
    <3>1. SameLives /\ UNCHANGED ime
      BY <1>1, <2>7 DEF onDestroy, SameLives, TypeOK, ServiceTypeOK, Fields
    <3> QED BY <1>1, <2>2, <2>7, <3>1, DestroyOrder, SameUsers DEF Lives
  <2>8. CASE CloseSockets
    BY <1>1, <2>2, <2>8, CloseOrder, CloseUsers DEF Lives
  <2>9. CASE ProcessDies
    BY <1>1, <2>2, <2>9, DeathOrder, DeathUsers DEF Lives
  <2> QED BY <1>1, <1>3, <2>3, <2>4, <2>5, <2>6, <2>7, <2>8, <2>9, StepKinds
<1> QED BY <1>2, <1>3

\* Whatever user, system and Linux side do, the instances are made and destroyed in turn.
THEOREM LivesAlways == Spec => []Lives
BY LivesInit, LivesNext, PTL DEF Spec

\* The fields of service, activity and Linux side keep their types.
THEOREM LinkTypeCorrect == Spec => []TypeOK
<1>1. Lives => TypeOK
  BY DEF Lives
<1> QED BY <1>1, LivesAlways, PTL

\* restoreInputMethod gives the user his input method back, in whatever order instances
\* are started and stopped, until one is killed, and HardKeyboard ever after.
THEOREM InputMethodIsRestored == Spec => []InputMethodRestored
<1>1. Lives => InputMethodRestored
  BY DEF Lives, UsersInputMethod, InputMethodRestored, Created, Killed, Method
<1> QED BY <1>1, LivesAlways, PTL
==============================================================================
