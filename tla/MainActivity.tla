----------------------------- MODULE MainActivity -----------------------------
(***************************************************************************)
(* The activity with its switch and check boxes (MainActivity.java,        *)
(* UIHandler.java), its connection to the service                          *)
(* (PhonetopServiceConnection.java) and the monitor commands it gives      *)
(* through it (PhonetopServiceBinder.java), over PhonetopService.  All of  *)
(* it runs on the main thread, except for the timer of the first start of  *)
(* the monitor.  Of the check boxes only the one of the monitor is here.   *)
(*                                                                         *)
(* An activity is destroyed before the next one is created, and starts     *)
(* without the saved state of an earlier one.                              *)
(***************************************************************************)
EXTENDS PhonetopService

VARIABLES
  sw,              \* the switch; an activity that is not there has it off
  screen,          \* "closed", "connecting" or "connected"
  enabled,         \* may the boxes be used?
  monitorCb,       \* the box
  savedMonitorCb,  \* the saved preference
  ptservice,       \* the instance whose binder the connection has got
  isFirst,         \* PhonetopService.isFirst
  timers,          \* startMonitorThreads: their instance, and what they send next
  switched         \* history: was the box used with a binder since the switch, and the
                   \* last time under a startMonitorThread of that instance?

activityVars ==
  <<sw, screen, enabled, monitorCb, savedMonitorCb, ptservice, isFirst, timers, switched>>
phoneVars    == <<serviceVars, activityVars>>

ActivityInit ==
  /\ sw = FALSE
  /\ screen = "closed" /\ enabled = FALSE
  /\ monitorCb = FALSE /\ savedMonitorCb = FALSE
  /\ ptservice = NoInstance
  /\ isFirst = FALSE
  /\ timers = {}
  /\ switched = "no"

ActivityTypeOK ==
  /\ {sw, enabled, monitorCb, savedMonitorCb, isFirst} \subseteq BOOLEAN
  /\ screen \in {"closed", "connecting", "connected"}
  /\ ptservice \in Instance \cup {NoInstance}
  /\ timers \subseteq [instance : Instance, next : {"SLEEP", "START"}]
  /\ switched \in {"no", "yes", "underTimer"}

\* The views of an activity that is gone, or new.
NoViews ==
  /\ sw' = FALSE
  /\ screen' = "closed" /\ enabled' = FALSE
  /\ monitorCb' = FALSE
  /\ ptservice' = NoInstance
  /\ switched' = "no"

\* An uncaught exception or the system ends the process; the saved preference apart.
ProcessDies ==
  /\ ServiceDies
  /\ NoViews
  /\ isFirst' = FALSE
  /\ timers' = {}

UncaughtException ==
  /\ \E i \in Instance : StartFails(i)
  /\ ProcessDies
  /\ UNCHANGED savedMonitorCb

------------------------------------------------------------------------------
(* The switch *)

\* onCheckedChanged(true) but for the views.
TurnOn(messages) ==
  /\ isFirst' = TRUE
  /\ switched' = "no"
  /\ StartAndBind
  /\ ptservice' = NoInstance
  /\ uiMessages' = Append(messages, IF isConnected THEN "CONNECTED" ELSE "CONNECTING")

\* onCheckedChanged(false).
TurnOff(messages) ==
  /\ sw' = FALSE
  /\ isFirst' = FALSE
  /\ switched' = "no"
  /\ Release(FALSE, FALSE)
  /\ ptservice' = NoInstance
  /\ uiMessages' = Append(messages, "CLOSE")

SwitchOn ==
  /\ MainIdle /\ handler /\ ~sw /\ MayStart
  /\ sw' = TRUE
  /\ TurnOn(uiMessages)
  /\ UNCHANGED <<ime, isConnected, handler, destroying, service, overtaken,
                 screen, enabled, monitorCb, savedMonitorCb, timers>>

SwitchOff ==
  /\ MainIdle /\ handler /\ sw
  /\ TurnOff(uiMessages)
  /\ UNCHANGED <<ime, isConnected, handler, destroying, service, overtaken,
                 screen, enabled, monitorCb, savedMonitorCb, timers>>

\* A binding is reported once its instance is there; one that is gone is not reported.
onServiceConnected ==
  /\ MainIdle
  /\ bound /\ ptservice = NoInstance
  /\ service[current].life = "created"
  /\ ptservice' = current
  /\ UNCHANGED <<serviceVars,
                 sw, screen, enabled, monitorCb, savedMonitorCb, isFirst, timers, switched>>

\* onCreate and restoreUI.  Boxes set while the connection has no binder yet reach
\* nobody.
Launch ==
  /\ MainIdle /\ ~handler
  /\ handler' = TRUE
  /\ IF current # NoInstance
       THEN /\ sw' = TRUE
            /\ TurnOn(<< >>)
            /\ monitorCb' = (isConnected /\ savedMonitorCb)
       ELSE UNCHANGED <<started, bound, current, born, commands, uiMessages,
                        sw, monitorCb, ptservice, isFirst, switched>>
  /\ UNCHANGED <<ime, isConnected, destroying, service, overtaken,
                 screen, enabled, savedMonitorCb, timers>>

CloseQueued == \E m \in DOMAIN uiMessages : uiMessages[m] = "CLOSE"

\* onDestroy.  The UIHandler of the activity that is gone still gets what was posted
\* before: a CLOSE switches off its boxes, whose listeners save that, and its switch.
Leave ==
  /\ MainIdle /\ handler
  /\ ~(sw /\ CloseQueued)
  /\ handler' = FALSE
  /\ uiMessages' = << >>
  /\ Release(started, FALSE)
  /\ NoViews
  /\ savedMonitorCb' = (savedMonitorCb /\ ~(monitorCb /\ CloseQueued))
  /\ UNCHANGED <<ime, isConnected, destroying, service, overtaken, isFirst, timers>>

------------------------------------------------------------------------------
(* The monitor *)

\* PhonetopServiceBinder dereferences the input handler, and that its stream.
Ready(i) == service[i].inputEventHandler # "null" /\ service[i].thread # "made"

\* The listener of a switch that was on unbinds once more, which throws, unless that of
\* the box, which comes before it, has thrown.
LeaveFails ==
  /\ MainIdle /\ handler
  /\ sw /\ CloseQueued
  /\ savedMonitorCb' =
       (savedMonitorCb /\ ~(monitorCb /\ (ptservice # NoInstance => Ready(ptservice))))
  /\ ProcessDies

Tell(i, what) == service' = [service EXCEPT ![i].told = what]

\* mutant: the timer ends with the monitor asleep
SleepLast(timer) ==
  /\ Tell(timer.instance, IF timer.next = "SLEEP" THEN "START" ELSE "SLEEP")
  /\ timers' = (timers \ {timer}) \cup
                 (IF timer.next = "SLEEP" THEN {[timer EXCEPT !.next = "START"]} ELSE {})

Pending(i) == {timer \in timers : timer.instance = i}

\* run() of startMonitorThread: SLEEP after one second, START after two more.  Two
\* threads of an instance with the same to send next are one record.
TimerSends(timer) ==
  /\ Tell(timer.instance, timer.next)
  /\ timers' = (timers \ {timer}) \cup
                 (IF timer.next = "SLEEP" THEN {[timer EXCEPT !.next = "START"]} ELSE {})

\* The listener of the box, with a binder to send the command by.
\* startMonitorService with isFirst starts the timer.
SendCommand(on, i) ==
  /\ Tell(i, IF on THEN "START" ELSE "SLEEP")
  /\ isFirst' = (isFirst /\ ~on)
  /\ timers' = IF isFirst /\ on THEN timers \cup {[instance |-> i, next |-> "SLEEP"]} ELSE timers
  /\ switched' = IF Pending(i) = {} THEN "yes" ELSE "underTimer"

UseBox ==
  /\ MainIdle /\ handler /\ enabled
  /\ ptservice # NoInstance => Ready(ptservice)
  /\ monitorCb' = ~monitorCb
  /\ savedMonitorCb' = ~monitorCb
  /\ IF ptservice # NoInstance
       THEN SendCommand(~monitorCb, ptservice)
       ELSE switched' = "no" /\ UNCHANGED <<service, isFirst, timers>>
  /\ UNCHANGED <<androidVars, handler, uiMessages, destroying, overtaken, sw, screen,
                 enabled, ptservice>>

\* The boxes are enabled before the service has its input handler.
UseBoxTooEarly ==
  /\ MainIdle /\ handler /\ enabled
  /\ ptservice # NoInstance /\ ~Ready(ptservice)
  /\ ProcessDies
  /\ UNCHANGED savedMonitorCb

Timer ==
  /\ \E timer \in timers : TimerSends(timer)
  /\ UNCHANGED <<androidVars, handler, uiMessages, destroying, overtaken, sw, screen, enabled,
                 monitorCb, savedMonitorCb, ptservice, isFirst, switched>>

------------------------------------------------------------------------------
(* handleMessage of UIHandler *)

NextMessage(what) == MainIdle /\ handler /\ uiMessages # << >> /\ Head(uiMessages) = what

\* CONNECTING leaves the boxes as they are.
HandleConnection ==
  /\ \/ NextMessage("CONNECTING") /\ screen' = "connecting" /\ UNCHANGED enabled
     \/ NextMessage("CONNECTED") /\ screen' = "connected" /\ enabled' = TRUE
  /\ uiMessages' = Tail(uiMessages)
  /\ UNCHANGED <<androidVars, handler, destroying, service, overtaken,
                 sw, monitorCb, savedMonitorCb, ptservice, isFirst, timers, switched>>

SwitchGoesOff(messages) ==
  IF sw THEN TurnOff(messages)
        ELSE /\ uiMessages' = messages
             /\ switched' = "no"
             /\ UNCHANGED <<started, bound, current, born, commands, sw, ptservice, isFirst>>

\* The boxes and the switch go off, each with its listener.
HandleClose ==
  /\ NextMessage("CLOSE")
  /\ monitorCb /\ ptservice # NoInstance => Ready(ptservice)
  /\ screen' = "closed" /\ enabled' = FALSE
  /\ monitorCb' = FALSE
  /\ savedMonitorCb' = (savedMonitorCb /\ ~monitorCb)
  /\ IF monitorCb /\ ptservice # NoInstance THEN Tell(ptservice, "SLEEP") ELSE UNCHANGED service
  /\ SwitchGoesOff(Tail(uiMessages))
  /\ UNCHANGED <<ime, isConnected, handler, destroying, overtaken, timers>>

\* The box may be restored before the service has its input handler, too.
HandleCloseFails ==
  /\ NextMessage("CLOSE")
  /\ monitorCb /\ ptservice # NoInstance /\ ~Ready(ptservice)
  /\ ProcessDies
  /\ UNCHANGED savedMonitorCb

ServiceThread(i) ==
  /\ ThreadStep(i)
  /\ UNCHANGED activityVars

ServiceCommands ==
  /\ onCreate \/ onDestroy \/ CloseSockets
  /\ UNCHANGED activityVars
==============================================================================
