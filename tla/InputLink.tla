------------------------------ MODULE InputLink ------------------------------
(***************************************************************************)
(* The input session from end to end: the activity, the instances of the   *)
(* service with their server threads, and the process on the Linux side.   *)
(* The user uses the switch, the box and the activity at any time, the     *)
(* system may kill the process of the phone, and the Linux side may end    *)
(* and start again.                                                        *)
(***************************************************************************)
EXTENDS MainActivity, InputClient

linkVars == <<phoneVars, clientVars>>

Init == ServiceInit /\ ActivityInit /\ ClientInit

User == SwitchOn \/ SwitchOff \/ UseBox \/ UseBoxTooEarly \/ Launch \/ Leave \/ LeaveFails

Messages == HandleConnection \/ HandleClose \/ HandleCloseFails

Phone ==
  \/ User
  \/ Messages
  \/ onServiceConnected
  \/ Timer
  \/ \E i \in Instance : ServiceThread(i)
  \/ ServiceCommands
  \/ UncaughtException

Client == ConnectInputServer \/ PipeOpen \/ ReceiveEnd \/ closeApp

Next ==
  \/ Phone /\ UNCHANGED clientVars
  \/ ProcessDies /\ UNCHANGED <<savedMonitorCb, clientVars>>
  \/ Client /\ UNCHANGED activityVars

Spec == Init /\ [][Next]_linkVars

------------------------------------------------------------------------------
TypeOK == ServiceTypeOK /\ ActivityTypeOK /\ ClientTypeOK

\* onDestroy leaves no server socket behind, and the Linux side can tell that its
\* connection is over, unless the server thread took the socket or the connection after
\* onDestroy had looked for it.
DestroyReleases ==
  \A i \in Instance \ overtaken :
    service[i].life = "destroyed" =>
      service[i].server # "open" /\ (InputSocket = i => ConnectionOver)

\* The event loop is told to stop before its connection is closed, with the same
\* exception: a loop that is not told reads the closed socket for ever.
LoopIsTold ==
  \A i \in Instance \ overtaken :
    service[i].conn = "phoneClosed" /\ (At(i, "made") \/ At(i, "serving")) =>
      service[i].inputEventHandler = "stopped"

\* When no service is there the user has his input method back.  A service that was
\* killed could not restore it, and every later one saves and restores HardKeyboard.
InputMethodRestored ==
  (\A i \in Instance : service[i].life # "created") =>
    ime = IF \E i \in Instance : service[i].life = "killed" THEN "HardKeyboard" ELSE "user"

\* The preference that says connected is the doing of a service that is there and has
\* had its connection, of one that was killed, or of a thread that onDestroy missed.
PreferenceHasOwner ==
  isConnected =>
    \E i \in Instance :
      \/ service[i].life = "killed" \/ i \in overtaken
      \/ service[i].life = "created" /\ service[i].client

\* What the box says is what the Linux side was last told, once the box was used with a
\* service to tell, and only the timer of the first start overrides it: for a while if the
\* box says on, and for good if the box was switched off before the timer had sent its
\* last START.
OnlyTimerOverridesBox ==
  ptservice # NoInstance /\ switched # "no" =>
    LET told == service[ptservice].told
    IN  /\ monitorCb => told = "START" \/ \E timer \in Pending(ptservice) : timer.next = "START"
        /\ ~monitorCb /\ switched = "yes" => told = "SLEEP"
        /\ ~monitorCb /\ switched = "underTimer" /\ Pending(ptservice) = {} => told = "START"

\* What restoreUI is for: the screen says connected only while the service that is there
\* is not still waiting for its client.
ScreenShowsService ==
  handler /\ screen = "connected" /\ uiMessages = << >> /\ MainIdle /\ current # NoInstance =>
    ~At(current, "accept")
==============================================================================
